------------------------------ MODULE ThreadPool ------------------------------
(***************************************************************************)
(* The thread pool and its bounded queue (ThreadPool of concurrency.cpp,   *)
(* BoundedQueue of concurrency.hpp): clients submit jobs, workers take and *)
(* run them, and one caller at a time starts the pool or shuts it down.    *)
(*                                                                         *)
(* A step is what a thread does under one mutex, or one atomic operation   *)
(* another thread can tell from its neighbours.  A worker waiting on the   *)
(* queue's condition variable is "asleep" until it is notified, or for no  *)
(* reason at all.  Only try_push is used, so nobody waits for space.       *)
(*                                                                         *)
(* What a job does is left to the module that extends this one: it moves a *)
(* worker from "run" to "record".  The counters jobs_in_flight, peak_queue *)
(* and rejected are left out.                                              *)
(***************************************************************************)
EXTENDS Integers, Sequences, FiniteSets

CONSTANTS Workers,   \* the threads of a started pool
          Clients,   \* the threads that submit
          Jobs,      \* the jobs that may be submitted, each once
          Throwing,  \* those that end with an exception
          Capacity   \* queue_depth

ASSUME PoolAssumption ==
    /\ IsFiniteSet(Workers) /\ Workers # {} /\ IsFiniteSet(Clients) /\ IsFiniteSet(Jobs)
    /\ Jobs \subseteq Nat \ {0} /\ Throwing \subseteq Jobs
    /\ Capacity \in Nat \ {0}

VARIABLES
    queue,      \* queue_: the jobs that wait
    gate,       \* "open", "closed" (closed_) or "aborted" (aborted_)
    cancelled,  \* the flag behind every CancellationToken of the pool
    running,    \* running_
    threads,    \* threads_
    worker,     \* worker -> [at, job]: its place in worker_loop and the job it holds
    client,     \* client -> [at, job]: its place in submit
    life,       \* the place of the holder of lifecycle_mutex_; "idle" if there is none
    counted,    \* the local `dropped` of an abort
    stats,      \* stats_
    dropped,    \* history: the jobs an abort removed from the queue
    drift       \* history: pops less pushes between an abort's count and its removal

poolVars == <<queue, gate, cancelled, running, threads, worker, client, life, counted, stats,
              dropped, drift>>

\* No job.
None == 0

PoolInit ==
    /\ queue = <<>> /\ gate = "open" /\ cancelled = FALSE /\ running = FALSE
    /\ threads = {} /\ worker = [w \in Workers |-> [at |-> "exited", job |-> None]]
    /\ client = [c \in Clients |-> [at |-> "idle", job |-> None]]
    /\ life = "idle" /\ counted = 0
    /\ stats = [submitted |-> 0, completed |-> 0, failed |-> 0, cancelled |-> 0]
    /\ dropped = {} /\ drift = 0

-------------------------------------------------------------------------------
(* start *)

\* The workers run before running_ is set.
Start ==
    /\ life = "idle" /\ ~running /\ threads = {} /\ gate = "open"
    /\ threads' = Workers
    /\ worker' = [w \in Workers |-> [at |-> "pop", job |-> None]]
    /\ life' = "starting"
    /\ UNCHANGED <<queue, gate, cancelled, running, client, counted, stats, dropped, drift>>

Started ==
    /\ life = "starting"
    /\ running' = TRUE /\ life' = "idle"
    /\ UNCHANGED <<queue, gate, cancelled, threads, worker, client, counted, stats, dropped, drift>>

\* Some threads could not be created: the queue is aborted, which releases the others.
StartFails(W) ==
    /\ life = "idle" /\ ~running /\ threads = {} /\ gate = "open"
    /\ threads' = W
    /\ worker' = [w \in Workers |-> [at |-> IF w \in W THEN "pop" ELSE "exited", job |-> None]]
    /\ gate' = "aborted" /\ life' = "join"
    /\ UNCHANGED <<queue, cancelled, running, client, counted, stats, dropped, drift>>

-------------------------------------------------------------------------------
(* submit *)

Move(f, x, at) == [f EXCEPT ![x].at = at]

\* running_ and the token are read one after the other: the answer is that of one of the two
\* moments.
Submit(c, j) ==
    /\ client[c].at = "idle"
    /\ client' = [client EXCEPT ![c] = [at |-> IF running /\ ~cancelled THEN "count" ELSE "refused",
                                        job |-> j]]
    /\ UNCHANGED <<queue, gate, cancelled, running, threads, worker, life, counted, stats,
                   dropped, drift>>

\* (mutant) The job is not counted yet.
CountLater(c) ==
    /\ client[c].at = "count"
    /\ client' = Move(client, c, "push")
    /\ UNCHANGED <<queue, gate, cancelled, running, threads, worker, life, counted, stats, dropped,
                   drift>>

\* The job is counted before a worker can see it.
CountSubmitted(c) ==
    /\ client[c].at = "count"
    /\ stats' = [stats EXCEPT !.submitted = @ + 1]
    /\ client' = Move(client, c, "push")
    /\ UNCHANGED <<queue, gate, cancelled, running, threads, worker, life, counted, dropped, drift>>

Asleep == {w \in Workers : worker[w].at = "asleep"}

\* notify_one: some sleeper wakes, if there is one.
NotifyOne ==
    IF Asleep = {} THEN worker' = worker
    ELSE \E w \in Asleep : worker' = Move(worker, w, "pop")

\* (mutant) Nobody is told.
NotifyNobody == worker' = worker
NotifyAll == worker' = [w \in Workers |-> IF w \in Asleep THEN [worker[w] EXCEPT !.at = "pop"]
                                                         ELSE worker[w]]

Push(c) ==
    /\ client[c].at = "push" /\ gate = "open" /\ Len(queue) < Capacity
    /\ queue' = Append(queue, client[c].job)
    /\ NotifyOne
    /\ client' = Move(client, c, "accepted")
    /\ drift' = IF life = "drop" THEN drift - 1 ELSE drift
    /\ UNCHANGED <<gate, cancelled, running, threads, life, counted, stats, dropped>>

\* try_push fails: the queue is full or no longer takes work.
PushFails(c) ==
    /\ client[c].at = "push" /\ (gate # "open" \/ Len(queue) >= Capacity)
    /\ client' = Move(client, c, "undo")
    /\ UNCHANGED <<queue, gate, cancelled, running, threads, worker, life, counted, stats,
                   dropped, drift>>

\* (mutant) The count is left as it is.
UndoNothing(c) ==
    /\ client[c].at = "undo"
    /\ client' = Move(client, c, "refused")
    /\ UNCHANGED <<queue, gate, cancelled, running, threads, worker, life, counted, stats,
                   dropped, drift>>

Undo(c) ==
    /\ client[c].at = "undo"
    /\ stats' = [stats EXCEPT !.submitted = @ - 1]
    /\ client' = Move(client, c, "refused")
    /\ UNCHANGED <<queue, gate, cancelled, running, threads, worker, life, counted, dropped, drift>>

SubmitStep(c) == CountSubmitted(c) \/ Push(c) \/ PushFails(c) \/ Undo(c)

-------------------------------------------------------------------------------
(* worker_loop *)

\* What is queued is taken first, whatever else pop could report.
Pop(w) ==
    /\ worker[w].at = "pop" /\ queue # <<>>
    /\ worker' = [worker EXCEPT ![w] = [at |-> "run", job |-> Head(queue)]]
    /\ queue' = Tail(queue)
    /\ drift' = IF life = "drop" THEN drift + 1 ELSE drift
    /\ UNCHANGED <<gate, cancelled, running, threads, client, life, counted, stats, dropped>>

\* (mutant) Closing is reported before the queue is drained.
WindingDownFirst == gate # "open" \/ cancelled
WindingDown == queue = <<>> /\ (gate # "open" \/ cancelled)

Exit(w) ==
    /\ worker[w].at = "pop" /\ WindingDown
    /\ worker' = Move(worker, w, "exited")
    /\ UNCHANGED <<queue, gate, cancelled, running, threads, client, life, counted, stats,
                   dropped, drift>>

Sleep(w) ==
    /\ worker[w].at = "pop" /\ queue = <<>> /\ gate = "open" /\ ~cancelled
    /\ worker' = Move(worker, w, "asleep")
    /\ UNCHANGED <<queue, gate, cancelled, running, threads, client, life, counted, stats,
                   dropped, drift>>

\* A condition variable may wake a thread without being notified.
SpuriousWake(w) ==
    /\ worker[w].at = "asleep"
    /\ worker' = Move(worker, w, "pop")
    /\ UNCHANGED <<queue, gate, cancelled, running, threads, client, life, counted, stats,
                   dropped, drift>>

\* An exception is caught, and counted as a failure.
Record(w) ==
    /\ worker[w].at = "record"
    /\ stats' = IF worker[w].job \in Throwing THEN [stats EXCEPT !.failed = @ + 1]
                                              ELSE [stats EXCEPT !.completed = @ + 1]
    /\ worker' = [worker EXCEPT ![w] = [at |-> "pop", job |-> None]]
    /\ UNCHANGED <<queue, gate, cancelled, running, threads, client, life, counted, dropped, drift>>

WorkerStep(w) == Pop(w) \/ Exit(w) \/ Sleep(w) \/ Record(w)

-------------------------------------------------------------------------------
(* shutdown and cancel *)

\* Waiting workers are not notified.
Cancel ==
    /\ ~cancelled
    /\ cancelled' = TRUE
    /\ UNCHANGED <<queue, gate, running, threads, worker, client, life, counted, stats, dropped,
                   drift>>

\* On a pool that is not running and has no threads the call returns at once.
Shutdown(mode) ==
    /\ life = "idle" /\ (running \/ threads # {})
    /\ running' = FALSE
    /\ cancelled' = (cancelled \/ mode = "Abort")
    /\ life' = IF mode = "Abort" THEN "count" ELSE "close"
    /\ UNCHANGED <<queue, gate, threads, worker, client, counted, stats, dropped, drift>>

Close ==
    /\ life = "close"
    /\ gate' = "closed" /\ NotifyAll /\ life' = "join"
    /\ UNCHANGED <<queue, cancelled, running, threads, client, counted, stats, dropped, drift>>

CountDropped ==
    /\ life = "count"
    /\ counted' = Len(queue) /\ life' = "drop"
    /\ UNCHANGED <<queue, gate, cancelled, running, threads, worker, client, stats, dropped, drift>>

DropQueue ==
    /\ life = "drop"
    /\ gate' = "aborted" /\ queue' = <<>>
    /\ dropped' = dropped \cup {queue[i] : i \in DOMAIN queue}
    /\ NotifyAll /\ life' = "tally"
    /\ UNCHANGED <<cancelled, running, threads, client, counted, stats, drift>>

\* (mutant) What was dropped is not counted.
TallyNothing ==
    /\ life = "tally"
    /\ life' = "join"
    /\ UNCHANGED <<queue, gate, cancelled, running, threads, worker, client, counted, stats,
                   dropped, drift>>

Tally ==
    /\ life = "tally"
    /\ stats' = [stats EXCEPT !.cancelled = @ + counted]
    /\ life' = "join"
    /\ UNCHANGED <<queue, gate, cancelled, running, threads, worker, client, counted, dropped, drift>>

\* Every worker has returned from worker_loop.
Join ==
    /\ life = "join" /\ \A w \in threads : worker[w].at = "exited"
    /\ threads' = {} /\ life' = "idle"
    /\ UNCHANGED <<queue, gate, cancelled, running, worker, client, counted, stats, dropped, drift>>

LifecycleStep == Started \/ Close \/ CountDropped \/ DropQueue \/ Tally \/ Join

-------------------------------------------------------------------------------
(* Properties *)

Held(w) == worker[w].at \in {"run", "notify", "record", "lost"}

WorkerPlace == [at : {"pop", "asleep", "run", "notify", "record", "lost", "exited"},
                job : Jobs \cup {None}]
ClientPlace == [at : {"idle", "count", "push", "undo", "accepted", "refused"},
                job : Jobs \cup {None}]
Counters    == [submitted : Nat, completed : Nat, failed : Nat, cancelled : Nat]

\* The types of the pool.
PoolTypeOK ==
    /\ queue \in Seq(Jobs) /\ Len(queue) <= Capacity
    /\ gate \in {"open", "closed", "aborted"} /\ cancelled \in BOOLEAN /\ running \in BOOLEAN
    /\ threads \subseteq Workers
    /\ worker \in [Workers -> WorkerPlace] /\ client \in [Clients -> ClientPlace]
    /\ life \in {"idle", "starting", "close", "count", "drop", "tally", "join"}
    /\ counted \in Nat /\ drift \in Int /\ stats \in Counters
    /\ dropped \subseteq Jobs

\* Every submission that is counted is in exactly one place: with its client, in the queue,
\* with a worker, ended or dropped.  So none is run twice, and none is lost by accident.
JobsConserved ==
    stats.submitted =
        Cardinality({c \in Clients : client[c].at \in {"push", "undo"}})
        + Len(queue) + Cardinality({w \in Workers : Held(w)})
        + stats.completed + stats.failed + Cardinality(dropped)

\* A snapshot of the statistics never reports more ends than submissions.
EndsWithinSubmissions == stats.completed + stats.failed <= stats.submitted

\* When shutdown(Drain) of a pool that nobody cancels has returned, all accepted work has
\* ended: none is left in the queue, however late it was pushed.
DrainIsComplete ==
    gate = "closed" /\ life = "idle" /\ ~cancelled => queue = <<>> /\ dropped = {}

\* After an abort, what is reported as cancelled is what was dropped, but for what workers
\* took and clients added between the count and the removal.
AbortIsTallied ==
    gate = "aborted" /\ life = "idle" => stats.cancelled = Cardinality(dropped) + drift

\* start and shutdown return: every worker leaves, those that wait are told.  A worker that
\* hangs in its job is waited for without end.
ShutdownReturns == life # "idle" ~> (life = "idle" \/ \E w \in Workers : worker[w].at = "lost")
-------------------------------------------------------------------------------
(* What the proofs rest on *)

Queued == {queue[i] : i \in DOMAIN queue}
InLoop == {w \in Workers : worker[w].at = "run"}
LoopJobs == {worker[w].job : w \in InLoop}

\* Where the pool is in its life: it runs once, and its queue is open until it is stopped.
Lifecycle ==
    /\ running => life = "idle" /\ gate = "open" /\ threads = Workers
    /\ life \in {"starting", "close", "count", "drop"} => gate = "open" /\ threads = Workers
    /\ life = "tally" => gate = "aborted"
    /\ life = "join" => gate # "open" /\ (gate = "closed" => threads = Workers)
    /\ life = "idle" => threads = {} \/ (gate = "open" /\ threads = Workers)

\* A thread that was not started or is joined runs nothing.
Absent == \A w \in Workers \ threads : worker[w].at = "exited"

\* Workers leave a pool that takes work only when it is cancelled, and a closed one only
\* when nothing is queued.
Draining ==
    /\ gate = "open" /\ ~cancelled => \A w \in threads : worker[w].at # "exited"
    /\ /\ gate = "closed" /\ ~cancelled
       /\ life = "idle" \/ \E w \in Workers : worker[w].at = "exited"
       => queue = <<>>

\* What an abort has counted, dropped and reported, at every point of it.
Tallying ==
    /\ gate # "aborted" => dropped = {} /\ stats.cancelled = 0
    /\ gate # "aborted" /\ life # "drop" => drift = 0
    /\ life = "drop" => counted = Len(queue) + drift
    /\ life = "tally" => counted = Cardinality(dropped) + drift /\ stats.cancelled = 0
    /\ gate = "aborted" /\ life # "tally" => stats.cancelled = Cardinality(dropped) + drift

\* A job is queued once, dropped, or in the loop of one worker.
OnePlace ==
    /\ \A i, j \in DOMAIN queue : queue[i] = queue[j] => i = j
    /\ Queued \cap dropped = {}
    /\ \A w \in InLoop : worker[w].job \notin Queued \cup dropped
    /\ \A w, v \in InLoop : worker[w].job = worker[v].job => w = v
===============================================================================
