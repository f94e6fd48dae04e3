---------------------------- MODULE ParallelIngest ----------------------------
(***************************************************************************)
(* Ledger::ingest_parallel over the thread pool: the caller cuts its batch *)
(* into chunks, submits a job for each, and waits until a counter of the   *)
(* outstanding jobs, which lives in its own frame, is back at zero.  Other *)
(* clients use the pool meanwhile, and somebody may cancel it or shut it   *)
(* down.                                                                   *)
(***************************************************************************)
EXTENDS ThreadPool

CONSTANTS Caller,  \* the client that ingests
          Chunks   \* the number of chunks; their jobs are 1..Chunks

\* A chunk's job does not throw: only running out of memory could make it.
ASSUME IngestAssumption ==
    Caller \in Clients /\ Chunks \in Nat /\ 1..Chunks \subseteq Jobs \ Throwing

VARIABLES
    pc,         \* the caller: "next", "submit", "wait", "asleep", "returned"
    chunk,      \* the chunk it submits next
    remaining   \* the counter

ingestVars == <<pc, chunk, remaining>>
vars == <<poolVars, ingestVars>>

IsChunk(j) == j \in 1..Chunks

Init == PoolInit /\ pc = "next" /\ chunk = 1 /\ remaining = 0

\* (mutant) The job is not counted before it is submitted.
NextChunkUncounted ==
    /\ pc = "next" /\ chunk <= Chunks
    /\ Submit(Caller, chunk)
    /\ pc' = "submit"
    /\ UNCHANGED <<chunk, remaining>>

\* Counted, then submitted; a refusal before anything is queued takes the count back.
NextChunk ==
    /\ pc = "next" /\ chunk <= Chunks
    /\ Submit(Caller, chunk)
    /\ remaining' = remaining + 1
    /\ pc' = "submit"
    /\ UNCHANGED chunk

Accepted ==
    /\ pc = "submit" /\ client[Caller].at = "accepted"
    /\ client' = Move(client, Caller, "idle")
    /\ pc' = "next" /\ chunk' = chunk + 1
    /\ UNCHANGED <<queue, gate, cancelled, running, threads, worker, life, counted, stats,
                   dropped, drift, remaining>>

\* The remaining chunks are not submitted.
Refused ==
    /\ pc = "submit" /\ client[Caller].at = "refused"
    /\ client' = Move(client, Caller, "idle")
    /\ remaining' = remaining - 1
    /\ pc' = "wait"
    /\ UNCHANGED <<queue, gate, cancelled, running, threads, worker, life, counted, stats,
                   dropped, drift, chunk>>

AllSubmitted ==
    /\ pc = "next" /\ chunk > Chunks
    /\ pc' = "wait"
    /\ UNCHANGED <<poolVars, chunk, remaining>>

\* The predicate is evaluated and the thread put to sleep under done_mutex.
Wait ==
    /\ pc = "wait"
    /\ pc' = IF remaining = 0 THEN "returned" ELSE "asleep"
    /\ UNCHANGED <<poolVars, chunk, remaining>>

SpuriousReturn ==
    /\ pc = "asleep" /\ pc' = "wait"
    /\ UNCHANGED <<poolVars, chunk, remaining>>

CallerStep == NextChunk \/ Accepted \/ Refused \/ AllSubmitted \/ Wait

-------------------------------------------------------------------------------
(* The jobs *)

\* The loop over the chunk, cut short or not, and the decrement.
RunChunk(w) ==
    /\ worker[w].at = "run" /\ IsChunk(worker[w].job)
    /\ remaining' = remaining - 1
    /\ worker' = Move(worker, w, IF remaining = 1 THEN "notify" ELSE "record")
    /\ UNCHANGED <<queue, gate, cancelled, running, threads, client, life, counted, stats,
                   dropped, drift, pc, chunk>>

\* (mutant) The last job ends without a word.
NotifyForgotten(w) ==
    /\ worker[w].at = "notify"
    /\ worker' = Move(worker, w, "record")
    /\ UNCHANGED <<queue, gate, cancelled, running, threads, client, life, counted, stats,
                   dropped, drift, pc, chunk, remaining>>

\* Under done_mutex, unless the caller has seen zero meanwhile and returned: then the mutex
\* is gone, and the worker gets hold of what is in its place or hangs.
Notify(w) ==
    /\ worker[w].at = "notify"
    /\ pc' = IF pc = "asleep" THEN "wait" ELSE pc
    /\ \/ worker' = Move(worker, w, "record")
       \/ pc = "returned" /\ worker' = Move(worker, w, "lost")
    /\ UNCHANGED <<queue, gate, cancelled, running, threads, client, life, counted, stats,
                   dropped, drift, chunk, remaining>>

\* The job of another client.
RunOther(w) ==
    /\ worker[w].at = "run" /\ ~IsChunk(worker[w].job)
    /\ worker' = Move(worker, w, "record")
    /\ UNCHANGED <<queue, gate, cancelled, running, threads, client, life, counted, stats,
                   dropped, drift, ingestVars>>

JobStep(w) == RunChunk(w) \/ Notify(w) \/ RunOther(w)

-------------------------------------------------------------------------------

\* The other clients submit one job each.
OtherSubmits(c) ==
    /\ c # Caller
    /\ \E j \in Jobs : ~IsChunk(j) /\ (\A d \in Clients : client[d].job # j) /\ Submit(c, j)
    /\ UNCHANGED ingestVars

PoolStep ==
    /\ \/ Start \/ \E W \in (SUBSET Workers) \ {Workers} : StartFails(W)
       \/ Cancel \/ \E m \in {"Drain", "Abort"} : Shutdown(m)
       \/ LifecycleStep
       \/ \E c \in Clients : SubmitStep(c)
       \/ \E w \in Workers : WorkerStep(w) \/ SpuriousWake(w)
    /\ UNCHANGED ingestVars

Next ==
    \/ PoolStep \/ CallerStep \/ SpuriousReturn
    \/ \E c \in Clients : OtherSubmits(c)
    \/ \E w \in Workers : JobStep(w)

\* Every thread that can go on does: jobs end, and a call that has begun is carried on with.
\* Nobody has to start, cancel or stop the pool, or to wake without being notified.
Fairness ==
    /\ WF_vars(LifecycleStep /\ UNCHANGED ingestVars)
    /\ WF_vars(CallerStep)
    /\ \A c \in Clients : WF_vars(SubmitStep(c) /\ UNCHANGED ingestVars)
    /\ \A w \in Workers : WF_vars(JobStep(w) \/ (WorkerStep(w) /\ UNCHANGED ingestVars))

Spec == Init /\ [][Next]_vars /\ Fairness

-------------------------------------------------------------------------------
(* Properties *)

\* The counter stays between zero and the number of chunks, and the rest has its type.
TypeOK ==
    /\ PoolTypeOK
    /\ pc \in {"next", "submit", "wait", "asleep", "returned"}
    /\ chunk \in 1..(Chunks + 1) /\ remaining \in 0..Chunks

Outstanding(j) == j \in {queue[i] : i \in DOMAIN queue} \cup
                        {worker[w].job : w \in {x \in Workers : worker[x].at = "run"}}

\* The jobs write the caller's vectors: none is queued or in its loop when the caller goes on
\* and its frame is gone, however the jobs, a refused submission and an abort interleave.
FrameOutlivesJobs == pc = "returned" => \A j \in 1..Chunks : ~Outstanding(j)

\* A job that can no longer reach its decrement: an abort dropped it, or it was queued
\* after a cancellation had sent every worker away.
Stranded == {j \in 1..Chunks : \/ j \in dropped
                               \/ /\ j \in {queue[i] : i \in DOMAIN queue}
                                  /\ \A w \in Workers : worker[w].at = "exited"}

\* The wait of ingest_parallel ends, unless one of its jobs is stranded: the last decrement
\* cannot slip between the caller's look at the counter and its sleep.
IngestReturns == pc # "next" ~> (pc = "returned" \/ Stranded # {})
-------------------------------------------------------------------------------
(* What the proofs rest on *)

\* The jobs that were ever put into the queue.
Pushed == {j \in 1..Chunks : j < chunk} \cup
          {client[c].job : c \in {d \in Clients : client[d].at = "accepted"}}

\* Every client submits a job of its own, and the caller its next chunk.
OwnJobs ==
    /\ pc = "submit" <=> client[Caller].at # "idle"
    /\ pc = "submit" => client[Caller].job = chunk /\ chunk \in 1..Chunks
    /\ \A c \in Clients \ {Caller} :
          IF client[c].at = "idle" THEN client[c].job = None ELSE client[c].job \in Jobs \ (1..Chunks)
    /\ \A c, d \in Clients \ {Caller} : client[c].job = client[d].job /\ client[c].at # "idle" => c = d

\* The chunks whose jobs have not reached their decrement.
Undone == (1..Chunks) \cap (Queued \cup dropped \cup LoopJobs)

\* The counter is the number of those, and of the one being submitted.
Remaining ==
    /\ remaining = Cardinality(Undone)
                    + (IF pc = "submit" /\ client[Caller].at # "accepted" THEN 1 ELSE 0)
    /\ pc = "returned" => remaining = 0

\* The inductive invariant.
Inductive ==
    /\ TypeOK /\ JobsConserved
    /\ Lifecycle /\ Absent /\ Draining /\ Tallying /\ OnePlace
    /\ OwnJobs /\ Remaining
    /\ Queued \cup dropped \cup LoopJobs \subseteq Pushed
===============================================================================
