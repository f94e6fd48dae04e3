------------------------------ MODULE PoolProofs ------------------------------
(* Theorems about ThreadPool and ParallelIngest, for every value of their constants. *)
EXTENDS ParallelIngest, SequenceTheorems, FiniteSetTheorems, TLAPS

USE PoolAssumption, IngestAssumption

-------------------------------------------------------------------------------
(* Kinds of steps *)

\* What the caller and the other clients do before and after a submission touches nothing
\* of the pool but the client.
LEMMA ClientSteps ==
    ASSUME \/ CallerStep \/ SpuriousReturn
           \/ \E c \in Clients : OtherSubmits(c)
    PROVE  UNCHANGED <<queue, gate, cancelled, running, threads, worker, life, counted, stats,
                       dropped, drift>>
BY DEF CallerStep, SpuriousReturn, OtherSubmits, NextChunk, Accepted, Refused, AllSubmitted,
       Wait, Submit, poolVars

\* A job moves its worker, and touches nothing else of the pool.
LEMMA JobSteps ==
    ASSUME NEW w \in Workers, JobStep(w)
    PROVE  /\ UNCHANGED <<queue, gate, cancelled, running, threads, client, life, counted, stats,
                          dropped, drift, chunk>>
           /\ worker[w].at \in {"run", "notify"}
           /\ \E at \in {"notify", "record", "lost"} : worker' = Move(worker, w, at)
BY DEF JobStep, RunChunk, Notify, RunOther, ingestVars

-------------------------------------------------------------------------------
(* Types *)

\* Moving a worker or a client keeps the type of all of them.
LEMMA MoveWorker ==
    ASSUME worker \in [Workers -> WorkerPlace], NEW w \in Workers,
           NEW at \in {"pop", "asleep", "run", "notify", "record", "lost", "exited"}
    PROVE  /\ Move(worker, w, at) \in [Workers -> WorkerPlace]
           /\ Move(worker, w, at)[w] = [at |-> at, job |-> worker[w].job]
           /\ \A v \in Workers \ {w} : Move(worker, w, at)[v] = worker[v]
BY DEF Move, WorkerPlace

LEMMA MoveClient ==
    ASSUME client \in [Clients -> ClientPlace], NEW c \in Clients,
           NEW at \in {"idle", "count", "push", "undo", "accepted", "refused"}
    PROVE  /\ Move(client, c, at) \in [Clients -> ClientPlace]
           /\ Move(client, c, at)[c] = [at |-> at, job |-> client[c].job]
           /\ \A d \in Clients \ {c} : Move(client, c, at)[d] = client[d]
BY DEF Move, ClientPlace

\* So does adding to one counter.
LEMMA CountersType ==
    ASSUME stats \in Counters
    PROVE  /\ stats.submitted \in Nat /\ stats.completed \in Nat
           /\ stats.failed \in Nat /\ stats.cancelled \in Nat
           /\ \A n \in Nat : /\ [stats EXCEPT !.submitted = n] \in Counters
                            /\ [stats EXCEPT !.completed = n] \in Counters
                            /\ [stats EXCEPT !.failed = n] \in Counters
                            /\ [stats EXCEPT !.cancelled = n] \in Counters
BY DEF Counters

\* A worker that moves to another place than the exit has not left, nor has anybody else.
LEMMA NoneLeaves ==
    ASSUME worker \in [Workers -> WorkerPlace], NEW w \in Workers,
           NEW at \in {"pop", "asleep", "run", "notify", "record", "lost"}
    PROVE  \A v \in Workers : Move(worker, w, at)[v].at = "exited" => worker[v].at = "exited"
BY DEF Move, WorkerPlace

\* Waking the sleepers keeps their types, and moves nobody else.
LEMMA NotifyType ==
    ASSUME worker \in [Workers -> WorkerPlace], NotifyOne \/ NotifyAll
    PROVE  /\ worker' \in [Workers -> WorkerPlace]
           /\ \A w \in Workers : worker'[w].at = "exited" => worker[w].at = "exited"
           /\ \A w \in Workers : \/ worker'[w] = worker[w]
                                 \/ /\ worker[w].at = "asleep"
                                    /\ worker'[w] = [at |-> "pop", job |-> worker[w].job]
<1>1. CASE NotifyOne
    BY <1>1 DEF NotifyOne, Asleep, Move, WorkerPlace
<1>2. CASE NotifyAll
    BY <1>2 DEF NotifyAll, Asleep, WorkerPlace
<1> QED BY <1>1, <1>2

\* The numbers of clients and workers with a job are natural numbers.
LEMMA CountsType ==
    ASSUME PoolTypeOK
    PROVE  /\ \A S \in SUBSET Clients : IsFiniteSet(S) /\ Cardinality(S) \in Nat
           /\ \A S \in SUBSET Workers : IsFiniteSet(S) /\ Cardinality(S) \in Nat
           /\ \A S \in SUBSET Jobs : IsFiniteSet(S) /\ Cardinality(S) \in Nat
           /\ Cardinality(dropped) \in Nat /\ Len(queue) \in Nat
<1>1. dropped \subseteq Jobs /\ queue \in Seq(Jobs)
    BY DEF PoolTypeOK
<1>2. ASSUME NEW T, IsFiniteSet(T), NEW S \in SUBSET T
      PROVE  IsFiniteSet(S) /\ Cardinality(S) \in Nat
    BY <1>2, FS_Subset, FS_CardinalityType
<1>3. Len(queue) \in Nat
    BY <1>1, LenProperties
<1> QED BY <1>1, <1>2, <1>3

\* Every variable of the pool has its type initially.
LEMMA InitPoolType == PoolInit => PoolTypeOK
<1> SUFFICES ASSUME PoolInit PROVE PoolTypeOK
    OBVIOUS
<1>1. worker \in [Workers -> WorkerPlace] /\ client \in [Clients -> ClientPlace] /\ stats \in Counters
    BY DEF PoolInit, WorkerPlace, ClientPlace, Counters
<1>2. cancelled \in BOOLEAN /\ running \in BOOLEAN
    BY Zenon DEF PoolInit
<1>3. queue \in Seq(Jobs) /\ Len(queue) <= Capacity
    BY DEF PoolInit
<1> QED BY <1>1, <1>2, <1>3 DEF PoolInit, PoolTypeOK

\* Every step of the pool keeps every type.
LEMMA StepPoolType == TypeOK /\ JobsConserved /\ OwnJobs /\ [Next]_vars => PoolTypeOK'
<1> SUFFICES ASSUME TypeOK, JobsConserved, OwnJobs, [Next]_vars PROVE PoolTypeOK'
    OBVIOUS
<1> USE DEF PoolTypeOK
<1>0. PoolTypeOK /\ chunk \in 1..(Chunks + 1)
    BY DEF TypeOK
<1> USE <1>0
<1>1. CASE \/ CallerStep \/ SpuriousReturn \/ \E c \in Clients : OtherSubmits(c)
    <2>1. client' \in [Clients -> ClientPlace]
        <3>1. ASSUME NEW c \in Clients, NEW j \in Jobs, Submit(c, j)
              PROVE  client' \in [Clients -> ClientPlace]
            BY <3>1 DEF Submit, ClientPlace
        <3>2. CASE NextChunk
            <4>1. chunk \in Jobs
                BY <3>2 DEF NextChunk
            <4> QED BY <3>1, <3>2, <4>1 DEF NextChunk
        <3>3. CASE Accepted \/ Refused
            BY <3>3, MoveClient DEF Accepted, Refused
        <3>4. CASE AllSubmitted \/ Wait \/ SpuriousReturn
            BY <3>4 DEF AllSubmitted, Wait, SpuriousReturn, poolVars
        <3>5. CASE \E c \in Clients : OtherSubmits(c)
            BY <3>1, <3>5 DEF OtherSubmits
        <3> QED BY <1>1, <3>2, <3>3, <3>4, <3>5 DEF CallerStep
    <2> QED BY <1>1, <2>1, ClientSteps
<1>2. ASSUME NEW w \in Workers, JobStep(w) PROVE PoolTypeOK'
    <2>1. worker' \in [Workers -> WorkerPlace]
        <3>1. PICK at \in {"notify", "record", "lost"} : worker' = Move(worker, w, at)
            BY <1>2, JobSteps
        <3> QED BY <3>1, MoveWorker
    <2> QED BY <1>2, <2>1, JobSteps
<1>3. CASE Start
    BY <1>3 DEF Start, WorkerPlace
<1>4. CASE Started
    <2>1. cancelled' \in BOOLEAN /\ running' \in BOOLEAN
        BY <1>4, Zenon DEF Started
    <2> QED BY <1>4, <2>1 DEF Started
<1>5. ASSUME NEW W \in (SUBSET Workers) \ {Workers}, StartFails(W) PROVE PoolTypeOK'
    BY <1>5 DEF StartFails, WorkerPlace
<1>6. CASE Cancel
    <2>1. cancelled' \in BOOLEAN /\ running' \in BOOLEAN
        BY <1>6, Zenon DEF Cancel
    <2> QED BY <1>6, <2>1 DEF Cancel
<1>7. ASSUME NEW m \in {"Drain", "Abort"}, Shutdown(m) PROVE PoolTypeOK'
    <2>1. cancelled' \in BOOLEAN /\ running' \in BOOLEAN
        BY <1>7, Zenon DEF Shutdown
    <2> QED BY <1>7, <2>1 DEF Shutdown
<1>8. CASE Close
    BY <1>8, NotifyType DEF Close
<1>9. CASE CountDropped
    BY <1>9, CountsType DEF CountDropped
<1>10. CASE DropQueue
    <2>1. worker' \in [Workers -> WorkerPlace]
        BY <1>10, NotifyType DEF DropQueue
    <2>2. dropped' \subseteq Jobs
        <3>1. \A i \in DOMAIN queue : queue[i] \in Jobs
            BY ElementOfSeq
        <3> QED BY <1>10, <3>1 DEF DropQueue
    <2>3. queue' \in Seq(Jobs) /\ Len(queue') <= Capacity
        BY <1>10 DEF DropQueue
    <2> QED BY <1>10, <2>1, <2>2, <2>3 DEF DropQueue
<1>11. CASE Tally
    <2>1. stats' \in Counters
        <3>1. stats.cancelled + counted \in Nat
            BY CountersType
        <3>2. stats' = [stats EXCEPT !.cancelled = stats.cancelled + counted]
            BY <1>11 DEF Tally
        <3> QED BY <3>1, <3>2, CountersType
    <2> QED BY <1>11, <2>1 DEF Tally
<1>12. CASE Join
    BY <1>12 DEF Join
<1>13. ASSUME NEW c \in Clients, CountSubmitted(c) PROVE PoolTypeOK'
    <2>1. client' \in [Clients -> ClientPlace]
        BY <1>13, MoveClient DEF CountSubmitted
    <2>2. stats' \in Counters
        <3>1. stats.submitted + 1 \in Nat
            BY CountersType
        <3>2. stats' = [stats EXCEPT !.submitted = stats.submitted + 1]
            BY <1>13 DEF CountSubmitted
        <3> QED BY <3>1, <3>2, CountersType
    <2> QED BY <1>13, <2>1, <2>2 DEF CountSubmitted
<1>14. ASSUME NEW c \in Clients, Push(c) PROVE PoolTypeOK'
    <2>1. client[c].job \in Jobs
        BY <1>14 DEF Push, OwnJobs
    <2>2. client' \in [Clients -> ClientPlace] /\ worker' \in [Workers -> WorkerPlace]
        BY <1>14, MoveClient, NotifyType DEF Push
    <2>3. queue' \in Seq(Jobs) /\ Len(queue') <= Capacity
        BY <1>14, <2>1, AppendProperties DEF Push
    <2>4. drift' \in Int
        BY <1>14 DEF Push
    <2> QED BY <1>14, <2>2, <2>3, <2>4 DEF Push
<1>15. ASSUME NEW c \in Clients, PushFails(c) PROVE PoolTypeOK'
    BY <1>15, MoveClient DEF PushFails
<1>16. ASSUME NEW c \in Clients, Undo(c) PROVE PoolTypeOK'
    <2> DEFINE P == {d \in Clients : client[d].at \in {"push", "undo"}}
    <2>1. c \in P /\ IsFiniteSet(P) /\ Cardinality(P) \in Nat
        BY <1>16, CountsType DEF Undo
    <2>2. Cardinality(P) # 0
        BY <2>1, FS_EmptySet
    <2>3. Cardinality({w \in Workers : Held(w)}) \in Nat
        BY CountsType
    <2>4. stats.submitted > 0
        BY <2>1, <2>2, <2>3, CountsType DEF JobsConserved, Counters
    <2>5. stats' \in Counters
        BY <1>16, <2>4 DEF Undo, Counters
    <2> QED BY <1>16, <2>5, MoveClient DEF Undo
<1>17. ASSUME NEW w \in Workers, Pop(w) PROVE PoolTypeOK'
    <2>1. Head(queue) \in Jobs /\ Tail(queue) \in Seq(Jobs) /\ Len(Tail(queue)) <= Capacity
        BY <1>17, HeadTailProperties DEF Pop
    <2> QED BY <1>17, <2>1 DEF Pop, WorkerPlace
<1>18. ASSUME NEW w \in Workers, Exit(w) \/ Sleep(w) \/ SpuriousWake(w) PROVE PoolTypeOK'
    <2>1. worker' \in [Workers -> WorkerPlace]
        <3>1. PICK at \in {"exited", "asleep", "pop"} : worker' = Move(worker, w, at)
            BY <1>18 DEF Exit, Sleep, SpuriousWake
        <3> QED BY <3>1, MoveWorker
    <2> QED BY <1>18, <2>1 DEF Exit, Sleep, SpuriousWake
<1>19. ASSUME NEW w \in Workers, Record(w) PROVE PoolTypeOK'
    <2>1. worker' \in [Workers -> WorkerPlace]
        BY <1>19 DEF Record, WorkerPlace
    <2>2. stats' \in Counters
        <3>1. stats.failed + 1 \in Nat /\ stats.completed + 1 \in Nat
            BY DEF Counters
        <3>2. \/ stats' = [stats EXCEPT !.failed = stats.failed + 1]
              \/ stats' = [stats EXCEPT !.completed = stats.completed + 1]
            BY <1>19 DEF Record
        <3> QED BY <3>1, <3>2, CountersType
    <2> QED BY <1>19, <2>1, <2>2 DEF Record
<1>20. CASE UNCHANGED vars
    BY <1>20 DEF vars, poolVars
<1> QED
    BY <1>1, <1>2, <1>3, <1>4, <1>5, <1>6, <1>7, <1>8, <1>9, <1>10, <1>11, <1>12, <1>13, <1>14,
       <1>15, <1>16, <1>17, <1>18, <1>19, <1>20
    DEF Next, PoolStep, LifecycleStep, SubmitStep, WorkerStep

-------------------------------------------------------------------------------
(* The life of the pool *)

\* The pool is idle and its queue open initially, and every step keeps it in its life.
LEMMA InitLifecycle == PoolInit => Lifecycle
BY DEF PoolInit, Lifecycle

LEMMA StepLifecycle == Lifecycle /\ [Next]_vars => Lifecycle'
<1> SUFFICES ASSUME Lifecycle, [Next]_vars PROVE Lifecycle'
    OBVIOUS
<1> USE DEF Lifecycle
<1>1. CASE \/ CallerStep \/ SpuriousReturn \/ \E c \in Clients : OtherSubmits(c)
    BY <1>1, ClientSteps
<1>2. ASSUME NEW w \in Workers, JobStep(w) PROVE Lifecycle'
    BY <1>2, JobSteps
<1>3. CASE Start \/ Started
    BY <1>3 DEF Start, Started
<1>4. ASSUME NEW W \in (SUBSET Workers) \ {Workers}, StartFails(W) PROVE Lifecycle'
    BY <1>4 DEF StartFails
<1>5. ASSUME NEW m \in {"Drain", "Abort"}, Shutdown(m) PROVE Lifecycle'
    BY <1>5 DEF Shutdown
<1>6. CASE Close \/ CountDropped
    BY <1>6 DEF Close, CountDropped
<1>7. CASE DropQueue \/ Tally \/ Join
    BY <1>7 DEF DropQueue, Tally, Join
<1>8. CASE Cancel \/ \E c \in Clients : SubmitStep(c)
    BY <1>8 DEF Cancel, SubmitStep, CountSubmitted, Push, PushFails, Undo
<1>9. CASE \E w \in Workers : WorkerStep(w) \/ SpuriousWake(w)
    BY <1>9 DEF WorkerStep, Pop, Exit, Sleep, Record, SpuriousWake
<1>10. CASE UNCHANGED vars
    BY <1>10 DEF vars, poolVars
<1> QED
    BY <1>1, <1>2, <1>3, <1>4, <1>5, <1>6, <1>7, <1>8, <1>9, <1>10
    DEF Next, PoolStep, LifecycleStep

\* Threads that are not there run nothing, initially and after every step.
LEMMA InitAbsent == PoolInit => Absent
BY DEF PoolInit, Absent

LEMMA StepAbsent == PoolTypeOK /\ Absent /\ [Next]_vars => Absent'
<1> SUFFICES ASSUME PoolTypeOK, Absent, [Next]_vars PROVE Absent'
    OBVIOUS
<1> USE DEF Absent
<1>w. worker \in [Workers -> WorkerPlace] /\ threads \subseteq Workers
    BY DEF PoolTypeOK
<1>1. CASE \/ CallerStep \/ SpuriousReturn \/ \E c \in Clients : OtherSubmits(c)
    BY <1>1, ClientSteps
<1>2. ASSUME NEW w \in Workers, NEW at \in {"pop", "asleep", "run", "notify", "record", "lost", "exited"},
             worker[w].at # "exited", worker' = Move(worker, w, at), threads' = threads
      PROVE  Absent'
    <2> SUFFICES ASSUME NEW v \in Workers \ threads PROVE worker'[v].at = "exited"
        BY <1>2
    <2>1. v # w /\ worker[v].at = "exited"
        BY <1>2
    <2> QED BY <1>w, <1>2, <2>1 DEF Move
<1>3. ASSUME NEW w \in Workers, JobStep(w) PROVE Absent'
    BY <1>2, <1>3, JobSteps
<1>4. CASE Start \/ Started \/ CountDropped \/ Tally \/ Join
    BY <1>4 DEF Start, Started, CountDropped, Tally, Join
<1>5. ASSUME NEW W \in (SUBSET Workers) \ {Workers}, StartFails(W) PROVE Absent'
    BY <1>5 DEF StartFails
<1>6. CASE Cancel \/ \E m \in {"Drain", "Abort"} : Shutdown(m)
    BY <1>6 DEF Cancel, Shutdown
<1>7. ASSUME NotifyOne \/ NotifyAll, threads' = threads PROVE Absent'
    BY <1>w, <1>7, NotifyType
<1>8. CASE Close \/ DropQueue
    BY <1>7, <1>8 DEF Close, DropQueue
<1>9. ASSUME NEW c \in Clients, SubmitStep(c) PROVE Absent'
    BY <1>7, <1>9 DEF SubmitStep, CountSubmitted, Push, PushFails, Undo
<1>10. ASSUME NEW w \in Workers, Exit(w) \/ Sleep(w) \/ SpuriousWake(w) PROVE Absent'
    BY <1>2, <1>10 DEF Exit, Sleep, SpuriousWake
<1>11. ASSUME NEW w \in Workers, Pop(w) \/ Record(w) PROVE Absent'
    BY <1>w, <1>11 DEF Pop, Record
<1>12. CASE UNCHANGED vars
    BY <1>12 DEF vars, poolVars
<1> QED
    BY <1>1, <1>3, <1>4, <1>5, <1>6, <1>8, <1>9, <1>10, <1>11, <1>12
    DEF Next, PoolStep, LifecycleStep, WorkerStep

\* Nobody has left a pool that takes work; a closed one is left when nothing is queued.
LEMMA InitDraining == PoolInit => Draining
BY DEF PoolInit, Draining

LEMMA StepDraining == PoolTypeOK /\ Lifecycle /\ Draining /\ [Next]_vars => Draining'
<1> SUFFICES ASSUME PoolTypeOK, Lifecycle, Draining, [Next]_vars PROVE Draining'
    OBVIOUS
<1> USE DEF Draining
<1>w. worker \in [Workers -> WorkerPlace] /\ threads \subseteq Workers
    BY DEF PoolTypeOK
<1>1. CASE \/ CallerStep \/ SpuriousReturn \/ \E c \in Clients : OtherSubmits(c)
    BY <1>1, ClientSteps
<1>2. ASSUME NEW w \in Workers, JobStep(w) PROVE Draining'
    <2>1. PICK at \in {"notify", "record", "lost"} : worker' = Move(worker, w, at)
        BY <1>2, JobSteps
    <2>2. \A v \in Workers : worker'[v].at = "exited" => worker[v].at = "exited"
        BY <1>w, <2>1, NoneLeaves
    <2> QED BY <1>w, <1>2, <2>2, JobSteps
<1>3. CASE Start \/ Started
    BY <1>3 DEF Start, Started, Lifecycle
<1>4. ASSUME NEW W \in (SUBSET Workers) \ {Workers}, StartFails(W) PROVE Draining'
    BY <1>4 DEF StartFails
<1>5. CASE Cancel \/ \E m \in {"Drain", "Abort"} : Shutdown(m)
    BY <1>5 DEF Cancel, Shutdown, Lifecycle
<1>6. CASE Close
    <2>1. ~cancelled => \A w \in Workers : worker'[w].at # "exited"
        <3>1. \A w \in Workers : worker'[w].at = "exited" => worker[w].at = "exited"
            BY <1>w, <1>6, NotifyType DEF Close
        <3>2. gate = "open" /\ threads = Workers
            BY <1>6 DEF Close, Lifecycle
        <3> QED BY <3>1, <3>2
    <2> QED BY <1>6, <2>1 DEF Close
<1>7. CASE CountDropped \/ DropQueue \/ Tally
    BY <1>7 DEF CountDropped, DropQueue, Tally, Lifecycle
<1>8. CASE Join
    BY <1>8 DEF Join, Lifecycle
<1>9. ASSUME NEW c \in Clients, SubmitStep(c) PROVE Draining'
    <2>1. CASE Push(c)
        <3>1. \A v \in Workers : worker'[v].at = "exited" => worker[v].at = "exited"
            BY <1>w, <2>1, NotifyType DEF Push
        <3> QED BY <1>w, <2>1, <3>1 DEF Push
    <2> QED BY <1>9, <2>1 DEF SubmitStep, CountSubmitted, PushFails, Undo
<1>10. ASSUME NEW w \in Workers, Pop(w) \/ Sleep(w) \/ Record(w) \/ SpuriousWake(w)
       PROVE  Draining'
    <2>1. \A v \in Workers : worker'[v].at = "exited" => worker[v].at = "exited"
        BY <1>w, <1>10 DEF Pop, Sleep, Record, SpuriousWake, Move, WorkerPlace
    <2>2. UNCHANGED <<gate, cancelled, threads, life>> /\ (queue' = queue \/ queue # <<>>)
        BY <1>10 DEF Pop, Sleep, Record, SpuriousWake
    <2> QED BY <1>w, <2>1, <2>2
<1>11. ASSUME NEW w \in Workers, Exit(w) PROVE Draining'
    BY <1>11 DEF Exit, WindingDown
<1>12. CASE UNCHANGED vars
    BY <1>12 DEF vars, poolVars
<1> QED
    BY <1>1, <1>2, <1>3, <1>4, <1>5, <1>6, <1>7, <1>8, <1>9, <1>10, <1>11, <1>12
    DEF Next, PoolStep, LifecycleStep, WorkerStep

-------------------------------------------------------------------------------
(* What a step does to the jobs *)

\* A worker that has no job, or keeps the one it has where it is.
Quiet(w) == worker'[w] = worker[w] \/ (~Held(w) /\ ~Held(w)')

\* When all are quiet, the workers with a job, and their jobs, are the same.
LEMMA QuietSets ==
    ASSUME \A w \in Workers : Quiet(w)
    PROVE  /\ InLoop' = InLoop /\ LoopJobs' = LoopJobs
           /\ \A w \in InLoop : worker'[w].job = worker[w].job
           /\ {w \in Workers : Held(w)}' = {w \in Workers : Held(w)}
BY DEF Quiet, Held, InLoop, LoopJobs

\* Waking sleepers is quiet.
LEMMA NotifyQuiet ==
    ASSUME worker \in [Workers -> WorkerPlace], NotifyOne \/ NotifyAll
    PROVE  \A w \in Workers : Quiet(w)
<1>1. ASSUME NEW w \in Workers, worker[w].at = "asleep",
             worker'[w] = [at |-> "pop", job |-> worker[w].job]
      PROVE  Quiet(w)
    BY <1>1 DEF Quiet, Held
<1> QED BY <1>1, NotifyType DEF Quiet

\* A step pushes a job, pops one, drops the queue, records or carries on with one, or leaves
\* all jobs where they are.
LEMMA StepKinds ==
    ASSUME PoolTypeOK, Absent, [Next]_vars
    PROVE  \/ \E c \in Clients : Push(c)
           \/ \E w \in Workers : Pop(w) \/ Record(w) \/ JobStep(w)
           \/ DropQueue
           \/ UNCHANGED <<queue, dropped>> /\ \A w \in Workers : Quiet(w)
<1> DEFINE Calm == UNCHANGED <<queue, dropped>> /\ \A w \in Workers : Quiet(w)
<1>w. worker \in [Workers -> WorkerPlace] /\ threads \subseteq Workers
    BY DEF PoolTypeOK
<1>1. CASE \/ CallerStep \/ SpuriousReturn \/ \E c \in Clients : OtherSubmits(c)
    BY <1>1, ClientSteps DEF Quiet
<1>2. CASE Start \/ \E W \in (SUBSET Workers) \ {Workers} : StartFails(W)
    <2>1. \A w \in Workers : ~Held(w) /\ ~Held(w)'
        BY <1>2 DEF Start, StartFails, Absent, Held
    <2>2. UNCHANGED <<queue, dropped>>
        BY <1>2 DEF Start, StartFails
    <2> QED BY <2>1, <2>2 DEF Quiet
<1>3. CASE Started \/ Cancel \/ (\E m \in {"Drain", "Abort"} : Shutdown(m))
           \/ CountDropped \/ Tally \/ Join
    BY <1>3 DEF Started, Cancel, Shutdown, CountDropped, Tally, Join, Quiet
<1>4. CASE Close
    BY <1>w, <1>4, NotifyQuiet DEF Close
<1>5. ASSUME NEW c \in Clients, CountSubmitted(c) \/ PushFails(c) \/ Undo(c) PROVE Calm
    BY <1>5 DEF CountSubmitted, PushFails, Undo, Quiet
<1>6. ASSUME NEW w \in Workers, Exit(w) \/ Sleep(w) \/ SpuriousWake(w) PROVE Calm
    <2>1. PICK at \in {"exited", "asleep", "pop"} : worker' = Move(worker, w, at)
        BY <1>6 DEF Exit, Sleep, SpuriousWake
    <2>2. ~Held(w) /\ UNCHANGED <<queue, dropped>>
        BY <1>6 DEF Exit, Sleep, SpuriousWake, Held
    <2>3. worker'[w].at \notin {"run", "notify", "record", "lost"} /\ \A v \in Workers \ {w} : worker'[v] = worker[v]
        <3>1. worker'[w] = [at |-> at, job |-> worker[w].job]
            BY <1>w, <2>1 DEF Move, WorkerPlace
        <3>2. \A v \in Workers \ {w} : worker'[v] = worker[v]
            BY <1>w, <2>1 DEF Move
        <3> QED BY <3>1, <3>2
    <2> QED BY <2>2, <2>3 DEF Quiet, Held
<1>7. CASE UNCHANGED vars
    BY <1>7 DEF vars, poolVars, Quiet
<1> QED
    BY <1>1, <1>2, <1>3, <1>4, <1>5, <1>6, <1>7
    DEF Next, PoolStep, LifecycleStep, SubmitStep, WorkerStep

-------------------------------------------------------------------------------
(* The jobs in the queue *)

\* Adding a job to the queue, and taking the first one from it, changes the set of jobs in
\* it accordingly, and leaves every job in it once if it was.
LEMMA QueueAppended ==
    ASSUME queue \in Seq(Jobs), NEW j \in Jobs, queue' = Append(queue, j)
    PROVE  /\ Queued' = Queued \cup {j}
           /\ (\A i, k \in DOMAIN queue : queue[i] = queue[k] => i = k) /\ j \notin Queued
                 => \A i, k \in DOMAIN queue' : queue'[i] = queue'[k] => i = k
           /\ Len(queue') = Len(queue) + 1
<1>1. /\ DOMAIN queue = 1..Len(queue) /\ Len(queue) \in Nat
      /\ Len(queue') = Len(queue) + 1 /\ DOMAIN queue' = 1..(Len(queue) + 1)
      /\ \A i \in 1..Len(queue) : queue'[i] = queue[i]
      /\ queue'[Len(queue) + 1] = j
    BY AppendProperties, LenProperties
<1>2. Queued' = Queued \cup {j}
    BY <1>1 DEF Queued
<1> QED BY <1>1, <1>2 DEF Queued

LEMMA QueueTaken ==
    ASSUME queue \in Seq(Jobs), queue # <<>>, queue' = Tail(queue),
           \A i, k \in DOMAIN queue : queue[i] = queue[k] => i = k
    PROVE  /\ Head(queue) \in Queued /\ Queued' = Queued \ {Head(queue)}
           /\ \A i, k \in DOMAIN queue' : queue'[i] = queue'[k] => i = k
           /\ Len(queue') = Len(queue) - 1
<1>1. /\ DOMAIN queue = 1..Len(queue) /\ Len(queue) \in Nat \ {0}
      /\ Len(queue') = Len(queue) - 1 /\ DOMAIN queue' = 1..(Len(queue) - 1)
      /\ \A i \in 1..(Len(queue) - 1) : queue'[i] = queue[i + 1]
      /\ Head(queue) = queue[1]
    BY HeadTailProperties, LenProperties, EmptySeq
<1>2. Queued' \subseteq Queued \ {Head(queue)}
    BY <1>1 DEF Queued
<1>3. ASSUME NEW i \in 1..Len(queue), queue[i] # Head(queue) PROVE queue[i] \in Queued'
    <2>1. i - 1 \in 1..(Len(queue) - 1) /\ (i - 1) + 1 = i
        BY <1>1, <1>3
    <2>2. queue'[i - 1] = queue[i]
        BY <1>1, <2>1
    <2> QED BY <1>1, <2>1, <2>2 DEF Queued
<1>4. Queued \ {Head(queue)} \subseteq Queued'
    BY <1>1, <1>3 DEF Queued
<1>5. Head(queue) \in Queued /\ Queued' = Queued \ {Head(queue)}
    <2>1. 1 \in DOMAIN queue
        BY <1>1
    <2> QED BY <1>1, <1>2, <1>4, <2>1 DEF Queued
<1>6. ASSUME NEW i \in DOMAIN queue', NEW k \in DOMAIN queue', queue'[i] = queue'[k] PROVE i = k
    <2>1. i + 1 \in DOMAIN queue /\ k + 1 \in DOMAIN queue /\ queue[i + 1] = queue[k + 1]
        BY <1>1, <1>6
    <2>2. i + 1 = k + 1
        BY <2>1
    <2> QED BY <1>1, <2>2
<1> QED BY <1>1, <1>5, <1>6

\* When every job is in it once, the queue is as long as the set of its jobs is large.
LEMMA QueueCounted ==
    ASSUME queue \in Seq(Jobs), \A i, k \in DOMAIN queue : queue[i] = queue[k] => i = k
    PROVE  Cardinality(Queued) = Len(queue) /\ IsFiniteSet(Queued) /\ Queued \subseteq Jobs
<1>1. DOMAIN queue = 1..Len(queue) /\ Len(queue) \in Nat
    BY LenProperties
<1>2. \A i \in 1..Len(queue) : queue[i] \in Jobs
    BY ElementOfSeq
<1>3. Queued \subseteq Jobs
    BY <1>1, <1>2 DEF Queued
<1>4. queue \in Bijection(1..Len(queue), Queued)
    <2>1. queue \in [1..Len(queue) -> Queued]
        BY <1>1, LenProperties DEF Queued
    <2>2. \A j \in Queued : \E i \in 1..Len(queue) : queue[i] = j
        BY <1>1 DEF Queued
    <2> QED BY <1>1, <2>1, <2>2 DEF Bijection, Injection, Surjection, IsInjective
<1> QED BY <1>1, <1>3, <1>4, FS_CountingElements, FS_Subset DEF ExistsBijection

-------------------------------------------------------------------------------
(* Who submits what *)

\* Nobody has submitted anything initially; every client has a job of its own.
LEMMA InitOwnJobs == Init => OwnJobs
BY DEF Init, PoolInit, OwnJobs, None

LEMMA StepOwnJobs == TypeOK /\ OwnJobs /\ [Next]_vars => OwnJobs'
<1> SUFFICES ASSUME TypeOK, OwnJobs, [Next]_vars PROVE OwnJobs'
    OBVIOUS
<1> USE DEF OwnJobs
<1>c. client \in [Clients -> ClientPlace] /\ chunk \in 1..(Chunks + 1) /\ Chunks \in Nat
    BY DEF TypeOK, PoolTypeOK
<1>1. CASE NextChunk
    <2>1. client[Caller].at = "idle" /\ chunk \in 1..Chunks
        BY <1>c, <1>1 DEF NextChunk
    <2>2. client'[Caller].at # "idle" /\ client'[Caller].job = chunk
        BY <1>c, <1>1 DEF NextChunk, Submit
    <2>3. \A c \in Clients \ {Caller} : client'[c] = client[c]
        BY <1>c, <1>1 DEF NextChunk, Submit
    <2> QED BY <1>1, <2>1, <2>2, <2>3 DEF NextChunk
<1>2. CASE Accepted \/ Refused
    BY <1>c, <1>2 DEF Accepted, Refused, Move, ClientPlace
<1>3. CASE AllSubmitted \/ Wait \/ SpuriousReturn
    BY <1>3 DEF AllSubmitted, Wait, SpuriousReturn, poolVars
<1>4. ASSUME NEW c \in Clients, OtherSubmits(c) PROVE OwnJobs'
    <2>1. PICK j \in Jobs : ~IsChunk(j) /\ (\A d \in Clients : client[d].job # j) /\ Submit(c, j)
        BY <1>4 DEF OtherSubmits
    <2>2. c # Caller /\ client[c].at = "idle" /\ j \in Jobs \ (1..Chunks) /\ UNCHANGED <<pc, chunk>>
        BY <1>4, <2>1 DEF OtherSubmits, Submit, IsChunk, ingestVars
    <2>3. client'[c].job = j /\ client'[c].at # "idle" /\ \A d \in Clients \ {c} : client'[d] = client[d]
        BY <1>c, <2>1 DEF Submit
    <2> QED BY <2>1, <2>2, <2>3
<1>5. ASSUME NEW c \in Clients, SubmitStep(c), UNCHANGED ingestVars PROVE OwnJobs'
    <2>1. \E at \in {"push", "accepted", "undo", "refused"} : client' = Move(client, c, at)
        BY <1>5 DEF SubmitStep, CountSubmitted, Push, PushFails, Undo
    <2>2. client[c].at # "idle"
        BY <1>5 DEF SubmitStep, CountSubmitted, Push, PushFails, Undo
    <2>3. \A d \in Clients : client'[d].job = client[d].job /\ (client'[d].at = "idle" <=> client[d].at = "idle")
        BY <1>c, <2>1, <2>2 DEF Move, ClientPlace
    <2> QED BY <1>5, <2>3 DEF ingestVars
<1>6. CASE UNCHANGED <<client, pc, chunk>>
    BY <1>6
<1>7. ASSUME NEW w \in Workers, JobStep(w) PROVE OwnJobs'
    <2>1. UNCHANGED <<client, chunk>> /\ (pc' = pc \/ (pc = "asleep" /\ pc' = "wait"))
        BY <1>7 DEF JobStep, RunChunk, Notify, RunOther, ingestVars
    <2> QED BY <2>1
<1>8. CASE PoolStep /\ ~\E c \in Clients : SubmitStep(c)
    <2>1. UNCHANGED client
        BY <1>8 DEF PoolStep, Start, StartFails, Cancel, Shutdown, LifecycleStep, Started, Close,
                    CountDropped, DropQueue, Tally, Join, WorkerStep, Pop, Exit, Sleep, Record,
                    SpuriousWake
    <2> QED BY <1>6, <1>8, <2>1 DEF PoolStep, ingestVars
<1>9. CASE UNCHANGED vars
    BY <1>6, <1>9 DEF vars, poolVars, ingestVars
<1> QED BY <1>1, <1>2, <1>3, <1>4, <1>5, <1>7, <1>8, <1>9 DEF Next, CallerStep, PoolStep

\* No job is pushed a second time.
LEMMA PushedOnce ==
    ASSUME TypeOK, OwnJobs, NEW c \in Clients, client[c].at \notin {"idle", "accepted"}
    PROVE  client[c].job \in Jobs \ Pushed
<1>1. chunk \in Nat /\ Chunks \in Nat
    BY DEF TypeOK
<1>2. CASE c = Caller
    <2>1. client[c].job = chunk /\ chunk \in 1..Chunks
        BY <1>2 DEF OwnJobs
    <2>2. \A d \in Clients \ {Caller} : client[d].at = "accepted" => client[d].job \notin 1..Chunks
        BY DEF OwnJobs
    <2> QED BY <1>1, <1>2, <2>1, <2>2 DEF Pushed
<1>3. CASE c # Caller
    <2>1. client[c].job \in Jobs \ (1..Chunks)
        BY <1>3 DEF OwnJobs
    <2>2. client[Caller].at = "accepted" => client[Caller].job \in 1..Chunks
        BY DEF OwnJobs
    <2>3. \A d \in Clients \ {Caller} : client[d].at = "accepted" => client[d].job # client[c].job
        BY <1>3 DEF OwnJobs
    <2> QED BY <1>1, <2>1, <2>2, <2>3 DEF Pushed
<1> QED BY <1>2, <1>3

\* What was pushed stays pushed, and so is what is pushed in this step.
LEMMA StepPushed ==
    ASSUME TypeOK, OwnJobs, [Next]_vars
    PROVE  /\ Pushed \subseteq Pushed'
           /\ \A c \in Clients : Push(c) => client[c].job \in Pushed'
<1>c. client \in [Clients -> ClientPlace] /\ chunk \in 1..(Chunks + 1) /\ Chunks \in Nat
    BY DEF TypeOK, PoolTypeOK
<1>1. ASSUME NEW c \in Clients, Push(c) PROVE client[c].job \in Pushed'
    BY <1>c, <1>1 DEF Push, Move, Pushed, ClientPlace
<1> SUFFICES Pushed \subseteq Pushed'
    BY <1>1
<1>2. ASSUME chunk' = chunk,
             \A c \in Clients : client[c].at = "accepted" => client'[c] = client[c]
      PROVE  Pushed \subseteq Pushed'
    BY <1>2 DEF Pushed
<1>3. CASE Accepted
    <2>1. client[Caller].job = chunk /\ chunk' = chunk + 1
        BY <1>3 DEF Accepted, OwnJobs
    <2>2. \A c \in Clients \ {Caller} : client'[c] = client[c]
        BY <1>c, <1>3 DEF Accepted, Move
    <2>3. {j \in 1..Chunks : j < chunk} \cup ({chunk} \cap 1..Chunks) \subseteq {j \in 1..Chunks : j < chunk'}
        BY <1>c, <2>1
    <2>4. chunk \in 1..Chunks
        BY <1>3 DEF Accepted, OwnJobs
    <2> QED BY <2>1, <2>2, <2>3, <2>4 DEF Pushed
<1>4. CASE NextChunk \/ Refused \/ AllSubmitted \/ Wait \/ SpuriousReturn
    BY <1>c, <1>2, <1>4 DEF NextChunk, Refused, AllSubmitted, Wait, SpuriousReturn, Submit, Move, poolVars
<1>5. CASE \E c \in Clients : OtherSubmits(c)
    BY <1>c, <1>2, <1>5 DEF OtherSubmits, Submit, ingestVars
<1>6. CASE (\E c \in Clients : SubmitStep(c)) /\ UNCHANGED ingestVars
    BY <1>c, <1>2, <1>6 DEF SubmitStep, CountSubmitted, Push, PushFails, Undo, Move, ingestVars
<1>7. CASE \E w \in Workers : JobStep(w)
    BY <1>2, <1>7, JobSteps
<1>8. CASE PoolStep /\ ~\E c \in Clients : SubmitStep(c)
    <2>1. UNCHANGED client
        BY <1>8 DEF PoolStep, Start, StartFails, Cancel, Shutdown, LifecycleStep, Started, Close,
                    CountDropped, DropQueue, Tally, Join, WorkerStep, Pop, Exit, Sleep, Record,
                    SpuriousWake
    <2> QED BY <1>2, <1>8, <2>1 DEF PoolStep, ingestVars
<1>9. CASE UNCHANGED vars
    BY <1>2, <1>9 DEF vars, poolVars, ingestVars
<1> QED BY <1>1, <1>3, <1>4, <1>5, <1>6, <1>7, <1>8, <1>9 DEF Next, CallerStep, PoolStep

-------------------------------------------------------------------------------
(* No job is in two places *)

\* A worker that takes, runs or records a job leaves all the other workers as they are.
LEMMA LoopSteps ==
    ASSUME worker \in [Workers -> WorkerPlace], NEW w \in Workers
    PROVE  /\ Pop(w) => /\ w \notin InLoop /\ InLoop' = InLoop \cup {w}
                        /\ worker'[w].job = Head(queue)
                        /\ LoopJobs' = LoopJobs \cup {Head(queue)}
           /\ Record(w) => InLoop' = InLoop /\ LoopJobs' = LoopJobs
           /\ JobStep(w) => /\ InLoop' = InLoop \ {w}
                            /\ LoopJobs' = {worker[v].job : v \in InLoop \ {w}}
           /\ Pop(w) \/ Record(w) \/ JobStep(w) => \A v \in Workers \ {w} : worker'[v] = worker[v]
<1>1. ASSUME Pop(w) \/ Record(w) \/ JobStep(w)
      PROVE  \A v \in Workers \ {w} : worker'[v] = worker[v]
    <2>1. CASE JobStep(w)
        <3>1. PICK at \in {"notify", "record", "lost"} : worker' = Move(worker, w, at)
            BY <2>1, JobSteps
        <3> QED BY <3>1 DEF Move
    <2> QED BY <1>1, <2>1 DEF Pop, Record
<1>2. ASSUME Pop(w)
      PROVE  /\ w \notin InLoop /\ InLoop' = InLoop \cup {w}
             /\ worker'[w].job = Head(queue)
             /\ LoopJobs' = LoopJobs \cup {Head(queue)}
    <2>1. worker[w].at = "pop" /\ worker'[w] = [at |-> "run", job |-> Head(queue)]
        BY <1>2 DEF Pop
    <2>2. w \notin InLoop /\ InLoop' = InLoop \cup {w} /\ worker'[w].job = Head(queue)
        BY <1>1, <1>2, <2>1 DEF InLoop
    <2>3. \A v \in InLoop : worker'[v] = worker[v]
        BY <1>1, <1>2, <2>2 DEF InLoop
    <2> QED BY <2>2, <2>3 DEF LoopJobs
<1>3. ASSUME Record(w) PROVE InLoop' = InLoop /\ LoopJobs' = LoopJobs
    <2>1. worker[w].at = "record" /\ worker'[w] = [at |-> "pop", job |-> None]
        BY <1>3 DEF Record
    <2>2. InLoop' = InLoop /\ w \notin InLoop
        BY <1>1, <1>3, <2>1 DEF InLoop
    <2>3. \A v \in InLoop : worker'[v] = worker[v]
        BY <1>1, <1>3, <2>2 DEF InLoop
    <2> QED BY <2>2, <2>3 DEF LoopJobs
<1>4. ASSUME JobStep(w)
      PROVE  InLoop' = InLoop \ {w} /\ LoopJobs' = {worker[v].job : v \in InLoop \ {w}}
    <2>1. PICK at \in {"notify", "record", "lost"} : worker' = Move(worker, w, at)
        BY <1>4, JobSteps
    <2>2. worker'[w].at # "run"
        <3>1. worker'[w] = [at |-> at, job |-> worker[w].job]
            BY <2>1, MoveWorker
        <3> QED BY <3>1
    <2>3. InLoop' = InLoop \ {w}
        BY <1>1, <1>4, <2>2 DEF InLoop
    <2>4. \A v \in InLoop \ {w} : worker'[v] = worker[v]
        BY <1>1, <1>4 DEF InLoop
    <2> QED BY <2>3, <2>4 DEF LoopJobs
<1> QED BY <1>1, <1>2, <1>3, <1>4

\* Nothing was pushed, and nothing is anywhere, initially.
LEMMA InitOnePlace ==
    Init => OnePlace /\ Queued = {} /\ dropped = {} /\ LoopJobs = {}
BY DEF Init, PoolInit, OnePlace, Queued, InLoop, LoopJobs

\* A job that is pushed was nowhere before, and every job is in one place after every step.
LEMMA StepOnePlace ==
    ASSUME TypeOK, Absent, OwnJobs, OnePlace, Queued \cup dropped \cup LoopJobs \subseteq Pushed,
           [Next]_vars
    PROVE  OnePlace' /\ (Queued \cup dropped \cup LoopJobs \subseteq Pushed)'
<1>p. PoolTypeOK /\ queue \in Seq(Jobs) /\ worker \in [Workers -> WorkerPlace]
    BY DEF TypeOK, PoolTypeOK
<1>i. Pushed \subseteq Pushed'
    BY StepPushed
<1>1. ASSUME NEW c \in Clients, Push(c)
      PROVE  OnePlace' /\ (Queued \cup dropped \cup LoopJobs \subseteq Pushed)'
    <2> DEFINE j == client[c].job
    <2>1. j \in Jobs \ Pushed /\ j \in Pushed'
        BY <1>1, PushedOnce, StepPushed DEF Push
    <2>2. queue' = Append(queue, j) /\ dropped' = dropped /\ \A w \in Workers : Quiet(w)
        BY <1>p, <1>1, NotifyQuiet DEF Push
    <2>3. /\ InLoop' = InLoop /\ LoopJobs' = LoopJobs
          /\ \A w \in InLoop : worker'[w].job = worker[w].job
        BY <2>2, QuietSets
    <2>4. /\ Queued' = Queued \cup {j}
          /\ \A i, k \in DOMAIN queue' : queue'[i] = queue'[k] => i = k
        <3>1. j \notin Queued
            BY <2>1
        <3> QED BY <1>p, <2>1, <2>2, <3>1, QueueAppended DEF OnePlace
    <2>5. j \notin dropped /\ \A w \in InLoop : worker[w].job # j
        BY <2>1 DEF LoopJobs
    <2>6. \A w \in InLoop' : worker'[w].job \notin (Queued \cup dropped)'
        BY <2>2, <2>3, <2>4, <2>5 DEF OnePlace
    <2>7. \A w, v \in InLoop' : worker'[w].job = worker'[v].job => w = v
        BY <2>3 DEF OnePlace
    <2>8. (Queued \cap dropped)' = {}
        BY <2>2, <2>4, <2>5 DEF OnePlace
    <2> QED BY <1>i, <2>1, <2>2, <2>3, <2>4, <2>6, <2>7, <2>8 DEF OnePlace
<1>2. ASSUME NEW w \in Workers, Pop(w)
      PROVE  OnePlace' /\ (Queued \cup dropped \cup LoopJobs \subseteq Pushed)'
    <2>1. queue # <<>> /\ queue' = Tail(queue) /\ dropped' = dropped
        BY <1>2 DEF Pop
    <2>2. /\ Head(queue) \in Queued /\ Queued' = Queued \ {Head(queue)}
          /\ \A i, k \in DOMAIN queue' : queue'[i] = queue'[k] => i = k
        BY <1>p, <2>1, QueueTaken DEF OnePlace
    <2>3. /\ w \notin InLoop /\ InLoop' = InLoop \cup {w} /\ worker'[w].job = Head(queue)
          /\ LoopJobs' = LoopJobs \cup {Head(queue)}
        BY <1>p, <1>2, LoopSteps
    <2>4. \A v \in InLoop : worker'[v].job = worker[v].job /\ worker[v].job # Head(queue)
        <3>1. \A v \in InLoop : worker[v].job # Head(queue)
            BY <2>2 DEF OnePlace
        <3>2. \A v \in InLoop : v \in Workers \ {w}
            BY <2>3 DEF InLoop
        <3> QED BY <1>p, <1>2, <3>1, <3>2, LoopSteps
    <2>5. \A v \in InLoop' : worker'[v].job \notin (Queued \cup dropped)'
        BY <2>1, <2>2, <2>3, <2>4 DEF OnePlace
    <2>6. \A u, v \in InLoop' : worker'[u].job = worker'[v].job => u = v
        BY <2>3, <2>4 DEF OnePlace
    <2>7. (Queued \cap dropped)' = {}
        BY <2>1, <2>2 DEF OnePlace
    <2> QED BY <1>i, <2>1, <2>2, <2>3, <2>5, <2>6, <2>7 DEF OnePlace
<1>3. ASSUME NEW w \in Workers, Record(w) \/ JobStep(w)
      PROVE  OnePlace' /\ (Queued \cup dropped \cup LoopJobs \subseteq Pushed)'
    <2>1. queue' = queue /\ dropped' = dropped /\ Queued' = Queued
        BY <1>3, JobSteps DEF Record, Queued
    <2>2. InLoop' \subseteq InLoop /\ LoopJobs' \subseteq LoopJobs
        <3>1. CASE Record(w)
            BY <1>p, <3>1, LoopSteps
        <3>2. CASE JobStep(w)
            <4>1. {worker[v].job : v \in InLoop \ {w}} \subseteq LoopJobs
                BY DEF LoopJobs
            <4> QED BY <1>p, <3>2, <4>1, LoopSteps
        <3> QED BY <1>3, <3>1, <3>2
    <2>3. \A v \in InLoop' : worker'[v].job = worker[v].job
        <3>1. CASE Record(w)
            BY <1>p, <2>2, <3>1 DEF Record, InLoop
        <3>2. CASE JobStep(w)
            BY <1>p, <3>2, LoopSteps DEF InLoop
        <3> QED BY <1>3, <3>1, <3>2
    <2> QED BY <1>i, <2>1, <2>2, <2>3 DEF OnePlace
<1>4. CASE DropQueue
    <2>1. queue' = <<>> /\ dropped' = dropped \cup Queued /\ \A w \in Workers : Quiet(w)
        BY <1>p, <1>4, NotifyQuiet DEF DropQueue, Queued
    <2>2. Queued' = {}
        BY <2>1 DEF Queued
    <2>3. /\ InLoop' = InLoop /\ LoopJobs' = LoopJobs
          /\ \A w \in InLoop : worker'[w].job = worker[w].job
        BY <2>1, QuietSets
    <2> QED BY <1>i, <2>1, <2>2, <2>3 DEF OnePlace
<1>5. CASE UNCHANGED <<queue, dropped>> /\ \A w \in Workers : Quiet(w)
    <2>1. Queued' = Queued
        BY <1>5 DEF Queued
    <2>2. /\ InLoop' = InLoop /\ LoopJobs' = LoopJobs
          /\ \A w \in InLoop : worker'[w].job = worker[w].job
        BY <1>5, QuietSets
    <2> QED BY <1>i, <1>5, <2>1, <2>2 DEF OnePlace
<1> QED BY <1>p, <1>1, <1>2, <1>3, <1>4, <1>5, StepKinds

-------------------------------------------------------------------------------
(* The account of an abort *)

\* Nothing is dropped or reported initially, and each step of an abort carries its account on.
LEMMA InitTallying == PoolInit => Tallying
BY FS_EmptySet DEF PoolInit, Tallying

\* Steps that leave the queue and what the abort knows alone leave its account right.
LEMMA SameTally ==
    ASSUME Tallying, UNCHANGED <<queue, gate, life, counted, dropped, drift>>,
           stats'.cancelled = stats.cancelled
    PROVE  Tallying'
BY DEF Tallying

LEMMA StepTallying ==
    ASSUME PoolTypeOK, Lifecycle, Absent, OnePlace, Tallying, [Next]_vars
    PROVE  Tallying'
<1>p. /\ queue \in Seq(Jobs) /\ Len(queue) \in Nat /\ drift \in Int /\ counted \in Nat
      /\ stats \in Counters /\ stats.cancelled \in Nat
      /\ life \in {"idle", "starting", "close", "count", "drop", "tally", "join"}
    BY CountsType, CountersType DEF PoolTypeOK
<1>1. CASE \/ CallerStep \/ SpuriousReturn \/ \E c \in Clients : OtherSubmits(c)
    BY <1>1, ClientSteps, SameTally
<1>2. ASSUME NEW w \in Workers, JobStep(w) PROVE Tallying'
    BY <1>2, JobSteps, SameTally
<1>3. CASE Start \/ Started \/ (\E m \in {"Drain", "Abort"} : Shutdown(m)) \/ Close \/ Join
    <2>1. UNCHANGED <<queue, stats, dropped, drift, counted>> /\ life # "drop" /\ life' # "drop"
          /\ life # "tally" /\ life' # "tally"
        BY <1>3 DEF Start, Started, Shutdown, Close, Join
    <2>2. gate' = "aborted" <=> gate = "aborted"
        BY <1>3 DEF Start, Started, Shutdown, Close, Join, Lifecycle
    <2> QED BY <2>1, <2>2 DEF Tallying
<1>4. ASSUME NEW W \in (SUBSET Workers) \ {Workers}, StartFails(W) PROVE Tallying'
    BY <1>4, FS_EmptySet DEF StartFails, Tallying
<1>5. CASE CountDropped
    <2>1. gate = "open" /\ drift = 0
        BY <1>5 DEF CountDropped, Lifecycle, Tallying
    <2> QED BY <1>p, <1>5, <2>1 DEF CountDropped, Tallying
<1>6. CASE DropQueue
    <2>1. gate = "open" /\ dropped = {} /\ stats.cancelled = 0 /\ counted = Len(queue) + drift
        BY <1>6 DEF DropQueue, Lifecycle, Tallying
    <2>2. dropped' = Queued /\ Cardinality(Queued) = Len(queue)
        BY <1>p, <1>6, <2>1, QueueCounted DEF DropQueue, Queued, OnePlace
    <2> QED BY <1>6, <2>1, <2>2 DEF DropQueue, Tallying
<1>7. CASE Tally
    <2>1. gate = "aborted" /\ stats.cancelled = 0 /\ counted = Cardinality(dropped) + drift
        BY <1>7 DEF Tally, Lifecycle, Tallying
    <2>2. stats'.cancelled = counted
        BY <1>p, <1>7, <2>1 DEF Tally, Counters
    <2> QED BY <1>7, <2>1, <2>2 DEF Tally, Tallying
<1>8. ASSUME NEW c \in Clients, CountSubmitted(c) \/ PushFails(c) \/ Undo(c) PROVE Tallying'
    <2>1. stats'.cancelled = stats.cancelled
        BY <1>p, <1>8 DEF CountSubmitted, PushFails, Undo, Counters
    <2>2. UNCHANGED <<queue, gate, life, counted, dropped, drift>>
        BY <1>8 DEF CountSubmitted, PushFails, Undo
    <2> QED BY <2>1, <2>2, SameTally
<1>9. ASSUME NEW c \in Clients, Push(c) PROVE Tallying'
    <2>1. gate = "open" /\ life # "tally" /\ UNCHANGED <<gate, life, counted, stats, dropped>>
        BY <1>9 DEF Push, Lifecycle
    <2>2. Len(queue') = Len(queue) + 1
        BY <1>9, AppendProperties, <1>p DEF Push
    <2>3. drift' = IF life = "drop" THEN drift - 1 ELSE drift
        BY <1>9 DEF Push
    <2> QED BY <1>p, <2>1, <2>2, <2>3 DEF Tallying
<1>10. ASSUME NEW w \in Workers, Pop(w) PROVE Tallying'
    <2>1. UNCHANGED <<gate, life, counted, stats, dropped>>
        BY <1>10 DEF Pop
    <2>2. Len(queue') = Len(queue) - 1
        BY <1>10, HeadTailProperties, <1>p DEF Pop
    <2>3. drift' = IF life = "drop" THEN drift + 1 ELSE drift
        BY <1>10 DEF Pop
    <2>4. life = "drop" => gate = "open"
        BY DEF Lifecycle
    <2> QED BY <1>p, <2>1, <2>2, <2>3, <2>4 DEF Tallying
<1>11. ASSUME NEW w \in Workers, Exit(w) \/ Sleep(w) \/ SpuriousWake(w) \/ Record(w)
       PROVE  Tallying'
    <2>1. stats'.cancelled = stats.cancelled
        BY <1>p, <1>11 DEF Exit, Sleep, SpuriousWake, Record, Counters
    <2>2. UNCHANGED <<queue, gate, life, counted, dropped, drift>>
        BY <1>11 DEF Exit, Sleep, SpuriousWake, Record
    <2> QED BY <2>1, <2>2, SameTally
<1>12. CASE Cancel \/ UNCHANGED vars
    BY <1>12, SameTally DEF Cancel, vars, poolVars
<1> QED
    BY <1>1, <1>2, <1>3, <1>4, <1>5, <1>6, <1>7, <1>8, <1>9, <1>10, <1>11, <1>12
    DEF Next, PoolStep, LifecycleStep, SubmitStep, WorkerStep

-------------------------------------------------------------------------------
(* The counter of the ingest *)

\* A chunk becomes outstanding when its job is pushed and stops to be when it has run; being
\* taken by a worker or dropped by an abort changes nothing.
LEMMA StepUndone ==
    ASSUME TypeOK, Absent, OnePlace, [Next]_vars
    PROVE  /\ \A c \in Clients : Push(c) /\ client[c].job \in Jobs =>
                  Undone' = Undone \cup ((1..Chunks) \cap {client[c].job})
           /\ \A w \in Workers : JobStep(w) =>
                  Undone' = IF worker[w].at = "run" THEN Undone \ {worker[w].job} ELSE Undone
           /\ (\E c \in Clients : Push(c)) \/ (\E w \in Workers : JobStep(w)) \/ Undone' = Undone
<1>p. PoolTypeOK /\ queue \in Seq(Jobs) /\ worker \in [Workers -> WorkerPlace]
    BY DEF TypeOK, PoolTypeOK
<1>1. ASSUME NEW c \in Clients, Push(c), client[c].job \in Jobs
      PROVE  Undone' = Undone \cup ((1..Chunks) \cap {client[c].job})
    <2>1. queue' = Append(queue, client[c].job) /\ dropped' = dropped /\ \A w \in Workers : Quiet(w)
        BY <1>p, <1>1, NotifyQuiet DEF Push
    <2>2. LoopJobs' = LoopJobs
        BY <2>1, QuietSets
    <2>3. Queued' = Queued \cup {client[c].job}
        BY <1>p, <1>1, <2>1, QueueAppended
    <2> QED BY <2>1, <2>2, <2>3 DEF Undone
<1>2. ASSUME NEW w \in Workers, JobStep(w)
      PROVE  Undone' = IF worker[w].at = "run" THEN Undone \ {worker[w].job} ELSE Undone
    <2>1. queue' = queue /\ dropped' = dropped /\ Queued' = Queued
        BY <1>2, JobSteps DEF Queued
    <2>2. LoopJobs' = {worker[v].job : v \in InLoop \ {w}}
        BY <1>p, <1>2, LoopSteps
    <2>3. CASE worker[w].at = "run"
        <3>1. w \in InLoop
            BY <2>3 DEF InLoop
        <3>2. LoopJobs' = LoopJobs \ {worker[w].job}
            BY <2>2, <3>1 DEF LoopJobs, OnePlace
        <3>3. worker[w].job \notin Queued \cup dropped
            BY <3>1 DEF OnePlace
        <3> QED BY <2>1, <2>3, <3>2, <3>3 DEF Undone
    <2>4. CASE worker[w].at # "run"
        <3>1. w \notin InLoop
            BY <2>4 DEF InLoop
        <3>2. LoopJobs' = LoopJobs
            BY <2>2, <3>1 DEF LoopJobs
        <3> QED BY <2>1, <2>4, <3>2 DEF Undone
    <2> QED BY <2>3, <2>4
<1>3. ASSUME NEW w \in Workers, Pop(w) PROVE Undone' = Undone
    <2>1. queue # <<>> /\ queue' = Tail(queue) /\ dropped' = dropped
        BY <1>3 DEF Pop
    <2>2. Head(queue) \in Queued /\ Queued' = Queued \ {Head(queue)}
        BY <1>p, <2>1, QueueTaken DEF OnePlace
    <2>3. LoopJobs' = LoopJobs \cup {Head(queue)}
        BY <1>p, <1>3, LoopSteps
    <2> QED BY <2>1, <2>2, <2>3 DEF Undone
<1>4. ASSUME NEW w \in Workers, Record(w) PROVE Undone' = Undone
    <2>1. Queued' = Queued /\ dropped' = dropped
        BY <1>4 DEF Record, Queued
    <2>2. LoopJobs' = LoopJobs
        BY <1>p, <1>4, LoopSteps
    <2> QED BY <2>1, <2>2 DEF Undone
<1>5. ASSUME DropQueue PROVE Undone' = Undone
    <2>1. queue' = <<>> /\ dropped' = dropped \cup Queued /\ \A w \in Workers : Quiet(w)
        BY <1>p, <1>5, NotifyQuiet DEF DropQueue, Queued
    <2>2. Queued' = {}
        BY <2>1 DEF Queued
    <2>3. LoopJobs' = LoopJobs
        BY <2>1, QuietSets
    <2> QED BY <2>1, <2>2, <2>3 DEF Undone
<1>6. ASSUME UNCHANGED <<queue, dropped>>, \A w \in Workers : Quiet(w) PROVE Undone' = Undone
    <2>1. Queued' = Queued
        BY <1>6 DEF Queued
    <2>2. LoopJobs' = LoopJobs
        BY <1>6, QuietSets
    <2> QED BY <1>6, <2>1, <2>2 DEF Undone
<1> QED BY <1>p, <1>1, <1>2, <1>3, <1>4, <1>5, <1>6, StepKinds

\* The number of outstanding chunks is a natural number.
LEMMA UndoneFinite ==
    /\ IsFiniteSet(Undone) /\ Cardinality(Undone) \in Nat
    /\ Undone # {} => Cardinality(Undone) > 0
<1>1. Undone \subseteq 1..Chunks /\ IsFiniteSet(1..Chunks)
    BY FS_Interval DEF Undone
<1>2. IsFiniteSet(Undone)
    BY <1>1, FS_Subset
<1> QED BY <1>2, FS_CardinalityType, FS_EmptySet

\* Nothing is outstanding initially, and the counter follows every step.
LEMMA InitRemaining == Init => Remaining
<1> SUFFICES ASSUME Init PROVE Remaining
    OBVIOUS
<1>1. Undone = {}
    BY InitOnePlace DEF Undone
<1> QED BY <1>1, FS_EmptySet DEF Init, Remaining

LEMMA StepRemaining ==
    ASSUME TypeOK, Absent, OnePlace, OwnJobs, Remaining,
           Queued \cup dropped \cup LoopJobs \subseteq Pushed, [Next]_vars
    PROVE  Remaining'
<1> DEFINE Pending == IF pc = "submit" /\ client[Caller].at # "accepted" THEN 1 ELSE 0
<1>p. /\ PoolTypeOK /\ client \in [Clients -> ClientPlace] /\ remaining \in Nat
      /\ worker \in [Workers -> WorkerPlace]
    BY DEF TypeOK, PoolTypeOK
<1>r. /\ remaining = Cardinality(Undone) + Pending
      /\ pc = "returned" => remaining = 0
    BY DEF Remaining
<1>s. ASSUME Undone' = Undone, Pending' = Pending, remaining' = remaining,
             pc' = "returned" => pc = "returned" \/ remaining = 0
      PROVE  Remaining'
    BY <1>r, <1>s DEF Remaining
<1>u. (\E c \in Clients : Push(c)) \/ (\E w \in Workers : JobStep(w)) \/ Undone' = Undone
    BY StepUndone
<1>1. CASE NextChunk
    <2>1. client[Caller].at = "idle" /\ pc # "submit" /\ pc' = "submit" /\ remaining' = remaining + 1
        BY <1>1 DEF NextChunk, Submit
    <2>2. client'[Caller].at # "accepted"
        BY <1>p, <1>1 DEF NextChunk, Submit
    <2>3. Undone' = Undone
        BY <1>1, ClientSteps DEF CallerStep, Undone, Queued, LoopJobs, InLoop
    <2> QED BY <1>r, <2>1, <2>2, <2>3, UndoneFinite DEF Remaining
<1>2. CASE Accepted \/ Refused \/ AllSubmitted \/ Wait \/ SpuriousReturn
    <2>1. Undone' = Undone
        BY <1>2, ClientSteps DEF CallerStep, Undone, Queued, LoopJobs, InLoop
    <2>2. CASE Accepted
        BY <1>p, <1>r, <2>1, <2>2 DEF Accepted, Remaining
    <2>3. CASE Refused
        BY <1>p, <1>r, <2>1, <2>3, UndoneFinite DEF Refused, Remaining
    <2>4. CASE AllSubmitted \/ Wait \/ SpuriousReturn
        BY <1>p, <1>r, <2>1, <2>4 DEF AllSubmitted, Wait, SpuriousReturn, Remaining
    <2> QED BY <1>2, <2>2, <2>3, <2>4
<1>3. ASSUME NEW c \in Clients, OtherSubmits(c) PROVE Remaining'
    <2>1. Undone' = Undone
        BY <1>3, ClientSteps DEF Undone, Queued, LoopJobs, InLoop
    <2>2. client'[Caller] = client[Caller]
        BY <1>p, <1>3 DEF OtherSubmits, Submit
    <2>3. pc' = pc /\ remaining' = remaining
        BY <1>3 DEF OtherSubmits, ingestVars
    <2> QED BY <1>s, <2>1, <2>2, <2>3
<1>4. ASSUME NEW w \in Workers, RunChunk(w) PROVE Remaining'
    <2>1. /\ worker[w].at = "run" /\ worker[w].job \in 1..Chunks
          /\ remaining' = remaining - 1 /\ pc' = pc /\ client' = client
        BY <1>4 DEF RunChunk, IsChunk
    <2>2. Undone' = Undone \ {worker[w].job}
        BY <1>4, <2>1, StepUndone DEF JobStep
    <2>3. worker[w].job \in Undone
        BY <2>1 DEF Undone, LoopJobs, InLoop
    <2>4. Cardinality(Undone') = Cardinality(Undone) - 1 /\ Cardinality(Undone) > 0
        <3>1. Cardinality(Undone \ {worker[w].job}) = Cardinality(Undone) - 1
            BY <2>3, UndoneFinite, FS_RemoveElement
        <3> QED BY <2>2, <2>3, <3>1, UndoneFinite
    <2>5. pc # "returned"
        BY <1>r, <2>4, UndoneFinite
    <2> QED BY <1>r, <2>1, <2>4, <2>5, UndoneFinite DEF Remaining
<1>5. ASSUME NEW w \in Workers, Notify(w) \/ RunOther(w) PROVE Remaining'
    <2>1. /\ worker[w].at = "run" => worker[w].job \notin 1..Chunks
          /\ remaining' = remaining /\ client' = client
          /\ pc' = pc \/ (pc = "asleep" /\ pc' = "wait")
        BY <1>5 DEF Notify, RunOther, IsChunk, ingestVars
    <2>2. Undone' = IF worker[w].at = "run" THEN Undone \ {worker[w].job} ELSE Undone
        BY <1>5, StepUndone DEF JobStep
    <2>3. Undone' = Undone
        BY <2>1, <2>2 DEF Undone
    <2> QED BY <1>s, <2>1, <2>3
<1>6. ASSUME NEW c \in Clients, Push(c), UNCHANGED ingestVars PROVE Remaining'
    <2> DEFINE j == client[c].job
    <2>1. client[c].at = "push" /\ j \in Jobs \ Pushed
        BY <1>6, PushedOnce DEF Push
    <2>2. Undone' = Undone \cup ((1..Chunks) \cap {j})
        BY <1>6, <2>1, StepUndone
    <2>3. /\ client'[c].at = "accepted" /\ \A d \in Clients \ {c} : client'[d] = client[d]
        BY <1>p, <1>6 DEF Push, Move, ClientPlace
    <2>4. pc' = pc /\ remaining' = remaining
        BY <1>6 DEF ingestVars
    <2>5. CASE c = Caller
        <3>1. pc = "submit" /\ j \in 1..Chunks /\ j \notin Undone
            BY <2>1, <2>5 DEF OwnJobs, Undone
        <3>2. Cardinality(Undone') = Cardinality(Undone) + 1
            <4>1. Undone' = Undone \cup {j}
                BY <2>2, <3>1
            <4> QED BY <3>1, <4>1, UndoneFinite, FS_AddElement
        <3> QED BY <1>r, <2>1, <2>3, <2>4, <2>5, <3>1, <3>2, UndoneFinite DEF Remaining
    <2>6. CASE c # Caller
        <3>1. j \notin 1..Chunks
            BY <2>1, <2>6 DEF OwnJobs
        <3>2. Undone' = Undone
            BY <2>2, <3>1
        <3>3. client'[Caller] = client[Caller]
            BY <2>3, <2>6
        <3> QED BY <1>s, <2>4, <3>2, <3>3
    <2> QED BY <2>5, <2>6
<1>7. ASSUME NEW c \in Clients, CountSubmitted(c) \/ PushFails(c) \/ Undo(c), UNCHANGED ingestVars
      PROVE  Remaining'
    <2>1. Undone' = Undone
        BY <1>7 DEF CountSubmitted, PushFails, Undo, Undone, Queued, LoopJobs, InLoop
    <2>2. client'[Caller].at = "accepted" <=> client[Caller].at = "accepted"
        BY <1>p, <1>7 DEF CountSubmitted, PushFails, Undo, Move, ClientPlace
    <2>3. pc' = pc /\ remaining' = remaining
        BY <1>7 DEF ingestVars
    <2> QED BY <1>s, <2>1, <2>2, <2>3
<1>8. CASE PoolStep /\ ~\E c \in Clients : SubmitStep(c)
    <2>1. UNCHANGED client /\ UNCHANGED <<pc, remaining>>
        BY <1>8 DEF PoolStep, Start, StartFails, Cancel, Shutdown, LifecycleStep, Started, Close,
                    CountDropped, DropQueue, Tally, Join, WorkerStep, Pop, Exit, Sleep, Record,
                    SpuriousWake, ingestVars
    <2>2. Undone' = Undone \/ \E w \in Workers : JobStep(w)
        BY <1>8, <1>u DEF SubmitStep
    <2>3. ASSUME NEW w \in Workers, JobStep(w) PROVE Remaining'
        BY <1>4, <1>5, <2>3 DEF JobStep
    <2> QED BY <1>s, <2>1, <2>2, <2>3
<1>9. CASE UNCHANGED vars
    BY <1>s, <1>9 DEF vars, poolVars, ingestVars, Undone, Queued, LoopJobs, InLoop
<1> QED
    BY <1>1, <1>2, <1>3, <1>4, <1>5, <1>6, <1>7, <1>8, <1>9
    DEF Next, CallerStep, PoolStep, SubmitStep, JobStep

-------------------------------------------------------------------------------
(* Conservation of jobs *)

Pushing == {c \in Clients : client[c].at \in {"push", "undo"}}
Holding == {w \in Workers : Held(w)}

\* What a move does to the clients with a counted job, and to the workers with one.
LEMMA MovePushing ==
    ASSUME client \in [Clients -> ClientPlace], NEW c \in Clients,
           NEW at \in {"idle", "count", "push", "undo", "accepted", "refused"},
           client' = Move(client, c, at)
    PROVE  Pushing' = IF at \in {"push", "undo"} THEN Pushing \cup {c} ELSE Pushing \ {c}
<1>1. client'[c] = [at |-> at, job |-> client[c].job]
    BY DEF Move, ClientPlace
<1>2. client'[c].at = at /\ \A d \in Clients \ {c} : client'[d] = client[d]
    BY <1>1 DEF Move
<1> QED BY <1>2 DEF Pushing

\* The number of them changes by one when one of them comes or goes.
LEMMA OneMore ==
    ASSUME NEW S, IsFiniteSet(S), NEW x
    PROVE  /\ x \notin S => Cardinality(S \cup {x}) = Cardinality(S) + 1
           /\ x \in S => Cardinality(S \ {x}) = Cardinality(S) - 1
           /\ x \notin S => Cardinality(S \ {x}) = Cardinality(S)
BY FS_AddElement, FS_RemoveElement

LEMMA InitConserved == Init => JobsConserved
<1> SUFFICES ASSUME Init PROVE JobsConserved
    OBVIOUS
<1>1. Pushing = {} /\ Holding = {}
    BY DEF Init, PoolInit, Pushing, Holding, Held
<1>2. /\ stats = [submitted |-> 0, completed |-> 0, failed |-> 0, cancelled |-> 0]
      /\ queue = <<>> /\ dropped = {}
    BY DEF Init, PoolInit
<1>3. Cardinality(Pushing) = 0 /\ Len(queue) = 0 /\ Cardinality(Holding) = 0 /\ Cardinality(dropped) = 0
    BY <1>1, <1>2, FS_EmptySet
<1> QED BY <1>2, <1>3 DEF JobsConserved, Pushing, Holding

\* Nothing a client does outside the pool changes who has a counted job.
LEMMA ClientsPushing ==
    ASSUME TypeOK, CallerStep \/ SpuriousReturn \/ \E c \in Clients : OtherSubmits(c)
    PROVE  Pushing' = Pushing
<1>c. client \in [Clients -> ClientPlace] /\ chunk \in 1..(Chunks + 1)
    BY DEF TypeOK, PoolTypeOK
<1>1. ASSUME NEW c \in Clients, NEW j, Submit(c, j) PROVE Pushing' = Pushing
    <2>1. client[c].at = "idle" /\ client'[c].at \in {"count", "refused"}
          /\ \A d \in Clients \ {c} : client'[d] = client[d]
        BY <1>c, <1>1 DEF Submit
    <2> QED BY <2>1 DEF Pushing
<1>2. CASE NextChunk
    BY <1>1, <1>2 DEF NextChunk
<1>3. CASE \E c \in Clients : OtherSubmits(c)
    BY <1>1, <1>3 DEF OtherSubmits
<1>4. CASE Accepted \/ Refused
    <2>1. client[Caller].at \in {"accepted", "refused"} /\ client' = Move(client, Caller, "idle")
        BY <1>4 DEF Accepted, Refused
    <2>2. Pushing' = Pushing \ {Caller}
        BY <1>c, <2>1, MovePushing
    <2> QED BY <2>1, <2>2 DEF Pushing
<1>5. CASE AllSubmitted \/ Wait \/ SpuriousReturn
    BY <1>5 DEF AllSubmitted, Wait, SpuriousReturn, poolVars, Pushing
<1> QED BY <1>2, <1>3, <1>4, <1>5 DEF CallerStep

LEMMA StepConserved ==
    ASSUME TypeOK, JobsConserved, Lifecycle, Absent, Tallying, OnePlace, OwnJobs, [Next]_vars
    PROVE  JobsConserved'
<1>p. /\ PoolTypeOK /\ queue \in Seq(Jobs) /\ client \in [Clients -> ClientPlace]
      /\ worker \in [Workers -> WorkerPlace] /\ stats \in Counters
      /\ stats.submitted \in Nat /\ stats.completed \in Nat /\ stats.failed \in Nat
    BY CountersType DEF TypeOK, PoolTypeOK
<1>m. stats.submitted \in Nat /\ stats.completed \in Nat /\ stats.failed \in Nat
    BY <1>p
<1>n. /\ IsFiniteSet(Pushing) /\ IsFiniteSet(Holding) /\ Cardinality(Pushing) \in Nat
      /\ Cardinality(Holding) \in Nat /\ Cardinality(dropped) \in Nat /\ Len(queue) \in Nat
    BY <1>p, CountsType DEF Pushing, Holding
<1>j. stats.submitted = Cardinality(Pushing) + Len(queue) + Cardinality(Holding)
                        + stats.completed + stats.failed + Cardinality(dropped)
    BY DEF JobsConserved, Pushing, Holding
<1> SUFFICES stats'.submitted = Cardinality(Pushing') + Len(queue') + Cardinality(Holding')
                        + stats'.completed + stats'.failed + Cardinality(dropped')
    BY DEF JobsConserved, Pushing, Holding
<1> DEFINE Balanced == stats'.submitted = Cardinality(Pushing') + Len(queue') + Cardinality(Holding')
                        + stats'.completed + stats'.failed + Cardinality(dropped')
<1>s. ASSUME Pushing' = Pushing, Holding' = Holding, UNCHANGED <<queue, dropped>>,
             stats'.submitted = stats.submitted, stats'.completed = stats.completed,
             stats'.failed = stats.failed
      PROVE  Balanced
    BY <1>j, <1>s
<1>q. ASSUME \A w \in Workers : Quiet(w) PROVE Holding' = Holding
    BY <1>q, QuietSets DEF Holding
<1>1. CASE CallerStep \/ SpuriousReturn \/ \E c \in Clients : OtherSubmits(c)
    <2>1. Holding' = Holding
        BY <1>1, ClientSteps DEF Holding, Held
    <2> QED BY <1>1, <1>s, <2>1, ClientSteps, ClientsPushing
<1>2. ASSUME NEW w \in Workers, JobStep(w) PROVE Balanced
    <2>1. \A v \in Workers \ {w} : worker'[v] = worker[v]
        BY <1>p, <1>2, LoopSteps
    <2>2. Held(w) /\ Held(w)'
        <3>1. PICK at \in {"notify", "record", "lost"} : worker' = Move(worker, w, at)
            BY <1>2, JobSteps
        <3>2. worker'[w] = [at |-> at, job |-> worker[w].job]
            BY <1>p, <3>1, MoveWorker
        <3> QED BY <1>2, <3>2, JobSteps DEF Held
    <2>3. Holding' = Holding
        BY <2>1, <2>2 DEF Holding, Held
    <2>4. Pushing' = Pushing
        BY <1>2, JobSteps DEF Pushing
    <2> QED BY <1>2, <1>s, <2>3, <2>4, JobSteps
<1>3. CASE DropQueue
    <2>1. dropped = {} /\ stats' = stats /\ queue' = <<>>
        BY <1>3 DEF DropQueue, Lifecycle, Tallying
    <2>2. dropped' = Queued /\ Cardinality(Queued) = Len(queue)
        BY <1>p, <1>3, <2>1, QueueCounted DEF DropQueue, Queued, OnePlace
    <2>3. Holding' = Holding
        BY <1>p, <1>3, <1>q, NotifyQuiet DEF DropQueue
    <2>4. Pushing' = Pushing
        BY <1>3 DEF DropQueue, Pushing
    <2>5. Cardinality(dropped) = 0 /\ Len(queue') = 0
        BY <2>1, FS_EmptySet
    <2>6. /\ Cardinality(dropped') = Len(queue) /\ Cardinality(Pushing') = Cardinality(Pushing)
          /\ Cardinality(Holding') = Cardinality(Holding)
        BY <2>2, <2>3, <2>4
    <2>7. /\ stats'.submitted = stats.submitted /\ stats'.completed = stats.completed
          /\ stats'.failed = stats.failed
        BY <2>1
    <2> QED BY <1>j, <1>m, <1>n, <2>5, <2>6, <2>7
<1>4. ASSUME NEW c \in Clients, CountSubmitted(c) PROVE Balanced
    <2>1. c \notin Pushing /\ client' = Move(client, c, "push")
        BY <1>4 DEF CountSubmitted, Pushing
    <2>2. Cardinality(Pushing') = Cardinality(Pushing) + 1
        <3>1. Pushing' = Pushing \cup {c}
            BY <1>p, <2>1, MovePushing
        <3> QED BY <1>n, <2>1, <3>1, OneMore
    <2>3. UNCHANGED <<queue, worker, dropped>> /\ stats' = [stats EXCEPT !.submitted = stats.submitted + 1]
        BY <1>4 DEF CountSubmitted
    <2>4. /\ stats'.submitted = stats.submitted + 1 /\ stats'.completed = stats.completed
          /\ stats'.failed = stats.failed
        BY <1>p, <2>3 DEF Counters
    <2>5. Holding' = Holding
        BY <2>3 DEF Holding, Held
    <2>6. Len(queue') = Len(queue) /\ Cardinality(dropped') = Cardinality(dropped)
          /\ Cardinality(Holding') = Cardinality(Holding)
        BY <2>3, <2>5
    <2> QED BY SMTT(30), <1>j, <1>m, <1>n, <2>2, <2>4, <2>6
<1>5. ASSUME NEW c \in Clients, Push(c) PROVE Balanced
    <2>1. c \in Pushing /\ client' = Move(client, c, "accepted")
        BY <1>5 DEF Push, Pushing
    <2>2. Cardinality(Pushing') = Cardinality(Pushing) - 1
        <3>1. Pushing' = Pushing \ {c}
            BY <1>p, <2>1, MovePushing
        <3> QED BY <1>n, <2>1, <3>1, OneMore
    <2>3. UNCHANGED <<stats, dropped>> /\ Len(queue') = Len(queue) + 1
        <3>1. client[c].job \in Jobs
            BY <1>5, PushedOnce DEF Push
        <3> QED BY <1>p, <1>5, <3>1, QueueAppended DEF Push
    <2>4. Holding' = Holding
        BY <1>p, <1>5, <1>q, NotifyQuiet DEF Push
    <2> QED BY <1>j, <1>n, <1>p, <2>2, <2>3, <2>4
<1>6. ASSUME NEW c \in Clients, PushFails(c) PROVE Balanced
    <2>1. c \in Pushing /\ client' = Move(client, c, "undo")
        BY <1>6 DEF PushFails, Pushing
    <2>2. Pushing' = Pushing
        <3>1. Pushing' = Pushing \cup {c}
            BY <1>p, <2>1, MovePushing
        <3> QED BY <2>1, <3>1
    <2> QED BY <1>6, <1>s, <2>2 DEF PushFails, Holding, Held
<1>7. ASSUME NEW c \in Clients, Undo(c) PROVE Balanced
    <2>1. c \in Pushing /\ client' = Move(client, c, "refused")
        BY <1>7 DEF Undo, Pushing
    <2>2. Cardinality(Pushing') = Cardinality(Pushing) - 1
        <3>1. Pushing' = Pushing \ {c}
            BY <1>p, <2>1, MovePushing
        <3> QED BY <1>n, <2>1, <3>1, OneMore
    <2>3. UNCHANGED <<queue, worker, dropped>> /\ stats' = [stats EXCEPT !.submitted = stats.submitted - 1]
        BY <1>7 DEF Undo
    <2>4. /\ stats'.submitted = stats.submitted - 1 /\ stats'.completed = stats.completed
          /\ stats'.failed = stats.failed
        BY <1>p, <2>3 DEF Counters
    <2>5. Holding' = Holding
        BY <2>3 DEF Holding, Held
    <2>6. Len(queue') = Len(queue) /\ Cardinality(dropped') = Cardinality(dropped)
        BY <2>3
    <2>7. Cardinality(Holding') = Cardinality(Holding)
        BY <2>5
    <2> QED BY SMTT(30), <1>j, <1>m, <1>n, <2>2, <2>4, <2>6, <2>7
<1>8. ASSUME NEW w \in Workers, Pop(w) PROVE Balanced
    <2>1. UNCHANGED <<client, stats, dropped>> /\ queue # <<>> /\ queue' = Tail(queue)
        BY <1>8 DEF Pop
    <2>2. Len(queue') = Len(queue) - 1
        BY <1>p, <2>1, QueueTaken DEF OnePlace
    <2>3. w \notin Holding /\ worker'[w] = [at |-> "run", job |-> Head(queue)]
        BY <1>p, <1>8 DEF Pop, Holding, Held
    <2>4. Holding' = Holding \cup {w}
        BY <1>p, <1>8, <2>3, LoopSteps DEF Holding, Held
    <2>5. Cardinality(Holding') = Cardinality(Holding) + 1
        BY <1>n, <2>3, <2>4, OneMore
    <2>6. Pushing' = Pushing
        BY <2>1 DEF Pushing
    <2> QED BY <1>j, <1>n, <1>p, <2>1, <2>2, <2>5, <2>6
<1>9. ASSUME NEW w \in Workers, Record(w) PROVE Balanced
    <2>1. UNCHANGED <<client, queue, dropped>>
        BY <1>9 DEF Record
    <2>2. w \in Holding /\ worker'[w] = [at |-> "pop", job |-> None]
        BY <1>p, <1>9 DEF Record, Holding, Held
    <2>3. Holding' = Holding \ {w}
        BY <1>p, <1>9, <2>2, LoopSteps DEF Holding, Held
    <2>4. Cardinality(Holding') = Cardinality(Holding) - 1
        BY <1>n, <2>2, <2>3, OneMore
    <2>5. \/ stats' = [stats EXCEPT !.failed = stats.failed + 1]
          \/ stats' = [stats EXCEPT !.completed = stats.completed + 1]
        BY <1>9 DEF Record
    <2>6. /\ stats'.submitted = stats.submitted
          /\ \/ stats'.completed = stats.completed + 1 /\ stats'.failed = stats.failed
             \/ stats'.completed = stats.completed /\ stats'.failed = stats.failed + 1
        BY <1>p, <2>5 DEF Counters
    <2>7. Pushing' = Pushing
        BY <2>1 DEF Pushing
    <2>8. /\ Len(queue') = Len(queue) /\ Cardinality(dropped') = Cardinality(dropped)
          /\ Cardinality(Pushing') = Cardinality(Pushing)
        BY <2>1, <2>7
    <2>9. CASE stats'.completed = stats.completed + 1 /\ stats'.failed = stats.failed
        BY SMTT(30), <1>j, <1>m, <1>n, <2>4, <2>6, <2>8, <2>9
    <2>10. CASE stats'.completed = stats.completed /\ stats'.failed = stats.failed + 1
        BY SMTT(30), <1>j, <1>m, <1>n, <2>4, <2>6, <2>8, <2>10
    <2> QED BY <2>6, <2>9, <2>10
<1>10. CASE /\ ~\E c \in Clients : Push(c) \/ CountSubmitted(c) \/ PushFails(c) \/ Undo(c)
            /\ ~\E w \in Workers : Pop(w) \/ Record(w) \/ JobStep(w)
            /\ ~DropQueue
            /\ PoolStep \/ UNCHANGED vars
    <2>1. UNCHANGED client
        BY <1>10 DEF PoolStep, Start, StartFails, Cancel, Shutdown, LifecycleStep, Started, Close,
                     CountDropped, Tally, Join, SubmitStep, WorkerStep, Exit, Sleep, SpuriousWake, vars, poolVars
    <2>2. /\ stats'.submitted = stats.submitted /\ stats'.completed = stats.completed
          /\ stats'.failed = stats.failed
        <3>1. CASE Tally
            BY <1>p, <3>1 DEF Tally, Counters
        <3>2. CASE ~Tally
            BY <1>10, <3>2 DEF PoolStep, Start, StartFails, Cancel, Shutdown, LifecycleStep, Started,
                     Close, CountDropped, Join, SubmitStep, WorkerStep, Exit, Sleep, SpuriousWake, vars, poolVars
        <3> QED BY <3>1, <3>2
    <2>3. UNCHANGED <<queue, dropped>> /\ \A w \in Workers : Quiet(w)
        BY <1>p, <1>10, StepKinds
    <2>4. Pushing' = Pushing /\ Holding' = Holding
        BY <1>q, <2>1, <2>3 DEF Pushing
    <2> QED BY <1>s, <2>2, <2>3, <2>4
<1> QED
    BY <1>1, <1>2, <1>3, <1>4, <1>5, <1>6, <1>7, <1>8, <1>9, <1>10
    DEF Next, PoolStep, SubmitStep, WorkerStep, LifecycleStep

-------------------------------------------------------------------------------
(* The inductive invariant, and what follows from it *)

\* The counter never exceeds the number of chunks: what is outstanding was pushed, and the
\* chunk that is being submitted was not.
LEMMA RemainingBounded ==
    (chunk \in 1..(Chunks + 1) /\ OwnJobs /\ Remaining
        /\ Queued \cup dropped \cup LoopJobs \subseteq Pushed)
        => remaining \in 0..Chunks
<1> SUFFICES ASSUME chunk \in 1..(Chunks + 1), OwnJobs, Remaining,
                    Queued \cup dropped \cup LoopJobs \subseteq Pushed
             PROVE  remaining \in 0..Chunks
    OBVIOUS
<1>1. CASE pc = "submit" /\ client[Caller].at # "accepted"
    <2>1. chunk \in 1..Chunks /\ client[Caller].at # "accepted"
        BY <1>1 DEF OwnJobs
    <2>2. \A c \in Clients : client[c].at = "accepted" => client[c].job \notin 1..Chunks
        BY <2>1 DEF OwnJobs
    <2>3. Undone \subseteq 1..(chunk - 1)
        BY <2>1, <2>2 DEF Undone, Pushed
    <2>4. IsFiniteSet(1..(chunk - 1)) /\ Cardinality(1..(chunk - 1)) = chunk - 1
        BY <2>1, FS_Interval
    <2>5. Cardinality(Undone) <= chunk - 1
        <3>1. Cardinality(Undone) <= Cardinality(1..(chunk - 1))
            BY <2>3, <2>4, FS_Subset, Zenon
        <3> QED BY <2>4, <3>1
    <2> QED BY <1>1, <2>1, <2>5, UndoneFinite DEF Remaining
<1>2. CASE ~(pc = "submit" /\ client[Caller].at # "accepted")
    <2>1. IsFiniteSet(1..Chunks) /\ Cardinality(1..Chunks) = Chunks
        BY FS_Interval
    <2>2. Cardinality(Undone) <= Chunks
        BY <2>1, FS_Subset DEF Undone
    <2> QED BY <1>2, <2>2, UndoneFinite DEF Remaining
<1> QED BY <1>1, <1>2

\* The caller's own variables keep their types.
LEMMA StepCallerType ==
    ASSUME TypeOK, OwnJobs, [Next]_vars
    PROVE  /\ pc' \in {"next", "submit", "wait", "asleep", "returned"}
           /\ chunk' \in 1..(Chunks + 1)
<1>c. /\ pc \in {"next", "submit", "wait", "asleep", "returned"}
      /\ chunk \in 1..(Chunks + 1) /\ Chunks \in Nat
    BY DEF TypeOK
<1>1. CASE CallerStep \/ SpuriousReturn
    BY <1>c, <1>1 DEF CallerStep, SpuriousReturn, NextChunk, Accepted, Refused, AllSubmitted, Wait, OwnJobs
<1>2. CASE PoolStep \/ \E c \in Clients : OtherSubmits(c)
    BY <1>c, <1>2 DEF PoolStep, OtherSubmits, ingestVars
<1>3. CASE \E w \in Workers : JobStep(w)
    BY <1>c, <1>3 DEF JobStep, RunChunk, Notify, RunOther, ingestVars
<1>4. CASE UNCHANGED vars
    BY <1>c, <1>4 DEF vars, ingestVars
<1> QED BY <1>1, <1>2, <1>3, <1>4 DEF Next

\* The inductive invariant holds initially, and every step keeps it.
LEMMA InitInductive == Init => Inductive
<1> SUFFICES ASSUME Init PROVE Inductive
    OBVIOUS
<1>1. PoolInit
    BY DEF Init
<1>2. TypeOK
    BY <1>1, InitPoolType DEF Init, TypeOK
<1>3. Queued \cup dropped \cup LoopJobs \subseteq Pushed
    BY InitOnePlace
<1> QED
    BY <1>1, <1>2, <1>3, InitConserved, InitLifecycle, InitAbsent, InitDraining, InitTallying,
       InitOnePlace, InitOwnJobs, InitRemaining
    DEF Inductive

LEMMA StepInductive == Inductive /\ [Next]_vars => Inductive'
<1> SUFFICES ASSUME Inductive, [Next]_vars PROVE Inductive'
    OBVIOUS
<1>i. /\ TypeOK /\ PoolTypeOK /\ JobsConserved /\ Lifecycle /\ Absent /\ Draining /\ Tallying
      /\ OnePlace /\ OwnJobs /\ Remaining /\ Queued \cup dropped \cup LoopJobs \subseteq Pushed
    BY DEF Inductive, TypeOK
<1>1. PoolTypeOK' /\ Lifecycle' /\ Absent' /\ Draining' /\ OwnJobs'
    BY <1>i, StepPoolType, StepLifecycle, StepAbsent, StepDraining, StepOwnJobs
<1>2. OnePlace' /\ (Queued \cup dropped \cup LoopJobs \subseteq Pushed)'
    BY <1>i, StepOnePlace
<1>3. Tallying' /\ JobsConserved'
    BY <1>i, StepTallying, StepConserved
<1>4. Remaining'
    BY <1>i, StepRemaining
<1>5. /\ pc' \in {"next", "submit", "wait", "asleep", "returned"}
      /\ chunk' \in 1..(Chunks + 1)
    BY <1>i, StepCallerType
<1>6. remaining' \in 0..Chunks
    <2>1. (/\ chunk \in 1..(Chunks + 1) /\ OwnJobs /\ Remaining
           /\ Queued \cup dropped \cup LoopJobs \subseteq Pushed)'
        BY <1>1, <1>2, <1>4, <1>5
    <2>2. (remaining \in 0..Chunks)'
        BY <2>1, RemainingBounded, PTL
    <2> QED BY <2>2
<1>7. TypeOK'
    BY <1>1, <1>5, <1>6 DEF TypeOK
<1> QED BY <1>1, <1>2, <1>3, <1>4, <1>7 DEF Inductive

\* So it holds in every reachable state, for any number of threads, jobs and chunks and any
\* capacity of the queue.
THEOREM InductiveInvariant == Spec => []Inductive
BY InitInductive, StepInductive, PTL DEF Spec

\* Every variable keeps its type: the counter of an ingest is never negative, and the queue
\* never longer than its capacity.
THEOREM TypeCorrect == Spec => []TypeOK
BY InductiveInvariant, PTL DEF Inductive

\* No job is lost or counted twice, whatever clients, workers, a cancellation and a shutdown
\* do at the same time.
THEOREM JobsAreConserved == Spec => []JobsConserved
BY InductiveInvariant, PTL DEF Inductive

\* The statistics never report more ends than submissions.
THEOREM EndsAreSubmitted == Spec => []EndsWithinSubmissions
<1>1. Inductive => EndsWithinSubmissions
    <2> SUFFICES ASSUME Inductive PROVE EndsWithinSubmissions
        OBVIOUS
    <2>1. PoolTypeOK /\ JobsConserved /\ stats \in Counters
        BY DEF Inductive, TypeOK, PoolTypeOK
    <2>2. /\ Cardinality({c \in Clients : client[c].at \in {"push", "undo"}}) \in Nat
          /\ Cardinality({w \in Workers : Held(w)}) \in Nat
          /\ Cardinality(dropped) \in Nat /\ Len(queue) \in Nat
        BY <2>1, CountsType
    <2> QED BY <2>1, <2>2, CountersType DEF JobsConserved, EndsWithinSubmissions
<1> QED BY <1>1, InductiveInvariant, PTL

\* A shutdown that drains leaves nothing queued and drops nothing.
THEOREM DrainCompletes == Spec => []DrainIsComplete
<1>1. Inductive => DrainIsComplete
    BY DEF Inductive, Draining, Tallying, DrainIsComplete
<1> QED BY <1>1, InductiveInvariant, PTL

\* An abort reports what it dropped.
THEOREM AbortTallies == Spec => []AbortIsTallied
<1>1. Inductive => AbortIsTallied
    BY DEF Inductive, Tallying, AbortIsTallied
<1> QED BY <1>1, InductiveInvariant, PTL

\* No job is left that could touch the frame of an ingest that has returned.
THEOREM FrameOutlives == Spec => []FrameOutlivesJobs
<1>1. Inductive => FrameOutlivesJobs
    <2> SUFFICES ASSUME Inductive, pc = "returned", NEW j \in 1..Chunks, Outstanding(j)
                 PROVE  FALSE
        BY DEF FrameOutlivesJobs
    <2>1. j \in Undone
        BY DEF Outstanding, Undone, Queued, LoopJobs, InLoop
    <2>2. remaining = 0 /\ remaining = Cardinality(Undone)
        BY UndoneFinite DEF Inductive, Remaining
    <2> QED BY <2>1, <2>2, UndoneFinite
<1> QED BY <1>1, InductiveInvariant, PTL
===============================================================================
