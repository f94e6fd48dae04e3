------------------------------ MODULE DurableLog ------------------------------
(***************************************************************************)
(* What the store promises its caller: one log of records that survives    *)
(* every crash.  A commit adds its batch, a compaction takes records away, *)
(* and nothing else changes the log.  Over a medium that loses writes a    *)
(* commit or a compaction may itself lose records although it succeeds;    *)
(* the log never loses them later.  The promise ends, once and for all,    *)
(* when the store has been damaged: LedgerStore says which steps do that.  *)
(***************************************************************************)
EXTENDS Naturals

CONSTANTS Batches,  \* the batches callers may commit, each a set of records
          Lossy     \* whether the medium may lose writes without a report

VARIABLES log,      \* the records a reader of the store recovers
          dropped,  \* the records compactions were asked to take away
          lost,     \* the records lost without a report
          damaged   \* TRUE once the promise no longer holds

vars == <<log, dropped, lost, damaged>>

Init == log = {} /\ dropped = {} /\ lost = {} /\ damaged = FALSE

\* The records in gone are lost by this operation.
Lose(gone) == lost' = lost \cup gone /\ (gone # {} => Lossy)

Commit(b) ==
    \E gone \in SUBSET b :
        /\ b \cap log = {}
        /\ log' = log \cup (b \ gone)
        /\ dropped' = dropped
        /\ Lose(gone)

Compact ==
    \E rejected, gone \in SUBSET log :
        /\ log' = log \ (rejected \cup gone)
        /\ dropped' = dropped \cup rejected
        /\ Lose(gone)

\* The records of a damaged store are unconstrained.
Damage == damaged' = TRUE

Next ==
    \/ ~damaged' /\ ~damaged /\ ((\E b \in Batches : Commit(b)) \/ Compact)
    \/ Damage

Spec == Init /\ [][Next]_vars
===============================================================================
