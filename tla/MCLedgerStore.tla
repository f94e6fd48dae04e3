---------------------------- MODULE MCLedgerStore ----------------------------
(* Small instances of LedgerStore for TLC. *)
EXTENDS LedgerStore

CONSTANT r1

\* Two commits of one record, and one that needs two segments.
MCBatch == <<1, 1, 3>>
\* One commit of one record, and one that needs two segments.
MCFaultBatch == <<1, 3>>
MCReaders == {r1}
MCNoReaders == {}

\* Every property is about stores that are not lost, and a lost store stays lost:
\* its successors are not explored.
NotLost == trust # "lost"
===============================================================================
