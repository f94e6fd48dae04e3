------------------------------- MODULE MCLedger -------------------------------
(***************************************************************************)
(* Small instances of Ledger for TLC: two periods and a third that         *)
(* overlaps one of them, and a few observations.                           *)
(***************************************************************************)
EXTENDS Ledger

MCPolicy ==
    [freshTtl |-> 40, staleTtl |-> 80, skew |-> 2, rejectFuture |-> TRUE, coverage |-> TRUE,
     binding |-> TRUE, conflict |-> "RecordAndUnknown", tieBreak |-> "Reject",
     stale |-> "Exclude", residual |-> "AttributeToUnknown", excess |-> "Record",
     maxTotal |-> 99, late |-> "RequiresCorrection", maxBatch |-> 1, maxRetained |-> 2,
     maxCorrections |-> 2]

MCTopology ==
    [sources      |-> [s \in 1..2 |-> [provenance |-> 1, enabled |-> TRUE, rank |-> 1]],
     incarnations |-> [i \in 1..2 |-> [source |-> i, boot |-> 1, started |-> 2, retired |-> {}]],
     generations  |-> {"g"},
     resources    |-> {"port"},
     routes       |-> {},
     scope        |-> [t \in {"port"} |-> "fabric"],
     ancestors    |-> [s \in {"fabric"} |-> {}],
     bindings     |-> {[resource |-> "port", generation |-> "g", from |-> 2, until |-> {}]}]

P1 == [start |-> 2, end |-> 8]
P2 == [start |-> 8, end |-> 14]
P3 == [start |-> 6, end |-> 12]

MCPeriods  == {P1, P2, P3}
MCInstants == {20}

First ==
    [id |-> 1, copy |-> 1, origin |-> "A", source |-> 1, incarnation |-> 1, epoch |-> 1,
     seq |-> 1, generation |-> "g", kind |-> "bytes", category |-> "useful",
     target |-> "port", role |-> "contribution", amount |-> 5, start |-> 6, end |-> 8,
     observed |-> 8, received |-> 10]

MCEvidence ==
    {First,
     \* another period; and a second record of that identity, back in the first period,
     \* received between two milliseconds
     [First EXCEPT !.id = 2, !.origin = "B", !.seq = 2, !.start = 8, !.end = 12],
     [First EXCEPT !.id = 2, !.origin = "C", !.seq = 3, !.start = 2, !.end = 6, !.received = 11]}

\* Work in one period, and more of it in an independent total of that domain.
UnderAttributed ==
    {First, [First EXCEPT !.id = 3, !.origin = "D", !.seq = 4, !.role = "total",
                          !.category = "unknown", !.amount = 7]}
OnePeriod == {P1}

\* Bounds.  What a process without the lock does stays in its memory, so one change there is
\* followed no further, and only stores without corrections are opened that way.  One period
\* is corrected, twice, and nothing is stored twice and then worked with.
ReaderChangesOnce ==
    mode = "reader" =>
        /\ stored.corrections = {}
        /\ Cardinality(DOMAIN periods) + Cardinality(evidence) + Cardinality(revisions)
              <= Cardinality(stored.periods) + Cardinality(stored.evidence)
                 + Cardinality(stored.revisions) + 1
Bounded ==
    /\ ReaderChangesOnce
    /\ Cardinality({c.period : c \in corrections}) <= 1
    /\ \A o \in stored.evidence : o.copy = 1
===============================================================================
