----------------------------- MODULE MCDerivation -----------------------------
(***************************************************************************)
(* A small instance of Accounting for TLC: a document with a fabric, a pod *)
(* and a port in several variants, and twelve observations of one period.  *)
(***************************************************************************)
EXTENDS Accounting

-------------------------------------------------------------------------------
(* Policies: four that the accounts are derived under, one whose zero is read as the *)
(* default, and one that cannot be read again *)

BasePolicy ==
    [freshTtl |-> 20, staleTtl |-> 40, skew |-> 2, rejectFuture |-> TRUE, coverage |-> TRUE,
     binding |-> TRUE, conflict |-> "RecordAndUnknown", tieBreak |-> "Reject",
     stale |-> "Exclude", residual |-> "AttributeToUnknown", excess |-> "Record",
     maxTotal |-> 12]

DerivingPolicies ==
    {BasePolicy,
     [BasePolicy EXCEPT !.conflict = "PreferHigherAuthority"],
     [BasePolicy EXCEPT !.tieBreak = "LowestSourceIdWins", !.stale = "IncludeMarked"],
     [BasePolicy EXCEPT !.conflict = "PreferHigherAuthority",
                        !.tieBreak = "HighestSourceIdWins", !.rejectFuture = FALSE,
                        !.coverage = FALSE]}

MCPolicies ==
    DerivingPolicies \cup {[BasePolicy EXCEPT !.skew = 0],
                          [BasePolicy EXCEPT !.freshTtl = 0, !.staleTtl = 10]}

-------------------------------------------------------------------------------
(* Documents *)

\* The second source is a simulator.
Sources ==
    <<[provenance |-> 1, enabled |-> TRUE, rank |-> 1],
      [provenance |-> 2, enabled |-> TRUE, rank |-> 1],
      [provenance |-> 1, enabled |-> TRUE, rank |-> 2]>>

\* The fourth starts in the millisecond in which the second ends, the fifth runs beside the second.
Incarnations ==
    <<[source |-> 1, boot |-> 1, started |-> 0, retired |-> {}],
      [source |-> 2, boot |-> 1, started |-> 0, retired |-> {30}],
      [source |-> 3, boot |-> 1, started |-> 0, retired |-> {}],
      [source |-> 2, boot |-> 1, started |-> 31, retired |-> {}],
      [source |-> 2, boot |-> 1, started |-> 20, retired |-> {30}]>>

\* A fabric, a fabric below its own rack, and two scopes that list the port.
Scopes ==
    {<<"fabric", {}, <<>>>>, <<"fabric", {"rack"}, <<>>>>, <<"pod", {"fabric"}, <<"port">>>>,
     <<"rack", {"pod"}, <<>>>>, <<"spare", {"fabric"}, <<"port">>>>}

Binding      == [resource |-> "port", generation |-> "g", from |-> 0, until |-> {}]
Bindings     == {Binding, [Binding EXCEPT !.from = 10, !.until = {20}]}
Flow         == [scope |-> "pod", generation |-> "g", hint |-> {"port"}]
Path         == [scope |-> "fabric", generation |-> "g", hops |-> {"port"}]
Reservation  == [scope |-> "pod", generation |-> "g", resource |-> {"port"}, from |-> 0,
                 until |-> {}]
Generation   == [from |-> 0, until |-> {}]

Deployed ==
    [generations  |-> [g \in {"g"} |-> Generation],
     sources      |-> Sources,
     incarnations |-> SubSeq(Incarnations, 1, 3),
     scopes       |-> [s \in {"fabric", "pod"} |->
                          IF s = "pod" THEN [parent |-> {"fabric"}, members |-> {"port"}]
                          ELSE [parent |-> {}, members |-> {}]],
     resources    |-> [r \in {"port"} |-> "pod"],
     bindings     |-> <<Binding>>,
     flows        |-> [f \in {"flow"} |-> Flow],
     paths        |-> [p \in {"path"} |-> Path],
     reservations |-> [r \in {"reservation"} |-> Reservation]]

\* The documents of the callers: the deployed one, one from before the reservation, one
\* whose reservation starts between two milliseconds, one that cannot be read again, none.
MCDocuments ==
    {Deployed,
     [Deployed EXCEPT !.reservations = <<>>],
     [Deployed EXCEPT !.reservations = [r \in {"reservation"} |-> [Reservation EXCEPT !.from = 1]]],
     [Deployed EXCEPT !.incarnations = SubSeq(Incarnations, 1, 4)],
     EmptyTopology}

MCResources == {"port", "elsewhere"}
MCPeriod    == [start |-> 1, end |-> 9]
MCInstants  == {12, 30}

\* An observation of one port by the first source.
First ==
    [id |-> 2, copy |-> 1, origin |-> "A", source |-> 1, incarnation |-> 1, epoch |-> 1,
     seq |-> 1, generation |-> "g", kind |-> "bytes", category |-> "useful",
     target |-> "port", role |-> "contribution", amount |-> 5, start |-> 1, end |-> 4,
     observed |-> 4, received |-> 5]

MCEvidence ==
    {First,
     \* delivered again, under another identity; and once more, much later
     [First EXCEPT !.id = 3, !.received = 6],
     [First EXCEPT !.id = 1, !.received = 20],
     \* the same sequence number with another amount and origin
     [First EXCEPT !.id = 4, !.origin = "B", !.amount = 6],
     \* the same cell and window from the second and from the third source
     [First EXCEPT !.id = 5, !.origin = "C", !.source = 2, !.incarnation = 2],
     [First EXCEPT !.id = 6, !.origin = "D", !.source = 3, !.incarnation = 3, !.amount = 4],
     \* another window, and a later epoch
     [First EXCEPT !.id = 7, !.origin = "E", !.seq = 2, !.epoch = 2, !.start = 4, !.end = 7,
                   !.observed = 7, !.received = 8],
     \* a record of the identity of the previous one that names no defined target
     [First EXCEPT !.id = 7, !.origin = "F", !.source = 2, !.incarnation = 2, !.seq = 3,
                   !.target = "elsewhere", !.start = 4, !.end = 7],
     \* the previous but one delivered again, under an identity of its own
     [First EXCEPT !.id = 0, !.origin = "E", !.seq = 2, !.epoch = 2, !.start = 4, !.end = 7,
                   !.observed = 7, !.received = 8],
     \* two independent totals of one domain
     [First EXCEPT !.id = 8, !.origin = "G", !.source = 2, !.incarnation = 2, !.seq = 4,
                   !.role = "total", !.category = "unknown", !.amount = 7, !.end = 7],
     [First EXCEPT !.id = 9, !.origin = "H", !.source = 3, !.incarnation = 3, !.seq = 5,
                   !.role = "total", !.category = "unknown", !.amount = 8, !.end = 7],
     \* work that failed, on a path
     [First EXCEPT !.id = 10, !.origin = "I", !.seq = 6, !.category = "failed",
                   !.target = "path", !.amount = 6]}

-------------------------------------------------------------------------------
(* Bounds *)

Definition(id, is) == [id |-> id, is |-> is]
MCDefinitions ==
    [generations  |-> {Definition("g", Generation)},
     sources      |-> {Definition(s, Sources[s]) : s \in DOMAIN Sources},
     incarnations |-> {Definition(i, Incarnations[i]) : i \in DOMAIN Incarnations},
     scopes       |-> {[id |-> s[1], parent |-> s[2], members |-> s[3]] : s \in Scopes},
     resources    |-> {Definition("port", "pod")},
     bindings     |-> Bindings,
     flows        |-> {Definition("flow", Flow)},
     paths        |-> {Definition("path", Path)},
     reservations |-> {Definition("reservation", Reservation)}]

\* The declarations no property tells apart come first, in one order: generation, sources and
\* three incarnations.  Of the bindings there are at most two.
Started(field) == DOMAIN topology[field] # {}
First3(field)  == \/ \E n \in 0..2 : DOMAIN topology[field] = 1..n
                  \/ 1..3 \subseteq DOMAIN topology[field]
Prelude ==
    /\ First3("sources") /\ First3("incarnations") /\ Len(topology.bindings) <= 2
    /\ Started("sources") => Started("generations")
    /\ Started("incarnations") => Defined("sources", 3)
    /\ (\E field \in {"scopes", "resources", "bindings", "flows", "paths", "reservations"} :
            Started(field))
          => Defined("incarnations", 3)

\* A document that a ledger was opened on is not added to.
MCBuild == Build /\ topologies = <<>> /\ Prelude'

\* The store holds at most four topologies and three policies, and what the ledger runs with
\* changes no more once evidence has come.
MCConfigure ==
    /\ topology = Deployed /\ evidence = {}
    /\ mode = "closed" => Len(topologies) < 4 /\ Len(policies) < 3
    /\ Configure

\* Evidence comes to the first ledger that runs, under one of four policies.
MCArrive(o) ==
    /\ policy \in DerivingPolicies
    /\ fabric = Deployed /\ topologies = <<Deployed>> /\ policies = <<policy>>
    /\ Arrive(o)

MCNext == MCBuild \/ MCConfigure \/ \E o \in MCEvidence : MCArrive(o)
MCSpec == Init /\ [][MCNext]_vars
===============================================================================
