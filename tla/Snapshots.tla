------------------------------- MODULE Snapshots -------------------------------
(***************************************************************************)
(* Opening a ledger on the policy and the topology the store remembers     *)
(* (Ledger::open of ledger.cpp).  Every configuration the ledger ran with  *)
(* is recorded as a snapshot; one that was superseded must not come back.  *)
(* A digest covers the whole configuration, so configurations stand for    *)
(* their digests.                                                          *)
(***************************************************************************)
EXTENDS Topology

CONSTANT DefaultPolicy   \* LedgerPolicy{}

\* The durations of the default are whole milliseconds.
ASSUME SnapshotsAssumption ==
    \A field \in {"freshTtl", "staleTtl", "skew"} :
        DefaultPolicy[field] \in Nat /\ Cut(DefaultPolicy[field]) = DefaultPolicy[field]

VARIABLES
    policies,     \* the policy snapshots of the store, in the order they were appended
    topologies,   \* its topology snapshots
    mode,         \* "closed", or how the ledger that runs was opened: "writer", "reader"
    policy,       \* policy_ of the ledger that runs
    fabric        \* topology_ of the ledger that runs

snapshots == <<policies, topologies, mode, policy, fabric>>

InitSnapshots ==
    /\ policies = <<>> /\ topologies = <<>>
    /\ mode = "closed" /\ policy = DefaultPolicy /\ fabric = EmptyTopology

-------------------------------------------------------------------------------
(* A policy, and what it is after it has been written and read again *)

ValidPolicy(p) ==
    /\ p.freshTtl >= 0
    /\ p.staleTtl >= p.freshTtl
    /\ p.skew >= 0

\* Durations are written in milliseconds, and a zero that is read leaves the default.
ReadDuration(d, default) == IF Milliseconds(d) = 0 THEN default ELSE Cut(d)

RewrittenPolicy(p) ==
    [p EXCEPT !.freshTtl = ReadDuration(@, DefaultPolicy.freshTtl),
              !.staleTtl = ReadDuration(@, DefaultPolicy.staleTtl),
              !.skew     = ReadDuration(@, DefaultPolicy.skew)]

ReadablePolicy(p) == ValidPolicy(RewrittenPolicy(p))

-------------------------------------------------------------------------------
(* Replay: a snapshot that cannot be read is passed over.  A history has what was read, at *)
(* the places of its snapshots in the store. *)

PolicyHistory ==
    [i \in {j \in DOMAIN policies : ReadablePolicy(policies[j])} |-> RewrittenPolicy(policies[i])]
TopologyHistory ==
    [i \in {j \in DOMAIN topologies : Readable(topologies[j])} |-> Rewritten(topologies[i])]

Empty(history) == DOMAIN history = {}
Current(history) == history[CHOOSE i \in DOMAIN history : \A j \in DOMAIN history : j <= i]
IsCurrent(history, x) == ~Empty(history) /\ x = Current(history)

\* (mutant) Only the snapshot before the current one is looked at.
JustSuperseded(history, x) ==
    \E i \in DOMAIN history : x = history[i] /\ Cardinality({j \in DOMAIN history : i < j}) = 1
\* (mutant) The current snapshot counts as one of the past.
EverRecorded(history, x) == \E i \in DOMAIN history : x = history[i]

Superseded(history, x) ==
    /\ ~IsCurrent(history, x)
    /\ \E i, j \in DOMAIN history : i < j /\ x = history[i]

\* The policy the ledger runs with when the caller supplies p: none if it is refused.
PolicyFor(p) ==
    IF Empty(PolicyHistory) \/ IsCurrent(PolicyHistory, p) THEN {p}
    ELSE IF Superseded(PolicyHistory, p) \/ p # DefaultPolicy THEN {}
    ELSE {Current(PolicyHistory)}

\* A caller without a topology takes the one of the store; a new one is welcome.
TopologyFor(t) ==
    IF t = EmptyTopology /\ ~Empty(TopologyHistory) THEN {Current(TopologyHistory)}
    ELSE IF Superseded(TopologyHistory, t) THEN {} ELSE {t}

-------------------------------------------------------------------------------
(* Actions *)

\* (mutant) A snapshot is only taken when the store has none.
FirstOnly(recorded, history, x) == IF Empty(history) THEN Append(recorded, x) ELSE recorded

\* What the store holds after the ledger has recorded that it runs with x.
Recorded(recorded, history, x) ==
    IF IsCurrent(history, x) THEN recorded ELSE Append(recorded, x)

\* The whole of an opening.  A store that was opened for reading accepts no snapshot.
Open(m, p, t) ==
    /\ mode = "closed"
    /\ ValidPolicy(p)
    /\ \E q \in PolicyFor(p), u \in TopologyFor(t) :
          /\ Valid(u)
          /\ policies' = Recorded(policies, PolicyHistory, q)
          /\ topologies' = Recorded(topologies, TopologyHistory, u)
          /\ m = "reader" => UNCHANGED <<policies, topologies>>
          /\ mode' = m /\ policy' = q /\ fabric' = u

Close ==
    /\ mode # "closed"
    /\ mode' = "closed" /\ policy' = DefaultPolicy /\ fabric' = EmptyTopology
    /\ UNCHANGED <<policies, topologies>>

-------------------------------------------------------------------------------
(* Properties *)

Running == mode # "closed"

\* What the ledger runs with is what the next open would read back, when it can be read.
RunningIsRecorded ==
    Running =>
        /\ ReadablePolicy(policy) => IsCurrent(PolicyHistory, RewrittenPolicy(policy))
        /\ Readable(fabric) => IsCurrent(TopologyHistory, Rewritten(fabric))

\* A topology that the text keeps as it is, and that another one has replaced, never runs
\* again, and no such topology is recorded twice.
SupersededStaysOut ==
    /\ \A i, j \in DOMAIN topologies :
           topologies[i] = topologies[j] /\ Rewritten(topologies[i]) = topologies[i] => i = j
    /\ Running /\ Rewritten(fabric) = fabric => ~Superseded(TopologyHistory, fabric)

\* The ledger that runs with a configuration the text keeps as it is can be closed and opened
\* again with the same configuration, for reading too.
Reopenable ==
    Running /\ RewrittenPolicy(policy) = policy /\ Rewritten(fabric) = fabric =>
        /\ policy \in PolicyFor(policy) /\ fabric \in TopologyFor(fabric)
        /\ Recorded(policies, PolicyHistory, policy) = policies
        /\ Recorded(topologies, TopologyHistory, fabric) = topologies

-------------------------------------------------------------------------------
(* What the proofs rest on *)

IsPolicy(p) ==
    /\ IsMap(p) /\ {"freshTtl", "staleTtl", "skew", "maxTotal"} \subseteq DOMAIN p
    /\ p.freshTtl \in Int /\ p.staleTtl \in Int /\ p.skew \in Int /\ p.maxTotal \in Nat

\* The store has snapshots of policies and documents that were found valid, and none of a
\* document it had before; what runs is valid, too.
Remembered ==
    /\ IsList(policies) /\ IsList(topologies)
    /\ \A i \in DOMAIN policies : IsPolicy(policies[i]) /\ ValidPolicy(policies[i])
    /\ \A i \in DOMAIN topologies : IsDocument(topologies[i]) /\ Valid(topologies[i])
    /\ IsPolicy(policy) /\ IsDocument(fabric) /\ Valid(fabric)
    /\ Running => ValidPolicy(policy)
    /\ RunningIsRecorded /\ SupersededStaysOut
===============================================================================
