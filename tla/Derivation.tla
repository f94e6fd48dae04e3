------------------------------ MODULE Derivation ------------------------------
(***************************************************************************)
(* How the ledger derives the accounts of a period from retained evidence  *)
(* (run_derivation, fold_claims and fold_conservation of ledger.cpp, and   *)
(* freshness.cpp).  Everything here is a function of the evidence, the     *)
(* period and the instant of evaluation.                                   *)
(*                                                                         *)
(* Evidence is a set of observations.  The ledger keeps a multimap, so two *)
(* identical observations may be retained: their field copy tells them     *)
(* apart, and only a comparison of whole records reads it.                 *)
(***************************************************************************)
EXTENDS Integers, FiniteSets, FiniteSetsExt

CONSTANTS
    Policy,    \* LedgerPolicy: freshTtl, staleTtl, skew, rejectFuture, coverage, binding,
               \*   conflict, tieBreak, stale, residual, excess, maxTotal
    Topology   \* FabricTopology: sources, incarnations, generations, scope, bindings;
               \*   resources: the targets that name a resource, defined or not;
               \*   routes: the paths and reservations; ancestors: the scopes above each

NoTarget == "none"
NoScope  == "nil"

-------------------------------------------------------------------------------
(* Sources: measured, modelled, replayed or unsupported reports, and their rank *)

ProvenanceClasses == 1..4
RealClass         == 1
UnsupportedClass  == 4

Provenance(o) == Topology.sources[o.source].provenance

-------------------------------------------------------------------------------
(* Freshness and admissibility *)

FreshnessClass(o, asOf) ==
    LET skewBound == asOf + Policy.skew
        age == asOf - o.observed
    IN  IF o.observed > o.received THEN "anomaly"
        ELSE IF o.observed > skewBound \/ o.received > skewBound THEN "future"
        ELSE IF age <= Policy.freshTtl THEN "fresh"
        ELSE IF age <= Policy.staleTtl THEN "stale"
        ELSE "expired"

\* The classes of evidence that may be counted.
UsableClasses == {"fresh"} \cup (IF Policy.rejectFuture THEN {} ELSE {"future"})
                           \cup (IF Policy.stale = "IncludeMarked" THEN {"stale"} ELSE {})
Usable(o, asOf) == FreshnessClass(o, asOf) \in UsableClasses

Declared(o) == o.incarnation \in DOMAIN Topology.incarnations
Incarnation(o) == Topology.incarnations[o.incarnation]

\* The incarnation is declared, belongs to the source, and was running on receipt.
Covered(o) ==
    /\ Declared(o)
    /\ Incarnation(o).source = o.source
    /\ \A t \in Incarnation(o).retired : o.received <= t
    /\ o.received >= Incarnation(o).started

GenerationBinds(o) ==
    \E b \in Topology.bindings :
        /\ b.resource = o.target /\ b.generation = o.generation
        /\ o.observed >= b.from
        /\ \A t \in b.until : o.observed <= t

Admissible(o, asOf) ==
    /\ o.source \in DOMAIN Topology.sources
    /\ Provenance(o) # UnsupportedClass
    /\ Topology.sources[o.source].enabled
    /\ Policy.coverage => Covered(o)
    /\ Declared(o) => o.epoch >= Incarnation(o).boot
    /\ (Policy.binding /\ o.target \in Topology.resources) => GenerationBinds(o)
    /\ Usable(o, asOf)

-------------------------------------------------------------------------------
(* Candidates, and the groups of them that describe one measurement *)

Candidates(evidence, period) ==
    {o \in evidence : period.start <= o.start /\ o.end <= period.end}

\* content_digest leaves out the evidence identity and the time of receipt.
Content(o) == [o EXCEPT !.copy = 0, !.id = 0, !.received = 0]

\* A second record of the same evidence identity is among the candidates.
Collides(C, o) == \E x \in C : x # o /\ x.id = o.id

OriginGroups(C) == {{x \in C : x.origin = o.origin} : o \in C}
SequenceGroups(C) ==
    {{x \in C : x.source = o.source /\ x.incarnation = o.incarnation /\ x.seq = o.seq} : o \in C}

Divergent(G) == \E a, b \in G : Content(a) # Content(b)
LowestId(G) == CHOOSE o \in G : \A x \in G : o.id <= x.id

\* (mutant) Of identical deliveries, none stays.
AllExcluded(G) == IF Cardinality(G) = 1 THEN {} ELSE G
\* exclude_group: one of several identical deliveries stays; of divergent ones, none.
ExcludedOf(G) == IF Divergent(G) THEN G ELSE G \ {LowestId(G)}

\* (mutant) Records that share an identity are left in.
ExcludedIdsLeavingNamesakes(C) ==
    {o.id : o \in UNION {ExcludedOf(G) : G \in OriginGroups(C) \cup SequenceGroups(C)}}

\* Exclusion is by identity.
ExcludedIds(C) ==
    {o.id : o \in {x \in C : Collides(C, x)}
                  \cup UNION {ExcludedOf(G) : G \in OriginGroups(C) \cup SequenceGroups(C)}}

\* A later epoch of the same incarnation was seen, among excluded candidates too.
EpochFenced(C, o) == \E x \in C : x.incarnation = o.incarnation /\ x.epoch > o.epoch

Admitted(C, asOf) ==
    LET excluded == ExcludedIds(C)
    IN  {o \in C : /\ o.id \notin excluded
                   /\ Declared(o) => ~EpochFenced(C, o)
                   /\ Admissible(o, asOf)}

-------------------------------------------------------------------------------
(* Attribution, and disputes inside one accounting cell and window *)

Attributable(o) == o.target = NoTarget \/ o.target \in DOMAIN Topology.scope
ScopeOf(o) == IF o.target \in DOMAIN Topology.scope THEN Topology.scope[o.target] ELSE NoScope
ClaimKey(o) == [generation |-> o.generation, kind |-> o.kind, category |-> o.category,
                target |-> o.target, scope |-> ScopeOf(o)]
Domain(o) == [scope |-> ScopeOf(o), generation |-> o.generation, kind |-> o.kind]

Contributors(C, asOf) ==
    {o \in Admitted(C, asOf) : o.role = "contribution" /\ Attributable(o)}

SameCell(a, b) == ClaimKey(a) = ClaimKey(b) /\ a.start = b.start /\ a.end = b.end
CellGroups(C, asOf) ==
    LET all == Contributors(C, asOf) IN {{x \in all : SameCell(x, o)} : o \in all}

Amounts(G) == {o.amount : o \in G}
Agreed(G) == Cardinality(Amounts(G)) = 1
Rank(o) == Topology.sources[o.source].rank

\* resolve_amount_dispute scans by amount, then by source.
ScannedBefore(a, b) == a.amount < b.amount \/ (a.amount = b.amount /\ a.source < b.source)

\* Two sources of one rank meet before any of a higher rank has been seen.
TieMet(G) ==
    \E a, b \in G :
        /\ ScannedBefore(a, b) /\ a.source # b.source /\ Rank(a) = Rank(b)
        /\ \A x \in G : ScannedBefore(x, b) => Rank(x) <= Rank(b)

\* (mutant) Only the identities of the sources are compared.
AnySource(G) == {o.source : o \in G}

HighestRanked(G) == {o.source : o \in {x \in G : \A y \in G : Rank(y) <= Rank(x)}}
Preferred(G) ==
    LET top == HighestRanked(G)
    IN  CHOOSE s \in top :
            \A x \in top : IF Policy.tieBreak = "LowestSourceIdWins" THEN s <= x ELSE s >= x

\* The amount of the preferred source, unless there is none or it contradicts itself.
ResolvedAmounts(G) ==
    LET amounts == {o.amount : o \in {x \in G : x.source = Preferred(G)}}
    IN  IF \/ Policy.conflict # "PreferHigherAuthority" /\ Policy.tieBreak = "Reject"
           \/ Policy.tieBreak = "Reject" /\ TieMet(G)
           \/ Cardinality(amounts) # 1
        THEN {} ELSE amounts

SettledAmounts(G) == IF Agreed(G) THEN Amounts(G) ELSE ResolvedAmounts(G)

\* The observation that is counted for a cell and window, if there is one.
Counted(G) == {LowestId({o \in G : o.amount = a}) : a \in SettledAmounts(G)}

Contributions(C, asOf) == UNION {Counted(G) : G \in CellGroups(C, asOf)}

-------------------------------------------------------------------------------
(* Independent totals *)

TotalGroups(C, asOf) ==
    LET all == {o \in Admitted(C, asOf) : o.role = "total"}
    IN  {{x \in all : Domain(x) = Domain(o) /\ x.start = o.start /\ x.end = o.end} : o \in all}

\* Totals that disagree are dropped.
Totals(C, asOf) == {LowestId(G) : G \in {H \in TotalGroups(C, asOf) : Agreed(H)}}

-------------------------------------------------------------------------------
(* What the derivation reports as rejected: one entry for every step that refuses an *)
(* observation *)

Refused(step, S) == {[step |-> step, evidence |-> o] : o \in S}

Rejections(C, asOf) ==
    LET admitted == Admitted(C, asOf)
        excluded == ExcludedIds(C)
        groups   == CellGroups(C, asOf)
    IN  UNION {
          Refused("identity", {o \in C : Collides(C, o)}),
          Refused("origin", UNION {ExcludedOf(G) : G \in OriginGroups(C)}),
          Refused("sequence", UNION {ExcludedOf(G) : G \in SequenceGroups(C)}),
          Refused("admission", {o \in C \ admitted : o.id \notin excluded}),
          Refused("attribution",
                  {o \in admitted : o.role = "contribution" /\ ~Attributable(o)}),
          Refused("equivalent", UNION {G \ Counted(G) : G \in {H \in groups : Agreed(H)}}),
          Refused("dispute", UNION {G \in groups : SettledAmounts(G) = {}})}

\* (mutant) A dispute that was resolved leaves no conflict record.
UnresolvedConflicts(C, asOf) ==
    {G \in OriginGroups(C) \cup SequenceGroups(C) : Divergent(G)}
    \cup {G \in CellGroups(C, asOf) : SettledAmounts(G) = {}}

\* The groups of observations a conflict record names.
Conflicts(C, asOf) ==
    {G \in OriginGroups(C) \cup SequenceGroups(C) : Divergent(G)}
    \cup {G \in CellGroups(C, asOf) \cup TotalGroups(C, asOf) : ~Agreed(G)}

-------------------------------------------------------------------------------
(* Folding: claims and conservation domains *)

SumOf(S) == MapThenSumSet(LAMBDA o : o.amount, S)

\* (mutant) Equal amounts of two windows are taken for one.
ClaimsByAmount(C, asOf) ==
    LET counted == Contributions(C, asOf)
        Of(k)   == {o \in counted : ClaimKey(o) = k}
    IN  {[key |-> k, total |-> SumSet(Amounts(Of(k))), evidence |-> {o.id : o \in Of(k)}] :
             k \in {ClaimKey(o) : o \in counted}}

Claims(C, asOf) ==
    LET counted == Contributions(C, asOf)
        Of(k)   == {o \in counted : ClaimKey(o) = k}
    IN  {[key |-> k, total |-> SumOf(Of(k)), evidence |-> {o.id : o \in Of(k)}] :
             k \in {ClaimKey(o) : o \in counted}}

\* A rejection counts as unknown work of no scope, disagreeing totals as unknown work of
\* their own domain.
UnknownDomains(C, asOf) ==
    {[scope |-> NoScope, generation |-> r.evidence.generation, kind |-> r.evidence.kind] :
         r \in Rejections(C, asOf)}
    \cup {Domain(o) : o \in UNION {G \in TotalGroups(C, asOf) : ~Agreed(G)}}

Conservation(C, asOf) ==
    LET counted == Contributions(C, asOf)
        totals  == Totals(C, asOf)
        In(S, d) == {o \in S : Domain(o) = d}
    IN  {[domain |-> d, attributed |-> SumOf(In(counted, d)), observed |-> SumOf(In(totals, d)),
          verifiable |-> In(totals, d) # {}] :
             d \in {Domain(o) : o \in counted \cup totals} \cup UnknownDomains(C, asOf)}

Status(c) ==
    IF ~c.verifiable THEN "unverifiable"
    ELSE IF c.attributed = c.observed THEN "consistent"
    ELSE IF c.attributed < c.observed THEN "residual" ELSE "excess"

\* The derivation returns an error instead of a revision.
Fails(C, asOf) ==
    \/ Policy.conflict = "StrictFail" /\ \E G \in CellGroups(C, asOf) : ~Agreed(G)
    \/ \E c \in Claims(C, asOf) : c.total > Policy.maxTotal
    \/ \E c \in Conservation(C, asOf) :
          \/ c.attributed > Policy.maxTotal \/ c.observed > Policy.maxTotal
          \/ Policy.residual = "StrictReject" /\ Status(c) = "residual"
          \/ Policy.excess = "StrictReject" /\ Status(c) = "excess"

-------------------------------------------------------------------------------
(* Properties, of any evidence at any instant *)

\* No measurement is counted twice: two counted observations share neither delivery
\* origin, nor source sequence, nor accounting cell and window, and neither shares its
\* identity with another record.
MeasuredOnce(C, asOf) ==
    LET counted == Contributions(C, asOf)
    IN  /\ \A x, y \in counted :
              x # y => /\ x.origin # y.origin
                       /\ <<x.source, x.incarnation, x.seq>> # <<y.source, y.incarnation, y.seq>>
                       /\ ~SameCell(x, y)
        /\ \A x \in counted : \A y \in C : y.id = x.id => y = x

\* Every observation of work that is not counted is named by a rejection or a conflict.
Explained(C, asOf) ==
    {x \in C : x.role = "contribution"} \ Contributions(C, asOf)
        \subseteq {r.evidence : r \in Rejections(C, asOf)} \cup UNION Conflicts(C, asOf)

\* A dispute is never decided against a source of higher authority: whoever disagrees with
\* the amount that is counted, somebody of at least its rank reported that amount.
AuthorityRespected(C, asOf) ==
    \A x \in Contributions(C, asOf), y \in Contributors(C, asOf) :
        SameCell(x, y) /\ x.amount # y.amount =>
            \E z \in Contributors(C, asOf) :
                SameCell(x, z) /\ z.amount = x.amount /\ Rank(z) >= Rank(y)
===============================================================================
