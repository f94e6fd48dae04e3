-------------------------------- MODULE Accounts --------------------------------
(***************************************************************************)
(* What the ledger answers from the accounts it derived: the efficiency of *)
(* a measure (fold_efficiency), the rows and rollups of a query            *)
(* (rows_from_claims, rollup_rows) and the buckets of an aggregation       *)
(* (aggregate), all of ledger.cpp.  A row, a bucket or a summary is a      *)
(* record of the fields the answers are told apart by.                     *)
(*                                                                         *)
(* The row and bucket budgets of a request are taken to be large enough,   *)
(* and the error that takes the place of rows or buckets when one of their *)
(* sums leaves the word is left out.                                       *)
(***************************************************************************)
EXTENDS Derivation

TotalOf(S) == MapThenSumSet(LAMBDA x : x.total, S)

-------------------------------------------------------------------------------
(* Efficiency *)

UsefulnessOf(category) ==
    CASE category = "useful"   -> "useful"
      [] category = "control"  -> "overhead"
      [] category \in {"retransmission", "duplication", "reroute", "idle", "stranded"}
                               -> "avoidable"
      [] category = "failed"   -> "failed"
      [] category = "unknown"  -> "unknown"

\* Sums of one summary are plain 64-bit additions.
Wrapped(n) == n % (Policy.maxTotal + 1)

\* Additions into the denominator stop at the largest word.
Saturated(n) == Min({n, Policy.maxTotal})

WorkOf(claims, kind, class) ==
    Wrapped(TotalOf({c \in claims : c.key.kind = kind /\ UsefulnessOf(c.key.category) = class}))

\* (mutant) Work that was refused before it could become a claim is not looked at.
UnmeasuredClaims(C, asOf, kind) ==
    \E c \in Claims(C, asOf) : c.key.kind = kind /\ c.key.category = "unknown"

\* Unmeasured work shows in a claim of no category or in a conservation domain.
Unmeasured(C, asOf, kind) ==
    \/ \E c \in Claims(C, asOf) : c.key.kind = kind /\ c.key.category = "unknown"
    \/ \E d \in UnknownDomains(C, asOf) : d.kind = kind

Efficiency(C, asOf, kind) ==
    LET claims  == Claims(C, asOf)
        domains == {d \in Conservation(C, asOf) : d.domain.kind = kind}
        useful  == WorkOf(claims, kind, "useful")
        known   == Saturated(useful + WorkOf(claims, kind, "overhead")
                                + WorkOf(claims, kind, "avoidable")
                                + WorkOf(claims, kind, "failed"))
        unmeasured == Unmeasured(C, asOf, kind)
    IN  [useful      |-> useful,
         denominator |-> known,
         determinate |-> /\ ~unmeasured
                         /\ \A d \in domains : Status(d) \notin {"residual", "excess"}
                         /\ known # 0,
         coverage    |-> IF known = 0 THEN "unknown"
                         ELSE IF unmeasured \/ \E d \in domains : Status(d) # "consistent"
                         THEN "partial" ELSE "known"]

-------------------------------------------------------------------------------
(* Queries.  A request names a scope, or none, and whether those below it are wanted too. *)

DescendantsOf(s) == {d \in DOMAIN Topology.ancestors \ {s} : s \in Topology.ancestors[d]}

Allowed(request, scope) ==
    \A s \in request.scope :
        \/ scope = s
        \/ request.descendants /\ scope \in DescendantsOf(s)

\* The other filters: a category, a kind and a generation, each at most one.
Wanted(request, key) ==
    /\ \A c \in request.category : key.category = c
    /\ \A k \in request.kind : key.kind = k
    /\ \A g \in request.generation : key.generation = g

Rows(request, claims) ==
    {c \in claims : Wanted(request, c.key) /\ Allowed(request, c.key.scope)}

\* (mutant) A row counts for the scopes below its own.
RollupTargetsBelow(scope) ==
    IF scope = NoScope THEN {NoScope} ELSE {scope} \cup DescendantsOf(scope)

\* A row counts for its scope and for every scope above it.
RollupTargets(scope) == IF scope = NoScope THEN {NoScope} ELSE {scope} \cup Topology.ancestors[scope]

RollupKey(scope, key) ==
    [scope |-> scope, generation |-> key.generation, kind |-> key.kind,
     category |-> key.category]

RolledUp(rows) ==
    LET At(k) == {r \in rows : \E s \in RollupTargets(r.key.scope) : RollupKey(s, r.key) = k}
    IN  {[key |-> k, total |-> TotalOf(At(k))] :
             k \in UNION {{RollupKey(s, r.key) : s \in RollupTargets(r.key.scope)} : r \in rows}}

\* What rows roll up to at one scope, and at some of them together.
TotalAt(rows, s) == TotalOf({r \in RolledUp(rows) : r.key.scope = s})
SumAt(rows, S)   == MapThenSumSet(LAMBDA s : TotalAt(rows, s), S)

-------------------------------------------------------------------------------
(* Aggregation *)

Axes == {"category", "scope", "generation", "target", "source", "time", "provenance"}

\* A report is put where its window ends, in buckets that start with the period.
BucketStart(period, width, o) == period.start + ((o.end - period.start) \div width) * width

\* Buckets keep resources and flows, not paths and reservations.
BucketTarget(target) == IF target \in Topology.routes THEN NoTarget ELSE target

\* A bucket is told apart by every field, whatever the axis; only time depends on it.
BucketOf(period, request, o) ==
    [category |-> o.category, scope |-> ScopeOf(o), generation |-> o.generation,
     source |-> o.source, target |-> BucketTarget(o.target), kind |-> o.kind,
     provenance |-> Provenance(o),
     time |-> IF request.axis = "time" THEN BucketStart(period, request.width, o) ELSE 0]

\* An aggregation looks at the scope it names and at none below it.
InBucketScope(request, scope) == \A s \in request.scope : scope = s

\* (mutant) The scope of a request is not looked at.
ReportsOfAnyScope(C, asOf, request) ==
    {o \in Contributions(C, asOf) : Wanted(request, ClaimKey(o))}

WantedReports(C, asOf, request) ==
    {o \in Contributions(C, asOf) :
        Wanted(request, ClaimKey(o)) /\ InBucketScope(request, ScopeOf(o))}

\* What is not known has buckets of its own, of no category.
UnknownBuckets(C, asOf, request) ==
    {[key |-> [category |-> "unknown", scope |-> d.scope, generation |-> d.generation,
               source |-> 0, target |-> NoTarget, kind |-> d.kind,
               provenance |-> RealClass, time |-> 0],
      total |-> 0, unknown |-> TRUE] :
         d \in {x \in UnknownDomains(C, asOf) :
                   /\ \A k \in request.kind : x.kind = k
                   /\ \A g \in request.generation : x.generation = g
                   /\ InBucketScope(request, x.scope)}}

\* The buckets of a period whose evidence is retained.
EvidenceBuckets(C, asOf, period, request) ==
    LET counted == WantedReports(C, asOf, request)
        In(k) == {o \in counted : BucketOf(period, request, o) = k}
    IN  {[key |-> k, total |-> SumOf(In(k)), unknown |-> FALSE] :
             k \in {BucketOf(period, request, o) : o \in counted}}
        \cup UnknownBuckets(C, asOf, request)

\* A claim is put under the first of the sources, and under the first of the provenance
\* classes, of what was counted for it.
BucketOfClaim(counted, c) ==
    LET of == {x \in counted : ClaimKey(x) = c.key}
    IN  [category |-> c.key.category, scope |-> c.key.scope, generation |-> c.key.generation,
         source |-> Min({o.source : o \in of}), target |-> BucketTarget(c.key.target),
         kind |-> c.key.kind, provenance |-> Min({Provenance(o) : o \in of}), time |-> 0]

\* Of a folded period only the claims of its last revision are left.
WantedClaims(C, asOf, request) ==
    Rows([request EXCEPT !.descendants = FALSE], Claims(C, asOf))
ClaimBuckets(C, asOf, request) ==
    LET wanted == WantedClaims(C, asOf, request)
        Bucket(c) == BucketOfClaim(Contributions(C, asOf), c)
    IN  {[key |-> k, total |-> TotalOf({c \in wanted : Bucket(c) = k}), unknown |-> FALSE] :
             k \in {Bucket(c) : c \in wanted}}

\* Along these axes a folded period cannot be aggregated.
NeedsEvidence(axis) == axis \in {"time", "source"}

-------------------------------------------------------------------------------
(* Properties of the accounts of any evidence *)

\* Claims and conservation domains are two partitions of the same counted work.
Conserved(C, asOf) ==
    TotalOf(Claims(C, asOf))
        = MapThenSumSet(LAMBDA d : d.attributed, Conservation(C, asOf))

\* For every cell and window that was reported one report is counted, the independent totals
\* of a window agree with each other and are met, and the denominator is the whole of the
\* counted work.
\* Beyond the word the sums of an efficiency wrap around, and nothing is claimed.
DeterminateIsComplete(C, asOf, kind) ==
    LET work    == {x \in C : x.role = "contribution" /\ x.kind = kind}
        totals  == {x \in C : x.role # "contribution" /\ x.kind = kind}
        counted == {x \in Contributions(C, asOf) : x.kind = kind}
        e       == Efficiency(C, asOf, kind)
    IN  e.determinate /\ ~Fails(C, asOf) =>
            /\ \A x \in work : \E y \in counted : SameCell(x, y)
            /\ \A x, y \in totals :
                   Domain(x) = Domain(y) /\ x.start = y.start /\ x.end = y.end
                       => x.amount = y.amount
            /\ \A d \in Conservation(C, asOf) :
                   d.domain.kind = kind /\ d.verifiable => d.attributed = d.observed
            /\ SumOf(counted) <= Policy.maxTotal => e.denominator = SumOf(counted)

\* No claim is made of reports of two provenance classes.
Unmixed(C, asOf) ==
    \A x, y \in Contributions(C, asOf) :
        ClaimKey(x) = ClaimKey(y) => Provenance(x) = Provenance(y)
KeptAxes(C, asOf) ==
    {axis \in Axes : ~NeedsEvidence(axis) /\ (axis = "provenance" => Unmixed(C, asOf))}

\* Aggregating retained evidence, and aggregating the claims that were derived at the closing
\* and are left after folding, give the same totals along every axis of a claim.  Along
\* provenance they do where no claim mixes two classes; along source and time folded periods
\* are not served; the whole is always the same.
\* The first aggregation derives anew: what is usable must be what was usable at the closing.
AnyWork == [scope |-> {}, descendants |-> FALSE, category |-> {}, kind |-> {}, generation |-> {}]
BucketRequest(S, axis, width) ==
    [scope |-> S, descendants |-> FALSE, category |-> {}, kind |-> {}, generation |-> {},
     axis |-> axis, width |-> width]
KnownOf(buckets) == {b \in buckets : ~b.unknown}
OnAxis(buckets, axis, l) == {b \in KnownOf(buckets) : b.key[axis] = l}
Along(buckets, axis) ==
    {<<l, TotalOf(OnAxis(buckets, axis, l))>> : l \in {b.key[axis] : b \in KnownOf(buckets)}}

AxesAgree(C, closed, now, period, width) ==
    (\A o \in C : Usable(o, closed) <=> Usable(o, now)) =>
        \A S \in {{}} \cup {{s} : s \in DOMAIN Topology.ancestors} :
            LET retained == EvidenceBuckets(C, now, period, BucketRequest(S, "category", width))
                intime   == EvidenceBuckets(C, now, period, BucketRequest(S, "time", width))
                folded   == ClaimBuckets(C, closed, BucketRequest(S, "category", width))
            IN  /\ \A axis \in KeptAxes(C, closed) :
                       Along(retained, axis) = Along(folded, axis)
                /\ TotalOf(intime) = TotalOf(folded)

-------------------------------------------------------------------------------
(* What the proofs rest on: the fields of an observation *)

Categories == {"useful", "control", "retransmission", "duplication", "reroute", "idle",
               "stranded", "failed", "unknown"}
Fields == {"id", "copy", "origin", "source", "incarnation", "epoch", "seq", "generation", "kind",
           "category", "target", "role", "amount", "start", "end", "observed", "received"}
IsReport(o) ==
    /\ o = [f \in Fields |-> o[f]]
    /\ o.id \in Nat /\ o.source \in Nat /\ o.amount \in Nat
    /\ o.role \in {"contribution", "total"} /\ o.category \in Categories
===============================================================================
