---------------------------- MODULE AccountsProofs ----------------------------
(***************************************************************************)
(* Theorems about Accounts: whatever the evidence, the policy and the      *)
(* topology, the accounts conserve what was counted.                       *)
(***************************************************************************)
EXTENDS Accounts, DerivationProofs

-------------------------------------------------------------------------------
(* The sums of the accounts are weights *)

LEMMA SumOfIs ==
    ASSUME NEW S, NEW w, Weighs(w, S), \A x \in S : w[x] = x.amount
    PROVE  SumOf(S) = Weight(w, S)
<1> DEFINE iter[R \in SUBSET S] ==
               IF R = {} THEN 0
               ELSE LET x == CHOOSE x \in R : TRUE IN x.amount + iter[R \ {x}]
           g == [R \in SUBSET S |-> Weight(w, R)]
<1>1. g = [R \in SUBSET S |-> IF R = {} THEN 0
               ELSE LET x == CHOOSE x \in R : TRUE IN x.amount + g[R \ {x}]]
    <2>1. \A R \in SUBSET S :
              R # {} => (CHOOSE x \in R : TRUE) \in S /\ Chosen(R) = CHOOSE x \in R : TRUE
        BY DEF Chosen
    <2>2. AddsUp(g, w, S)
        BY WeightAddsUp
    <2>3. \A R \in SUBSET S :
              g[R] = IF R = {} THEN 0
                     ELSE LET x == CHOOSE x \in R : TRUE IN x.amount + g[R \ {x}]
        BY <2>1, <2>2 DEF AddsUp
    <2>4. g = [R \in SUBSET S |-> g[R]]
        OBVIOUS
    <2> HIDE DEF g
    <2> QED BY <2>3, <2>4
<1> HIDE DEF g
<1>2. iter = [R \in SUBSET S |-> IF R = {} THEN 0
                 ELSE LET x == CHOOSE x \in R : TRUE IN x.amount + iter[R \ {x}]]
    BY <1>1, Zenon DEF iter
<1>3. SumOf(S) = iter[S]
    BY Zenon DEF SumOf, MapThenSumSet, MapThenFoldSet, iter
<1> HIDE DEF iter
<1>4. AddsUp(iter, w, S)
    BY <1>2 DEF AddsUp, Chosen
<1> QED BY <1>3, <1>4, SumIsWeight

LEMMA TotalOfIs ==
    ASSUME NEW S, NEW w, Weighs(w, S), \A x \in S : w[x] = x.total
    PROVE  TotalOf(S) = Weight(w, S)
<1> DEFINE iter[R \in SUBSET S] ==
               IF R = {} THEN 0
               ELSE LET x == CHOOSE x \in R : TRUE IN x.total + iter[R \ {x}]
           g == [R \in SUBSET S |-> Weight(w, R)]
<1>1. g = [R \in SUBSET S |-> IF R = {} THEN 0
               ELSE LET x == CHOOSE x \in R : TRUE IN x.total + g[R \ {x}]]
    <2>1. \A R \in SUBSET S :
              R # {} => (CHOOSE x \in R : TRUE) \in S /\ Chosen(R) = CHOOSE x \in R : TRUE
        BY DEF Chosen
    <2>2. AddsUp(g, w, S)
        BY WeightAddsUp
    <2>3. \A R \in SUBSET S :
              g[R] = IF R = {} THEN 0
                     ELSE LET x == CHOOSE x \in R : TRUE IN x.total + g[R \ {x}]
        BY <2>1, <2>2 DEF AddsUp
    <2>4. g = [R \in SUBSET S |-> g[R]]
        OBVIOUS
    <2> HIDE DEF g
    <2> QED BY <2>3, <2>4
<1> HIDE DEF g
<1>2. iter = [R \in SUBSET S |-> IF R = {} THEN 0
                 ELSE LET x == CHOOSE x \in R : TRUE IN x.total + iter[R \ {x}]]
    BY <1>1, Zenon DEF iter
<1>3. TotalOf(S) = iter[S]
    BY Zenon DEF TotalOf, MapThenSumSet, MapThenFoldSet, iter
<1> HIDE DEF iter
<1>4. AddsUp(iter, w, S)
    BY <1>2 DEF AddsUp, Chosen
<1> QED BY <1>3, <1>4, SumIsWeight

-------------------------------------------------------------------------------
(* What is counted, and the claims it makes up *)

\* Evidence that can be added up.
Measured(C) == IsFiniteSet(C) /\ Identified(C) /\ \A o \in C : o.amount \in Nat

LEMMA SumOfCounted ==
    ASSUME NEW C, Measured(C), NEW asOf, NEW S \in SUBSET Contributions(C, asOf)
    PROVE  LET w == [o \in Contributions(C, asOf) |-> o.amount]
           IN  Weighs(w, S) /\ SumOf(S) = Weight(w, S)
<1> DEFINE w == [o \in Contributions(C, asOf) |-> o.amount]
<1>1. S \in SUBSET C
    BY ContributionsIn DEF Measured
<1>2. Weighs(w, S) /\ \A x \in S : w[x] = x.amount
    BY <1>1, FS_Subset DEF Measured, Weighs
<1> HIDE DEF w
<1>3. Weighs(w, S) /\ SumOf(S) = Weight(w, S)
    BY <1>2, SumOfIs
<1> QED BY <1>3 DEF w

\* There is one claim for every key of what is counted, and it has the sum of that.
LEMMA ClaimsAre ==
    ASSUME NEW C, NEW asOf
    PROVE  /\ \A c \in Claims(C, asOf) :
                  /\ \E o \in Contributions(C, asOf) : ClaimKey(o) = c.key
                  /\ c.total = SumOf({o \in Contributions(C, asOf) : ClaimKey(o) = c.key})
           /\ \A o \in Contributions(C, asOf) : \E c \in Claims(C, asOf) : c.key = ClaimKey(o)
           /\ \A c, d \in Claims(C, asOf) : c.key = d.key => c = d
<1> DEFINE counted == Contributions(C, asOf)
           Of(k) == {o \in counted : ClaimKey(o) = k}
           claim(k) == [key |-> k, total |-> SumOf(Of(k)), evidence |-> {o.id : o \in Of(k)}]
<1>1. Claims(C, asOf) = {claim(k) : k \in {ClaimKey(o) : o \in counted}}
    BY Zenon DEF Claims
<1> DEFINE K == {ClaimKey(o) : o \in counted}
<1>2. \A k : claim(k).key = k /\ claim(k).total = SumOf(Of(k))
    OBVIOUS
<1> HIDE DEF claim
<1>3. \A c \in Claims(C, asOf) : c.key \in K /\ c = claim(c.key)
    BY <1>1, <1>2
<1> QED BY <1>1, <1>2, <1>3

ClaimsIn(C, asOf, Q)     == {c \in Claims(C, asOf) : c.key \in Q}
CountedUnder(C, asOf, Q) == {o \in Contributions(C, asOf) : ClaimKey(o) \in Q}
TotalsOf(S)              == [x \in S |-> x.total]

\* The claims of some keys have the total of what is counted under them.
LEMMA ClaimsOf ==
    ASSUME NEW C, Measured(C), NEW asOf, NEW Q
    PROVE  /\ Weighs(TotalsOf(Claims(C, asOf)), ClaimsIn(C, asOf, Q))
           /\ TotalOf(ClaimsIn(C, asOf, Q))
                  = Weight(TotalsOf(Claims(C, asOf)), ClaimsIn(C, asOf, Q))
           /\ TotalOf(ClaimsIn(C, asOf, Q)) = SumOf(CountedUnder(C, asOf, Q))
<1> DEFINE S == {c \in Claims(C, asOf) : c.key \in Q}
           w == [c \in Claims(C, asOf) |-> c.total]
           T == {o \in Contributions(C, asOf) : ClaimKey(o) \in Q}
           v == [o \in Contributions(C, asOf) |-> o.amount]
           K == {ClaimKey(o) : o \in T}
           key == [o \in T |-> ClaimKey(o)]
           Named(k) == CHOOSE c \in Claims(C, asOf) : c.key = k
           h == [k \in K |-> Named(k)]
<1>1. Weighs(v, T) /\ SumOf(T) = Weight(v, T)
    BY SumOfCounted
<1>2. IsFiniteSet(K)
    <2>1. IsFiniteSet(DOMAIN key) /\ K = {key[o] : o \in DOMAIN key}
        BY <1>1 DEF Weighs
    <2> HIDE DEF key, K
    <2> QED BY <2>1, FiniteValues
<1>3. \A k \in K : Named(k) \in S /\ Named(k).key = k
    <2> SUFFICES ASSUME NEW k \in K PROVE Named(k) \in S /\ Named(k).key = k
        OBVIOUS
    <2>1. \E c \in Claims(C, asOf) : c.key = k
        BY ClaimsAre
    <2>2. Named(k) \in Claims(C, asOf) /\ Named(k).key = k
        BY <2>1
    <2> QED BY <2>2
<1> HIDE DEF Named
<1>4. h \in Bijection(K, S)
    <2>1. \A c \in S : c.key \in K /\ Named(c.key) = c
        <3> SUFFICES ASSUME NEW c \in S PROVE c.key \in K /\ Named(c.key) = c
            OBVIOUS
        <3>1. c.key \in K
            <4>1. PICK o \in Contributions(C, asOf) : ClaimKey(o) = c.key
                BY ClaimsAre
            <4>2. o \in T
                BY <4>1
            <4> QED BY <4>1, <4>2
        <3> QED BY <1>3, <3>1, ClaimsAre
    <2> HIDE DEF K, S
    <2> QED BY <1>3, <2>1 DEF Bijection, Injection, Surjection, IsInjective
<1>5. \A k \in K : w[h[k]] = Weight(v, {o \in T : key[o] = k})
    <2> SUFFICES ASSUME NEW k \in K PROVE w[h[k]] = Weight(v, {o \in T : key[o] = k})
        OBVIOUS
    <2>1. h[k] = Named(k) /\ Named(k) \in Claims(C, asOf) /\ Named(k).key = k
        BY <1>3
    <2>2. w[h[k]] = SumOf({o \in Contributions(C, asOf) : ClaimKey(o) = k})
        BY <2>1, ClaimsAre
    <2>3. {o \in Contributions(C, asOf) : ClaimKey(o) = k} = {o \in T : key[o] = k}
        OBVIOUS
    <2> QED BY <2>2, <2>3, SumOfCounted
<1>6. key \in [T -> K]
    OBVIOUS
<1>7. \A c \in S : w[c] = c.total
    OBVIOUS
<1> HIDE DEF S, w, T, v, K, key, h
<1>8. Weighs(w, S) /\ Weight(w, S) = Weight(v, T)
    BY <1>1, <1>2, <1>4, <1>5, <1>6, WeightOfGroups
<1>9. TotalOf(S) = Weight(w, S)
    BY <1>7, <1>8, TotalOfIs
<1>10. Weighs(w, S) /\ TotalOf(S) = Weight(w, S) /\ TotalOf(S) = SumOf(T)
    BY <1>1, <1>8, <1>9
<1> QED BY <1>10 DEF S, w, T, ClaimsIn, CountedUnder, TotalsOf

\* Claims can be weighed by their totals.
LEMMA ClaimsWeigh ==
    ASSUME NEW C, Measured(C), NEW asOf, NEW S \in SUBSET Claims(C, asOf)
    PROVE  /\ Weighs(TotalsOf(Claims(C, asOf)), S)
           /\ TotalOf(S) = Weight(TotalsOf(Claims(C, asOf)), S)
<1> DEFINE w == TotalsOf(Claims(C, asOf))
           Q == {c.key : c \in Claims(C, asOf)}
<1>1. ClaimsIn(C, asOf, Q) = Claims(C, asOf)
    BY DEF ClaimsIn
<1>2. Weighs(w, Claims(C, asOf))
    <2> HIDE DEF Q
    <2> QED BY <1>1, ClaimsOf
<1>3. Weighs(w, S) /\ \A x \in S : w[x] = x.total
    BY <1>2, FS_Subset DEF Weighs, TotalsOf
<1> HIDE DEF w
<1>4. TotalOf(S) = Weight(w, S)
    BY <1>3, TotalOfIs
<1> QED BY <1>3, <1>4 DEF w

-------------------------------------------------------------------------------
(* Conservation domains *)

LEMMA AttributedIs ==
    ASSUME NEW S, NEW w, Weighs(w, S), \A x \in S : w[x] = x.attributed
    PROVE  MapThenSumSet(LAMBDA d : d.attributed, S) = Weight(w, S)
<1> DEFINE iter[R \in SUBSET S] ==
               IF R = {} THEN 0
               ELSE LET x == CHOOSE x \in R : TRUE IN x.attributed + iter[R \ {x}]
           g == [R \in SUBSET S |-> Weight(w, R)]
<1>1. g = [R \in SUBSET S |-> IF R = {} THEN 0
               ELSE LET x == CHOOSE x \in R : TRUE IN x.attributed + g[R \ {x}]]
    <2>1. \A R \in SUBSET S :
              R # {} => (CHOOSE x \in R : TRUE) \in S /\ Chosen(R) = CHOOSE x \in R : TRUE
        BY DEF Chosen
    <2>2. AddsUp(g, w, S)
        BY WeightAddsUp
    <2>3. \A R \in SUBSET S :
              g[R] = IF R = {} THEN 0
                     ELSE LET x == CHOOSE x \in R : TRUE IN x.attributed + g[R \ {x}]
        BY <2>1, <2>2 DEF AddsUp
    <2>4. g = [R \in SUBSET S |-> g[R]]
        OBVIOUS
    <2> HIDE DEF g
    <2> QED BY <2>3, <2>4
<1> HIDE DEF g
<1>2. iter = [R \in SUBSET S |-> IF R = {} THEN 0
                 ELSE LET x == CHOOSE x \in R : TRUE IN x.attributed + iter[R \ {x}]]
    BY <1>1, Zenon DEF iter
<1>3. MapThenSumSet(LAMBDA d : d.attributed, S) = iter[S]
    BY Zenon DEF MapThenSumSet, MapThenFoldSet, iter
<1> HIDE DEF iter
<1>4. AddsUp(iter, w, S)
    BY <1>2 DEF AddsUp, Chosen
<1> QED BY <1>3, <1>4, SumIsWeight

\* Who is rejected was a candidate.
LEMMA RejectedIn ==
    ASSUME NEW C, Identified(C), NEW asOf, NEW r \in Rejections(C, asOf)
    PROVE  r.evidence \in C
<1>1. /\ Admitted(C, asOf) \subseteq C
      /\ \A G \in OriginGroups(C) \cup SequenceGroups(C) : ExcludedOf(G) \subseteq G /\ G \subseteq C
      /\ \A G \in CellGroups(C, asOf) : G \subseteq C
    <2>1. Admitted(C, asOf) \subseteq C /\ Contributors(C, asOf) \subseteq C
        BY DEF Admitted, Contributors
    <2> QED BY <2>1 DEF OriginGroups, SequenceGroups, ExcludedOf, CellGroups
<1> DEFINE A(S) == \A x \in S : x \in C
<1>2. /\ A({o \in C : Collides(C, o)})
      /\ A(UNION {ExcludedOf(G) : G \in OriginGroups(C)})
      /\ A(UNION {ExcludedOf(G) : G \in SequenceGroups(C)})
      /\ A({o \in C \ Admitted(C, asOf) : o.id \notin ExcludedIds(C)})
      /\ A({o \in Admitted(C, asOf) : o.role = "contribution" /\ ~Attributable(o)})
      /\ A(UNION {G \ Counted(G) : G \in {H \in CellGroups(C, asOf) : Agreed(H)}})
      /\ A(UNION {G \in CellGroups(C, asOf) : SettledAmounts(G) = {}})
    BY <1>1
<1>3. PICK step, S : A(S) /\ r \in Refused(step, S)
    BY <1>2, Zenon DEF Rejections
<1> QED BY <1>3 DEF Refused

LEMMA DomainsAreFinite ==
    ASSUME NEW C, Measured(C), NEW asOf
    PROVE  IsFiniteSet({Domain(o) : o \in Contributions(C, asOf) \cup Totals(C, asOf)}
                           \cup UnknownDomains(C, asOf))
<1> DEFINE Nowhere(o) == [scope |-> NoScope, generation |-> o.generation, kind |-> o.kind]
           A == {Domain(o) : o \in C}
           B == {Nowhere(o) : o \in C}
           f == [o \in C |-> Domain(o)]
           g == [o \in C |-> Nowhere(o)]
<1>1. IsFiniteSet(A) /\ IsFiniteSet(B)
    <2>1. DOMAIN f = C /\ DOMAIN g = C
          /\ A = {f[o] : o \in DOMAIN f} /\ B = {g[o] : o \in DOMAIN g}
        OBVIOUS
    <2> HIDE DEF f, g, A, B
    <2> QED BY <2>1, FiniteValues DEF Measured
<1>2. Totals(C, asOf) \subseteq C /\ \A G \in TotalGroups(C, asOf) : G \subseteq C /\ G # {}
    <2>1. \A G \in TotalGroups(C, asOf) : G \subseteq C /\ G # {}
        BY DEF TotalGroups, Admitted
    <2>2. \A G \in TotalGroups(C, asOf) : LowestId(G) \in C
        BY <2>1, LowestIdIn DEF Measured, Identified
    <2> QED BY <2>1, <2>2 DEF Totals
<1>3. Contributions(C, asOf) \subseteq C
    BY ContributionsIn DEF Measured
<1>4. UnknownDomains(C, asOf) \subseteq A \cup B
    <2>1. \A r \in Rejections(C, asOf) :
              [scope |-> NoScope, generation |-> r.evidence.generation, kind |-> r.evidence.kind] \in B
        BY RejectedIn DEF Measured
    <2>2. \A o \in UNION {G \in TotalGroups(C, asOf) : ~Agreed(G)} : Domain(o) \in A
        BY <1>2
    <2> HIDE DEF A, B
    <2> QED BY <2>1, <2>2 DEF UnknownDomains
<1>5. {Domain(o) : o \in Contributions(C, asOf) \cup Totals(C, asOf)} \subseteq A
    BY <1>2, <1>3
<1> HIDE DEF A, B
<1> QED BY <1>1, <1>4, <1>5, FS_Union, FS_Subset

\* Claims and conservation domains account for the same work, whatever was delivered.
THEOREM AccountsConserve ==
    ASSUME NEW C, IsFiniteSet(C), Identified(C), \A o \in C : o.amount \in Nat, NEW asOf
    PROVE  Conserved(C, asOf)
<1> DEFINE counted == Contributions(C, asOf)
           totals  == Totals(C, asOf)
           In(S, d) == {o \in S : Domain(o) = d}
           K == {Domain(o) : o \in counted \cup totals} \cup UnknownDomains(C, asOf)
           at(d) == [domain |-> d, attributed |-> SumOf(In(counted, d)),
                     observed |-> SumOf(In(totals, d)), verifiable |-> In(totals, d) # {}]
           R == Conservation(C, asOf)
           w == [o \in counted |-> o.amount]
           key == [o \in counted |-> Domain(o)]
           h == [d \in K |-> at(d)]
           t == [r \in R |-> r.attributed]
<1>1. Measured(C)
    BY DEF Measured
<1>2. R = {at(d) : d \in K}
    BY Zenon DEF Conservation
<1>3. \A d : at(d).domain = d /\ at(d).attributed = SumOf(In(counted, d))
    OBVIOUS
<1>4. IsFiniteSet(K)
    BY <1>1, DomainsAreFinite
<1>5. Weighs(w, counted) /\ SumOf(counted) = Weight(w, counted)
    BY <1>1, SumOfCounted
<1>6. key \in [counted -> K]
    OBVIOUS
<1>7. \A d : SumOf(In(counted, d)) = Weight(w, {o \in counted : key[o] = d})
    <2> SUFFICES ASSUME NEW d
                 PROVE  SumOf(In(counted, d)) = Weight(w, {o \in counted : key[o] = d})
        OBVIOUS
    <2>1. In(counted, d) = {o \in counted : key[o] = d}
        OBVIOUS
    <2> QED BY <1>1, <2>1, SumOfCounted
<1> HIDE DEF at, K, R, w, key, counted
<1>8. h \in Bijection(K, R)
    BY <1>2, <1>3 DEF Bijection, Injection, Surjection, IsInjective
<1>9. \A d \in K : t[h[d]] = Weight(w, {o \in counted : key[o] = d})
    BY <1>2, <1>3, <1>7
<1>10. \A r \in R : t[r] = r.attributed
    OBVIOUS
<1> HIDE DEF h, t
<1>11. Weighs(t, R) /\ Weight(t, R) = Weight(w, counted)
    BY <1>4, <1>5, <1>6, <1>8, <1>9, WeightOfGroups
<1>12. MapThenSumSet(LAMBDA d : d.attributed, R) = SumOf(counted)
    BY <1>5, <1>10, <1>11, AttributedIs
<1>13. TotalOf(Claims(C, asOf)) = SumOf(counted)
    <2> DEFINE Q == {c.key : c \in Claims(C, asOf)}
    <2>1. ClaimsIn(C, asOf, Q) = Claims(C, asOf)
        BY DEF ClaimsIn
    <2>2. CountedUnder(C, asOf, Q) = counted
        BY ClaimsAre DEF CountedUnder, counted
    <2> HIDE DEF Q
    <2> QED BY <1>1, <2>1, <2>2, ClaimsOf
<1> QED BY <1>12, <1>13 DEF Conserved, R

-------------------------------------------------------------------------------
(* An efficiency that is given *)

NothingRefused(C, asOf, kind) == \A r \in Rejections(C, asOf) : r.evidence.kind # kind

\* What is not admitted is refused.
LEMMA RefusedUnlessAdmitted ==
    ASSUME NEW C, NEW asOf, NEW x \in C, x \notin Admitted(C, asOf)
    PROVE  \E r \in Rejections(C, asOf) : r.evidence = x
<1> DEFINE Named == {r.evidence : r \in Rejections(C, asOf)}
<1>1. CASE x.id \in ExcludedIds(C)
    <2>1. PICK o \in {y \in C : Collides(C, y)}
                         \cup UNION {ExcludedOf(G) : G \in OriginGroups(C) \cup SequenceGroups(C)} :
              o.id = x.id
        BY <1>1 DEF ExcludedIds
    <2>2. o \in C
        BY <2>1 DEF ExcludedOf, OriginGroups, SequenceGroups
    <2>3. CASE o = x
        <3>1. \/ x \in {y \in C : Collides(C, y)}
              \/ x \in UNION {ExcludedOf(G) : G \in OriginGroups(C)}
              \/ x \in UNION {ExcludedOf(G) : G \in SequenceGroups(C)}
            BY <2>1, <2>3
        <3>2. \E step : [step |-> step, evidence |-> x] \in Rejections(C, asOf)
            BY <3>1, Zenon DEF Rejections, Refused
        <3> QED BY <3>2
    <2>4. CASE o # x
        <3>1. x \in {y \in C : Collides(C, y)}
            BY <2>1, <2>2, <2>4 DEF Collides
        <3>2. \E step : [step |-> step, evidence |-> x] \in Rejections(C, asOf)
            BY <3>1, Zenon DEF Rejections, Refused
        <3> QED BY <3>2
    <2> QED BY <2>3, <2>4
<1>2. CASE x.id \notin ExcludedIds(C)
    <2>1. \E step : [step |-> step, evidence |-> x] \in Rejections(C, asOf)
        BY <1>2, Zenon DEF Rejections, Refused
    <2> QED BY <2>1
<1> QED BY <1>1, <1>2

\* Where no work is refused, every cell and window that was reported is counted.
LEMMA ReportedIsCounted ==
    ASSUME NEW C, Identified(C), NEW asOf, NEW kind, NothingRefused(C, asOf, kind),
           NEW x \in C, x.role = "contribution", x.kind = kind
    PROVE  \E y \in Contributions(C, asOf) : y.kind = kind /\ SameCell(x, y)
<1>1. x \in Admitted(C, asOf)
    BY RefusedUnlessAdmitted DEF NothingRefused
<1>2. ~\E step : [step |-> step, evidence |-> x] \in Rejections(C, asOf)
    BY DEF NothingRefused
<1>3. Attributable(x)
    <2>1. ~Attributable(x) => \E step : [step |-> step, evidence |-> x] \in Rejections(C, asOf)
        BY <1>1, Zenon DEF Rejections, Refused
    <2> QED BY <1>2, <2>1
<1> DEFINE G == {y \in Contributors(C, asOf) : SameCell(y, x)}
<1>4. x \in G /\ G \in CellGroups(C, asOf)
    BY <1>1, <1>3 DEF Contributors, CellGroups, SameCell
<1>5. SettledAmounts(G) # {}
    <2> HIDE DEF G
    <2>1. SettledAmounts(G) = {}
              => \E step : [step |-> step, evidence |-> x] \in Rejections(C, asOf)
        BY <1>4, Zenon DEF Rejections, Refused
    <2> QED BY <1>2, <2>1
<1>6. PICK a : a \in SettledAmounts(G)
    BY <1>5
<1> DEFINE y == LowestId({o \in G : o.amount = a})
<1>7. y \in Counted(G)
    BY <1>6 DEF Counted
<1>8. y \in Contributions(C, asOf)
    BY <1>4, <1>7 DEF Contributions
<1>9. y \in G
    <2>1. Identified(G)
        BY DEF Identified, Contributors, Admitted
    <2> HIDE DEF G, y
    <2> QED BY <1>7, <2>1, CountedIn
<1>10. SameCell(x, y) /\ y.kind = x.kind
    <2>1. SameCell(y, x)
        BY <1>9
    <2> HIDE DEF y
    <2> QED BY <2>1 DEF SameCell, ClaimKey
<1> QED BY <1>8, <1>10

\* Where none disagree, the totals of a domain and window are one amount.
LEMMA TotalsAreOne ==
    ASSUME NEW C, IsFiniteSet(C), NEW asOf, NEW kind, NothingRefused(C, asOf, kind),
           \A d \in UnknownDomains(C, asOf) : d.kind # kind,
           NEW x \in C, x.role = "total", x.kind = kind, NEW y \in C, y.role = "total",
           Domain(x) = Domain(y), x.start = y.start, x.end = y.end
    PROVE  x.amount = y.amount
<1> DEFINE all == {o \in Admitted(C, asOf) : o.role = "total"}
           G   == {z \in all : Domain(z) = Domain(x) /\ z.start = x.start /\ z.end = x.end}
<1>1. y.kind = kind
    BY DEF Domain
<1>2. x \in all /\ y \in all
    BY <1>1, RefusedUnlessAdmitted DEF NothingRefused
<1>3. x \in G /\ y \in G /\ G \in TotalGroups(C, asOf) /\ G \subseteq C
    BY <1>2 DEF TotalGroups, Admitted
<1> HIDE DEF G
<1>4. Agreed(G)
    <2> SUFFICES ASSUME ~Agreed(G) PROVE FALSE
        OBVIOUS
    <2>1. Domain(x) \in UnknownDomains(C, asOf)
        BY <1>3, Zenon DEF UnknownDomains
    <2> QED BY <2>1 DEF Domain
<1>5. IsFiniteSet(Amounts(G))
    <2> DEFINE f == [o \in G |-> o.amount]
    <2>1. IsFiniteSet(DOMAIN f) /\ Amounts(G) = {f[o] : o \in DOMAIN f}
        BY <1>3, FS_Subset DEF Amounts
    <2> HIDE DEF f
    <2> QED BY <2>1, FiniteValues
<1>6. PICK a : Amounts(G) = {a}
    BY <1>4, <1>5, OnlyOne DEF Agreed
<1>7. x.amount \in Amounts(G) /\ y.amount \in Amounts(G)
    BY <1>3 DEF Amounts
<1> QED BY <1>6, <1>7

LEMMA UsefulnessIs ==
    \A category \in Categories \ {"unknown"} :
        UsefulnessOf(category) \in {"useful", "overhead", "avoidable", "failed"}
BY DEF Categories, UsefulnessOf

\* The work of a class, in a word that holds it.
LEMMA WorkIs ==
    ASSUME NEW C, Measured(C), NEW asOf, NEW kind, NEW class
    PROVE  WorkOf(Claims(C, asOf), kind, class)
               = Wrapped(SumOf({o \in Contributions(C, asOf) :
                                    o.kind = kind /\ UsefulnessOf(o.category) = class}))
<1> DEFINE Q == {k \in {c.key : c \in Claims(C, asOf)} :
                     k.kind = kind /\ UsefulnessOf(k.category) = class}
<1>1. {c \in Claims(C, asOf) : c.key.kind = kind /\ UsefulnessOf(c.key.category) = class}
          = ClaimsIn(C, asOf, Q)
    BY DEF ClaimsIn
<1>2. {o \in Contributions(C, asOf) : o.kind = kind /\ UsefulnessOf(o.category) = class}
          = CountedUnder(C, asOf, Q)
    <2>1. \A o : ClaimKey(o).kind = o.kind /\ ClaimKey(o).category = o.category
        BY DEF ClaimKey
    <2>2. \A o \in Contributions(C, asOf) : ClaimKey(o) \in {c.key : c \in Claims(C, asOf)}
        BY ClaimsAre
    <2> QED BY <2>1, <2>2 DEF CountedUnder
<1> HIDE DEF Q
<1> QED BY <1>1, <1>2, ClaimsOf DEF WorkOf

LEMMA DenominatorIs ==
    ASSUME NEW C, Measured(C), \A o \in C : o.category \in Categories,
           NEW asOf, NEW kind, Policy.maxTotal \in Nat,
           \A c \in Claims(C, asOf) : c.key.kind = kind => c.key.category # "unknown",
           SumOf({x \in Contributions(C, asOf) : x.kind = kind}) <= Policy.maxTotal
    PROVE  Saturated(WorkOf(Claims(C, asOf), kind, "useful")
                        + WorkOf(Claims(C, asOf), kind, "overhead")
                        + WorkOf(Claims(C, asOf), kind, "avoidable")
                        + WorkOf(Claims(C, asOf), kind, "failed"))
               = SumOf({x \in Contributions(C, asOf) : x.kind = kind})
<1> DEFINE counted == Contributions(C, asOf)
           Of(class) == {o \in counted : o.kind = kind /\ UsefulnessOf(o.category) = class}
           all == {x \in counted : x.kind = kind}
           w == [o \in counted |-> o.amount]
           a == Of("useful")
           b == Of("overhead")
           c == Of("avoidable")
           d == Of("failed")
<1>1. \A o \in all : o.category \in Categories \ {"unknown"}
    <2> SUFFICES ASSUME NEW o \in all PROVE o.category \in Categories /\ o.category # "unknown"
        OBVIOUS
    <2>1. PICK e \in Claims(C, asOf) : e.key = ClaimKey(o)
        BY ClaimsAre
    <2>2. o.category # "unknown"
        BY <2>1 DEF ClaimKey
    <2>3. o \in C
        BY ContributionsIn DEF Measured
    <2> QED BY <2>2, <2>3
<1>2. all = ((a \cup b) \cup c) \cup d
    BY <1>1, UsefulnessIs
<1>3. a \cap b = {} /\ (a \cup b) \cap c = {} /\ ((a \cup b) \cup c) \cap d = {}
    OBVIOUS
<1>4. \A S \in SUBSET counted : Weighs(w, S) /\ SumOf(S) = Weight(w, S) /\ SumOf(S) \in Nat
    <2> SUFFICES ASSUME NEW S \in SUBSET counted
                 PROVE  Weighs(w, S) /\ SumOf(S) = Weight(w, S) /\ SumOf(S) \in Nat
        OBVIOUS
    <2>1. Weighs(w, S) /\ SumOf(S) = Weight(w, S)
        BY SumOfCounted
    <2> HIDE DEF counted, w
    <2>2. Weight(w, S) \in Nat
        BY <2>1, WeightIs
    <2> QED BY <2>1, <2>2
<1>5. {a, b, c, d, a \cup b, (a \cup b) \cup c, all} \subseteq SUBSET counted
    OBVIOUS
<1>6. \A class : WorkOf(Claims(C, asOf), kind, class) = Wrapped(SumOf(Of(class)))
    BY WorkIs
<1>7. \A n \in 0..Policy.maxTotal : Wrapped(n) = n
    BY DEF Wrapped
<1> HIDE DEF w, all, counted
<1>8. SumOf(all) = SumOf(a) + SumOf(b) + SumOf(c) + SumOf(d)
    <2> HIDE DEF a, b, c, d
    <2>1. Weight(w, a \cup b) = Weight(w, a) + Weight(w, b)
        BY <1>3, <1>4, <1>5, WeightOfBoth
    <2>2. Weight(w, (a \cup b) \cup c) = Weight(w, a \cup b) + Weight(w, c)
        BY <1>3, <1>4, <1>5, WeightOfBoth
    <2>3. Weight(w, all) = Weight(w, (a \cup b) \cup c) + Weight(w, d)
        BY <1>2, <1>3, <1>4, <1>5, WeightOfBoth
    <2> QED BY <1>4, <1>5, <2>1, <2>2, <2>3
<1>9. SumOf(all) <= Policy.maxTotal
    BY DEF all, counted
<1>10. /\ WorkOf(Claims(C, asOf), kind, "useful") = SumOf(a)
       /\ WorkOf(Claims(C, asOf), kind, "overhead") = SumOf(b)
       /\ WorkOf(Claims(C, asOf), kind, "avoidable") = SumOf(c)
       /\ WorkOf(Claims(C, asOf), kind, "failed") = SumOf(d)
    <2>1. {SumOf(a), SumOf(b), SumOf(c), SumOf(d)} \subseteq 0..Policy.maxTotal
        <3> HIDE DEF a, b, c, d
        <3> QED BY <1>4, <1>5, <1>8, <1>9
    <2> QED BY <1>6, <1>7, <2>1
<1>11. \A n \in 0..Policy.maxTotal : Saturated(n) = n
    BY DEF Saturated, Min
<1>12. SumOf(all) \in 0..Policy.maxTotal
    BY <1>4, <1>5, <1>9
<1>13. SumOf(all) = SumOf({x \in Contributions(C, asOf) : x.kind = kind})
    BY DEF all, counted
<1> HIDE DEF a, b, c, d
<1> QED BY <1>8, <1>10, <1>11, <1>12, <1>13

\* A ratio that is given is the ratio of everything that was reported.
THEOREM DeterminateIsWhole ==
    ASSUME NEW C, IsFiniteSet(C), \A o \in C : IsReport(o), NEW asOf, NEW kind,
           Policy.maxTotal \in Nat
    PROVE  DeterminateIsComplete(C, asOf, kind)
<1> DEFINE claims == Claims(C, asOf)
           counted == {x \in Contributions(C, asOf) : x.kind = kind}
           known == Saturated(WorkOf(claims, kind, "useful") + WorkOf(claims, kind, "overhead")
                                + WorkOf(claims, kind, "avoidable")
                                + WorkOf(claims, kind, "failed"))
           e == Efficiency(C, asOf, kind)
<1>1. e.determinate <=> /\ ~Unmeasured(C, asOf, kind)
                        /\ \A d \in {x \in Conservation(C, asOf) : x.domain.kind = kind} :
                               Status(d) \notin {"residual", "excess"}
                        /\ known # 0
    BY Zenon DEF Efficiency
<1>2. e.denominator = known
    BY Zenon DEF Efficiency
<1>3. Measured(C) /\ Identified(C) /\ \A o \in C : o.category \in Categories
    BY DEF Measured, Identified, IsReport
<1> HIDE DEF e
<1> SUFFICES ASSUME e.determinate
             PROVE  /\ \A x \in {x \in C : x.role = "contribution" /\ x.kind = kind} :
                           \E y \in counted : SameCell(x, y)
                    /\ \A x, y \in {x \in C : x.role # "contribution" /\ x.kind = kind} :
                           Domain(x) = Domain(y) /\ x.start = y.start /\ x.end = y.end
                               => x.amount = y.amount
                    /\ \A d \in Conservation(C, asOf) :
                           d.domain.kind = kind /\ d.verifiable => d.attributed = d.observed
                    /\ SumOf(counted) <= Policy.maxTotal => e.denominator = SumOf(counted)
    BY Zenon DEF DeterminateIsComplete, e
<1>4. /\ \A d \in UnknownDomains(C, asOf) : d.kind # kind
      /\ \A c \in claims : c.key.kind = kind => c.key.category # "unknown"
    BY <1>1 DEF Unmeasured
<1>5. NothingRefused(C, asOf, kind)
    <2> SUFFICES ASSUME NEW r \in Rejections(C, asOf), r.evidence.kind = kind PROVE FALSE
        BY DEF NothingRefused
    <2> DEFINE d == [scope |-> NoScope, generation |-> r.evidence.generation,
                     kind |-> r.evidence.kind]
    <2>1. d \in UnknownDomains(C, asOf)
        BY Zenon DEF UnknownDomains
    <2> QED BY <1>4, <2>1
<1>6. ASSUME NEW x \in C, x.role = "contribution", x.kind = kind
      PROVE  \E y \in counted : SameCell(x, y)
    <2>1. PICK y \in Contributions(C, asOf) : y.kind = kind /\ SameCell(x, y)
        BY <1>3, <1>5, <1>6, ReportedIsCounted
    <2> QED BY <2>1
<1>7. ASSUME NEW x \in C, NEW y \in C, x.role # "contribution", x.kind = kind,
             y.role # "contribution", Domain(x) = Domain(y), x.start = y.start, x.end = y.end
      PROVE  x.amount = y.amount
    <2>1. x.role = "total" /\ y.role = "total"
        BY <1>7 DEF IsReport
    <2> QED BY <1>4, <1>5, <1>7, <2>1, TotalsAreOne
<1>8. ASSUME NEW d \in Conservation(C, asOf), d.domain.kind = kind, d.verifiable
      PROVE  d.attributed = d.observed
    <2>1. Status(d) \notin {"residual", "excess"}
        BY <1>1, <1>8
    <2> QED BY <1>8, <2>1 DEF Status
<1>9. SumOf(counted) <= Policy.maxTotal => e.denominator = SumOf(counted)
    BY <1>2, <1>3, <1>4, DenominatorIs
<1> QED BY <1>6, <1>7, <1>8, <1>9

-------------------------------------------------------------------------------
(* Rollups *)

\* The rows that count for a scope.
CountedFor(rows, s) == {r \in rows : s \in RollupTargets(r.key.scope)}

\* At a scope, rows roll up to the weight of those that count for it.
LEMMA RolledUpAt ==
    ASSUME NEW C, Measured(C), NEW asOf, NEW rows \in SUBSET Claims(C, asOf), NEW s
    PROVE  LET w == TotalsOf(Claims(C, asOf))
           IN  /\ Weighs(w, CountedFor(rows, s))
               /\ TotalAt(rows, s) = Weight(w, CountedFor(rows, s))
<1> DEFINE w == TotalsOf(Claims(C, asOf))
           S == CountedFor(rows, s)
           At(k) == {r \in rows : \E x \in RollupTargets(r.key.scope) : RollupKey(x, r.key) = k}
           row(k) == [key |-> k, total |-> TotalOf(At(k))]
           R == {r \in RolledUp(rows) : r.key.scope = s}
           K == {RollupKey(s, r.key) : r \in S}
           key == [r \in S |-> RollupKey(s, r.key)]
           h == [k \in K |-> row(k)]
           t == TotalsOf(R)
<1>1. /\ \A T \in SUBSET Claims(C, asOf) : Weighs(w, T)
      /\ \A T \in SUBSET Claims(C, asOf) : TotalOf(T) = Weight(w, T)
    BY ClaimsWeigh
<1>2. S \in SUBSET Claims(C, asOf) /\ S \in SUBSET rows
    BY DEF CountedFor
<1>3. RolledUp(rows)
          = {row(k) : k \in UNION {{RollupKey(x, r.key) : x \in RollupTargets(r.key.scope)} : r \in rows}}
    BY Zenon DEF RolledUp
<1>4. \A k : row(k).key = k /\ row(k).total = TotalOf(At(k))
    OBVIOUS
<1>5. \A x, k : RollupKey(x, k).scope = x
    BY DEF RollupKey
<1> HIDE DEF row, w
<1>6. R = {row(k) : k \in K}
    <2>1. ASSUME NEW k \in K PROVE row(k) \in R
        <3>1. PICK r \in S : k = RollupKey(s, r.key)
            OBVIOUS
        <3>2. r \in rows /\ s \in RollupTargets(r.key.scope)
            BY DEF CountedFor
        <3> QED BY <1>3, <1>4, <1>5, <3>1, <3>2
    <2>2. ASSUME NEW r \in R PROVE \E k \in K : r = row(k)
        <3>1. PICK c \in rows : \E x \in RollupTargets(c.key.scope) : r = row(RollupKey(x, c.key))
            BY <1>3
        <3>2. PICK x \in RollupTargets(c.key.scope) : r = row(RollupKey(x, c.key))
            BY <3>1
        <3>3. x = s
            BY <1>4, <1>5, <3>2
        <3> QED BY <3>2, <3>3 DEF CountedFor
    <2> QED BY <2>1, <2>2
<1>7. \A k \in K : At(k) = {r \in S : key[r] = k}
    <2> SUFFICES ASSUME NEW k \in K PROVE At(k) = {r \in S : key[r] = k}
        OBVIOUS
    <2>1. k.scope = s
        BY <1>5
    <2> QED BY <1>5, <2>1 DEF CountedFor
<1>8. \A k \in K : At(k) \in SUBSET Claims(C, asOf)
    OBVIOUS
<1>9. h \in Bijection(K, R)
    <2> HIDE DEF K, R
    <2> QED BY <1>4, <1>6 DEF Bijection, Injection, Surjection, IsInjective
<1>10. \A k \in K : t[h[k]] = Weight(w, {r \in S : key[r] = k})
    <2> SUFFICES ASSUME NEW k \in K PROVE t[h[k]] = Weight(w, {r \in S : key[r] = k})
        OBVIOUS
    <2>1. h[k] = row(k) /\ row(k) \in R
        BY <1>6
    <2>2. t[h[k]] = row(k).total
        BY <2>1 DEF TotalsOf
    <2>3. TotalOf(At(k)) = Weight(w, At(k))
        BY <1>1, <1>8
    <2> QED BY <1>4, <1>7, <2>2, <2>3
<1>11. IsFiniteSet(K)
    <2>1. DOMAIN key = S /\ K = {key[r] : r \in DOMAIN key} /\ IsFiniteSet(S)
        BY <1>1, <1>2 DEF Weighs
    <2> HIDE DEF key, K, S
    <2> QED BY <2>1, FiniteValues
<1>12. key \in [S -> K]
    OBVIOUS
<1>13. \A r \in R : t[r] = r.total
    BY DEF TotalsOf
<1>14. Weighs(w, S)
    BY <1>1, <1>2
<1> HIDE DEF S, R, K, key, h, t
<1>15. Weighs(t, R) /\ Weight(t, R) = Weight(w, S)
    BY <1>9, <1>10, <1>11, <1>12, <1>14, WeightOfGroups
<1>16. TotalOf(R) = Weight(t, R)
    BY <1>13, <1>15, TotalOfIs
<1> QED BY <1>14, <1>15, <1>16 DEF TotalAt, R, S, w

LEMMA SumAtIs ==
    ASSUME NEW rows, NEW S, NEW w, Weighs(w, S), \A s \in S : w[s] = TotalAt(rows, s)
    PROVE  SumAt(rows, S) = Weight(w, S)
<1> DEFINE iter[R \in SUBSET S] ==
               IF R = {} THEN 0
               ELSE LET s == CHOOSE s \in R : TRUE IN TotalAt(rows, s) + iter[R \ {s}]
           g == [R \in SUBSET S |-> Weight(w, R)]
<1>1. g = [R \in SUBSET S |-> IF R = {} THEN 0
               ELSE LET s == CHOOSE s \in R : TRUE IN TotalAt(rows, s) + g[R \ {s}]]
    <2>1. \A R \in SUBSET S :
              R # {} => (CHOOSE s \in R : TRUE) \in S /\ Chosen(R) = CHOOSE s \in R : TRUE
        BY DEF Chosen
    <2>2. AddsUp(g, w, S)
        BY WeightAddsUp
    <2>3. \A R \in SUBSET S :
              g[R] = IF R = {} THEN 0
                     ELSE LET s == CHOOSE s \in R : TRUE IN TotalAt(rows, s) + g[R \ {s}]
        BY <2>1, <2>2 DEF AddsUp
    <2>4. g = [R \in SUBSET S |-> g[R]]
        OBVIOUS
    <2> HIDE DEF g
    <2> QED BY <2>3, <2>4
<1> HIDE DEF g
<1>2. iter = [R \in SUBSET S |-> IF R = {} THEN 0
                 ELSE LET s == CHOOSE s \in R : TRUE IN TotalAt(rows, s) + iter[R \ {s}]]
    BY <1>1, ZenonT(60) DEF iter
<1>3. SumAt(rows, S) = iter[S]
    BY Zenon DEF SumAt, MapThenSumSet, MapThenFoldSet, iter
<1> HIDE DEF iter
<1>4. AddsUp(iter, w, S)
    <2> SUFFICES ASSUME NEW R \in SUBSET S
                 PROVE  iter[R] = IF R = {} THEN 0 ELSE w[Chosen(R)] + iter[R \ {Chosen(R)}]
        BY DEF AddsUp
    <2>1. R # {} => Chosen(R) \in S /\ Chosen(R) = CHOOSE s \in R : TRUE
        BY DEF Chosen
    <2>2. iter[R] = IF R = {} THEN 0
                    ELSE LET s == CHOOSE s \in R : TRUE IN TotalAt(rows, s) + iter[R \ {s}]
        BY <1>2
    <2> QED BY <2>1, <2>2
<1> QED BY <1>3, <1>4, SumIsWeight

CountedAmong(rows, S) == {r \in rows : S \cap RollupTargets(r.key.scope) # {}}

\* Scopes of which no row counts for two have together what the rows weigh that count for one.
LEMMA RolledUpTogether ==
    ASSUME NEW C, Measured(C), NEW asOf, NEW rows \in SUBSET Claims(C, asOf),
           NEW S, IsFiniteSet(S),
           \A r \in rows : \A x, y \in S \cap RollupTargets(r.key.scope) : x = y
    PROVE  LET w == TotalsOf(Claims(C, asOf))
           IN  /\ Weighs(w, CountedAmong(rows, S))
               /\ SumAt(rows, S) = Weight(w, CountedAmong(rows, S))
<1> DEFINE w == TotalsOf(Claims(C, asOf))
           T == CountedAmong(rows, S)
           Target(r) == CHOOSE x : x \in S \cap RollupTargets(r.key.scope)
           key == [r \in T |-> Target(r)]
           v == [s \in S |-> TotalAt(rows, s)]
<1>1. \A r \in T : Target(r) \in S \cap RollupTargets(r.key.scope)
    BY DEF CountedAmong
<1> HIDE DEF Target
<1>2. \A s \in S : CountedFor(rows, s) = {r \in T : key[r] = s}
    BY <1>1 DEF CountedFor, CountedAmong
<1>3. \A s \in S : v[s] = Weight(w, {r \in T : key[r] = s})
    <2> SUFFICES ASSUME NEW s \in S PROVE v[s] = Weight(w, {r \in T : key[r] = s})
        OBVIOUS
    <2>1. TotalAt(rows, s) = Weight(w, CountedFor(rows, s))
        BY RolledUpAt
    <2> QED BY <1>2, <2>1
<1>4. key \in [T -> S]
    BY <1>1
<1>5. Weighs(w, T)
    <2>1. T \in SUBSET Claims(C, asOf)
        BY DEF CountedAmong
    <2> QED BY <2>1, ClaimsWeigh
<1>6. \A s \in S : v[s] = TotalAt(rows, s)
    OBVIOUS
<1> HIDE DEF w, key, v, T
<1>7. Weighs(v, S) /\ Weight(v, S) = Weight(w, T)
    BY <1>3, <1>4, <1>5, WeightOfParts
<1>8. SumAt(rows, S) = Weight(v, S)
    BY <1>6, <1>7, SumAtIs
<1> QED BY <1>5, <1>7, <1>8 DEF w, T

\* The total of a scope is what is its own and the totals of the scopes that share the rest.
LEMMA RollupSplits ==
    ASSUME NEW C, Measured(C), NEW asOf, NEW rows \in SUBSET Claims(C, asOf),
           NEW S, IsFiniteSet(S),
           \A r \in rows : \A x, y \in S \cap RollupTargets(r.key.scope) : x = y,
           NEW own \in SUBSET rows, NEW s,
           \A r \in rows : r \in own => S \cap RollupTargets(r.key.scope) = {},
           \A r \in rows : s \in RollupTargets(r.key.scope)
                               <=> r \in own \/ S \cap RollupTargets(r.key.scope) # {}
    PROVE  TotalAt(rows, s) = TotalOf(own) + SumAt(rows, S)
<1> DEFINE w == TotalsOf(Claims(C, asOf))
           T == CountedAmong(rows, S)
<1>1. CountedFor(rows, s) = own \cup T /\ own \cap T = {}
    BY DEF CountedFor, CountedAmong
<1>2. Weighs(w, T) /\ SumAt(rows, S) = Weight(w, T)
    BY RolledUpTogether
<1>3. Weighs(w, CountedFor(rows, s)) /\ TotalAt(rows, s) = Weight(w, CountedFor(rows, s))
    BY RolledUpAt
<1>4. \A r \in own : w[r] = r.total
    BY DEF TotalsOf
<1> HIDE DEF w, T
<1>5. Weighs(w, own)
    BY <1>1, <1>3, FS_Subset DEF Weighs
<1>6. TotalOf(own) = Weight(w, own)
    BY <1>4, <1>5, TotalOfIs
<1> QED BY <1>1, <1>2, <1>3, <1>5, <1>6, WeightOfBoth

\* Scopes of which every row counts for one make up the whole.
LEMMA RollupIsWhole ==
    ASSUME NEW C, Measured(C), NEW asOf, NEW rows \in SUBSET Claims(C, asOf),
           NEW S, IsFiniteSet(S),
           \A r \in rows : \A x, y \in S \cap RollupTargets(r.key.scope) : x = y,
           \A r \in rows : S \cap RollupTargets(r.key.scope) # {}
    PROVE  TotalOf(rows) = SumAt(rows, S)
<1> DEFINE w == TotalsOf(Claims(C, asOf))
<1>1. rows = CountedAmong(rows, S)
    BY DEF CountedAmong
<1>2. Weighs(w, rows) /\ SumAt(rows, S) = Weight(w, rows)
    BY <1>1, RolledUpTogether
<1>3. \A r \in rows : w[r] = r.total
    BY DEF TotalsOf
<1> HIDE DEF w
<1> QED BY <1>2, <1>3, TotalOfIs

\* Only the rows that count for a scope matter to it.
LEMMA RollupOfThose ==
    ASSUME NEW C, Measured(C), NEW asOf, NEW rows \in SUBSET Claims(C, asOf),
           NEW few \in SUBSET rows, NEW s,
           \A r \in rows : s \in RollupTargets(r.key.scope) => r \in few
    PROVE  TotalAt(few, s) = TotalAt(rows, s)
<1>1. CountedFor(few, s) = CountedFor(rows, s)
    BY DEF CountedFor
<1> QED BY <1>1, RolledUpAt

-------------------------------------------------------------------------------
(* Aggregation *)

\* R has one record for every key of S, with the weight of what has that key.
IsGrouping(R, S, w, key) ==
    /\ \A b \in R : \E x \in S : key[x] = b.key
    /\ \A x \in S : \E b \in R : b.key = key[x]
    /\ \A b, d \in R : b.key = d.key => b = d
    /\ \A b \in R : b.total = Weight(w, {x \in S : key[x] = b.key})

\* Groups have together the weight of what was grouped.
LEMMA GroupsWeigh ==
    ASSUME NEW S, NEW w, Weighs(w, S), NEW key, NEW R, IsGrouping(R, S, w, key)
    PROVE  Weighs(TotalsOf(R), R) /\ TotalOf(R) = Weight(w, S)
<1> DEFINE K == {key[x] : x \in S}
           k2 == [x \in S |-> key[x]]
           Named(k) == CHOOSE b \in R : b.key = k
           h == [k \in K |-> Named(k)]
           t == TotalsOf(R)
<1>1. \A k \in K : Named(k) \in R /\ Named(k).key = k
    BY DEF IsGrouping
<1>2. \A b \in R : b.key \in K /\ Named(b.key) = b
    <2>1. \A b \in R : b.key \in K
        BY DEF IsGrouping
    <2> HIDE DEF Named, K
    <2> QED BY <1>1, <2>1 DEF IsGrouping
<1>3. IsFiniteSet(K)
    <2>1. DOMAIN k2 = S /\ K = {k2[x] : x \in DOMAIN k2} /\ IsFiniteSet(S)
        BY DEF Weighs
    <2> HIDE DEF k2, K
    <2> QED BY <2>1, FiniteValues
<1>4. k2 \in [S -> K]
    OBVIOUS
<1> HIDE DEF Named, K
<1>5. h \in Bijection(K, R)
    BY <1>1, <1>2 DEF Bijection, Injection, Surjection, IsInjective
<1>6. \A k \in K : t[h[k]] = Weight(w, {x \in S : k2[x] = k})
    <2> SUFFICES ASSUME NEW k \in K PROVE t[h[k]] = Weight(w, {x \in S : k2[x] = k})
        OBVIOUS
    <2>1. h[k] \in R /\ h[k].key = k
        BY <1>1
    <2>2. t[h[k]] = Weight(w, {x \in S : key[x] = k})
        BY <2>1 DEF TotalsOf, IsGrouping
    <2>3. {x \in S : key[x] = k} = {x \in S : k2[x] = k}
        OBVIOUS
    <2> QED BY <2>2, <2>3
<1>7. \A b \in R : t[b] = b.total
    BY DEF TotalsOf
<1> HIDE DEF k2, h, t
<1>8. Weighs(t, R) /\ Weight(t, R) = Weight(w, S)
    BY <1>3, <1>4, <1>5, <1>6, WeightOfGroups
<1>9. TotalOf(R) = Weight(t, R)
    BY <1>7, <1>8, TotalOfIs
<1> QED BY <1>8, <1>9 DEF t

Having(S, key, axis, l) == {x \in S : key[x][axis] = l}

\* The groups of one value on an axis group what has that value.
LEMMA GroupsOnAxis ==
    ASSUME NEW S, NEW w, NEW key, NEW R, IsGrouping(R, S, w, key), NEW axis, NEW l
    PROVE  IsGrouping({b \in R : b.key[axis] = l}, Having(S, key, axis, l), w, key)
<1> DEFINE T == Having(S, key, axis, l)
           Q == {b \in R : b.key[axis] = l}
<1>1. ASSUME NEW b \in Q
      PROVE  {x \in T : key[x] = b.key} = {x \in S : key[x] = b.key}
    BY DEF Having
<1>2. /\ \A b \in Q : \E x \in T : key[x] = b.key
      /\ \A x \in T : \E b \in Q : b.key = key[x]
      /\ \A b, d \in Q : b.key = d.key => b = d
    BY DEF IsGrouping, Having
<1>3. \A b \in Q : b.total = Weight(w, {x \in T : key[x] = b.key})
    BY <1>1 DEF IsGrouping
<1> HIDE DEF T, Q
<1>4. IsGrouping(Q, T, w, key)
    BY <1>2, <1>3 DEF IsGrouping
<1> QED BY <1>4 DEF T, Q

AmountsOf(S) == [o \in S |-> o.amount]
BucketsFor(S, period, request) == [o \in S |-> BucketOf(period, request, o)]
BucketsOfClaims(counted, claims) == [c \in claims |-> BucketOfClaim(counted, c)]

LEMMA EvidenceIsGrouped ==
    ASSUME NEW C, Measured(C), NEW asOf, NEW period, NEW request
    PROVE  IsGrouping(KnownOf(EvidenceBuckets(C, asOf, period, request)),
                      WantedReports(C, asOf, request),
                      AmountsOf(Contributions(C, asOf)),
                      BucketsFor(Contributions(C, asOf), period, request))
<1> DEFINE counted == WantedReports(C, asOf, request)
           w == AmountsOf(Contributions(C, asOf))
           key == BucketsFor(Contributions(C, asOf), period, request)
           In(k) == {o \in counted : BucketOf(period, request, o) = k}
           bucket(k) == [key |-> k, total |-> SumOf(In(k)), unknown |-> FALSE]
           K == {BucketOf(period, request, o) : o \in counted}
           R == KnownOf(EvidenceBuckets(C, asOf, period, request))
<1>1. EvidenceBuckets(C, asOf, period, request)
          = {bucket(k) : k \in K} \cup UnknownBuckets(C, asOf, request)
    BY Zenon DEF EvidenceBuckets
<1>2. \A b \in UnknownBuckets(C, asOf, request) : b.unknown
    BY DEF UnknownBuckets
<1>3. \A k : ~bucket(k).unknown
    OBVIOUS
<1>4. \A k : bucket(k).key = k /\ bucket(k).total = SumOf(In(k))
    OBVIOUS
<1>5. counted \in SUBSET Contributions(C, asOf)
    BY DEF WantedReports
<1>6. \A o \in counted : key[o] = BucketOf(period, request, o)
    BY <1>5 DEF BucketsFor
<1>7. \A k : SumOf(In(k)) = Weight(w, {o \in counted : key[o] = k})
    <2> SUFFICES ASSUME NEW k PROVE SumOf(In(k)) = Weight(w, {o \in counted : key[o] = k})
        OBVIOUS
    <2>1. In(k) = {o \in counted : key[o] = k} /\ In(k) \in SUBSET Contributions(C, asOf)
        BY <1>5, <1>6
    <2>2. SumOf(In(k)) = Weight(w, In(k))
        BY <2>1, SumOfCounted DEF AmountsOf
    <2> QED BY <2>1, <2>2
<1> HIDE DEF bucket
<1>8. R = {bucket(k) : k \in K}
    BY <1>1, <1>2, <1>3 DEF KnownOf
<1> HIDE DEF R, counted, w, key, In
<1>9. \A b \in R : b.key \in K /\ b = bucket(b.key)
    BY <1>4, <1>8
<1>10. \A o \in counted : key[o] \in K
    BY <1>6
<1>11. \A k \in K : \E o \in counted : key[o] = k
    BY <1>6
<1>12. \A k \in K : bucket(k) \in R /\ bucket(k).key = k
    BY <1>4, <1>8
<1> HIDE DEF K
<1>13. IsGrouping(R, counted, w, key)
    BY <1>4, <1>7, <1>9, <1>10, <1>11, <1>12 DEF IsGrouping
<1> QED BY <1>13 DEF R, counted, w, key

LEMMA ClaimsAreGrouped ==
    ASSUME NEW C, Measured(C), NEW asOf, NEW request,
           WantedClaims(C, asOf, request) \subseteq Claims(C, asOf)
    PROVE  /\ IsGrouping(ClaimBuckets(C, asOf, request), WantedClaims(C, asOf, request),
                         TotalsOf(Claims(C, asOf)),
                         BucketsOfClaims(Contributions(C, asOf), Claims(C, asOf)))
           /\ KnownOf(ClaimBuckets(C, asOf, request)) = ClaimBuckets(C, asOf, request)
<1> DEFINE wanted == WantedClaims(C, asOf, request)
           w == TotalsOf(Claims(C, asOf))
           key == BucketsOfClaims(Contributions(C, asOf), Claims(C, asOf))
           Bucket(c) == BucketOfClaim(Contributions(C, asOf), c)
           In(k) == {c \in wanted : Bucket(c) = k}
           bucket(k) == [key |-> k, total |-> TotalOf(In(k)), unknown |-> FALSE]
           K == {Bucket(c) : c \in wanted}
           R == ClaimBuckets(C, asOf, request)
<1>1. R = {bucket(k) : k \in K}
    BY Zenon DEF ClaimBuckets
<1>2. \A k : bucket(k).key = k /\ bucket(k).total = TotalOf(In(k)) /\ ~bucket(k).unknown
    OBVIOUS
<1>3. \A c \in wanted : key[c] = Bucket(c)
    BY DEF BucketsOfClaims
<1>4. \A k : TotalOf(In(k)) = Weight(w, {c \in wanted : key[c] = k})
    <2> SUFFICES ASSUME NEW k PROVE TotalOf(In(k)) = Weight(w, {c \in wanted : key[c] = k})
        OBVIOUS
    <2>1. In(k) = {c \in wanted : key[c] = k} /\ In(k) \in SUBSET Claims(C, asOf)
        BY <1>3
    <2>2. TotalOf(In(k)) = Weight(w, In(k))
        <3> HIDE DEF In
        <3> QED BY <2>1, ClaimsWeigh
    <2> QED BY <2>1, <2>2
<1> HIDE DEF bucket, Bucket
<1>5. KnownOf(R) = R
    BY <1>1, <1>2 DEF KnownOf
<1> HIDE DEF R, wanted, w, key, In
<1>6. IsGrouping(R, wanted, w, key)
    BY <1>1, <1>2, <1>3, <1>4 DEF IsGrouping
<1> QED BY <1>5, <1>6 DEF R, wanted, w, key

\* A claim is wanted when what is counted for it is.
LEMMA ClaimIsWanted ==
    ASSUME NEW C, NEW asOf, NEW S, NEW width, NEW c \in Claims(C, asOf),
           NEW o \in Contributions(C, asOf), ClaimKey(o) = c.key
    PROVE  c \in WantedClaims(C, asOf, BucketRequest(S, "category", width))
               <=> o \in WantedReports(C, asOf, BucketRequest(S, "category", width))
<1> DEFINE request == BucketRequest(S, "category", width)
<1>1. /\ request.scope = S /\ request.descendants = FALSE /\ request.category = {}
      /\ request.kind = {} /\ request.generation = {}
    BY DEF BucketRequest
<1>2. [request EXCEPT !.descendants = FALSE] = request
    <2>1. request = [x \in DOMAIN request |-> request[x]]
        BY DEF BucketRequest
    <2>2. "descendants" \in DOMAIN request /\ request.descendants = FALSE
        BY DEF BucketRequest
    <2> HIDE DEF request
    <2> QED BY <2>1, <2>2
<1>3. c.key.scope = ScopeOf(o)
    BY DEF ClaimKey
<1> HIDE DEF request
<1> QED BY <1>1, <1>2, <1>3 DEF WantedClaims, WantedReports, Rows, Wanted, Allowed, InBucketScope, request

\* The sources of reports have a provenance class.
Classified == \A s \in DOMAIN Topology.sources : Topology.sources[s].provenance \in ProvenanceClasses

\* A claim whose reports have one provenance class is put under it.
LEMMA FirstProvenance ==
    ASSUME NEW C, Identified(C), NEW asOf, Unmixed(C, asOf), Classified,
           NEW c \in Claims(C, asOf), NEW o \in Contributions(C, asOf), ClaimKey(o) = c.key
    PROVE  BucketOfClaim(Contributions(C, asOf), c).provenance = Provenance(o)
<1> DEFINE of == {x \in Contributions(C, asOf) : ClaimKey(x) = c.key}
           classes == {Provenance(x) : x \in of}
<1>1. BucketOfClaim(Contributions(C, asOf), c).provenance = Min(classes)
    BY DEF BucketOfClaim
<1>2. classes = {Provenance(o)}
    BY DEF Unmixed
<1>3. Provenance(o) \in Int
    <2>1. o.source \in DOMAIN Topology.sources
        BY ContributionsIn DEF Admitted, Admissible
    <2> QED BY <2>1 DEF Provenance, Classified, ProvenanceClasses
<1> HIDE DEF classes
<1>4. Min(classes) = Provenance(o)
    BY <1>2, <1>3 DEF Min
<1> QED BY <1>1, <1>4

\* Both kinds of buckets have one value on an axis along which claims are not divided.
LEMMA SameOnAxis ==
    ASSUME NEW C, Identified(C), NEW asOf, Classified, NEW period, NEW request,
           NEW axis \in KeptAxes(C, asOf), NEW c \in Claims(C, asOf), NEW o \in Contributions(C, asOf), ClaimKey(o) = c.key
    PROVE  BucketsFor(Contributions(C, asOf), period, request)[o][axis]
               = BucketsOfClaims(Contributions(C, asOf), Claims(C, asOf))[c][axis]
<1>1. /\ c.key.category = o.category /\ c.key.scope = ScopeOf(o)
      /\ c.key.generation = o.generation /\ c.key.target = o.target
    BY DEF ClaimKey
<1>2. BucketsFor(Contributions(C, asOf), period, request)[o] = BucketOf(period, request, o)
    BY DEF BucketsFor
<1>3. BucketsOfClaims(Contributions(C, asOf), Claims(C, asOf))[c]
          = BucketOfClaim(Contributions(C, asOf), c)
    BY DEF BucketsOfClaims
<1>4. /\ axis \in {"category", "scope", "generation", "target", "provenance"}
      /\ axis = "provenance" => Unmixed(C, asOf)
    BY DEF KeptAxes, Axes, NeedsEvidence
<1>5. /\ BucketOf(period, request, o).category = o.category
      /\ BucketOf(period, request, o).scope = ScopeOf(o)
      /\ BucketOf(period, request, o).generation = o.generation
      /\ BucketOf(period, request, o).target = BucketTarget(o.target)
      /\ BucketOf(period, request, o).provenance = Provenance(o)
    BY DEF BucketOf
<1>6. /\ BucketOfClaim(Contributions(C, asOf), c).category = c.key.category
      /\ BucketOfClaim(Contributions(C, asOf), c).scope = c.key.scope
      /\ BucketOfClaim(Contributions(C, asOf), c).generation = c.key.generation
      /\ BucketOfClaim(Contributions(C, asOf), c).target = BucketTarget(c.key.target)
    BY DEF BucketOfClaim
<1>7. CASE axis = "category"
    BY <1>1, <1>2, <1>3, <1>5, <1>6, <1>7
<1>8. CASE axis = "scope"
    BY <1>1, <1>2, <1>3, <1>5, <1>6, <1>8
<1>9. CASE axis = "generation"
    BY <1>1, <1>2, <1>3, <1>5, <1>6, <1>9
<1>10. CASE axis = "target"
    BY <1>1, <1>2, <1>3, <1>5, <1>6, <1>10
<1>11. CASE axis = "provenance"
    <2>1. BucketOfClaim(Contributions(C, asOf), c).provenance = Provenance(o)
        BY <1>4, <1>11, FirstProvenance
    <2> QED BY <1>2, <1>3, <1>5, <1>11, <2>1
<1> QED BY <1>4, <1>7, <1>8, <1>9, <1>10, <1>11

\* Wanted reports, and the wanted claims they make up, weigh the same.
LEMMA ReportsAndClaims ==
    ASSUME NEW C, Measured(C), NEW asOf, NEW T \in SUBSET Contributions(C, asOf),
           NEW K \in SUBSET Claims(C, asOf),
           \A o \in Contributions(C, asOf) : \A c \in Claims(C, asOf) :
               ClaimKey(o) = c.key => (o \in T <=> c \in K)
    PROVE  Weight(AmountsOf(Contributions(C, asOf)), T) = Weight(TotalsOf(Claims(C, asOf)), K)
<1> DEFINE Q == {c.key : c \in K}
<1>1. ClaimsIn(C, asOf, Q) = K
    BY ClaimsAre DEF ClaimsIn
<1>2. CountedUnder(C, asOf, Q) = T
    <2>1. ASSUME NEW o \in Contributions(C, asOf) PROVE o \in T <=> ClaimKey(o) \in Q
        <3>1. PICK c \in Claims(C, asOf) : c.key = ClaimKey(o)
            BY ClaimsAre
        <3>2. o \in T <=> c \in K
            BY <3>1
        <3> QED BY <3>1, <3>2, ClaimsAre
    <2> HIDE DEF Q
    <2> QED BY <2>1 DEF CountedUnder
<1> HIDE DEF Q
<1>3. TotalOf(K) = SumOf(T)
    BY <1>1, <1>2, ClaimsOf
<1>4. SumOf(T) = Weight(AmountsOf(Contributions(C, asOf)), T)
    BY SumOfCounted DEF AmountsOf
<1> QED BY <1>3, <1>4, ClaimsWeigh

\* What is not known adds nothing.
LEMMA UnknownAddsNothing ==
    ASSUME NEW C, Measured(C), NEW asOf, NEW period, NEW request
    PROVE  TotalOf(EvidenceBuckets(C, asOf, period, request))
               = TotalOf(KnownOf(EvidenceBuckets(C, asOf, period, request)))
<1> DEFINE B == EvidenceBuckets(C, asOf, period, request)
           U == UnknownBuckets(C, asOf, request)
           X == {x \in UnknownDomains(C, asOf) :
                    /\ \A k \in request.kind : x.kind = k
                    /\ \A g \in request.generation : x.generation = g
                    /\ InBucketScope(request, x.scope)}
           empty(d) == [key |-> [category |-> "unknown", scope |-> d.scope,
                                 generation |-> d.generation, source |-> 0,
                                 target |-> NoTarget, kind |-> d.kind,
                                 provenance |-> RealClass, time |-> 0],
                        total |-> 0, unknown |-> TRUE]
           f == [d \in X |-> empty(d)]
           w == TotalsOf(B)
<1>1. U = {empty(d) : d \in X}
    BY Zenon DEF UnknownBuckets
<1>2. \A d : empty(d).unknown /\ empty(d).total = 0
    OBVIOUS
<1> HIDE DEF empty
<1>3. IsFiniteSet(X)
    <2> DEFINE A == {Domain(o) : o \in Contributions(C, asOf) \cup Totals(C, asOf)}
    <2>1. IsFiniteSet(UnknownDomains(C, asOf))
        <3>1. IsFiniteSet(A \cup UnknownDomains(C, asOf))
            BY DomainsAreFinite
        <3> HIDE DEF A
        <3> QED BY <3>1, FS_Subset
    <2> QED BY <2>1, FS_Subset
<1> HIDE DEF X
<1>4. IsFiniteSet(U)
    <2>1. DOMAIN f = X /\ U = {f[d] : d \in DOMAIN f}
        BY <1>1
    <2> HIDE DEF f, U
    <2> QED BY <1>3, <2>1, FiniteValues
<1>5. B = KnownOf(B) \cup U /\ KnownOf(B) \cap U = {}
    <2>1. \A b \in U : b.unknown
        BY <1>1, <1>2
    <2>2. \A b \in B : b \in U \/ ~b.unknown
        <3> DEFINE In(k) == {o \in WantedReports(C, asOf, request) : BucketOf(period, request, o) = k}
                   bucket(k) == [key |-> k, total |-> SumOf(In(k)), unknown |-> FALSE]
        <3>1. B = {bucket(k) : k \in {BucketOf(period, request, o) :
                                          o \in WantedReports(C, asOf, request)}} \cup U
            BY Zenon DEF EvidenceBuckets
        <3>2. \A k : ~bucket(k).unknown
            OBVIOUS
        <3> HIDE DEF bucket, B, U
        <3> QED BY <3>1, <3>2
    <2>3. U \subseteq B
        BY Zenon DEF EvidenceBuckets
    <2> HIDE DEF B, U
    <2> QED BY <2>1, <2>2, <2>3 DEF KnownOf
<1>6. Weighs(TotalsOf(KnownOf(B)), KnownOf(B))
    <2>1. Weighs(AmountsOf(Contributions(C, asOf)), WantedReports(C, asOf, request))
        BY SumOfCounted DEF WantedReports, AmountsOf
    <2> HIDE DEF B
    <2> QED BY <2>1, EvidenceIsGrouped, GroupsWeigh DEF B
<1>7. \A b \in KnownOf(B) : w[b] = b.total /\ w[b] = TotalsOf(KnownOf(B))[b]
    BY <1>5 DEF TotalsOf
<1>8. \A b \in U : w[b] = 0
    <2>1. \A b \in U : w[b] = b.total
        BY <1>5 DEF TotalsOf
    <2> QED BY <1>1, <1>2, <2>1
<1>9. \A b \in B : w[b] = b.total
    BY DEF TotalsOf
<1> HIDE DEF w, U, B
<1>10. Weighs(w, KnownOf(B)) /\ Weighs(w, U)
    BY <1>4, <1>6, <1>7, <1>8 DEF Weighs
<1>11. Weight(w, U) = 0
    <2>1. Units(w, U) = {}
        BY <1>8 DEF Units
    <2> QED BY <2>1, FS_EmptySet DEF Weight
<1>12. Weighs(w, B) /\ Weight(w, B) = Weight(w, KnownOf(B)) + 0
    BY <1>5, <1>10, <1>11, WeightOfBoth
<1>13. Weight(w, KnownOf(B)) \in Nat
    BY <1>10, WeightIs
<1>14. TotalOf(B) = Weight(w, B) /\ TotalOf(KnownOf(B)) = Weight(w, KnownOf(B))
    BY <1>7, <1>9, <1>10, <1>12, TotalOfIs
<1> QED BY <1>12, <1>13, <1>14 DEF B

\* Evidence of which the same is usable gives the same buckets.
LEMMA SameBuckets ==
    ASSUME NEW C, NEW closed, NEW now, \A o \in C : Usable(o, closed) <=> Usable(o, now),
           NEW period, NEW request
    PROVE  EvidenceBuckets(C, now, period, request) = EvidenceBuckets(C, closed, period, request)
<1>1. Admitted(C, now) = Admitted(C, closed)
    BY DEF Admitted, Admissible
<1>2. Contributors(C, now) = Contributors(C, closed)
    BY <1>1 DEF Contributors
<1>3. CellGroups(C, now) = CellGroups(C, closed)
    BY <1>2, Zenon DEF CellGroups
<1>4. Contributions(C, now) = Contributions(C, closed)
    BY <1>3 DEF Contributions
<1>5. TotalGroups(C, now) = TotalGroups(C, closed)
    BY <1>1, Zenon DEF TotalGroups
<1>6. Rejections(C, now) = Rejections(C, closed)
    BY <1>1, <1>3, Zenon DEF Rejections
<1>7. UnknownDomains(C, now) = UnknownDomains(C, closed)
    BY <1>5, <1>6, Zenon DEF UnknownDomains
<1>8. UnknownBuckets(C, now, request) = UnknownBuckets(C, closed, request)
    BY <1>7, Zenon DEF UnknownBuckets
<1>9. WantedReports(C, now, request) = WantedReports(C, closed, request)
    BY <1>4, Zenon DEF WantedReports
<1> QED BY <1>8, <1>9, Zenon DEF EvidenceBuckets

\* Folding a period loses no total along an axis along which no claim is divided.
THEOREM FoldingKeepsTotals ==
    ASSUME NEW C, IsFiniteSet(C), Identified(C), \A o \in C : o.amount \in Nat, Classified,
           NEW asOf, NEW now, NEW period, NEW width
    PROVE  AxesAgree(C, asOf, now, period, width)
<1> SUFFICES ASSUME \A o \in C : Usable(o, asOf) <=> Usable(o, now), NEW S
    PROVE  LET retained == EvidenceBuckets(C, now, period, BucketRequest(S, "category", width))
               intime   == EvidenceBuckets(C, now, period, BucketRequest(S, "time", width))
               folded   == ClaimBuckets(C, asOf, BucketRequest(S, "category", width))
           IN  /\ \A axis \in KeptAxes(C, asOf) : Along(retained, axis) = Along(folded, axis)
               /\ TotalOf(intime) = TotalOf(folded)
    BY Zenon DEF AxesAgree
<1> DEFINE request == BucketRequest(S, "category", width)
           timed == BucketRequest(S, "time", width)
           retained == EvidenceBuckets(C, asOf, period, request)
           intime == EvidenceBuckets(C, asOf, period, timed)
           folded == ClaimBuckets(C, asOf, request)
           T == WantedReports(C, asOf, request)
           K == WantedClaims(C, asOf, request)
           w == AmountsOf(Contributions(C, asOf))
           v == TotalsOf(Claims(C, asOf))
           ek == BucketsFor(Contributions(C, asOf), period, request)
           ck == BucketsOfClaims(Contributions(C, asOf), Claims(C, asOf))
<1>1. Measured(C)
    BY DEF Measured
<1>2. T \subseteq Contributions(C, asOf) /\ K \subseteq Claims(C, asOf)
    BY DEF WantedReports, WantedClaims, Rows
<1>3. \A o \in Contributions(C, asOf) : \A c \in Claims(C, asOf) :
          ClaimKey(o) = c.key => (o \in T <=> c \in K)
    BY ClaimIsWanted
<1>4. IsGrouping(KnownOf(retained), T, w, ek)
    BY <1>1, EvidenceIsGrouped
<1>5. IsGrouping(folded, K, v, ck) /\ KnownOf(folded) = folded
    BY <1>1, <1>2, ClaimsAreGrouped
<1>6. /\ \A R \in SUBSET T : Weighs(w, R)
      /\ \A R \in SUBSET K : Weighs(v, R)
    BY <1>1, <1>2, SumOfCounted, ClaimsWeigh DEF AmountsOf
<1>7. ASSUME NEW axis \in KeptAxes(C, asOf) PROVE Along(retained, axis) = Along(folded, axis)
    <2>1. \A o \in Contributions(C, asOf) : \A c \in Claims(C, asOf) :
              ClaimKey(o) = c.key => ek[o][axis] = ck[c][axis]
        BY <1>7, SameOnAxis
    <2> HIDE DEF ek, ck, w, v, T, K, retained, folded
    <2>2. ASSUME NEW l PROVE TotalOf(OnAxis(retained, axis, l)) = TotalOf(OnAxis(folded, axis, l))
        <3>1. IsGrouping({b \in KnownOf(retained) : b.key[axis] = l}, Having(T, ek, axis, l), w, ek)
            BY <1>4, GroupsOnAxis
        <3>2. TotalOf(OnAxis(retained, axis, l)) = Weight(w, Having(T, ek, axis, l))
            <4>1. Weighs(w, Having(T, ek, axis, l))
                BY <1>6 DEF Having
            <4> QED BY <3>1, <4>1, GroupsWeigh DEF OnAxis
        <3>3. IsGrouping({b \in folded : b.key[axis] = l}, Having(K, ck, axis, l), v, ck)
            BY <1>5, GroupsOnAxis
        <3>4. TotalOf(OnAxis(folded, axis, l)) = Weight(v, Having(K, ck, axis, l))
            <4>1. Weighs(v, Having(K, ck, axis, l))
                BY <1>6 DEF Having
            <4> QED BY <1>5, <3>3, <4>1, GroupsWeigh DEF OnAxis
        <3>5. Weight(w, Having(T, ek, axis, l)) = Weight(v, Having(K, ck, axis, l))
            <4>1. \A o \in Contributions(C, asOf) : \A c \in Claims(C, asOf) :
                      ClaimKey(o) = c.key
                          => (o \in Having(T, ek, axis, l) <=> c \in Having(K, ck, axis, l))
                BY <1>3, <2>1 DEF Having
            <4>2. /\ Having(T, ek, axis, l) \in SUBSET Contributions(C, asOf)
                  /\ Having(K, ck, axis, l) \in SUBSET Claims(C, asOf)
                BY <1>2 DEF Having
            <4> QED BY <1>1, <4>1, <4>2, ReportsAndClaims DEF w, v
        <3> QED BY <3>2, <3>4, <3>5
    <2>3. {b.key[axis] : b \in KnownOf(retained)} = {b.key[axis] : b \in KnownOf(folded)}
        <3>1. ASSUME NEW b \in KnownOf(retained)
              PROVE  \E d \in KnownOf(folded) : d.key[axis] = b.key[axis]
            <4>1. PICK o \in T : ek[o] = b.key
                BY <1>4 DEF IsGrouping
            <4>2. PICK c \in Claims(C, asOf) : c.key = ClaimKey(o)
                BY <1>2, ClaimsAre
            <4>3. c \in K /\ ck[c][axis] = ek[o][axis]
                BY <1>2, <1>3, <2>1, <4>2
            <4>4. PICK d \in folded : d.key = ck[c]
                BY <1>5, <4>3 DEF IsGrouping
            <4> QED BY <1>5, <4>1, <4>3, <4>4
        <3>2. ASSUME NEW d \in KnownOf(folded)
              PROVE  \E b \in KnownOf(retained) : b.key[axis] = d.key[axis]
            <4>1. PICK c \in K : ck[c] = d.key
                BY <1>5 DEF IsGrouping
            <4>2. PICK o \in Contributions(C, asOf) : ClaimKey(o) = c.key
                BY <1>2, ClaimsAre
            <4>3. o \in T /\ ck[c][axis] = ek[o][axis]
                BY <1>2, <1>3, <2>1, <4>2
            <4>4. PICK b \in KnownOf(retained) : b.key = ek[o]
                BY <1>4, <4>3 DEF IsGrouping
            <4> QED BY <4>1, <4>3, <4>4
        <3> QED BY <3>1, <3>2
    <2> QED BY <2>2, <2>3 DEF Along
<1>8. TotalOf(intime) = TotalOf(folded)
    <2>1. WantedReports(C, asOf, timed) = T
        BY DEF WantedReports, BucketRequest, Wanted, InBucketScope
    <2>2. IsGrouping(KnownOf(intime), T, w, BucketsFor(Contributions(C, asOf), period, timed))
        BY <1>1, <2>1, EvidenceIsGrouped
    <2>3. TotalOf(intime) = TotalOf(KnownOf(intime))
        BY <1>1, UnknownAddsNothing
    <2> HIDE DEF ck, w, v, T, K, folded, intime
    <2>4. TotalOf(KnownOf(intime)) = Weight(w, T)
        BY <1>6, <2>2, GroupsWeigh
    <2>5. TotalOf(folded) = Weight(v, K)
        BY <1>5, <1>6, GroupsWeigh
    <2>6. Weight(w, T) = Weight(v, K)
        BY <1>1, <1>2, <1>3, ReportsAndClaims DEF w, v
    <2> QED BY <2>3, <2>4, <2>5, <2>6
<1>9. /\ retained = EvidenceBuckets(C, now, period, request)
      /\ intime = EvidenceBuckets(C, now, period, timed)
    BY SameBuckets
<1> HIDE DEF retained, intime, folded
<1>10. /\ \A axis \in KeptAxes(C, asOf) : Along(retained, axis) = Along(folded, axis)
       /\ TotalOf(intime) = TotalOf(folded)
    BY <1>7, <1>8
<1> QED BY <1>9, <1>10 DEF folded

-------------------------------------------------------------------------------
(* A measurement that is delivered once more *)

\* What the deliveries of one measurement have in common.
Alike(a, b) ==
    /\ a.origin = b.origin /\ a.source = b.source /\ a.incarnation = b.incarnation
    /\ a.epoch = b.epoch /\ a.seq = b.seq /\ a.generation = b.generation /\ a.kind = b.kind
    /\ a.category = b.category /\ a.target = b.target /\ a.role = b.role
    /\ a.amount = b.amount /\ a.start = b.start /\ a.end = b.end

\* A digest of the content says as much.
LEMMA ContentFields ==
    ASSUME NEW a, NEW b, IsReport(a), IsReport(b), Content(a) = Content(b)
    PROVE  Alike(a, b)
<1>1. a = [f \in Fields |-> a[f]] /\ b = [f \in Fields |-> b[f]]
    BY DEF IsReport
<1>2. DOMAIN a = Fields /\ DOMAIN b = Fields
    BY <1>1
<1>3. ASSUME NEW f \in Fields \ {"id", "copy", "received"} PROVE a[f] = b[f]
    <2>1. Content(a)[f] = a[f] /\ Content(b)[f] = b[f]
        BY <1>2 DEF Content
    <2> QED BY <2>1
<1>4. {"origin", "source", "incarnation", "epoch", "seq", "generation", "kind", "category",
       "target", "role", "amount", "start", "end"} \subseteq Fields \ {"id", "copy", "received"}
    BY DEF Fields
<1> QED BY <1>3, <1>4 DEF Alike

\* The groups an observation is in, and whether it is left out.
SameOrigin(S, w)   == {x \in S : x.origin = w.origin}
SameSequence(S, w) == {x \in S : x.source = w.source /\ x.incarnation = w.incarnation
                                 /\ x.seq = w.seq}
Out(S, w) == \/ Collides(S, w)
             \/ w \in ExcludedOf(SameOrigin(S, w)) \/ w \in ExcludedOf(SameSequence(S, w))

\* Exclusion by identity is exclusion of the observation.
LEMMA ExclusionIs ==
    ASSUME NEW S, NEW w \in S
    PROVE  w.id \in ExcludedIds(S) <=> Out(S, w)
<1> DEFINE groups == OriginGroups(S) \cup SequenceGroups(S)
<1>1. ASSUME NEW G \in groups, w \in G PROVE G = SameOrigin(S, w) \/ G = SameSequence(S, w)
    <2>1. CASE G \in OriginGroups(S)
        BY <1>1, <2>1 DEF OriginGroups, SameOrigin
    <2>2. CASE G \in SequenceGroups(S)
        BY <1>1, <2>2 DEF SequenceGroups, SameSequence
    <2> QED BY <2>1, <2>2
<1>2. SameOrigin(S, w) \in groups /\ SameSequence(S, w) \in groups
    BY DEF OriginGroups, SequenceGroups, SameOrigin, SameSequence
<1>3. \A G : ExcludedOf(G) \subseteq G
    BY DEF ExcludedOf
<1>4. \A G \in groups : G \subseteq S
    BY DEF OriginGroups, SequenceGroups
<1> HIDE DEF groups
<1>5. w.id \in ExcludedIds(S) <=>
          \E r \in S : r.id = w.id /\ (Collides(S, r) \/ \E G \in groups : r \in ExcludedOf(G))
    BY <1>3, <1>4 DEF ExcludedIds, groups
<1>6. ASSUME NEW r \in S, r.id = w.id, r # w PROVE Collides(S, w)
    BY <1>6 DEF Collides
<1>7. (\E G \in groups : w \in ExcludedOf(G))
          <=> w \in ExcludedOf(SameOrigin(S, w)) \/ w \in ExcludedOf(SameSequence(S, w))
    BY <1>1, <1>2, <1>3
<1> QED BY <1>5, <1>6, <1>7 DEF Out

LEMMA AdmittedIs ==
    ASSUME NEW S, NEW asOf, NEW w
    PROVE  w \in Admitted(S, asOf) <=>
               /\ w \in S /\ ~Out(S, w) /\ (Declared(w) => ~EpochFenced(S, w))
               /\ Admissible(w, asOf)
BY ExclusionIs DEF Admitted

\* Who is not left out has groups of one content.
LEMMA NotOut ==
    ASSUME NEW S, NEW w \in S
    PROVE  Out(S, w) <=> \/ Collides(S, w)
                         \/ Divergent(SameOrigin(S, w)) \/ w # LowestId(SameOrigin(S, w))
                         \/ Divergent(SameSequence(S, w)) \/ w # LowestId(SameSequence(S, w))
<1>1. w \in SameOrigin(S, w) /\ w \in SameSequence(S, w)
    BY DEF SameOrigin, SameSequence
<1> QED BY <1>1 DEF Out, ExcludedOf

\* Reports of evidence.
Reports(S) == \A x \in S : IsReport(x)

\* Of a measurement whose groups have one content, one delivery is left, unless others share
\* its identity.
LEMMA OneStays ==
    ASSUME NEW S, Reports(S), NEW a \in S,
           ~Divergent(SameOrigin(S, a)), ~Divergent(SameSequence(S, a)),
           \A x \in S : Content(x) = Content(a) => ~Collides(S, x)
    PROVE  \E b \in S : Content(b) = Content(a) /\ ~Out(S, b)
<1> DEFINE G == {x \in S : Content(x) = Content(a)}
           b == LowestId(G)
<1>1. \A x \in G : Alike(x, a)
    BY ContentFields DEF Reports
<1>2. a \in SameOrigin(S, a) /\ a \in SameSequence(S, a)
    BY DEF SameOrigin, SameSequence
<1>3. SameOrigin(S, a) = G /\ SameSequence(S, a) = G
    <2>1. G \subseteq SameOrigin(S, a) /\ G \subseteq SameSequence(S, a)
        BY <1>1 DEF SameOrigin, SameSequence, Alike
    <2>2. SameOrigin(S, a) \subseteq G /\ SameSequence(S, a) \subseteq G
        BY <1>2 DEF Divergent, SameOrigin, SameSequence
    <2> QED BY <2>1, <2>2
<1>4. b \in G
    <2>1. G # {} /\ Identified(G)
        BY DEF Identified, Reports, IsReport
    <2> HIDE DEF G
    <2> QED BY <2>1, LowestIdIn
<1>5. SameOrigin(S, b) = G /\ SameSequence(S, b) = G
    <2>1. Alike(b, a)
        BY <1>1, <1>4
    <2>2. SameOrigin(S, b) = SameOrigin(S, a) /\ SameSequence(S, b) = SameSequence(S, a)
        BY <2>1 DEF SameOrigin, SameSequence, Alike
    <2> QED BY <1>3, <2>2
<1>6. ~Collides(S, b) /\ b \in S /\ Content(b) = Content(a)
    BY <1>4
<1>7. ~Divergent(G)
    BY <1>3
<1> HIDE DEF G
<1>8. ~Out(S, b)
    BY <1>5, <1>6, <1>7, NotOut DEF b
<1> QED BY <1>6, <1>8

\* For every one of A there is one of B that counts the same.
Mirrored(A, B) == \A a \in A : \E b \in B : Alike(a, b)

\* A delivery o of a measurement of S, with an identity of its own, none of which shares its
\* identity with another record, and of which all are admissible or none.
Redelivers(S, o, asOf) ==
    /\ Reports(S) /\ IsReport(o)
    /\ \A x \in S : x.id # o.id
    /\ \E x \in S : Content(x) = Content(o)
    /\ \A x \in S : Content(x) = Content(o)
           => (Admissible(x, asOf) <=> Admissible(o, asOf)) /\ ~Collides(S, x)

\* It divides no group that had one content, and none is one without it.
LEMMA GroupsWithIt ==
    ASSUME NEW S, NEW o, NEW asOf, Redelivers(S, o, asOf), NEW w \in S \cup {o}
    PROVE  /\ Content(w) = Content(o) =>
                 /\ Divergent(SameOrigin(S \cup {o}, w)) <=> Divergent(SameOrigin(S, w))
                 /\ Divergent(SameSequence(S \cup {o}, w)) <=> Divergent(SameSequence(S, w))
           /\ Content(w) # Content(o) => (Out(S \cup {o}, w) <=> Out(S, w))
           /\ w \in S => (Collides(S \cup {o}, w) <=> Collides(S, w))
           /\ ~Collides(S \cup {o}, o)
           /\ EpochFenced(S \cup {o}, w) <=> EpochFenced(S, w)
<1> DEFINE T == S \cup {o}
<1>1. PICK x \in S : Content(x) = Content(o) /\ Alike(x, o)
    BY ContentFields DEF Redelivers, Reports
<1>2. (w \in S => (Collides(T, w) <=> Collides(S, w))) /\ ~Collides(T, o)
    BY DEF Collides, Redelivers
<1>3. EpochFenced(T, w) <=> EpochFenced(S, w)
    BY <1>1 DEF EpochFenced, Alike
<1>4. ASSUME NEW G, NEW H, H = G \/ (H = G \cup {o} /\ x \in G)
      PROVE  Divergent(H) <=> Divergent(G)
    BY <1>1, <1>4 DEF Divergent
<1>5. /\ SameOrigin(T, w) = SameOrigin(S, w)
             \/ (SameOrigin(T, w) = SameOrigin(S, w) \cup {o} /\ x \in SameOrigin(S, w))
      /\ SameSequence(T, w) = SameSequence(S, w)
             \/ (SameSequence(T, w) = SameSequence(S, w) \cup {o} /\ x \in SameSequence(S, w))
    <2>1. w.origin = o.origin => SameOrigin(T, w) = SameOrigin(S, w) \cup {o}
                                 /\ x \in SameOrigin(S, w)
        BY <1>1 DEF SameOrigin, Alike
    <2>2. w.origin # o.origin => SameOrigin(T, w) = SameOrigin(S, w)
        BY DEF SameOrigin
    <2>3. (w.source = o.source /\ w.incarnation = o.incarnation /\ w.seq = o.seq)
              => SameSequence(T, w) = SameSequence(S, w) \cup {o} /\ x \in SameSequence(S, w)
        BY <1>1 DEF SameSequence, Alike
    <2>4. ~(w.source = o.source /\ w.incarnation = o.incarnation /\ w.seq = o.seq)
              => SameSequence(T, w) = SameSequence(S, w)
        BY DEF SameSequence
    <2> QED BY <2>1, <2>2, <2>3, <2>4
<1>6. (Divergent(SameOrigin(T, w)) <=> Divergent(SameOrigin(S, w)))
      /\ (Divergent(SameSequence(T, w)) <=> Divergent(SameSequence(S, w)))
    BY <1>4, <1>5
<1>7. ASSUME Content(w) # Content(o) PROVE Out(T, w) <=> Out(S, w)
    <2>1. w \in S /\ w \in SameOrigin(S, w) /\ w \in SameSequence(S, w)
        BY <1>7 DEF SameOrigin, SameSequence
    <2>2. x \in SameOrigin(S, w) => Divergent(SameOrigin(S, w))
        BY <1>1, <1>7, <2>1 DEF Divergent
    <2>3. x \in SameSequence(S, w) => Divergent(SameSequence(S, w))
        BY <1>1, <1>7, <2>1 DEF Divergent
    <2>4. w \in T
        BY <2>1
    <2> HIDE DEF T
    <2>5. Out(S, w) <=> \/ Collides(S, w)
                        \/ Divergent(SameOrigin(S, w)) \/ w # LowestId(SameOrigin(S, w))
                        \/ Divergent(SameSequence(S, w)) \/ w # LowestId(SameSequence(S, w))
        BY <2>1, NotOut
    <2>6. Out(T, w) <=> \/ Collides(T, w)
                        \/ Divergent(SameOrigin(T, w)) \/ w # LowestId(SameOrigin(T, w))
                        \/ Divergent(SameSequence(T, w)) \/ w # LowestId(SameSequence(T, w))
        BY <2>4, NotOut
    <2>7. Collides(T, w) <=> Collides(S, w)
        BY <1>2, <2>1
    <2>8. SameOrigin(T, w) = SameOrigin(S, w) \/ Divergent(SameOrigin(S, w))
        BY <1>5, <2>2
    <2>9. SameSequence(T, w) = SameSequence(S, w) \/ Divergent(SameSequence(S, w))
        BY <1>5, <2>3
    <2> QED BY <1>6, <2>5, <2>6, <2>7, <2>8, <2>9
<1> QED BY <1>2, <1>3, <1>6, <1>7

\* With it, what is admitted is what was, or has it for another delivery of the same.
LEMMA RedeliveryAdmits ==
    ASSUME NEW S, NEW o, NEW asOf, Redelivers(S, o, asOf)
    PROVE  /\ Mirrored(Admitted(S, asOf), Admitted(S \cup {o}, asOf))
           /\ Mirrored(Admitted(S \cup {o}, asOf), Admitted(S, asOf))
<1> DEFINE T == S \cup {o}
<1>1. PICK x \in S : Content(x) = Content(o)
    BY DEF Redelivers
<1>2. Reports(S) /\ Reports(T)
    BY DEF Redelivers, Reports
<1>3. \A y \in T : Content(y) = Content(o) => ~Collides(T, y) /\ (y \in S => ~Collides(S, y))
                                             /\ (Admissible(y, asOf) <=> Admissible(o, asOf))
    <2> SUFFICES ASSUME NEW y \in T, Content(y) = Content(o)
                 PROVE  ~Collides(T, y) /\ (y \in S => ~Collides(S, y))
                        /\ (Admissible(y, asOf) <=> Admissible(o, asOf))
        OBVIOUS
    <2>1. CASE y \in S
        <3>1. ~Collides(S, y) /\ (Admissible(y, asOf) <=> Admissible(o, asOf))
            BY <2>1 DEF Redelivers
        <3>2. Collides(T, y) <=> Collides(S, y)
            BY <2>1, GroupsWithIt
        <3> QED BY <3>1, <3>2
    <2>2. CASE y = o /\ y \notin S
        <3>1. ~Collides(T, o)
            BY GroupsWithIt
        <3> QED BY <2>2, <3>1
    <2> QED BY <2>1, <2>2
<1>4. \A y, z \in T : Content(y) = Content(z) => Alike(y, z)
    BY <1>2, ContentFields DEF Reports
<1>5. \A w \in T : Alike(w, w)
    BY DEF Alike
<1>6. ASSUME NEW y \in T, NEW z \in T, Alike(y, z)
      PROVE  /\ (EpochFenced(S, y) <=> EpochFenced(S, z)) /\ (Declared(y) <=> Declared(z))
             /\ SameOrigin(S, y) = SameOrigin(S, z) /\ SameSequence(S, y) = SameSequence(S, z)
    BY <1>6 DEF EpochFenced, Alike, Declared, SameOrigin, SameSequence
<1>7. ASSUME NEW a \in Admitted(S, asOf) PROVE \E b \in Admitted(T, asOf) : Alike(a, b)
    <2>1. /\ a \in S /\ a \in T /\ ~Out(S, a) /\ (Declared(a) => ~EpochFenced(S, a))
          /\ Admissible(a, asOf)
        BY AdmittedIs
    <2>2. CASE Content(a) # Content(o)
        <3>1. ~Out(T, a) /\ (Declared(a) => ~EpochFenced(T, a))
            BY <2>1, <2>2, GroupsWithIt
        <3>2. a \in Admitted(T, asOf)
            BY <2>1, <3>1, AdmittedIs
        <3> QED BY <1>5, <2>1, <3>2
    <2>3. CASE Content(a) = Content(o)
        <3>1. ~Divergent(SameOrigin(S, a)) /\ ~Divergent(SameSequence(S, a))
            BY <2>1, NotOut
        <3>2. ~Divergent(SameOrigin(T, a)) /\ ~Divergent(SameSequence(T, a))
            BY <2>1, <2>3, <3>1, GroupsWithIt
        <3>3. \A y \in T : Content(y) = Content(a) => ~Collides(T, y)
            BY <1>3, <2>3
        <3>4. PICK b \in T : Content(b) = Content(a) /\ ~Out(T, b)
            <4> HIDE DEF T
            <4> QED BY <1>2, <2>1, <3>2, <3>3, OneStays
        <3>5. Alike(a, b) /\ Admissible(b, asOf)
            BY <1>3, <1>4, <2>1, <2>3, <3>4
        <3>6. Declared(b) => ~EpochFenced(T, b)
            BY <1>6, <2>1, <3>5, GroupsWithIt
        <3>7. b \in Admitted(T, asOf)
            BY <3>4, <3>5, <3>6, AdmittedIs
        <3> QED BY <3>5, <3>7
    <2> QED BY <2>2, <2>3
<1>8. ASSUME NEW a \in Admitted(T, asOf) PROVE \E b \in Admitted(S, asOf) : Alike(a, b)
    <2>1. /\ a \in T /\ ~Out(T, a) /\ (Declared(a) => ~EpochFenced(T, a)) /\ Admissible(a, asOf)
        BY AdmittedIs
    <2>2. CASE Content(a) # Content(o)
        <3>1. a \in S /\ ~Out(S, a) /\ (Declared(a) => ~EpochFenced(S, a))
            BY <2>1, <2>2, GroupsWithIt
        <3>2. a \in Admitted(S, asOf)
            BY <2>1, <3>1, AdmittedIs
        <3> QED BY <1>5, <2>1, <3>2
    <2>3. CASE Content(a) = Content(o)
        <3>1. ~Divergent(SameOrigin(T, a)) /\ ~Divergent(SameSequence(T, a))
            <4> HIDE DEF T
            <4> QED BY <2>1, NotOut
        <3>2. ~Divergent(SameOrigin(S, a)) /\ ~Divergent(SameSequence(S, a))
            BY <2>1, <2>3, <3>1, GroupsWithIt
        <3>3. Alike(x, a) /\ x \in T
            BY <1>1, <1>4, <2>1, <2>3
        <3>4. ~Divergent(SameOrigin(S, x)) /\ ~Divergent(SameSequence(S, x))
            BY <1>6, <2>1, <3>2, <3>3
        <3>5. \A y \in S : Content(y) = Content(x) => ~Collides(S, y)
            BY <1>1, <1>3
        <3>6. PICK b \in S : Content(b) = Content(x) /\ ~Out(S, b)
            BY <1>2, <3>4, <3>5, OneStays
        <3>7. b \in T /\ Alike(a, b) /\ Admissible(b, asOf)
            BY <1>1, <1>3, <1>4, <2>1, <2>3, <3>6
        <3>8. Declared(b) => ~EpochFenced(S, b)
            BY <1>6, <2>1, <3>7, GroupsWithIt
        <3>9. b \in Admitted(S, asOf)
            BY <3>6, <3>7, <3>8, AdmittedIs
        <3> QED BY <3>7, <3>9
    <2> QED BY <2>2, <2>3
<1> QED BY <1>7, <1>8 DEF Mirrored

\* A group settles on amounts that depend on who reported what only.
Echoed(G, H) == \A a \in G : \E b \in H : b.amount = a.amount /\ b.source = a.source

LEMMA EchoedTies ==
    ASSUME NEW G, NEW H, Echoed(G, H), Echoed(H, G)
    PROVE  TieMet(G) => TieMet(H)
<1> SUFFICES ASSUME TieMet(G) PROVE TieMet(H)
    OBVIOUS
<1>1. PICK a \in G, b \in G :
          /\ ScannedBefore(a, b) /\ a.source # b.source /\ Rank(a) = Rank(b)
          /\ \A x \in G : ScannedBefore(x, b) => Rank(x) <= Rank(b)
    BY DEF TieMet
<1>2. PICK c \in H : c.amount = a.amount /\ c.source = a.source
    BY DEF Echoed
<1>3. PICK d \in H : d.amount = b.amount /\ d.source = b.source
    BY DEF Echoed
<1>4. \A x, y : x.source = y.source => Rank(x) = Rank(y)
    BY DEF Rank
<1>5. ScannedBefore(c, d) /\ c.source # d.source /\ Rank(c) = Rank(d)
    <2>1. Rank(c) = Rank(a) /\ Rank(d) = Rank(b)
        BY <1>2, <1>3, <1>4
    <2> QED BY <1>1, <1>2, <1>3, <2>1 DEF ScannedBefore
<1>6. ASSUME NEW y \in H, ScannedBefore(y, d) PROVE Rank(y) <= Rank(d)
    <2>1. PICK x \in G : x.amount = y.amount /\ x.source = y.source
        BY DEF Echoed
    <2>2. ScannedBefore(x, b)
        BY <1>3, <1>6, <2>1 DEF ScannedBefore
    <2>3. Rank(x) = Rank(y) /\ Rank(d) = Rank(b)
        BY <1>3, <1>4, <2>1
    <2> QED BY <1>1, <2>2, <2>3
<1> QED BY <1>5, <1>6 DEF TieMet

LEMMA EchoedSettles ==
    ASSUME NEW G, NEW H, Echoed(G, H), Echoed(H, G)
    PROVE  SettledAmounts(G) = SettledAmounts(H)
<1>1. Amounts(G) = Amounts(H)
    BY DEF Amounts, Echoed
<1>2. TieMet(G) <=> TieMet(H)
    BY EchoedTies
<1>3. \A x, y : x.source = y.source => Rank(x) = Rank(y)
    BY DEF Rank
<1>4. HighestRanked(G) = HighestRanked(H)
    <2>1. ASSUME NEW s \in HighestRanked(G) PROVE s \in HighestRanked(H)
        <3>1. PICK x \in G : x.source = s /\ \A y \in G : Rank(y) <= Rank(x)
            BY <2>1 DEF HighestRanked
        <3>2. PICK z \in H : z.amount = x.amount /\ z.source = x.source
            BY DEF Echoed
        <3>3. ASSUME NEW w \in H PROVE Rank(w) <= Rank(z)
            <4>1. PICK y \in G : y.amount = w.amount /\ y.source = w.source
                BY DEF Echoed
            <4>2. Rank(y) = Rank(w) /\ Rank(z) = Rank(x)
                BY <1>3, <3>2, <4>1
            <4> QED BY <3>1, <4>2
        <3> QED BY <3>1, <3>2, <3>3 DEF HighestRanked
    <2>2. ASSUME NEW s \in HighestRanked(H) PROVE s \in HighestRanked(G)
        <3>1. PICK x \in H : x.source = s /\ \A y \in H : Rank(y) <= Rank(x)
            BY <2>2 DEF HighestRanked
        <3>2. PICK z \in G : z.amount = x.amount /\ z.source = x.source
            BY DEF Echoed
        <3>3. ASSUME NEW w \in G PROVE Rank(w) <= Rank(z)
            <4>1. PICK y \in H : y.amount = w.amount /\ y.source = w.source
                BY DEF Echoed
            <4>2. Rank(y) = Rank(w) /\ Rank(z) = Rank(x)
                BY <1>3, <3>2, <4>1
            <4> QED BY <3>1, <4>2
        <3> QED BY <3>1, <3>2, <3>3 DEF HighestRanked
    <2> QED BY <2>1, <2>2
<1>5. Preferred(G) = Preferred(H)
    BY <1>4 DEF Preferred
<1>6. {o.amount : o \in {x \in G : x.source = Preferred(G)}}
          = {o.amount : o \in {x \in H : x.source = Preferred(H)}}
    <2> DEFINE p == Preferred(G)
    <2> HIDE DEF p
    <2>1. {o.amount : o \in {x \in G : x.source = p}} = {o.amount : o \in {x \in H : x.source = p}}
        BY DEF Echoed
    <2> QED BY <1>5, <2>1 DEF p
<1>7. ResolvedAmounts(G) = ResolvedAmounts(H)
    BY <1>2, <1>6 DEF ResolvedAmounts
<1> QED BY <1>1, <1>7 DEF SettledAmounts, Agreed

\* Evidence that is mirrored counts the same amounts in the same cells.
LEMMA MirroredCounts ==
    ASSUME NEW S, NEW T, Reports(S), Reports(T), NEW asOf,
           Mirrored(Admitted(S, asOf), Admitted(T, asOf)),
           Mirrored(Admitted(T, asOf), Admitted(S, asOf))
    PROVE  \A y \in Contributions(S, asOf) : \E z \in Contributions(T, asOf) :
               SameCell(y, z) /\ y.amount = z.amount
<1> SUFFICES ASSUME NEW y \in Contributions(S, asOf)
             PROVE  \E z \in Contributions(T, asOf) : SameCell(y, z) /\ y.amount = z.amount
    OBVIOUS
<1>1. ASSUME NEW a, NEW b, Alike(a, b)
      PROVE  SameCell(a, b) /\ a.amount = b.amount /\ a.source = b.source
             /\ (Attributable(a) <=> Attributable(b)) /\ a.role = b.role
    BY <1>1 DEF Alike, SameCell, ClaimKey, ScopeOf, Attributable
<1>2. ASSUME NEW a \in Contributors(S, asOf) PROVE \E b \in Contributors(T, asOf) : Alike(a, b)
    BY <1>1 DEF Contributors, Mirrored
<1>3. ASSUME NEW a \in Contributors(T, asOf) PROVE \E b \in Contributors(S, asOf) : Alike(a, b)
    BY <1>1 DEF Contributors, Mirrored
<1>4. \A a, b, c : SameCell(a, b) => (SameCell(b, c) <=> SameCell(a, c)) /\ SameCell(b, a)
    BY DEF SameCell
<1>5. Identified(S) /\ Identified(T)
    BY DEF Identified, Reports, IsReport
<1>6. PICK G \in CellGroups(S, asOf) : y \in Counted(G)
    BY DEF Contributions
<1>7. G \subseteq Contributors(S, asOf)
    BY DEF CellGroups
<1>8. Identified(G) /\ y \in G /\ y.amount \in SettledAmounts(G)
    <2>1. Identified(G)
        BY <1>5, <1>7, ContributionsIn DEF Identified
    <2> QED BY <1>6, <2>1, CountedIn
<1>9. G = {x \in Contributors(S, asOf) : SameCell(x, y)}
    BY <1>8, OneCell
<1>10. PICK g \in Contributors(T, asOf) : Alike(y, g)
    BY <1>2, <1>7, <1>8
<1> DEFINE H == {x \in Contributors(T, asOf) : SameCell(x, g)}
<1>11. H \in CellGroups(T, asOf)
    BY <1>10 DEF CellGroups
<1>12. Echoed(G, H)
    <2> SUFFICES ASSUME NEW a \in G
                 PROVE  \E b \in H : b.amount = a.amount /\ b.source = a.source
        BY DEF Echoed
    <2>1. PICK b \in Contributors(T, asOf) : Alike(a, b)
        BY <1>2, <1>7
    <2>2. SameCell(a, b) /\ SameCell(a, y) /\ SameCell(y, g)
        BY <1>1, <1>9, <1>10, <2>1
    <2>3. SameCell(b, g)
        BY <1>4, <2>2
    <2> QED BY <1>1, <2>1, <2>3
<1>13. Echoed(H, G)
    <2> SUFFICES ASSUME NEW a \in H
                 PROVE  \E b \in G : b.amount = a.amount /\ b.source = a.source
        BY DEF Echoed
    <2>1. PICK b \in Contributors(S, asOf) : Alike(a, b)
        BY <1>3
    <2>2. SameCell(a, b) /\ SameCell(a, g) /\ SameCell(y, g)
        BY <1>1, <1>10, <2>1
    <2>3. SameCell(b, y)
        BY <1>4, <2>2
    <2> QED BY <1>1, <1>9, <2>1, <2>3
<1>14. y.amount \in SettledAmounts(H) /\ SettledAmounts(H) \subseteq Amounts(H)
    <2> HIDE DEF H
    <2>1. SettledAmounts(H) = SettledAmounts(G)
        BY <1>12, <1>13, EchoedSettles
    <2>2. SettledAmounts(H) \subseteq Amounts(H)
        BY DEF SettledAmounts, ResolvedAmounts, Amounts
    <2> QED BY <1>8, <2>1, <2>2
<1> DEFINE K == {o \in H : o.amount = y.amount}
           z == LowestId(K)
<1>15. z \in K
    <2>1. K # {}
        BY <1>14 DEF Amounts
    <2>2. Identified(K)
        BY <1>5, ContributionsIn DEF Identified
    <2> HIDE DEF K
    <2> QED BY <2>1, <2>2, LowestIdIn
<1>16. z \in Contributions(T, asOf)
    <2>1. z \in Counted(H)
        BY <1>14 DEF Counted
    <2> HIDE DEF H, z
    <2> QED BY <1>11, <2>1 DEF Contributions
<1>17. SameCell(y, z) /\ y.amount = z.amount
    <2>1. SameCell(z, g) /\ z.amount = y.amount /\ SameCell(y, g)
        BY <1>1, <1>10, <1>15
    <2> HIDE DEF z
    <2> QED BY <1>4, <2>1
<1> QED BY <1>16, <1>17

\* Two ways of counting that agree cell by cell have equal sums under every key.
Agrees(X, Z) == \A y \in X : \E z \in Z : SameCell(y, z) /\ y.amount = z.amount

LEMMA AgreeingSums ==
    ASSUME NEW S, NEW T, NEW asOf, Measured(S), Measured(T),
           Agrees(Contributions(S, asOf), Contributions(T, asOf)),
           Agrees(Contributions(T, asOf), Contributions(S, asOf)), NEW Q
    PROVE  SumOf(CountedUnder(S, asOf, Q)) = SumOf(CountedUnder(T, asOf, Q))
<1> DEFINE X == CountedUnder(S, asOf, Q)
           Z == CountedUnder(T, asOf, Q)
           w == [o \in Contributions(S, asOf) |-> o.amount]
           v == [o \in Contributions(T, asOf) |-> o.amount]
           Twin(y) == CHOOSE z \in Z : SameCell(y, z) /\ y.amount = z.amount
           h == [y \in X |-> Twin(y)]
<1>1. X \subseteq Contributions(S, asOf) /\ Z \subseteq Contributions(T, asOf)
    BY DEF CountedUnder
<1>2. Weighs(w, X) /\ SumOf(X) = Weight(w, X) /\ SumOf(Z) = Weight(v, Z)
    <2> HIDE DEF X, Z
    <2> QED BY <1>1, SumOfCounted
<1>3. \A y \in X : \E z \in Z : SameCell(y, z) /\ y.amount = z.amount
    BY DEF CountedUnder, Agrees, SameCell
<1>4. \A z \in Z : \E y \in X : SameCell(z, y) /\ y.amount = z.amount
    BY DEF CountedUnder, Agrees, SameCell
<1>5. \A x, y \in X : SameCell(x, y) => x = y
    BY <1>1, CountsOnce DEF MeasuredOnce, Measured
<1>6. \A x, y \in Z : SameCell(x, y) => x = y
    BY <1>1, CountsOnce DEF MeasuredOnce, Measured
<1>7. \A a, b, c : SameCell(a, b) => SameCell(b, a) /\ (SameCell(b, c) => SameCell(a, c))
    BY DEF SameCell
<1>8. \A y \in X : w[y] = y.amount
    BY <1>1
<1>9. \A z \in Z : v[z] = z.amount
    BY <1>1
<1> HIDE DEF X, Z, w, v
<1>10. \A y \in X : Twin(y) \in Z /\ SameCell(y, Twin(y)) /\ y.amount = Twin(y).amount
    BY <1>3
<1> HIDE DEF Twin
<1>11. h \in Bijection(X, Z)
    <2>1. \A x, y \in X : Twin(x) = Twin(y) => x = y
        BY <1>5, <1>7, <1>10
    <2>2. ASSUME NEW z \in Z PROVE \E y \in X : Twin(y) = z
        <3>1. PICK y \in X : SameCell(z, y)
            BY <1>4
        <3>2. SameCell(z, Twin(y)) /\ Twin(y) \in Z
            BY <1>7, <1>10, <3>1
        <3> QED BY <1>6, <3>2
    <2> QED BY <1>10, <2>1, <2>2 DEF Bijection, Injection, Surjection, IsInjective
<1>12. \A y \in X : v[h[y]] = w[y]
    BY <1>8, <1>9, <1>10
<1> HIDE DEF h
<1>13. SumOf(X) = SumOf(Z)
    BY <1>2, <1>11, <1>12, WeightRenamed
<1> QED BY <1>13 DEF X, Z

\* The totals by key, without the identities of what was counted.
KeyTotals(S, asOf) == {<<c.key, c.total>> : c \in Claims(S, asOf)}

LEMMA AgreeingTotals ==
    ASSUME NEW S, NEW T, NEW asOf, Measured(S), Measured(T),
           Agrees(Contributions(S, asOf), Contributions(T, asOf)),
           Agrees(Contributions(T, asOf), Contributions(S, asOf))
    PROVE  KeyTotals(S, asOf) \subseteq KeyTotals(T, asOf)
<1> SUFFICES ASSUME NEW c \in Claims(S, asOf)
             PROVE  \E d \in Claims(T, asOf) : d.key = c.key /\ d.total = c.total
    BY DEF KeyTotals
<1>1. PICK o \in Contributions(S, asOf) : ClaimKey(o) = c.key
    BY ClaimsAre
<1>2. PICK z \in Contributions(T, asOf) : SameCell(o, z)
    BY DEF Agrees
<1>3. PICK d \in Claims(T, asOf) : d.key = c.key
    BY <1>1, <1>2, ClaimsAre DEF SameCell
<1>4. SumOf(CountedUnder(S, asOf, {c.key})) = SumOf(CountedUnder(T, asOf, {c.key}))
    BY AgreeingSums
<1>5. \A U : CountedUnder(U, asOf, {c.key}) = {x \in Contributions(U, asOf) : ClaimKey(x) = c.key}
    BY DEF CountedUnder
<1>6. c.total = SumOf({x \in Contributions(S, asOf) : ClaimKey(x) = c.key})
    BY ClaimsAre
<1>7. d.total = SumOf({x \in Contributions(T, asOf) : ClaimKey(x) = d.key})
    BY ClaimsAre
<1> QED BY <1>3, <1>4, <1>5, <1>6, <1>7

\* A measurement that is delivered once more, under an identity of its own, changes no total.
THEOREM RedeliveryKeepsTotals ==
    ASSUME NEW S, IsFiniteSet(S), NEW o, NEW asOf, Redelivers(S, o, asOf)
    PROVE  KeyTotals(S \cup {o}, asOf) = KeyTotals(S, asOf)
<1> DEFINE T == S \cup {o}
<1>1. Reports(S) /\ Reports(T)
    BY DEF Redelivers, Reports
<1>2. IsFiniteSet(T)
    BY FS_AddElement
<1>3. Measured(S) /\ Measured(T)
    <2>1. \A U : Reports(U) => Identified(U) /\ \A x \in U : x.amount \in Nat
        BY DEF Reports, IsReport, Identified
    <2> HIDE DEF T
    <2> QED BY <1>1, <1>2, <2>1 DEF Measured
<1>4. Mirrored(Admitted(S, asOf), Admitted(T, asOf)) /\ Mirrored(Admitted(T, asOf), Admitted(S, asOf))
    BY RedeliveryAdmits
<1> HIDE DEF T
<1>5. Agrees(Contributions(S, asOf), Contributions(T, asOf))
    BY <1>1, <1>4, MirroredCounts DEF Agrees
<1>6. Agrees(Contributions(T, asOf), Contributions(S, asOf))
    BY <1>1, <1>4, MirroredCounts DEF Agrees
<1>7. KeyTotals(T, asOf) = KeyTotals(S, asOf)
    BY <1>3, <1>5, <1>6, AgreeingTotals
<1> QED BY <1>7 DEF T
===============================================================================
