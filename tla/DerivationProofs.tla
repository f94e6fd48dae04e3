--------------------------- MODULE DerivationProofs ---------------------------
(* Theorems about the derivation, for every policy, topology and evidence. *)
EXTENDS Derivation, FiniteLemmas

-------------------------------------------------------------------------------
(* Choosing from a set of observations *)

\* The identities of evidence are numbers.
Identified(C) == \A o \in C : o.id \in Nat

\* Of a nonempty set of observations, the one with the lowest identity is one of them.
LEMMA LowestIdIn ==
    ASSUME NEW G, G # {}, Identified(G)
    PROVE  LowestId(G) \in G /\ \A x \in G : LowestId(G).id <= x.id
<1> DEFINE T == {o.id : o \in G}
<1>1. T \in SUBSET Nat /\ T # {}
    BY DEF Identified
<1>2. PICK n \in T : \A m \in T : n <= m
    BY <1>1, LeastNumber
<1>3. \E o \in G : \A x \in G : o.id <= x.id
    BY <1>2
<1> QED BY <1>3 DEF LowestId

-------------------------------------------------------------------------------
(* What is counted *)

\* What is counted for a group of observations is one of them, with an amount the group
\* settled on.
LEMMA CountedIn ==
    ASSUME NEW G, Identified(G)
    PROVE  /\ Counted(G) \subseteq G
           /\ \A o \in Counted(G) : o.amount \in SettledAmounts(G)
<1>1. SettledAmounts(G) \subseteq Amounts(G)
    BY DEF SettledAmounts, ResolvedAmounts, Amounts
<1>2. ASSUME NEW a \in SettledAmounts(G)
      PROVE  LowestId({o \in G : o.amount = a}) \in {o \in G : o.amount = a}
    <2>1. {o \in G : o.amount = a} # {} /\ Identified({o \in G : o.amount = a})
        BY <1>1, <1>2 DEF Amounts, Identified
    <2> QED BY <2>1, LowestIdIn
<1> QED BY <1>2 DEF Counted

\* At most one is.
LEMMA CountedOne ==
    ASSUME NEW G, IsFiniteSet(G)
    PROVE  \A x, y \in Counted(G) : x = y
<1>1. IsFiniteSet(Amounts(G)) /\ \A H \in SUBSET G : IsFiniteSet({o.amount : o \in H})
    <2>1. ASSUME NEW H \in SUBSET G PROVE IsFiniteSet({o.amount : o \in H})
        <3> DEFINE f == [o \in H |-> o.amount]
        <3>1. f \in Surjection(H, {o.amount : o \in H})
            BY DEF Surjection
        <3>2. IsFiniteSet(H)
            BY <2>1, FS_Subset
        <3> QED BY <3>1, <3>2, FS_Surjection
    <2> QED BY <2>1 DEF Amounts
<1>2. \A a, b \in SettledAmounts(G) : a = b
    <2>1. CASE Agreed(G)
        BY <1>1, <2>1, OnlyOne DEF SettledAmounts, Agreed
    <2>2. CASE ~Agreed(G)
        <3> DEFINE amounts == {o.amount : o \in {x \in G : x.source = Preferred(G)}}
        <3>1. SettledAmounts(G) = {} \/ (SettledAmounts(G) = amounts /\ Cardinality(amounts) = 1)
            BY <2>2 DEF SettledAmounts, ResolvedAmounts
        <3>2. IsFiniteSet(amounts)
            BY <1>1
        <3> QED BY <3>1, <3>2, OnlyOne
    <2> QED BY <2>1, <2>2
<1> QED BY <1>2 DEF Counted

\* Whatever is counted is a contributor of the evidence, in a cell group that holds it.
LEMMA ContributionsIn ==
    ASSUME NEW C, Identified(C), NEW asOf
    PROVE  /\ Contributions(C, asOf) \subseteq Contributors(C, asOf)
           /\ Contributors(C, asOf) \subseteq Admitted(C, asOf)
           /\ Admitted(C, asOf) \subseteq C
<1>1. Contributors(C, asOf) \subseteq Admitted(C, asOf) /\ Admitted(C, asOf) \subseteq C
    BY DEF Contributors, Admitted
<1>2. ASSUME NEW G \in CellGroups(C, asOf) PROVE Counted(G) \subseteq Contributors(C, asOf)
    <2>1. G \subseteq Contributors(C, asOf)
        BY DEF CellGroups
    <2>2. Identified(G)
        BY <1>1, <2>1 DEF Identified
    <2> QED BY <2>1, <2>2, CountedIn
<1> QED BY <1>1, <1>2 DEF Contributions

-------------------------------------------------------------------------------
(* The properties *)

\* Being in one cell is an equivalence, so a contributor is in one cell group.
LEMMA OneCell ==
    ASSUME NEW C, NEW asOf, NEW G \in CellGroups(C, asOf), NEW x \in G
    PROVE  G = {y \in Contributors(C, asOf) : SameCell(y, x)}
<1>1. PICK o \in Contributors(C, asOf) : G = {y \in Contributors(C, asOf) : SameCell(y, o)}
    BY DEF CellGroups
<1> QED BY <1>1 DEF SameCell

\* Of a group of deliveries at most one is left when its excluded ones are gone.
LEMMA OneLeft ==
    ASSUME NEW G, Identified(G), NEW x \in G, NEW y \in G, x # y
    PROVE  x \in ExcludedOf(G) \/ y \in ExcludedOf(G)
BY LowestIdIn DEF ExcludedOf

\* Whatever was delivered, by whom and how often: no measurement is counted twice.
THEOREM CountsOnce ==
    ASSUME NEW C, IsFiniteSet(C), Identified(C), NEW asOf
    PROVE  MeasuredOnce(C, asOf)
<1>1. \A x \in Contributions(C, asOf) : x \in C /\ x.id \notin ExcludedIds(C)
    BY ContributionsIn DEF Admitted
<1>2. ASSUME NEW x \in Contributions(C, asOf), NEW y \in Contributions(C, asOf), x # y,
             NEW G \in OriginGroups(C) \cup SequenceGroups(C), x \in G, y \in G
      PROVE  FALSE
    <2>1. Identified(G)
        BY DEF OriginGroups, SequenceGroups, Identified
    <2>2. \A o \in ExcludedOf(G) : o.id \in ExcludedIds(C)
        BY DEF ExcludedIds
    <2> QED BY <1>1, <1>2, <2>1, <2>2, OneLeft
<1>3. ASSUME NEW x \in Contributions(C, asOf), NEW y \in Contributions(C, asOf), x # y
      PROVE  x.origin # y.origin
    <2>1. {z \in C : z.origin = x.origin} \in OriginGroups(C)
        BY <1>1 DEF OriginGroups
    <2> QED BY <1>1, <1>2, <1>3, <2>1
<1>4. ASSUME NEW x \in Contributions(C, asOf), NEW y \in Contributions(C, asOf), x # y
      PROVE  <<x.source, x.incarnation, x.seq>> # <<y.source, y.incarnation, y.seq>>
    <2>1. {z \in C : z.source = x.source /\ z.incarnation = x.incarnation /\ z.seq = x.seq}
              \in SequenceGroups(C)
        BY <1>1 DEF SequenceGroups
    <2> QED BY <1>1, <1>2, <1>4, <2>1
<1>5. ASSUME NEW x \in Contributions(C, asOf), NEW y \in Contributions(C, asOf), x # y
      PROVE  ~SameCell(x, y)
    <2> SUFFICES ASSUME SameCell(x, y) PROVE FALSE
        OBVIOUS
    <2>1. PICK G \in CellGroups(C, asOf) : x \in Counted(G)
        BY DEF Contributions
    <2>2. PICK H \in CellGroups(C, asOf) : y \in Counted(H)
        BY DEF Contributions
    <2>3. \A K \in CellGroups(C, asOf) : K \subseteq C /\ IsFiniteSet(K) /\ Identified(K)
        <3>1. \A K \in CellGroups(C, asOf) : K \subseteq C
            BY ContributionsIn DEF CellGroups
        <3> QED BY <3>1, FS_Subset DEF Identified
    <2>4. x \in G /\ y \in H
        BY <2>1, <2>2, <2>3, CountedIn
    <2>5. G = H
        <3>1. /\ G = {z \in Contributors(C, asOf) : SameCell(z, x)}
              /\ H = {z \in Contributors(C, asOf) : SameCell(z, y)}
            BY <2>4, OneCell
        <3>2. \A z : SameCell(z, x) <=> SameCell(z, y)
            BY DEF SameCell
        <3> QED BY <3>1, <3>2
    <2> QED BY <1>5, <2>1, <2>2, <2>3, <2>5, CountedOne
<1>6. ASSUME NEW x \in Contributions(C, asOf), NEW y \in C, y.id = x.id PROVE y = x
    <2> SUFFICES ASSUME y # x PROVE FALSE
        OBVIOUS
    <2>1. Collides(C, x)
        BY <1>6 DEF Collides
    <2> QED BY <1>1, <2>1 DEF ExcludedIds
<1> QED BY <1>3, <1>4, <1>5, <1>6 DEF MeasuredOnce

\* Nothing that was reported and is not counted goes without a word.
THEOREM ExplainsAll ==
    ASSUME NEW C, NEW asOf
    PROVE  Explained(C, asOf)
<1> DEFINE Named == {r.evidence : r \in Rejections(C, asOf)} \cup UNION Conflicts(C, asOf)
<1> SUFFICES ASSUME NEW x \in C, x.role = "contribution", x \notin Contributions(C, asOf)
             PROVE  x \in Named
    BY DEF Explained
<1>r. ASSUME NEW step, NEW S, Refused(step, S) \subseteq Rejections(C, asOf), x \in S
      PROVE  x \in Named
    <2>1. [step |-> step, evidence |-> x] \in Rejections(C, asOf)
        BY <1>r DEF Refused
    <2> QED BY <2>1
<1>1. CASE x.id \in ExcludedIds(C)
    <2>1. CASE Collides(C, x)
        <3>1. Refused("identity", {o \in C : Collides(C, o)}) \subseteq Rejections(C, asOf)
            BY DEF Rejections
        <3> QED BY <1>r, <2>1, <3>1
    <2>2. CASE ~Collides(C, x)
        <3>1. PICK G \in OriginGroups(C) \cup SequenceGroups(C) :
                  \E o \in ExcludedOf(G) : o.id = x.id
            <4>1. \A o \in C : o.id = x.id => o = x
                BY <2>2 DEF Collides
            <4> QED BY <1>1, <2>2, <4>1 DEF ExcludedIds
        <3>2. PICK o \in ExcludedOf(G) : o.id = x.id
            BY <3>1
        <3>3. o \in C
            BY <3>2 DEF ExcludedOf, OriginGroups, SequenceGroups
        <3>4. o = x
            BY <2>2, <3>2, <3>3 DEF Collides
        <3>5. CASE G \in OriginGroups(C)
            <4>1. Refused("origin", UNION {ExcludedOf(K) : K \in OriginGroups(C)}) \subseteq Rejections(C, asOf)
                BY DEF Rejections
            <4> QED BY <1>r, <3>4, <3>5, <4>1
        <3>6. CASE G \in SequenceGroups(C)
            <4>1. Refused("sequence", UNION {ExcludedOf(K) : K \in SequenceGroups(C)}) \subseteq Rejections(C, asOf)
                BY DEF Rejections
            <4> QED BY <1>r, <3>4, <3>6, <4>1
        <3> QED BY <3>5, <3>6
    <2> QED BY <2>1, <2>2
<1>2. CASE x.id \notin ExcludedIds(C) /\ x \notin Admitted(C, asOf)
    <2>1. Refused("admission", {o \in C \ Admitted(C, asOf) : o.id \notin ExcludedIds(C)})
              \subseteq Rejections(C, asOf)
        BY DEF Rejections
    <2> QED BY <1>r, <1>2, <2>1
<1>3. CASE x \in Admitted(C, asOf) /\ ~Attributable(x)
    <2>1. Refused("attribution", {o \in Admitted(C, asOf) : o.role = "contribution" /\ ~Attributable(o)})
              \subseteq Rejections(C, asOf)
        BY DEF Rejections
    <2> QED BY <1>r, <1>3, <2>1
<1>4. CASE x \in Admitted(C, asOf) /\ Attributable(x)
    <2> DEFINE G == {y \in Contributors(C, asOf) : SameCell(y, x)}
    <2>1. x \in G /\ G \in CellGroups(C, asOf)
        BY <1>4 DEF Contributors, CellGroups, SameCell
    <2>2. x \notin Counted(G)
        BY <2>1 DEF Contributions
    <2>3. CASE Agreed(G)
        <3>1. Refused("equivalent", UNION {H \ Counted(H) : H \in {K \in CellGroups(C, asOf) : Agreed(K)}})
                  \subseteq Rejections(C, asOf)
            BY DEF Rejections
        <3>2. x \in UNION {H \ Counted(H) : H \in {K \in CellGroups(C, asOf) : Agreed(K)}}
            <4> HIDE DEF G
            <4> QED BY <2>1, <2>2, <2>3
        <3> QED BY <1>r, <3>1, <3>2
    <2>4. CASE ~Agreed(G)
        <3>1. G \in Conflicts(C, asOf)
            BY <2>1, <2>4 DEF Conflicts
        <3> HIDE DEF G
        <3> QED BY <2>1, <3>1
    <2> QED BY <2>3, <2>4
<1> QED BY <1>1, <1>2, <1>3, <1>4

\* Ranks are numbers, and sources are told apart by theirs.
Ranked == \A s \in DOMAIN Topology.sources : s \in Nat /\ Topology.sources[s].rank \in Nat

\* Nobody of a higher rank is overruled.
THEOREM AuthorityDecides ==
    ASSUME NEW C, IsFiniteSet(C), Identified(C), NEW asOf, Ranked
    PROVE  AuthorityRespected(C, asOf)
<1> SUFFICES ASSUME NEW x \in Contributions(C, asOf), NEW y \in Contributors(C, asOf),
                    SameCell(x, y), x.amount # y.amount
             PROVE  \E z \in Contributors(C, asOf) :
                        SameCell(x, z) /\ z.amount = x.amount /\ Rank(z) >= Rank(y)
    BY DEF AuthorityRespected
<1>1. PICK G \in CellGroups(C, asOf) : x \in Counted(G)
    BY DEF Contributions
<1>2. G \subseteq Contributors(C, asOf) /\ G \subseteq C /\ IsFiniteSet(G) /\ Identified(G)
    <2>1. G \subseteq Contributors(C, asOf) /\ G \subseteq C
        BY ContributionsIn DEF CellGroups
    <2> QED BY <2>1, FS_Subset DEF Identified
<1>3. x \in G /\ x.amount \in SettledAmounts(G)
    BY <1>1, <1>2, CountedIn
<1>4. \A z \in G : SameCell(x, z)
    BY <1>3, OneCell DEF SameCell
<1>5. y \in G
    BY <1>3, OneCell DEF SameCell
<1>6. ~Agreed(G)
    <2> SUFFICES ASSUME Agreed(G) PROVE FALSE
        OBVIOUS
    <2>1. x.amount \in Amounts(G) /\ y.amount \in Amounts(G)
        BY <1>3, <1>5 DEF Amounts
    <2>2. IsFiniteSet(Amounts(G))
        <3> DEFINE f == [o \in G |-> o.amount]
        <3>1. f \in Surjection(G, Amounts(G))
            BY DEF Surjection, Amounts
        <3> QED BY <1>2, <3>1, FS_Surjection
    <2> QED BY <2>1, <2>2, OnlyOne DEF Agreed
<1>7. PICK z \in G : z.source = Preferred(G) /\ z.amount = x.amount
    BY <1>3, <1>6 DEF SettledAmounts, ResolvedAmounts
<1>8. \A o \in G : o.source \in DOMAIN Topology.sources /\ Rank(o) \in Nat /\ o.source \in Nat
    BY <1>2, ContributionsIn DEF Admitted, Admissible, Rank, Ranked
<1>9. Preferred(G) \in HighestRanked(G)
    <2>1. HighestRanked(G) # {}
        <3> DEFINE T == {Rank(o) : o \in G}
                   f == [o \in G |-> Rank(o)]
        <3>1. T \in SUBSET Nat /\ T # {}
            BY <1>3, <1>8
        <3>2. IsFiniteSet(T)
            <4>1. f \in Surjection(G, T)
                BY DEF Surjection
            <4> QED BY <1>2, <4>1, FS_Surjection
        <3>3. PICK n \in T : \A m \in T : m <= n
            BY <3>1, <3>2, GreatestNumber
        <3> QED BY <3>3 DEF HighestRanked
    <2>2. HighestRanked(G) \in SUBSET Nat /\ IsFiniteSet(HighestRanked(G))
        <3> DEFINE H == {u \in G : \A v \in G : Rank(v) <= Rank(u)}
                   f == [o \in H |-> o.source]
        <3>1. f \in Surjection(H, HighestRanked(G))
            BY DEF Surjection, HighestRanked
        <3>2. IsFiniteSet(H)
            BY <1>2, FS_Subset
        <3> QED BY <1>8, <3>1, <3>2, FS_Surjection DEF HighestRanked
    <2>3. /\ \E s \in HighestRanked(G) : \A t \in HighestRanked(G) : s <= t
          /\ \E s \in HighestRanked(G) : \A t \in HighestRanked(G) : s >= t
        BY <2>1, <2>2, LeastNumber, GreatestNumber
    <2>4. \E s \in HighestRanked(G) : \A t \in HighestRanked(G) :
              IF Policy.tieBreak = "LowestSourceIdWins" THEN s <= t ELSE s >= t
        BY <2>3
    <2> QED BY <2>4 DEF Preferred
<1>10. PICK h \in G : h.source = Preferred(G) /\ \A o \in G : Rank(o) <= Rank(h)
    BY <1>9 DEF HighestRanked
<1>11. Rank(z) = Rank(h)
    BY <1>7, <1>10 DEF Rank
<1> QED BY <1>2, <1>4, <1>5, <1>7, <1>8, <1>10, <1>11
===============================================================================
