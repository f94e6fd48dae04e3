----------------------------- MODULE TopologyProofs -----------------------------
(* What validation promises of a topology document, whatever it defines. *)
EXTENDS Topology, FiniteLemmas

-------------------------------------------------------------------------------
(* Neighbours: of two definitions that cover one instant, two neighbours do *)

\* A definition with a later one has a next one.
LEMMA NextInOrder ==
    ASSUME NEW S, NEW inc, NEW a \in S, NEW b \in S, Sorted(inc, a, b),
           \A c \in S : c \in Nat /\ inc[c].started \in Int
    PROVE  \E n \in S : /\ NextIncarnation(S, inc, a, n)
                        /\ inc[n].started <= inc[b].started
<1> DEFINE Later  == {c \in S : Sorted(inc, a, c)}
           Starts == {inc[c].started - inc[a].started : c \in Later}
<1>1. b \in Later /\ Starts \in SUBSET Nat
    BY DEF Sorted
<1>2. PICK d \in Starts : \A e \in Starts : d <= e
    <2>1. Starts # {}
        BY <1>1
    <2> HIDE DEF Starts
    <2> QED BY <1>1, <2>1, LeastNumber
<1> DEFINE Soonest == {c \in Later : inc[c].started - inc[a].started = d}
<1>3. Soonest \in SUBSET Nat /\ Soonest # {}
    BY <1>2
<1>4. PICK n \in Soonest : \A m \in Soonest : n <= m
    <2> HIDE DEF Soonest
    <2> QED BY <1>3, LeastNumber
<1>5. \A c \in Later : inc[n].started <= inc[c].started
    <2> TAKE c \in Later
    <2>1. inc[c].started - inc[a].started \in Starts
        OBVIOUS
    <2> QED BY <1>2, <1>4, <2>1
<1>6. ASSUME NEW c \in Later, Sorted(inc, c, n) PROVE FALSE
    <2>1. inc[c].started = inc[n].started /\ c < n
        BY <1>5, <1>6 DEF Sorted
    <2> QED BY <1>4, <2>1
<1>7. NextIncarnation(S, inc, a, n)
    BY <1>4, <1>6 DEF NextIncarnation
<1> QED BY <1>1, <1>4, <1>5, <1>7

\* So no two incarnations of a source are live together, however many it has.
LEMMA IncarnationsLiveOnce ==
    ASSUME NEW t, IsDocument(t), IncarnationsApart(t),
           NEW a \in DOMAIN t.incarnations, NEW b \in DOMAIN t.incarnations, a # b,
           t.incarnations[a].source = t.incarnations[b].source
    PROVE  ~Live(t.incarnations[a].started, t.incarnations[a].retired,
                 t.incarnations[b].started)
<1> DEFINE inc == t.incarnations
           S   == {c \in DOMAIN inc : inc[c].source = inc[a].source}
<1>1. \A c \in DOMAIN inc : /\ c \in Nat /\ inc[c].started \in Int
                           /\ inc[c].retired \subseteq Int
                           /\ \A u \in inc[c].retired : inc[c].started <= u
    BY DEF IsDocument, IsSpan, NotBefore
<1>2. a \in S /\ b \in S
    OBVIOUS
<1> SUFFICES ASSUME Live(inc[a].started, inc[a].retired, inc[b].started) PROVE FALSE
    OBVIOUS
<1>3. inc[a].started <= inc[b].started /\ \A u \in inc[a].retired : inc[b].started <= u
    BY DEF Live
<1>4. ASSUME NEW x \in S, NEW n \in S, NextIncarnation(S, inc, x, n)
      PROVE  ~IntervalsOverlap(inc[x].started, inc[x].retired, inc[n].started, inc[n].retired)
    <2>1. {c \in DOMAIN inc : inc[c].source = inc[x].source} = S
        OBVIOUS
    <2> QED BY <1>4, <2>1 DEF IncarnationsApart
<1>5. CASE Sorted(inc, a, b)
    <2>1. PICK n \in S : NextIncarnation(S, inc, a, n) /\ inc[n].started <= inc[b].started
        BY <1>1, <1>2, <1>5, NextInOrder
    <2>2. inc[a].started <= inc[n].started
        BY <1>1, <2>1 DEF NextIncarnation, Sorted
    <2>3. \A u \in inc[a].retired : inc[n].started <= u
        BY <1>1, <1>3, <2>1
    <2>4. \A u \in inc[n].retired : inc[a].started <= u
        BY <1>1, <2>2
    <2> QED BY <1>2, <1>4, <2>1, <2>3, <2>4 DEF IntervalsOverlap
<1>6. CASE Sorted(inc, b, a)
    <2>1. inc[a].started = inc[b].started
        BY <1>1, <1>3, <1>6 DEF Sorted
    <2>2. PICK n \in S : NextIncarnation(S, inc, b, n) /\ inc[n].started <= inc[a].started
        BY <1>1, <1>2, <1>6, NextInOrder
    <2>3. inc[b].started = inc[n].started
        BY <1>1, <2>1, <2>2 DEF NextIncarnation, Sorted
    <2>4. /\ \A u \in inc[b].retired : inc[n].started <= u
          /\ \A u \in inc[n].retired : inc[b].started <= u
        BY <1>1, <2>3
    <2> QED BY <1>2, <1>4, <2>2, <2>4 DEF IntervalsOverlap
<1>7. Sorted(inc, a, b) \/ Sorted(inc, b, a)
    BY <1>1, <1>3 DEF Sorted
<1> QED BY <1>5, <1>6, <1>7

\* The same of the bindings of a resource.
LEMMA BindingsLiveOnce ==
    ASSUME NEW t, IsDocument(t), BindingsApart(t),
           NEW i \in DOMAIN t.bindings, NEW j \in DOMAIN t.bindings, i # j,
           t.bindings[i].resource = t.bindings[j].resource,
           t.bindings[i].generation = t.bindings[j].generation
    PROVE  ~Live(t.bindings[i].from, t.bindings[i].until, t.bindings[j].from)
<1> DEFINE bnd == t.bindings
           S   == {k \in DOMAIN bnd : bnd[k].resource = bnd[i].resource
                                       /\ bnd[k].generation = bnd[i].generation}
           Between(k) == bnd[i].from < bnd[k].from /\ bnd[k].from < bnd[j].from
<1>1. \A k \in DOMAIN bnd : /\ bnd[k].from \in Int /\ bnd[k].until \subseteq Int
                           /\ \A u \in bnd[k].until : bnd[k].from <= u
    BY DEF IsDocument, IsSpan, NotBefore
<1> SUFFICES ASSUME Live(bnd[i].from, bnd[i].until, bnd[j].from) PROVE FALSE
    OBVIOUS
<1>2. bnd[i].from <= bnd[j].from /\ \A u \in bnd[i].until : bnd[j].from <= u
    BY DEF Live
<1>3. ASSUME NEW n \in S, n # i, bnd[i].from <= bnd[n].from, bnd[n].from <= bnd[j].from,
             ~\E k \in S : bnd[i].from < bnd[k].from /\ bnd[k].from < bnd[n].from
      PROVE  FALSE
    <2>1. ~IntervalsOverlap(bnd[i].from, bnd[i].until, bnd[n].from, bnd[n].until)
        BY <1>3 DEF BindingsApart
    <2>2. \A u \in bnd[i].until : bnd[n].from <= u
        BY <1>1, <1>2, <1>3
    <2>3. \A u \in bnd[n].until : bnd[i].from <= u
        BY <1>1, <1>3
    <2> QED BY <2>1, <2>2, <2>3 DEF IntervalsOverlap
<1>4. CASE \E k \in S : Between(k)
    <2> DEFINE Gaps == {bnd[k].from - bnd[i].from : k \in {x \in S : Between(x)}}
    <2>1. Gaps \in SUBSET Nat /\ Gaps # {}
        <3>1. \A k \in S : Between(k) => bnd[k].from - bnd[i].from \in Nat
            BY <1>1
        <3> QED BY <1>4, <3>1
    <2>2. PICK d \in Gaps : \A e \in Gaps : d <= e
        <3> HIDE DEF Gaps
        <3> QED BY <2>1, LeastNumber
    <2>3. PICK n \in S : Between(n) /\ d = bnd[n].from - bnd[i].from
        BY <2>2
    <2>4. ASSUME NEW k \in S, bnd[i].from < bnd[k].from, bnd[k].from < bnd[n].from
          PROVE  FALSE
        <3>1. Between(k)
            BY <1>1, <2>3, <2>4
        <3>2. bnd[k].from - bnd[i].from \in Gaps
            BY <3>1
        <3>3. bnd[n].from - bnd[i].from <= bnd[k].from - bnd[i].from
            BY <2>2, <2>3, <3>2
        <3>4. \A m \in S : bnd[m].from \in Int
            BY <1>1
        <3>5. bnd[n].from \in Int /\ bnd[k].from \in Int /\ bnd[i].from \in Int
            BY <3>4
        <3> HIDE DEF bnd, S
        <3> QED BY <2>4, <3>3, <3>5
    <2> QED BY <1>1, <1>3, <2>3, <2>4
<1>5. CASE ~\E k \in S : Between(k)
    BY <1>1, <1>2, <1>3, <1>5
<1> QED BY <1>4, <1>5
-------------------------------------------------------------------------------
(* The hierarchy: the scopes above one are the least set that holds its parent and the *)
(* parents of its members *)

Closed(t, X) == \A a \in X : ParentOf(t, a) \subseteq X

LEMMA ParentsIn ==
    ASSUME NEW t, ParentsDefined(t)
    PROVE  \A s : ParentOf(t, s) \subseteq DOMAIN t.scopes
BY DEF ParentsDefined, ParentOf

\* AncestorsOf is the last of a chain of sets, each of which adds the parents of the one before.
LEMMA Climbing ==
    ASSUME NEW t, NEW s, IsFiniteSet(DOMAIN t.scopes), ParentsDefined(t)
    PROVE  LET N == Cardinality(DOMAIN t.scopes)
           IN  \E f : /\ f[0] = ParentOf(t, s)
                      /\ \A m \in 1..N :
                            f[m] = f[m - 1] \cup UNION {ParentOf(t, a) : a \in f[m - 1]}
                      /\ AncestorsOf(t, s) = f[N]
<1> DEFINE N == Cardinality(DOMAIN t.scopes)
           D == SUBSET DOMAIN t.scopes
           G == [X \in D |-> X \cup UNION {ParentOf(t, a) : a \in X}]
           above[n \in 0..N] ==
               IF n = 0 THEN ParentOf(t, s)
               ELSE above[n - 1] \cup UNION {ParentOf(t, a) : a \in above[n - 1]}
<1>1. N \in Nat
    BY FS_CardinalityType
<1>2. G \in [D -> D] /\ ParentOf(t, s) \in D
    BY ParentsIn
<1>3. PICK f \in [0..N -> D] : f[0] = ParentOf(t, s) /\ \A m \in 1..N : f[m] = G[f[m - 1]]
    <2> HIDE DEF G, D, N
    <2>1. \E f \in [0..N -> D] : Iterates(f, G, ParentOf(t, s), N)
        BY <1>1, <1>2, Iterated
    <2> QED BY <2>1 DEF Iterates
<1>4. f = [n \in 0..N |-> IF n = 0 THEN ParentOf(t, s)
                          ELSE f[n - 1] \cup UNION {ParentOf(t, a) : a \in f[n - 1]}]
    <2>1. ASSUME NEW n \in 0..N, n # 0
          PROVE  f[n] = f[n - 1] \cup UNION {ParentOf(t, a) : a \in f[n - 1]}
        <3>1. n \in 1..N /\ n - 1 \in 0..N
            BY <1>1, <2>1
        <3>2. f[n - 1] \in D
            BY <1>3, <3>1
        <3>3. f[n] = G[f[n - 1]]
            BY <1>3, <3>1
        <3> QED BY <3>2, <3>3
    <2> HIDE DEF N, D, G
    <2> QED BY <1>3, <2>1
<1>5. above = [n \in 0..N |-> IF n = 0 THEN ParentOf(t, s)
                              ELSE above[n - 1] \cup UNION {ParentOf(t, a) : a \in above[n - 1]}]
    BY <1>4, Zenon DEF above
<1>6. AncestorsOf(t, s) = above[N]
    BY Zenon DEF AncestorsOf
<1> HIDE DEF above, N
<1>7. above[0] = ParentOf(t, s)
    BY <1>1, <1>5
<1>8. \A m \in 1..N :
          above[m] = above[m - 1] \cup UNION {ParentOf(t, a) : a \in above[m - 1]}
    <2>1. \A m \in 1..N : m \in 0..N /\ m # 0
        BY <1>1
    <2> QED BY <1>5, <2>1
<1> QED BY <1>6, <1>7, <1>8 DEF N

\* What no step of the chain leaves, the whole of it does not leave.
LEMMA AncestorsLeast ==
    ASSUME NEW t, NEW s, IsFiniteSet(DOMAIN t.scopes), ParentsDefined(t),
           NEW X, ParentOf(t, s) \subseteq X, Closed(t, X)
    PROVE  AncestorsOf(t, s) \subseteq X
<1> DEFINE N == Cardinality(DOMAIN t.scopes)
<1>1. N \in Nat
    BY FS_CardinalityType
<1>2. PICK f : /\ f[0] = ParentOf(t, s)
               /\ \A m \in 1..N : f[m] = f[m - 1] \cup UNION {ParentOf(t, a) : a \in f[m - 1]}
               /\ AncestorsOf(t, s) = f[N]
    BY Climbing
<1> DEFINE Bad == {m \in 0..N : ~(f[m] \subseteq X)}
<1>3. SUFFICES ASSUME Bad # {} PROVE FALSE
    BY <1>1, <1>2
<1>4. PICK m \in Bad : \A k \in Bad : m <= k
    <2>1. Bad \in SUBSET Nat
        BY <1>1
    <2> HIDE DEF Bad
    <2> QED BY <1>3, <2>1, LeastNumber
<1>5. m # 0 /\ m \in 1..N
    BY <1>1, <1>2, <1>4
<1>6. f[m - 1] \subseteq X
    BY <1>1, <1>4, <1>5
<1>7. f[m] = f[m - 1] \cup UNION {ParentOf(t, a) : a \in f[m - 1]}
    BY <1>2, <1>5
<1> QED BY <1>4, <1>6, <1>7 DEF Closed

\* As many steps as there are scopes lead to all of them.
LEMMA AncestorsClosed ==
    ASSUME NEW t, NEW s, IsFiniteSet(DOMAIN t.scopes), ParentsDefined(t)
    PROVE  /\ ParentOf(t, s) \subseteq AncestorsOf(t, s)
           /\ AncestorsOf(t, s) \subseteq DOMAIN t.scopes
           /\ Closed(t, AncestorsOf(t, s))
<1> DEFINE N == Cardinality(DOMAIN t.scopes)
<1>1. N \in Nat
    BY FS_CardinalityType
<1>2. PICK f : /\ f[0] = ParentOf(t, s)
               /\ \A m \in 1..N : f[m] = f[m - 1] \cup UNION {ParentOf(t, a) : a \in f[m - 1]}
               /\ AncestorsOf(t, s) = f[N]
    BY Climbing
<1> HIDE DEF N
\* Each step keeps what the one before had, so what is closed stays as it is.
<1>3. ASSUME NEW m \in 0..N PROVE f[m] \subseteq f[N]
    <2> DEFINE Bad == {k \in 0..N : ~(f[N - k] \subseteq f[N])}
    <2>1. ASSUME Bad # {} PROVE FALSE
        <3>1. PICK k \in Bad : \A j \in Bad : k <= j
            <4>1. Bad \in SUBSET Nat
                BY <1>1
            <4> HIDE DEF Bad
            <4> QED BY <2>1, <4>1, LeastNumber
        <3>2. k # 0 /\ k - 1 \in 0..N /\ N - (k - 1) \in 1..N /\ (N - (k - 1)) - 1 = N - k
            BY <1>1, <3>1
        <3>3. f[N - (k - 1)] \subseteq f[N]
            BY <1>1, <3>1, <3>2
        <3>4. f[N - k] \subseteq f[N - (k - 1)]
            BY <1>2, <3>2
        <3> QED BY <3>1, <3>3, <3>4
    <2>2. N - m \in 0..N /\ N - (N - m) = m
        BY <1>1
    <2> QED BY <2>1, <2>2
<1>4. ASSUME NEW m \in 0..N, Closed(t, f[m]) PROVE f[m] = f[N]
    <2> DEFINE Bad == {k \in m..N : f[k] # f[m]}
    <2>1. ASSUME Bad # {} PROVE FALSE
        <3>1. PICK k \in Bad : \A j \in Bad : k <= j
            <4>1. Bad \in SUBSET Nat
                BY <1>1
            <4> HIDE DEF Bad
            <4> QED BY <2>1, <4>1, LeastNumber
        <3>2. k # m /\ k - 1 \in m..N /\ k \in 1..N
            BY <1>1, <3>1
        <3>3. f[k - 1] = f[m]
            BY <1>1, <3>1, <3>2
        <3>4. f[k] = f[m] \cup UNION {ParentOf(t, a) : a \in f[m]}
            BY <1>2, <3>2, <3>3
        <3>5. UNION {ParentOf(t, a) : a \in f[m]} \subseteq f[m]
            BY <1>4 DEF Closed
        <3> QED BY <3>1, <3>4, <3>5
    <2> QED BY <1>1, <2>1
<1>5. AncestorsOf(t, s) \subseteq DOMAIN t.scopes
    <2>1. ParentOf(t, s) \subseteq DOMAIN t.scopes /\ Closed(t, DOMAIN t.scopes)
        BY ParentsIn DEF Closed
    <2> QED BY <2>1, AncestorsLeast
<1>6. \A m \in 0..N : IsFiniteSet(f[m]) /\ Cardinality(f[m]) \in Nat
    BY <1>2, <1>3, <1>5, FS_Subset, FS_CardinalityType
<1>7. Closed(t, f[N])
    <2> SUFFICES ASSUME ~Closed(t, f[N]) PROVE FALSE
        OBVIOUS
    <2> DEFINE Bad == {m \in 0..N : Cardinality(f[m]) <= m}
    <2>1. N \in Bad
        <3>1. Cardinality(f[N]) <= N
            BY <1>2, <1>5, FS_Subset DEF N
        <3> QED BY <1>1, <3>1
    <2>2. PICK m \in Bad : \A k \in Bad : m <= k
        <3>1. Bad \in SUBSET Nat
            BY <1>1
        <3> HIDE DEF Bad
        <3> QED BY <2>1, <3>1, LeastNumber
    <2>3. m # 0
        <3>1. ASSUME f[0] = {} PROVE FALSE
            <4>1. Closed(t, f[0])
                BY <3>1 DEF Closed
            <4> QED BY <1>1, <1>4, <4>1
        <3>2. Cardinality(f[0]) # 0
            BY <1>1, <1>6, <3>1, FS_EmptySet
        <3> QED BY <1>1, <1>6, <2>2, <3>2
    <2>4. m \in 1..N /\ m - 1 \in 0..N /\ Cardinality(f[m - 1]) > m - 1
        BY <1>1, <1>6, <2>2, <2>3
    <2>5. f[m - 1] \subseteq f[m]
        BY <1>2, <2>4
    <2>6. f[m - 1] # f[m]
        <3> SUFFICES ASSUME f[m - 1] = f[m] PROVE FALSE
            OBVIOUS
        <3>1. Closed(t, f[m - 1])
            BY <1>2, <2>4 DEF Closed
        <3>2. f[m - 1] = f[N]
            BY <1>4, <2>4, <3>1
        <3> QED BY <3>1, <3>2
    <2>7. Cardinality(f[m - 1]) < Cardinality(f[m])
        <3>1. /\ Cardinality(f[m - 1]) <= Cardinality(f[m])
              /\ Cardinality(f[m - 1]) = Cardinality(f[m]) => f[m - 1] = f[m]
            BY <1>6, <2>2, <2>5, FS_Subset
        <3> QED BY <1>6, <2>2, <2>4, <2>6, <3>1
    <2> QED BY <1>6, <2>2, <2>4, <2>7
<1>8. ParentOf(t, s) \subseteq f[N]
    BY <1>1, <1>2, <1>3
<1> QED BY <1>2, <1>5, <1>7, <1>8

\* What is above a scope above is above.
LEMMA AncestorsTransitive ==
    ASSUME NEW t, NEW s, IsFiniteSet(DOMAIN t.scopes), ParentsDefined(t),
           NEW a \in AncestorsOf(t, s)
    PROVE  AncestorsOf(t, a) \subseteq AncestorsOf(t, s)
BY AncestorsClosed, AncestorsLeast DEF Closed

\* Above a scope are its parent and what is above that.
LEMMA AncestorsByParent ==
    ASSUME NEW t, NEW s, IsFiniteSet(DOMAIN t.scopes), ParentsDefined(t)
    PROVE  AncestorsOf(t, s)
               = ParentOf(t, s) \cup UNION {AncestorsOf(t, p) : p \in ParentOf(t, s)}
<1> DEFINE X == ParentOf(t, s) \cup UNION {AncestorsOf(t, p) : p \in ParentOf(t, s)}
<1>1. X \subseteq AncestorsOf(t, s)
    <2>1. ParentOf(t, s) \subseteq AncestorsOf(t, s)
        BY AncestorsClosed
    <2> QED BY <2>1, AncestorsTransitive
<1>2. Closed(t, X)
    <2> SUFFICES ASSUME NEW a \in X PROVE ParentOf(t, a) \subseteq X
        BY DEF Closed
    <2>1. \A p \in ParentOf(t, s) :
              ParentOf(t, p) \subseteq AncestorsOf(t, p) /\ Closed(t, AncestorsOf(t, p))
        BY AncestorsClosed
    <2> QED BY <2>1 DEF Closed
<1>3. AncestorsOf(t, s) \subseteq X
    <2>1. ParentOf(t, s) \subseteq X
        OBVIOUS
    <2> HIDE DEF X
    <2> QED BY <1>2, <2>1, AncestorsLeast
<1> QED BY <1>1, <1>3

\* In a forest, some scope of every set of scopes has none of the set above it.
LEMMA Topmost ==
    ASSUME NEW t, IsFiniteSet(DOMAIN t.scopes), ParentsDefined(t), Forest(t),
           NEW S \in SUBSET DOMAIN t.scopes, S # {}
    PROVE  \E s \in S : AncestorsOf(t, s) \cap S = {}
<1> DEFINE Heights == {Cardinality(AncestorsOf(t, s)) : s \in S}
<1>1. \A s \in S : IsFiniteSet(AncestorsOf(t, s)) /\ Cardinality(AncestorsOf(t, s)) \in Nat
    BY AncestorsClosed, FS_Subset, FS_CardinalityType
<1>2. PICK h \in Heights : \A k \in Heights : h <= k
    <2>1. Heights \in SUBSET Nat /\ Heights # {}
        BY <1>1
    <2> HIDE DEF Heights
    <2> QED BY <2>1, LeastNumber
<1>3. PICK s \in S : h = Cardinality(AncestorsOf(t, s))
    BY <1>2
<1>4. ASSUME NEW a \in AncestorsOf(t, s) \cap S PROVE FALSE
    <2>1. AncestorsOf(t, a) \subseteq AncestorsOf(t, s)
        BY AncestorsTransitive
    <2>2. AncestorsOf(t, a) # AncestorsOf(t, s)
        BY <1>4 DEF Forest
    <2>3. /\ Cardinality(AncestorsOf(t, a)) <= Cardinality(AncestorsOf(t, s))
          /\ Cardinality(AncestorsOf(t, a)) = Cardinality(AncestorsOf(t, s))
                => AncestorsOf(t, a) = AncestorsOf(t, s)
        BY <1>1, <2>1, FS_Subset
    <2>4. h <= Cardinality(AncestorsOf(t, a))
        BY <1>2, <1>4
    <2> QED BY <1>1, <1>3, <1>4, <2>2, <2>3, <2>4
<1> QED BY <1>4

\* Of two different scopes that are a scope or above it, one is above the other: no scope
\* has two parents.
LEMMA OneLine ==
    ASSUME NEW t, IsFiniteSet(DOMAIN t.scopes), ParentsDefined(t), Forest(t),
           \A s \in DOMAIN t.scopes : \A p, q \in t.scopes[s].parent : p = q,
           NEW x \in DOMAIN t.scopes,
           NEW c \in {x} \cup AncestorsOf(t, x), NEW d \in {x} \cup AncestorsOf(t, x), c # d
    PROVE  c \in AncestorsOf(t, d) \/ d \in AncestorsOf(t, c)
<1> DEFINE Y == {y \in {x} \cup AncestorsOf(t, x) :
                     c \in {y} \cup AncestorsOf(t, y) /\ d \in {y} \cup AncestorsOf(t, y)}
<1>1. Y \in SUBSET DOMAIN t.scopes /\ x \in Y
    BY AncestorsClosed
<1>2. PICK y \in Y : AncestorsOf(t, y) \cap Y = {}
    <2> HIDE DEF Y
    <2> QED BY <1>1, Topmost
<1>3. CASE y # c /\ y # d
    <2>1. c \in AncestorsOf(t, y) /\ d \in AncestorsOf(t, y)
        BY <1>2, <1>3
    <2>2. PICK p \in ParentOf(t, y) : c \in {p} \cup AncestorsOf(t, p)
        BY <2>1, AncestorsByParent
    <2>3. PICK q \in ParentOf(t, y) : d \in {q} \cup AncestorsOf(t, q)
        BY <2>1, AncestorsByParent
    <2>4. p = q
        BY <1>1, <1>2, <2>2, <2>3 DEF ParentOf
    <2>5. p \in AncestorsOf(t, y)
        BY <2>2, AncestorsClosed
    <2>6. p \in AncestorsOf(t, x) \/ y = x
        BY <1>2, <2>5, AncestorsTransitive
    <2>7. p \in Y
        BY <2>2, <2>3, <2>4, <2>5, <2>6
    <2> QED BY <1>2, <2>5, <2>7
<1> QED BY <1>2, <1>3

\* A scope is above another if it, or one of its children, is the other or above it.
LEMMA AboveByChild ==
    ASSUME NEW t, IsFiniteSet(DOMAIN t.scopes), ParentsDefined(t), Forest(t),
           NEW d \in DOMAIN t.scopes, NEW s
    PROVE  s \in AncestorsOf(t, d)
               <=> \E c \in ChildrenOf(t, s) : c \in {d} \cup AncestorsOf(t, d)
<1>1. ASSUME s \in AncestorsOf(t, d)
      PROVE  \E c \in ChildrenOf(t, s) : c \in {d} \cup AncestorsOf(t, d)
    <2> DEFINE Y == {y \in {d} \cup AncestorsOf(t, d) : s \in AncestorsOf(t, y)}
    <2>1. Y \in SUBSET DOMAIN t.scopes /\ d \in Y
        BY <1>1, AncestorsClosed
    <2>2. PICK y \in Y : AncestorsOf(t, y) \cap Y = {}
        <3> HIDE DEF Y
        <3> QED BY <2>1, Topmost
    <2>3. s \in ParentOf(t, y)
        <3> SUFFICES ASSUME s \notin ParentOf(t, y) PROVE FALSE
            OBVIOUS
        <3>1. PICK p \in ParentOf(t, y) : s \in AncestorsOf(t, p)
            BY <2>2, AncestorsByParent
        <3>2. p \in AncestorsOf(t, y)
            BY <3>1, AncestorsClosed
        <3>3. p \in AncestorsOf(t, d)
            BY <2>2, <3>2, AncestorsTransitive
        <3> QED BY <2>2, <3>1, <3>2, <3>3
    <2> QED BY <2>1, <2>2, <2>3 DEF ChildrenOf, ParentOf
<1>2. ASSUME NEW c \in ChildrenOf(t, s), c \in {d} \cup AncestorsOf(t, d)
      PROVE  s \in AncestorsOf(t, d)
    <2>1. s \in AncestorsOf(t, c)
        BY <1>2, AncestorsClosed DEF ChildrenOf, ParentOf
    <2> QED BY <1>2, <2>1, AncestorsTransitive
<1> QED BY <1>1, <1>2

\* Two children of one scope have nothing below them in common.
LEMMA ChildrenApart ==
    ASSUME NEW t, IsFiniteSet(DOMAIN t.scopes), ParentsDefined(t), Forest(t),
           \A s \in DOMAIN t.scopes : \A p, q \in t.scopes[s].parent : p = q,
           NEW s, NEW c \in ChildrenOf(t, s), NEW d \in ChildrenOf(t, s), c # d,
           NEW x \in DOMAIN t.scopes, c \in {x} \cup AncestorsOf(t, x)
    PROVE  d \notin {x} \cup AncestorsOf(t, x)
<1> SUFFICES ASSUME d \in {x} \cup AncestorsOf(t, x) PROVE FALSE
    OBVIOUS
<1>1. ASSUME NEW a \in ChildrenOf(t, s), NEW b \in ChildrenOf(t, s), a \in AncestorsOf(t, b)
      PROVE  FALSE
    <2>1. a \in DOMAIN t.scopes /\ s \in t.scopes[a].parent
          /\ b \in DOMAIN t.scopes /\ t.scopes[b].parent = {s}
        BY <1>1 DEF ChildrenOf
    <2>2. ParentOf(t, b) = {s} /\ s \in ParentOf(t, a)
        BY <2>1 DEF ParentOf
    <2>3. a = s \/ a \in AncestorsOf(t, s)
        BY <1>1, <2>2, AncestorsByParent
    <2>4. s \in AncestorsOf(t, a)
        BY <2>2, AncestorsClosed
    <2>5. a \in AncestorsOf(t, a)
        BY <2>3, <2>4, AncestorsTransitive
    <2> QED BY <2>1, <2>5 DEF Forest
<1> QED BY <1>1, OneLine

-------------------------------------------------------------------------------
(* The properties of a document that is valid *)

LEMMA ValidIsForest ==
    ASSUME IsDocument(topology)
    PROVE  HierarchyIsForest
<1> DEFINE t == topology
<1> SUFFICES ASSUME Valid(topology), NEW S \in SUBSET DOMAIN topology.scopes, S # {}
             PROVE  \E s \in S : topology.scopes[s].parent \cap S = {}
    BY DEF HierarchyIsForest
<1>1. IsFiniteSet(DOMAIN topology.scopes) /\ ParentsDefined(topology) /\ Forest(topology)
    BY DEF IsDocument, Lists, Valid
<1>2. PICK s \in S : AncestorsOf(topology, s) \cap S = {}
    BY <1>1, Topmost
<1>3. ParentOf(topology, s) \subseteq AncestorsOf(topology, s)
    BY <1>1, AncestorsClosed
<1> QED BY <1>2, <1>3 DEF ParentOf

LEMMA ValidLivesOnce ==
    ASSUME IsDocument(topology)
    PROVE  LiveOnce
<1>1. ASSUME Valid(topology) PROVE IncarnationsApart(topology) /\ BindingsApart(topology)
    BY <1>1 DEF Valid
<1> QED BY <1>1, IncarnationsLiveOnce, BindingsLiveOnce DEF LiveOnce

LEMMA ValidAttributes ==
    ASSUME IsDocument(topology)
    PROVE  AttributionUnique
<1> DEFINE t == topology
           Below(s) == {s} \cup DescendantsOf(t, s)
<1> SUFFICES ASSUME Valid(t), NEW s \in DOMAIN t.scopes
             PROVE  LET below == [c \in ChildrenOf(t, s) |-> ResourcesOf(t, c)]
                        own   == t.scopes[s].members
                    IN  /\ ResourcesOf(t, s) = own \cup UNION {below[c] : c \in DOMAIN below}
                        /\ \A c \in DOMAIN below :
                               /\ below[c] \cap own = {}
                               /\ \A d \in DOMAIN below \ {c} : below[c] \cap below[d] = {}
    BY Zenon DEF AttributionUnique
<1>1. /\ IsFiniteSet(DOMAIN t.scopes) /\ ParentsDefined(t) /\ Forest(t) /\ Membership(t)
      /\ \A x \in DOMAIN t.scopes : \A p, q \in t.scopes[x].parent : p = q
    BY DEF IsDocument, Lists, Valid
<1>2. \A x, y \in DOMAIN t.scopes :
          x # y => t.scopes[x].members \cap t.scopes[y].members = {}
    BY <1>1 DEF Membership, Owners
<1>3. \A c \in DOMAIN t.scopes : \A x :
          x \in Below(c) <=> x \in DOMAIN t.scopes /\ c \in {x} \cup AncestorsOf(t, x)
    BY DEF DescendantsOf
<1>4. ChildrenOf(t, s) \subseteq DOMAIN t.scopes
    BY DEF ChildrenOf
<1>5. Below(s) = {s} \cup UNION {Below(c) : c \in ChildrenOf(t, s)}
    <2>1. \A x \in DOMAIN t.scopes :
              s \in AncestorsOf(t, x) <=> \E c \in ChildrenOf(t, s) : x \in Below(c)
        BY <1>1, <1>3, <1>4, AboveByChild
    <2>2. \A c \in ChildrenOf(t, s) : Below(c) \subseteq DOMAIN t.scopes
        BY <1>3, <1>4
    <2> HIDE DEF Below
    <2> QED BY <1>3, <2>1, <2>2
<1>6. \A c \in ChildrenOf(t, s) : s \notin Below(c)
    <2> SUFFICES ASSUME NEW c \in ChildrenOf(t, s), s \in Below(c) PROVE FALSE
        OBVIOUS
    <2>1. s \in AncestorsOf(t, s)
        BY <1>1, <1>3, <1>4, AboveByChild
    <2> QED BY <1>1, <2>1 DEF Forest
<1>7. \A c, d \in ChildrenOf(t, s) : c # d => Below(c) \cap Below(d) = {}
    BY <1>1, <1>3, <1>4, ChildrenApart
<1>8. \A c : ResourcesOf(t, c) = UNION {t.scopes[x].members : x \in Below(c)}
    BY DEF ResourcesOf
<1>9. \A c \in DOMAIN t.scopes : Below(c) \subseteq DOMAIN t.scopes
    BY <1>3
<1> HIDE DEF Below, t
<1>10. ResourcesOf(t, s)
           = t.scopes[s].members \cup UNION {ResourcesOf(t, c) : c \in ChildrenOf(t, s)}
    BY <1>5, <1>8
<1>11. \A c \in ChildrenOf(t, s) : ResourcesOf(t, c) \cap t.scopes[s].members = {}
    BY <1>2, <1>4, <1>6, <1>8, <1>9
<1>12. \A c, d \in ChildrenOf(t, s) : c # d => ResourcesOf(t, c) \cap ResourcesOf(t, d) = {}
    BY <1>2, <1>4, <1>7, <1>8, <1>9
<1> DEFINE below == [c \in ChildrenOf(t, s) |-> ResourcesOf(t, c)]
<1>13. DOMAIN below = ChildrenOf(t, s) /\ \A c \in ChildrenOf(t, s) : below[c] = ResourcesOf(t, c)
    OBVIOUS
<1>14. UNION {below[c] : c \in DOMAIN below} = UNION {ResourcesOf(t, c) : c \in ChildrenOf(t, s)}
    OBVIOUS
<1> HIDE DEF below
<1> QED BY <1>10, <1>11, <1>12, <1>13, <1>14 DEF below

\* Every way up ends in a scope without a parent, and in one only.
LEMMA RootAbove ==
    ASSUME NEW t, IsFiniteSet(DOMAIN t.scopes), ParentsDefined(t), Forest(t),
           \A s \in DOMAIN t.scopes : \A p, q \in t.scopes[s].parent : p = q,
           NEW d \in DOMAIN t.scopes
    PROVE  /\ \E r \in {d} \cup AncestorsOf(t, d) : t.scopes[r].parent = {}
           /\ \A r, q \in {d} \cup AncestorsOf(t, d) :
                  t.scopes[r].parent = {} /\ t.scopes[q].parent = {} => r = q
<1> DEFINE Y == {d} \cup AncestorsOf(t, d)
<1>1. Y \in SUBSET DOMAIN t.scopes /\ Y # {}
    BY AncestorsClosed
<1>2. PICK r \in Y : AncestorsOf(t, r) \cap Y = {}
    <2> HIDE DEF Y
    <2> QED BY <1>1, Topmost
<1>3. AncestorsOf(t, r) \subseteq Y
    BY <1>2, AncestorsTransitive
<1>4. t.scopes[r].parent = {}
    <2>1. ParentOf(t, r) \subseteq AncestorsOf(t, r)
        BY AncestorsClosed
    <2> QED BY <1>1, <1>2, <1>3, <2>1 DEF ParentOf
<1>5. \A q \in Y : t.scopes[q].parent = {} => AncestorsOf(t, q) = {}
    BY <1>1, AncestorsLeast DEF ParentOf, Closed
<1>6. \A p, q \in Y : t.scopes[p].parent = {} /\ t.scopes[q].parent = {} => p = q
    BY <1>5, OneLine
<1> QED BY <1>2, <1>4, <1>6
===============================================================================
