----------------------------- MODULE FiniteLemmas -----------------------------
(***************************************************************************)
(* Facts about numbers, finite sets, iterations and sums that the proofs   *)
(* share.  Induction is replaced by the least counterexample: every        *)
(* nonempty set of natural numbers has a least element.                    *)
(***************************************************************************)
EXTENDS Integers, FiniteSets, FiniteSetTheorems, WellFoundedInduction, TLAPS

-------------------------------------------------------------------------------
(* Numbers and finite sets *)

\* Every nonempty set of natural numbers has a least one.
LEMMA LeastNumber ==
    ASSUME NEW T \in SUBSET Nat, T # {}
    PROVE  \E n \in T : \A m \in T : n <= m
<1>1. IsWellFoundedOn(OpToRel(<, Nat), Nat)
    BY NatLessThanWellFounded
<1>2. OpToRel(<, Nat) = {p \in Nat \X Nat : p[1] < p[2]}
    BY DEF OpToRel
<1>3. PICK n \in T : \A m \in T : ~(<<m, n>> \in OpToRel(<, Nat))
    BY <1>1, WFMin, Zenon
<1>4. \A m \in T : ~(m < n)
    BY <1>2, <1>3
<1> QED BY <1>4

\* Every finite one has a greatest.
LEMMA GreatestNumber ==
    ASSUME NEW T \in SUBSET Nat, T # {}, IsFiniteSet(T)
    PROVE  \E n \in T : \A m \in T : m <= n
<1> DEFINE Above(n) == {m \in T : n < m}
           F == {Above(n) : n \in T}
<1>1. F \subseteq FiniteSubsetsOf(T) /\ F # {}
    <2>1. \A n \in T : Above(n) \in SUBSET T
        OBVIOUS
    <2>2. \A n \in T : IsFiniteSet(Above(n))
        BY <2>1, FS_Subset
    <2> QED BY <2>1, <2>2 DEF FiniteSubsetsOf
<1>2. PICK S \in F : \A R \in F : ~(<<R, S>> \in StrictSubsetOrdering(T))
    <2> HIDE DEF F
    <2> QED BY <1>1, FS_StrictSubsetOrderingWellFounded, WFMin, Zenon
<1>3. PICK n \in T : S = Above(n)
    OBVIOUS
<1>4. ASSUME NEW m \in T, n < m PROVE FALSE
    <2>1. Above(m) \subseteq Above(n) /\ Above(m) # Above(n)
        <3>1. \A k \in T : k \in Nat
            OBVIOUS
        <3>2. \A k \in T : m < k => n < k
            BY <1>4, <3>1
        <3>3. m \in Above(n) /\ m \notin Above(m)
            BY <1>4, <3>1
        <3> QED BY <3>2, <3>3
    <2>2. <<Above(m), Above(n)>> \in StrictSubsetOrdering(T)
        BY <2>1 DEF StrictSubsetOrdering
    <2> QED BY <1>2, <1>3, <2>2
<1> QED BY <1>4

\* A set that has one element has no two.
LEMMA OnlyOne ==
    ASSUME NEW S, IsFiniteSet(S), Cardinality(S) = 1
    PROVE  \E x : S = {x}
<1>1. S # {}
    BY FS_EmptySet
<1>2. PICK x : x \in S
    BY <1>1
<1>3. Cardinality(S \ {x}) = 0 /\ IsFiniteSet(S \ {x})
    BY <1>2, FS_RemoveElement
<1>4. S \ {x} = {}
    BY <1>3, FS_EmptySet
<1> QED BY <1>2, <1>4

\* The values of a function on a finite set are finitely many.
LEMMA FiniteValues ==
    ASSUME NEW f, IsFiniteSet(DOMAIN f)
    PROVE  IsFiniteSet({f[x] : x \in DOMAIN f})
<1> DEFINE g == [x \in DOMAIN f |-> f[x]]
           V == {f[x] : x \in DOMAIN f}
<1>1. g \in Surjection(DOMAIN f, V)
    BY DEF Surjection
<1> QED BY <1>1, FS_Surjection

-------------------------------------------------------------------------------
(* Iterating a function *)

Iterates(f, G, x, n) == f[0] = x /\ \A m \in 1..n : f[m] = G[f[m - 1]]

\* A function can be iterated n times.
LEMMA Iterated ==
    ASSUME NEW D, NEW G \in [D -> D], NEW x \in D, NEW n \in Nat
    PROVE  \E f \in [0..n -> D] : Iterates(f, G, x, n)
<1> DEFINE Does(k) == \E f \in [0..k -> D] : Iterates(f, G, x, k)
           Bad == {k \in Nat : ~Does(k)}
<1>1. SUFFICES ASSUME Bad # {} PROVE FALSE
    OBVIOUS
<1>2. PICK k \in Bad : \A m \in Bad : k <= m
    BY <1>1, LeastNumber
<1>3. CASE k = 0
    <2> DEFINE f == [i \in 0..0 |-> x]
    <2>1. f \in [0..0 -> D] /\ f[0] = x /\ 1..0 = {}
        OBVIOUS
    <2>2. Iterates(f, G, x, 0)
        BY <2>1 DEF Iterates
    <2> QED BY <1>2, <1>3, <2>1, <2>2
<1>4. CASE k # 0
    <2>1. k - 1 \in Nat /\ Does(k - 1)
        <3> HIDE DEF Does
        <3> QED BY <1>2, <1>4
    <2>2. PICK f \in [0..(k - 1) -> D] :
                f[0] = x /\ \A m \in 1..(k - 1) : f[m] = G[f[m - 1]]
        BY <2>1 DEF Iterates
    <2> DEFINE g == [i \in 0..k |-> IF i = k THEN G[f[k - 1]] ELSE f[i]]
    <2>3. g \in [0..k -> D] /\ g[0] = x
        BY <1>4, <2>1, <2>2
    <2>4. \A m \in 1..k : g[m] = G[g[m - 1]]
        BY <2>1, <2>2
    <2>5. Iterates(g, G, x, k)
        BY <2>3, <2>4 DEF Iterates
    <2> QED BY <1>2, <2>3, <2>5
<1> QED BY <1>3, <1>4

-------------------------------------------------------------------------------
(* Weights.  A weight function gives every element of a set a number; the weight of the set *)
(* is the number of its units, so that facts about sums are facts about bijections.         *)

Weighs(w, S) == IsFiniteSet(S) /\ \A x \in S : w[x] \in Nat
Units(w, S)  == {u \in S \X Nat : u[2] \in 1..w[u[1]]}
Weight(w, S) == Cardinality(Units(w, S))

LEMMA UnitsOfOne ==
    ASSUME NEW w, NEW x, w[x] \in Nat
    PROVE  IsFiniteSet(Units(w, {x})) /\ Weight(w, {x}) = w[x]
<1> DEFINE b == [i \in 1..w[x] |-> <<x, i>>]
<1>1. b \in Bijection(1..w[x], Units(w, {x}))
    <2>1. \A i \in 1..w[x] : b[i] \in Units(w, {x})
        BY DEF Units
    <2>2. \A i, j \in 1..w[x] : b[i] = b[j] => i = j
        OBVIOUS
    <2>3. ASSUME NEW u \in Units(w, {x}) PROVE \E i \in 1..w[x] : b[i] = u
        <3>1. u[1] = x /\ u[2] \in 1..w[x] /\ u = <<u[1], u[2]>>
            BY DEF Units
        <3> QED BY <3>1
    <2> QED BY <2>1, <2>2, <2>3 DEF Bijection, Injection, Surjection, IsInjective
<1>2. IsFiniteSet(1..w[x]) /\ Cardinality(1..w[x]) = w[x]
    BY FS_Interval
<1>3. ExistsBijection(1..w[x], Units(w, {x}))
    BY <1>1 DEF ExistsBijection
<1> QED BY <1>2, <1>3, FS_Bijection DEF Weight

\* A weight is a number.
LEMMA WeightIs ==
    ASSUME NEW w, NEW S, Weighs(w, S)
    PROVE  IsFiniteSet(Units(w, S)) /\ Weight(w, S) \in Nat
<1> DEFINE U == {Units(w, {x}) : x \in S}
           f == [x \in S |-> Units(w, {x})]
<1>1. IsFiniteSet(U)
    <2>1. f \in Surjection(S, U)
        BY DEF Surjection
    <2> QED BY <2>1, FS_Surjection DEF Weighs
<1>2. \A T \in U : IsFiniteSet(T)
    BY UnitsOfOne DEF Weighs
<1>3. UNION U = Units(w, S)
    BY DEF Units
<1>4. IsFiniteSet(UNION U)
    <2> HIDE DEF U
    <2> QED BY <1>1, <1>2, FS_UNION
<1> QED BY <1>3, <1>4, FS_CardinalityType DEF Weight

LEMMA WeightOfNone ==
    ASSUME NEW w
    PROVE  Weight(w, {}) = 0
<1>1. Units(w, {}) = {}
    BY DEF Units
<1> QED BY <1>1, FS_EmptySet DEF Weight

\* The weight of two sets that share nothing.
LEMMA WeightOfBoth ==
    ASSUME NEW w, NEW S, NEW T, Weighs(w, S), Weighs(w, T), S \cap T = {}
    PROVE  Weighs(w, S \cup T) /\ Weight(w, S \cup T) = Weight(w, S) + Weight(w, T)
<1>1. Weighs(w, S \cup T)
    BY FS_Union DEF Weighs
<1>2. Units(w, S \cup T) = Units(w, S) \cup Units(w, T) /\ Units(w, S) \cap Units(w, T) = {}
    BY DEF Units
<1>3. /\ IsFiniteSet(Units(w, S)) /\ IsFiniteSet(Units(w, T))
      /\ Cardinality(Units(w, S)) \in Nat /\ Cardinality(Units(w, T)) \in Nat
    BY WeightIs DEF Weight
<1>4. Cardinality(Units(w, S) \cup Units(w, T))
          = Cardinality(Units(w, S)) + Cardinality(Units(w, T))
    BY <1>2, <1>3, FS_Union, FS_EmptySet
<1> QED BY <1>1, <1>2, <1>4 DEF Weight

\* One element can be weighed apart.
LEMMA WeightApart ==
    ASSUME NEW w, NEW S, Weighs(w, S), NEW x \in S
    PROVE  Weighs(w, S \ {x}) /\ Weight(w, S) = w[x] + Weight(w, S \ {x})
<1>1. Weighs(w, {x}) /\ Weighs(w, S \ {x})
    BY FS_Subset, FS_Singleton DEF Weighs
<1>2. S = {x} \cup (S \ {x}) /\ {x} \cap (S \ {x}) = {}
    OBVIOUS
<1>3. Weight(w, S) = Weight(w, {x}) + Weight(w, S \ {x})
    BY <1>1, <1>2, WeightOfBoth
<1> QED BY <1>1, <1>3, UnitsOfOne DEF Weighs

\* Elements are weighed alike, under whatever names.
LEMMA WeightRenamed ==
    ASSUME NEW S, NEW T, NEW h \in Bijection(S, T), NEW w, NEW v, \A x \in S : v[h[x]] = w[x],
           Weighs(w, S)
    PROVE  Weighs(v, T) /\ Weight(v, T) = Weight(w, S)
<1>1. /\ h \in [S -> T] /\ \A x, y \in S : h[x] = h[y] => x = y
      /\ \A y \in T : \E x \in S : h[x] = y
    BY DEF Bijection, Injection, Surjection, IsInjective
<1> DEFINE b == [u \in Units(w, S) |-> <<h[u[1]], u[2]>>]
<1>2. \A u \in Units(w, S) : b[u] \in Units(v, T)
    BY <1>1 DEF Units
<1>3. \A t, u \in Units(w, S) : b[t] = b[u] => t = u
    BY <1>1 DEF Units
<1>4. ASSUME NEW y \in Units(v, T) PROVE \E u \in Units(w, S) : b[u] = y
    <2>1. PICK x \in S : h[x] = y[1]
        BY <1>1 DEF Units
    <2>2. <<x, y[2]>> \in Units(w, S) /\ y = <<y[1], y[2]>>
        BY <2>1 DEF Units
    <2> QED BY <2>1, <2>2
<1>5. b \in Bijection(Units(w, S), Units(v, T))
    BY <1>2, <1>3, <1>4 DEF Bijection, Injection, Surjection, IsInjective
<1>6. Weight(v, T) = Weight(w, S)
    BY <1>5, WeightIs, FS_Bijection DEF ExistsBijection, Weight
<1>7. Weighs(v, T)
    <2>1. ExistsBijection(S, T)
        BY DEF ExistsBijection
    <2> QED BY <1>1, <2>1, FS_Bijection DEF Weighs
<1> QED BY <1>6, <1>7

LEMMA WeightAlike ==
    ASSUME NEW S, NEW w, NEW v, \A x \in S : v[x] = w[x], Weighs(w, S)
    PROVE  Weighs(v, S) /\ Weight(v, S) = Weight(w, S)
<1>1. Units(v, S) = Units(w, S)
    BY DEF Units
<1> QED BY <1>1 DEF Weight, Weighs

\* The weight of a set is the weight of its parts: v has the weights of the parts.
LEMMA WeightOfParts ==
    ASSUME NEW S, NEW w, Weighs(w, S), NEW K, IsFiniteSet(K), NEW key \in [S -> K],
           NEW v, \A k \in K : v[k] = Weight(w, {x \in S : key[x] = k})
    PROVE  Weighs(v, K) /\ Weight(v, K) = Weight(w, S)
<1> DEFINE Part(k) == {x \in S : key[x] = k}
<1>1. \A k \in K : /\ Weighs(w, Part(k))
                   /\ v[k] \in Nat /\ ExistsBijection(1..v[k], Units(w, Part(k)))
    <2> SUFFICES ASSUME NEW k \in K
                 PROVE  /\ Weighs(w, Part(k)) /\ v[k] \in Nat
                        /\ ExistsBijection(1..v[k], Units(w, Part(k)))
        OBVIOUS
    <2>1. Weighs(w, Part(k))
        BY FS_Subset DEF Weighs
    <2>2. v[k] = Weight(w, Part(k))
        OBVIOUS
    <2> HIDE DEF Part
    <2> QED BY <2>1, <2>2, WeightIs, FS_CardinalityType DEF Weight
<1> DEFINE c == [k \in K |-> CHOOSE b : b \in Bijection(1..v[k], Units(w, Part(k)))]
<1>2. \A k \in K : c[k] \in Bijection(1..v[k], Units(w, Part(k)))
    <2> SUFFICES ASSUME NEW k \in K PROVE c[k] \in Bijection(1..v[k], Units(w, Part(k)))
        OBVIOUS
    <2>1. \E b : b \in Bijection(1..v[k], Units(w, Part(k)))
        BY <1>1 DEF ExistsBijection
    <2>2. c[k] = CHOOSE b : b \in Bijection(1..v[k], Units(w, Part(k)))
        OBVIOUS
    <2> QED BY <2>1, <2>2, Zenon
<1>3. \A u : \A k \in K : u \in Units(w, Part(k)) <=> u \in Units(w, S) /\ key[u[1]] = k
    BY DEF Units
<1> HIDE DEF c, Part
<1>4. \A k \in K :
          /\ \A i \in 1..v[k] : c[k][i] \in Units(w, Part(k))
          /\ \A i, j \in 1..v[k] : c[k][i] = c[k][j] => i = j
          /\ \A u \in Units(w, Part(k)) : \E i \in 1..v[k] : c[k][i] = u
    BY <1>2 DEF Bijection, Injection, Surjection, IsInjective
<1> DEFINE b == [u \in Units(v, K) |-> c[u[1]][u[2]]]
<1>5. \A u \in Units(v, K) : /\ u[1] \in K /\ u[2] \in 1..v[u[1]] /\ u = <<u[1], u[2]>>
                             /\ b[u] \in Units(w, Part(u[1]))
    BY <1>4 DEF Units
<1>6. \A u \in Units(v, K) : b[u] \in Units(w, S) /\ key[b[u][1]] = u[1]
    <2> HIDE DEF b
    <2> QED BY <1>3, <1>5
<1>7. ASSUME NEW t \in Units(v, K), NEW u \in Units(v, K), b[t] = b[u] PROVE t = u
    <2>1. t[1] = u[1]
        BY <1>6, <1>7
    <2>2. c[t[1]][t[2]] = c[t[1]][u[2]]
        BY <1>7, <2>1
    <2>3. t[2] = u[2]
        BY <1>4, <1>5, <2>1, <2>2
    <2> QED BY <1>5, <2>1, <2>3
<1>8. ASSUME NEW y \in Units(w, S) PROVE \E u \in Units(v, K) : b[u] = y
    <2>1. key[y[1]] \in K /\ y \in Units(w, Part(key[y[1]]))
        BY <1>3 DEF Units
    <2>2. PICK i \in 1..v[key[y[1]]] : c[key[y[1]]][i] = y
        BY <1>4, <2>1
    <2>3. <<key[y[1]], i>> \in Units(v, K)
        BY <1>1, <2>1 DEF Units
    <2> QED BY <2>2, <2>3
<1>9. b \in Bijection(Units(v, K), Units(w, S))
    BY <1>6, <1>7, <1>8 DEF Bijection, Injection, Surjection, IsInjective
<1>10. Weighs(v, K)
    BY <1>1 DEF Weighs
<1>11. Weight(v, K) = Weight(w, S)
    BY <1>9, <1>10, WeightIs, FS_Bijection DEF ExistsBijection, Weight
<1> QED BY <1>10, <1>11

\* R has one record h[k] for every key k, in which t is the weight of what has that key.
LEMMA WeightOfGroups ==
    ASSUME NEW S, NEW w, Weighs(w, S), NEW K, IsFiniteSet(K), NEW key \in [S -> K],
           NEW R, NEW h \in Bijection(K, R),
           NEW t, \A k \in K : t[h[k]] = Weight(w, {x \in S : key[x] = k})
    PROVE  Weighs(t, R) /\ Weight(t, R) = Weight(w, S)
<1> DEFINE v == [k \in K |-> Weight(w, {x \in S : key[x] = k})]
<1>1. \A k \in K : v[k] = Weight(w, {x \in S : key[x] = k})
    OBVIOUS
<1>2. \A k \in K : t[h[k]] = v[k]
    OBVIOUS
<1> HIDE DEF v
<1>3. Weighs(v, K) /\ Weight(v, K) = Weight(w, S)
    BY <1>1, WeightOfParts
<1> QED BY <1>2, <1>3, WeightRenamed

-------------------------------------------------------------------------------
(* Sums that are folds *)

\* f has the sums of the values of w, element by element as they are chosen.
Chosen(R) == CHOOSE x \in R : TRUE
AddsUp(f, w, S) ==
    \A R \in SUBSET S : f[R] = IF R = {} THEN 0 ELSE w[Chosen(R)] + f[R \ {Chosen(R)}]

LEMMA WeightAddsUp ==
    ASSUME NEW w, NEW S, Weighs(w, S)
    PROVE  AddsUp([R \in SUBSET S |-> Weight(w, R)], w, S)
<1> SUFFICES ASSUME NEW R \in SUBSET S
             PROVE  Weight(w, R) = IF R = {} THEN 0
                                   ELSE w[Chosen(R)] + Weight(w, R \ {Chosen(R)})
    BY DEF AddsUp
<1>1. Weighs(w, R)
    BY FS_Subset DEF Weighs
<1>2. R # {} => Chosen(R) \in R
    BY DEF Chosen
<1> QED BY <1>1, <1>2, WeightOfNone, WeightApart

\* Whatever the order, the sum is the weight.
LEMMA SumIsWeight ==
    ASSUME NEW w, NEW S, Weighs(w, S), NEW f, AddsUp(f, w, S)
    PROVE  f[S] = Weight(w, S)
<1> DEFINE Bad == {R \in SUBSET S : f[R] # Weight(w, R)}
           N == {Cardinality(R) : R \in Bad}
<1> SUFFICES ASSUME Bad # {} PROVE FALSE
    BY DEF Weighs
<1>1. \A R \in SUBSET S : IsFiniteSet(R) /\ Cardinality(R) \in Nat /\ Weighs(w, R)
    BY FS_Subset, FS_CardinalityType DEF Weighs
<1>2. PICK R \in Bad : \A Q \in Bad : Cardinality(R) <= Cardinality(Q)
    <2>1. N \in SUBSET Nat /\ N # {}
        BY <1>1
    <2>2. PICK n \in N : \A m \in N : n <= m
        <3> HIDE DEF N
        <3> QED BY <2>1, LeastNumber
    <2> QED BY <2>2
<1>3. R # {}
    BY <1>2, WeightOfNone DEF AddsUp
<1> DEFINE x == Chosen(R)
<1>4. x \in R
    BY <1>3 DEF Chosen
<1> HIDE DEF x
<1>5. Cardinality(R \ {x}) < Cardinality(R)
    BY <1>1, <1>4, FS_RemoveElement
<1>6. f[R \ {x}] = Weight(w, R \ {x})
    BY <1>1, <1>2, <1>5
<1>7. f[R] = w[x] + f[R \ {x}]
    BY <1>3 DEF AddsUp, x
<1> QED BY <1>1, <1>2, <1>4, <1>6, <1>7, WeightApart
===============================================================================
