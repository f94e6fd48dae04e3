--------------------------- MODULE AccountingProofs ---------------------------
(* Theorems about Accounting, for every set of definitions, policies, documents and evidence. *)
EXTENDS Accounting, TopologyProofs

-------------------------------------------------------------------------------
(* A document that is built stays a document *)

LEMMA EmptyDocument == IsDocument(EmptyTopology) /\ Valid(EmptyTopology)
<1>1. DOMAIN EmptyTopology = Lists \cup {"bindings"} /\ IsMap(EmptyTopology)
    BY DEF EmptyTopology, Lists, IsMap
<1>2. \A f \in Lists \cup {"bindings"} : EmptyTopology[f] = << >>
    BY DEF EmptyTopology, Lists
<1>3. DOMAIN << >> = {} /\ << >> \in Seq({})
    OBVIOUS
<1>4. IsFiniteSet({})
    BY FS_EmptySet
<1>5. IsDocument(EmptyTopology)
    <2>1. IsMap(<< >>)
        BY DEF IsMap
    <2>2. \A f \in Lists : IsMap(EmptyTopology[f]) /\ IsFiniteSet(DOMAIN EmptyTopology[f])
        BY <1>2, <1>3, <1>4, <2>1
    <2>3. \A f \in Lists \cup {"bindings"} : DOMAIN EmptyTopology[f] = {}
        BY <1>2
    <2>4. IsList(EmptyTopology.bindings)
        <3>1. EmptyTopology.bindings = << >>
            BY <1>2
        <3>2. {EmptyTopology.bindings[i] : i \in DOMAIN EmptyTopology.bindings} = {}
            BY <2>3
        <3> QED BY <1>3, <3>1, <3>2 DEF IsList
    <2> HIDE DEF EmptyTopology
    <2> QED BY <1>1, <2>2, <2>3, <2>4 DEF IsDocument, Lists
<1>6. Valid(EmptyTopology)
    BY <1>2, <1>3 DEF Lists, Valid, ParentsDefined, Forest, Membership, SourcesDefined,
       IncarnationsApart, BindingsDefined, BindingsApart, FlowsDefined, PathsDefined,
       ReservationsDefined
<1> QED BY <1>5, <1>6

LEMMA PutOne ==
    ASSUME NEW f, IsMap(f), IsFiniteSet(DOMAIN f), NEW id, id \notin DOMAIN f, NEW d
    PROVE  /\ IsMap(Put(f, id, d)) /\ IsFiniteSet(DOMAIN Put(f, id, d))
           /\ DOMAIN Put(f, id, d) = DOMAIN f \cup {id}
<1>1. IsFiniteSet(DOMAIN f \cup {id})
    BY FS_AddElement
<1> QED BY <1>1 DEF Put, IsMap

LEMMA PutIn ==
    ASSUME NEW f, NEW id, id \notin DOMAIN f, NEW d
    PROVE  Put(f, id, d)[id] = d /\ \A x \in DOMAIN f : Put(f, id, d)[x] = f[x]
BY DEF Put

\* A definition that has the fields of its kind.
FitsIn(field, id, d) ==
    /\ field \in {"generations", "reservations"} => IsSpan(d, "from", "until")
    /\ field = "incarnations" => /\ id \in Nat /\ IsSpan(d, "started", "retired")
                                 /\ NotBefore(d.started, d.retired)
    /\ field = "scopes" => id # "nil" /\ \A p, q \in d.parent : p = q
    /\ field = "sources" => id \in Nat /\ IsSource(d)

LEMMA AddedDocument ==
    ASSUME IsDocument(topology), NEW field \in Lists, NEW id, NEW d, FitsIn(field, id, d),
           Add(field, id, d)
    PROVE  IsDocument(topology')
<1> DEFINE g == Put(topology[field], id, d)
<1>1. /\ IsMap(g) /\ DOMAIN g = DOMAIN topology[field] \cup {id} /\ IsFiniteSet(DOMAIN g)
      /\ g[id] = d /\ \A x \in DOMAIN topology[field] : g[x] = topology[field][x]
    <2>1. IsMap(topology[field]) /\ IsFiniteSet(DOMAIN topology[field])
          /\ id \notin DOMAIN topology[field]
        BY DEF IsDocument, Add, Defined
    <2>2. IsMap(g) /\ DOMAIN g = DOMAIN topology[field] \cup {id} /\ IsFiniteSet(DOMAIN g)
        BY <2>1, PutOne
    <2>3. g[id] = d /\ \A x \in DOMAIN topology[field] : g[x] = topology[field][x]
        BY <2>1, PutIn
    <2> QED BY <2>2, <2>3
<1>2. topology' = [topology EXCEPT ![field] = g]
    BY DEF Add
<1> HIDE DEF g
<1>3. /\ IsMap(topology') /\ DOMAIN topology' = Lists \cup {"bindings"}
      /\ topology'[field] = g
      /\ \A f \in (Lists \cup {"bindings"}) \ {field} : topology'[f] = topology[f]
    BY <1>2 DEF IsDocument, IsMap
<1>4. topology'.bindings = topology.bindings
    BY <1>3 DEF Lists
<1>5. \A f \in Lists : IsMap(topology'[f]) /\ IsFiniteSet(DOMAIN topology'[f])
    BY <1>1, <1>3 DEF IsDocument
<1>6. \A f \in Lists : \A x \in DOMAIN topology'[f] :
          \/ f = field /\ x = id /\ topology'[f][x] = d
          \/ x \in DOMAIN topology[f] /\ topology'[f][x] = topology[f][x]
    BY <1>1, <1>3
<1>7. "bindings" \notin Lists /\ {"generations", "reservations", "incarnations", "scopes", "sources"} \subseteq Lists
    BY DEF Lists
<1>8. /\ \A x \in DOMAIN topology'.generations : IsSpan(topology'.generations[x], "from", "until")
      /\ \A x \in DOMAIN topology'.reservations : IsSpan(topology'.reservations[x], "from", "until")
    BY <1>6, <1>7 DEF IsDocument, FitsIn
<1>9. \A x \in DOMAIN topology'.incarnations :
          /\ x \in Nat /\ IsSpan(topology'.incarnations[x], "started", "retired")
          /\ NotBefore(topology'.incarnations[x].started, topology'.incarnations[x].retired)
    BY <1>6, <1>7 DEF IsDocument, FitsIn
<1>10. /\ "nil" \notin DOMAIN topology'.scopes
       /\ \A s \in DOMAIN topology'.scopes : \A p, q \in topology'.scopes[s].parent : p = q
    BY <1>6, <1>7 DEF IsDocument, FitsIn
<1>11. \A s \in DOMAIN topology'.sources : s \in Nat /\ IsSource(topology'.sources[s])
    BY <1>6, <1>7 DEF IsDocument, FitsIn
<1>12. /\ IsList(topology'.bindings)
       /\ \A i \in DOMAIN topology'.bindings :
             /\ IsSpan(topology'.bindings[i], "from", "until")
             /\ NotBefore(topology'.bindings[i].from, topology'.bindings[i].until)
    BY <1>4 DEF IsDocument
<1> QED BY <1>3, <1>5, <1>8, <1>9, <1>10, <1>11, <1>12 DEF IsDocument

LEMMA AppendedIs ==
    ASSUME NEW s, IsList(s), NEW x
    PROVE  /\ IsList(Append(s, x))
           /\ DOMAIN s = 1..Len(s) /\ Len(s) \in Nat
           /\ DOMAIN Append(s, x) = 1..(Len(s) + 1) /\ Append(s, x)[Len(s) + 1] = x
           /\ \A i \in DOMAIN s : Append(s, x)[i] = s[i]
<1> DEFINE S == {s[i] : i \in DOMAIN s}
           a == Append(s, x)
<1>1. s \in Seq(S) /\ s \in Seq(S \cup {x})
    BY DEF IsList
<1>2. /\ a \in Seq(S \cup {x}) /\ DOMAIN s = 1..Len(s) /\ Len(s) \in Nat
      /\ DOMAIN a = 1..(Len(s) + 1) /\ a[Len(s) + 1] = x
      /\ \A i \in DOMAIN s : a[i] = s[i]
    <2> HIDE DEF S
    <2> QED BY <1>1
<1> HIDE DEF a
<1>3. a = [i \in 1..(Len(s) + 1) |-> a[i]] /\ \A i \in DOMAIN a : a[i] \in {a[j] : j \in DOMAIN a}
    BY <1>2
<1>4. IsList(a)
    BY <1>2, <1>3 DEF IsList
<1>5. /\ IsList(a) /\ DOMAIN s = 1..Len(s) /\ Len(s) \in Nat
      /\ DOMAIN a = 1..(Len(s) + 1) /\ a[Len(s) + 1] = x
      /\ \A i \in DOMAIN s : a[i] = s[i]
    BY <1>2, <1>4
<1> QED BY <1>5 DEF a

LEMMA BoundDocument ==
    ASSUME IsDocument(topology), NEW b, IsSpan(b, "from", "until"), AddBinding(b)
    PROVE  IsDocument(topology')
<1> DEFINE old == topology.bindings
           new == Append(old, b)
<1>1. /\ IsMap(topology') /\ DOMAIN topology' = Lists \cup {"bindings"}
      /\ topology'.bindings = new /\ \A f \in Lists : topology'[f] = topology[f]
    BY DEF AddBinding, IsDocument, IsMap, Lists
<1>2. IsList(old)
    BY DEF IsDocument
<1>3. /\ Len(old) \in Nat /\ DOMAIN old = 1..Len(old)
      /\ DOMAIN new = 1..(Len(old) + 1) /\ new[Len(old) + 1] = b
      /\ \A i \in DOMAIN old : new[i] = old[i]
    BY <1>2, AppendedIs
<1>4. IsList(new)
    BY <1>2, AppendedIs
<1> HIDE DEF new
<1>5. \A i \in DOMAIN new : /\ IsSpan(new[i], "from", "until")
                            /\ NotBefore(new[i].from, new[i].until)
    BY <1>3 DEF IsDocument, AddBinding
<1> QED BY <1>1, <1>4, <1>5 DEF IsDocument, Lists

LEMMA BuildsDocument ==
    ASSUME IsDocument(topology), Build
    PROVE  IsDocument(topology')
<1>1. AreDefinitions(Definitions)
    BY AccountingAssumption
<1>2. "bindings" \notin Lists /\ {"generations", "sources", "incarnations", "scopes", "resources",
                                  "flows", "paths", "reservations"} = Lists
    BY DEF Lists
<1>3. ASSUME NEW d \in Definitions.generations, AddGeneration(d.id, d.is)
      PROVE  IsDocument(topology')
    <2>1. FitsIn("generations", d.id, d.is)
        BY <1>1 DEF AreDefinitions, FitsIn
    <2> QED BY <1>2, <1>3, <2>1, AddedDocument DEF AddGeneration
<1>4. ASSUME NEW d \in Definitions.sources, AddSource(d.id, d.is)
      PROVE  IsDocument(topology')
    <2>1. FitsIn("sources", d.id, d.is)
        BY <1>1 DEF AreDefinitions, FitsIn
    <2> QED BY <1>2, <1>4, <2>1, AddedDocument DEF AddSource
<1>5. ASSUME NEW d \in Definitions.incarnations, AddIncarnation(d.id, d.is)
      PROVE  IsDocument(topology')
    <2>1. FitsIn("incarnations", d.id, d.is)
        BY <1>1, <1>5 DEF AreDefinitions, FitsIn, AddIncarnation
    <2> QED BY <1>2, <1>5, <2>1, AddedDocument DEF AddIncarnation
<1>6. ASSUME NEW d \in Definitions.scopes, AddScope(d.id, d.parent, d.members)
      PROVE  IsDocument(topology')
    <2> DEFINE s == [parent  |-> d.parent,
                     members |-> {d.members[i] : i \in DOMAIN d.members}]
    <2>1. s.parent = d.parent
        OBVIOUS
    <2>2. Add("scopes", d.id, s)
        BY <1>6 DEF AddScope
    <2> HIDE DEF s
    <2>3. FitsIn("scopes", d.id, s)
        BY <1>1, <2>1 DEF AreDefinitions, FitsIn
    <2> QED BY <1>2, <2>2, <2>3, AddedDocument
<1>7. ASSUME NEW d \in Definitions.resources, AddResource(d.id, d.is)
      PROVE  IsDocument(topology')
    <2>1. FitsIn("resources", d.id, d.is)
        BY DEF FitsIn
    <2> QED BY <1>2, <1>7, <2>1, AddedDocument DEF AddResource
<1>8. ASSUME NEW b \in Definitions.bindings, AddBinding(b)
      PROVE  IsDocument(topology')
    BY <1>1, <1>8, BoundDocument DEF AreDefinitions
<1>9. ASSUME NEW d \in Definitions.flows, AddFlow(d.id, d.is)
      PROVE  IsDocument(topology')
    <2>1. FitsIn("flows", d.id, d.is)
        BY DEF FitsIn
    <2> QED BY <1>2, <1>9, <2>1, AddedDocument DEF AddFlow
<1>10. ASSUME NEW d \in Definitions.paths, AddPath(d.id, d.is)
       PROVE  IsDocument(topology')
    <2>1. FitsIn("paths", d.id, d.is)
        BY DEF FitsIn
    <2> QED BY <1>2, <1>10, <2>1, AddedDocument DEF AddPath
<1>11. ASSUME NEW d \in Definitions.reservations, AddReservation(d.id, d.is)
       PROVE  IsDocument(topology')
    <2>1. FitsIn("reservations", d.id, d.is)
        BY <1>1 DEF AreDefinitions, FitsIn
    <2> QED BY <1>2, <1>11, <2>1, AddedDocument DEF AddReservation
<1> QED BY <1>3, <1>4, <1>5, <1>6, <1>7, <1>8, <1>9, <1>10, <1>11 DEF Build

-------------------------------------------------------------------------------
(* A document or a policy that was written and read is one, and is read back as it is *)

LEMMA CutTime ==
    ASSUME NEW a \in Int
    PROVE  Cut(a) \in Int /\ Cut(Cut(a)) = Cut(a) /\ \A b \in Int : a <= b => Cut(a) <= Cut(b)
BY TimesAssumption DEF Cut, Instant, Milliseconds

\* x and y are the same but for two fields, and those are cut in y.
CutFrom(x, y, from, until) ==
    /\ IsSpan(y, from, until) /\ DOMAIN y = DOMAIN x
    /\ \A f \in DOMAIN x \ {from, until} : y[f] = x[f]
    /\ y[from] = Cut(x[from]) /\ y[until] = CutIfSet(x[until])
    /\ NotBefore(x[from], x[until]) => NotBefore(y[from], y[until])

LEMMA CutSpan ==
    ASSUME NEW x, NEW from, NEW until, from # until, IsSpan(x, from, until),
           NEW y, y = [x EXCEPT ![from] = Cut(@), ![until] = CutIfSet(@)]
    PROVE  CutFrom(x, y, from, until)
<1>1. /\ DOMAIN y = DOMAIN x /\ IsMap(y)
      /\ \A f \in DOMAIN x \ {from, until} : y[f] = x[f]
      /\ y[from] = Cut(x[from]) /\ y[until] = CutIfSet(x[until])
    BY DEF IsSpan, IsMap
<1>2. Cut(x[from]) \in Int /\ CutIfSet(x[until]) \subseteq Int
    BY CutTime DEF IsSpan, CutIfSet
<1>3. NotBefore(x[from], x[until]) => NotBefore(Cut(x[from]), CutIfSet(x[until]))
    BY CutTime DEF NotBefore, IsSpan, CutIfSet
<1> QED BY <1>1, <1>2, <1>3 DEF CutFrom, IsSpan

LEMMA CutOnce ==
    ASSUME NEW x, NEW y, NEW z, NEW from, NEW until, from # until, IsSpan(x, from, until),
           CutFrom(x, y, from, until), CutFrom(y, z, from, until)
    PROVE  z = y
<1>1. CutIfSet(CutIfSet(x[until])) = CutIfSet(x[until])
    BY CutTime DEF CutIfSet, IsSpan
<1>2. z[from] = y[from] /\ z[until] = y[until]
    BY <1>1, CutTime DEF CutFrom, IsSpan
<1>3. DOMAIN z = DOMAIN y /\ \A f \in DOMAIN y : z[f] = y[f]
    BY <1>2 DEF CutFrom
<1> QED BY <1>3 DEF CutFrom, IsSpan, IsMap

Lives == {"generations", "bindings", "reservations"}

\* u is t with the times of its definitions cut.
CutDocument(t, u) ==
    /\ IsMap(u) /\ DOMAIN u = DOMAIN t
    /\ \A f \in DOMAIN t \ (Lives \cup {"incarnations"}) : u[f] = t[f]
    /\ \A f \in Lives \cup {"incarnations"} : IsMap(u[f]) /\ DOMAIN u[f] = DOMAIN t[f]
    /\ \A f \in Lives : \A x \in DOMAIN t[f] : CutFrom(t[f][x], u[f][x], "from", "until")
    /\ \A x \in DOMAIN t.incarnations :
           CutFrom(t.incarnations[x], u.incarnations[x], "started", "retired")

LEMMA CutEntries ==
    ASSUME NEW t, IsDocument(t)
    PROVE  /\ \A f \in Lives : \A x \in DOMAIN t[f] :
                  CutFrom(t[f][x], CutLife(t[f][x]), "from", "until")
           /\ \A x \in DOMAIN t.incarnations :
                  CutFrom(t.incarnations[x], CutIncarnation(t.incarnations[x]), "started", "retired")
<1>1. \A f \in Lives : \A x \in DOMAIN t[f] : IsSpan(t[f][x], "from", "until")
    BY DEF IsDocument, Lives
<1>2. \A x : IsSpan(x, "from", "until") => CutFrom(x, CutLife(x), "from", "until")
    BY CutSpan DEF CutLife
<1>3. \A x : IsSpan(x, "started", "retired") => CutFrom(x, CutIncarnation(x), "started", "retired")
    BY CutSpan DEF CutIncarnation
<1>4. \A x \in DOMAIN t.incarnations : IsSpan(t.incarnations[x], "started", "retired")
    BY DEF IsDocument
<1> QED BY <1>1, <1>2, <1>3, <1>4

LEMMA RewrittenIsCut ==
    ASSUME NEW t, IsDocument(t)
    PROVE  CutDocument(t, Rewritten(t))
<1> DEFINE u == Rewritten(t)
           gen == [x \in DOMAIN t.generations |-> CutLife(t.generations[x])]
           inc == [x \in DOMAIN t.incarnations |-> CutIncarnation(t.incarnations[x])]
           bnd == [x \in DOMAIN t.bindings |-> CutLife(t.bindings[x])]
           res == [x \in DOMAIN t.reservations |-> CutLife(t.reservations[x])]
<1>1. u = [t EXCEPT !.generations = gen, !.incarnations = inc, !.bindings = bnd,
                    !.reservations = res]
    BY DEF Rewritten
<1>2. /\ DOMAIN gen = DOMAIN t.generations /\ IsMap(gen)
      /\ DOMAIN inc = DOMAIN t.incarnations /\ IsMap(inc)
      /\ DOMAIN bnd = DOMAIN t.bindings /\ IsMap(bnd)
      /\ DOMAIN res = DOMAIN t.reservations /\ IsMap(res)
    BY DEF IsMap
<1>3. /\ \A x \in DOMAIN t.generations : gen[x] = CutLife(t.generations[x])
      /\ \A x \in DOMAIN t.incarnations : inc[x] = CutIncarnation(t.incarnations[x])
      /\ \A x \in DOMAIN t.bindings : bnd[x] = CutLife(t.bindings[x])
      /\ \A x \in DOMAIN t.reservations : res[x] = CutLife(t.reservations[x])
    OBVIOUS
<1> HIDE DEF gen, inc, bnd, res, u
<1>4. /\ IsMap(u) /\ DOMAIN u = DOMAIN t
      /\ u.generations = gen /\ u.incarnations = inc /\ u.bindings = bnd /\ u.reservations = res
      /\ \A f \in DOMAIN t \ {"generations", "incarnations", "bindings", "reservations"} : u[f] = t[f]
    BY <1>1 DEF IsMap, IsDocument, Lists
<1>5. \A f \in Lives : \A x \in DOMAIN t[f] : u[f][x] = CutLife(t[f][x])
    BY <1>3, <1>4 DEF Lives
<1>6. \A f \in Lives \cup {"incarnations"} : IsMap(u[f]) /\ DOMAIN u[f] = DOMAIN t[f]
    BY <1>2, <1>4 DEF Lives
<1>7. \A f \in DOMAIN t \ (Lives \cup {"incarnations"}) : u[f] = t[f]
    BY <1>4 DEF Lives
<1>8. \A f \in Lives : \A x \in DOMAIN t[f] : CutFrom(t[f][x], u[f][x], "from", "until")
    BY <1>5, CutEntries
<1>9. \A x \in DOMAIN t.incarnations :
           CutFrom(t.incarnations[x], u.incarnations[x], "started", "retired")
    BY <1>3, <1>4, CutEntries
<1>10. CutDocument(t, u)
    BY <1>4, <1>6, <1>7, <1>8, <1>9 DEF CutDocument
<1> QED BY <1>10 DEF u

LEMMA CutIsDocument ==
    ASSUME NEW t, NEW u, IsDocument(t), CutDocument(t, u)
    PROVE  IsDocument(u)
<1>1. "bindings" \in Lives /\ "generations" \in Lives /\ "reservations" \in Lives
    BY DEF Lives
<1>2. \A f \in Lives : \A x \in DOMAIN u[f] : IsSpan(u[f][x], "from", "until")
    BY DEF CutDocument, CutFrom
<1>3. \A x \in DOMAIN u.incarnations :
          /\ x \in Nat /\ IsSpan(u.incarnations[x], "started", "retired")
          /\ NotBefore(u.incarnations[x].started, u.incarnations[x].retired)
    BY DEF CutDocument, CutFrom, IsDocument
<1>4. \A i \in DOMAIN u.bindings : NotBefore(u.bindings[i].from, u.bindings[i].until)
    BY <1>1 DEF CutDocument, CutFrom, IsDocument
<1>5. IsMap(u) /\ DOMAIN u = Lists \cup {"bindings"}
    BY DEF CutDocument, IsDocument
<1>6. \A f \in Lists : IsMap(u[f]) /\ IsFiniteSet(DOMAIN u[f])
    BY DEF CutDocument, IsDocument, Lists
<1>7. IsList(u.bindings)
    <2> DEFINE S == {u.bindings[i] : i \in DOMAIN u.bindings}
    <2>1. DOMAIN u.bindings = DOMAIN t.bindings /\ IsMap(u.bindings)
        BY <1>1 DEF CutDocument
    <2>2. DOMAIN t.bindings = 1..Len(t.bindings) /\ Len(t.bindings) \in Nat
        BY DEF IsDocument, IsList
    <2>3. u.bindings = [i \in 1..Len(t.bindings) |-> u.bindings[i]]
        BY <2>1, <2>2 DEF IsMap
    <2>4. \A i \in 1..Len(t.bindings) : u.bindings[i] \in S
        BY <2>1, <2>2
    <2> HIDE DEF S
    <2>5. u.bindings \in Seq(S)
        BY <2>2, <2>3, <2>4
    <2> QED BY <2>5 DEF S, IsList
<1>8. u.scopes = t.scopes /\ u.sources = t.sources
    BY DEF CutDocument, IsDocument, Lists, Lives
<1> QED BY <1>1, <1>2, <1>3, <1>4, <1>5, <1>6, <1>7, <1>8 DEF IsDocument

LEMMA SameMap ==
    ASSUME NEW f, NEW g, IsMap(f), IsMap(g), DOMAIN f = DOMAIN g, \A x \in DOMAIN f : f[x] = g[x]
    PROVE  f = g
BY DEF IsMap

LEMMA CutTwice ==
    ASSUME NEW t, NEW u, NEW v, IsDocument(t), CutDocument(t, u), CutDocument(u, v)
    PROVE  v = u
<1>1. /\ \A f \in Lives : \A x \in DOMAIN t[f] : IsSpan(t[f][x], "from", "until")
      /\ \A x \in DOMAIN t.incarnations : IsSpan(t.incarnations[x], "started", "retired")
    BY DEF IsDocument, Lives
<1>2. \A f \in Lives : \A x \in DOMAIN v[f] : v[f][x] = u[f][x]
    BY <1>1, CutOnce DEF CutDocument
<1>3. \A x \in DOMAIN v.incarnations : v.incarnations[x] = u.incarnations[x]
    BY <1>1, CutOnce DEF CutDocument
<1>4. \A f \in Lives \cup {"incarnations"} : v[f] = u[f]
    <2>1. \A f \in Lives \cup {"incarnations"} :
              IsMap(u[f]) /\ IsMap(v[f]) /\ DOMAIN v[f] = DOMAIN u[f]
        BY DEF CutDocument
    <2>2. \A f \in Lives \cup {"incarnations"} : \A x \in DOMAIN v[f] : v[f][x] = u[f][x]
        BY <1>2, <1>3
    <2> QED BY <2>1, <2>2, SameMap
<1>5. \A f \in DOMAIN u : v[f] = u[f]
    BY <1>4 DEF CutDocument
<1> QED BY <1>5 DEF CutDocument, IsMap

\* What was written and read is a document, and writing and reading it again leaves it alone.
LEMMA RewrittenDocument ==
    ASSUME NEW t, IsDocument(t)
    PROVE  IsDocument(Rewritten(t)) /\ Rewritten(Rewritten(t)) = Rewritten(t)
<1>1. CutDocument(t, Rewritten(t)) /\ IsDocument(Rewritten(t))
    BY RewrittenIsCut, CutIsDocument
<1>2. CutDocument(Rewritten(t), Rewritten(Rewritten(t)))
    BY <1>1, RewrittenIsCut
<1> QED BY <1>1, <1>2, CutTwice

LEMMA ReadTwice ==
    ASSUME NEW d \in Int, NEW default \in Nat, Cut(default) = default
    PROVE  /\ ReadDuration(d, default) \in Int
           /\ ReadDuration(ReadDuration(d, default), default) = ReadDuration(d, default)
<1>1. Milliseconds(Cut(d)) = Milliseconds(d)
    BY TimesAssumption DEF Cut, Instant, Milliseconds
<1> QED BY <1>1, CutTime DEF ReadDuration

Durations == {"freshTtl", "staleTtl", "skew"}

LEMMA PolicyFields ==
    ASSUME NEW p, IsPolicy(p)
    PROVE  /\ IsMap(RewrittenPolicy(p)) /\ DOMAIN RewrittenPolicy(p) = DOMAIN p
           /\ \A f \in Durations :
                  RewrittenPolicy(p)[f] = ReadDuration(p[f], DefaultPolicy[f])
           /\ \A f \in DOMAIN p \ Durations : RewrittenPolicy(p)[f] = p[f]
<1> DEFINE a == ReadDuration(p.freshTtl, DefaultPolicy.freshTtl)
           b == ReadDuration(p.staleTtl, DefaultPolicy.staleTtl)
           c == ReadDuration(p.skew, DefaultPolicy.skew)
           q == RewrittenPolicy(p)
<1>1. q = [p EXCEPT !.freshTtl = a, !.staleTtl = b, !.skew = c]
    BY DEF RewrittenPolicy
<1>2. a = ReadDuration(p["freshTtl"], DefaultPolicy["freshTtl"])
      /\ b = ReadDuration(p["staleTtl"], DefaultPolicy["staleTtl"])
      /\ c = ReadDuration(p["skew"], DefaultPolicy["skew"])
    OBVIOUS
<1> HIDE DEF a, b, c, q
<1>3. /\ IsMap(q) /\ DOMAIN q = DOMAIN p
      /\ q["freshTtl"] = a /\ q["staleTtl"] = b /\ q["skew"] = c
      /\ \A f \in DOMAIN p \ {"freshTtl", "staleTtl", "skew"} : q[f] = p[f]
    BY <1>1 DEF IsPolicy, IsMap
<1>4. \A f \in Durations : q[f] = ReadDuration(p[f], DefaultPolicy[f])
    BY <1>2, <1>3 DEF Durations
<1>5. /\ IsMap(q) /\ DOMAIN q = DOMAIN p
      /\ \A f \in Durations : q[f] = ReadDuration(p[f], DefaultPolicy[f])
      /\ \A f \in DOMAIN p \ Durations : q[f] = p[f]
    BY <1>3, <1>4 DEF Durations
<1> QED BY <1>5 DEF q

LEMMA RewrittenIsPolicy ==
    ASSUME NEW p, IsPolicy(p)
    PROVE  /\ IsPolicy(RewrittenPolicy(p))
           /\ RewrittenPolicy(RewrittenPolicy(p)) = RewrittenPolicy(p)
<1> DEFINE q == RewrittenPolicy(p)
           r == RewrittenPolicy(q)
<1>1. \A f \in Durations :
          /\ p[f] \in Int /\ f \in DOMAIN p
          /\ DefaultPolicy[f] \in Nat /\ Cut(DefaultPolicy[f]) = DefaultPolicy[f]
    BY SnapshotsAssumption DEF IsPolicy, Durations
<1>2. \A f \in Durations :
          /\ ReadDuration(p[f], DefaultPolicy[f]) \in Int
          /\ ReadDuration(ReadDuration(p[f], DefaultPolicy[f]), DefaultPolicy[f])
                 = ReadDuration(p[f], DefaultPolicy[f])
    BY <1>1, ReadTwice
<1>3. /\ IsMap(q) /\ DOMAIN q = DOMAIN p
      /\ \A f \in Durations : q[f] = ReadDuration(p[f], DefaultPolicy[f])
      /\ \A f \in DOMAIN p \ Durations : q[f] = p[f]
    BY PolicyFields
<1>4. IsPolicy(q)
    <2>1. \A f \in Durations : q[f] \in Int
        BY <1>2, <1>3
    <2>2. q["maxTotal"] = p["maxTotal"]
        BY <1>3 DEF Durations, IsPolicy
    <2> HIDE DEF q
    <2> QED BY <1>3, <2>1, <2>2 DEF IsPolicy, Durations
<1>5. /\ IsMap(r) /\ DOMAIN r = DOMAIN q
      /\ \A f \in Durations : r[f] = ReadDuration(q[f], DefaultPolicy[f])
      /\ \A f \in DOMAIN q \ Durations : r[f] = q[f]
    BY <1>4, PolicyFields
<1>6. \A f \in DOMAIN r : r[f] = q[f]
    <2> HIDE DEF q, r
    <2> QED BY <1>2, <1>3, <1>5
<1>7. r = q
    BY <1>3, <1>5, <1>6, SameMap
<1> QED BY <1>4, <1>7

-------------------------------------------------------------------------------
(* Histories *)

IsHistory(h) == DOMAIN h \subseteq Nat /\ IsFiniteSet(DOMAIN h)

LEMMA CurrentIs ==
    ASSUME NEW h, IsHistory(h), NEW i \in DOMAIN h, \A j \in DOMAIN h : j <= i
    PROVE  Current(h) = h[i]
<1> DEFINE c == CHOOSE k \in DOMAIN h : \A j \in DOMAIN h : j <= k
<1>1. c \in DOMAIN h /\ \A j \in DOMAIN h : j <= c
    OBVIOUS
<1> HIDE DEF c
<1>2. c = i
    BY <1>1 DEF IsHistory
<1> QED BY <1>2 DEF Current, c

LEMMA LastOf ==
    ASSUME NEW h, IsHistory(h), ~Empty(h)
    PROVE  \E i \in DOMAIN h : (\A j \in DOMAIN h : j <= i) /\ Current(h) = h[i]
BY GreatestNumber, CurrentIs DEF IsHistory, Empty

\* What is current is not superseded; what was once recorded is, when it is not current.
LEMMA OnceRecorded ==
    ASSUME NEW h, IsHistory(h), NEW i \in DOMAIN h, ~IsCurrent(h, h[i])
    PROVE  Superseded(h, h[i])
<1>1. PICK k \in DOMAIN h : (\A j \in DOMAIN h : j <= k) /\ Current(h) = h[k]
    BY LastOf DEF Empty
<1>2. i # k
    BY <1>1 DEF IsCurrent, Empty
<1>3. i < k
    BY <1>1, <1>2 DEF IsHistory
<1> QED BY <1>3 DEF Superseded

\* The history of a store: f is what a snapshot is read as, R whether it can be read.
LEMMA HistoriesAre ==
    ASSUME Remembered
    PROVE  IsHistory(PolicyHistory) /\ IsHistory(TopologyHistory)
<1>1. /\ DOMAIN policies = 1..Len(policies) /\ Len(policies) \in Nat
      /\ DOMAIN topologies = 1..Len(topologies) /\ Len(topologies) \in Nat
    BY DEF Remembered, IsList
<1>2. IsFiniteSet(DOMAIN policies) /\ IsFiniteSet(DOMAIN topologies)
    BY <1>1, FS_Interval
<1>3. DOMAIN PolicyHistory \subseteq DOMAIN policies
      /\ DOMAIN TopologyHistory \subseteq DOMAIN topologies
    BY DEF PolicyHistory, TopologyHistory
<1> QED BY <1>1, <1>2, <1>3, FS_Subset DEF IsHistory

\* What an opening makes of the policy.
LEMMA OpensPolicy ==
    ASSUME Remembered, NEW p, IsPolicy(p), ValidPolicy(p), IsPolicy(DefaultPolicy),
           NEW q \in PolicyFor(p), policies' = Recorded(policies, PolicyHistory, q)
    PROVE  /\ IsPolicy(q) /\ ValidPolicy(q)
           /\ IsList(policies')
           /\ \A i \in DOMAIN policies' : IsPolicy(policies'[i]) /\ ValidPolicy(policies'[i])
           /\ ReadablePolicy(q) => IsCurrent(PolicyHistory', RewrittenPolicy(q))
<1>1. IsHistory(PolicyHistory)
    BY HistoriesAre
<1>2. \A i \in DOMAIN PolicyHistory :
          /\ i \in DOMAIN policies /\ ReadablePolicy(policies[i])
          /\ PolicyHistory[i] = RewrittenPolicy(policies[i])
    BY DEF PolicyHistory
<1>3. \A i \in DOMAIN PolicyHistory :
          /\ IsPolicy(PolicyHistory[i]) /\ ValidPolicy(PolicyHistory[i])
          /\ RewrittenPolicy(PolicyHistory[i]) = PolicyHistory[i]
    BY <1>2, RewrittenIsPolicy DEF Remembered, ReadablePolicy
<1>4. ~Empty(PolicyHistory) => /\ IsPolicy(Current(PolicyHistory))
                               /\ ValidPolicy(Current(PolicyHistory))
                               /\ RewrittenPolicy(Current(PolicyHistory)) = Current(PolicyHistory)
    BY <1>1, <1>3, LastOf
<1>5. IsPolicy(q) /\ ValidPolicy(q)
    <2>1. CASE Empty(PolicyHistory) \/ IsCurrent(PolicyHistory, p)
        BY <2>1 DEF PolicyFor
    <2>2. CASE ~(Empty(PolicyHistory) \/ IsCurrent(PolicyHistory, p))
        <3>1. q = Current(PolicyHistory)
            BY <2>2 DEF PolicyFor
        <3> QED BY <1>4, <2>2, <3>1
    <2> QED BY <2>1, <2>2
<1>6. CASE IsCurrent(PolicyHistory, q)
    <2>1. policies' = policies /\ PolicyHistory' = PolicyHistory
        BY <1>6 DEF Recorded, PolicyHistory
    <2>2. IsCurrent(PolicyHistory', RewrittenPolicy(q))
        BY <1>4, <1>6, <2>1 DEF IsCurrent
    <2> QED BY <1>5, <2>1, <2>2 DEF Remembered
<1>7. CASE ~IsCurrent(PolicyHistory, q)
    <2>1. policies' = Append(policies, q)
        BY <1>7 DEF Recorded
    <2> DEFINE n == Len(policies) + 1
    <2>2. /\ IsList(policies')
          /\ n \in Nat \ {0} /\ DOMAIN policies = 1..(n - 1)
          /\ DOMAIN policies' = 1..n /\ policies'[n] = q
          /\ \A i \in DOMAIN policies : policies'[i] = policies[i]
        BY <2>1, AppendedIs DEF Remembered
    <2> HIDE DEF n
    <2>3. \A i \in DOMAIN policies' : IsPolicy(policies'[i]) /\ ValidPolicy(policies'[i])
        BY <1>5, <2>2 DEF Remembered
    <2>4. ASSUME ReadablePolicy(q) PROVE IsCurrent(PolicyHistory', RewrittenPolicy(q))
        <3> DEFINE h == PolicyHistory'
        <3>1. /\ h = [i \in {j \in DOMAIN policies' : ReadablePolicy(policies'[j])} |->
                          RewrittenPolicy(policies'[i])]
            BY DEF PolicyHistory, ReadablePolicy, ValidPolicy, RewrittenPolicy
        <3> HIDE DEF h
        <3>2. /\ DOMAIN h \subseteq 1..n /\ n \in DOMAIN h
              /\ h[n] = RewrittenPolicy(q)
            <4>1. n \in DOMAIN policies' /\ ReadablePolicy(policies'[n])
                BY <2>2, <2>4
            <4> QED BY <2>2, <3>1, <4>1
        <3>3. IsHistory(h)
            <4>1. IsFiniteSet(1..n) /\ 1..n \subseteq Nat
                BY <2>2, FS_Interval
            <4> QED BY <3>2, <4>1, FS_Subset DEF IsHistory
        <3>4. Current(h) = RewrittenPolicy(q)
            BY <2>2, <3>2, <3>3, CurrentIs
        <3>5. IsCurrent(h, RewrittenPolicy(q))
            BY <3>2, <3>4 DEF IsCurrent, Empty
        <3> QED BY <3>5 DEF h
    <2> QED BY <1>5, <2>2, <2>3, <2>4
<1> QED BY <1>6, <1>7

\* What it makes of the document.
LEMMA OpensTopology ==
    ASSUME Remembered, NEW t, IsDocument(t), NEW u \in TopologyFor(t), Valid(u),
           topologies' = Recorded(topologies, TopologyHistory, u)
    PROVE  /\ IsDocument(u) /\ IsList(topologies')
           /\ \A i \in DOMAIN topologies' : IsDocument(topologies'[i]) /\ Valid(topologies'[i])
           /\ Readable(u) => IsCurrent(TopologyHistory', Rewritten(u))
           /\ \A i, j \in DOMAIN topologies' :
                  topologies'[i] = topologies'[j] /\ Rewritten(topologies'[i]) = topologies'[i]
                      => i = j
           /\ Rewritten(u) = u => ~Superseded(TopologyHistory', u)
<1>1. IsHistory(TopologyHistory)
    BY HistoriesAre
<1>2. /\ \A i \in DOMAIN TopologyHistory :
             /\ i \in DOMAIN topologies /\ Readable(topologies[i])
             /\ TopologyHistory[i] = Rewritten(topologies[i])
      /\ \A i \in DOMAIN topologies : Readable(topologies[i]) => i \in DOMAIN TopologyHistory
    BY DEF TopologyHistory
<1>3. \A i \in DOMAIN TopologyHistory :
          /\ IsDocument(TopologyHistory[i])
          /\ Rewritten(TopologyHistory[i]) = TopologyHistory[i]
    BY <1>2, RewrittenDocument DEF Remembered
<1>4. ~Empty(TopologyHistory) =>
          /\ IsDocument(Current(TopologyHistory))
          /\ Rewritten(Current(TopologyHistory)) = Current(TopologyHistory)
    BY <1>1, <1>3, LastOf
<1>5. \/ u = t /\ ~Superseded(TopologyHistory, u)
      \/ IsCurrent(TopologyHistory, u)
    <2>1. CASE t = EmptyTopology /\ ~Empty(TopologyHistory)
        <3>1. u = Current(TopologyHistory)
            BY <2>1 DEF TopologyFor
        <3> QED BY <2>1, <3>1 DEF IsCurrent
    <2>2. CASE ~(t = EmptyTopology /\ ~Empty(TopologyHistory))
        <3>1. u = t /\ ~Superseded(TopologyHistory, t)
            BY <2>2 DEF TopologyFor
        <3> QED BY <3>1
    <2> QED BY <2>1, <2>2
<1>6. IsDocument(u)
    BY <1>4, <1>5 DEF IsCurrent
<1>7. CASE IsCurrent(TopologyHistory, u)
    <2>1. topologies' = topologies /\ TopologyHistory' = TopologyHistory
        BY <1>7 DEF Recorded, TopologyHistory
    <2>2. IsCurrent(TopologyHistory', Rewritten(u))
        BY <1>4, <1>7, <2>1 DEF IsCurrent
    <2>3. ~Superseded(TopologyHistory', u)
        BY <1>7, <2>1 DEF Superseded
    <2> QED BY <1>6, <2>1, <2>2, <2>3 DEF Remembered, SupersededStaysOut
<1>8. CASE ~IsCurrent(TopologyHistory, u)
    <2>1. topologies' = Append(topologies, u)
        BY <1>8 DEF Recorded
    <2> DEFINE n == Len(topologies) + 1
    <2>2. /\ IsList(topologies')
          /\ n \in Nat \ {0} /\ DOMAIN topologies = 1..(n - 1)
          /\ DOMAIN topologies' = 1..n /\ topologies'[n] = u
          /\ \A i \in DOMAIN topologies : topologies'[i] = topologies[i]
        BY <2>1, AppendedIs DEF Remembered
    <2> HIDE DEF n
    <2>3. \A i \in DOMAIN topologies' : IsDocument(topologies'[i]) /\ Valid(topologies'[i])
        BY <1>6, <2>2 DEF Remembered
    <2>4. ASSUME Readable(u)
          PROVE  IsCurrent(TopologyHistory', Rewritten(u))
        <3> DEFINE h == TopologyHistory'
        <3>1. /\ h = [i \in {j \in DOMAIN topologies' : Readable(topologies'[j])} |->
                          Rewritten(topologies'[i])]
            BY DEF TopologyHistory
        <3> HIDE DEF h
        <3>2. /\ DOMAIN h \subseteq 1..n /\ n \in DOMAIN h
              /\ h[n] = Rewritten(u)
            <4>1. n \in DOMAIN topologies' /\ Readable(topologies'[n])
                BY <2>2, <2>4
            <4> QED BY <2>2, <3>1, <4>1
        <3>3. IsHistory(h)
            <4>1. IsFiniteSet(1..n) /\ 1..n \subseteq Nat
                BY <2>2, FS_Interval
            <4> QED BY <3>2, <4>1, FS_Subset DEF IsHistory
        <3>4. Current(h) = Rewritten(u)
            BY <2>2, <3>2, <3>3, CurrentIs
        <3>5. IsCurrent(h, Rewritten(u))
            BY <3>2, <3>4 DEF IsCurrent, Empty
        <3> QED BY <3>5 DEF h
    <2>5. Rewritten(u) = u => ~Superseded(TopologyHistory', u)
        BY <2>4 DEF Superseded, Readable
    <2>6. ASSUME NEW i \in DOMAIN topologies, topologies[i] = u, Rewritten(u) = u
          PROVE  FALSE
        <3>1. i \in DOMAIN TopologyHistory /\ TopologyHistory[i] = u
            BY <1>2, <2>6 DEF Readable
        <3>2. Superseded(TopologyHistory, u)
            BY <1>1, <1>8, <3>1, OnceRecorded
        <3> QED BY <1>5, <1>8, <3>2
    <2>7. ASSUME NEW i \in DOMAIN topologies', NEW j \in DOMAIN topologies',
                 topologies'[i] = topologies'[j], Rewritten(topologies'[i]) = topologies'[i]
          PROVE  i = j
        <3>1. CASE i = n \/ j = n
            BY <2>2, <2>6, <2>7, <3>1
        <3>2. CASE i # n /\ j # n
            <4>1. i \in DOMAIN topologies /\ j \in DOMAIN topologies
                BY <2>2, <3>2
            <4> QED BY <2>2, <2>7, <4>1 DEF Remembered, SupersededStaysOut
        <3> QED BY <3>1, <3>2
    <2> QED BY <1>6, <2>2, <2>3, <2>4, <2>5, <2>7
<1> QED BY <1>7, <1>8

-------------------------------------------------------------------------------
(* The inductive invariant *)

LEMMA InitHolds == Init => Inductive
<1> SUFFICES ASSUME Init PROVE Inductive
    OBVIOUS
<1>1. IsDocument(topology) /\ IsDocument(fabric) /\ Valid(fabric)
    BY EmptyDocument DEF Init, InitTopology, InitSnapshots
<1>2. /\ IsList(policies) /\ IsList(topologies)
      /\ DOMAIN policies = {} /\ DOMAIN topologies = {}
    <2>1. policies = << >> /\ topologies = << >> /\ IsList(<< >>)
        BY DEF Init, InitSnapshots, IsList
    <2> QED BY <2>1
<1>3. IsPolicy(policy) /\ ~Running
    BY AccountingAssumption DEF Init, InitSnapshots, Running
<1>4. Remembered
    BY <1>1, <1>2, <1>3 DEF Remembered, RunningIsRecorded, SupersededStaysOut
<1>5. evidence \subseteq Evidence /\ IsFiniteSet(evidence)
    BY FS_EmptySet DEF Init
<1> QED BY <1>1, <1>4, <1>5 DEF Inductive

LEMMA SnapshotsUnchanged ==
    ASSUME Remembered, UNCHANGED snapshots
    PROVE  Remembered'
<1>1. /\ policies' = policies /\ topologies' = topologies /\ mode' = mode
      /\ policy' = policy /\ fabric' = fabric
    BY DEF snapshots
<1>2. PolicyHistory' = PolicyHistory /\ TopologyHistory' = TopologyHistory
    BY <1>1 DEF PolicyHistory, TopologyHistory
<1>3. RunningIsRecorded' /\ SupersededStaysOut'
    BY <1>1, <1>2 DEF Remembered, RunningIsRecorded, SupersededStaysOut, Running
<1> QED BY <1>1, <1>3 DEF Remembered, Running

LEMMA OpenRemembers ==
    ASSUME Remembered, NEW m, NEW p \in Policies, NEW t \in Documents, Open(m, p, t)
    PROVE  Remembered'
<1>1. IsPolicy(p) /\ IsPolicy(DefaultPolicy) /\ IsDocument(t) /\ ValidPolicy(p)
    BY AccountingAssumption DEF Open
<1>2. PICK q \in PolicyFor(p), u \in TopologyFor(t) :
          /\ Valid(u)
          /\ policies' = Recorded(policies, PolicyHistory, q)
          /\ topologies' = Recorded(topologies, TopologyHistory, u)
          /\ policy' = q /\ fabric' = u
    BY DEF Open
<1>3. /\ IsPolicy(q) /\ ValidPolicy(q) /\ IsList(policies')
      /\ \A i \in DOMAIN policies' : IsPolicy(policies'[i]) /\ ValidPolicy(policies'[i])
      /\ ReadablePolicy(q) => IsCurrent(PolicyHistory', RewrittenPolicy(q))
    BY <1>1, <1>2, OpensPolicy
<1>4. /\ IsDocument(u) /\ IsList(topologies')
      /\ \A i \in DOMAIN topologies' : IsDocument(topologies'[i]) /\ Valid(topologies'[i])
      /\ Readable(u) => IsCurrent(TopologyHistory', Rewritten(u))
      /\ \A i, j \in DOMAIN topologies' :
             topologies'[i] = topologies'[j] /\ Rewritten(topologies'[i]) = topologies'[i]
                 => i = j
      /\ Rewritten(u) = u => ~Superseded(TopologyHistory', u)
    BY <1>1, <1>2, OpensTopology
<1>5. RunningIsRecorded'
    BY <1>2, <1>3, <1>4 DEF RunningIsRecorded
<1>6. SupersededStaysOut'
    BY <1>2, <1>4 DEF SupersededStaysOut
<1> QED BY <1>2, <1>3, <1>4, <1>5, <1>6 DEF Remembered

LEMMA CloseRemembers ==
    ASSUME Remembered, Close
    PROVE  Remembered'
<1>1. /\ policies' = policies /\ topologies' = topologies /\ ~Running'
      /\ policy' = DefaultPolicy /\ fabric' = EmptyTopology
    BY DEF Close, Running
<1>2. IsPolicy(policy') /\ IsDocument(fabric') /\ Valid(fabric')
    BY <1>1, EmptyDocument, AccountingAssumption
<1>3. RunningIsRecorded' /\ SupersededStaysOut'
    BY <1>1 DEF Remembered, RunningIsRecorded, SupersededStaysOut
<1> QED BY <1>1, <1>2, <1>3 DEF Remembered

LEMMA NextHolds == Inductive /\ [Next]_vars => Inductive'
<1> SUFFICES ASSUME Inductive, [Next]_vars PROVE Inductive'
    OBVIOUS
<1>1. CASE Build
    <2>1. IsDocument(topology') /\ UNCHANGED <<snapshots, evidence>>
        BY <1>1, BuildsDocument DEF Build, Inductive
    <2>2. Remembered'
        BY <2>1, SnapshotsUnchanged DEF Inductive
    <2> QED BY <2>1, <2>2 DEF Inductive
<1>2. CASE Configure
    <2>1. Remembered'
        BY <1>2, OpenRemembers, CloseRemembers DEF Configure, Inductive
    <2> QED BY <1>2, <2>1 DEF Configure, Inductive
<1>3. ASSUME NEW o \in Evidence, Arrive(o) PROVE Inductive'
    <2>1. Remembered' /\ topology' = topology
        BY <1>3, SnapshotsUnchanged DEF Arrive, Inductive
    <2>2. evidence' \subseteq Evidence /\ IsFiniteSet(evidence')
        BY <1>3, FS_AddElement DEF Arrive, Inductive
    <2> QED BY <2>1, <2>2 DEF Inductive
<1>4. CASE UNCHANGED vars
    <2>1. Remembered'
        BY <1>4, SnapshotsUnchanged DEF vars, Inductive
    <2> QED BY <1>4, <2>1 DEF vars, Inductive
<1> QED BY <1>1, <1>2, <1>3, <1>4 DEF Next

THEOREM InductiveInvariant == Spec => []Inductive
BY InitHolds, NextHolds, PTL DEF Spec

-------------------------------------------------------------------------------
(* What follows for the document and for the snapshots *)

\* Whatever was added, in any order: what validates is a forest.
THEOREM IsAForest == Spec => []HierarchyIsForest
<1>1. Inductive => HierarchyIsForest
    BY ValidIsForest DEF Inductive
<1> QED BY <1>1, InductiveInvariant, PTL

\* What validates attributes every resource once at every level.
THEOREM AttributesOnce == Spec => []AttributionUnique
<1>1. Inductive => AttributionUnique
    BY ValidAttributes DEF Inductive
<1> QED BY <1>1, InductiveInvariant, PTL

\* What validates has one incarnation of a source and one binding of a resource at a time.
THEOREM LivesOnce == Spec => []LiveOnce
<1>1. Inductive => LiveOnce
    BY ValidLivesOnce DEF Inductive
<1> QED BY <1>1, InductiveInvariant, PTL

\* A ledger that runs has recorded what it runs with.
THEOREM RecordsWhatRuns == Spec => []RunningIsRecorded
<1>1. Inductive => RunningIsRecorded
    BY DEF Inductive, Remembered
<1> QED BY <1>1, InductiveInvariant, PTL

\* No document comes back after another one has replaced it.
THEOREM NeverBack == Spec => []SupersededStaysOut
<1>1. Inductive => SupersededStaysOut
    BY DEF Inductive, Remembered
<1> QED BY <1>1, InductiveInvariant, PTL

\* What runs, and is kept by the text as it is, can be opened again.
THEOREM OpensAgain == Spec => []Reopenable
<1>1. ASSUME Inductive, Running, RewrittenPolicy(policy) = policy, Rewritten(fabric) = fabric
      PROVE  /\ policy \in PolicyFor(policy) /\ fabric \in TopologyFor(fabric)
             /\ Recorded(policies, PolicyHistory, policy) = policies
             /\ Recorded(topologies, TopologyHistory, fabric) = topologies
    <2>1. ReadablePolicy(policy) /\ Readable(fabric)
        BY <1>1 DEF Inductive, Remembered, ReadablePolicy, Readable
    <2>2. IsCurrent(PolicyHistory, policy) /\ IsCurrent(TopologyHistory, fabric)
        BY <1>1, <2>1 DEF Inductive, Remembered, RunningIsRecorded
    <2>3. PolicyFor(policy) = {policy}
        BY <2>2 DEF PolicyFor
    <2>4. fabric \in TopologyFor(fabric)
        <3>1. ~Superseded(TopologyHistory, fabric)
            BY <2>2 DEF Superseded
        <3>2. fabric = Current(TopologyHistory)
            BY <2>2 DEF IsCurrent
        <3> QED BY <3>1, <3>2 DEF TopologyFor
    <2> QED BY <2>2, <2>3, <2>4 DEF Recorded
<1>2. Inductive => Reopenable
    BY <1>1 DEF Reopenable
<1> QED BY <1>2, InductiveInvariant, PTL

-------------------------------------------------------------------------------
(* What follows for the accounts *)

\* The evidence of the period is finite, has numbers as identities, and comes from sources
\* that have a rank and a provenance class.
LEMMA CandidatesAre ==
    ASSUME Inductive
    PROVE  D!IsFiniteSet(C) /\ D!Identified(C) /\ D!Ranked /\ D!Classified
           /\ \A o \in C : D!IsReport(o)
<1>1. C \subseteq evidence
    BY DEF C, D!Candidates
<1>2. IsFiniteSet(C) /\ \A o \in C : D!IsReport(o)
    BY <1>1, FS_Subset, AccountingAssumption DEF Inductive
<1>3. D!IsFiniteSet(C)
    BY <1>2 DEF IsFiniteSet, D!IsFiniteSet
<1>4. D!Identified(C)
    BY <1>2 DEF D!IsReport, D!Identified
<1>5. D!Ranked
    BY DEF Inductive, Remembered, IsDocument, IsSource, D!Ranked, LookedUp
<1>6. D!Classified
    BY DEF Inductive, Remembered, IsDocument, IsSource, D!Classified, D!ProvenanceClasses, LookedUp
<1> QED BY <1>2, <1>3, <1>4, <1>5, <1>6

\* Whatever is delivered, how often and in any order, nothing is counted twice.
THEOREM CountsMeasurementsOnce == Spec => []MeasuredOnce
<1>1. Inductive => MeasuredOnce
    BY CandidatesAre, D!CountsOnce DEF MeasuredOnce
<1> QED BY <1>1, InductiveInvariant, PTL

\* Nothing is left out without a reason.
THEOREM ExplainsWhatIsNotCounted == Spec => []Explained
<1>1. Inductive => Explained
    BY D!ExplainsAll DEF Explained
<1> QED BY <1>1, InductiveInvariant, PTL

\* No dispute is decided against a source of higher authority.
THEOREM RespectsAuthority == Spec => []AuthorityRespected
<1>1. Inductive => AuthorityRespected
    BY CandidatesAre, D!AuthorityDecides DEF AuthorityRespected
<1> QED BY <1>1, InductiveInvariant, PTL
\* Every counted amount is in one claim and in one conservation domain.
THEOREM ConservesWork == Spec => []Conserved
<1>1. Inductive => Conserved
    <2> SUFFICES ASSUME Inductive, NEW t \in Instants PROVE D!Conserved(C, t)
        BY DEF Conserved
    <2>1. \A o \in C : o.amount \in Nat
        BY CandidatesAre DEF D!IsReport
    <2> QED BY <2>1, CandidatesAre, D!AccountsConserve
<1> QED BY <1>1, InductiveInvariant, PTL

\* A ratio is never given for a measure of which a report was lost, refused or disputed.
THEOREM RatiosAreOfTheWhole == Spec => []DeterminateIsComplete
<1>1. Inductive => DeterminateIsComplete
    <2> SUFFICES ASSUME Inductive, NEW t \in Instants, NEW kind
                 PROVE  D!DeterminateIsComplete(C, t, kind)
        BY DEF DeterminateIsComplete
    <2>1. policy.maxTotal \in Nat
        BY DEF Inductive, Remembered, IsPolicy
    <2> QED BY <2>1, CandidatesAre, D!DeterminateIsWhole
<1> QED BY <1>1, InductiveInvariant, PTL

-------------------------------------------------------------------------------
(* Rollups: the document that runs is a forest *)

LEMMA FabricIs ==
    ASSUME Inductive
    PROVE  /\ IsFiniteSet(DOMAIN fabric.scopes) /\ ParentsDefined(fabric) /\ Forest(fabric)
           /\ \A s \in DOMAIN fabric.scopes : \A p, q \in fabric.scopes[s].parent : p = q
           /\ D!NoScope \notin DOMAIN fabric.scopes
BY DEF Inductive, Remembered, IsDocument, Lists, Valid, D!NoScope

\* A claim is of a scope that is defined, or of none.
LEMMA ScopesOfClaims ==
    ASSUME Inductive, NEW t, NEW c \in D!Claims(C, t)
    PROVE  c.key.scope \in DOMAIN fabric.scopes \cup {D!NoScope}
<1>1. PICK o \in D!Contributions(C, t) : D!ClaimKey(o) = c.key
    BY D!ClaimsAre
<1>2. c.key.scope = D!ScopeOf(o)
    BY <1>1 DEF D!ClaimKey
<1> DEFINE map == ScopeOfTargets(fabric)
<1>3. D!ScopeOf(o) = IF o.target \in DOMAIN map THEN map[o.target] ELSE D!NoScope
    BY DEF D!ScopeOf, LookedUp
<1>4. \A x \in DOMAIN map : map[x] \in DOMAIN fabric.scopes
    <2> DEFINE attached == {r \in DOMAIN fabric.resources : fabric.resources[r] \in DOMAIN fabric.scopes}
               scopes(field) == [x \in DOMAIN fabric[field] |-> fabric[field][x].scope]
    <2>1. \A x \in DOMAIN fabric.paths : fabric.paths[x].scope \in DOMAIN fabric.scopes
        BY DEF Inductive, Remembered, Valid, PathsDefined, Placed
    <2>2. \A x \in DOMAIN fabric.flows : fabric.flows[x].scope \in DOMAIN fabric.scopes
        BY DEF Inductive, Remembered, Valid, FlowsDefined, Placed
    <2>3. \A x \in DOMAIN fabric.reservations :
              fabric.reservations[x].scope \in DOMAIN fabric.scopes
        BY DEF Inductive, Remembered, Valid, ReservationsDefined, Placed
    <2>4. map = Joined([r \in attached |-> fabric.resources[r]],
                       Joined(scopes("paths"), Joined(scopes("flows"), scopes("reservations"))))
        BY Zenon DEF ScopeOfTargets
    <2>5. ASSUME NEW f, NEW g, NEW S, \A x \in DOMAIN f : f[x] \in S, \A x \in DOMAIN g : g[x] \in S
          PROVE  \A x \in DOMAIN Joined(f, g) : Joined(f, g)[x] \in S
        BY <2>5 DEF Joined
    <2>6. /\ \A x \in DOMAIN scopes("paths") : scopes("paths")[x] \in DOMAIN fabric.scopes
          /\ \A x \in DOMAIN scopes("flows") : scopes("flows")[x] \in DOMAIN fabric.scopes
          /\ \A x \in DOMAIN scopes("reservations") :
                 scopes("reservations")[x] \in DOMAIN fabric.scopes
        BY <2>1, <2>2, <2>3
    <2> DEFINE own == [r \in attached |-> fabric.resources[r]]
    <2>7. \A x \in DOMAIN own : own[x] \in DOMAIN fabric.scopes
        OBVIOUS
    <2> HIDE DEF scopes, own, map
    <2> QED BY <2>4, <2>5, <2>6, <2>7 DEF own
<1> HIDE DEF map
<1> QED BY <1>2, <1>3, <1>4

\* A claim counts for its scope and those above it.
LEMMA CountsFor ==
    ASSUME Inductive, NEW t, NEW c \in D!Claims(C, t), NEW s \in DOMAIN fabric.scopes
    PROVE  s \in D!RollupTargets(c.key.scope)
               <=> /\ c.key.scope \in DOMAIN fabric.scopes
                   /\ s \in {c.key.scope} \cup AncestorsOf(fabric, c.key.scope)
<1>1. s # D!NoScope
    BY FabricIs
<1>2. c.key.scope \in DOMAIN fabric.scopes \cup {D!NoScope}
    BY ScopesOfClaims
<1>3. CASE c.key.scope = D!NoScope
    BY <1>1, <1>3, FabricIs DEF D!RollupTargets
<1>4. CASE c.key.scope \in DOMAIN fabric.scopes
    <2>1. c.key.scope # D!NoScope
        BY <1>4, FabricIs
    <2>2. LookedUp(fabric, Resources).ancestors[c.key.scope] = AncestorsOf(fabric, c.key.scope)
        BY <1>4 DEF LookedUp
    <2> QED BY <1>4, <2>1, <2>2 DEF D!RollupTargets
<1> QED BY <1>2, <1>3, <1>4

LEMMA EveryRow ==
    ASSUME NEW t
    PROVE  D!Rows(D!AnyWork, D!Claims(C, t)) = D!Claims(C, t)
BY DEF D!Rows, D!AnyWork, D!Wanted, D!Allowed

\* A scope that is defined has its own work and that of its children.
LEMMA ScopeSplits ==
    ASSUME Inductive, NEW t, NEW s \in DOMAIN fabric.scopes
    PROVE  D!TotalAt(D!Claims(C, t), s)
               = D!TotalOf({c \in D!Claims(C, t) : c.key.scope = s})
                     + D!SumAt(D!Claims(C, t), ChildrenOf(fabric, s))
<1> DEFINE claims == D!Claims(C, t)
           own == {c \in claims : c.key.scope = s}
           S == ChildrenOf(fabric, s)
<1>1. D!Measured(C)
    BY CandidatesAre DEF D!Measured, D!IsReport
<1>2. D!IsFiniteSet(S) /\ S \subseteq DOMAIN fabric.scopes
    <2>1. S \subseteq DOMAIN fabric.scopes
        BY DEF ChildrenOf
    <2>2. IsFiniteSet(S)
        BY <2>1, FabricIs, FS_Subset
    <2> QED BY <2>1, <2>2 DEF IsFiniteSet, D!IsFiniteSet
<1>3. ASSUME NEW c \in claims
      PROVE  /\ \A x, y \in S \cap D!RollupTargets(c.key.scope) : x = y
             /\ c \in own => S \cap D!RollupTargets(c.key.scope) = {}
             /\ s \in D!RollupTargets(c.key.scope)
                    <=> c \in own \/ S \cap D!RollupTargets(c.key.scope) # {}
    <2> DEFINE d == c.key.scope
    <2>1. \A x \in DOMAIN fabric.scopes :
              x \in D!RollupTargets(d) <=> d \in DOMAIN fabric.scopes
                                           /\ x \in {d} \cup AncestorsOf(fabric, d)
        BY <1>3, CountsFor
    <2>2. CASE d \notin DOMAIN fabric.scopes
        BY <1>2, <2>1, <2>2
    <2>3. CASE d \in DOMAIN fabric.scopes
        <3>1. \A x, y \in S \cap D!RollupTargets(d) : x = y
            BY <1>2, <2>1, <2>3, FabricIs, ChildrenApart
        <3>2. s \in AncestorsOf(fabric, d)
                  <=> \E x \in S : x \in {d} \cup AncestorsOf(fabric, d)
            BY <2>3, FabricIs, AboveByChild
        <3>3. s \notin AncestorsOf(fabric, s)
            BY FabricIs DEF Forest
        <3> QED BY <1>2, <2>1, <2>3, <3>1, <3>2, <3>3
    <2> QED BY <2>2, <2>3
<1>4. own \in SUBSET claims
    OBVIOUS
<1> HIDE DEF own, S
<1>5. D!TotalAt(claims, s) = D!TotalOf(own) + D!SumAt(claims, S)
    <2> HIDE DEF claims
    <2> QED BY <1>1, <1>2, <1>3, <1>4, D!RollupSplits DEF claims
<1> QED BY <1>5 DEF own, S

\* A query for a scope and those below it has every row that counts for the scope.
LEMMA QueryBelow ==
    ASSUME Inductive, NEW t, NEW s \in DOMAIN fabric.scopes
    PROVE  D!TotalAt(D!Rows(Below(s), D!Claims(C, t)), s) = D!TotalAt(D!Claims(C, t), s)
<1> DEFINE claims == D!Claims(C, t)
           few == D!Rows(Below(s), claims)
<1>1. D!Measured(C)
    BY CandidatesAre DEF D!Measured, D!IsReport
<1>2. few = {c \in claims : c.key.scope = s \/ c.key.scope \in D!DescendantsOf(s)}
    BY DEF Below, D!Rows, D!AnyWork, D!Wanted, D!Allowed
<1>3. \A d \in DOMAIN fabric.scopes :
          d # s /\ s \in AncestorsOf(fabric, d) => d \in D!DescendantsOf(s)
    BY DEF D!DescendantsOf, LookedUp
<1>4. ASSUME NEW c \in claims, s \in D!RollupTargets(c.key.scope) PROVE c \in few
    <2>1. /\ c.key.scope \in DOMAIN fabric.scopes
          /\ s \in {c.key.scope} \cup AncestorsOf(fabric, c.key.scope)
        BY <1>4, CountsFor
    <2> HIDE DEF claims, few
    <2> QED BY <1>2, <1>3, <1>4, <2>1
<1>5. few \in SUBSET claims
    BY <1>2
<1> HIDE DEF few
<1>6. D!TotalAt(few, s) = D!TotalAt(claims, s)
    <2> HIDE DEF claims
    <2> QED BY <1>1, <1>4, <1>5, D!RollupOfThose DEF claims
<1> QED BY <1>6 DEF few

\* The topmost scopes and the work of no scope make up the whole.
LEMMA TopmostAreWhole ==
    ASSUME Inductive, NEW t
    PROVE  D!TotalOf(D!Claims(C, t))
               = D!SumAt(D!Claims(C, t),
                         {s \in DOMAIN fabric.scopes : fabric.scopes[s].parent = {}}
                             \cup {D!NoScope})
<1> DEFINE claims == D!Claims(C, t)
           top == {s \in DOMAIN fabric.scopes : fabric.scopes[s].parent = {}}
           S == top \cup {D!NoScope}
<1>1. D!Measured(C)
    BY CandidatesAre DEF D!Measured, D!IsReport
<1>2. D!IsFiniteSet(S)
    <2>1. IsFiniteSet(top)
        BY FabricIs, FS_Subset
    <2>2. IsFiniteSet(S)
        BY <2>1, FS_AddElement
    <2> QED BY <2>2 DEF IsFiniteSet, D!IsFiniteSet
<1>3. ASSUME NEW c \in claims
      PROVE  /\ \A x, y \in S \cap D!RollupTargets(c.key.scope) : x = y
             /\ S \cap D!RollupTargets(c.key.scope) # {}
    <2> DEFINE d == c.key.scope
    <2>1. d \in DOMAIN fabric.scopes \cup {D!NoScope}
        BY <1>3, ScopesOfClaims
    <2>2. CASE d = D!NoScope
        BY <2>2 DEF D!RollupTargets
    <2>3. CASE d \in DOMAIN fabric.scopes
        <3>1. \A x \in DOMAIN fabric.scopes :
                  x \in D!RollupTargets(d) <=> x \in {d} \cup AncestorsOf(fabric, d)
            BY <1>3, <2>3, CountsFor
        <3>2. D!NoScope \notin D!RollupTargets(d)
            <4>1. D!RollupTargets(d) = {d} \cup AncestorsOf(fabric, d)
                BY <2>3, FabricIs DEF D!RollupTargets, LookedUp
            <4> QED BY <2>3, <4>1, FabricIs, AncestorsClosed
        <3>3. {d} \cup AncestorsOf(fabric, d) \subseteq DOMAIN fabric.scopes
            BY <2>3, FabricIs, AncestorsClosed
        <3>4. \E r \in {d} \cup AncestorsOf(fabric, d) : fabric.scopes[r].parent = {}
            BY <2>3, FabricIs, RootAbove
        <3>5. \A r, q \in {d} \cup AncestorsOf(fabric, d) :
                  fabric.scopes[r].parent = {} /\ fabric.scopes[q].parent = {} => r = q
            BY <2>3, FabricIs, RootAbove
        <3> QED BY <3>1, <3>2, <3>3, <3>4, <3>5
    <2> QED BY <2>1, <2>2, <2>3
<1> HIDE DEF S
<1>4. D!TotalOf(claims) = D!SumAt(claims, S)
    <2>1. claims \in SUBSET claims
        OBVIOUS
    <2> HIDE DEF claims
    <2> QED BY <1>1, <1>2, <1>3, <2>1, D!RollupIsWhole DEF claims
<1> QED BY <1>4 DEF S

\* No rollup loses work or counts it twice, however the scopes are arranged.
THEOREM RollsUpOnce == Spec => []RollupConserves
<1>1. Inductive => RollupConserves
    <2> SUFFICES ASSUME Inductive, NEW t \in Instants
                 PROVE  LET claims == D!Claims(C, t)
                            all    == D!Rows(D!AnyWork, claims)
                            scopes == DOMAIN fabric.scopes
                        IN  /\ \A s \in scopes :
                                   /\ D!TotalAt(all, s)
                                          = D!TotalOf({c \in claims : c.key.scope = s})
                                                + D!SumAt(all, ChildrenOf(fabric, s))
                                   /\ D!TotalAt(D!Rows(Below(s), claims), s) = D!TotalAt(all, s)
                            /\ D!TotalOf(claims)
                                   = D!SumAt(all, {s \in scopes : fabric.scopes[s].parent = {}}
                                                      \cup {D!NoScope})
        BY Zenon DEF RollupConserves
    <2> QED BY EveryRow, ScopeSplits, QueryBelow, TopmostAreWhole
<1> QED BY <1>1, InductiveInvariant, PTL

\* As long as the same evidence is usable, the whole that an aggregation answers, and the totals
\* along every axis along which no claim is divided, do not change when a period is folded.
THEOREM AggregatesAlike == Spec => []AxesAgree
<1>1. Inductive => AxesAgree
    <2> SUFFICES ASSUME Inductive, NEW closed \in Instants, NEW now \in Instants
                 PROVE  D!AxesAgree(C, closed, now, Period, Width)
        BY DEF AxesAgree
    <2>1. \A o \in C : o.amount \in Nat
        BY CandidatesAre DEF D!IsReport
    <2> QED BY <2>1, CandidatesAre, D!FoldingKeepsTotals
<1> QED BY <1>1, InductiveInvariant, PTL

-------------------------------------------------------------------------------
(* What arrives again *)

\* What the redelivery of a measurement is to the evidence of the period.
LEMMA ArrivesAgain ==
    ASSUME Inductive, NEW t, NEW o \in Evidence \ evidence, IsRedelivery(o),
           \A x \in evidence : D!Content(x) = D!Content(o)
               => (D!Admissible(x, t) <=> D!Admissible(o, t)) /\ ~D!Collides(C, x)
    PROVE  ClaimTotals(evidence \cup {o}, t) = ClaimTotals(evidence, t)
<1>1. D!IsReport(o) /\ \A x \in evidence : D!IsReport(x)
    BY AccountingAssumption DEF Inductive
<1>2. PICK x \in evidence : D!Content(x) = D!Content(o)
    BY DEF IsRedelivery
<1>3. D!Alike(x, o)
    BY <1>1, <1>2, D!ContentFields
<1>4. \A S : ClaimTotals(S, t) = D!KeyTotals(D!Candidates(S, Period), t)
    BY DEF ClaimTotals, D!KeyTotals
<1>5. CASE Period.start <= o.start /\ o.end <= Period.end
    <2>1. D!Candidates(evidence \cup {o}, Period) = C \cup {o}
        BY <1>5 DEF C, D!Candidates
    <2>2. x \in C /\ C \subseteq evidence
        BY <1>3, <1>5 DEF D!Alike, C, D!Candidates
    <2>3. D!Reports(C)
        BY <1>1, <2>2 DEF D!Reports
    <2>4. \A y \in C : y.id # o.id
        BY <2>2 DEF IsRedelivery
    <2>5. \A y \in C : D!Content(y) = D!Content(o)
              => (D!Admissible(y, t) <=> D!Admissible(o, t)) /\ ~D!Collides(C, y)
        BY <2>2
    <2>6. D!Redelivers(C, o, t)
        BY <1>1, <1>2, <2>2, <2>3, <2>4, <2>5 DEF D!Redelivers
    <2>7. D!KeyTotals(C \cup {o}, t) = D!KeyTotals(C, t)
        BY <2>6, CandidatesAre, D!RedeliveryKeepsTotals
    <2>8. D!Candidates(evidence, Period) = C
        BY DEF C
    <2> QED BY <1>4, <2>1, <2>7, <2>8
<1>6. CASE ~(Period.start <= o.start /\ o.end <= Period.end)
    <2>1. D!Candidates(evidence \cup {o}, Period) = D!Candidates(evidence, Period)
        BY <1>6 DEF D!Candidates
    <2> QED BY <1>4, <2>1
<1> QED BY <1>5, <1>6

\* However often a measurement is delivered, it adds to no total.
THEOREM RedeliveryChangesNothing == Spec => RedeliveryHarmless
<1>1. Inductive /\ [Next]_vars =>
          [\A o \in evidence' \ evidence : \A t \in Instants :
              (/\ IsRedelivery(o)
               /\ \A x \in evidence : D!Content(x) = D!Content(o)
                      => (D!Admissible(x, t) <=> D!Admissible(o, t)) /\ ~D!Collides(C, x))
              => ClaimTotals(evidence', t) = ClaimTotals(evidence, t)]_vars
    <2> SUFFICES ASSUME Inductive, Next, NEW o \in evidence' \ evidence, NEW t \in Instants,
                        IsRedelivery(o),
                        \A x \in evidence : D!Content(x) = D!Content(o)
                            => (D!Admissible(x, t) <=> D!Admissible(o, t)) /\ ~D!Collides(C, x)
                 PROVE  ClaimTotals(evidence', t) = ClaimTotals(evidence, t)
        OBVIOUS
    <2>1. PICK e \in Evidence : Arrive(e)
        BY DEF Next, Build, Configure
    <2>2. e = o /\ o \in Evidence \ evidence /\ evidence' = evidence \cup {o}
        BY <2>1 DEF Arrive
    <2>3. ClaimTotals(evidence \cup {o}, t) = ClaimTotals(evidence, t)
        BY <2>2, ArrivesAgain
    <2> QED BY <2>2, <2>3
<1> QED BY <1>1, InductiveInvariant, PTL DEF RedeliveryHarmless, Spec
===============================================================================
