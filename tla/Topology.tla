------------------------------- MODULE Topology -------------------------------
(***************************************************************************)
(* The topology document (FabricTopology of topology.cpp) and its JSON     *)
(* form (topology_json.cpp).  A document is built by adding definitions in *)
(* any order; what relates them to each other is only looked at when the   *)
(* whole document is validated.                                            *)
(*                                                                         *)
(* Definitions are kept by identity, as in the maps of the class, without  *)
(* their labels, kinds and localities.  Bindings are a sequence: nothing   *)
(* refuses a second one, and the digest depends on their order.  Names are *)
(* not nil, and every list is within its budget.                           *)
(***************************************************************************)
EXTENDS Times, FiniteSets, Sequences

VARIABLE topology

EmptyTopology ==
    [generations |-> <<>>, sources |-> <<>>, incarnations |-> <<>>, scopes |-> <<>>,
     resources |-> <<>>, bindings |-> <<>>, flows |-> <<>>, paths |-> <<>>,
     reservations |-> <<>>]

InitTopology == topology = EmptyTopology

-------------------------------------------------------------------------------
(* Adding a definition.  A definition that is refused leaves no trace. *)

Defined(field, id) == id \in DOMAIN topology[field]

Put(f, id, d) == [x \in DOMAIN f \cup {id} |-> IF x = id THEN d ELSE f[x]]

Add(field, id, definition) ==
    /\ ~Defined(field, id)
    /\ topology' = [topology EXCEPT ![field] = Put(@, id, definition)]

NotBefore(from, until) == \A t \in until : t >= from

AddGeneration(id, g) == Add("generations", id, g)
AddSource(id, s)     == Add("sources", id, s)

AddIncarnation(id, i) ==
    /\ NotBefore(i.started, i.retired)
    /\ Add("incarnations", id, i)

\* A scope keeps its members sorted, and is refused when one is listed twice.
AddScope(id, parent, members) ==
    /\ id \notin parent
    /\ \A i, j \in DOMAIN members : members[i] = members[j] => i = j
    /\ Add("scopes", id, [parent |-> parent, members |-> {members[i] : i \in DOMAIN members}])

AddResource(id, scope) == Add("resources", id, scope)

AddBinding(b) ==
    /\ NotBefore(b.from, b.until)
    /\ topology' = [topology EXCEPT !.bindings = Append(@, b)]

AddFlow(id, f) == Add("flows", id, f)
AddPath(id, p) == Add("paths", id, p)

AddReservation(id, r) ==
    /\ NotBefore(r.from, r.until)
    /\ Add("reservations", id, r)

-------------------------------------------------------------------------------
(* The hierarchy of scopes *)

ParentOf(t, s) == IF s \in DOMAIN t.scopes THEN t.scopes[s].parent ELSE {}

\* The scopes met on the way up, a scope that is named as a parent and not defined included.
AncestorsOf(t, s) ==
    LET above[n \in 0..Cardinality(DOMAIN t.scopes)] ==
            IF n = 0 THEN ParentOf(t, s)
            ELSE above[n - 1] \cup UNION {ParentOf(t, a) : a \in above[n - 1]}
    IN  above[Cardinality(DOMAIN t.scopes)]

ChildrenOf(t, s)    == {c \in DOMAIN t.scopes : s \in t.scopes[c].parent}
DescendantsOf(t, s) == {d \in DOMAIN t.scopes \ {s} : s \in AncestorsOf(t, d)}

ResourcesOf(t, s) ==
    UNION {t.scopes[x].members : x \in {s} \cup DescendantsOf(t, s)}

-------------------------------------------------------------------------------
(* Validation *)

ParentsDefined(t) == \A s \in DOMAIN t.scopes : t.scopes[s].parent \subseteq DOMAIN t.scopes

\* (mutant) Only a scope that is its own parent is noticed.
NoSelfParent(t) == \A s \in DOMAIN t.scopes : s \notin t.scopes[s].parent
Forest(t) == \A s \in DOMAIN t.scopes : s \notin AncestorsOf(t, s)

Owners(t, r) == {s \in DOMAIN t.scopes : r \in t.scopes[s].members}

\* (mutant) A second scope that lists a resource goes unnoticed.
OwnedSomewhere(t) ==
    /\ \A s \in DOMAIN t.scopes : t.scopes[s].members \subseteq DOMAIN t.resources
    /\ \A r \in DOMAIN t.resources : t.resources[r] \in Owners(t, r)

\* Members are defined, and a resource is listed by the scope it names, and by no other.
Membership(t) ==
    /\ \A s \in DOMAIN t.scopes : t.scopes[s].members \subseteq DOMAIN t.resources
    /\ \A r \in DOMAIN t.resources : Owners(t, r) = {t.resources[r]}

SourcesDefined(t) ==
    \A i \in DOMAIN t.incarnations : t.incarnations[i].source \in DOMAIN t.sources

\* intervals_overlap: an interval holds both of its bounds.
IntervalsOverlap(from1, until1, from2, until2) ==
    (\A u \in until1 : from2 <= u) /\ (\A u \in until2 : from1 <= u)

\* (mutant) The incarnations of a source are in the order of their identities.
NextByIdentity(S, incarnations, a, b) ==
    a < b /\ ~\E c \in S : a < c /\ c < b

\* b follows a when the incarnations S are sorted by start, then by identity.
Sorted(incarnations, a, b) ==
    \/ incarnations[a].started < incarnations[b].started
    \/ incarnations[a].started = incarnations[b].started /\ a < b
NextIncarnation(S, incarnations, a, b) ==
    /\ Sorted(incarnations, a, b)
    /\ ~\E c \in S : Sorted(incarnations, a, c) /\ Sorted(incarnations, c, b)

\* Only neighbours are compared.
IncarnationsApart(t) ==
    LET inc == t.incarnations
    IN  \A a, b \in DOMAIN inc :
            /\ inc[a].source = inc[b].source
            /\ NextIncarnation({c \in DOMAIN inc : inc[c].source = inc[a].source}, inc, a, b)
            => ~IntervalsOverlap(inc[a].started, inc[a].retired, inc[b].started, inc[b].retired)

BindingsDefined(t) ==
    \A i \in DOMAIN t.bindings :
        /\ t.bindings[i].resource \in DOMAIN t.resources
        /\ t.bindings[i].generation \in DOMAIN t.generations

\* The bindings of a resource and generation, sorted by their start, of which neighbours are
\* compared; two that start together overlap whichever comes first.
BindingsApart(t) ==
    \A i, j \in DOMAIN t.bindings :
        LET a == t.bindings[i]
            b == t.bindings[j]
        IN  /\ i # j /\ a.resource = b.resource /\ a.generation = b.generation
            /\ a.from <= b.from
            /\ ~\E k \in DOMAIN t.bindings :
                   /\ t.bindings[k].resource = a.resource
                   /\ t.bindings[k].generation = a.generation
                   /\ a.from < t.bindings[k].from /\ t.bindings[k].from < b.from
            => ~IntervalsOverlap(a.from, a.until, b.from, b.until)

Placed(t, x) == x.scope \in DOMAIN t.scopes /\ x.generation \in DOMAIN t.generations

FlowsDefined(t) ==
    \A f \in DOMAIN t.flows : Placed(t, t.flows[f]) /\ t.flows[f].hint \subseteq DOMAIN t.resources
PathsDefined(t) ==
    \A p \in DOMAIN t.paths : Placed(t, t.paths[p]) /\ t.paths[p].hops \subseteq DOMAIN t.resources
ReservationsDefined(t) ==
    \A r \in DOMAIN t.reservations :
        /\ Placed(t, t.reservations[r])
        /\ t.reservations[r].resource \subseteq DOMAIN t.resources

Valid(t) ==
    /\ ParentsDefined(t) /\ Forest(t) /\ Membership(t)
    /\ SourcesDefined(t) /\ IncarnationsApart(t)
    /\ BindingsDefined(t) /\ BindingsApart(t)
    /\ FlowsDefined(t) /\ PathsDefined(t) /\ ReservationsDefined(t)

-------------------------------------------------------------------------------
(* The document after it has been written and read again *)

CutLife(x)        == [x EXCEPT !.from = Cut(@), !.until = CutIfSet(@)]
CutIncarnation(x) == [x EXCEPT !.started = Cut(@), !.retired = CutIfSet(@)]

Rewritten(t) ==
    [t EXCEPT
        !.generations  = [g \in DOMAIN @ |-> CutLife(@[g])],
        !.incarnations = [i \in DOMAIN @ |-> CutIncarnation(@[i])],
        !.bindings     = [i \in DOMAIN @ |-> CutLife(@[i])],
        !.reservations = [r \in DOMAIN @ |-> CutLife(@[r])]]

\* topology_from_json adds every definition again and validates the whole.
Readable(t) == Valid(Rewritten(t))

-------------------------------------------------------------------------------
(* What the derivation looks up in a document *)

\* Both maps in one; where both have a key the first decides.
Joined(f, g) == [x \in DOMAIN f \cup DOMAIN g |-> IF x \in DOMAIN f THEN f[x] ELSE g[x]]

ScopeOfTargets(t) ==
    LET attached == {r \in DOMAIN t.resources : t.resources[r] \in DOMAIN t.scopes}
        scopes(field) == [x \in DOMAIN t[field] |-> t[field][x].scope]
    IN  Joined([r \in attached |-> t.resources[r]],
               Joined(scopes("paths"), Joined(scopes("flows"), scopes("reservations"))))

\* named are the targets of evidence that are resources, defined or not.
LookedUp(t, named) ==
    [sources      |-> t.sources,
     incarnations |-> t.incarnations,
     generations  |-> DOMAIN t.generations,
     resources    |-> named,
     scope        |-> ScopeOfTargets(t),
     routes       |-> DOMAIN t.paths \cup DOMAIN t.reservations,
     ancestors    |-> [s \in DOMAIN t.scopes |-> AncestorsOf(t, s)],
     bindings     |-> {t.bindings[i] : i \in DOMAIN t.bindings}]

-------------------------------------------------------------------------------
(* Properties *)

\* "Hierarchy must be a forest": in a valid document, every set of scopes has one whose
\* parent is not in the set, so every way up ends.
HierarchyIsForest ==
    Valid(topology) =>
        \A S \in SUBSET DOMAIN topology.scopes :
            S # {} => \E s \in S : topology.scopes[s].parent \cap S = {}

\* "A scope total is the sum of its own members and the totals of its children": in a valid
\* document the resources below a scope are its members and those below its children, each
\* of them once.
AttributionUnique ==
    Valid(topology) =>
        \A s \in DOMAIN topology.scopes :
            LET below == [c \in ChildrenOf(topology, s) |-> ResourcesOf(topology, c)]
                own   == topology.scopes[s].members
            IN  /\ ResourcesOf(topology, s) = own \cup UNION {below[c] : c \in DOMAIN below}
                /\ \A c \in DOMAIN below :
                       /\ below[c] \cap own = {}
                       /\ \A d \in DOMAIN below \ {c} : below[c] \cap below[d] = {}

Live(from, until, when) == from <= when /\ \A t \in until : when <= t

\* Two incarnations of one source are never live at one instant, and two bindings of one
\* resource and generation never cover one, although validation compares neighbours only.
LiveOnce ==
    Valid(topology) =>
        LET inc == topology.incarnations
            bnd == topology.bindings
        IN  /\ \A a, b \in DOMAIN inc :
                   inc[a].source = inc[b].source /\ a # b
                       => ~Live(inc[a].started, inc[a].retired, inc[b].started)
            /\ \A i, j \in DOMAIN bnd :
                   /\ i # j /\ bnd[i].resource = bnd[j].resource
                   /\ bnd[i].generation = bnd[j].generation
                   => ~Live(bnd[i].from, bnd[i].until, bnd[j].from)

-------------------------------------------------------------------------------
(* What the proofs rest on: the shape every document has, valid or not *)

Lists == {"generations", "sources", "incarnations", "scopes", "resources", "flows", "paths",
          "reservations"}
IsMap(f)  == f = [x \in DOMAIN f |-> f[x]]
IsList(s) == s \in Seq({s[i] : i \in DOMAIN s})
IsSpan(x, from, until) ==
    /\ IsMap(x) /\ {from, until} \subseteq DOMAIN x
    /\ x[from] \in Int /\ x[until] \subseteq Int

\* No provenance class has another number.
IsSource(s) == s.rank \in Nat /\ s.provenance \in 1..4

IsDocument(t) ==
    /\ IsMap(t) /\ DOMAIN t = Lists \cup {"bindings"}
    /\ \A f \in Lists : IsMap(t[f]) /\ IsFiniteSet(DOMAIN t[f])
    /\ IsList(t.bindings)
    /\ \A g \in DOMAIN t.generations : IsSpan(t.generations[g], "from", "until")
    /\ \A r \in DOMAIN t.reservations : IsSpan(t.reservations[r], "from", "until")
    /\ \A i \in DOMAIN t.bindings :
          /\ IsSpan(t.bindings[i], "from", "until")
          /\ NotBefore(t.bindings[i].from, t.bindings[i].until)
    /\ \A i \in DOMAIN t.incarnations :
          /\ i \in Nat /\ IsSpan(t.incarnations[i], "started", "retired")
          /\ NotBefore(t.incarnations[i].started, t.incarnations[i].retired)
    /\ "nil" \notin DOMAIN t.scopes
    /\ \A s \in DOMAIN t.scopes : \A p, q \in t.scopes[s].parent : p = q
    /\ \A s \in DOMAIN t.sources : s \in Nat /\ IsSource(t.sources[s])
===============================================================================
