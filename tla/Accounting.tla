------------------------------- MODULE Accounting -------------------------------
(***************************************************************************)
(* From a topology document to the accounts.  A document is built by       *)
(* adding definitions in any order; a ledger is opened, closed and opened  *)
(* again with any of the callers' policies and documents; observations of  *)
(* one period arrive in any order.  After every step the accounts of the   *)
(* evidence so far are what the derivation makes of it, under the policy   *)
(* and with the document that run.                                         *)
(*                                                                         *)
(* What evidence loses when a restart reads it again is left to Ledger.    *)
(***************************************************************************)
EXTENDS Snapshots, FiniteSetsExt

CONSTANTS
    Definitions,   \* what a document may be built from, by list
    Policies,      \* the policies of the callers
    Documents,     \* and their documents
    Evidence,      \* the observations that may arrive
    Resources,     \* the targets among them that are resources, defined or not
    Period,        \* the period they are accounted in
    Instants,      \* when the accounts are derived
    Width          \* of the buckets of an aggregation over time

VARIABLE evidence   \* retained by the ledger

vars == <<topology, snapshots, evidence>>

D == INSTANCE AccountsProofs WITH Policy <- policy, Topology <- LookedUp(fabric, Resources)

\* Definitions, documents, policies and observations have the fields the code gives them.
\* No scope has the name that stands for none.
AreDefinitions(d) ==
    /\ \A x \in d.generations \cup d.reservations : IsSpan(x.is, "from", "until")
    /\ \A x \in d.sources : x.id \in Nat /\ IsSource(x.is)
    /\ \A x \in d.incarnations : x.id \in Nat /\ IsSpan(x.is, "started", "retired")
    /\ \A x \in d.scopes : x.id # "nil" /\ \A p, q \in x.parent : p = q
    /\ \A b \in d.bindings : IsSpan(b, "from", "until")

ASSUME AccountingAssumption ==
    /\ AreDefinitions(Definitions)
    /\ \A t \in Documents : IsDocument(t)
    /\ \A p \in Policies \cup {DefaultPolicy} : IsPolicy(p)
    /\ \A o \in Evidence : D!IsReport(o)

C == D!Candidates(evidence, Period)

Init == InitTopology /\ InitSnapshots /\ evidence = {}

Build ==
    /\ UNCHANGED <<snapshots, evidence>>
    /\ \/ \E d \in Definitions.generations  : AddGeneration(d.id, d.is)
       \/ \E d \in Definitions.sources      : AddSource(d.id, d.is)
       \/ \E d \in Definitions.incarnations : AddIncarnation(d.id, d.is)
       \/ \E d \in Definitions.scopes       : AddScope(d.id, d.parent, d.members)
       \/ \E d \in Definitions.resources    : AddResource(d.id, d.is)
       \/ \E b \in Definitions.bindings     : AddBinding(b)
       \/ \E d \in Definitions.flows        : AddFlow(d.id, d.is)
       \/ \E d \in Definitions.paths        : AddPath(d.id, d.is)
       \/ \E d \in Definitions.reservations : AddReservation(d.id, d.is)

Configure ==
    /\ UNCHANGED <<topology, evidence>>
    /\ \/ \E m \in {"writer", "reader"}, p \in Policies, t \in Documents : Open(m, p, t)
       \/ Close

\* What ingest checks of an observation against the topology that runs and the period.
Acceptable(o) ==
    /\ o.source \in DOMAIN fabric.sources /\ D!Provenance(o) # D!UnsupportedClass
    /\ D!Declared(o)
    /\ \A t \in D!Incarnation(o).retired : o.received <= t
    /\ o.epoch >= D!Incarnation(o).boot
    /\ o.generation \in DOMAIN fabric.generations
    /\ Period.start <= o.start /\ o.end <= Period.end

Arrive(o) ==
    /\ mode = "writer" /\ Acceptable(o)
    /\ o \notin evidence /\ evidence' = evidence \cup {o}
    /\ UNCHANGED <<topology, snapshots>>

Next == Build \/ Configure \/ \E o \in Evidence : Arrive(o)
Spec == Init /\ [][Next]_vars

-------------------------------------------------------------------------------

\* No measurement is counted twice.
MeasuredOnce == \A t \in Instants : D!MeasuredOnce(C, t)

\* Every observation of work that is not counted is named by a rejection or a conflict.
Explained == \A t \in Instants : D!Explained(C, t)

\* Claims and conservation domains are two partitions of the same counted work.
Conserved == \A t \in Instants : D!Conserved(C, t)

\* A dispute is never decided against a source of higher authority.
AuthorityRespected == \A t \in Instants : D!AuthorityRespected(C, t)

\* A ratio is only given for a measure of which nothing is missing.
DeterminateIsComplete ==
    \A t \in Instants : \A kind \in {o.kind : o \in C} : D!DeterminateIsComplete(C, t, kind)

\* As long as the same evidence is usable as when it was closed, and the policy and the
\* document are those of the closing, a period answers the same before and after folding.
AxesAgree == \A closed, now \in Instants : D!AxesAgree(C, closed, now, Period, Width)

ClaimTotals(seen, t) == {<<c.key, c.total>> : c \in D!Claims(D!Candidates(seen, Period), t)}
IsRedelivery(o) ==
    /\ \E x \in evidence : x.id # o.id /\ D!Content(x) = D!Content(o)
    /\ \A x \in evidence : x.id # o.id

\* A measurement that arrives once more, under an identity of its own, changes no total,
\* as long as every delivery of it is admissible or none is, and none shares its identity
\* with another record.  Otherwise the new delivery can be counted where the one before it
\* was left out.
RedeliveryHarmless ==
    [][\A o \in evidence' \ evidence : \A t \in Instants :
          (/\ IsRedelivery(o)
           /\ \A x \in evidence : D!Content(x) = D!Content(o)
                  => (D!Admissible(x, t) <=> D!Admissible(o, t)) /\ ~D!Collides(C, x))
          => ClaimTotals(evidence', t) = ClaimTotals(evidence, t)]_vars

\* The same without the proviso: "Deliver the same measurement twice through the same
\* origin: counted once".
SecondDeliverySuppressed ==
    [][\A o \in evidence' \ evidence : \A t \in Instants :
          IsRedelivery(o) => ClaimTotals(evidence', t) = ClaimTotals(evidence, t)]_vars

\* The invariant of the property suite: what is admitted and what is rejected add up to
\* what was considered.
AdmittedAndRejectedAddUp ==
    \A t \in Instants :
        Cardinality(D!Contributions(C, t)) + Cardinality(D!Rejections(C, t)) = Cardinality(C)

Below(s) == [D!AnyWork EXCEPT !.scope = {s}, !.descendants = TRUE]

\* "A scope total is the sum of its own members and the totals of its children": so it is in
\* every rollup, the topmost scopes and the work of no scope make up the whole, and a query
\* for a scope and those below it rolls up to the same total.
RollupConserves ==
    \A t \in Instants :
        LET claims == D!Claims(C, t)
            all    == D!Rows(D!AnyWork, claims)
            scopes == DOMAIN fabric.scopes
        IN  /\ \A s \in scopes :
                   /\ D!TotalAt(all, s)
                          = D!TotalOf({c \in claims : c.key.scope = s})
                                + D!SumAt(all, ChildrenOf(fabric, s))
                   /\ D!TotalAt(D!Rows(Below(s), claims), s) = D!TotalAt(all, s)
            /\ D!TotalOf(claims)
                   = D!SumAt(all, {s \in scopes : fabric.scopes[s].parent = {}} \cup {D!NoScope})

-------------------------------------------------------------------------------
(* What the proofs rest on *)

Inductive ==
    /\ IsDocument(topology)
    /\ Remembered
    /\ evidence \subseteq Evidence /\ IsFiniteSet(evidence)
===============================================================================
