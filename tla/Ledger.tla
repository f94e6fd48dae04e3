-------------------------------- MODULE Ledger --------------------------------
(***************************************************************************)
(* The life of accounting periods (Ledger of ledger.cpp): they are opened, *)
(* fed with evidence, closed into an immutable revision, corrected by      *)
(* further revisions, and compacted; the process stops at any moment and a *)
(* later one replays the store.                                            *)
(*                                                                         *)
(* Every operation holds the ledger's one mutex from beginning to end, so  *)
(* an operation that makes one commit is one step.  A compaction makes two *)
(* commits and is two steps.  The store is the durable log that            *)
(* LedgerStore implements: a commit is atomic, and replay gives back the   *)
(* records in the order of the commits.  So `stored` holds what was        *)
(* committed, by record kind; Records says what each record is when it is  *)
(* read again.                                                             *)
(***************************************************************************)
EXTENDS Records

CONSTANTS Evidence,  \* the observations that may be delivered, each with copy = 1
          Periods,   \* the periods that may be opened, [start, end] each
          Instants   \* the instants a period may be closed or corrected at

\* The bounds of a period are whole milliseconds, no two observations are told apart by less
\* than one, and the limits of the policy are numbers.
ASSUME LedgerAssumption ==
    /\ \A p \in Periods : ReadPeriod(p) = p /\ p.start \in Nat /\ p.end \in Nat /\ p.start < p.end
    /\ Policy.maxRetained \in Nat /\ Policy.maxCorrections \in Nat
    /\ IsFiniteSet(Evidence)
    /\ \A o \in Evidence : IsObservation(o) /\ o.copy = 1 /\ ObservationReadable(o)
    /\ \A o, x \in Evidence : ReadObservation(o) = ReadObservation(x) => o = x

VARIABLES
    stored,       \* the durable log: [snapshots, periods, revisions, corrections, evidence,
                  \*   folded]; snapshots: the policy and the topology are in it
    mode,         \* "down", "writer", or "reader" of a store it has not locked
    marking,      \* the periods a compaction has folded and still has to mark
    periods,      \* periods: period -> [state, current]
    revisions,    \* revisions
    corrections,  \* corrections
    evidence,     \* observations, a multimap: see Derivation on copies
    folded,       \* folded_periods
    required,     \* correction_required
    delivered     \* history: every observation the store ever held

memory == <<mode, marking, periods, revisions, corrections, evidence, folded, required>>
vars   == <<stored, memory, delivered>>

-------------------------------------------------------------------------------
(* Revisions and corrections *)

Of(S, p) == {r \in S : r.period = p}
Latest(p) == CHOOSE r \in Of(revisions, p) : \A x \in Of(revisions, p) : x.number <= r.number

\* The content digest covers the whole revision, its parent included.
Digest(r) == r

\* What a revision says of its conservation domains.
Balances(C, asOf) ==
    {[domain |-> c.domain, status |-> Status(c), delta |-> Delta(c)] : c \in Conservation(C, asOf)}

\* (mutant) Every correction names the first revision as its parent.
RevisionOfFirst(p, number, parent, asOf) ==
    [period |-> p, number |-> number,
     parent |-> {Digest(r) : r \in {x \in Of(revisions, p) : x.number = 1}},
     claims |-> Claims(Candidates(evidence, p), asOf),
     conservation |-> Balances(Candidates(evidence, p), asOf), asOf |-> asOf]

\* A revision of what is retained now; parent is {} or holds one digest.
Revision(p, number, parent, asOf) ==
    [period |-> p, number |-> number, parent |-> parent,
     claims |-> Claims(Candidates(evidence, p), asOf),
     conservation |-> Balances(Candidates(evidence, p), asOf), asOf |-> asOf]

Correction(p, next) ==
    LET last == {c \in Of(corrections, p) : \A x \in Of(corrections, p) : x.to <= c.to}
    IN  [period |-> p, from |-> next.number - 1, to |-> next.number,
         created |-> next.asOf, new |-> Digest(next), previous |-> {c.new : c \in last}]

CountedIds(r) == UNION {c.evidence : c \in r.claims}

-------------------------------------------------------------------------------
(* Replay *)

\* (mutant) Every revision counts as a correction.
ReplayedStateAny(number) == IF number = 0 THEN "open" ELSE "superseded"
ReplayedState(number) ==
    IF number = 0 THEN "open" ELSE IF number = 1 THEN "closed" ELSE "superseded"

\* A record that cannot be read, or whose digest does not match, is passed over in silence.
ReplayedRevisions   == {r \in stored.revisions : RevisionReadable(r)}
ReplayedCorrections == {ReadCorrection(c) : c \in stored.corrections}
ReplayedEvidence    == {ReadObservation(o) : o \in {x \in stored.evidence : ObservationReadable(x)}}

ReplayedPeriods ==
    [p \in {ReadPeriod(q) : q \in stored.periods} |->
        LET numbers == {0} \cup {r.number : r \in Of(ReplayedRevisions, p)}
        IN  [current |-> Max(numbers), state |-> ReplayedState(Max(numbers))]]

\* An open that finds no snapshots writes them first, which takes the store lock.
Open(m) ==
    /\ mode = "down"
    /\ m = "writer" \/ stored.snapshots
    /\ mode' = m
    /\ stored' = [stored EXCEPT !.snapshots = TRUE]
    /\ periods' = ReplayedPeriods
    /\ revisions' = ReplayedRevisions
    /\ corrections' = ReplayedCorrections
    /\ evidence' = ReplayedEvidence
    /\ folded' = stored.folded
    /\ UNCHANGED <<marking, required, delivered>>

\* The destructor writes nothing, so it does no more than a crash.
Stop ==
    /\ mode # "down"
    /\ mode' = "down" /\ marking' = {}
    /\ periods' = [p \in {} |-> 0] /\ revisions' = {} /\ corrections' = {}
    /\ evidence' = {} /\ folded' = {} /\ required' = {}
    /\ UNCHANGED <<stored, delivered>>

Ready == mode # "down" /\ marking = {}

\* A ledger without the store lock changes its memory only.
Commit(s) == stored' = IF mode = "writer" THEN s ELSE stored

-------------------------------------------------------------------------------
(* open_period *)

\* (mutant) Only the periods that begin earlier are looked at.
OverlapsFromLeft(p, q) == q.start <= p.start /\ p.start < q.end
Overlaps(p, q) == p.start < q.end /\ q.start < p.end

OpenPeriod(p) ==
    /\ Ready
    /\ \A q \in DOMAIN periods : ~Overlaps(p, q)
    /\ Commit([stored EXCEPT !.periods = @ \cup {p}])
    /\ periods' = [q \in DOMAIN periods \cup {p} |->
                      IF q = p THEN [current |-> 0, state |-> "open"] ELSE periods[q]]
    /\ UNCHANGED <<mode, marking, revisions, corrections, evidence, folded, required, delivered>>

-------------------------------------------------------------------------------
(* ingest *)

SameRecord(a, b) == [a EXCEPT !.copy = 1] = [b EXCEPT !.copy = 1]
CopiesIn(E, o) == {x \in E : SameRecord(x, o)}

\* (mutant) Nothing is looked up.
NeverPresent(o) == FALSE
AlreadyPresent(o) == CopiesIn(evidence, o) # {}

\* What ingest checks of an observation alone and against the topology.
Acceptable(o) ==
    /\ ValidShape(o)
    /\ o.source \in DOMAIN Topology.sources
    /\ Declared(o)
    /\ \A t \in Incarnation(o).retired : o.received <= t
    /\ o.epoch >= Incarnation(o).boot
    /\ o.generation \in Topology.generations
    /\ Provenance(o) # UnsupportedClass

\* The periods that contain the window.  They never overlap, so there is at most one.
TargetsOf(o) == {p \in DOMAIN periods : p.start <= o.start /\ o.end <= p.end}
Late(o) == \A p \in TargetsOf(o) : periods[p].state # "open"

\* What reaches the check for duplicates, and what is left after it.
Addressed(batch) ==
    {o \in batch : /\ Acceptable(o) /\ TargetsOf(o) # {}
                   /\ Late(o) => Policy.late = "RequiresCorrection"}
Accepted(batch) == {o \in Addressed(batch) : ~AlreadyPresent(o)}

\* (mutant) A record counts against the budget only if its identity is new.
FitsByIdentity(batch) ==
    Cardinality(evidence) + Cardinality({o.id : o \in batch} \ {o.id : o \in evidence})
        <= Policy.maxRetained
Fits(batch) ==
    Cardinality(evidence) + Cardinality({o \in batch : ~AlreadyPresent(o)}) <= Policy.maxRetained

\* Inserting into a multimap, or replaying the records, keeps the copies that are there.
Insert(E, S) == E \cup {[o EXCEPT !.copy = Cardinality(CopiesIn(E, o)) + 1] : o \in S}

\* (mutant) Superseded is not looked at: only a period closed once is flagged.
FlagLateOnce(batch) ==
    required' = required \cup
        {p \in UNION {TargetsOf(o) : o \in Addressed(batch)} : periods[p].state = "closed"}

\* correction_required is updated before the append, and is not taken back.
FlagLate(batch) ==
    required' = required \cup UNION {TargetsOf(o) : o \in {x \in Addressed(batch) : Late(x)}}

Ingest(batch) ==
    /\ Ready /\ Fits(batch)
    /\ FlagLate(batch)
    /\ evidence' = Insert(evidence, Accepted(batch))
    /\ Commit([stored EXCEPT !.evidence = Insert(@, Accepted(batch))])
    /\ delivered' = IF mode = "writer" THEN delivered \cup Accepted(batch) ELSE delivered
    /\ UNCHANGED <<mode, marking, periods, revisions, corrections, folded>>

\* The store refuses the append.
IngestFails(batch) ==
    /\ Ready /\ Fits(batch) /\ mode = "writer" /\ Accepted(batch) # {}
    /\ FlagLate(batch)
    /\ UNCHANGED <<stored, mode, marking, periods, revisions, corrections, evidence, folded,
                   delivered>>

-------------------------------------------------------------------------------
(* close_period and correct_period *)

Derivable(p, asOf) == ~Fails(Candidates(evidence, p), asOf)

Publish(p, r, state) ==
    /\ revisions' = revisions \cup {r}
    /\ periods' = [periods EXCEPT ![p] = [current |-> r.number, state |-> state]]
    /\ required' = required \ {p}
    /\ UNCHANGED <<mode, marking, evidence, folded, delivered>>

ClosePeriod(p, asOf) ==
    /\ Ready /\ p \in DOMAIN periods /\ periods[p].state = "open"
    /\ Derivable(p, asOf)
    /\ LET r == Revision(p, 1, {}, asOf)
       IN  /\ Commit([stored EXCEPT !.revisions = @ \cup {r}])
           /\ Publish(p, r, "closed")
    /\ UNCHANGED corrections

CorrectPeriod(p, asOf) ==
    /\ Ready /\ p \in DOMAIN periods /\ periods[p].state # "open"
    /\ Of(revisions, p) # {}
    /\ Cardinality(Of(corrections, p)) < Policy.maxCorrections
    /\ Derivable(p, asOf)
    /\ LET r == Revision(p, Latest(p).number + 1, {Digest(Latest(p))}, asOf)
           c == Correction(p, r)
       IN  /\ Commit([stored EXCEPT !.revisions = @ \cup {r}, !.corrections = @ \cup {c}])
           /\ corrections' = corrections \cup {c}
           /\ Publish(p, r, "superseded")

-------------------------------------------------------------------------------
(* compact_closed_periods *)

Foldable == {p \in DOMAIN periods : periods[p].state # "open" /\ Of(revisions, p) # {}}
\* (mutant) All the evidence of a closed period, counted or not.
DroppableWhole == UNION {{o.id : o \in Candidates(evidence, p)} : p \in Foldable}
Droppable == UNION {CountedIds(Latest(p)) : p \in Foldable}
\* A stored record that cannot be read is kept.
Surviving(S, ids) == {o \in S : o.id \notin ids \/ ~ObservationReadable(o)}

\* (mutant) Of the revisions of a period only the latest survives.
CompactFoldHistory ==
    /\ Ready /\ mode = "writer"
    /\ Droppable # {}
    /\ stored' = [stored EXCEPT !.evidence = Surviving(@, Droppable),
                               !.revisions = {Latest(p) : p \in Foldable}]
    /\ evidence' = {o \in evidence : o.id \notin Droppable}
    /\ folded' = folded \cup Foldable
    /\ marking' = Foldable
    /\ UNCHANGED <<mode, periods, revisions, corrections, required, delivered>>

\* Identities are dropped whatever period their records lie in.
CompactFold ==
    /\ Ready /\ mode = "writer"
    /\ Droppable # {}
    /\ stored' = [stored EXCEPT !.evidence = Surviving(@, Droppable)]
    /\ evidence' = {o \in evidence : o.id \notin Droppable}
    /\ folded' = folded \cup Foldable
    /\ marking' = Foldable
    /\ UNCHANGED <<mode, periods, revisions, corrections, required, delivered>>

\* The record that names the folded periods is a commit of its own, which may fail.
CompactMark ==
    /\ marking # {}
    /\ \/ stored' = [stored EXCEPT !.folded = @ \cup marking]
       \/ stored' = stored
    /\ marking' = {}
    /\ UNCHANGED <<mode, periods, revisions, corrections, evidence, folded, required, delivered>>

-------------------------------------------------------------------------------

Batches == {B \in SUBSET Evidence : B # {} /\ Cardinality(B) <= Policy.maxBatch}

Init ==
    /\ stored = [snapshots |-> FALSE, periods |-> {}, revisions |-> {}, corrections |-> {},
                 evidence |-> {}, folded |-> {}]
    /\ mode = "down" /\ marking = {}
    /\ periods = [p \in {} |-> 0] /\ revisions = {} /\ corrections = {}
    /\ evidence = {} /\ folded = {} /\ required = {}
    /\ delivered = {}

Next ==
    \/ \E m \in {"writer", "reader"} : Open(m)
    \/ Stop
    \/ \E p \in Periods : OpenPeriod(p)
    \/ \E B \in Batches : Ingest(B) \/ IngestFails(B)
    \/ \E p \in Periods, t \in Instants : ClosePeriod(p, t) \/ CorrectPeriod(p, t)
    \/ CompactFold \/ CompactMark

Spec == Init /\ [][Next]_vars

-------------------------------------------------------------------------------
(* Properties *)

Held == {[o EXCEPT !.copy = k] : o \in Evidence, k \in 1..Policy.maxRetained}
Ids  == {o.id : o \in Evidence}

IsRevision(r) ==
    /\ DOMAIN r = {"period", "number", "parent", "claims", "conservation", "asOf"}
    /\ r.period \in Periods /\ r.asOf \in Instants
    /\ r.number \in 1..(Policy.maxCorrections + 1)
    /\ CountedIds(r) \subseteq Ids

TypeOK ==
    /\ DOMAIN stored = {"snapshots", "periods", "revisions", "corrections", "evidence", "folded"}
    /\ stored.snapshots \/ stored.periods = {}
    /\ stored.periods \subseteq Periods /\ stored.folded \subseteq stored.periods
    /\ stored.evidence \subseteq Held
    /\ mode \in {"down", "writer", "reader"}
    /\ marking \subseteq DOMAIN periods
    /\ DOMAIN periods \subseteq Periods
    /\ \A p \in DOMAIN periods : periods[p].state \in {"open", "closed", "superseded"}
    /\ \A r \in stored.revisions \cup revisions : IsRevision(r)
    /\ evidence \subseteq Held \cup {ReadObservation(o) : o \in Held}
    /\ Cardinality(evidence) <= Policy.maxRetained
    /\ folded \subseteq DOMAIN periods /\ required \subseteq DOMAIN periods
    /\ delivered \subseteq Evidence

\* What is retained, as it is read again, without the number of its copies.
AnyCopy(E) == {[ReadObservation(o) EXCEPT !.copy = 1] : o \in E}

\* What the running writer works with is what a restart would replay: periods and their
\* states, every revision and correction, and every piece of evidence.
RestartKeepsMemory ==
    mode = "writer" =>
        /\ periods = ReplayedPeriods
        /\ revisions = ReplayedRevisions /\ corrections = ReplayedCorrections
        /\ AnyCopy(evidence) = AnyCopy(stored.evidence)
        /\ stored.folded \subseteq folded

\* verify_integrity: revisions are numbered without a gap and each chains to the one
\* before, corrections chain to each other, and each has its revision.
Linear(revs, corrs) ==
    /\ \A r \in revs :
          IF r.number = 1 THEN r.parent = {}
          ELSE \E q \in Of(revs, r.period) : q.number = r.number - 1 /\ r.parent = {Digest(q)}
    /\ \A r, q \in revs : r.period = q.period /\ r.number = q.number => r = q
    /\ \A c \in corrs :
          /\ \E r \in Of(revs, c.period) : r.number = c.to /\ Digest(r) = c.new
          /\ c.to > 2 => \E x \in Of(corrs, c.period) : x.to = c.from /\ c.previous = {x.new}
    /\ \A r \in revs : r.number > 1 => \E c \in Of(corrs, r.period) : c.to = r.number

\* Whatever is closed, corrected, compacted and replayed, in any order, the history of a
\* period stays one line, in the store and in memory.
IntegrityHolds == Linear(stored.revisions, stored.corrections) /\ Linear(revisions, corrections)

\* Closed periods are immutable: no step takes a revision out of the store or changes it.
RevisionsImmutable == [][stored.revisions \subseteq stored.revisions']_stored

\* A batch may be sent again, after a restart too, and is stored once, if its times are
\* whole milliseconds.
StoredOnce == \A o \in stored.evidence : ReadObservation(o) = o => o.copy = 1

\* No evidence disappears: what was stored is retained, or its identity is counted by a
\* revision of a period it was in.
NothingEvicted ==
    \A o \in delivered :
        \/ o.id \in {x.id : x \in stored.evidence}
        \/ \E r \in stored.revisions : o.id \in CountedIds(r)

\* Unless two records claim one identity, it is counted in one period only.
CountedInOnePeriod ==
    \A r, q \in stored.revisions :
        r.period # q.period =>
            \A id \in CountedIds(r) \cap CountedIds(q) :
                Cardinality({o \in delivered : o.id = id}) > 1

\* aggregate() derives a closed period that is not folded from what is retained now, and
\* correction_required is the one sign that this is no longer what its revision says: no
\* step after which the period derives other claims, as of its revision, leaves it unflagged.
Rederived(p, E) == Claims(Candidates(E, p), Latest(p).asOf)
LateIsFlagged ==
    [][mode # "down" /\ mode' = mode =>
          \A p \in Foldable \ folded' :
             revisions' = revisions /\ Rederived(p, evidence') # Rederived(p, evidence)
                => p \in required']_vars

\* After compaction the axes that need evidence are refused: when evidence that a latest
\* revision counts is gone, its period is known to be folded.
FoldIsMarked ==
    mode # "down" =>
        \A p \in Foldable \ folded : CountedIds(Latest(p)) \subseteq {o.id : o \in evidence}

\* "Closed periods are immutable", "process restart cannot change a single total": what was
\* closed is closed for every process that opens the store.
ClosedStaysClosed == mode # "down" => stored.revisions \subseteq revisions

\* Compaction folds the evidence of closed periods; that of open periods stays.
OpenEvidenceKept ==
    [][CompactFold => \A p \in DOMAIN periods :
                         periods[p].state = "open" =>
                             Candidates(evidence, p) \subseteq evidence']_vars

-------------------------------------------------------------------------------
(* What the proofs rest on *)

FirstCopy(o)   == [o EXCEPT !.copy = 1]
Within(o, p)   == p.start <= o.start /\ o.end <= p.end
Apart(S)       == \A p, q \in S : Overlaps(p, q) => p = q

\* The periods of a process, and those of the store, do not overlap; a writer has all of them.
PeriodsApart ==
    /\ stored.periods \subseteq Periods /\ DOMAIN periods \subseteq Periods
    /\ Apart(stored.periods) /\ Apart(DOMAIN periods)
    /\ mode = "writer" => DOMAIN periods = stored.periods

\* What is stored was delivered; what a writer works with was too, and may have lost the part
\* of its times below the millisecond.  Both are the same once they are read again.
EvidenceTraced ==
    /\ delivered \subseteq Evidence
    /\ \A o \in stored.evidence : IsObservation(o) /\ FirstCopy(o) \in delivered
    /\ mode = "writer" =>
          /\ \A o \in evidence : /\ IsObservation(o)
                                 /\ \E d \in delivered : FirstCopy(o) \in {d, ReadObservation(d)}
          /\ AnyCopy(evidence) = AnyCopy(stored.evidence)

\* A writer's revisions are stored, and what they count was delivered and lies in their period.
RevisionsTraced ==
    /\ IsFiniteSet(stored.revisions) /\ IsFiniteSet(revisions)
    /\ \A r \in stored.revisions \cup revisions : r.number \in Nat
    /\ mode = "writer" => revisions \subseteq stored.revisions
    /\ \A r \in stored.revisions :
          /\ r.period \in stored.periods
          /\ \A id \in CountedIds(r) :
                \E d \in delivered : d.id = id /\ Within(ReadObservation(d), r.period)

\* What is stored and what was handed out of it.
Traced ==
    /\ stored = [snapshots |-> stored.snapshots, periods |-> stored.periods,
                 revisions |-> stored.revisions, corrections |-> stored.corrections,
                 evidence |-> stored.evidence, folded |-> stored.folded]
    /\ mode \in {"down", "writer", "reader"}
    /\ PeriodsApart /\ EvidenceTraced /\ RevisionsTraced
    /\ StoredOnce /\ NothingEvicted

\* The budget of the memory is also that of the store: of any identities, a writer has as
\* many records as the store.
WithIds(E, ids) == {o \in E : o.id \in ids}
Budget ==
    /\ IsFiniteSet(stored.evidence) /\ IsFiniteSet(evidence)
    /\ stored.evidence \subseteq Held
    /\ evidence \subseteq Held \cup {ReadObservation(o) : o \in Held}
    /\ Cardinality(stored.evidence) <= Policy.maxRetained
    /\ Cardinality(evidence) <= Policy.maxRetained
    /\ mode = "writer" =>
          \A ids \in SUBSET Ids :
              Cardinality(WithIds(stored.evidence, ids)) <= Cardinality(WithIds(evidence, ids))

\* One line of revisions for every period, and no revision without the corrections it took.
History(revs, corrs) ==
    /\ Linear(revs, corrs) /\ IsFiniteSet(revs) /\ IsFiniteSet(corrs)
    /\ \A r \in revs : /\ IsRevision(r)
                        /\ r.number <= Cardinality(Of(corrs, r.period)) + 1
    /\ \A c \in corrs : c = [period |-> c.period, from |-> c.to - 1, to |-> c.to,
                             created |-> c.new.asOf, new |-> c.new, previous |-> c.previous]

\* What a process knows of a period is what its revisions say.
Standing(p) ==
    LET numbers == {0} \cup {r.number : r \in Of(revisions, p)}
    IN  [current |-> Max(numbers), state |-> ReplayedState(Max(numbers))]
Bookkeeping ==
    /\ periods = [p \in DOMAIN periods |-> Standing(p)]
    /\ \A r \in revisions : r.period \in DOMAIN periods
    /\ marking \subseteq folded /\ folded \cup required \subseteq DOMAIN periods
    /\ stored.folded \subseteq stored.periods
    /\ mode # "writer" => marking = {}
    /\ mode = "writer" => /\ revisions = stored.revisions /\ corrections = stored.corrections
                          /\ stored.folded \subseteq folded
    /\ IF mode = "down" THEN DOMAIN periods = {} /\ corrections = {} ELSE stored.snapshots
    /\ stored.snapshots \/ stored.periods = {}

\* While every stored revision can be read again, a period has one history.
ReadBack == \A r \in stored.revisions : RevisionReadable(r)
Lineage  == /\ History(stored.revisions, stored.corrections) /\ History(revisions, corrections)
            /\ Bookkeeping

\* The inductive invariant.
Inductive == Traced /\ Budget /\ (ReadBack => Lineage)
===============================================================================
