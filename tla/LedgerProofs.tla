------------------------------ MODULE LedgerProofs ------------------------------
(* Theorems about Ledger, for every policy, topology, evidence and set of periods. *)
EXTENDS Ledger, DerivationProofs

-------------------------------------------------------------------------------
(* Times that are read again *)

LEMMA RereadIs == \A t \in Nat : Reread(t) = Milli * (t \div Milli)
BY TimesAssumption DEF Reread, ReadTime, WrittenTime, Milliseconds, Instant

\* Reading a time back loses what is below the millisecond, and nothing the second time.
LEMMA RereadTime ==
    ASSUME NEW t \in Nat
    PROVE  Reread(t) \in Nat /\ Reread(t) <= t /\ Reread(Reread(t)) = Reread(t)
BY RereadIs, TimesAssumption

\* A whole time that is not later than some time is not later than what is read of it.
LEMMA RereadWhole ==
    ASSUME NEW t \in Nat, NEW p \in Nat, Reread(p) = p, p <= t
    PROVE  p <= Reread(t)
BY RereadIs, TimesAssumption

-------------------------------------------------------------------------------
(* Observations, their copies, and what is read of them *)

\* Observations are the same when their fields are.
LEMMA SameFields ==
    ASSUME NEW o, NEW x, IsObservation(o), IsObservation(x), \A f \in Fields : o[f] = x[f]
    PROVE  o = x
BY DEF IsObservation

LEMMA FieldsOfCopy ==
    ASSUME NEW o, IsObservation(o), NEW k
    PROVE  /\ IsObservation([o EXCEPT !.copy = k])
           /\ \A f \in Fields : [o EXCEPT !.copy = k][f] = IF f = "copy" THEN k ELSE o[f]
<1>1. \A f \in Fields : [o EXCEPT !.copy = k][f] = IF f = "copy" THEN k ELSE o[f]
    BY DEF IsObservation
<1>2. [o EXCEPT !.copy = k] = [f \in Fields |-> [o EXCEPT !.copy = k][f]]
    BY DEF IsObservation
<1>3. "id" \in Fields /\ "id" # "copy" /\ Dated \subseteq Fields /\ "copy" \notin Dated
    BY DEF Fields, Dated
<1> QED BY <1>1, <1>2, <1>3 DEF IsObservation

LEMMA FieldsOfRead ==
    ASSUME NEW o, IsObservation(o)
    PROVE  /\ IsObservation(ReadObservation(o))
           /\ \A f \in Fields : ReadObservation(o)[f] = IF f \in Dated THEN Reread(o[f]) ELSE o[f]
<1>1. \A f \in Fields : ReadObservation(o)[f] = IF f \in Dated THEN Reread(o[f]) ELSE o[f]
    BY DEF ReadObservation, IsObservation, Fields, Dated
<1>2. ReadObservation(o) = [f \in Fields |-> ReadObservation(o)[f]]
    BY DEF ReadObservation, IsObservation
<1>3. "id" \in Fields /\ "id" \notin Dated /\ Dated \subseteq Fields
    BY DEF Fields, Dated
<1>4. ReadObservation(o).id \in Nat
    BY <1>1, <1>3 DEF IsObservation
<1>5. \A f \in Dated : ReadObservation(o)[f] \in Nat
    BY <1>1, <1>3, RereadTime DEF IsObservation
<1> QED BY <1>1, <1>2, <1>4, <1>5 DEF IsObservation

LEMMA ReadAgain ==
    ASSUME NEW o, IsObservation(o)
    PROVE  ReadObservation(ReadObservation(o)) = ReadObservation(o)
<1> DEFINE r == ReadObservation(o)
<1>1. IsObservation(r) /\ IsObservation(ReadObservation(r))
    BY FieldsOfRead
<1>2. \A f \in Fields : ReadObservation(r)[f] = IF f \in Dated THEN Reread(r[f]) ELSE r[f]
    BY <1>1, FieldsOfRead
<1>3. \A f \in Fields : r[f] = IF f \in Dated THEN Reread(o[f]) ELSE o[f]
    BY FieldsOfRead
<1>4. \A f \in Dated : Reread(Reread(o[f])) = Reread(o[f])
    BY RereadTime DEF IsObservation
<1> HIDE DEF r
<1>5. \A f \in Fields : ReadObservation(r)[f] = r[f]
    BY <1>2, <1>3, <1>4
<1> QED BY <1>1, <1>5, SameFields DEF r

LEMMA ReadOfCopy ==
    ASSUME NEW o, IsObservation(o), NEW k
    PROVE  ReadObservation([o EXCEPT !.copy = k]) = [ReadObservation(o) EXCEPT !.copy = k]
<1> DEFINE c == [o EXCEPT !.copy = k]
           r == ReadObservation(o)
<1>1. IsObservation(c) /\ IsObservation(r)
    BY FieldsOfCopy, FieldsOfRead
<1>2. IsObservation(ReadObservation(c)) /\ IsObservation([r EXCEPT !.copy = k])
    BY <1>1, FieldsOfCopy, FieldsOfRead
<1>3. \A f \in Fields : /\ c[f] = IF f = "copy" THEN k ELSE o[f]
                        /\ ReadObservation(c)[f] = IF f \in Dated THEN Reread(c[f]) ELSE c[f]
    BY <1>1, FieldsOfCopy, FieldsOfRead
<1>4. \A f \in Fields : /\ r[f] = IF f \in Dated THEN Reread(o[f]) ELSE o[f]
                        /\ [r EXCEPT !.copy = k][f] = IF f = "copy" THEN k ELSE r[f]
    <2>1. \A f \in Fields : r[f] = IF f \in Dated THEN Reread(o[f]) ELSE o[f]
        BY FieldsOfRead
    <2>2. \A f \in Fields : [r EXCEPT !.copy = k][f] = IF f = "copy" THEN k ELSE r[f]
        <3> HIDE DEF r
        <3> QED BY <1>1, FieldsOfCopy
    <2> QED BY <2>1, <2>2
<1>5. "copy" \notin Dated
    BY DEF Dated
<1>6. \A f \in Fields : ReadObservation(c)[f] = [r EXCEPT !.copy = k][f]
    <2> HIDE DEF c, r
    <2> QED BY <1>3, <1>4, <1>5
<1> QED BY <1>2, <1>6, SameFields

LEMMA CopyOfCopy ==
    ASSUME NEW o, IsObservation(o), NEW k, NEW j
    PROVE  [[o EXCEPT !.copy = k] EXCEPT !.copy = j] = [o EXCEPT !.copy = j]
BY DEF IsObservation

\* The number of the copy does not tell whether a record can be read.
LEMMA ReadableCopy ==
    ASSUME NEW o, IsObservation(o), NEW k
    PROVE  ObservationReadable([o EXCEPT !.copy = k]) <=> ObservationReadable(o)
<1> DEFINE r == ReadObservation(o)
           c == [r EXCEPT !.copy = k]
<1>1. IsObservation(r)
    BY FieldsOfRead
<1>2. \A f \in Fields : c[f] = IF f = "copy" THEN k ELSE r[f]
    BY <1>1, FieldsOfCopy
<1>3. /\ c.start = r.start /\ c.end = r.end /\ c.observed = r.observed
      /\ c.received = r.received /\ c.role = r.role /\ c.category = r.category
    BY <1>2 DEF Fields
<1>4. ValidShape(c) <=> ValidShape(r)
    BY <1>3 DEF ValidShape
<1> QED BY <1>4, ReadOfCopy DEF ObservationReadable

\* What may be delivered is an observation that can be read, and is its own first copy.
LEMMA Deliverable ==
    ASSUME NEW o \in Evidence
    PROVE  /\ IsObservation(o) /\ ObservationReadable(o) /\ FirstCopy(o) = o
           /\ IsObservation(ReadObservation(o)) /\ FirstCopy(ReadObservation(o)) = ReadObservation(o)
<1>1. IsObservation(o) /\ ObservationReadable(o) /\ o.copy = 1
    BY LedgerAssumption
<1>2. FirstCopy(o) = o
    BY <1>1 DEF FirstCopy, IsObservation
<1>3. FirstCopy(ReadObservation(o)) = ReadObservation(FirstCopy(o))
    BY <1>1, ReadOfCopy DEF FirstCopy
<1> QED BY <1>1, <1>2, <1>3, FieldsOfRead

\* What is retained as it is read again, by its first copies.
LEMMA AnyCopyIs ==
    ASSUME NEW E
    PROVE  AnyCopy(E) = {FirstCopy(ReadObservation(o)) : o \in E}
BY DEF AnyCopy, FirstCopy

LEMMA ReadFirst ==
    ASSUME NEW o, IsObservation(o)
    PROVE  FirstCopy(ReadObservation(o)) = ReadObservation(FirstCopy(o))
BY ReadOfCopy DEF FirstCopy

\* Inserting adds copies of what is inserted, and keeps the rest.
LEMMA Inserted ==
    ASSUME NEW E, NEW A \in SUBSET Evidence
    PROVE  /\ E \subseteq Insert(E, A)
           /\ \A x \in Insert(E, A) :
                 \/ x \in E
                 \/ \E a \in A : /\ x = [a EXCEPT !.copy = Cardinality(CopiesIn(E, a)) + 1]
                                 /\ IsObservation(x) /\ FirstCopy(x) = a
                                 /\ \A f \in Fields : f # "copy" => x[f] = a[f]
           /\ \A a \in A : \E x \in Insert(E, A) : FirstCopy(x) = a /\ IsObservation(x) /\ x.id = a.id
<1>1. ASSUME NEW a \in A, NEW k
      PROVE  /\ IsObservation([a EXCEPT !.copy = k]) /\ FirstCopy([a EXCEPT !.copy = k]) = a
             /\ \A f \in Fields : f # "copy" => [a EXCEPT !.copy = k][f] = a[f]
    <2>1. IsObservation(a) /\ FirstCopy(a) = a
        BY Deliverable
    <2>2. FirstCopy([a EXCEPT !.copy = k]) = FirstCopy(a)
        BY <2>1, CopyOfCopy DEF FirstCopy
    <2> QED BY <2>1, <2>2, FieldsOfCopy
<1>2. "id" \in Fields
    BY DEF Fields
<1> DEFINE new(a) == [a EXCEPT !.copy = Cardinality(CopiesIn(E, a)) + 1]
<1>3. Insert(E, A) = E \cup {new(a) : a \in A}
    BY DEF Insert
<1>4. \A a \in A : /\ IsObservation(new(a)) /\ FirstCopy(new(a)) = a
                   /\ \A f \in Fields : f # "copy" => new(a)[f] = a[f]
    BY <1>1
<1>5. \A a \in A : new(a).id = a.id
    BY <1>2, <1>4
<1>6. ASSUME NEW x \in Insert(E, A), x \notin E
      PROVE  \E a \in A : /\ x = new(a) /\ IsObservation(x) /\ FirstCopy(x) = a
                         /\ \A f \in Fields : f # "copy" => x[f] = a[f]
    <2> HIDE DEF new
    <2> QED BY <1>3, <1>4, <1>6
<1>7. \A a \in A : new(a) \in Insert(E, A)
    BY <1>3
<1> QED BY <1>3, <1>4, <1>5, <1>6, <1>7

\* What is retained of an insertion, as it is read again.
LEMMA AnyCopyInserted ==
    ASSUME NEW E, \A o \in E : IsObservation(o), NEW A \in SUBSET Evidence
    PROVE  AnyCopy(Insert(E, A)) = AnyCopy(E) \cup {ReadObservation(a) : a \in A}
<1>1. ASSUME NEW x, IsObservation(x), FirstCopy(x) \in A
      PROVE  FirstCopy(ReadObservation(x)) = ReadObservation(FirstCopy(x))
    BY <1>1, ReadFirst
<1>2. ASSUME NEW x \in Insert(E, A), x \notin E
      PROVE  FirstCopy(ReadObservation(x)) \in {ReadObservation(a) : a \in A}
    BY <1>1, <1>2, Inserted
<1>3. ASSUME NEW a \in A
      PROVE  \E x \in Insert(E, A) : FirstCopy(ReadObservation(x)) = ReadObservation(a)
    BY <1>1, Inserted
<1>4. E \subseteq Insert(E, A)
    BY Inserted
<1> QED BY <1>2, <1>3, <1>4, AnyCopyIs

-------------------------------------------------------------------------------
(* Periods, and what a revision of one counts *)

\* The bounds of a period are whole milliseconds.
LEMMA WholeBounds ==
    ASSUME NEW p \in Periods
    PROVE  /\ p.start \in Nat /\ p.end \in Nat
           /\ Reread(p.start) = p.start /\ Reread(p.end) = p.end /\ ReadPeriod(p) = p
BY LedgerAssumption DEF ReadPeriod

\* What lies in a period still does when it is read again.
LEMMA WithinRead ==
    ASSUME NEW p \in Periods, NEW o, IsObservation(o), Within(o, p)
    PROVE  Within(ReadObservation(o), p)
<1>1. o.start \in Nat /\ o.end \in Nat
    BY DEF IsObservation, Dated
<1>2. ReadObservation(o).start = Reread(o.start) /\ ReadObservation(o).end = Reread(o.end)
    BY FieldsOfRead DEF Fields, Dated
<1>3. p.start <= Reread(o.start)
    BY <1>1, WholeBounds, RereadWhole DEF Within
<1>4. Reread(o.end) <= p.end
    BY <1>1, WholeBounds, RereadTime DEF Within
<1> QED BY <1>2, <1>3, <1>4 DEF Within

\* A window lies in one period only.
LEMMA OnePeriod ==
    ASSUME NEW S \in SUBSET Periods, Apart(S), NEW p \in S, NEW q \in S,
           NEW o, IsObservation(o), o.start < o.end, Within(o, p), Within(o, q)
    PROVE  p = q
<1>1. o.start \in Nat /\ o.end \in Nat
    BY DEF IsObservation, Dated
<1>2. Overlaps(p, q)
    BY <1>1, WholeBounds DEF Within, Overlaps
<1> QED BY <1>2 DEF Apart

\* Claims count records of the evidence they are derived from.
LEMMA ClaimsCount ==
    ASSUME NEW C, Identified(C), NEW asOf
    PROVE  \A c \in Claims(C, asOf) : c.evidence \subseteq {o.id : o \in C}
<1>1. Contributions(C, asOf) \subseteq C
    BY ContributionsIn
<1>2. ASSUME NEW c \in Claims(C, asOf)
      PROVE  \E k : c.evidence = {o.id : o \in {x \in Contributions(C, asOf) : ClaimKey(x) = k}}
    <2> DEFINE counted == Contributions(C, asOf)
               Keyed(k) == {o \in counted : ClaimKey(o) = k}
               claim(k) == [key |-> k, total |-> SumOf(Keyed(k)), evidence |-> {o.id : o \in Keyed(k)}]
    <2>1. Claims(C, asOf) = {claim(k) : k \in {ClaimKey(o) : o \in counted}}
        BY Zenon DEF Claims
    <2>2. \A k : claim(k).evidence = {o.id : o \in Keyed(k)}
        OBVIOUS
    <2>3. PICK k : c = claim(k)
        <3> HIDE DEF claim
        <3> QED BY <2>1
    <2> QED BY <2>2, <2>3
<1> QED BY <1>1, <1>2

\* What a writer's revision counts was delivered and lies in the period.
LEMMA RevisionCounts ==
    ASSUME EvidenceTraced, mode = "writer", NEW p \in Periods, NEW number, NEW parent, NEW asOf
    PROVE  \A id \in CountedIds(Revision(p, number, parent, asOf)) :
              \E d \in delivered : d.id = id /\ Within(ReadObservation(d), p)
<1> DEFINE C == Candidates(evidence, p)
<1>1. ASSUME NEW o \in C
      PROVE  \E d \in delivered : d.id = o.id /\ Within(ReadObservation(d), p)
    <2>1. IsObservation(o) /\ Within(o, p)
        BY <1>1 DEF EvidenceTraced, Candidates, Within
    <2>2. PICK d \in delivered : FirstCopy(o) \in {d, ReadObservation(d)}
        BY <1>1 DEF EvidenceTraced, Candidates
    <2>3. /\ IsObservation(FirstCopy(o)) /\ FirstCopy(o).id = o.id
          /\ FirstCopy(o).start = o.start /\ FirstCopy(o).end = o.end
        BY <2>1, FieldsOfCopy DEF FirstCopy, Fields
    <2>4. IsObservation(d)
        BY Deliverable DEF EvidenceTraced
    <2>5. d.id = o.id
        BY <2>2, <2>3, <2>4, FieldsOfRead DEF Fields, Dated
    <2>6. Within(FirstCopy(o), p)
        BY <2>1, <2>3 DEF Within
    <2>7. Within(ReadObservation(d), p)
        BY <2>2, <2>4, <2>6, WithinRead
    <2> QED BY <2>5, <2>7
<1>2. Identified(C)
    BY DEF EvidenceTraced, IsObservation, Candidates, Identified
<1>3. \A c \in Claims(C, asOf) : c.evidence \subseteq {o.id : o \in C}
    BY <1>2, ClaimsCount
<1>4. CountedIds(Revision(p, number, parent, asOf)) = UNION {c.evidence : c \in Claims(C, asOf)}
    BY DEF CountedIds, Revision
<1> HIDE DEF C
<1> QED BY <1>1, <1>3, <1>4

\* A period with revisions has a latest one.
LEMMA LatestIn ==
    ASSUME RevisionsTraced, NEW p, Of(revisions, p) # {}
    PROVE  Latest(p) \in revisions /\ Latest(p).period = p
<1> DEFINE R == Of(revisions, p)
           T == {r.number : r \in R}
           f == [r \in R |-> r.number]
<1>1. R \subseteq revisions
    BY DEF Of
<1>2. T \in SUBSET Nat /\ T # {}
    BY <1>1 DEF RevisionsTraced
<1>3. IsFiniteSet(T)
    <2>1. f \in Surjection(R, T)
        BY DEF Surjection
    <2>2. IsFiniteSet(R)
        BY <1>1, FS_Subset DEF RevisionsTraced
    <2> QED BY <2>1, <2>2, FS_Surjection
<1>4. PICK n \in T : \A m \in T : m <= n
    BY <1>2, <1>3, GreatestNumber
<1>5. \E r \in R : \A x \in R : x.number <= r.number
    BY <1>4
<1>6. Latest(p) \in R
    BY <1>5 DEF Latest
<1> QED BY <1>6 DEF Of

-------------------------------------------------------------------------------
(* What is stored and what was handed out of it: the first part of the inductive invariant *)

LEMMA InitTraced == Init => Traced
<1> SUFFICES ASSUME Init PROVE Traced
    OBVIOUS
<1> USE DEF Init
<1>1. PeriodsApart
    BY DEF PeriodsApart, Apart
<1>2. EvidenceTraced
    BY DEF EvidenceTraced
<1>3. RevisionsTraced
    BY FS_EmptySet DEF RevisionsTraced
<1>4. StoredOnce /\ NothingEvicted
    BY DEF StoredOnce, NothingEvicted
<1> QED BY <1>1, <1>2, <1>3, <1>4 DEF Traced

\* What the store holds, the periods and the folded evidence apart, may be left alone.
LEMMA StoreKept ==
    ASSUME Traced, stored'.evidence = stored.evidence,
           stored'.revisions = stored.revisions, delivered' = delivered
    PROVE  StoredOnce' /\ NothingEvicted'
BY DEF Traced, StoredOnce, NothingEvicted, CountedIds

\* Everything that is stored can be read again.
LEMMA StoredReadable ==
    ASSUME Traced
    PROVE  \A o \in stored.evidence : /\ IsObservation(o) /\ ObservationReadable(o)
                                      /\ FirstCopy(o) \in delivered /\ delivered \subseteq Evidence
<1> SUFFICES ASSUME NEW o \in stored.evidence
             PROVE  ObservationReadable(o)
    BY DEF Traced, EvidenceTraced
<1>1. IsObservation(o) /\ FirstCopy(o) \in Evidence
    BY DEF Traced, EvidenceTraced
<1>2. ObservationReadable(FirstCopy(o))
    BY <1>1, Deliverable
<1> QED BY <1>1, <1>2, ReadableCopy DEF FirstCopy

-------------------------------------------------------------------------------
(* The steps: open and stop *)

\* A process that has just opened the store works with the periods, the evidence and the
\* revisions of the store.
LEMMA OpenTraced ==
    ASSUME Traced, NEW m \in {"writer", "reader"}, Open(m)
    PROVE  Traced'
<1>1. stored' = [snapshots |-> TRUE, periods |-> stored.periods,
                 revisions |-> stored.revisions, corrections |-> stored.corrections,
                 evidence |-> stored.evidence, folded |-> stored.folded]
    BY DEF Open, Traced
<1>2. DOMAIN periods' = stored.periods
    <2>1. DOMAIN ReplayedPeriods = {ReadPeriod(q) : q \in stored.periods}
        BY DEF ReplayedPeriods
    <2>2. \A q \in stored.periods : ReadPeriod(q) = q
        BY WholeBounds DEF Traced, PeriodsApart
    <2> QED BY <2>1, <2>2 DEF Open
<1>3. PeriodsApart'
    BY <1>1, <1>2 DEF Traced, PeriodsApart, Apart
<1>4. EvidenceTraced'
    <2>1. evidence' = {ReadObservation(o) : o \in stored.evidence}
        BY StoredReadable DEF Open, ReplayedEvidence
    <2>2. \A o \in stored.evidence : IsObservation(o) /\ IsObservation(ReadObservation(o))
        BY StoredReadable, FieldsOfRead
    <2>3. \A o \in stored.evidence :
              \E d \in delivered : FirstCopy(ReadObservation(o)) \in {d, ReadObservation(d)}
        BY <2>2, StoredReadable, ReadFirst
    <2>4. AnyCopy(evidence') = AnyCopy(stored.evidence)
        <3>1. \A o \in stored.evidence : ReadObservation(ReadObservation(o)) = ReadObservation(o)
            BY <2>2, ReadAgain
        <3>2. AnyCopy(stored.evidence) = {FirstCopy(ReadObservation(o)) : o \in stored.evidence}
            BY AnyCopyIs
        <3>3. AnyCopy(evidence') = {FirstCopy(ReadObservation(o)) : o \in evidence'}
            BY AnyCopyIs
        <3>4. {FirstCopy(ReadObservation(o)) : o \in evidence'}
                  = {FirstCopy(ReadObservation(ReadObservation(o))) : o \in stored.evidence}
            BY <2>1
        <3> QED BY <3>1, <3>2, <3>3, <3>4
    <2>5. AnyCopy(evidence)' = AnyCopy(stored.evidence)'
        BY <1>1, <2>4 DEF AnyCopy
    <2>6. delivered' = delivered /\ stored'.evidence = stored.evidence
        BY <1>1 DEF Open
    <2>7. \A o \in evidence' : /\ IsObservation(o)
                               /\ \E d \in delivered' : FirstCopy(o) \in {d, ReadObservation(d)}
        BY <2>1, <2>2, <2>3, <2>6
    <2> QED BY <2>5, <2>6, <2>7 DEF Traced, EvidenceTraced
<1>5. RevisionsTraced'
    <2>1. revisions' \subseteq stored.revisions
        BY DEF Open, ReplayedRevisions
    <2>2. IsFiniteSet(revisions')
        BY <2>1, FS_Subset DEF Traced, RevisionsTraced
    <2>3. stored'.revisions = stored.revisions /\ stored'.periods = stored.periods /\ delivered' = delivered
        BY <1>1 DEF Open
    <2> QED BY <2>1, <2>2, <2>3 DEF Traced, RevisionsTraced
<1>6. StoredOnce' /\ NothingEvicted'
    BY <1>1, StoreKept DEF Open
<1> QED BY <1>1, <1>3, <1>4, <1>5, <1>6 DEF Traced, Open

LEMMA StopTraced ==
    ASSUME Traced, Stop
    PROVE  Traced'
<1>1. PeriodsApart'
    BY DEF Stop, Traced, PeriodsApart, Apart
<1>2. EvidenceTraced'
    BY DEF Stop, Traced, EvidenceTraced
<1>3. RevisionsTraced'
    BY FS_EmptySet DEF Stop, Traced, RevisionsTraced
<1>4. StoredOnce' /\ NothingEvicted'
    BY StoreKept DEF Stop
<1> QED BY <1>1, <1>2, <1>3, <1>4 DEF Traced, Stop

LEMMA OpenPeriodTraced ==
    ASSUME Traced, NEW p \in Periods, OpenPeriod(p)
    PROVE  Traced'
<1>1. /\ stored' = [snapshots |-> stored.snapshots, periods |-> stored'.periods,
                    revisions |-> stored.revisions, corrections |-> stored.corrections,
                    evidence |-> stored.evidence, folded |-> stored.folded]
      /\ stored'.periods = IF mode = "writer" THEN stored.periods \cup {p} ELSE stored.periods
    BY DEF OpenPeriod, Commit, Traced
<1>2. DOMAIN periods' = DOMAIN periods \cup {p}
    BY DEF OpenPeriod
<1>3. PeriodsApart'
    <2>1. \A q \in DOMAIN periods : ~Overlaps(p, q) /\ ~Overlaps(q, p)
        BY DEF OpenPeriod, Overlaps
    <2>2. Apart(DOMAIN periods \cup {p})
        BY <2>1 DEF Traced, PeriodsApart, Apart
    <2>3. mode = "writer" => stored'.periods = DOMAIN periods'
        BY <1>1, <1>2 DEF Traced, PeriodsApart
    <2>4. mode' = mode
        BY DEF OpenPeriod
    <2>5. Apart(stored'.periods) /\ Apart(DOMAIN periods')
        BY <1>1, <1>2, <2>2, <2>3 DEF Traced, PeriodsApart
    <2>6. stored'.periods \subseteq Periods /\ DOMAIN periods' \subseteq Periods
        BY <1>1, <1>2 DEF Traced, PeriodsApart
    <2> QED BY <2>3, <2>4, <2>5, <2>6 DEF PeriodsApart
<1>4. EvidenceTraced'
    BY <1>1 DEF OpenPeriod, Traced, EvidenceTraced, AnyCopy
<1>5. RevisionsTraced'
    BY <1>1 DEF OpenPeriod, Traced, RevisionsTraced, CountedIds
<1>6. StoredOnce' /\ NothingEvicted'
    BY <1>1, StoreKept DEF OpenPeriod
<1> QED BY <1>1, <1>3, <1>4, <1>5, <1>6 DEF Traced, OpenPeriod

-------------------------------------------------------------------------------
(* The steps: ingest *)

\* What is accepted was deliverable, and a writer holds it neither in memory nor in the store.
LEMMA AcceptedIsNew ==
    ASSUME Traced, mode = "writer", NEW B \in SUBSET Evidence, NEW a \in Accepted(B),
           ReadObservation(a) = a
    PROVE  CopiesIn(stored.evidence, a) = {}
<1> SUFFICES ASSUME NEW x \in stored.evidence, SameRecord(x, a)
             PROVE  FALSE
    BY DEF CopiesIn
<1>1. a \in Evidence /\ CopiesIn(evidence, a) = {}
    BY DEF Accepted, Addressed, AlreadyPresent
<1>2. FirstCopy(a) = a
    BY <1>1, Deliverable
<1>3. FirstCopy(x) = a
    BY <1>2 DEF SameRecord, FirstCopy
<1>4. FirstCopy(ReadObservation(x)) = a
    BY <1>3, StoredReadable, ReadFirst
<1>5. a \in AnyCopy(evidence)
    BY <1>4, AnyCopyIs DEF Traced, EvidenceTraced
<1>6. PICK y \in evidence : FirstCopy(ReadObservation(y)) = a
    BY <1>5, AnyCopyIs
<1>7. PICK d \in delivered : FirstCopy(y) \in {d, ReadObservation(d)}
    BY DEF Traced, EvidenceTraced
<1>8. ReadObservation(FirstCopy(y)) = a
    BY <1>6, ReadFirst DEF Traced, EvidenceTraced
<1>9. d \in Evidence /\ IsObservation(d)
    BY Deliverable DEF Traced, EvidenceTraced
<1>10. ReadObservation(d) = a
    BY <1>7, <1>8, <1>9, ReadAgain
<1>11. d = a
    BY <1>1, <1>9, <1>10, LedgerAssumption
<1>12. FirstCopy(y) = a
    BY <1>7, <1>11
<1> QED BY <1>1, <1>2, <1>12 DEF CopiesIn, SameRecord, FirstCopy

LEMMA IngestTraced ==
    ASSUME Traced, NEW B \in SUBSET Evidence, Ingest(B)
    PROVE  Traced'
<1> DEFINE A == Accepted(B)
           S == IF mode = "writer" THEN Insert(stored.evidence, A) ELSE stored.evidence
<1>1. stored' = [snapshots |-> stored.snapshots, periods |-> stored.periods,
                 revisions |-> stored.revisions, corrections |-> stored.corrections,
                 evidence |-> S, folded |-> stored.folded]
    BY DEF Ingest, Commit, Traced
<1>2. A \subseteq Evidence
    BY DEF Accepted, Addressed
<1>3. /\ evidence' = Insert(evidence, A) /\ mode' = mode /\ periods' = periods
      /\ revisions' = revisions
      /\ delivered' = IF mode = "writer" THEN delivered \cup A ELSE delivered
    BY DEF Ingest
<1>4. stored'.evidence = S /\ stored'.periods = stored.periods /\ stored'.revisions = stored.revisions
    BY <1>1
<1> HIDE DEF A
<1>5. PeriodsApart'
    BY <1>3, <1>4 DEF Traced, PeriodsApart
<1>6. RevisionsTraced'
    BY <1>3, <1>4 DEF Traced, RevisionsTraced
<1>7. ASSUME mode = "writer" PROVE EvidenceTraced' /\ StoredOnce' /\ NothingEvicted'
    <2>1. /\ stored'.evidence = Insert(stored.evidence, A) /\ evidence' = Insert(evidence, A)
          /\ delivered' = delivered \cup A
        BY <1>3, <1>4, <1>7
    <2>2. \A x \in stored.evidence : IsObservation(x) /\ FirstCopy(x) \in delivered
        BY DEF Traced, EvidenceTraced
    <2>3. \A x \in evidence : /\ IsObservation(x)
                              /\ \E d \in delivered : FirstCopy(x) \in {d, ReadObservation(d)}
        BY <1>7 DEF Traced, EvidenceTraced
    <2>4. \A x \in Insert(stored.evidence, A) : IsObservation(x) /\ FirstCopy(x) \in delivered \cup A
        BY <1>2, <2>2, Inserted
    <2>5. \A x \in Insert(evidence, A) :
              /\ IsObservation(x)
              /\ \E d \in delivered \cup A : FirstCopy(x) \in {d, ReadObservation(d)}
        BY <1>2, <2>3, Inserted
    <2>6. AnyCopy(Insert(evidence, A)) = AnyCopy(Insert(stored.evidence, A))
        BY <1>2, <1>7, <2>2, <2>3, AnyCopyInserted DEF Traced, EvidenceTraced
    <2>7. AnyCopy(evidence)' = AnyCopy(stored.evidence)'
        BY <2>1, <2>6 DEF AnyCopy
    <2>8. delivered' \subseteq Evidence
        BY <1>2, <2>1 DEF Traced, EvidenceTraced
    <2>9. EvidenceTraced'
        BY <2>1, <2>4, <2>5, <2>7, <2>8 DEF EvidenceTraced
    <2>10. ASSUME NEW x \in Insert(stored.evidence, A), ReadObservation(x) = x PROVE x.copy = 1
        <3>1. CASE x \in stored.evidence
            BY <2>10, <3>1 DEF Traced, StoredOnce
        <3>2. CASE x \notin stored.evidence
            <4>1. PICK a \in A : /\ x = [a EXCEPT !.copy = Cardinality(CopiesIn(stored.evidence, a)) + 1]
                                 /\ IsObservation(x) /\ FirstCopy(x) = a
                BY <1>2, <3>2, Inserted
            <4>2. ReadObservation(a) = a
                BY <2>10, <4>1, ReadFirst
            <4>3. CopiesIn(stored.evidence, a) = {}
                BY <1>7, <4>2, AcceptedIsNew DEF A
            <4>4. x = [a EXCEPT !.copy = 1]
                BY <4>1, <4>3, FS_EmptySet
            <4>5. IsObservation(a) /\ "copy" \in Fields
                BY <1>2, Deliverable DEF Fields
            <4> QED BY <4>4, <4>5, FieldsOfCopy
        <3> QED BY <3>1, <3>2
    <2>11. StoredOnce'
        BY <2>1, <2>10 DEF StoredOnce
    <2>12. NothingEvicted'
        <3>1. stored.evidence \subseteq Insert(stored.evidence, A)
            BY <1>2, Inserted
        <3>2. \A a \in A : \E x \in Insert(stored.evidence, A) : x.id = a.id
            BY <1>2, Inserted
        <3> QED BY <1>4, <2>1, <3>1, <3>2 DEF Traced, NothingEvicted
    <2> QED BY <2>9, <2>11, <2>12
<1>8. ASSUME mode # "writer" PROVE EvidenceTraced' /\ StoredOnce' /\ NothingEvicted'
    <2>1. stored'.evidence = stored.evidence /\ delivered' = delivered /\ mode' # "writer"
        BY <1>3, <1>4, <1>8
    <2>2. EvidenceTraced'
        BY <2>1 DEF Traced, EvidenceTraced
    <2> QED BY <1>4, <2>1, <2>2, StoreKept
<1>9. mode' \in {"down", "writer", "reader"}
    BY <1>3 DEF Traced
<1>10. stored' = [snapshots |-> stored'.snapshots, periods |-> stored'.periods,
                  revisions |-> stored'.revisions, corrections |-> stored'.corrections,
                  evidence |-> stored'.evidence, folded |-> stored'.folded]
    BY <1>1
<1> QED BY <1>5, <1>6, <1>7, <1>8, <1>9, <1>10 DEF Traced

LEMMA IngestFailsTraced ==
    ASSUME Traced, NEW B, IngestFails(B)
    PROVE  Traced'
BY DEF IngestFails, Traced, PeriodsApart, EvidenceTraced, RevisionsTraced, StoredOnce,
       NothingEvicted, CountedIds, Apart, AnyCopy

-------------------------------------------------------------------------------
(* The steps: close_period and correct_period *)

\* A revision of a period the process knows, of what it retains, is published.
LEMMA PublishTraced ==
    ASSUME Traced, NEW p \in DOMAIN periods, NEW number \in Nat, NEW parent, NEW asOf, NEW state,
           NEW c, Publish(p, Revision(p, number, parent, asOf), state),
           Commit([stored EXCEPT !.revisions = @ \cup {Revision(p, number, parent, asOf)},
                                 !.corrections = c])
    PROVE  Traced'
<1> DEFINE r == Revision(p, number, parent, asOf)
<1>1. /\ stored' = [snapshots |-> stored.snapshots, periods |-> stored.periods,
                    revisions |-> stored'.revisions, corrections |-> stored'.corrections,
                    evidence |-> stored.evidence, folded |-> stored.folded]
      /\ stored'.revisions = IF mode = "writer" THEN stored.revisions \cup {r} ELSE stored.revisions
    <2> HIDE DEF r
    <2> QED BY DEF Commit, Traced, r
<1>2. /\ revisions' = revisions \cup {r} /\ DOMAIN periods' = DOMAIN periods
      /\ mode' = mode /\ evidence' = evidence /\ delivered' = delivered
    BY DEF Publish
<1>3. stored'.periods = stored.periods /\ stored'.evidence = stored.evidence
    BY <1>1
<1>4. r.period = p /\ r.number = number
    BY DEF Revision
<1>5. p \in Periods
    BY DEF Traced, PeriodsApart
<1>6. mode = "writer" =>
          /\ p \in stored.periods
          /\ \A id \in CountedIds(r) : \E d \in delivered : d.id = id /\ Within(ReadObservation(d), p)
    <2>1. mode = "writer" => p \in stored.periods
        BY DEF Traced, PeriodsApart
    <2>2. ASSUME mode = "writer"
          PROVE  \A id \in CountedIds(r) : \E d \in delivered : d.id = id /\ Within(ReadObservation(d), p)
        BY <1>5, <2>2, RevisionCounts DEF Traced
    <2> QED BY <2>1, <2>2
<1> HIDE DEF r
<1>7. PeriodsApart'
    BY <1>2, <1>3 DEF Traced, PeriodsApart
<1>8. EvidenceTraced'
    <2>1. AnyCopy(evidence)' = AnyCopy(evidence) /\ AnyCopy(stored.evidence)' = AnyCopy(stored.evidence)
        BY <1>2, <1>3 DEF AnyCopy
    <2> QED BY <1>2, <1>3, <2>1 DEF Traced, EvidenceTraced
<1>9. RevisionsTraced'
    <2>1. IsFiniteSet(revisions') /\ IsFiniteSet(stored'.revisions)
        BY <1>1, <1>2, FS_AddElement DEF Traced, RevisionsTraced
    <2>2. \A x \in stored'.revisions \cup revisions' : x.number \in Nat
        BY <1>1, <1>2, <1>4 DEF Traced, RevisionsTraced
    <2>3. mode' = "writer" => revisions' \subseteq stored'.revisions
        BY <1>1, <1>2 DEF Traced, RevisionsTraced
    <2>4. ASSUME NEW x \in stored'.revisions
          PROVE  /\ x.period \in stored'.periods
                 /\ \A id \in CountedIds(x) :
                       \E d \in delivered' : d.id = id /\ Within(ReadObservation(d), x.period)
        <3>1. CASE x \in stored.revisions
            BY <1>2, <1>3, <3>1 DEF Traced, RevisionsTraced
        <3>2. CASE x \notin stored.revisions
            <4>1. mode = "writer" /\ x = r
                BY <1>1, <3>2
            <4> QED BY <1>2, <1>3, <1>4, <1>6, <4>1
        <3> QED BY <3>1, <3>2
    <2> QED BY <2>1, <2>2, <2>3, <2>4 DEF RevisionsTraced
<1>10. StoredOnce' /\ NothingEvicted'
    <2>1. stored.revisions \subseteq stored'.revisions
        BY <1>1
    <2> QED BY <1>2, <1>3, <2>1 DEF Traced, StoredOnce, NothingEvicted
<1>11. mode' \in {"down", "writer", "reader"}
    BY <1>2 DEF Traced
<1>12. stored' = [snapshots |-> stored'.snapshots, periods |-> stored'.periods,
                  revisions |-> stored'.revisions, corrections |-> stored'.corrections,
                  evidence |-> stored'.evidence, folded |-> stored'.folded]
    BY <1>1
<1> QED BY <1>7, <1>8, <1>9, <1>10, <1>11, <1>12 DEF Traced

LEMMA ClosePeriodTraced ==
    ASSUME Traced, NEW p, NEW t, ClosePeriod(p, t)
    PROVE  Traced'
<1>1. p \in DOMAIN periods /\ Publish(p, Revision(p, 1, {}, t), "closed")
    BY DEF ClosePeriod
<1>2. Commit([stored EXCEPT !.revisions = @ \cup {Revision(p, 1, {}, t)},
                            !.corrections = stored.corrections])
    BY DEF ClosePeriod, Commit, Traced
<1> QED BY <1>1, <1>2, PublishTraced

LEMMA CorrectPeriodTraced ==
    ASSUME Traced, NEW p, NEW t, CorrectPeriod(p, t)
    PROVE  Traced'
<1> DEFINE number == Latest(p).number + 1
           parent == {Digest(Latest(p))}
           r == Revision(p, number, parent, t)
<1>1. number \in Nat
    BY LatestIn DEF CorrectPeriod, Traced, RevisionsTraced
<1>2. p \in DOMAIN periods /\ Publish(p, r, "superseded")
    BY DEF CorrectPeriod
<1>3. Commit([stored EXCEPT !.revisions = @ \cup {r},
                            !.corrections = stored.corrections \cup {Correction(p, r)}])
    BY DEF CorrectPeriod, Commit, Traced
<1> HIDE DEF number, parent
<1> QED BY <1>1, <1>2, <1>3, PublishTraced

-------------------------------------------------------------------------------
(* The steps: compaction *)

\* What is folded is counted by a stored revision.
LEMMA DroppedIsCounted ==
    ASSUME Traced, mode = "writer", NEW id \in Droppable
    PROVE  \E r \in stored.revisions : id \in CountedIds(r)
<1>1. PICK p \in Foldable : id \in CountedIds(Latest(p))
    BY DEF Droppable
<1>2. Latest(p) \in revisions
    BY LatestIn DEF Foldable, Traced
<1> QED BY <1>1, <1>2 DEF Traced, RevisionsTraced

LEMMA CompactFoldTraced ==
    ASSUME Traced, CompactFold
    PROVE  Traced'
<1>1. /\ stored' = [snapshots |-> stored.snapshots, periods |-> stored.periods,
                    revisions |-> stored.revisions, corrections |-> stored.corrections,
                    evidence |-> stored'.evidence, folded |-> stored.folded]
      /\ stored'.evidence = Surviving(stored.evidence, Droppable)
    BY DEF CompactFold, Traced
<1>2. /\ evidence' = {o \in evidence : o.id \notin Droppable} /\ mode = "writer" /\ mode' = mode
      /\ periods' = periods /\ revisions' = revisions /\ delivered' = delivered
    BY DEF CompactFold
<1>3. stored'.evidence = {o \in stored.evidence : o.id \notin Droppable}
    BY <1>1, StoredReadable DEF Surviving
<1>4. stored'.periods = stored.periods /\ stored'.revisions = stored.revisions
    BY <1>1
<1>5. PeriodsApart'
    BY <1>2, <1>4 DEF Traced, PeriodsApart
<1>6. EvidenceTraced'
    <2>1. \A o : IsObservation(o) => FirstCopy(ReadObservation(o)).id = o.id
        <3> SUFFICES ASSUME NEW o, IsObservation(o) PROVE FirstCopy(ReadObservation(o)).id = o.id
            OBVIOUS
        <3>1. IsObservation(ReadObservation(o)) /\ ReadObservation(o).id = o.id
            BY FieldsOfRead DEF Fields, Dated
        <3> QED BY <3>1, FieldsOfCopy DEF FirstCopy, Fields
    <2>2. \A E : (\A o \in E : IsObservation(o)) =>
              AnyCopy({o \in E : o.id \notin Droppable}) = {x \in AnyCopy(E) : x.id \notin Droppable}
        BY <2>1, AnyCopyIs
    <2>3. AnyCopy(evidence') = AnyCopy(stored'.evidence)
        BY <1>2, <1>3, <2>2 DEF Traced, EvidenceTraced
    <2>4. AnyCopy(evidence)' = AnyCopy(stored.evidence)'
        BY <2>3 DEF AnyCopy
    <2> QED BY <1>2, <1>3, <2>4 DEF Traced, EvidenceTraced
<1>7. RevisionsTraced'
    BY <1>2, <1>4 DEF Traced, RevisionsTraced
<1>8. StoredOnce'
    BY <1>3 DEF Traced, StoredOnce
<1>9. NothingEvicted'
    BY <1>2, <1>3, <1>4, DroppedIsCounted DEF Traced, NothingEvicted
<1>10. mode' \in {"down", "writer", "reader"}
    BY <1>2
<1>11. stored' = [snapshots |-> stored'.snapshots, periods |-> stored'.periods,
                  revisions |-> stored'.revisions, corrections |-> stored'.corrections,
                  evidence |-> stored'.evidence, folded |-> stored'.folded]
    BY <1>1
<1> QED BY <1>5, <1>6, <1>7, <1>8, <1>9, <1>10, <1>11 DEF Traced

LEMMA CompactMarkTraced ==
    ASSUME Traced, CompactMark
    PROVE  Traced'
<1>1. stored' = [snapshots |-> stored.snapshots, periods |-> stored.periods,
                 revisions |-> stored.revisions, corrections |-> stored.corrections,
                 evidence |-> stored.evidence, folded |-> stored'.folded]
    BY DEF CompactMark, Traced
<1>2. /\ evidence' = evidence /\ mode' = mode /\ periods' = periods /\ revisions' = revisions
      /\ delivered' = delivered
    BY DEF CompactMark
<1>3. stored'.periods = stored.periods /\ stored'.revisions = stored.revisions
      /\ stored'.evidence = stored.evidence
    BY <1>1
<1>4. PeriodsApart'
    BY <1>2, <1>3 DEF Traced, PeriodsApart
<1>5. EvidenceTraced'
    BY <1>2, <1>3 DEF Traced, EvidenceTraced, AnyCopy
<1>6. RevisionsTraced'
    BY <1>2, <1>3 DEF Traced, RevisionsTraced
<1>7. StoredOnce' /\ NothingEvicted'
    BY <1>2, <1>3, StoreKept
<1>8. mode' \in {"down", "writer", "reader"}
    BY <1>2 DEF Traced
<1>9. stored' = [snapshots |-> stored'.snapshots, periods |-> stored'.periods,
                 revisions |-> stored'.revisions, corrections |-> stored'.corrections,
                 evidence |-> stored'.evidence, folded |-> stored'.folded]
    BY <1>1
<1> QED BY <1>4, <1>5, <1>6, <1>7, <1>8, <1>9 DEF Traced

LEMMA StutterTraced ==
    ASSUME Traced, UNCHANGED vars
    PROVE  Traced'
BY DEF vars, memory, Traced, PeriodsApart, EvidenceTraced, RevisionsTraced, StoredOnce,
       NothingEvicted, CountedIds, Apart, AnyCopy

LEMMA NextTraced == Traced /\ [Next]_vars => Traced'
<1> SUFFICES ASSUME Traced, [Next]_vars PROVE Traced'
    OBVIOUS
<1>1. CASE \E m \in {"writer", "reader"} : Open(m)
    BY <1>1, OpenTraced
<1>2. CASE Stop
    BY <1>2, StopTraced
<1>3. CASE \E p \in Periods : OpenPeriod(p)
    BY <1>3, OpenPeriodTraced
<1>4. CASE \E B \in Batches : Ingest(B) \/ IngestFails(B)
    <2>1. \A B \in Batches : B \in SUBSET Evidence
        BY DEF Batches
    <2> QED BY <1>4, <2>1, IngestTraced, IngestFailsTraced
<1>5. CASE \E p \in Periods, t \in Instants : ClosePeriod(p, t) \/ CorrectPeriod(p, t)
    BY <1>5, ClosePeriodTraced, CorrectPeriodTraced
<1>6. CASE CompactFold
    BY <1>6, CompactFoldTraced
<1>7. CASE CompactMark
    BY <1>7, CompactMarkTraced
<1>8. CASE UNCHANGED vars
    BY <1>8, StutterTraced
<1> QED BY <1>1, <1>2, <1>3, <1>4, <1>5, <1>6, <1>7, <1>8 DEF Next

-------------------------------------------------------------------------------
(* The budget *)

LEMMA Images ==
    ASSUME NEW S, IsFiniteSet(S), NEW f, DOMAIN f = S
    PROVE  LET T == {f[x] : x \in S}
           IN  IsFiniteSet(T) /\ Cardinality(T) <= Cardinality(S)
<1> DEFINE T == {f[x] : x \in S}
           g == [x \in S |-> f[x]]
<1>1. g \in Surjection(S, T)
    BY DEF Surjection
<1> HIDE DEF T, g
<1>2. IsFiniteSet(T) /\ Cardinality(T) <= Cardinality(S)
    BY <1>1, FS_Surjection
<1> QED BY <1>2 DEF T

\* As many records of some identities are inserted as there were in the batch, at most.
LEMMA InsertedWithIds ==
    ASSUME NEW E, IsFiniteSet(E), NEW A \in SUBSET Evidence, NEW ids
    PROVE  /\ IsFiniteSet(Insert(E, A)) /\ IsFiniteSet(WithIds(A, ids)) /\ IsFiniteSet(WithIds(E, ids))
           /\ Cardinality(WithIds(Insert(E, A), ids))
                  <= Cardinality(WithIds(E, ids)) + Cardinality(WithIds(A, ids))
<1> DEFINE new == [a \in A |-> [a EXCEPT !.copy = Cardinality(CopiesIn(E, a)) + 1]]
           AI == WithIds(A, ids)
           New(S) == {new[a] : a \in S}
<1>1. IsFiniteSet(A)
    BY FS_Subset, LedgerAssumption
<1>2. IsFiniteSet(AI) /\ IsFiniteSet(WithIds(E, ids))
    BY <1>1, FS_Subset DEF WithIds
<1>3. \A S \in SUBSET A : IsFiniteSet(New(S)) /\ Cardinality(New(S)) <= Cardinality(S)
    <2> SUFFICES ASSUME NEW S \in SUBSET A
                 PROVE  IsFiniteSet(New(S)) /\ Cardinality(New(S)) <= Cardinality(S)
        OBVIOUS
    <2> DEFINE f == [a \in S |-> new[a]]
    <2>1. New(S) = {f[a] : a \in S}
        OBVIOUS
    <2>2. IsFiniteSet(S) /\ DOMAIN f = S
        BY <1>1, FS_Subset
    <2> HIDE DEF f, new
    <2> QED BY <2>1, <2>2, Images
<1>4. Insert(E, A) = E \cup New(A)
    BY DEF Insert
<1>5. \A a \in A : new[a].id = a.id
    <2> SUFFICES ASSUME NEW a \in A PROVE new[a].id = a.id
        OBVIOUS
    <2>1. IsObservation(a)
        BY Deliverable
    <2>2. [a EXCEPT !.copy = Cardinality(CopiesIn(E, a)) + 1].id = a.id
        BY <2>1, FieldsOfCopy DEF Fields
    <2> QED BY <2>2
<1>6. WithIds(Insert(E, A), ids) = WithIds(E, ids) \cup New(AI)
    <2> HIDE DEF new
    <2> QED BY <1>4, <1>5 DEF WithIds
<1>7. AI \subseteq A
    BY DEF WithIds
<1> HIDE DEF AI, new
<1>8. IsFiniteSet(Insert(E, A))
    BY <1>3, <1>4, FS_Union
<1>9. /\ Cardinality(WithIds(E, ids) \cup New(AI))
             = Cardinality(WithIds(E, ids)) + Cardinality(New(AI)) - Cardinality(WithIds(E, ids) \cap New(AI))
      /\ Cardinality(WithIds(E, ids) \cap New(AI)) \in Nat
    BY <1>2, <1>3, <1>7, FS_Union, FS_Intersection, FS_CardinalityType
<1>10. /\ Cardinality(WithIds(E, ids)) \in Nat /\ Cardinality(New(AI)) \in Nat
       /\ Cardinality(New(AI)) <= Cardinality(AI) /\ Cardinality(AI) \in Nat
    BY <1>2, <1>3, <1>7, FS_CardinalityType
<1> QED BY <1>2, <1>6, <1>8, <1>9, <1>10 DEF AI

\* Evidence that is not there yet is inserted as it is.
LEMMA InsertedNew ==
    ASSUME NEW E, NEW A \in SUBSET Evidence, \A a \in A : CopiesIn(E, a) = {}
    PROVE  Insert(E, A) = E \cup A /\ E \cap A = {}
<1>1. \A a \in A : [a EXCEPT !.copy = Cardinality(CopiesIn(E, a)) + 1] = a
    <2> SUFFICES ASSUME NEW a \in A
                 PROVE  [a EXCEPT !.copy = Cardinality(CopiesIn(E, a)) + 1] = a
        OBVIOUS
    <2>1. Cardinality(CopiesIn(E, a)) + 1 = 1
        BY FS_EmptySet
    <2> QED BY <2>1, Deliverable DEF FirstCopy
<1>2. \A a \in A : a \notin E
    BY DEF CopiesIn, SameRecord
<1> QED BY <1>1, <1>2 DEF Insert

\* What a batch adds fits.
LEMMA AcceptedFits ==
    ASSUME Budget, NEW B \in SUBSET Evidence, Fits(B)
    PROVE  /\ Accepted(B) \in SUBSET Evidence /\ IsFiniteSet(Accepted(B))
           /\ Cardinality(evidence) + Cardinality(Accepted(B)) <= Policy.maxRetained
<1> DEFINE N == {o \in B : ~AlreadyPresent(o)}
<1>1. Accepted(B) \subseteq N /\ N \subseteq Evidence
    BY DEF Accepted, Addressed
<1>2. IsFiniteSet(N) /\ IsFiniteSet(Accepted(B)) /\ Cardinality(Accepted(B)) <= Cardinality(N)
    BY <1>1, FS_Subset, LedgerAssumption
<1>3. Cardinality(evidence) + Cardinality(N) <= Policy.maxRetained
    BY DEF Fits
<1>4. Cardinality(evidence) \in Nat /\ Cardinality(N) \in Nat /\ Cardinality(Accepted(B)) \in Nat
    BY <1>2, FS_CardinalityType DEF Budget
<1> HIDE DEF N
<1> QED BY <1>1, <1>2, <1>3, <1>4, LedgerAssumption

LEMMA HeldCopy ==
    ASSUME NEW a \in Evidence, NEW k \in 1..Policy.maxRetained
    PROVE  [a EXCEPT !.copy = k] \in Held
BY DEF Held

\* All identities are those of the evidence.
LEMMA HeldIds ==
    ASSUME NEW E, E \subseteq Held \cup {ReadObservation(o) : o \in Held}
    PROVE  WithIds(E, Ids) = E
<1>1. \A o \in Held : IsObservation(o) /\ o.id \in Ids
    <2> SUFFICES ASSUME NEW o \in Held PROVE IsObservation(o) /\ o.id \in Ids
        OBVIOUS
    <2>1. PICK a \in Evidence, k \in 1..Policy.maxRetained : o = [a EXCEPT !.copy = k]
        BY DEF Held
    <2>2. IsObservation(a)
        BY Deliverable
    <2> QED BY <2>1, <2>2, FieldsOfCopy DEF Fields, Ids
<1>2. \A o \in Held : ReadObservation(o).id \in Ids
    BY <1>1, FieldsOfRead DEF Fields, Dated
<1> QED BY <1>1, <1>2 DEF WithIds

\* No two stored records are read alike.
LEMMA ReadInjective ==
    ASSUME Traced, NEW x \in stored.evidence, NEW y \in stored.evidence,
           ReadObservation(x) = ReadObservation(y)
    PROVE  x = y
<1>1. IsObservation(x) /\ IsObservation(y) /\ FirstCopy(x) \in Evidence /\ FirstCopy(y) \in Evidence
    BY StoredReadable
<1>2. ReadObservation(FirstCopy(x)) = ReadObservation(FirstCopy(y))
    BY <1>1, ReadFirst
<1>3. FirstCopy(x) = FirstCopy(y)
    BY <1>1, <1>2, LedgerAssumption
<1>4. \A f \in Fields : f # "copy" => x[f] = FirstCopy(x)[f] /\ y[f] = FirstCopy(y)[f]
    BY <1>1, FieldsOfCopy DEF FirstCopy
<1>5. x.copy = y.copy
    <2>1. "copy" \in Fields /\ "copy" \notin Dated
        BY DEF Fields, Dated
    <2>2. ReadObservation(x).copy = x.copy /\ ReadObservation(y).copy = y.copy
        BY <1>1, <2>1, FieldsOfRead
    <2> QED BY <2>2
<1>6. \A f \in Fields : x[f] = y[f]
    BY <1>3, <1>4, <1>5
<1> QED BY <1>1, <1>6, SameFields

LEMMA OpenBudget ==
    ASSUME Traced, Budget, NEW m \in {"writer", "reader"}, Open(m)
    PROVE  Budget'
<1> DEFINE S == stored.evidence
           Image(E) == {ReadObservation(o) : o \in E}
<1>1. evidence' = Image(S)
    BY StoredReadable DEF Open, ReplayedEvidence
<1>2. stored'.evidence = S
    BY DEF Open, Traced
<1>3. \A E \in SUBSET S : IsFiniteSet(Image(E)) /\ Cardinality(Image(E)) = Cardinality(E)
    <2> SUFFICES ASSUME NEW E \in SUBSET S
                 PROVE  IsFiniteSet(Image(E)) /\ Cardinality(Image(E)) = Cardinality(E)
        OBVIOUS
    <2> DEFINE f == [o \in E |-> ReadObservation(o)]
    <2>1. IsFiniteSet(E)
        BY FS_Subset DEF Budget
    <2>2. \A x, y \in E : f[x] = f[y] => x = y
        BY ReadInjective
    <2>3. f \in Injection(E, Image(E)) /\ f \in Surjection(E, Image(E))
        BY <2>2 DEF Injection, IsInjective, Surjection
    <2>4. f \in Bijection(E, Image(E))
        BY <2>3 DEF Bijection
    <2> QED BY <2>1, <2>4, FS_Bijection DEF ExistsBijection
<1>4. \A ids : /\ WithIds(S, ids) \in SUBSET S
               /\ WithIds(Image(S), ids) = Image(WithIds(S, ids))
    <2>1. \A o \in S : ReadObservation(o).id = o.id
        BY StoredReadable, FieldsOfRead DEF Fields, Dated
    <2> QED BY <2>1 DEF WithIds
<1>5. Image(S) \subseteq {ReadObservation(o) : o \in Held}
    BY DEF Budget
<1> HIDE DEF Image
<1>6. IsFiniteSet(evidence') /\ Cardinality(evidence') <= Policy.maxRetained
    BY <1>1, <1>3 DEF Budget
<1>7. ASSUME NEW ids \in SUBSET Ids
      PROVE  Cardinality(WithIds(stored'.evidence, ids)) <= Cardinality(WithIds(evidence', ids))
    <2>1. Cardinality(WithIds(S, ids)) = Cardinality(WithIds(evidence', ids))
        BY <1>1, <1>3, <1>4
    <2>2. Cardinality(WithIds(S, ids)) \in Nat
        BY <1>4, FS_Subset, FS_CardinalityType DEF Budget
    <2> QED BY <1>2, <2>1, <2>2
<1>8. \A ids \in SUBSET Ids :
          Cardinality(WithIds(stored.evidence, ids)') <= Cardinality(WithIds(evidence, ids)')
    BY <1>7 DEF WithIds
<1> QED BY <1>1, <1>2, <1>5, <1>6, <1>8 DEF Budget

LEMMA IngestBudget ==
    ASSUME Traced, Budget, NEW B \in SUBSET Evidence, Ingest(B)
    PROVE  Budget'
<1> DEFINE A == Accepted(B)
           S == stored.evidence
<1>1. /\ A \in SUBSET Evidence /\ IsFiniteSet(A)
      /\ Cardinality(evidence) + Cardinality(A) <= Policy.maxRetained
    BY AcceptedFits DEF Ingest
<1>2. evidence' = evidence \cup A /\ evidence \cap A = {}
    <2>1. \A a \in A : CopiesIn(evidence, a) = {}
        BY DEF Accepted, AlreadyPresent
    <2> QED BY <1>1, <2>1, InsertedNew DEF Ingest
<1>3. /\ stored'.evidence = IF mode = "writer" THEN Insert(S, A) ELSE S
      /\ mode' = mode
    BY DEF Ingest, Commit, Traced
<1>4. A \subseteq Held
    <2> SUFFICES ASSUME NEW a \in A PROVE a \in Held
        OBVIOUS
    <2>1. Cardinality(A) \in Nat /\ Cardinality(A) # 0 /\ Cardinality(evidence) \in Nat
        BY <1>1, FS_EmptySet, FS_CardinalityType DEF Budget
    <2>2. 1 \in 1..Policy.maxRetained
        BY <1>1, <2>1, LedgerAssumption
    <2>3. a \in Evidence /\ [a EXCEPT !.copy = 1] = a
        BY <1>1, Deliverable DEF FirstCopy
    <2> QED BY <2>2, <2>3, HeldCopy
<1> HIDE DEF A
<1>5. IsFiniteSet(evidence') /\ Cardinality(evidence') <= Policy.maxRetained
    <2>1. IsFiniteSet(evidence')
        BY <1>1, <1>2, FS_Union DEF Budget
    <2>2. Cardinality(evidence') = Cardinality(evidence) + Cardinality(A)
        <3>1. Cardinality(evidence \cap A) = 0
            BY <1>2, FS_EmptySet
        <3>2. Cardinality(evidence') = Cardinality(evidence) + Cardinality(A) - Cardinality(evidence \cap A)
            BY <1>1, <1>2, FS_Union DEF Budget
        <3>3. Cardinality(evidence) \in Nat /\ Cardinality(A) \in Nat
            BY <1>1, FS_CardinalityType DEF Budget
        <3> QED BY <3>1, <3>2, <3>3
    <2> QED BY <1>1, <2>1, <2>2
<1>6. evidence' \subseteq Held \cup {ReadObservation(o) : o \in Held}
    BY <1>2, <1>4 DEF Budget
<1>7. ASSUME mode = "writer"
      PROVE  /\ IsFiniteSet(stored'.evidence) /\ stored'.evidence \subseteq Held
             /\ Cardinality(stored'.evidence) <= Policy.maxRetained
             /\ \A ids \in SUBSET Ids :
                   Cardinality(WithIds(stored'.evidence, ids)) <= Cardinality(WithIds(evidence', ids))
    <2>1. stored'.evidence = Insert(S, A)
        BY <1>3, <1>7
    <2>2. IsFiniteSet(Insert(S, A))
        BY <1>1, InsertedWithIds DEF Budget
    <2>3. /\ Cardinality(S) <= Cardinality(evidence) /\ Cardinality(S) \in Nat
          /\ Cardinality(evidence) \in Nat /\ Cardinality(A) \in Nat
        <3>1. WithIds(S, Ids) = S /\ WithIds(evidence, Ids) = evidence
            BY HeldIds DEF Budget
        <3> QED BY <1>1, <1>7, <3>1, FS_CardinalityType DEF Budget
    <2>4. Insert(S, A) \subseteq Held
        <3> SUFFICES ASSUME NEW x \in Insert(S, A), x \notin S PROVE x \in Held
            BY DEF Budget
        <3>1. PICK a \in A : x = [a EXCEPT !.copy = Cardinality(CopiesIn(S, a)) + 1]
            BY <1>1, Inserted
        <3>2. Cardinality(CopiesIn(S, a)) \in Nat /\ Cardinality(CopiesIn(S, a)) <= Cardinality(S)
            BY FS_Subset, FS_CardinalityType DEF CopiesIn, Budget
        <3>3. Cardinality(A) # 0
            BY <1>1, FS_EmptySet
        <3>4. Cardinality(CopiesIn(S, a)) + 1 \in 1..Policy.maxRetained
            BY <1>1, <2>3, <3>2, <3>3, LedgerAssumption
        <3> QED BY <1>1, <3>1, <3>4, HeldCopy
    <2>5. ASSUME NEW ids \in SUBSET Ids
          PROVE  Cardinality(WithIds(Insert(S, A), ids)) <= Cardinality(WithIds(evidence', ids))
        <3>1. /\ Cardinality(WithIds(Insert(S, A), ids))
                     <= Cardinality(WithIds(S, ids)) + Cardinality(WithIds(A, ids))
              /\ IsFiniteSet(WithIds(A, ids)) /\ IsFiniteSet(WithIds(S, ids))
              /\ IsFiniteSet(WithIds(Insert(S, A), ids))
            <4>1. WithIds(Insert(S, A), ids) \in SUBSET Insert(S, A)
                BY DEF WithIds
            <4> QED BY <1>1, <2>2, <4>1, InsertedWithIds, FS_Subset DEF Budget
        <3>2. Cardinality(WithIds(S, ids)) <= Cardinality(WithIds(evidence, ids))
            BY <1>7 DEF Budget
        <3>3. /\ WithIds(evidence', ids) = WithIds(evidence, ids) \cup WithIds(A, ids)
              /\ WithIds(evidence, ids) \cap WithIds(A, ids) = {}
            BY <1>2 DEF WithIds
        <3>4. IsFiniteSet(WithIds(evidence, ids))
            BY FS_Subset DEF WithIds, Budget
        <3>5. Cardinality(WithIds(evidence', ids))
                  = Cardinality(WithIds(evidence, ids)) + Cardinality(WithIds(A, ids))
                    - Cardinality(WithIds(evidence, ids) \cap WithIds(A, ids))
            BY <3>1, <3>3, <3>4, FS_Union
        <3>6. Cardinality(WithIds(evidence, ids) \cap WithIds(A, ids)) = 0
            BY <3>3, FS_EmptySet
        <3>7. /\ Cardinality(WithIds(evidence, ids)) \in Nat /\ Cardinality(WithIds(A, ids)) \in Nat
              /\ Cardinality(WithIds(S, ids)) \in Nat /\ Cardinality(WithIds(Insert(S, A), ids)) \in Nat
            BY <3>1, <3>4, FS_CardinalityType
        <3> QED BY <3>1, <3>2, <3>5, <3>6, <3>7
    <2>6. Cardinality(Insert(S, A)) <= Policy.maxRetained
        <3>1. WithIds(Insert(S, A), Ids) = Insert(S, A) /\ WithIds(evidence', Ids) = evidence'
            BY <1>6, <2>4, HeldIds
        <3>2. Cardinality(Insert(S, A)) <= Cardinality(evidence')
            BY <2>5, <3>1
        <3>3. Cardinality(Insert(S, A)) \in Nat /\ Cardinality(evidence') \in Nat
            BY <1>5, <2>2, FS_CardinalityType
        <3> QED BY <1>5, <3>2, <3>3, LedgerAssumption
    <2> QED BY <2>1, <2>2, <2>4, <2>5, <2>6
<1>8. ASSUME mode # "writer"
      PROVE  /\ IsFiniteSet(stored'.evidence) /\ stored'.evidence \subseteq Held
             /\ Cardinality(stored'.evidence) <= Policy.maxRetained
    BY <1>3, <1>8 DEF Budget
<1>9. mode' = "writer" =>
          \A ids \in SUBSET Ids :
              Cardinality(WithIds(stored.evidence, ids)') <= Cardinality(WithIds(evidence, ids)')
    BY <1>3, <1>7 DEF WithIds
<1> QED BY <1>5, <1>6, <1>7, <1>8, <1>9 DEF Budget

LEMMA CompactFoldBudget ==
    ASSUME Traced, Budget, CompactFold
    PROVE  Budget'
<1>1. /\ stored'.evidence = {o \in stored.evidence : o.id \notin Droppable}
      /\ evidence' = {o \in evidence : o.id \notin Droppable} /\ mode = "writer" /\ mode' = mode
    <2>1. stored'.evidence = Surviving(stored.evidence, Droppable)
        BY DEF CompactFold, Traced
    <2> QED BY <2>1, StoredReadable DEF CompactFold, Surviving
<1>2. \A E, ids : WithIds({o \in E : o.id \notin Droppable}, ids) = WithIds(E, ids \ Droppable)
    BY DEF WithIds
<1>3. \A ids \in SUBSET Ids :
          Cardinality(WithIds(stored'.evidence, ids)) <= Cardinality(WithIds(evidence', ids))
    <2> SUFFICES ASSUME NEW ids \in SUBSET Ids
                 PROVE  Cardinality(WithIds(stored'.evidence, ids))
                            <= Cardinality(WithIds(evidence', ids))
        OBVIOUS
    <2>1. Cardinality(WithIds(stored.evidence, ids \ Droppable))
              <= Cardinality(WithIds(evidence, ids \ Droppable))
        BY <1>1 DEF Budget
    <2>2. /\ WithIds(stored'.evidence, ids) = WithIds(stored.evidence, ids \ Droppable)
          /\ WithIds(evidence', ids) = WithIds(evidence, ids \ Droppable)
        BY <1>1, <1>2
    <2> QED BY <2>1, <2>2
<1>4. \A ids \in SUBSET Ids :
          Cardinality(WithIds(stored.evidence, ids)') <= Cardinality(WithIds(evidence, ids)')
    BY <1>3 DEF WithIds
<1>5. \A E \in {stored.evidence, evidence} :
          LET F == {o \in E : o.id \notin Droppable}
          IN  /\ F \subseteq E /\ IsFiniteSet(F)
              /\ Cardinality(F) <= Policy.maxRetained
    <2> SUFFICES ASSUME NEW E \in {stored.evidence, evidence},
                        NEW F, F = {o \in E : o.id \notin Droppable}
                 PROVE  F \subseteq E /\ IsFiniteSet(F) /\ Cardinality(F) <= Policy.maxRetained
        OBVIOUS
    <2>1. IsFiniteSet(E) /\ Cardinality(E) <= Policy.maxRetained /\ F \subseteq E
        BY DEF Budget
    <2>2. IsFiniteSet(F) /\ Cardinality(F) <= Cardinality(E)
        BY <2>1, FS_Subset
    <2>3. Cardinality(F) \in Nat /\ Cardinality(E) \in Nat
        BY <2>1, <2>2, FS_CardinalityType
    <2> QED BY <2>1, <2>2, <2>3, LedgerAssumption
<1> QED BY <1>1, <1>4, <1>5 DEF Budget

\* The other operations leave the evidence alone.
LEMMA EvidenceKept ==
    ASSUME Budget, stored'.evidence = stored.evidence, evidence' = evidence, mode' = mode
    PROVE  Budget'
BY DEF Budget, WithIds

LEMMA BudgetStep == Traced /\ Budget /\ [Next]_vars => Budget'
<1> SUFFICES ASSUME Traced, Budget, [Next]_vars PROVE Budget'
    OBVIOUS
<1>1. CASE \E m \in {"writer", "reader"} : Open(m)
    BY <1>1, OpenBudget
<1>2. CASE Stop
    <2>1. stored' = stored /\ evidence' = {} /\ mode' = "down"
        BY <1>2 DEF Stop
    <2>2. 0 <= Policy.maxRetained
        BY LedgerAssumption
    <2> QED BY <2>1, <2>2, FS_EmptySet DEF Budget, WithIds
<1>3. CASE \E p \in Periods : OpenPeriod(p)
    BY <1>3, EvidenceKept DEF OpenPeriod, Commit, Traced
<1>4. CASE \E B \in Batches : Ingest(B)
    BY <1>4, IngestBudget DEF Batches
<1>5. CASE \E B \in Batches : IngestFails(B)
    BY <1>5, EvidenceKept DEF IngestFails
<1>6. CASE \E p \in Periods, t \in Instants : ClosePeriod(p, t)
    BY <1>6, EvidenceKept DEF ClosePeriod, Publish, Commit, Traced
<1>7. CASE \E p \in Periods, t \in Instants : CorrectPeriod(p, t)
    BY <1>7, EvidenceKept DEF CorrectPeriod, Publish, Commit, Traced
<1>8. CASE CompactFold
    BY <1>8, CompactFoldBudget
<1>9. CASE CompactMark
    BY <1>9, EvidenceKept DEF CompactMark, Traced
<1>10. CASE UNCHANGED vars
    BY <1>10, EvidenceKept DEF vars, memory
<1> QED BY <1>1, <1>2, <1>3, <1>4, <1>5, <1>6, <1>7, <1>8, <1>9, <1>10 DEF Next

-------------------------------------------------------------------------------
(* The history of a period *)

\* No step takes a revision out of the store.
LEMMA RevisionsKept == Traced /\ [Next]_vars => stored.revisions \subseteq stored'.revisions
<1> SUFFICES ASSUME Traced, [Next]_vars PROVE stored.revisions \subseteq stored'.revisions
    OBVIOUS
<1>1. CASE \E m \in {"writer", "reader"} : Open(m)
    BY <1>1 DEF Open, Traced
<1>2. CASE Stop
    BY <1>2 DEF Stop
<1>3. CASE \E p \in Periods : OpenPeriod(p)
    BY <1>3 DEF OpenPeriod, Commit, Traced
<1>4. CASE \E B \in Batches : Ingest(B) \/ IngestFails(B)
    BY <1>4 DEF Ingest, IngestFails, Commit, Traced
<1>5. CASE \E p \in Periods, t \in Instants : ClosePeriod(p, t)
    BY <1>5 DEF ClosePeriod, Commit, Traced
<1>6. CASE \E p \in Periods, t \in Instants : CorrectPeriod(p, t)
    BY <1>6 DEF CorrectPeriod, Commit, Traced
<1>7. CASE CompactFold
    BY <1>7 DEF CompactFold, Traced
<1>8. CASE CompactMark
    BY <1>8 DEF CompactMark, Traced
<1>9. CASE UNCHANGED vars
    BY <1>9 DEF vars
<1> QED BY <1>1, <1>2, <1>3, <1>4, <1>5, <1>6, <1>7, <1>8, <1>9 DEF Next

LEMMA MaxIs ==
    ASSUME NEW T \in SUBSET Nat, NEW n \in T, \A m \in T : m <= n
    PROVE  Max(T) = n
<1>1. \A x \in T : (\A y \in T : x >= y) => x = n
    OBVIOUS
<1>2. n \in T /\ \A y \in T : n >= y
    OBVIOUS
<1> QED BY <1>1, <1>2 DEF Max

\* The number of a period's last revision, zero if it has none.
Numbers(R, p) == {0} \cup {r.number : r \in Of(R, p)}

LEMMA LastNumber ==
    ASSUME NEW R, IsFiniteSet(R), \A r \in R : r.number \in Nat, NEW p
    PROVE  /\ Numbers(R, p) \subseteq Nat /\ Max(Numbers(R, p)) \in Numbers(R, p)
           /\ \A m \in Numbers(R, p) : m <= Max(Numbers(R, p))
<1> DEFINE S == Of(R, p)
           T == {r.number : r \in S}
           f == [r \in S |-> r.number]
<1>1. Numbers(R, p) \subseteq Nat
    BY DEF Numbers, Of
<1>2. IsFiniteSet(Numbers(R, p))
    <2>1. IsFiniteSet(S)
        BY FS_Subset DEF Of
    <2>2. f \in Surjection(S, T)
        BY DEF Surjection
    <2>3. IsFiniteSet(T)
        BY <2>1, <2>2, FS_Surjection
    <2> HIDE DEF T
    <2>4. IsFiniteSet(T \cup {0})
        BY <2>3, FS_AddElement
    <2>5. Numbers(R, p) = T \cup {0}
        BY DEF Numbers, T
    <2> QED BY <2>4, <2>5
<1>3. PICK n \in Numbers(R, p) : \A m \in Numbers(R, p) : m <= n
    <2>1. Numbers(R, p) # {}
        BY DEF Numbers
    <2> QED BY <1>1, <1>2, <2>1, GreatestNumber
<1>4. Max(Numbers(R, p)) = n
    BY <1>1, <1>3, MaxIs
<1> QED BY <1>1, <1>3, <1>4

LEMMA NoHistory == History({}, {})
BY FS_EmptySet DEF History, Linear

LEMMA NumberIn ==
    ASSUME NEW r, IsRevision(r)
    PROVE  r.number \in Nat /\ r.number >= 1
BY LedgerAssumption DEF IsRevision

\* A first revision begins the history of a period that has none.
LEMMA FirstRevision ==
    ASSUME NEW R, NEW C, History(R, C), NEW r, IsRevision(r), r.number = 1, r.parent = {},
           Of(R, r.period) = {}
    PROVE  History(R \cup {r}, C)
<1>1. IsFiniteSet(R \cup {r}) /\ IsFiniteSet(C)
    BY FS_AddElement DEF History
<1>2. Linear(R \cup {r}, C)
    <2>1. Linear(R, C)
        BY DEF History
    <2>2. \A x \in R : x.period # r.period
        BY DEF Of
    <2>3. \A x \in R \cup {r} :
              IF x.number = 1 THEN x.parent = {}
              ELSE \E q \in Of(R \cup {r}, x.period) : q.number = x.number - 1 /\ x.parent = {Digest(q)}
        BY <2>1 DEF Linear, Of
    <2>4. \A x, q \in R \cup {r} : x.period = q.period /\ x.number = q.number => x = q
        BY <2>1, <2>2 DEF Linear
    <2>5. \A c \in C :
              /\ \E x \in Of(R \cup {r}, c.period) : x.number = c.to /\ Digest(x) = c.new
              /\ c.to > 2 => \E x \in Of(C, c.period) : x.to = c.from /\ c.previous = {x.new}
        BY <2>1 DEF Linear, Of
    <2>6. \A x \in R \cup {r} : x.number > 1 => \E c \in Of(C, x.period) : c.to = x.number
        BY <2>1 DEF Linear
    <2> QED BY <2>3, <2>4, <2>5, <2>6 DEF Linear
<1>3. r.number <= Cardinality(Of(C, r.period)) + 1
    <2>1. IsFiniteSet(Of(C, r.period))
        BY <1>1, FS_Subset DEF Of
    <2> QED BY <2>1, FS_CardinalityType
<1> QED BY <1>1, <1>2, <1>3 DEF History

\* A correction follows the latest revision of its period, and the latest correction.
LEMMA NextRevision ==
    ASSUME NEW R, NEW C, History(R, C), NEW last \in R,
           \A x \in Of(R, last.period) : x.number <= last.number,
           NEW r, IsRevision(r), r.period = last.period, r.number = last.number + 1,
           r.parent = {Digest(last)}, NEW c,
           c = [period |-> r.period, from |-> r.number - 1, to |-> r.number, created |-> r.asOf,
                new |-> Digest(r),
                previous |-> {x.new : x \in {y \in Of(C, r.period) :
                                                \A z \in Of(C, r.period) : z.to <= y.to}}]
    PROVE  History(R \cup {r}, C \cup {c})
<1> DEFINE p == r.period
           P == C \cup {c}
           Q == R \cup {r}
<1>1. /\ Linear(R, C) /\ IsFiniteSet(R) /\ IsFiniteSet(C)
      /\ \A x \in R : IsRevision(x) /\ x.number \in Nat /\ x.number >= 1
      /\ IsRevision(last) /\ last.number \in Nat
    BY NumberIn DEF History
<1>2. IsFiniteSet(Q) /\ IsFiniteSet(P)
    BY <1>1, FS_AddElement
<1>3. \A x \in Of(R, p) : x.number # r.number
    BY <1>1 DEF Of
<1>4. c.period = p /\ c.to = r.number /\ c.from = last.number /\ c.new = r /\ c.created = r.asOf
    BY <1>1 DEF Digest
<1>5. \A z \in Of(C, p) : z.to \in Nat /\ z.to <= last.number
    BY <1>1 DEF Linear, Of
<1>6. c \notin C
    BY <1>1, <1>4, <1>5 DEF Of
<1>7. c.to > 2 => \E x \in Of(P, p) : x.to = c.from /\ c.previous = {x.new}
    <2> SUFFICES ASSUME c.to > 2 PROVE \E x \in Of(P, p) : x.to = c.from /\ c.previous = {x.new}
        OBVIOUS
    <2>1. last.number > 1
        BY <1>1, <1>4
    <2>2. PICK x \in Of(C, p) : x.to = last.number
        BY <1>1, <2>1 DEF Linear
    <2>3. \A y \in Of(C, p) : (\A z \in Of(C, p) : z.to <= y.to) <=> y.to = last.number
        BY <1>1, <1>5, <2>2
    <2>4. \A y \in Of(C, p) : y.to = last.number => y.new = x.new
        <3> SUFFICES ASSUME NEW y \in Of(C, p), y.to = last.number PROVE y.new = x.new
            OBVIOUS
        <3>1. PICK q \in Of(R, p) : q.number = last.number /\ Digest(q) = x.new
            BY <1>1, <2>2 DEF Linear, Of
        <3>2. PICK u \in Of(R, p) : u.number = last.number /\ Digest(u) = y.new
            BY <1>1 DEF Linear, Of
        <3>3. q = u
            BY <1>1, <3>1, <3>2 DEF Linear, Of
        <3> QED BY <3>1, <3>2, <3>3
    <2>5. c.previous = {y.new : y \in {y \in Of(C, p) : \A z \in Of(C, p) : z.to <= y.to}}
        OBVIOUS
    <2>6. {y \in Of(C, p) : \A z \in Of(C, p) : z.to <= y.to} = {y \in Of(C, p) : y.to = last.number}
        BY <2>3
    <2>7. c.previous = {x.new}
        BY <2>2, <2>4, <2>5, <2>6
    <2>8. x \in Of(P, p)
        BY <2>2 DEF Of
    <2> HIDE DEF P
    <2> QED BY <1>4, <2>2, <2>7, <2>8
<1> HIDE DEF P, Q
<1>8. \A s : Of(C, s) \subseteq Of(P, s) /\ Of(R, s) \subseteq Of(Q, s)
    BY DEF Of, P, Q
<1>9. Linear(Q, P)
    <2>1. ASSUME NEW x \in Q
          PROVE  IF x.number = 1 THEN x.parent = {}
                 ELSE \E q \in Of(Q, x.period) : q.number = x.number - 1 /\ x.parent = {Digest(q)}
        <3>1. CASE x \in R
            BY <1>1, <1>8, <3>1 DEF Linear
        <3>2. CASE x = r
            <4>1. last \in Of(Q, x.period) /\ last.number = x.number - 1 /\ x.number # 1
                BY <1>1, <3>2 DEF Of, Q
            <4> QED BY <3>2, <4>1
        <3> QED BY <3>1, <3>2 DEF Q
    <2>2. \A x, q \in Q : x.period = q.period /\ x.number = q.number => x = q
        BY <1>1, <1>3 DEF Linear, Of, Q
    <2>3. ASSUME NEW d \in P
          PROVE  /\ \E x \in Of(Q, d.period) : x.number = d.to /\ Digest(x) = d.new
                 /\ d.to > 2 => \E x \in Of(P, d.period) : x.to = d.from /\ d.previous = {x.new}
        <3>1. CASE d \in C
            BY <1>1, <1>8, <3>1 DEF Linear
        <3>2. CASE d = c
            <4>1. r \in Of(Q, p)
                BY DEF Of, Q
            <4>2. \E x \in Of(Q, d.period) : x.number = d.to /\ Digest(x) = d.new
                BY <1>4, <3>2, <4>1 DEF Digest
            <4> QED BY <1>4, <1>7, <3>2, <4>2
        <3> QED BY <3>1, <3>2 DEF P
    <2>4. ASSUME NEW x \in Q, x.number > 1
          PROVE  \E d \in Of(P, x.period) : d.to = x.number
        <3>1. CASE x \in R
            BY <1>1, <1>8, <2>4, <3>1 DEF Linear
        <3>2. CASE x = r
            BY <1>4, <3>2 DEF Of, P
        <3> QED BY <3>1, <3>2 DEF Q
    <2> QED BY <2>1, <2>2, <2>3, <2>4 DEF Linear
<1>10. /\ \A s : IsFiniteSet(Of(C, s)) /\ Cardinality(Of(C, s)) \in Nat
       /\ \A s : Cardinality(Of(C, s)) <= Cardinality(Of(P, s)) /\ Cardinality(Of(P, s)) \in Nat
       /\ Cardinality(Of(P, p)) = Cardinality(Of(C, p)) + 1
    <2>1. \A s : Of(C, s) \in SUBSET C /\ Of(P, s) \in SUBSET P
        BY DEF Of
    <2>2. \A s : IsFiniteSet(Of(C, s)) /\ IsFiniteSet(Of(P, s))
        BY <1>1, <1>2, <2>1, FS_Subset DEF P
    <2>3. \A s : Cardinality(Of(C, s)) <= Cardinality(Of(P, s))
        BY <1>8, <2>2, FS_Subset
    <2>4. Of(P, p) = Of(C, p) \cup {c} /\ c \notin Of(C, p)
        BY <1>4, <1>6 DEF Of, P
    <2>5. Cardinality(Of(P, p)) = Cardinality(Of(C, p)) + 1
        <3> DEFINE S == Of(C, p)
        <3>1. IsFiniteSet(S) /\ c \notin S
            BY <2>2, <2>4
        <3> HIDE DEF S
        <3>2. Cardinality(S \cup {c}) = Cardinality(S) + 1
            BY <3>1, FS_AddElement
        <3> QED BY <2>4, <3>2 DEF S
    <2> QED BY <2>2, <2>3, <2>5, FS_CardinalityType
<1>11. ASSUME NEW x \in Q
       PROVE  IsRevision(x) /\ x.number <= Cardinality(Of(P, x.period)) + 1
    <2>1. CASE x \in R
        <3>1. x.number <= Cardinality(Of(C, x.period)) + 1
            BY <2>1 DEF History
        <3> QED BY <1>1, <1>10, <2>1, <3>1
    <2>2. CASE x = r
        <3>1. last.number <= Cardinality(Of(C, p)) + 1
            BY DEF History
        <3> QED BY <1>1, <1>10, <2>2, <3>1
    <2> QED BY <2>1, <2>2 DEF Q
<1>12. \A d \in P : d = [period |-> d.period, from |-> d.to - 1, to |-> d.to,
                         created |-> d.new.asOf, new |-> d.new, previous |-> d.previous]
    <2>1. c = [period |-> c.period, from |-> c.to - 1, to |-> c.to,
               created |-> c.new.asOf, new |-> c.new, previous |-> c.previous]
        BY DEF Digest
    <2> QED BY <2>1 DEF History, P
<1> QED BY <1>2, <1>9, <1>11, <1>12 DEF History, P, Q

-------------------------------------------------------------------------------
(* The lineage of the periods, in memory and in the store *)

\* What a process derives counts evidence.
LEMMA RevisionIds ==
    ASSUME Budget, NEW p, NEW number, NEW parent, NEW asOf
    PROVE  CountedIds(Revision(p, number, parent, asOf)) \subseteq Ids
<1> DEFINE C == Candidates(evidence, p)
<1>1. \A o \in evidence : o.id \in Ids
    <2>1. WithIds(evidence, Ids) = evidence
        BY HeldIds DEF Budget
    <2> QED BY <2>1 DEF WithIds
<1>2. Identified(C)
    <2>1. Ids \subseteq Nat
        BY Deliverable DEF Ids, IsObservation
    <2> QED BY <1>1, <2>1 DEF Identified, Candidates
<1>3. \A c \in Claims(C, asOf) : c.evidence \subseteq {o.id : o \in C}
    BY <1>2, ClaimsCount
<1>4. {o.id : o \in C} \subseteq Ids
    BY <1>1 DEF Candidates
<1>5. CountedIds(Revision(p, number, parent, asOf)) = UNION {c.evidence : c \in Claims(C, asOf)}
    BY DEF CountedIds, Revision
<1> HIDE DEF C
<1> QED BY <1>3, <1>4, <1>5

LEMMA RevisionForm ==
    ASSUME Budget, NEW p \in Periods, NEW number \in 1..(Policy.maxCorrections + 1), NEW parent,
           NEW asOf \in Instants
    PROVE  LET r == Revision(p, number, parent, asOf)
           IN  IsRevision(r) /\ r.period = p /\ r.number = number /\ r.parent = parent /\ r.asOf = asOf
<1> DEFINE r == Revision(p, number, parent, asOf)
<1>1. /\ DOMAIN r = {"period", "number", "parent", "claims", "conservation", "asOf"}
      /\ r.period = p /\ r.number = number /\ r.parent = parent /\ r.asOf = asOf
    BY DEF Revision
<1>2. CountedIds(r) \subseteq Ids
    BY RevisionIds
<1> HIDE DEF r
<1>3. IsRevision(r)
    BY <1>1, <1>2 DEF IsRevision
<1> QED BY <1>1, <1>3 DEF r

\* What a process knows of a period, by the number of its last revision.
LEMMA StandingIs ==
    ASSUME NEW p
    PROVE  Standing(p) = [current |-> Max(Numbers(revisions, p)),
                          state |-> ReplayedState(Max(Numbers(revisions, p)))]
BY DEF Standing, Numbers

\* An open period has no revision, and a closed one has.
LEMMA OpenHasNone ==
    ASSUME Lineage, NEW p \in DOMAIN periods
    PROVE  /\ \A r \in revisions : r.number \in Nat /\ r.number >= 1
           /\ periods[p].state = "open" <=> Of(revisions, p) = {}
<1> DEFINE n == Max(Numbers(revisions, p))
<1>1. \A r \in revisions : r.number \in Nat /\ r.number >= 1
    BY NumberIn DEF Lineage, History
<1>2. IsFiniteSet(revisions)
    BY DEF Lineage, History
<1>3. n \in Numbers(revisions, p) /\ n \in Nat /\ \A m \in Numbers(revisions, p) : m <= n
    BY <1>1, <1>2, LastNumber
<1>4. periods[p].state = ReplayedState(n)
    <2>1. periods[p] = Standing(p)
        BY DEF Lineage, Bookkeeping
    <2> QED BY <2>1, StandingIs
<1> HIDE DEF n
<1>5. periods[p].state = "open" <=> n = 0
    BY <1>4 DEF ReplayedState
<1>6. n = 0 <=> Of(revisions, p) = {}
    <2>1. \A r \in Of(revisions, p) : r.number \in Numbers(revisions, p) /\ r.number >= 1
        BY <1>1 DEF Numbers, Of
    <2>2. \A r \in Of(revisions, p) : r.number \in Nat /\ r.number <= n
        BY <1>1, <1>3, <2>1 DEF Of
    <2>3. Of(revisions, p) = {} => Numbers(revisions, p) = {0}
        BY DEF Numbers
    <2> QED BY <1>3, <2>1, <2>2, <2>3
<1> QED BY <1>1, <1>5, <1>6

\* Corrections that can be read are read as they were.
LEMMA CorrectionsRead ==
    ASSUME ReadBack, History(stored.revisions, stored.corrections)
    PROVE  {ReadCorrection(c) : c \in stored.corrections} = stored.corrections
<1> SUFFICES ASSUME NEW c \in stored.corrections PROVE ReadCorrection(c) = c
    OBVIOUS
<1>1. c = [period |-> c.period, from |-> c.to - 1, to |-> c.to,
           created |-> c.new.asOf, new |-> c.new, previous |-> c.previous]
    BY DEF History
<1>2. PICK r \in stored.revisions : r = c.new
    BY DEF History, Linear, Of, Digest
<1>3. Reread(r.asOf) = r.asOf
    <2>1. "asOf" \in DOMAIN r
        BY DEF History, IsRevision
    <2>2. ReadRevision(r) = r
        BY DEF ReadBack, RevisionReadable
    <2>3. ReadRevision(r).asOf = Reread(r.asOf)
        BY <2>1 DEF ReadRevision
    <2> QED BY <2>2, <2>3
<1>4. c.created = r.asOf
    BY <1>1, <1>2
<1>5. ReadCorrection(c) = [c EXCEPT !.created = c.created]
    BY <1>3, <1>4 DEF ReadCorrection
<1> QED BY <1>1, <1>5

LEMMA OpenLineage ==
    ASSUME Traced, ReadBack, Lineage, NEW m \in {"writer", "reader"}, Open(m)
    PROVE  Lineage'
<1>1. /\ stored'.revisions = stored.revisions /\ stored'.corrections = stored.corrections
      /\ stored'.periods = stored.periods /\ stored'.folded = stored.folded
      /\ stored'.snapshots
    BY DEF Open, Traced
<1>2. revisions' = stored.revisions
    BY DEF Open, ReplayedRevisions, ReadBack
<1>3. corrections' = stored.corrections
    BY CorrectionsRead DEF Open, ReplayedCorrections, Lineage
<1>4. DOMAIN periods' = stored.periods /\ periods' = [p \in DOMAIN periods' |-> Standing(p)']
    <2>1. \A q \in stored.periods : ReadPeriod(q) = q
        BY WholeBounds DEF Traced, PeriodsApart
    <2>2. DOMAIN ReplayedPeriods = stored.periods
        BY <2>1 DEF ReplayedPeriods
    <2>3. \A p : Of(revisions, p)' = Of(ReplayedRevisions, p)
        BY DEF Open, Of
    <2>4. ASSUME NEW p \in stored.periods PROVE ReplayedPeriods[p] = Standing(p)'
        <3>1. ReplayedPeriods[p] =
                  LET numbers == {0} \cup {r.number : r \in Of(ReplayedRevisions, p)}
                  IN  [current |-> Max(numbers), state |-> ReplayedState(Max(numbers))]
            BY <2>1, <2>4, Zenon DEF ReplayedPeriods
        <3> QED BY <2>3, <3>1, Zenon DEF Standing
    <2>5. periods' = ReplayedPeriods
        BY DEF Open
    <2>6. ReplayedPeriods = [p \in DOMAIN ReplayedPeriods |-> ReplayedPeriods[p]]
        BY DEF ReplayedPeriods
    <2> QED BY <2>2, <2>4, <2>5, <2>6
<1>5. History(stored.revisions, stored.corrections)' /\ History(revisions, corrections)'
    BY <1>1, <1>2, <1>3 DEF Lineage
<1>6. Bookkeeping'
    <2>1. \A r \in revisions' : r.period \in DOMAIN periods'
        BY <1>2, <1>4 DEF Traced, RevisionsTraced
    <2>2. /\ marking' = {} /\ folded' = stored.folded /\ required' = {} /\ mode' = m
        BY DEF Open, Lineage, Bookkeeping
    <2>3. stored.folded \subseteq stored.periods
        BY DEF Lineage, Bookkeeping
    <2> QED BY <1>1, <1>2, <1>3, <1>4, <2>1, <2>2, <2>3 DEF Bookkeeping
<1> QED BY <1>5, <1>6 DEF Lineage

LEMMA InitLineage == Init => Budget /\ Lineage
<1> SUFFICES ASSUME Init PROVE Budget /\ Lineage
    OBVIOUS
<1> USE DEF Init
<1>1. Budget
    BY FS_EmptySet, LedgerAssumption DEF Budget
<1>2. Bookkeeping
    BY DEF Bookkeeping
<1>3. History(stored.revisions, stored.corrections) /\ History(revisions, corrections)
    BY NoHistory
<1> QED BY <1>1, <1>2, <1>3 DEF Lineage

LEMMA StopLineage ==
    ASSUME Traced, Lineage, Stop
    PROVE  Lineage'
<1>1. History(stored.revisions, stored.corrections)' /\ History(revisions, corrections)'
    BY NoHistory DEF Stop, Lineage
<1>2. Bookkeeping'
    BY DEF Stop, Lineage, Bookkeeping
<1> QED BY <1>1, <1>2 DEF Lineage

\* What the process knows stays what its revisions say when neither changes.
LEMMA StandingKept ==
    ASSUME revisions' = revisions
    PROVE  \A p : Standing(p)' = Standing(p)
BY DEF Standing, Of

LEMMA OpenPeriodLineage ==
    ASSUME Traced, Lineage, NEW p \in Periods, OpenPeriod(p)
    PROVE  Lineage'
<1>1. /\ stored'.revisions = stored.revisions /\ stored'.corrections = stored.corrections
      /\ stored'.folded = stored.folded /\ stored'.snapshots = stored.snapshots
      /\ stored.periods \subseteq stored'.periods
    BY DEF OpenPeriod, Commit, Traced
<1>2. /\ revisions' = revisions /\ corrections' = corrections /\ folded' = folded
      /\ required' = required /\ marking' = marking /\ mode' = mode /\ mode # "down"
    BY DEF OpenPeriod, Ready
<1>3. p \notin DOMAIN periods
    BY WholeBounds, LedgerAssumption DEF OpenPeriod, Overlaps
<1>4. periods' = [q \in DOMAIN periods' |-> Standing(q)']
    <2>1. Of(revisions, p) = {}
        BY <1>3 DEF Lineage, Bookkeeping, Of
    <2>2. Numbers(revisions, p) = {0}
        BY <2>1 DEF Numbers
    <2>3. Max({0}) = 0
        BY MaxIs
    <2>4. Standing(p) = [current |-> 0, state |-> "open"]
        BY <2>2, <2>3, StandingIs DEF ReplayedState
    <2>5. \A q \in DOMAIN periods : periods[q] = Standing(q)
        BY DEF Lineage, Bookkeeping
    <2>6. periods' = [q \in DOMAIN periods \cup {p} |->
                         IF q = p THEN [current |-> 0, state |-> "open"] ELSE periods[q]]
        BY DEF OpenPeriod
    <2>7. \A q \in DOMAIN periods \cup {p} : periods'[q] = Standing(q)
        BY <1>3, <2>4, <2>5, <2>6
    <2> QED BY <1>2, <2>6, <2>7, StandingKept
<1>5. DOMAIN periods' = DOMAIN periods \cup {p}
    BY DEF OpenPeriod
<1>6. History(stored.revisions, stored.corrections)' /\ History(revisions, corrections)'
    BY <1>1, <1>2 DEF Lineage
<1>7. Bookkeeping'
    BY <1>1, <1>2, <1>4, <1>5 DEF Lineage, Bookkeeping
<1> QED BY <1>6, <1>7 DEF Lineage

\* Steps that leave the periods and their revisions alone.
LEMMA LineageKept ==
    ASSUME Traced, Lineage,
           stored'.revisions = stored.revisions, stored'.corrections = stored.corrections,
           stored'.folded \subseteq stored.folded \cup marking, stored'.snapshots = stored.snapshots,
           stored'.periods = stored.periods, periods' = periods, revisions' = revisions,
           corrections' = corrections, mode' = mode, folded \subseteq folded',
           marking' \subseteq folded', folded' \cup required' \subseteq DOMAIN periods,
           mode # "writer" => marking' = {}
    PROVE  Lineage'
<1>1. History(stored.revisions, stored.corrections)' /\ History(revisions, corrections)'
    BY DEF Lineage
<1>2. periods' = [q \in DOMAIN periods' |-> Standing(q)']
    BY StandingKept DEF Lineage, Bookkeeping
<1>3. \A r \in revisions' : r.period \in DOMAIN periods'
    BY DEF Lineage, Bookkeeping
<1>4. stored'.folded \subseteq stored'.periods
    <2>1. marking # {} => mode = "writer" /\ marking \subseteq DOMAIN periods
        BY DEF Lineage, Bookkeeping
    <2>2. mode = "writer" => DOMAIN periods = stored.periods
        BY DEF Traced, PeriodsApart
    <2> QED BY <2>1, <2>2 DEF Lineage, Bookkeeping
<1>5. mode' = "writer" => /\ revisions' = stored'.revisions /\ corrections' = stored'.corrections
                          /\ stored'.folded \subseteq folded'
    BY DEF Lineage, Bookkeeping
<1>6. /\ IF mode' = "down" THEN DOMAIN periods' = {} /\ corrections' = {} ELSE stored'.snapshots
      /\ stored'.snapshots \/ stored'.periods = {}
    BY DEF Lineage, Bookkeeping
<1>7. Bookkeeping'
    BY <1>2, <1>3, <1>4, <1>5, <1>6 DEF Bookkeeping
<1> QED BY <1>1, <1>7 DEF Lineage

LEMMA IngestLineage ==
    ASSUME Traced, Lineage, NEW B, Ingest(B) \/ IngestFails(B)
    PROVE  Lineage'
<1>1. /\ stored'.revisions = stored.revisions /\ stored'.corrections = stored.corrections
      /\ stored'.folded = stored.folded /\ stored'.snapshots = stored.snapshots
      /\ stored'.periods = stored.periods
    BY DEF Ingest, IngestFails, Commit, Traced
<1>2. /\ revisions' = revisions /\ corrections' = corrections /\ folded' = folded
      /\ marking' = marking /\ mode' = mode /\ periods' = periods
    BY DEF Ingest, IngestFails
<1>3. required' \subseteq DOMAIN periods
    BY DEF Ingest, IngestFails, FlagLate, TargetsOf, Lineage, Bookkeeping
<1>4. /\ marking' \subseteq folded' /\ folded' \subseteq DOMAIN periods
      /\ mode # "writer" => marking' = {}
    BY <1>2 DEF Lineage, Bookkeeping
<1> QED BY <1>1, <1>2, <1>3, <1>4, LineageKept

LEMMA CompactLineage ==
    ASSUME Traced, Lineage, CompactFold \/ CompactMark
    PROVE  Lineage'
<1>1. CASE CompactFold
    <2>1. /\ stored'.revisions = stored.revisions /\ stored'.corrections = stored.corrections
          /\ stored'.folded = stored.folded /\ stored'.snapshots = stored.snapshots
          /\ stored'.periods = stored.periods
        BY <1>1 DEF CompactFold, Traced
    <2>2. /\ revisions' = revisions /\ corrections' = corrections /\ folded' = folded \cup Foldable
          /\ marking' = Foldable /\ mode' = mode /\ periods' = periods /\ required' = required
          /\ mode = "writer"
        BY <1>1 DEF CompactFold
    <2>3. Foldable \subseteq DOMAIN periods /\ folded \cup required \subseteq DOMAIN periods
        BY DEF Foldable, Lineage, Bookkeeping
    <2> QED BY <2>1, <2>2, <2>3, LineageKept
<1>2. CASE CompactMark
    <2>1. /\ stored'.revisions = stored.revisions /\ stored'.corrections = stored.corrections
          /\ stored'.folded \subseteq stored.folded \cup marking /\ stored'.snapshots = stored.snapshots
          /\ stored'.periods = stored.periods
        BY <1>2 DEF CompactMark, Traced
    <2>2. /\ revisions' = revisions /\ corrections' = corrections /\ folded' = folded
          /\ marking' = {} /\ mode' = mode /\ periods' = periods /\ required' = required
        BY <1>2 DEF CompactMark
    <2>3. folded \cup required \subseteq DOMAIN periods
        BY DEF Lineage, Bookkeeping
    <2> QED BY <2>1, <2>2, <2>3, LineageKept
<1> QED BY <1>1, <1>2

\* A revision that continues the history is published.
LEMMA PublishLineage ==
    ASSUME Traced, Lineage, Ready, NEW p \in DOMAIN periods, NEW r, r.period = p, NEW state,
           Publish(p, r, state), state = ReplayedState(r.number),
           \A x \in Of(revisions, p) : x.number <= r.number,
           History(revisions', corrections'),
           /\ stored' = [snapshots |-> stored.snapshots, periods |-> stored.periods,
                         revisions |-> stored'.revisions, corrections |-> stored'.corrections,
                         evidence |-> stored.evidence, folded |-> stored.folded]
           /\ IF mode = "writer"
              THEN stored'.revisions = stored.revisions \cup {r} /\ stored'.corrections = corrections'
              ELSE stored' = stored
    PROVE  Lineage'
<1>1. /\ revisions' = revisions \cup {r} /\ DOMAIN periods' = DOMAIN periods
      /\ periods' = [periods EXCEPT ![p] = [current |-> r.number, state |-> state]]
      /\ required' \subseteq required /\ mode' = mode /\ marking' = marking /\ folded' = folded
      /\ mode # "down"
    BY DEF Publish, Ready
<1>2. /\ stored'.periods = stored.periods /\ stored'.folded = stored.folded
      /\ stored'.snapshots = stored.snapshots
    OBVIOUS
<1>3. mode = "writer" => stored'.revisions = revisions' /\ stored'.corrections = corrections'
    BY <1>1 DEF Lineage, Bookkeeping
<1>4. History(stored.revisions, stored.corrections)' /\ History(revisions, corrections)'
    <2>1. CASE mode = "writer"
        BY <1>3, <2>1
    <2>2. CASE mode # "writer"
        BY <2>2 DEF Lineage
    <2> QED BY <2>1, <2>2
<1>5. \A x \in revisions' : x.number \in Nat
    BY NumberIn DEF History
<1>6. Standing(p)' = [current |-> r.number, state |-> state]
    <2>1. Numbers(revisions', p) \subseteq Nat
        BY <1>5 DEF Numbers, Of
    <2>2. r.number \in Numbers(revisions', p)
        BY <1>1 DEF Numbers, Of
    <2>3. r.number \in Nat
        BY <1>1, <1>5
    <2>4. \A n \in Numbers(revisions', p) : n <= r.number
        BY <1>1, <2>3 DEF Numbers, Of
    <2>5. Max(Numbers(revisions', p)) = r.number
        BY <2>1, <2>2, <2>4, MaxIs
    <2>6. Standing(p)' = [current |-> Max(Numbers(revisions', p)),
                          state |-> ReplayedState(Max(Numbers(revisions', p)))]
        BY DEF Standing, Numbers, Of
    <2> QED BY <2>5, <2>6
<1>7. ASSUME NEW q \in DOMAIN periods, q # p PROVE Standing(q)' = Standing(q)
    <2>1. Of(revisions', q) = Of(revisions, q)
        BY <1>1, <1>7 DEF Of
    <2> QED BY <2>1 DEF Standing
<1>8. periods' = [q \in DOMAIN periods' |-> Standing(q)']
    <2>1. \A q \in DOMAIN periods : periods[q] = Standing(q)
        BY DEF Lineage, Bookkeeping
    <2>2. \A q \in DOMAIN periods : periods'[q] = Standing(q)'
        BY <1>1, <1>6, <1>7, <2>1
    <2> QED BY <1>1, <2>2
<1>9. \A x \in revisions' : x.period \in DOMAIN periods'
    BY <1>1 DEF Lineage, Bookkeeping
<1>10. Bookkeeping'
    BY <1>1, <1>2, <1>3, <1>8, <1>9 DEF Lineage, Bookkeeping
<1> QED BY <1>4, <1>10 DEF Lineage

LEMMA ClosePeriodLineage ==
    ASSUME Traced, Budget, Lineage, NEW p \in Periods, NEW t \in Instants, ClosePeriod(p, t)
    PROVE  Lineage'
<1> DEFINE r == Revision(p, 1, {}, t)
<1>1. /\ Ready /\ p \in DOMAIN periods /\ periods[p].state = "open" /\ Publish(p, r, "closed")
      /\ corrections' = corrections /\ Commit([stored EXCEPT !.revisions = @ \cup {r}])
    BY DEF ClosePeriod
<1>2. 1 \in 1..(Policy.maxCorrections + 1)
    BY LedgerAssumption
<1>3. IsRevision(r) /\ r.period = p /\ r.number = 1 /\ r.parent = {}
    BY <1>2, RevisionForm
<1> HIDE DEF r
<1>4. Of(revisions, p) = {}
    BY <1>1, OpenHasNone
<1>5. revisions' = revisions \cup {r}
    BY <1>1 DEF Publish
<1>6. History(revisions', corrections')
    BY <1>1, <1>3, <1>4, <1>5, FirstRevision DEF Lineage
<1>7. /\ stored' = [snapshots |-> stored.snapshots, periods |-> stored.periods,
                    revisions |-> stored'.revisions, corrections |-> stored'.corrections,
                    evidence |-> stored.evidence, folded |-> stored.folded]
      /\ IF mode = "writer"
         THEN stored'.revisions = stored.revisions \cup {r} /\ stored'.corrections = stored.corrections
         ELSE stored' = stored
    BY <1>1 DEF Commit, Traced
<1>8. mode = "writer" => stored'.corrections = corrections'
    BY <1>1, <1>7 DEF Lineage, Bookkeeping
<1>9. "closed" = ReplayedState(r.number)
    BY <1>3 DEF ReplayedState
<1> QED BY <1>1, <1>3, <1>4, <1>6, <1>7, <1>8, <1>9, PublishLineage

LEMMA CorrectPeriodLineage ==
    ASSUME Traced, Budget, Lineage, NEW p \in Periods, NEW t \in Instants, CorrectPeriod(p, t)
    PROVE  Lineage'
<1> DEFINE last == Latest(p)
           number == last.number + 1
           r == Revision(p, number, {Digest(last)}, t)
           c == Correction(p, r)
<1>1. /\ Ready /\ p \in DOMAIN periods /\ Of(revisions, p) # {}
      /\ Cardinality(Of(corrections, p)) < Policy.maxCorrections
      /\ Publish(p, r, "superseded") /\ corrections' = corrections \cup {c}
      /\ Commit([stored EXCEPT !.revisions = @ \cup {r}, !.corrections = @ \cup {c}])
    BY DEF CorrectPeriod
<1>2. last \in revisions /\ last.period = p /\ \A x \in Of(revisions, p) : x.number <= last.number
    <2>1. last \in revisions /\ last.period = p
        BY <1>1, LatestIn DEF Traced
    <2>2. /\ Max(Numbers(revisions, p)) \in Numbers(revisions, p)
          /\ \A m \in Numbers(revisions, p) : m <= Max(Numbers(revisions, p))
          /\ \A x \in revisions : x.number \in Nat /\ x.number >= 1
        BY OpenHasNone, LastNumber, <1>1 DEF Lineage, History
    <2>3. \E x \in Of(revisions, p) : \A y \in Of(revisions, p) : y.number <= x.number
        <3>1. PICK y \in Of(revisions, p) : TRUE
            BY <1>1
        <3>2. y \in revisions /\ y.number \in Numbers(revisions, p) /\ y.number >= 1
            BY <2>2 DEF Of, Numbers
        <3>3. Max(Numbers(revisions, p)) # 0
            BY <2>2, <3>2
        <3>4. PICK x \in Of(revisions, p) : x.number = Max(Numbers(revisions, p))
            BY <2>2, <3>3 DEF Numbers
        <3>5. \A z \in Of(revisions, p) : z.number <= x.number
            BY <2>2, <3>4 DEF Numbers
        <3> QED BY <3>5
    <2>4. \A y \in Of(revisions, p) : y.number <= Latest(p).number
        BY <2>3 DEF Latest
    <2> QED BY <2>1, <2>4
<1>3. last.number \in Nat /\ last.number >= 1 /\ number \in 1..(Policy.maxCorrections + 1) /\ number # 1
    <2>1. last.number \in Nat /\ last.number >= 1 /\ last.number <= Cardinality(Of(corrections, p)) + 1
        BY <1>2, NumberIn DEF Lineage, History
    <2>2. Cardinality(Of(corrections, p)) \in Nat
        <3>1. IsFiniteSet(Of(corrections, p))
            BY FS_Subset DEF Of, Lineage, History
        <3> QED BY <3>1, FS_CardinalityType
    <2> HIDE DEF last
    <2> QED BY <1>1, <2>1, <2>2, LedgerAssumption
<1>4. /\ IsRevision(r) /\ r.period = p /\ r.number = number /\ r.parent = {Digest(last)}
      /\ r.asOf = t
    <2> HIDE DEF last, number
    <2> QED BY <1>3, RevisionForm
<1>5. c = [period |-> r.period, from |-> r.number - 1, to |-> r.number, created |-> r.asOf,
           new |-> Digest(r),
           previous |-> {x.new : x \in {y \in Of(corrections, r.period) :
                                           \A z \in Of(corrections, r.period) : z.to <= y.to}}]
    <2> HIDE DEF r
    <2> QED BY <1>4 DEF Correction
<1> HIDE DEF last, r, c
<1>6. revisions' = revisions \cup {r}
    BY <1>1 DEF Publish
<1>7. History(revisions, corrections)
    BY DEF Lineage
<1>8. History(revisions', corrections')
    BY <1>1, <1>2, <1>4, <1>5, <1>6, <1>7, NextRevision
<1>9. /\ stored' = [snapshots |-> stored.snapshots, periods |-> stored.periods,
                    revisions |-> stored'.revisions, corrections |-> stored'.corrections,
                    evidence |-> stored.evidence, folded |-> stored.folded]
      /\ IF mode = "writer"
         THEN /\ stored'.revisions = stored.revisions \cup {r}
              /\ stored'.corrections = stored.corrections \cup {c}
         ELSE stored' = stored
    BY <1>1 DEF Commit, Traced
<1>10. mode = "writer" => stored'.corrections = corrections'
    BY <1>1, <1>9 DEF Lineage, Bookkeeping
<1>11. "superseded" = ReplayedState(r.number)
    BY <1>3, <1>4 DEF ReplayedState
<1>12. \A x \in Of(revisions, p) : x.number <= r.number
    <2>1. \A x \in Of(revisions, p) : x.number \in Nat
        BY NumberIn DEF Lineage, History, Of
    <2> QED BY <1>2, <1>3, <1>4, <2>1
<1> QED BY <1>1, <1>4, <1>8, <1>9, <1>10, <1>11, <1>12, PublishLineage

LEMMA LineageStep == Traced /\ Budget /\ ReadBack /\ Lineage /\ [Next]_vars => Lineage'
<1> SUFFICES ASSUME Traced, Budget, ReadBack, Lineage, [Next]_vars PROVE Lineage'
    OBVIOUS
<1>1. CASE \E m \in {"writer", "reader"} : Open(m)
    BY <1>1, OpenLineage
<1>2. CASE Stop
    BY <1>2, StopLineage
<1>3. CASE \E p \in Periods : OpenPeriod(p)
    BY <1>3, OpenPeriodLineage
<1>4. CASE \E B \in Batches : Ingest(B) \/ IngestFails(B)
    BY <1>4, IngestLineage
<1>5. CASE \E p \in Periods, t \in Instants : ClosePeriod(p, t)
    BY <1>5, ClosePeriodLineage
<1>6. CASE \E p \in Periods, t \in Instants : CorrectPeriod(p, t)
    BY <1>6, CorrectPeriodLineage
<1>7. CASE CompactFold \/ CompactMark
    BY <1>7, CompactLineage
<1>8. CASE UNCHANGED vars
    <2>1. folded \cup required \subseteq DOMAIN periods /\ marking \subseteq folded
          /\ (mode # "writer" => marking = {})
        BY DEF Lineage, Bookkeeping
    <2> QED BY <1>8, <2>1, LineageKept DEF vars, memory
<1> QED BY <1>1, <1>2, <1>3, <1>4, <1>5, <1>6, <1>7, <1>8 DEF Next

-------------------------------------------------------------------------------
(* Theorems *)

\* What is stored and what was handed out of it agree in every state of every ledger.
LEMMA TracedInvariant == Spec => []Traced
<1>1. Init => Traced
    BY InitTraced
<1>2. Traced /\ [Next]_vars => Traced'
    BY NextTraced
<1> QED BY <1>1, <1>2, PTL DEF Spec

\* The inductive invariant holds of every state of every ledger.
THEOREM InductiveInvariant == Spec => []Inductive
<1>1. Init => Inductive
    BY InitTraced, InitLineage DEF Inductive
<1>2. Inductive /\ [Next]_vars => Inductive'
    <2>1. ReadBack' /\ stored.revisions \subseteq stored'.revisions => ReadBack
        BY DEF ReadBack
    <2> QED BY <2>1, NextTraced, BudgetStep, LineageStep, RevisionsKept DEF Inductive
<1> QED BY <1>1, <1>2, PTL DEF Spec

\* ingest and replay: whatever is sent again, and however often the process restarts, what
\* has whole milliseconds is stored once.
THEOREM StoresOnce == Spec => []StoredOnce
<1>1. Traced => StoredOnce
    BY DEF Traced
<1> QED BY <1>1, TracedInvariant, PTL

\* compact_closed_periods: what was stored is retained, or counted by a revision.
THEOREM EvictsNothing == Spec => []NothingEvicted
<1>1. Traced => NothingEvicted
    BY DEF Traced
<1> QED BY <1>1, TracedInvariant, PTL

\* Two different elements make a finite set larger than one.
LEMMA TwoElements ==
    ASSUME NEW S, IsFiniteSet(S), NEW x \in S, NEW y \in S, x # y
    PROVE  Cardinality(S) > 1
<1>1. Cardinality(S) \in Nat
    BY FS_CardinalityType
<1>2. Cardinality(S) # 0
    BY FS_EmptySet
<1>3. Cardinality(S) # 1
    BY OnlyOne
<1> QED BY <1>1, <1>2, <1>3

\* close_period and correct_period: one identity is counted in two periods only if two
\* records were stored under it.
THEOREM CountsInOnePeriod == Spec => []CountedInOnePeriod
<1>1. ASSUME Traced PROVE CountedInOnePeriod
    <2> SUFFICES ASSUME NEW r \in stored.revisions, NEW q \in stored.revisions, r.period # q.period,
                        NEW id \in CountedIds(r) \cap CountedIds(q)
                 PROVE  Cardinality({o \in delivered : o.id = id}) > 1
        BY DEF CountedInOnePeriod
    <2> DEFINE S == {o \in delivered : o.id = id}
    <2>1. PICK d \in delivered : d.id = id /\ Within(ReadObservation(d), r.period)
        BY <1>1 DEF Traced, RevisionsTraced
    <2>2. PICK e \in delivered : e.id = id /\ Within(ReadObservation(e), q.period)
        BY <1>1 DEF Traced, RevisionsTraced
    <2>3. d \in Evidence /\ IsObservation(ReadObservation(d)) /\ ObservationReadable(d)
        BY <1>1, Deliverable DEF Traced, EvidenceTraced
    <2>4. ReadObservation(d).start < ReadObservation(d).end
        BY <2>3 DEF ObservationReadable, ValidShape
    <2>5. r.period \in stored.periods /\ q.period \in stored.periods
        BY <1>1 DEF Traced, RevisionsTraced
    <2>6. d # e
        BY <1>1, <2>1, <2>2, <2>3, <2>4, <2>5, OnePeriod DEF Traced, PeriodsApart
    <2>7. IsFiniteSet(S)
        <3>1. S \subseteq Evidence
            BY <1>1 DEF Traced, EvidenceTraced
        <3> QED BY <3>1, FS_Subset, LedgerAssumption
    <2>8. d \in S /\ e \in S
        BY <2>1, <2>2
    <2> HIDE DEF S
    <2>9. Cardinality(S) > 1
        BY <2>6, <2>7, <2>8, TwoElements
    <2> QED BY <2>9 DEF S
<1> QED BY <1>1, TracedInvariant, PTL

\* No operation, and no restart, takes a revision out of the store or changes it.
THEOREM KeepsRevisions == Spec => RevisionsImmutable
<1>1. Traced /\ [Next]_vars => [stored.revisions \subseteq stored.revisions']_stored
    BY RevisionsKept
<1> QED BY <1>1, TracedInvariant, PTL DEF Spec, RevisionsImmutable

\* Evidence that changes what a closed period derives lies in that period alone, so ingest
\* finds it late and flags the period.
LEMMA IngestFlags ==
    ASSUME Traced, NEW B \in SUBSET Evidence, Ingest(B), NEW p \in Foldable,
           Rederived(p, evidence') # Rederived(p, evidence)
    PROVE  p \in required'
<1>1. PICK x \in evidence' : x \notin evidence /\ Within(x, p)
    <2>1. evidence \subseteq evidence'
        BY Inserted DEF Ingest, Accepted, Addressed
    <2>2. Candidates(evidence', p) # Candidates(evidence, p)
        BY DEF Rederived
    <2> QED BY <2>1, <2>2 DEF Candidates, Within
<1>2. PICK a \in Accepted(B) : \A f \in Fields : f # "copy" => x[f] = a[f]
    BY <1>1, Inserted DEF Ingest, Accepted, Addressed
<1>3. Within(a, p)
    BY <1>1, <1>2 DEF Within, Fields
<1>4. a \in Addressed(B) /\ IsObservation(a) /\ a.start < a.end
    BY Deliverable DEF Accepted, Addressed, Acceptable, ValidShape
<1>5. p \in DOMAIN periods /\ periods[p].state # "open"
    BY DEF Foldable
<1>6. \A q \in TargetsOf(a) : q = p
    BY <1>3, <1>4, <1>5, OnePeriod DEF TargetsOf, Within, Traced, PeriodsApart
<1>7. p \in TargetsOf(a) /\ Late(a)
    BY <1>3, <1>5, <1>6 DEF TargetsOf, Within, Late
<1> QED BY <1>4, <1>7 DEF Ingest, FlagLate

\* No step after which a closed period derives other claims leaves it unflagged.
THEOREM FlagsLate == Spec => LateIsFlagged
<1> DEFINE Flagged == mode # "down" /\ mode' = mode =>
                          \A p \in Foldable \ folded' :
                             revisions' = revisions /\ Rederived(p, evidence') # Rederived(p, evidence)
                                => p \in required'
<1>1. Traced /\ [Next]_vars => [Flagged]_vars
    <2> SUFFICES ASSUME Traced, Next, mode # "down", mode' = mode, NEW p \in Foldable \ folded',
                        Rederived(p, evidence') # Rederived(p, evidence)
                 PROVE  p \in required'
        OBVIOUS
    <2>1. evidence' # evidence
        OBVIOUS
    <2>2. CASE \E m \in {"writer", "reader"} : Open(m)
        BY <2>2 DEF Open
    <2>3. CASE Stop
        BY <2>3 DEF Stop
    <2>4. CASE \E q \in Periods : OpenPeriod(q)
        BY <2>1, <2>4 DEF OpenPeriod
    <2>5. CASE \E B \in Batches : Ingest(B)
        <3>1. PICK B \in Batches : Ingest(B)
            BY <2>5
        <3>2. B \in SUBSET Evidence
            BY DEF Batches
        <3> QED BY <3>1, <3>2, IngestFlags
    <2>6. CASE \E B \in Batches : IngestFails(B)
        BY <2>1, <2>6 DEF IngestFails
    <2>7. CASE \E q \in Periods, t \in Instants : ClosePeriod(q, t) \/ CorrectPeriod(q, t)
        BY <2>1, <2>7 DEF ClosePeriod, CorrectPeriod, Publish
    <2>8. CASE CompactFold
        BY <2>8 DEF CompactFold
    <2>9. CASE CompactMark
        BY <2>1, <2>9 DEF CompactMark
    <2> QED BY <2>2, <2>3, <2>4, <2>5, <2>6, <2>7, <2>8, <2>9 DEF Next
<1> QED BY <1>1, TracedInvariant, PTL DEF Spec, LateIsFlagged

\* Types, and the limits of the policy: the memory and the store keep to the same ones.
THEOREM TypeCorrect == Spec => [](ReadBack => TypeOK)
<1>1. ASSUME Inductive, ReadBack PROVE TypeOK
    <2>1. Traced /\ Budget /\ Bookkeeping
        BY <1>1 DEF Inductive, Lineage
    <2>2. DOMAIN stored = {"snapshots", "periods", "revisions", "corrections", "evidence", "folded"}
        BY <2>1 DEF Traced
    <2>3. \A p \in DOMAIN periods : periods[p].state \in {"open", "closed", "superseded"}
        <3> SUFFICES ASSUME NEW p \in DOMAIN periods
                     PROVE  periods[p].state \in {"open", "closed", "superseded"}
            OBVIOUS
        <3>1. periods[p] = Standing(p)
            BY <2>1 DEF Bookkeeping
        <3> QED BY <3>1, StandingIs DEF ReplayedState
    <2>4. \A r \in stored.revisions \cup revisions : IsRevision(r)
        BY <1>1 DEF Inductive, Lineage, History
    <2>5. delivered \subseteq Evidence /\ stored.periods \subseteq Periods /\ DOMAIN periods \subseteq Periods
        BY <2>1 DEF Traced, EvidenceTraced, PeriodsApart
    <2>6. mode \in {"down", "writer", "reader"}
        BY <2>1 DEF Traced
    <2> QED BY <2>1, <2>2, <2>3, <2>4, <2>5, <2>6 DEF TypeOK, Budget, Bookkeeping
<1> QED BY <1>1, InductiveInvariant, PTL

\* replay: a restart gives back what the writer works with, as long as what it wrote can be
\* read.
THEOREM RestartKeeps == Spec => [](ReadBack => RestartKeepsMemory)
<1>1. ASSUME Inductive, ReadBack PROVE RestartKeepsMemory
    <2> SUFFICES ASSUME mode = "writer"
                 PROVE  /\ periods = ReplayedPeriods
                        /\ revisions = ReplayedRevisions /\ corrections = ReplayedCorrections
                        /\ AnyCopy(evidence) = AnyCopy(stored.evidence)
                        /\ stored.folded \subseteq folded
        BY DEF RestartKeepsMemory
    <2>1. /\ revisions = stored.revisions /\ corrections = stored.corrections
          /\ stored.folded \subseteq folded
        BY <1>1 DEF Inductive, Lineage, Bookkeeping
    <2>2. ReplayedRevisions = stored.revisions
        BY <1>1 DEF ReplayedRevisions, ReadBack
    <2>3. ReplayedCorrections = stored.corrections
        BY <1>1, CorrectionsRead DEF ReplayedCorrections, Inductive, Lineage
    <2>4. AnyCopy(evidence) = AnyCopy(stored.evidence)
        BY <1>1 DEF Inductive, Traced, EvidenceTraced
    <2>5. periods = ReplayedPeriods
        <3>1. \A q \in stored.periods : ReadPeriod(q) = q
            BY <1>1, WholeBounds DEF Inductive, Traced, PeriodsApart
        <3>2. DOMAIN ReplayedPeriods = stored.periods
            BY <3>1 DEF ReplayedPeriods
        <3>3. ASSUME NEW p \in stored.periods PROVE ReplayedPeriods[p] = Standing(p)
            <4>1. ReplayedPeriods[p] =
                      LET numbers == {0} \cup {r.number : r \in Of(ReplayedRevisions, p)}
                      IN  [current |-> Max(numbers), state |-> ReplayedState(Max(numbers))]
                BY <3>1, <3>3, Zenon DEF ReplayedPeriods
            <4>2. ReplayedRevisions = revisions
                BY <2>1, <2>2
            <4> QED BY <4>1, <4>2, Zenon DEF Standing
        <3>4. ReplayedPeriods = [p \in DOMAIN ReplayedPeriods |-> ReplayedPeriods[p]]
            BY DEF ReplayedPeriods
        <3>5. periods = [p \in DOMAIN periods |-> Standing(p)] /\ DOMAIN periods = stored.periods
            BY <1>1 DEF Inductive, Lineage, Bookkeeping, Traced, PeriodsApart
        <3> QED BY <3>2, <3>3, <3>4, <3>5
    <2> QED BY <2>1, <2>2, <2>3, <2>4, <2>5
<1> QED BY <1>1, InductiveInvariant, PTL

\* verify_integrity finds nothing, as long as what was written can be read.
THEOREM KeepsIntegrity == Spec => [](ReadBack => IntegrityHolds)
<1>1. ASSUME Inductive, ReadBack PROVE IntegrityHolds
    BY <1>1 DEF Inductive, Lineage, History, IntegrityHolds
<1> QED BY <1>1, InductiveInvariant, PTL

-------------------------------------------------------------------------------
(* When everything that is written can be read *)

WholeInstants == \A t \in Instants : Reread(t) = t
NoTotals      == \A o \in Evidence : o.role # "total"

\* Without independent totals no balance has a difference.
LEMMA NoDifference ==
    ASSUME NEW C, \A o \in C : o.role # "total", NEW asOf
    PROVE  \A b \in Balances(C, asOf) : ReadDomain(b) = b
<1>1. Totals(C, asOf) = {}
    <2>1. \A o \in Admitted(C, asOf) : o.role # "total"
        BY DEF Admitted
    <2>2. TotalGroups(C, asOf) = {}
        BY <2>1 DEF TotalGroups
    <2> QED BY <2>2 DEF Totals
<1>2. \A c \in Conservation(C, asOf) : c.verifiable = FALSE
    <2> DEFINE counted == Contributions(C, asOf)
               totals  == Totals(C, asOf)
               In(S, d) == {o \in S : Domain(o) = d}
               balance(d) == [domain |-> d, attributed |-> SumOf(In(counted, d)),
                              observed |-> SumOf(In(totals, d)), verifiable |-> In(totals, d) # {}]
               domains == {Domain(o) : o \in counted \cup totals} \cup UnknownDomains(C, asOf)
    <2>1. Conservation(C, asOf) = {balance(d) : d \in domains}
        BY Zenon DEF Conservation
    <2>2. \A d : balance(d).verifiable = (In(totals, d) # {})
        OBVIOUS
    <2>3. \A d : In(totals, d) = {}
        BY <1>1
    <2> HIDE DEF balance, domains, In
    <2> QED BY <2>1, <2>2, <2>3
<1>3. \A b \in Balances(C, asOf) : \E d, s : b = [domain |-> d, status |-> s, delta |-> 0]
    BY <1>2 DEF Balances, Delta
<1>4. ReadDelta(WrittenDelta(0)) = 0
    <2>1. Word \in Nat /\ Word > 0 /\ Half > 0
        BY RecordsAssumption DEF Word
    <2>2. 0 % Word = 0
        BY <2>1
    <2>3. WrittenDelta(0).bits = 0 /\ ~WrittenDelta(0).negative
        <3>1. WrittenDelta(0).bits = 0 % Word /\ (WrittenDelta(0).negative <=> 0 < 0)
            BY Zenon DEF WrittenDelta
        <3>2. ~(0 < 0)
            OBVIOUS
        <3> QED BY <2>2, <3>1, <3>2
    <2> QED BY <2>1, <2>3 DEF ReadDelta, Signed
<1> QED BY <1>3, <1>4 DEF ReadDomain

\* Revisions of instants that are whole milliseconds, of evidence without totals, can be
\* read: the three theorems above hold of those ledgers without a condition.
THEOREM ReadsBack ==
    ASSUME WholeInstants, NoTotals
    PROVE  Spec => []ReadBack
<1>1. Init => ReadBack
    BY DEF Init, ReadBack
<1>2. ASSUME Budget, NEW p, NEW number, NEW parent, NEW t \in Instants
      PROVE  RevisionReadable(Revision(p, number, parent, t))
    <2> DEFINE C == Candidates(evidence, p)
               r == Revision(p, number, parent, t)
    <2>1. \A o \in evidence : o.role # "total"
        <3>1. \A o \in Held : IsObservation(o) /\ o.role # "total"
            <4> SUFFICES ASSUME NEW o \in Held PROVE IsObservation(o) /\ o.role # "total"
                OBVIOUS
            <4>1. PICK a \in Evidence, k \in 1..Policy.maxRetained : o = [a EXCEPT !.copy = k]
                BY DEF Held
            <4>2. IsObservation(a) /\ a.role # "total"
                BY Deliverable DEF NoTotals
            <4> QED BY <4>1, <4>2, FieldsOfCopy DEF Fields
        <3>2. \A o \in Held : ReadObservation(o).role # "total"
            BY <3>1, FieldsOfRead DEF Fields, Dated
        <3> QED BY <1>2, <3>1, <3>2 DEF Budget
    <2>2. \A o \in C : o.role # "total"
        BY <2>1 DEF Candidates
    <2>3. \A b \in Balances(C, t) : ReadDomain(b) = b
        BY <2>2, NoDifference
    <2>4. r.asOf = t /\ r.conservation = Balances(C, t)
        BY DEF Revision
    <2>5. Reread(t) = t
        BY DEF WholeInstants
    <2>6. {ReadDomain(b) : b \in Balances(C, t)} = Balances(C, t)
        BY <2>3
    <2>7. r = [period |-> r.period, number |-> r.number, parent |-> r.parent, claims |-> r.claims,
               conservation |-> r.conservation, asOf |-> r.asOf]
        BY DEF Revision
    <2> HIDE DEF r, C
    <2>8. ReadRevision(r) = [r EXCEPT !.asOf = r.asOf, !.conservation = r.conservation]
        BY <2>4, <2>5, <2>6, <2>7 DEF ReadRevision
    <2>9. ReadRevision(r) = r
        BY <2>7, <2>8
    <2> QED BY <2>9 DEF RevisionReadable, r
<1>3. Inductive /\ ReadBack /\ [Next]_vars => ReadBack'
    <2> SUFFICES ASSUME Inductive, ReadBack, [Next]_vars PROVE ReadBack'
        OBVIOUS
    <2> USE DEF Inductive
    <2>1. CASE \E m \in {"writer", "reader"} : Open(m)
        BY <2>1 DEF Open, Traced, ReadBack
    <2>2. CASE Stop
        BY <2>2 DEF Stop, ReadBack
    <2>3. CASE \E p \in Periods : OpenPeriod(p)
        BY <2>3 DEF OpenPeriod, Commit, Traced, ReadBack
    <2>4. CASE \E B \in Batches : Ingest(B) \/ IngestFails(B)
        BY <2>4 DEF Ingest, IngestFails, Commit, Traced, ReadBack
    <2>5. CASE \E p \in Periods, t \in Instants : ClosePeriod(p, t)
        <3>1. PICK p \in Periods, t \in Instants : ClosePeriod(p, t)
            BY <2>5
        <3>2. stored'.revisions \subseteq stored.revisions \cup {Revision(p, 1, {}, t)}
            BY <3>1 DEF ClosePeriod, Commit, Traced
        <3> QED BY <1>2, <3>2 DEF ReadBack
    <2>6. CASE \E p \in Periods, t \in Instants : CorrectPeriod(p, t)
        <3>1. PICK p \in Periods, t \in Instants : CorrectPeriod(p, t)
            BY <2>6
        <3>2. stored'.revisions \subseteq stored.revisions
                  \cup {Revision(p, Latest(p).number + 1, {Digest(Latest(p))}, t)}
            BY <3>1 DEF CorrectPeriod, Commit, Traced
        <3> QED BY <1>2, <3>2 DEF ReadBack
    <2>7. CASE CompactFold
        BY <2>7 DEF CompactFold, Traced, ReadBack
    <2>8. CASE CompactMark
        BY <2>8 DEF CompactMark, Traced, ReadBack
    <2>9. CASE UNCHANGED vars
        BY <2>9 DEF vars, ReadBack
    <2> QED BY <2>1, <2>2, <2>3, <2>4, <2>5, <2>6, <2>7, <2>8, <2>9 DEF Next
<1> QED BY <1>1, <1>3, InductiveInvariant, PTL DEF Spec
===============================================================================
