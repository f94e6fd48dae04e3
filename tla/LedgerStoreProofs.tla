-------------------------- MODULE LedgerStoreProofs --------------------------
(* Theorems about LedgerStore, for every value of its constants. *)
EXTENDS LedgerStore, SequenceTheorems, FiniteSetTheorems, TLAPS

USE StoreAssumption

-------------------------------------------------------------------------------
(* The operators on files and segment lists keep their types *)

\* The empty list is a segment list.
LEMMA NoSegmentsType == IsSegmentList(NoSegments) /\ IsDirectory(NoSegments)
BY DEF IsSegmentList, IsDirectory, NoSegments

\* Removing files from a directory leaves a directory.
LEMMA WithoutType == ASSUME NEW f, NEW ids, IsDirectory(f) PROVE IsDirectory(Without(f, ids))
BY DEF IsDirectory, Without, Restrict

\* Adding a file or an entry keeps the type, and the new one is there.
LEMMA PutType ==
    ASSUME NEW f, NEW id \in Nat \ {0}
    PROVE  /\ IsDirectory(f) => IsDirectory(Put(f, id, EmptyFile))
           /\ IsSegmentList(f) => IsSegmentList(Put(f, id, EmptyInfo))
           /\ \A x : id \in DOMAIN Put(f, id, x)
BY DEF IsDirectory, IsSegmentList, Put, EmptyFile, EmptyInfo, SegmentFile, SegmentInfo

\* What a scan of any set of files returns is a segment list.
LEMMA ScanType ==
    ASSUME NEW ids \in SUBSET (Nat \ {0}), IsDirectory(disk)
    PROVE  IsSegmentList(Scan(ids)) /\ DOMAIN Scan(ids) = ids
<1>1. DOMAIN Scan(ids) = ids
    BY DEF Scan
<1>2. ASSUME NEW id \in ids PROVE Scan(ids)[id] \in SegmentInfo
    BY DEF Scan, Found, SegmentInfo, SegmentFile, IsDirectory
<1> QED BY <1>1, <1>2 DEF IsSegmentList, Scan

\* The number of frames in a file is a natural number.
LEMMA FramesInType == ASSUME IsDirectory(disk), NEW id PROVE FramesIn(id) \in Nat
BY DEF FramesIn, IsDirectory, SegmentFile

\* Sealing the current segment, on disk and in memory, keeps the types.
LEMMA SealedType ==
    ASSUME IsDirectory(disk), IsSegmentList(segs), cur \in DOMAIN segs
    PROVE  /\ IsDirectory(DiskSealed) /\ DOMAIN DiskSealed = DOMAIN disk
           /\ IsSegmentList(SegsSealed) /\ DOMAIN SegsSealed = DOMAIN segs
<1>1. ASSUME NEW f \in SegmentFile PROVE SealedFile(f) \in SegmentFile
    BY DEF SealedFile, SegmentFile
<1>2. IsDirectory(DiskSealed) /\ DOMAIN DiskSealed = DOMAIN disk
    BY <1>1 DEF IsDirectory, DiskSealed, OnCurrent
<1>3. [recs |-> segs[cur].recs, sealed |-> TRUE] \in SegmentInfo
    BY DEF IsSegmentList, SegmentInfo
<1>4. IsSegmentList(SegsSealed) /\ DOMAIN SegsSealed = DOMAIN segs
    BY <1>3 DEF IsSegmentList, SegsSealed, Put
<1> QED BY <1>2, <1>4

\* The first id after loading is a positive number.
LEMMA NextIdsType ==
    ASSUME NEW ids \in SUBSET Nat, NEW m \in NextIds(ids)
    PROVE  m \in Nat \ {0} /\ \A id \in ids : id < m
BY DEF NextIds
-------------------------------------------------------------------------------
(* Type correctness *)

\* Every variable has its type initially.
LEMMA InitTypeOK == Init => TypeOK
<1> SUFFICES ASSUME Init PROVE TypeOK
    OBVIOUS
<1>1. rpc \in [Readers -> {"closed", "sweep", "open"}] /\ rdirty \in [Readers -> BOOLEAN]
    BY DEF Init
<1>2. DOMAIN rsegs = Readers /\ \A r \in Readers : IsSegmentList(rsegs[r])
    BY NoSegmentsType DEF Init
<1>3. IsDirectory(disk) /\ IsSegmentList(manifest) /\ IsSegmentList(segs)
    BY NoSegmentsType DEF Init
<1>4. present \in BOOLEAN /\ dirty \in BOOLEAN
    BY Zenon DEF Init
<1>5. /\ op = "append" => next \in DOMAIN Batch
      /\ cur \in {0} \cup DOMAIN segs
      /\ todo \subseteq Frame /\ old \subseteq Nat \ {0}
      /\ acked \subseteq DOMAIN Batch /\ doomed \subseteq Records /\ dropped \subseteq Records
    BY DEF Init
<1> QED BY <1>1, <1>2, <1>3, <1>4, <1>5 DEF Init, TypeOK

\* What an append has to write are frames.
LEMMA BatchFramesType == ASSUME NEW n \in DOMAIN Batch PROVE BatchFrames(n) \subseteq Frame
BY DEF BatchFrames, Frame, Records

\* What a compaction reads back are frames of the records of the segments on disk.
LEMMA FramesOnDiskType ==
    ASSUME TypeOK, DOMAIN segs \subseteq DOMAIN disk,
           NEW unflushed \in 0..FramesIn(cur)
    PROVE  FramesOnDisk(unflushed) \subseteq Frame
<1> SUFFICES ASSUME NEW id \in DOMAIN segs,
                    NEW i \in 1..(Len(disk[id].recs) - IF id = cur THEN unflushed ELSE 0)
             PROVE  [seg |-> id, pos |-> i, rec |-> disk[id].recs[i]] \in Frame
    BY DEF FramesOnDisk
<1>1. disk[id].recs \in Seq(Records) /\ id \in Nat
    BY DEF TypeOK, IsDirectory, IsSegmentList, SegmentFile
<1>2. unflushed \in Nat
    BY FramesInType DEF TypeOK
<1>3. i \in Nat \ {0} /\ i \in 1..Len(disk[id].recs)
    BY <1>1, <1>2, SMT
<1> QED BY <1>1, <1>3 DEF Frame

\* Writing one record to the current segment keeps the types.
LEMMA WriteType ==
    ASSUME IsDirectory(disk), IsSegmentList(segs), cur \in DOMAIN segs, NEW rec \in Records
    PROVE  /\ IsDirectory(OnCurrent(LAMBDA f : WithFrame(f, rec)))
           /\ IsSegmentList(Put(segs, cur, [recs |-> Append(segs[cur].recs, rec), sealed |-> FALSE]))
<1>1. ASSUME NEW f \in SegmentFile PROVE WithFrame(f, rec) \in SegmentFile
    BY DEF WithFrame, SegmentFile
<1>2. IsDirectory(OnCurrent(LAMBDA f : WithFrame(f, rec)))
    BY <1>1 DEF IsDirectory, OnCurrent
<1>3. [recs |-> Append(segs[cur].recs, rec), sealed |-> FALSE] \in SegmentInfo
    BY DEF IsSegmentList, SegmentInfo
<1> QED BY <1>2, <1>3 DEF IsSegmentList, Put

\* So does tearing its last frame.
LEMMA TornType == ASSUME IsDirectory(disk) PROVE IsDirectory(OnCurrent(Torn))
<1>1. ASSUME NEW f \in SegmentFile PROVE Torn(f) \in SegmentFile
    BY DEF Torn, SegmentFile
<1> QED BY <1>1 DEF IsDirectory, OnCurrent

\* And cutting it short, whether the process dies or the last flush fails.
LEMMA ShortenedType ==
    ASSUME NEW f \in SegmentFile, NEW kept \in 0..Len(f.recs)
    PROVE  SubSeq(f.recs, 1, kept) \in Seq(Records) /\ Len(SubSeq(f.recs, 1, kept)) = kept
<1>1. f.recs \in Seq(Records)
    BY DEF SegmentFile
<1> QED BY <1>1, SubSeqProperties

LEMMA CrashType ==
    ASSUME IsDirectory(disk), NEW kept \in 0..FramesIn(cur)
    PROVE  IsDirectory(OnCurrent(LAMBDA f : [recs |-> SubSeq(f.recs, 1, kept), form |-> f.form]))
<1>1. ASSUME NEW f \in SegmentFile, kept \in 0..Len(f.recs)
      PROVE  [recs |-> SubSeq(f.recs, 1, kept), form |-> f.form] \in SegmentFile
    BY <1>1, ShortenedType DEF SegmentFile
<1> QED BY <1>1 DEF IsDirectory, OnCurrent, FramesIn

LEMMA CutType ==
    ASSUME IsDirectory(disk), NEW kept \in 0..FramesIn(cur)
    PROVE  /\ IsDirectory(DiskCut(kept)) /\ DOMAIN DiskCut(kept) = DOMAIN disk
           /\ \A id \in DOMAIN disk : id # cur => DiskCut(kept)[id] = disk[id]
           /\ cur \in DOMAIN disk =>
                 DiskCut(kept)[cur] = [recs |-> SubSeq(disk[cur].recs, 1, kept), form |-> "cut"]
<1>1. ASSUME NEW f \in SegmentFile, kept \in 0..Len(f.recs)
      PROVE  [recs |-> SubSeq(f.recs, 1, kept), form |-> "cut"] \in SegmentFile
    BY <1>1, ShortenedType DEF SegmentFile
<1>2. IsDirectory(DiskCut(kept))
    BY <1>1 DEF IsDirectory, OnCurrent, FramesIn, DiskCut
<1> QED BY <1>2 DEF DiskCut, OnCurrent

\* Whatever becomes of the current segment when it is sealed, the other files stay.
LEMMA SealingType ==
    ASSUME IsDirectory(disk), IsSegmentList(segs), cur \in DOMAIN segs, NEW s \in Sealings
    PROVE  /\ IsDirectory(s.disk) /\ DOMAIN s.disk = DOMAIN disk
           /\ \A id \in DOMAIN disk : id # cur => s.disk[id] = disk[id]
           /\ s.cut \subseteq Records /\ (s.cut # {} => IoErrors)
<1>1. CASE s = [disk |-> DiskSealed, cut |-> {}]
    <2>1. s.disk = DiskSealed /\ s.cut = {}
        BY <1>1
    <2> QED BY <2>1, SealedType DEF DiskSealed, OnCurrent
<1>2. CASE \E kept \in IF IoErrors THEN 0..FramesIn(cur) ELSE {} :
              s = [disk |-> DiskCut(kept), cut |-> CutOff(kept)]
    <2>1. PICK kept \in 0..FramesIn(cur) :
             IoErrors /\ s = [disk |-> DiskCut(kept), cut |-> CutOff(kept)]
        BY <1>2
    <2>2. s.disk = DiskCut(kept) /\ s.cut = CutOff(kept) /\ IoErrors
        BY <2>1
    <2>3. segs[cur].recs \in Seq(Records)
        BY DEF IsSegmentList, SegmentInfo
    <2>4. CutOff(kept) \subseteq Records
        BY <2>3 DEF CutOff, Range
    <2> QED BY <2>2, <2>4, CutType
<1> QED BY <1>1, <1>2 DEF Sealings

\* A publication, also one whose flush failed, leaves a manifest of the right type.
PublishedTypes ==
    IsSegmentList(manifest') /\ present' \in BOOLEAN /\ trust' \in {"sound", "degraded", "lost"}

LEMMA PublishType ==
    ASSUME TypeOK
    PROVE  /\ LoseManifest => PublishedTypes
           /\ \A list : IsSegmentList(list) /\ Publish(list) => PublishedTypes
<1>1. LoseManifest => PublishedTypes
    BY NoSegmentsType, Zenon DEF LoseManifest, PublishedTypes
<1>2. ASSUME NEW list, IsSegmentList(list), Publish(list), ~LoseManifest PROVE PublishedTypes
    <2>1. manifest' = list /\ present' = TRUE /\ Exposed
        BY <1>2 DEF Publish
    <2>2. trust' \in {"sound", "degraded", "lost"}
        BY <2>1 DEF Exposed, TypeOK
    <2> QED BY <1>2, <2>1, <2>2, Zenon DEF PublishedTypes
<1> QED BY <1>1, <1>2

\* Every step keeps every type.
LEMMA StepTypeOK == TypeOK /\ [Next]_vars => TypeOK'
<1> SUFFICES ASSUME TypeOK, [Next]_vars PROVE TypeOK'
    OBVIOUS
<1> USE DEF TypeOK
<1>nil. IsSegmentList(NoSegments) /\ IsDirectory(disk) /\ IsSegmentList(segs)
    BY NoSegmentsType
<1>1. CASE Open
    <2>1. IsSegmentList(LoadedSegments)
        BY ScanType DEF LoadedSegments, IsDirectory, IsSegmentList
    <2>2. nextId' \in Nat \ {0}
        BY <1>1, <2>1, NextIdsType DEF Open, IsSegmentList
    <2>3. dirty' \in BOOLEAN /\ present' \in BOOLEAN
        BY <1>1, Zenon DEF Open
    <2> QED BY <1>1, <2>1, <2>2, <2>3 DEF Open, readers, history
<1>2. ASSUME NEW id \in DOMAIN disk, SweepOrphan(id) PROVE TypeOK'
    BY <1>2, WithoutType DEF SweepOrphan, memory, readers, history
<1>3. CASE OpenDone
    <2>1. PublishedTypes
        <3>1. CASE dirty
            BY <1>3, <1>nil, <3>1, PublishType DEF OpenDone
        <3>2. CASE ~dirty
            <4>1. UNCHANGED <<manifest, present, trust>>
                BY <1>3, <3>2 DEF OpenDone
            <4> QED BY <4>1, Zenon DEF PublishedTypes
        <3> QED BY <3>1, <3>2
    <2>2. dirty' \in BOOLEAN
        BY <1>3, Zenon DEF OpenDone
    <2> QED BY <1>3, <2>1, <2>2 DEF OpenDone, readers, PublishedTypes
<1>4. CASE AppendBegin
    BY <1>4, PutType, BatchFramesType DEF AppendBegin, OpenSegment, readers, history
<1>5. CASE AppendRefused
    BY <1>5 DEF AppendRefused, memory, readers
<1>6. CASE CompactBegin
    <2> PICK unflushed \in 0..FramesIn(cur) :
            \E reject \in SUBSET {e.rec : e \in FramesOnDisk(unflushed)} :
                /\ todo' = {e \in FramesOnDisk(unflushed) : e.rec \notin reject}
                /\ doomed' = reject
        BY <1>6 DEF CompactBegin
    <2>1. FramesOnDisk(unflushed) \subseteq Frame
        BY <1>6, FramesOnDiskType DEF CompactBegin
    <2>2. todo' \subseteq Frame /\ doomed' \subseteq Records
        BY <2>1 DEF Frame
    <2>3. IsDirectory(disk') /\ IsSegmentList(segs') /\ cur' \in DOMAIN segs' /\ cur' # 0
        BY <1>6, <1>nil, PutType DEF CompactBegin, StartCompacted, OpenSegment
    <2>4. nextId' \in Nat \ {0} /\ old' \subseteq Nat \ {0}
        BY <1>6 DEF CompactBegin, StartCompacted, OpenSegment, IsSegmentList
    <2> QED BY <1>6, <2>2, <2>3, <2>4 DEF CompactBegin, readers
<1>7. CASE CompactOpenFails
    BY <1>7, <1>nil DEF CompactOpenFails, Fail, readers
<1>8. CASE WriteFrame
    <2> PICK e \in todo :
            /\ disk' = OnCurrent(LAMBDA f : WithFrame(f, e.rec))
            /\ segs' = Put(segs, cur, [recs |-> Append(segs[cur].recs, e.rec), sealed |-> FALSE])
            /\ todo' = todo \ {e}
        BY <1>8 DEF WriteFrame
    <2>1. e.rec \in Records /\ cur \in DOMAIN segs
        BY <1>8 DEF WriteFrame, Frame
    <2>2. IsDirectory(disk') /\ IsSegmentList(segs')
        BY <2>1, WriteType
    <2>3. cur \in DOMAIN segs' /\ todo' \subseteq Frame
        BY <2>1 DEF Put
    <2> QED BY <1>8, <2>2, <2>3 DEF WriteFrame, readers, history
<1>9. CASE WriteFails
    <2>1. IsDirectory(disk')
        BY <1>9, TornType DEF WriteFails
    <2>2. next' \in Nat \ {0} /\ trust' \in {"sound", "degraded", "lost"}
        BY <1>9 DEF WriteFails, Abandon, Fail
    <2> QED BY <1>9, <2>1, <2>2 DEF WriteFails, Abandon, readers
<1>10. CASE Rotate
    <2> PICK s \in Sealings : OpenSegment(s.disk, SegsSealed) /\ cut' = cut \cup s.cut
        BY <1>10 DEF Rotate
    <2>1. /\ IsDirectory(s.disk) /\ IsSegmentList(SegsSealed)
          /\ s.cut \subseteq Records /\ (s.cut # {} => IoErrors)
        BY <1>10, SealedType, SealingType DEF Rotate
    <2>2. IsDirectory(disk') /\ IsSegmentList(segs') /\ cur' \in DOMAIN segs' /\ cur' # 0
          /\ nextId' \in Nat \ {0}
        BY <2>1, PutType DEF OpenSegment
    <2>3. cut' \subseteq Records /\ (cut' \cup swallowed # {} => IoErrors)
        BY <2>1
    <2> QED BY <1>10, <2>2, <2>3 DEF Rotate, readers
<1>11. CASE RotateRefused
    <2> PICK s \in Sealings : disk' = s.disk
        BY <1>11 DEF RotateRefused
    <2>1. IsDirectory(disk') /\ IsSegmentList(segs')
        BY <1>11, SealedType, SealingType DEF RotateRefused
    <2>2. next' \in Nat \ {0} /\ trust' \in {"sound", "degraded", "lost"}
        BY <1>11 DEF RotateRefused, Abandon, Fail
    <2> QED BY <1>11, <2>1, <2>2 DEF RotateRefused, Abandon, readers
<1>12. CASE Seal
    <2> PICK s \in Sealings : disk' = s.disk /\ cut' = cut \cup s.cut
        BY <1>12 DEF Seal
    <2>1. /\ IsDirectory(disk') /\ IsSegmentList(segs')
          /\ s.cut \subseteq Records /\ (s.cut # {} => IoErrors)
        BY <1>12, SealedType, SealingType DEF Seal
    <2>2. cut' \subseteq Records /\ (cut' \cup swallowed # {} => IoErrors)
        BY <2>1
    <2>3. dirty' \in BOOLEAN
        BY <1>12, Zenon DEF Seal
    <2> QED BY <1>12, <2>1, <2>2, <2>3 DEF Seal, readers
<1>13. CASE SealFails
    <2>1. IsDirectory(disk')
        BY <1>13, CutType DEF SealFails
    <2>2. next' \in Nat \ {0} /\ trust' \in {"sound", "degraded", "lost"}
        BY <1>13 DEF SealFails, Abandon, Fail
    <2> QED BY <1>13, <2>1, <2>2 DEF SealFails, Abandon, readers
<1>14. CASE AppendPublish
    <2>1. PublishedTypes
        BY <1>14, <1>nil, PublishType DEF AppendPublish, WriteManifest
    <2>2. acked' \subseteq DOMAIN Batch /\ next' \in Nat \ {0}
        BY <1>14 DEF AppendPublish
    <2>3. dirty' \in BOOLEAN
        BY <1>14, Zenon DEF AppendPublish, WriteManifest
    <2>4. /\ swallowed' \subseteq Records /\ cut' = {}
          /\ cut' \cup swallowed' # {} => IoErrors
        BY <1>14 DEF AppendPublish
    <2> QED BY <1>14, <2>1, <2>2, <2>3, <2>4 DEF AppendPublish, readers, PublishedTypes
<1>15. CASE CompactPublish
    <2>1. PublishedTypes
        BY <1>15, <1>nil, PublishType DEF CompactPublish, WriteManifest
    <2>2. dirty' \in BOOLEAN
        BY <1>15, Zenon DEF CompactPublish, WriteManifest
    <2>3. /\ swallowed' \subseteq Records /\ cut' = {}
          /\ cut' \cup swallowed' # {} => IoErrors
          /\ dropped' \subseteq Records /\ doomed' \subseteq Records
        BY <1>15 DEF CompactPublish
    <2> QED BY <1>15, <2>1, <2>2, <2>3 DEF CompactPublish, readers, PublishedTypes
<1>16. CASE PublishFails
    <2>1. PublishedTypes
        BY <1>16, <1>nil, PublishType DEF PublishFails, PublishedTypes, Fail
    <2>2. next' \in Nat \ {0}
        BY <1>16 DEF PublishFails, Abandon
    <2> QED BY <1>16, <2>1, <2>2 DEF PublishFails, Abandon, readers, PublishedTypes
<1>17. CASE Flush
    <2>1. PublishedTypes
        BY <1>17, <1>nil, PublishType DEF Flush, WriteManifest
    <2>2. dirty' \in BOOLEAN
        BY <1>17, Zenon DEF Flush, WriteManifest
    <2> QED BY <1>17, <2>1, <2>2 DEF Flush, readers, PublishedTypes
<1>18. ASSUME NEW id \in old, RemoveOld(id) PROVE TypeOK'
    BY <1>18, WithoutType DEF RemoveOld, readers, history
<1>19. CASE CompactDone
    BY <1>19 DEF CompactDone, readers, history
<1>20. CASE Close
    <2>1. dirty' \in BOOLEAN
        BY <1>20, Zenon DEF Close, Gone
    <2>2. trust' \in {"sound", "degraded", "lost"}
        BY <1>20 DEF Close, Forget
    <2> QED BY <1>20, <1>nil, <2>1, <2>2 DEF Close, Gone, readers
<1>21. CASE CloseOpenSegment
    <2>1. dirty' \in BOOLEAN
        BY <1>21, Zenon DEF CloseOpenSegment, Gone
    <2>2. IsDirectory(disk')
        BY <1>21, SealingType, CutType DEF CloseOpenSegment
    <2>3. PublishedTypes
        BY <1>21, <1>nil, SealedType, PublishType DEF CloseOpenSegment, PublishedTypes, Forget
    <2> QED BY <1>21, <1>nil, <2>1, <2>2, <2>3 DEF CloseOpenSegment, Gone, readers, PublishedTypes
<1>22. CASE Crash
    <2>1. /\ Gone /\ Forget
          /\ next' = IF op = "append" THEN next + 1 ELSE next
          /\ UNCHANGED <<present, manifest, readers, acked, dropped, swallowed>>
        BY <1>22 DEF Crash
    <2>2. dirty' \in BOOLEAN /\ trust' \in {"sound", "degraded", "lost"}
        BY <2>1, Zenon DEF Gone, Forget
    <2>3. next' \in Nat \ {0}
        BY <2>1
    <2>4. PICK kept \in 0..FramesIn(cur) :
              disk' = OnCurrent(LAMBDA f : [recs |-> SubSeq(f.recs, 1, kept), form |-> f.form])
        BY <1>22 DEF Crash
    <2>5. kept \in Nat /\ kept <= FramesIn(cur)
        <3>1. FramesIn(cur) \in Nat
            BY FramesInType
        <3> HIDE DEF TypeOK
        <3> QED BY <3>1
    <2>6. IsDirectory(disk')
        BY <2>4, <2>5, CrashType
    <2> QED BY <1>nil, <2>1, <2>2, <2>3, <2>6 DEF Gone, readers
<1>23. ASSUME NEW r \in Readers, ReaderOpen(r) PROVE TypeOK'
    BY <1>23, ScanType DEF ReaderOpen, LoadedSegments, memory, history, IsDirectory, IsSegmentList
<1>24. ASSUME NEW r \in Readers, NEW id \in DOMAIN disk, ReaderSweep(r, id) PROVE TypeOK'
    BY <1>24, WithoutType DEF ReaderSweep, memory, readers
<1>25. ASSUME NEW r \in Readers, ReaderDone(r) PROVE TypeOK'
    <2>1. PublishedTypes
        BY <1>25, <1>nil, PublishType DEF ReaderDone, PublishedTypes
    <2> QED BY <1>25, <2>1 DEF ReaderDone, memory, PublishedTypes
<1>26. ASSUME NEW r \in Readers, ReaderClose(r) PROVE TypeOK'
    BY <1>26, <1>nil DEF ReaderClose, memory, history
<1>27. CASE UNCHANGED vars
    BY <1>27 DEF vars, memory, readers, history
<1>28. CASE CompactAll
    <2>1. doomed' \subseteq Records
        <3>1. 0 \in 0..FramesIn(cur)
            BY FramesInType
        <3>2. FramesOnDisk(0) \subseteq Frame
            BY <1>28, <3>1, FramesOnDiskType DEF CompactAll
        <3> QED BY <1>28, <3>2 DEF CompactAll, Frame
    <2>2. old' \subseteq Nat \ {0}
        BY <1>28 DEF CompactAll, IsSegmentList
    <2>3. dirty' \in BOOLEAN
        BY <1>28, Zenon DEF CompactAll
    <2> QED BY <1>28, <1>nil, <2>1, <2>2, <2>3 DEF CompactAll, readers
<1> QED
    BY <1>1, <1>2, <1>3, <1>4, <1>5, <1>6, <1>7, <1>8, <1>9, <1>10, <1>11, <1>12, <1>13,
       <1>14, <1>15, <1>16, <1>17, <1>18, <1>19, <1>20, <1>21, <1>22, <1>23, <1>24, <1>25,
       <1>26, <1>27, <1>28 DEF Next, LockHolder, LockFree

\* Every reachable state of the store, whatever fails and whoever opens it, has the
\* declared types.
THEOREM TypeCorrect == Spec => []TypeOK
<1> QED BY InitTypeOK, StepTypeOK, PTL DEF Spec
-------------------------------------------------------------------------------
(* The inductive invariant *)

\* A lost store stays lost.
LEMMA LostForGood == ASSUME TypeOK, [Next]_vars, trust = "lost" PROVE trust' = "lost"
BY DEF Next, LockHolder, LockFree, vars, memory, readers, history, Fail, Forget, Exposed,
       Open, SweepOrphan, OpenDone, AppendBegin, AppendRefused, CompactBegin,
       CompactAll, CompactOpenFails, WriteFrame, WriteFails, Rotate, RotateRefused, Seal,
       SealFails, AppendPublish, CompactPublish, PublishFails, Flush, RemoveOld, CompactDone,
       Close, CloseOpenSegment, Crash, ReaderOpen, ReaderSweep, ReaderDone, ReaderClose,
       WriteManifest, Publish, LoseManifest

\* A prefix agrees with the sequence as far as it goes.
LEMMA PrefixElements ==
    ASSUME NEW s \in Seq(Records), NEW t \in Seq(Records), IsPrefix(s, t)
    PROVE  /\ Len(s) <= Len(t) /\ \A i \in 1..Len(s) : i \in 1..Len(t) /\ s[i] = t[i]
           /\ Range(s) \subseteq Range(t)
<1>1. Len(s) \in Nat /\ Len(t) \in Nat /\ Len(s) <= Len(t)
      /\ SubSeq(s, 1, Len(s)) = SubSeq(t, 1, Len(s))
    BY DEF IsPrefix
<1>2. ASSUME NEW i \in 1..Len(s) PROVE i \in 1..Len(t) /\ s[i] = t[i]
    <2>1. i \in 1..Len(t)
        BY <1>1
    <2>2. SubSeq(s, 1, Len(s))[i] = s[i] /\ SubSeq(t, 1, Len(s))[i] = t[i]
        BY <1>1, <2>1, SubSeqProperties
    <2> QED BY <1>1, <2>1, <2>2
<1>3. DOMAIN s = 1..Len(s) /\ DOMAIN t = 1..Len(t)
    OBVIOUS
<1> QED BY <1>1, <1>2, <1>3 DEF Range

\* The beginning of a sequence is a prefix of it; so is all of it.
LEMMA BeginningIsPrefix ==
    ASSUME NEW s \in Seq(Records), NEW kept \in 0..Len(s)
    PROVE  IsPrefix(SubSeq(s, 1, kept), s) /\ IsPrefix(s, s)
<1> DEFINE t == SubSeq(s, 1, kept)
<1>1. t \in Seq(Records) /\ Len(t) = kept /\ kept \in Nat /\ Len(s) \in Nat /\ kept <= Len(s)
      /\ \A i \in 1..kept : t[i] = s[i]
    BY SubSeqProperties
<1> HIDE DEF t
<1>2. SubSeq(t, 1, kept) = t
    BY <1>1
<1> QED BY <1>1, <1>2 DEF IsPrefix, t

\* The files of an accounted list hold its records, but for those in `gone`.
LEMMA AccountedRecs ==
    ASSUME NEW f, NEW gone, IsDirectory(disk), IsSegmentList(f), Accounted(f, gone)
    PROVE  /\ DOMAIN f \subseteq DOMAIN disk
           /\ \A id \in DOMAIN f :
                 /\ IsPrefix(disk[id].recs, f[id].recs)
                 /\ f[id].recs \in Seq(Records) /\ disk[id].recs \in Seq(Records)
           /\ RecsIn(f) \subseteq RecsOf(disk, DOMAIN f) \cup gone
<1>1. ASSUME NEW id \in DOMAIN f
      PROVE  /\ id \in DOMAIN disk /\ IsPrefix(disk[id].recs, f[id].recs)
             /\ f[id].recs \in Seq(Records) /\ disk[id].recs \in Seq(Records)
             /\ Range(f[id].recs) \subseteq Range(disk[id].recs) \cup gone
    <2>1. id \in DOMAIN disk /\ (Whole(id, f[id]) \/ Short(id, f[id], gone))
        BY DEF Accounted
    <2>2. f[id].recs \in Seq(Records) /\ disk[id].recs \in Seq(Records)
        BY <2>1 DEF IsSegmentList, SegmentInfo, IsDirectory, SegmentFile
    <2>3. CASE Whole(id, f[id])
        <3>1. disk[id] = [recs |-> f[id].recs, form |-> "sealed"]
            BY <2>3 DEF Whole
        <3>2. disk[id].recs = f[id].recs
            BY <3>1
        <3>3. 0 \in 0..Len(f[id].recs)
            BY <2>2
        <3> QED BY <2>1, <2>2, <3>2, <3>3, BeginningIsPrefix
    <2>4. CASE Short(id, f[id], gone)
        BY <2>1, <2>2, <2>4 DEF Short
    <2> QED BY <2>1, <2>3, <2>4
<1>2. ASSUME NEW x \in RecsIn(f) PROVE x \in RecsOf(disk, DOMAIN f) \cup gone
    <2>1. PICK id \in DOMAIN f : x \in Range(f[id].recs)
        BY DEF RecsIn, RecsOf
    <2> QED BY <1>1, <2>1 DEF RecsOf
<1> QED BY <1>1, <1>2

\* Appending to a sequence adds one record to it.
LEMMA RangeAppend ==
    ASSUME NEW s \in Seq(Records), NEW x \in Records
    PROVE  Range(Append(s, x)) = Range(s) \cup {x}
<1> DEFINE t == Append(s, x)
<1>1. /\ DOMAIN s = 1..Len(s) /\ DOMAIN t = 1..(Len(s) + 1) /\ Len(s) \in Nat
      /\ \A i \in 1..Len(s) : t[i] = s[i]
      /\ t[Len(s) + 1] = x
    OBVIOUS
<1>2. DOMAIN t = DOMAIN s \cup {Len(s) + 1}
    BY <1>1
<1> HIDE DEF t
<1>3. Range(t) = Range(s) \cup {x}
    BY <1>1, <1>2 DEF Range
<1> QED BY <1>3 DEF t

\* A new empty segment holds no record.
LEMMA RecsInPutEmpty ==
    ASSUME NEW f, NEW id, id \notin DOMAIN f
    PROVE  RecsIn(Put(f, id, EmptyInfo)) = RecsIn(f)
<1>1. Range(<< >>) = {}
    BY DEF Range
<1> QED BY <1>1 DEF RecsIn, RecsOf, Put, EmptyInfo

\* Replacing a segment by one with the same records changes nothing.
LEMMA RecsInPutSame ==
    ASSUME NEW f, NEW id \in DOMAIN f, NEW x, Range(x.recs) = Range(f[id].recs)
    PROVE  RecsIn(Put(f, id, x)) = RecsIn(f)
BY DEF RecsIn, RecsOf, Put

\* Nor does a new file.
LEMMA RecsOfOpened ==
    ASSUME NEW d, NEW f, NEW id, id \notin DOMAIN f, DOMAIN f \subseteq DOMAIN d
    PROVE  RecsOf(Put(d, id, EmptyFile), DOMAIN Put(f, id, EmptyInfo)) = RecsOf(d, DOMAIN f)
<1>1. Range(<< >>) = {}
    BY DEF Range
<1> QED BY <1>1 DEF RecsOf, Put, EmptyFile

\* What a step does to the files that matter to others: it leaves alone those the manifest
\* names, and it neither changes nor creates one with an id up to a published one.
PublishedKept == \A id \in DOMAIN manifest : id \in DOMAIN disk' /\ disk'[id] = disk[id]
LowFilesKept ==
    \A id \in DOMAIN disk' : \A m \in DOMAIN manifest :
        id <= m => id \in DOMAIN disk /\ disk'[id] = disk[id]

\* Creating the next segment keeps both.
LEMMA OpenSegmentKeeps ==
    ASSUME NEW d, disk' = Put(d, nextId, EmptyFile), IsSegmentList(manifest), nextId \in Nat,
           \A id \in DOMAIN manifest : id < nextId,
           DOMAIN d = DOMAIN disk,
           \A m \in DOMAIN manifest : \A id \in DOMAIN d : id <= m => d[id] = disk[id],
           IsDirectory(disk), Accounted(manifest, swallowed)
    PROVE  PublishedKept /\ LowFilesKept
<1>1. \A id \in DOMAIN manifest : id \in DOMAIN disk
    BY DEF Accounted
<1>8. \A id \in DOMAIN manifest : id # nextId /\ id <= id
    BY DEF IsSegmentList
<1>2. \A m \in DOMAIN manifest : \A id \in Nat : id <= m => id # nextId
    BY DEF IsSegmentList
<1>4. DOMAIN disk' = DOMAIN disk \cup {nextId}
    BY DEF Put
<1>5. \A id \in DOMAIN disk : id # nextId => disk'[id] = d[id]
    BY DEF Put
<1>6. PublishedKept
    BY <1>1, <1>4, <1>5, <1>8 DEF PublishedKept
<1>7. LowFilesKept
    <2> SUFFICES ASSUME NEW id \in DOMAIN disk', NEW m \in DOMAIN manifest, id <= m
                 PROVE  id \in DOMAIN disk /\ disk'[id] = disk[id]
        BY DEF LowFilesKept
    <2>1. id # nextId
        BY DEF IsSegmentList
    <2> QED BY <2>1, <1>4, <1>5
<1> QED BY <1>6, <1>7

\* Writing to the current segment keeps both.
LEMMA OnCurrentKeeps ==
    ASSUME DOMAIN disk' = DOMAIN disk, \A id \in DOMAIN disk : id # cur => disk'[id] = disk[id],
           IsSegmentList(manifest), IsDirectory(disk), Accounted(manifest, swallowed), cur \in Nat,
           cur # 0 => \A id \in DOMAIN manifest : id < cur
    PROVE  PublishedKept /\ LowFilesKept
<1>1. 0 \notin DOMAIN disk
    BY DEF IsDirectory
<1>2. \A id \in DOMAIN manifest : id \in DOMAIN disk
    BY DEF Accounted
<1>3. ASSUME NEW id \in DOMAIN disk, NEW m \in DOMAIN manifest, id <= m
      PROVE  disk'[id] = disk[id]
    <2>1. id \in Nat /\ m \in Nat
        BY DEF IsDirectory, IsSegmentList
    <2>2. id # cur
        BY <1>1, <1>3, <2>1
    <2> QED BY <2>2
<1>4. \A id \in DOMAIN manifest : id <= id
    BY DEF IsSegmentList
<1> QED BY <1>2, <1>3, <1>4 DEF PublishedKept, LowFilesKept

\* Removing a file the manifest does not name keeps both.
LEMMA WithoutKeeps ==
    ASSUME NEW id, id \notin DOMAIN manifest, disk' = Without(disk, {id}), Accounted(manifest, swallowed)
    PROVE  PublishedKept /\ LowFilesKept
BY DEF PublishedKept, LowFilesKept, Without, Restrict, Accounted

\* A step that keeps the published files and publishes nothing leaves the log as it is.
LEMMA LogKept ==
    ASSUME Accounted(manifest, swallowed), manifest' = manifest, swallowed' = swallowed,
           PublishedKept
    PROVE  Accounted(manifest, swallowed)' /\ Visible' = Visible
<1>1. ASSUME NEW id \in DOMAIN manifest
      PROVE  id \in DOMAIN disk' /\ disk'[id] = disk[id] /\ id \in DOMAIN disk
    BY DEF PublishedKept, Accounted
<1>2. Accounted(manifest, swallowed)'
    BY <1>1 DEF Accounted, Whole, Short
<1>3. DOMAIN manifest \cap DOMAIN disk = DOMAIN manifest
      /\ DOMAIN manifest' \cap DOMAIN disk' = DOMAIN manifest
    BY <1>1
<1>4. Visible' = Visible
    BY <1>1, <1>3 DEF Visible, RecsOf
<1> QED BY <1>2, <1>4

\* Nor do the lock-free processes notice it.
LEMMA ReadersKept ==
    ASSUME ReadersBehind, LowFilesKept, UNCHANGED readers,
           IsSegmentList(manifest),
           \A m \in DOMAIN manifest : \E n \in DOMAIN manifest' : m <= n,
           IsSegmentList(manifest'),
           acked \subseteq acked',
           \A r \in Readers : IsSegmentList(rsegs[r])
    PROVE  ReadersBehind'
<1>1. AckedRecs \subseteq AckedRecs'
    BY DEF AckedRecs
<1> SUFFICES ASSUME NEW r \in Readers, rpc[r] # "closed", NEW id \in DOMAIN rsegs[r]
             PROVE  /\ \E m \in DOMAIN manifest' : id <= m
                    /\ id \in DOMAIN disk' => Range(disk'[id].recs) \subseteq AckedRecs'
    BY DEF ReadersBehind, readers
<1>2. PICK m \in DOMAIN manifest : id <= m
    BY DEF ReadersBehind
<1>3. PICK n \in DOMAIN manifest' : m <= n
    OBVIOUS
<1>4. id \in Nat /\ m \in Nat /\ n \in Nat
    BY DEF IsSegmentList
<1>5. id <= n
    BY <1>2, <1>3, <1>4
<1>6. id \in DOMAIN disk' => id \in DOMAIN disk /\ disk'[id] = disk[id]
    BY <1>2 DEF LowFilesKept
<1> QED BY <1>1, <1>5, <1>6 DEF ReadersBehind

\* The conjuncts of the invariant for a store that is not lost.
Good ==
    /\ Accounted(manifest, swallowed) /\ Visible = AckedRecs \ (dropped \cup swallowed)
    /\ FirstOpen /\ HistoryOrdered /\ FreshIds /\ Settled /\ Retired /\ Working
    /\ ReadersBehind

\* What is the same for all steps of the lock holder that publish nothing.
LEMMA PrivateStep ==
    ASSUME TypeOK, Good, PublishedKept, LowFilesKept,
           UNCHANGED <<present, manifest, acked, dropped, swallowed, readers>>,
           next' \in {next, next + 1},
           present \/ FirstOpen'
    PROVE  /\ Accounted(manifest, swallowed)' /\ Visible' = Visible
           /\ (Visible = AckedRecs \ (dropped \cup swallowed))'
           /\ FirstOpen' /\ HistoryOrdered' /\ ReadersBehind'
<1>1. Accounted(manifest, swallowed)' /\ Visible' = Visible
    BY LogKept DEF Good
<1>2. AckedRecs' = AckedRecs
    BY DEF AckedRecs
<1>3. (Visible = AckedRecs \ (dropped \cup swallowed))'
    BY <1>1, <1>2 DEF Good
<1>4. FirstOpen'
    BY DEF FirstOpen
<1>5. HistoryOrdered'
    <2>1. \A n \in acked : n \in Nat /\ n < next
        BY DEF Good, HistoryOrdered, TypeOK
    <2>2. next \in Nat
        BY DEF TypeOK
    <2>3. \A n \in acked' : n < next'
        BY <2>1, <2>2
    <2> QED BY <2>3, <1>2 DEF Good, HistoryOrdered
<1>6. \A m \in DOMAIN manifest : m <= m
    BY DEF TypeOK, IsSegmentList
<1>7. ReadersBehind'
    BY <1>6, ReadersKept DEF Good, TypeOK
<1> QED BY <1>1, <1>3, <1>4, <1>5, <1>7

\* Only open() runs without a manifest.
LEMMA ManifestPresent ==
    ASSUME Good, pc \notin {"closed", "sweep"} PROVE present
BY DEF Good, FirstOpen

\* What mirrors an accounted manifest is accounted for itself, and goes no further.
LEMMA MirrorAccounted ==
    ASSUME TypeOK, Accounted(manifest, swallowed), Mirrored
    PROVE  /\ Accounted(segs, swallowed)
           /\ \A id \in DOMAIN segs : IsPrefix(segs[id].recs, manifest[id].recs)
<1> SUFFICES ASSUME NEW id \in DOMAIN segs
             PROVE  /\ id \in DOMAIN disk
                    /\ Whole(id, segs[id]) \/ Short(id, segs[id], swallowed)
                    /\ IsPrefix(segs[id].recs, manifest[id].recs)
    BY DEF Accounted
<1>1. /\ id \in DOMAIN manifest /\ id \in DOMAIN disk
      /\ Whole(id, manifest[id]) \/ Short(id, manifest[id], swallowed)
      /\ segs[id] = manifest[id] \/ segs[id] = Found(id)
    BY DEF Mirrored, Accounted
<1>2. manifest[id].recs \in Seq(Records) /\ disk[id].recs \in Seq(Records)
      /\ IsPrefix(disk[id].recs, manifest[id].recs)
    BY <1>1, AccountedRecs DEF TypeOK
<1>3. CASE segs[id] = manifest[id]
    <2>1. 0 \in 0..Len(manifest[id].recs)
        BY <1>2
    <2> QED BY <1>1, <1>2, <1>3, <2>1, BeginningIsPrefix
<1>4. CASE segs[id] = Found(id)
    <2>1. segs[id].recs = disk[id].recs /\ (disk[id].form = "sealed" => segs[id].sealed)
        <3>1. segs[id] = [recs |-> disk[id].recs, sealed |-> disk[id].form = "sealed"]
            BY <1>1, <1>4 DEF Found
        <3>2. disk[id].form = "sealed" => segs[id].sealed
            <4> SUFFICES ASSUME disk[id].form = "sealed" PROVE segs[id].sealed
                OBVIOUS
            <4>1. (disk[id].form = "sealed") = TRUE
                OBVIOUS
            <4>2. segs[id] = [recs |-> disk[id].recs, sealed |-> TRUE]
                BY <3>1, <4>1
            <4> QED BY <4>2
        <3> QED BY <3>1, <3>2
    <2>2. disk[id] = [recs |-> disk[id].recs, form |-> disk[id].form]
        BY <1>1 DEF TypeOK, IsDirectory, SegmentFile
    <2>3. 0 \in 0..Len(disk[id].recs)
        BY <1>2
    <2>4. IsPrefix(disk[id].recs, segs[id].recs)
        BY <1>2, <2>1, <2>3, BeginningIsPrefix
    <2>5. disk[id].form = "sealed" \/ disk[id].form = "cut"
        BY <1>1 DEF Whole, Short
    <2> QED BY <1>1, <1>2, <2>1, <2>2, <2>4, <2>5 DEF Whole, Short
<1> QED BY <1>1, <1>3, <1>4

\* Memory goes on mirroring the manifest while the published files stay.
LEMMA MirroredKept ==
    ASSUME Mirrored, Accounted(manifest, swallowed), PublishedKept, UNCHANGED <<segs, manifest>>
    PROVE  Mirrored'
<1>1. ASSUME NEW id \in DOMAIN segs PROVE Found(id)' = Found(id)
    BY DEF Mirrored, Accounted, PublishedKept, Found
<1> QED BY <1>1 DEF Mirrored

\* In a sound store an operation starts from what is published.
LEMMA SoundStart ==
    ASSUME TypeOK, Good, trust = "sound", pc = "idle"
    PROVE  /\ Mirrored /\ ~dirty /\ cur = 0 /\ cut = {}
           /\ Accounted(segs, swallowed) /\ Visible = OnFile /\ DOMAIN segs \subseteq DOMAIN disk
<1>1. Mirrored /\ ~dirty /\ cur = 0
    BY DEF Good, Settled
<1>2. cut = {}
    BY DEF TypeOK
<1>3. Accounted(segs, swallowed)
    BY <1>1, MirrorAccounted DEF Good
<1>4. DOMAIN segs \subseteq DOMAIN disk /\ DOMAIN segs = DOMAIN manifest
    BY <1>1, <1>3 DEF Accounted, Mirrored
<1>5. DOMAIN manifest \cap DOMAIN disk = DOMAIN segs
    BY <1>4
<1> QED BY <1>1, <1>2, <1>3, <1>4, <1>5 DEF Visible, OnFile

\* Opening the next segment keeps ids fresh.
LEMMA OpenSegmentFresh ==
    ASSUME TypeOK, FreshIds, pc # "closed", manifest' = manifest,
           nextId' = nextId + 1, cur' = nextId, pc' \notin {"closed", "sweep"},
           \A id \in DOMAIN segs' : id \in DOMAIN segs \/ id = nextId
    PROVE  FreshIds'
<1>1. \A id \in DOMAIN manifest \cup DOMAIN segs : id \in Nat /\ id < nextId
    BY DEF FreshIds, TypeOK, IsSegmentList
<1>2. nextId \in Nat
    BY DEF TypeOK
<1>3. \A id \in DOMAIN manifest' \cup DOMAIN segs' : id < nextId'
    BY <1>1, <1>2
<1> QED BY <1>1, <1>3 DEF FreshIds

\* A step that opens no segment and forgets none of the bounds keeps them fresh.
LEMMA SameFresh ==
    ASSUME FreshIds, pc # "closed", UNCHANGED <<manifest, nextId>>, cur' \in {0, cur},
           pc' \notin {"closed", "sweep"}, DOMAIN segs' \subseteq DOMAIN segs
    PROVE  FreshIds'
BY DEF FreshIds

\* The frames of a batch carry its records.
LEMMA BatchFramesRecs == ASSUME NEW n PROVE {e.rec : e \in BatchFrames(n)} = BatchRecs(n)
<1>1. ASSUME NEW e \in BatchFrames(n) PROVE e.rec \in BatchRecs(n)
    BY DEF BatchFrames, BatchRecs
<1>2. ASSUME NEW x \in BatchRecs(n) PROVE \E e \in BatchFrames(n) : e.rec = x
    <2>1. PICK i \in 1..Batch[n] : x = <<n, i>>
        BY DEF BatchRecs
    <2>2. [seg |-> 0, pos |-> i, rec |-> <<n, i>>].rec = x
        BY <2>1
    <2> QED BY <2>2 DEF BatchFrames
<1> QED BY <1>1, <1>2

\* append_many begins.
LEMMA AppendBeginGood == ASSUME TypeOK, TypeOK', Good, AppendBegin PROVE Good'
<1>1. present
    BY ManifestPresent DEF AppendBegin
<1>2. /\ UNCHANGED <<present, manifest, acked, dropped, swallowed, readers, next, trust>>
      /\ pc = "idle" /\ pc' = "write" /\ op' = "append"
      /\ todo' = BatchFrames(next) /\ cut' = cut
    BY DEF AppendBegin, history
<1>3. CASE cur # 0
    <2>1. UNCHANGED <<disk, segs, cur, nextId>>
        BY <1>3 DEF AppendBegin
    <2>2. PublishedKept /\ LowFilesKept
        BY <2>1 DEF PublishedKept, LowFilesKept, Good, Accounted
    <2>3. FreshIds'
        BY <1>2, <2>1, SameFresh DEF Good
    <2>4. trust # "sound"
        BY <1>2, <1>3 DEF Good, Settled
    <2>5. Settled' /\ Retired' /\ Working'
        BY <1>2, <2>4 DEF Settled, Retired, Working
    <2> QED BY <1>1, <1>2, <2>2, <2>3, <2>5, PrivateStep DEF Good
<1>4. CASE cur = 0
    <2>1. /\ disk' = Put(disk, nextId, EmptyFile) /\ segs' = Put(segs, nextId, EmptyInfo)
          /\ cur' = nextId /\ nextId' = nextId + 1
        BY <1>4 DEF AppendBegin, OpenSegment
    <2>2. PublishedKept /\ LowFilesKept
        BY <1>2, <2>1, OpenSegmentKeeps DEF Good, TypeOK, FreshIds
    <2>3. DOMAIN segs' = DOMAIN segs \cup {nextId}
        BY <2>1 DEF Put
    <2>4. FreshIds'
        BY <1>2, <2>1, <2>3, OpenSegmentFresh DEF Good
    <2>5. Settled' /\ Retired'
        BY <1>2 DEF Settled, Retired
    <2>6. Visible' = Visible
        BY <1>1, <1>2, <2>2, PrivateStep
    <2>7. ASSUME trust = "sound" PROVE Working'
        <3>1. /\ DOMAIN segs = DOMAIN manifest /\ DOMAIN segs \subseteq DOMAIN disk
              /\ Accounted(segs, swallowed) /\ Visible = OnFile /\ cut = {}
            BY <1>2, <2>7, SoundStart DEF Mirrored
        <3>2. nextId \notin DOMAIN segs
            BY <1>2 DEF Good, FreshIds, TypeOK, IsSegmentList
        <3>3. OnFile' = Visible
            BY <2>1, <3>1, <3>2, RecsOfOpened DEF OnFile
        <3>4. TodoRecs' = BatchRecs(next)
            BY <1>2, BatchFramesRecs DEF TodoRecs
        <3>5. ASSUME NEW id \in DOMAIN segs' PROVE Written(id)'
            <4>1. CASE id = nextId
                BY <2>1, <4>1 DEF Put, EmptyFile, EmptyInfo, Written
            <4>2. CASE id # nextId
                <5>1. id \in DOMAIN segs /\ id \in DOMAIN disk
                    BY <2>3, <3>1, <4>2
                <5>2. segs'[id] = segs[id] /\ disk'[id] = disk[id] /\ id \in DOMAIN disk'
                    BY <2>1, <4>2, <5>1 DEF Put
                <5>3. Whole(id, segs[id]) \/ Short(id, segs[id], swallowed)
                    BY <3>1, <5>1 DEF Accounted
                <5>4. (Whole(id, segs[id]) \/ Short(id, segs[id], swallowed \cup cut))'
                    BY <1>2, <5>2, <5>3 DEF Whole, Short
                <5> QED BY <2>1, <4>2, <5>2, <5>4 DEF Written
            <4> QED BY <4>1, <4>2
        <3>6. nextId' - 1 \in DOMAIN segs'
            BY <2>1, <2>3 DEF TypeOK
        <3>7. DOMAIN manifest' \subseteq DOMAIN segs' /\ cut' = {} /\ BatchRecs(next)' = BatchRecs(next)
            BY <1>2, <2>3, <3>1 DEF BatchRecs
        <3> QED BY <1>2, <2>6, <3>3, <3>4, <3>5, <3>6, <3>7 DEF Working
    <2>8. Working'
        BY <1>2, <2>7 DEF Working
    <2> QED BY <1>1, <1>2, <2>2, <2>4, <2>5, <2>8, PrivateStep DEF Good
<1> QED BY <1>3, <1>4

\* With nothing in the stdio buffer, compact() reads back every record of its segments.
LEMMA FramesOnDiskRecs ==
    ASSUME TypeOK, cur = 0, DOMAIN segs \subseteq DOMAIN disk
    PROVE  {e.rec : e \in FramesOnDisk(0)} = RecsOf(disk, DOMAIN segs)
<1>1. ASSUME NEW id \in DOMAIN segs
      PROVE  disk[id].recs \in Seq(Records) /\ id \in Nat \ {0}
    BY DEF TypeOK, IsDirectory, IsSegmentList, SegmentFile
<1>2. ASSUME NEW e \in FramesOnDisk(0) PROVE e.rec \in RecsOf(disk, DOMAIN segs)
    <2>1. PICK id \in DOMAIN segs :
             \E i \in 1..(Len(disk[id].recs) - IF id = cur THEN 0 ELSE 0) :
                e = [seg |-> id, pos |-> i, rec |-> disk[id].recs[i]]
        BY DEF FramesOnDisk
    <2>2. PICK i \in 1..Len(disk[id].recs) : e.rec = disk[id].recs[i]
        BY <1>1, <2>1
    <2> QED BY <1>1, <2>2 DEF RecsOf, Range
<1>3. ASSUME NEW x \in RecsOf(disk, DOMAIN segs)
      PROVE  \E e \in FramesOnDisk(0) : e.rec = x
    <2>1. PICK id \in DOMAIN segs : x \in Range(disk[id].recs)
        BY DEF RecsOf
    <2>2. PICK i \in 1..Len(disk[id].recs) : x = disk[id].recs[i]
        BY <1>1, <2>1 DEF Range
    <2>3. i \in 1..(Len(disk[id].recs) - IF id = cur THEN 0 ELSE 0)
        BY <1>1, <2>2
    <2>4. [seg |-> id, pos |-> i, rec |-> disk[id].recs[i]] \in FramesOnDisk(0)
        BY <2>3 DEF FramesOnDisk
    <2> QED BY <2>2, <2>4
<1> QED BY <1>2, <1>3

\* compact() begins.
LEMMA CompactBeginGood == ASSUME TypeOK, TypeOK', Good, CompactBegin PROVE Good'
<1>1. present
    BY ManifestPresent DEF CompactBegin
<1>2. /\ UNCHANGED <<present, manifest, acked, dropped, swallowed, readers, next, trust>>
      /\ pc = "idle" /\ pc' = "write" /\ op' = "compact" /\ old' = DOMAIN segs
      /\ DOMAIN segs \subseteq DOMAIN disk
      /\ disk' = Put(disk, nextId, EmptyFile) /\ segs' = Put(NoSegments, nextId, EmptyInfo)
      /\ cur' = nextId /\ nextId' = nextId + 1 /\ cut' = cut
    BY DEF CompactBegin, StartCompacted, OpenSegment
<1>3. PublishedKept /\ LowFilesKept
    BY <1>2, OpenSegmentKeeps DEF Good, TypeOK, FreshIds
<1>4. DOMAIN segs' = {nextId} /\ segs'[nextId] = EmptyInfo
    BY <1>2 DEF Put, NoSegments
<1>5. FreshIds'
    BY <1>2, <1>4, OpenSegmentFresh DEF Good
<1>6. Settled'
    BY <1>2 DEF Settled
<1>7. Retired'
    <2>1. \A id \in DOMAIN segs : id \in Nat /\ id < nextId /\ nextId \in Nat
        BY <1>2 DEF Good, FreshIds, TypeOK, IsSegmentList
    <2>2. \A id \in old' : id < nextId' /\ id \notin DOMAIN segs'
        BY <1>2, <1>4, <2>1
    <2> QED BY <1>2, <2>2 DEF Retired
<1>8. Visible' = Visible
    BY <1>1, <1>2, <1>3, PrivateStep
<1>9. ASSUME trust = "sound" PROVE Working'
    <2>1. cur = 0 /\ cut = {} /\ Visible = OnFile
        BY <1>2, <1>9, SoundStart
    <2>2. FramesIn(cur) = 0
        BY <2>1 DEF FramesIn, TypeOK, IsDirectory
    <2>3. PICK unflushed \in 0..FramesIn(cur) :
             \E reject \in SUBSET {e.rec : e \in FramesOnDisk(unflushed)} :
                /\ todo' = {e \in FramesOnDisk(unflushed) : e.rec \notin reject}
                /\ doomed' = reject
        BY DEF CompactBegin
    <2>4. unflushed = 0
        BY <2>2
    <2>5. {e.rec : e \in FramesOnDisk(0)} = Visible
        BY <1>2, <2>1, FramesOnDiskRecs DEF OnFile
    <2>6. doomed' \subseteq Visible /\ TodoRecs' = Visible \ doomed'
        BY <2>3, <2>4, <2>5 DEF TodoRecs
    <2>7. OnFile' = {}
        <3>1. disk'[nextId].recs = << >>
            BY <1>2 DEF Put, EmptyFile
        <3>2. Range(<< >>) = {}
            BY DEF Range
        <3> QED BY <1>4, <3>1, <3>2 DEF OnFile, RecsOf
    <2>8. ASSUME NEW id \in DOMAIN segs' PROVE Written(id)'
        BY <1>2, <1>4 DEF Written, Put, EmptyFile, EmptyInfo
    <2>9. nextId' - 1 \in DOMAIN segs'
        BY <1>2, <1>4 DEF TypeOK
    <2> QED BY <1>2, <1>8, <2>1, <2>6, <2>7, <2>8, <2>9 DEF Working
<1>10. Working'
    BY <1>2, <1>9 DEF Working
<1> QED BY <1>1, <1>2, <1>3, <1>5, <1>6, <1>7, <1>10, PrivateStep DEF Good

\* A frame is written.
LEMMA WriteFrameGood == ASSUME TypeOK, TypeOK', Good, WriteFrame PROVE Good'
<1>1. present
    BY ManifestPresent DEF WriteFrame
<1>0. PICK e \in todo :
        /\ disk' = OnCurrent(LAMBDA f : WithFrame(f, e.rec))
        /\ segs' = Put(segs, cur, [recs |-> Append(segs[cur].recs, e.rec), sealed |-> FALSE])
        /\ todo' = todo \ {e}
    BY DEF WriteFrame
<1>2. /\ UNCHANGED <<present, manifest, pc, op, cur, nextId, dirty, old, readers, next, acked,
                     doomed, dropped, cut, swallowed, trust>>
      /\ pc = "write"
    BY DEF WriteFrame, history
<1>3. e.rec \in Records /\ cur \in DOMAIN segs /\ cur # 0 /\ cur \in Nat
    BY <1>2 DEF TypeOK, Frame, IsSegmentList
<1>4. /\ DOMAIN disk' = DOMAIN disk
      /\ \A id \in DOMAIN disk : id # cur => disk'[id] = disk[id]
      /\ cur \in DOMAIN disk => disk'[cur] = WithFrame(disk[cur], e.rec)
    BY <1>0 DEF OnCurrent
<1>5. PublishedKept /\ LowFilesKept
    BY <1>3, <1>4, OnCurrentKeeps DEF Good, TypeOK, FreshIds
<1>6. DOMAIN segs' = DOMAIN segs /\ \A id \in DOMAIN segs : id # cur => segs'[id] = segs[id]
    BY <1>0, <1>3 DEF Put
<1>7. segs'[cur] = [recs |-> Append(segs[cur].recs, e.rec), sealed |-> FALSE]
    BY <1>0, <1>3 DEF Put
<1>8. FreshIds'
    BY <1>2, <1>6, SameFresh DEF Good
<1>9. Settled' /\ Retired'
    BY <1>2, <1>6 DEF Settled, Retired, Good
<1>10. Visible' = Visible
    BY <1>1, <1>2, <1>5, PrivateStep
<1>11. ASSUME trust = "sound" PROVE Working'
    <2>1. Working /\ \A id \in DOMAIN segs : Written(id)
        BY <1>2, <1>11 DEF Good, Working
    <2>2. /\ cur \in DOMAIN disk /\ disk[cur].recs \in Seq(Records)
          /\ disk'[cur].recs = Append(disk[cur].recs, e.rec)
        <3>1. cur \in DOMAIN disk /\ disk[cur] = [recs |-> segs[cur].recs, form |-> "open"]
            BY <1>3, <2>1 DEF Written
        <3>2. disk[cur].form = "open"
            BY <3>1
        <3> QED BY <1>4, <3>1, <3>2 DEF WithFrame, TypeOK, IsDirectory, SegmentFile
    <2>3. Range(disk'[cur].recs) = Range(disk[cur].recs) \cup {e.rec}
        BY <1>3, <2>2, RangeAppend
    <2>4. OnFile' = OnFile \cup {e.rec}
        <3>1. \A id \in DOMAIN segs : Range(disk'[id].recs) =
                 IF id = cur THEN Range(disk[id].recs) \cup {e.rec} ELSE Range(disk[id].recs)
            BY <1>4, <2>1, <2>3 DEF Written
        <3>2. ASSUME NEW x \in OnFile' PROVE x \in OnFile \cup {e.rec}
            <4>1. PICK id \in DOMAIN segs : x \in Range(disk'[id].recs)
                BY <1>6 DEF OnFile, RecsOf
            <4>2. x \in Range(disk[id].recs) \cup {e.rec}
                BY <3>1, <4>1
            <4> QED BY <4>2 DEF OnFile, RecsOf
        <3>3. ASSUME NEW x \in OnFile \cup {e.rec} PROVE x \in OnFile'
            <4>1. PICK id \in DOMAIN segs : x \in Range(disk[id].recs) \/ (id = cur /\ x = e.rec)
                BY <1>3 DEF OnFile, RecsOf
            <4>2. x \in Range(disk'[id].recs)
                BY <3>1, <4>1
            <4> QED BY <1>6, <4>2 DEF OnFile, RecsOf
        <3> QED BY <3>2, <3>3
    <2>5. TodoRecs' \cup {e.rec} = TodoRecs
        BY <1>0 DEF TodoRecs
    <2>6. OnFile' \cup TodoRecs' = OnFile \cup TodoRecs
        BY <2>4, <2>5
    <2>7. ASSUME NEW id \in DOMAIN segs' PROVE Written(id)'
        <3>1. CASE id = cur
            <4>1. cur \in DOMAIN disk /\ disk[cur] = [recs |-> segs[cur].recs, form |-> "open"]
                BY <1>3, <2>1 DEF Written
            <4>2. disk[cur].recs = segs[cur].recs /\ disk[cur].form = "open"
                BY <4>1
            <4>3. disk'[cur] = [recs |-> Append(segs[cur].recs, e.rec), form |-> "open"]
                BY <1>4, <4>1, <4>2 DEF WithFrame
            <4>4. segs'[cur].recs = Append(segs[cur].recs, e.rec)
                BY <1>7
            <4> QED BY <1>2, <1>4, <3>1, <4>1, <4>3, <4>4 DEF Written
        <3>2. CASE id # cur
            BY <1>2, <1>4, <1>6, <2>1, <3>2 DEF Written, Whole, Short
        <3> QED BY <3>1, <3>2
    <2>8. BatchRecs(next)' = BatchRecs(next)
        BY <1>2 DEF BatchRecs
    <2> QED BY <1>2, <1>6, <1>10, <2>1, <2>6, <2>7, <2>8 DEF Working
<1>12. Working'
    BY <1>2, <1>11 DEF Working
<1> QED BY <1>1, <1>2, <1>5, <1>8, <1>9, <1>12, PrivateStep DEF Good

\* What sealing the current segment does to the lists.
LEMMA SealedValues ==
    ASSUME TypeOK, cur # 0
    PROVE  /\ DOMAIN DiskSealed = DOMAIN disk /\ DOMAIN SegsSealed = DOMAIN segs
           /\ \A id \in DOMAIN disk : id # cur => DiskSealed[id] = disk[id]
           /\ \A id \in DOMAIN segs : id # cur => SegsSealed[id] = segs[id]
           /\ SegsSealed[cur] = [recs |-> segs[cur].recs, sealed |-> TRUE]
           /\ cur \in DOMAIN disk => DiskSealed[cur] = SealedFile(disk[cur])
           /\ RecsIn(SegsSealed) = RecsIn(segs)
<1>1. cur \in DOMAIN segs
    BY DEF TypeOK
<1>2. RecsIn(SegsSealed) = RecsIn(segs)
    BY <1>1, RecsInPutSame DEF SegsSealed
<1>3. DOMAIN SegsSealed = DOMAIN segs
    BY <1>1 DEF SegsSealed, Put
<1> QED BY <1>1, <1>2, <1>3 DEF SegsSealed, DiskSealed, OnCurrent, Put

\* A sealing that returns ok leaves the current file with all its frames and a footer, or
\* cut short.
LEMMA SealingOutcomes ==
    ASSUME TypeOK, cur # 0, cur \in DOMAIN disk, NEW s \in Sealings
    PROVE  \/ s.disk[cur] = SealedFile(disk[cur]) /\ s.cut = {}
           \/ \E kept \in 0..Len(disk[cur].recs) :
                 /\ s.disk[cur] = [recs |-> SubSeq(disk[cur].recs, 1, kept), form |-> "cut"]
                 /\ s.cut = Range(segs[cur].recs) \ Range(SubSeq(segs[cur].recs, 1, kept))
<1>1. CASE s = [disk |-> DiskSealed, cut |-> {}]
    <2>1. s.disk = DiskSealed /\ s.cut = {}
        BY <1>1
    <2> QED BY <2>1, SealedValues
<1>2. CASE \E kept \in IF IoErrors THEN 0..FramesIn(cur) ELSE {} :
              s = [disk |-> DiskCut(kept), cut |-> CutOff(kept)]
    <2>1. PICK kept \in 0..FramesIn(cur) : s = [disk |-> DiskCut(kept), cut |-> CutOff(kept)]
        BY <1>2
    <2>2. s.disk = DiskCut(kept) /\ s.cut = CutOff(kept) /\ kept \in 0..Len(disk[cur].recs)
        BY <2>1 DEF FramesIn
    <2> QED BY <2>1, <2>2, CutType DEF CutOff, TypeOK
<1> QED BY <1>1, <1>2 DEF Sealings

\* No record comes before itself.
LEMMA NotBeforeItself == ASSUME NEW x \in Records PROVE ~Before(x, x)
BY DEF Before, Records

\* What a sealing of a written segment cuts off are records on file, nowhere else on file,
\* and not waiting to be written.
LEMMA SealingRecs ==
    ASSUME TypeOK, cur # 0, \A id \in DOMAIN segs : Written(id), Queued, NEW s \in Sealings
    PROVE  /\ RecsOf(s.disk, DOMAIN segs) = OnFile \ s.cut
           /\ s.cut \subseteq OnFile /\ s.cut \cap TodoRecs = {}
           /\ \A id \in DOMAIN segs : id # cur => s.cut \cap Range(disk[id].recs) = {}
<1> DEFINE r == segs[cur].recs
<1>1. /\ cur \in DOMAIN segs /\ cur \in DOMAIN disk /\ disk[cur] = [recs |-> r, form |-> "open"]
      /\ r \in Seq(Records)
    BY DEF TypeOK, Written, IsSegmentList, SegmentInfo
<1>2. disk[cur].recs = r /\ disk[cur].form = "open"
    BY <1>1
<1>3. /\ IsDirectory(s.disk) /\ DOMAIN s.disk = DOMAIN disk
      /\ \A id \in DOMAIN disk : id # cur => s.disk[id] = disk[id]
    BY <1>1, SealingType DEF TypeOK
<1>4. Range(s.disk[cur].recs) = Range(r) \ s.cut /\ s.cut \subseteq Range(r)
    <2>1. CASE s.disk[cur] = SealedFile(disk[cur]) /\ s.cut = {}
        BY <1>2, <2>1 DEF SealedFile
    <2>2. ASSUME NEW kept \in 0..Len(r),
                 s.disk[cur] = [recs |-> SubSeq(r, 1, kept), form |-> "cut"],
                 s.cut = Range(r) \ Range(SubSeq(r, 1, kept))
          PROVE  Range(s.disk[cur].recs) = Range(r) \ s.cut /\ s.cut \subseteq Range(r)
        <3>1. s.disk[cur].recs = SubSeq(r, 1, kept)
            BY <2>2
        <3>2. SubSeq(r, 1, kept) \in Seq(Records)
            BY <1>1, SubSeqProperties
        <3>3. Range(SubSeq(r, 1, kept)) \subseteq Range(r)
            BY <1>1, <3>2, BeginningIsPrefix, PrefixElements
        <3> QED BY <2>2, <3>1, <3>3
    <2> QED BY <1>1, <1>2, <2>1, <2>2, SealingOutcomes
<1>5. ASSUME NEW x \in Range(r), NEW id \in DOMAIN segs, id # cur PROVE x \notin Range(disk[id].recs)
    <2> SUFFICES ASSUME x \in Range(disk[id].recs) PROVE FALSE
        OBVIOUS
    <2>1. /\ id \in DOMAIN disk /\ segs[id].recs \in Seq(Records) /\ disk[id].recs \in Seq(Records)
          /\ Whole(id, segs[id]) \/ Short(id, segs[id], swallowed \cup cut)
        BY <1>5 DEF Written, TypeOK, IsSegmentList, SegmentInfo, IsDirectory, SegmentFile
    <2>2. Range(disk[id].recs) \subseteq Range(segs[id].recs)
        <3>1. CASE Whole(id, segs[id])
            <4>1. disk[id] = [recs |-> segs[id].recs, form |-> "sealed"]
                BY <3>1 DEF Whole
            <4> QED BY <4>1
        <3>2. CASE Short(id, segs[id], swallowed \cup cut)
            BY <2>1, <3>2, PrefixElements DEF Short
        <3> QED BY <2>1, <3>1, <3>2
    <2>3. PICK i \in DOMAIN r : x = r[i]
        BY <1>5 DEF Range
    <2>4. PICK j \in DOMAIN segs[id].recs : x = segs[id].recs[j]
        BY <2>2 DEF Range
    <2>5. id \in Nat /\ cur \in Nat
        BY <1>1 DEF TypeOK, IsSegmentList
    <2>6. Before(x, x)
        <3>1. CASE id < cur
            BY <1>1, <2>3, <2>4, <3>1 DEF Queued, InOrder
        <3>2. CASE cur < id
            BY <1>1, <2>3, <2>4, <3>2 DEF Queued, InOrder
        <3> QED BY <1>5, <2>5, <3>1, <3>2
    <2>7. x \in Records
        BY <1>1, <2>3
    <2> QED BY <2>6, <2>7, NotBeforeItself
<1>6. ASSUME NEW x \in Range(r) PROVE x \notin TodoRecs
    <2> SUFFICES ASSUME NEW e \in todo, x = e.rec PROVE FALSE
        BY DEF TodoRecs
    <2>1. x \in RecsIn(segs)
        BY <1>1 DEF RecsIn, RecsOf
    <2>2. Before(x, x)
        BY <2>1 DEF Queued
    <2>3. x \in Records
        BY DEF TypeOK, Frame
    <2> QED BY <2>2, <2>3, NotBeforeItself
<1> HIDE DEF r
<1>7. s.cut \subseteq OnFile
    BY <1>1, <1>2, <1>4 DEF OnFile, RecsOf
<1>8. ASSUME NEW id \in DOMAIN segs PROVE Range(s.disk[id].recs) = Range(disk[id].recs) \ s.cut
    <2>1. CASE id = cur
        BY <1>2, <1>4, <2>1
    <2>2. CASE id # cur
        <3>1. s.disk[id] = disk[id]
            BY <1>3, <2>2 DEF Written
        <3> QED BY <1>4, <1>5, <2>2, <3>1
    <2> QED BY <2>1, <2>2
<1>9. RecsOf(s.disk, DOMAIN segs) = OnFile \ s.cut
    BY <1>8 DEF OnFile, RecsOf
<1> QED BY <1>4, <1>5, <1>6, <1>7, <1>9

\* A segment that was written is accounted for once it is sealed.
LEMMA SealingWritten ==
    ASSUME TypeOK, cur # 0, \A id \in DOMAIN segs : Written(id), NEW s \in Sealings,
           NEW id \in DOMAIN segs
    PROVE  /\ id \in DOMAIN s.disk
           /\ \/ /\ SegsSealed[id].sealed
                 /\ s.disk[id] = [recs |-> SegsSealed[id].recs, form |-> "sealed"]
              \/ /\ s.disk[id].form = "cut" /\ IsPrefix(s.disk[id].recs, SegsSealed[id].recs)
                 /\ Range(SegsSealed[id].recs)
                       \subseteq Range(s.disk[id].recs) \cup (swallowed \cup (cut \cup s.cut))
<1>1. Written(id) /\ id \in DOMAIN disk /\ cur \in DOMAIN segs
    BY DEF Written, TypeOK
<1>2. /\ DOMAIN s.disk = DOMAIN disk
      /\ \A j \in DOMAIN disk : j # cur => s.disk[j] = disk[j]
    BY <1>1, SealingType DEF TypeOK
<1>3. CASE id = cur
    <2> DEFINE r == segs[cur].recs
    <2>1. disk[cur] = [recs |-> r, form |-> "open"] /\ r \in Seq(Records)
        BY <1>1, <1>3 DEF Written, TypeOK, IsSegmentList, SegmentInfo
    <2>2. disk[cur].recs = r /\ disk[cur].form = "open"
        BY <2>1
    <2>3. SegsSealed[cur].recs = r /\ SegsSealed[cur].sealed
        BY <1>1, SealedValues
    <2>4. CASE s.disk[cur] = SealedFile(disk[cur]) /\ s.cut = {}
        BY <1>1, <1>2, <1>3, <2>2, <2>3, <2>4 DEF SealedFile
    <2>5. ASSUME NEW kept \in 0..Len(r),
                 s.disk[cur] = [recs |-> SubSeq(r, 1, kept), form |-> "cut"],
                 s.cut = Range(r) \ Range(SubSeq(r, 1, kept))
          PROVE  /\ s.disk[cur].form = "cut" /\ IsPrefix(s.disk[cur].recs, r)
                 /\ Range(r) \subseteq Range(s.disk[cur].recs) \cup s.cut
        <3>1. s.disk[cur].recs = SubSeq(r, 1, kept) /\ s.disk[cur].form = "cut"
            BY <2>5
        <3> HIDE DEF r
        <3> QED BY <2>1, <2>5, <3>1, BeginningIsPrefix
    <2> HIDE DEF r
    <2> QED BY <1>1, <1>2, <1>3, <2>1, <2>2, <2>3, <2>4, <2>5, SealingOutcomes DEF r
<1>4. CASE id # cur
    <2>1. s.disk[id] = disk[id] /\ SegsSealed[id] = segs[id]
        BY <1>1, <1>2, <1>4, SealedValues
    <2>2. Whole(id, segs[id]) \/ Short(id, segs[id], swallowed \cup cut)
        BY <1>1, <1>4 DEF Written
    <2> QED BY <1>1, <1>2, <2>1, <2>2 DEF Whole, Short
<1> QED BY <1>3, <1>4

\* What a sealing cuts off in an append is of its own batch, in a compaction of what it
\* keeps.
LEMMA SealingWork ==
    ASSUME TypeOK, Good, trust = "sound", pc = "write", cur # 0, Queued, NEW s \in Sealings
    PROVE  /\ op = "append" =>
                 /\ cut \cup s.cut \subseteq BatchRecs(next)
                 /\ (OnFile \ s.cut) \cup TodoRecs =
                       Visible \cup (BatchRecs(next) \ (cut \cup s.cut))
           /\ op = "compact" =>
                 /\ cut \cup s.cut \subseteq Visible \ doomed
                 /\ (OnFile \ s.cut) \cup TodoRecs = Visible \ (doomed \cup (cut \cup s.cut))
<1>1. Working /\ \A id \in DOMAIN segs : Written(id)
    BY DEF Good, Working
<1>2. /\ s.cut \subseteq OnFile /\ s.cut \cap TodoRecs = {}
      /\ \A id \in DOMAIN segs : id # cur => s.cut \cap Range(disk[id].recs) = {}
    BY <1>1, SealingRecs
<1>3. (OnFile \ s.cut) \cup TodoRecs = (OnFile \cup TodoRecs) \ s.cut
    BY <1>2
<1>4. ASSUME op = "append"
      PROVE  /\ cut \cup s.cut \subseteq BatchRecs(next)
             /\ (OnFile \ s.cut) \cup TodoRecs =
                   Visible \cup (BatchRecs(next) \ (cut \cup s.cut))
    <2>1. /\ DOMAIN manifest \subseteq DOMAIN segs /\ cut \subseteq BatchRecs(next)
          /\ OnFile \cup TodoRecs = Visible \cup (BatchRecs(next) \ cut)
        BY <1>1, <1>4 DEF Working
    <2>2. ASSUME NEW x \in Visible PROVE x \notin s.cut
        <3>1. PICK id \in DOMAIN manifest \cap DOMAIN disk : x \in Range(disk[id].recs)
            BY DEF Visible, RecsOf
        <3>2. id # cur
            BY <3>1 DEF Good, FreshIds, TypeOK, IsSegmentList
        <3> QED BY <1>2, <2>1, <3>1, <3>2
    <2> QED BY <1>2, <1>3, <2>1, <2>2
<1>5. ASSUME op = "compact"
      PROVE  /\ cut \cup s.cut \subseteq Visible \ doomed
             /\ (OnFile \ s.cut) \cup TodoRecs = Visible \ (doomed \cup (cut \cup s.cut))
    <2>1. /\ cut \subseteq Visible \ doomed /\ doomed \subseteq Visible
          /\ OnFile \cup TodoRecs = Visible \ (doomed \cup cut)
        BY <1>1, <1>5 DEF Working
    <2> QED BY <1>2, <1>3, <2>1
<1> QED BY <1>4, <1>5

\* A full segment is sealed and the next one opened.
LEMMA RotateGood == ASSUME TypeOK, TypeOK', Good, Arranged, Rotate PROVE Good'
<1>1. present
    BY ManifestPresent DEF Rotate
<1> PICK s \in Sealings : OpenSegment(s.disk, SegsSealed) /\ cut' = cut \cup s.cut
    BY DEF Rotate
<1>2. /\ UNCHANGED <<present, manifest, pc, op, dirty, todo, old, readers, next, acked, doomed,
                     dropped, swallowed, trust>>
      /\ pc = "write" /\ cur # 0 /\ cur \in DOMAIN segs
      /\ disk' = Put(s.disk, nextId, EmptyFile) /\ segs' = Put(SegsSealed, nextId, EmptyInfo)
      /\ cur' = nextId /\ nextId' = nextId + 1
    BY DEF Rotate, OpenSegment, TypeOK
<1>0. /\ DOMAIN s.disk = DOMAIN disk /\ \A id \in DOMAIN disk : id # cur => s.disk[id] = disk[id]
    BY <1>2, SealingType DEF TypeOK
<1>3. \A id \in DOMAIN manifest \cup DOMAIN segs : id \in Nat /\ id < nextId
    BY <1>2 DEF Good, FreshIds, TypeOK, IsSegmentList
<1>4. nextId \notin DOMAIN segs /\ nextId \in Nat
    BY <1>3 DEF TypeOK
<1>5. DOMAIN segs' = DOMAIN segs \cup {nextId}
    BY <1>2, SealedValues DEF Put
<1>6. \A m \in DOMAIN manifest : \A id \in DOMAIN disk : id <= m => id # cur
    BY <1>2 DEF Good, FreshIds, TypeOK, IsSegmentList, IsDirectory
<1>7. PublishedKept /\ LowFilesKept
    <2>1. \A m \in DOMAIN manifest : \A id \in DOMAIN s.disk :
             id <= m => s.disk[id] = disk[id]
        BY <1>0, <1>2, <1>6
    <2> QED BY <1>0, <1>2, <1>3, <1>4, <2>1, OpenSegmentKeeps DEF Good, TypeOK
<1>8. FreshIds'
    BY <1>2, <1>5, OpenSegmentFresh DEF Good
<1>9. Settled' /\ Retired'
    <2>1. op = "compact" => \A id \in old : id \in Nat /\ id < nextId' /\ id \notin DOMAIN segs'
        BY <1>2, <1>4, <1>5 DEF Good, Retired, TypeOK
    <2> QED BY <1>2, <2>1 DEF Settled, Retired
<1>10. Visible' = Visible
    BY <1>1, <1>2, <1>7, PrivateStep
<1>11. ASSUME trust = "sound" PROVE Working'
    <2>1. Working /\ (\A id \in DOMAIN segs : Written(id)) /\ Queued
        BY <1>2, <1>11 DEF Good, Working, Arranged
    <2>2. OnFile' = OnFile \ s.cut
        <3>1. DOMAIN SegsSealed = DOMAIN segs /\ DOMAIN segs \subseteq DOMAIN s.disk
            BY <1>0, <1>2, <2>1, SealedValues DEF Written
        <3>2. OnFile' = RecsOf(s.disk, DOMAIN segs)
            BY <1>2, <1>4, <3>1, RecsOfOpened DEF OnFile
        <3> QED BY <1>2, <2>1, <3>2, SealingRecs
    <2>3. ASSUME NEW id \in DOMAIN segs' PROVE Written(id)'
        <3>1. CASE id = nextId
            BY <1>2, <3>1 DEF Put, EmptyFile, EmptyInfo, Written
        <3>2. CASE id # nextId
            <4>1. id \in DOMAIN segs
                BY <1>5, <3>2
            <4>2. /\ id \in DOMAIN s.disk
                  /\ \/ /\ SegsSealed[id].sealed
                        /\ s.disk[id] = [recs |-> SegsSealed[id].recs, form |-> "sealed"]
                     \/ /\ s.disk[id].form = "cut"
                        /\ IsPrefix(s.disk[id].recs, SegsSealed[id].recs)
                        /\ Range(SegsSealed[id].recs)
                              \subseteq Range(s.disk[id].recs) \cup (swallowed \cup (cut \cup s.cut))
                BY <1>2, <2>1, <4>1, SealingWritten
            <4>3. segs'[id] = SegsSealed[id] /\ disk'[id] = s.disk[id] /\ id \in DOMAIN disk'
                BY <1>2, <3>2, <4>1, <4>2, SealedValues DEF Put
            <4>4. (Whole(id, segs[id]) \/ Short(id, segs[id], swallowed \cup cut))'
                BY <1>2, <4>2, <4>3 DEF Whole, Short
            <4> QED BY <1>2, <3>2, <4>3, <4>4 DEF Written
        <3> QED BY <3>1, <3>2
    <2>4. nextId' - 1 \in DOMAIN segs'
        BY <1>2, <1>4, <1>5
    <2>5. TodoRecs' = TodoRecs /\ BatchRecs(next)' = BatchRecs(next)
        BY <1>2 DEF TodoRecs, BatchRecs
    <2>6. /\ op = "append" =>
                /\ DOMAIN manifest \subseteq DOMAIN segs
                /\ cut' \subseteq BatchRecs(next)
                /\ OnFile' \cup TodoRecs = Visible \cup (BatchRecs(next) \ cut')
          /\ op = "compact" =>
                /\ doomed \subseteq Visible /\ cut' \subseteq Visible \ doomed
                /\ OnFile' \cup TodoRecs = Visible \ (doomed \cup cut')
        BY <1>2, <1>11, <2>1, <2>2, SealingWork DEF Working
    <2> QED BY <1>2, <1>5, <1>10, <2>3, <2>4, <2>5, <2>6 DEF Working
<1>12. Working'
    BY <1>2, <1>11 DEF Working
<1> QED BY <1>1, <1>2, <1>7, <1>8, <1>9, <1>12, PrivateStep DEF Good

\* The last segment of the operation is sealed.
LEMMA SealGood == ASSUME TypeOK, TypeOK', Good, Arranged, Seal PROVE Good'
<1>1. present
    BY ManifestPresent DEF Seal
<1> PICK s \in Sealings : disk' = s.disk /\ cut' = cut \cup s.cut
    BY DEF Seal
<1>2. /\ UNCHANGED <<present, manifest, op, nextId, todo, old, readers, next, acked, doomed,
                     dropped, swallowed, trust>>
      /\ pc = "write" /\ pc' = "publish" /\ cur # 0 /\ cur' = 0 /\ todo = {}
      /\ segs' = SegsSealed
    BY DEF Seal, TypeOK
<1>3. cur \in Nat /\ cur \in DOMAIN segs
    BY <1>2 DEF TypeOK, IsSegmentList
<1>0. DOMAIN s.disk = DOMAIN disk /\ \A id \in DOMAIN disk : id # cur => s.disk[id] = disk[id]
    BY <1>3, SealingType DEF TypeOK
<1>4. PublishedKept /\ LowFilesKept
    BY <1>0, <1>2, <1>3, OnCurrentKeeps DEF Good, TypeOK, FreshIds
<1>5. DOMAIN segs' = DOMAIN segs
    BY <1>2, SealedValues
<1>6. FreshIds'
    BY <1>2, <1>5, SameFresh DEF Good
<1>7. Settled' /\ Retired'
    BY <1>2, <1>5 DEF Settled, Retired, Good
<1>8. Visible' = Visible
    BY <1>1, <1>2, <1>4, PrivateStep
<1>9. ASSUME trust = "sound" PROVE Working'
    <2>1. Working /\ (\A id \in DOMAIN segs : Written(id)) /\ Queued
        BY <1>2, <1>9 DEF Good, Working, Arranged
    <2>2. OnFile' = OnFile \ s.cut
        BY <1>2, <1>5, <2>1, SealingRecs DEF OnFile
    <2>3. ASSUME NEW id \in DOMAIN segs' PROVE Written(id)'
        <3>1. /\ id \in DOMAIN s.disk
              /\ \/ /\ SegsSealed[id].sealed
                    /\ s.disk[id] = [recs |-> SegsSealed[id].recs, form |-> "sealed"]
                 \/ /\ s.disk[id].form = "cut"
                    /\ IsPrefix(s.disk[id].recs, SegsSealed[id].recs)
                    /\ Range(SegsSealed[id].recs)
                          \subseteq Range(s.disk[id].recs) \cup (swallowed \cup (cut \cup s.cut))
            BY <1>2, <1>5, <2>1, SealingWritten
        <3>2. id # 0
            BY <1>5 DEF TypeOK, IsSegmentList
        <3>3. (Whole(id, segs[id]) \/ Short(id, segs[id], swallowed \cup cut))'
            BY <1>2, <3>1 DEF Whole, Short
        <3> QED BY <1>2, <3>1, <3>2, <3>3 DEF Written
    <2>4. TodoRecs' = TodoRecs /\ BatchRecs(next)' = BatchRecs(next)
        BY <1>2 DEF TodoRecs, BatchRecs
    <2>5. /\ op = "append" =>
                /\ DOMAIN manifest \subseteq DOMAIN segs
                /\ cut' \subseteq BatchRecs(next)
                /\ OnFile' \cup TodoRecs = Visible \cup (BatchRecs(next) \ cut')
          /\ op = "compact" =>
                /\ doomed \subseteq Visible /\ cut' \subseteq Visible \ doomed
                /\ OnFile' \cup TodoRecs = Visible \ (doomed \cup cut')
        BY <1>2, <1>9, <2>1, <2>2, SealingWork DEF Working
    <2>6. nextId' - 1 \in DOMAIN segs'
        BY <1>2, <1>5, <1>9, <2>1 DEF Working
    <2> QED BY <1>2, <1>5, <1>8, <2>3, <2>4, <2>5, <2>6 DEF Working
<1>10. Working'
    BY <1>2, <1>9 DEF Working
<1> QED BY <1>1, <1>2, <1>4, <1>6, <1>7, <1>10, PrivateStep DEF Good

\* An operation that fails keeps what was published, and the store is degraded.
LEMMA FailedStep ==
    ASSUME TypeOK, Good, pc \notin {"closed", "sweep"}, PublishedKept, LowFilesKept,
           UNCHANGED <<present, manifest, acked, dropped, swallowed, readers, nextId>>,
           next' \in {next, next + 1}, cur' \in {0, cur}, DOMAIN segs' \subseteq DOMAIN segs,
           pc' = "idle", op' = "none", trust' # "sound"
    PROVE  Good'
<1>1. present
    BY ManifestPresent
<1>2. FreshIds'
    BY SameFresh DEF Good
<1>3. Settled' /\ Retired' /\ Working'
    BY DEF Settled, Retired, Working
<1> QED BY <1>1, <1>2, <1>3, PrivateStep DEF Good

\* A step that leaves the disk and the manifest alone keeps the files.
LEMMA SameFiles ==
    ASSUME Accounted(manifest, swallowed), disk' = disk PROVE PublishedKept /\ LowFilesKept
BY DEF PublishedKept, LowFilesKept, Accounted

\* In a sound store, what is about to be published is accounted for, and reaches as far as
\* what was published before.
LEMMA PublishSound ==
    ASSUME TypeOK, Good, trust = "sound", pc = "publish"
    PROVE  /\ Accounted(segs, swallowed \cup cut) /\ cur = 0 /\ TodoRecs = {}
           /\ RecsOf(disk, DOMAIN segs \cap DOMAIN disk) = OnFile
           /\ \A m \in DOMAIN manifest : \E n \in DOMAIN segs : m <= n
<1>1. Working /\ cur = 0 /\ todo = {} /\ nextId - 1 \in DOMAIN segs
      /\ \A id \in DOMAIN segs : Written(id)
    BY DEF Good, Working
<1>2. ASSUME NEW id \in DOMAIN segs
      PROVE  /\ id \in DOMAIN disk
             /\ Whole(id, segs[id]) \/ Short(id, segs[id], swallowed \cup cut)
    BY <1>1 DEF TypeOK, IsSegmentList, Written
<1>3. Accounted(segs, swallowed \cup cut)
    BY <1>2 DEF Accounted
<1>4. \A m \in DOMAIN manifest : m \in Nat /\ m < nextId /\ nextId \in Nat
    BY DEF Good, FreshIds, TypeOK, IsSegmentList
<1>5. \A m \in DOMAIN manifest : m <= nextId - 1
    BY <1>4
<1>6. DOMAIN segs \cap DOMAIN disk = DOMAIN segs
    BY <1>2
<1> QED BY <1>1, <1>3, <1>5, <1>6 DEF TodoRecs, OnFile

\* A publication that does not lose the store replaces the manifest, and only a sound
\* process can do that.
LEMMA Published ==
    ASSUME TypeOK, NEW list, Publish(list), trust # "lost", trust' # "lost"
    PROVE  manifest' = list /\ present' /\ trust = "sound"
BY DEF Publish, LoseManifest, Exposed, TypeOK

\* What is the same for a publication by either operation.
LEMMA PublishStep ==
    ASSUME TypeOK, TypeOK', Good, trust = "sound", trust' # "lost", pc = "publish", WriteManifest,
           UNCHANGED <<disk, segs, cur, nextId, readers>>, acked \subseteq acked',
           swallowed' = swallowed \cup cut,
           pc' \in {"idle", "remove"}, op' = "none"
    PROVE  /\ Accounted(manifest, swallowed)' /\ Visible' = OnFile
           /\ FirstOpen' /\ FreshIds' /\ Settled' /\ Working' /\ ReadersBehind'
<1>1. manifest' = segs /\ present' /\ ~dirty'
    BY Published DEF WriteManifest
<1>2. Accounted(manifest, swallowed)'
    BY <1>1, PublishSound DEF Accounted, Whole, Short
<1>3. Visible' = OnFile
    BY <1>1, PublishSound DEF Visible, RecsOf
<1>4. FirstOpen' /\ Settled' /\ Working'
    BY <1>1, PublishSound DEF FirstOpen, Settled, Working, Mirrored
<1>5. FreshIds'
    BY <1>1, PublishSound DEF Good, FreshIds
<1>6. LowFilesKept
    BY DEF LowFilesKept
<1>7. ReadersBehind'
    BY <1>1, <1>6, PublishSound, ReadersKept DEF Good, TypeOK
<1> QED BY <1>2, <1>3, <1>4, <1>5, <1>7

\* append_many publishes the manifest.
LEMMA AppendPublishGood ==
    ASSUME TypeOK, TypeOK', Good, AppendPublish, trust # "lost", trust' # "lost" PROVE Good'
<1>1. trust = "sound" /\ pc = "publish" /\ op = "append"
    BY Published DEF AppendPublish, WriteManifest
<1>2. /\ WriteManifest /\ acked' = acked \cup {next} /\ next' = next + 1
      /\ pc' = "idle" /\ op' = "none" /\ swallowed' = swallowed \cup cut
      /\ UNCHANGED <<disk, segs, cur, nextId, readers, dropped>>
    BY DEF AppendPublish
<1>3. /\ Accounted(manifest, swallowed)' /\ Visible' = OnFile
      /\ FirstOpen' /\ FreshIds' /\ Settled' /\ Working' /\ ReadersBehind'
    BY <1>1, <1>2, PublishStep
<1>4. OnFile = Visible \cup (BatchRecs(next) \ cut) /\ cut \subseteq BatchRecs(next)
    BY <1>1, PublishSound DEF Good, Working
<1>5. AckedRecs' = AckedRecs \cup BatchRecs(next)
    BY <1>2 DEF AckedRecs, BatchRecs
<1>6. \A n \in acked : n < next /\ n \in Nat /\ next \in Nat
    BY DEF Good, HistoryOrdered, TypeOK
<1>7. BatchRecs(next) \cap AckedRecs = {}
    BY <1>6 DEF AckedRecs, BatchRecs
<1>8. (Visible = AckedRecs \ (dropped \cup swallowed))'
    <2>1. /\ dropped \subseteq AckedRecs /\ swallowed \subseteq AckedRecs
          /\ Visible = AckedRecs \ (dropped \cup swallowed)
        BY DEF Good, HistoryOrdered
    <2>2. Visible \cup (BatchRecs(next) \ cut) =
             (AckedRecs \cup BatchRecs(next)) \ (dropped \cup (swallowed \cup cut))
        BY <1>4, <1>7, <2>1
    <2> QED BY <1>2, <1>3, <1>4, <1>5, <2>2
<1>9. HistoryOrdered'
    <2>1. \A n \in acked' : n < next'
        BY <1>2, <1>6 DEF TypeOK
    <2>2. dropped' \subseteq AckedRecs' /\ swallowed' \subseteq AckedRecs'
        BY <1>2, <1>4, <1>5 DEF Good, HistoryOrdered
    <2> QED BY <2>1, <2>2 DEF HistoryOrdered
<1>10. Retired'
    BY <1>2 DEF Retired
<1> QED BY <1>3, <1>8, <1>9, <1>10 DEF Good

\* compact() publishes the manifest.
LEMMA CompactPublishGood ==
    ASSUME TypeOK, TypeOK', Good, CompactPublish, trust # "lost", trust' # "lost" PROVE Good'
<1>1. trust = "sound" /\ pc = "publish" /\ op = "compact"
    BY Published DEF CompactPublish, WriteManifest
<1>2. /\ WriteManifest /\ dropped' = dropped \cup doomed
      /\ pc' = "remove" /\ op' = "none" /\ swallowed' = swallowed \cup cut
      /\ UNCHANGED <<disk, segs, cur, nextId, old, readers, next, acked>>
    BY DEF CompactPublish
<1>3. /\ Accounted(manifest, swallowed)' /\ Visible' = OnFile
      /\ FirstOpen' /\ FreshIds' /\ Settled' /\ Working' /\ ReadersBehind'
    BY <1>1, <1>2, PublishStep
<1>4. /\ OnFile = Visible \ (doomed \cup cut) /\ doomed \subseteq Visible
      /\ cut \subseteq Visible
    BY <1>1, PublishSound DEF Good, Working
<1>5. AckedRecs' = AckedRecs
    BY <1>2 DEF AckedRecs
<1>6. (Visible = AckedRecs \ (dropped \cup swallowed))'
    BY <1>2, <1>3, <1>4, <1>5 DEF Good
<1>7. HistoryOrdered'
    BY <1>2, <1>4, <1>5 DEF Good, HistoryOrdered
<1>8. Retired'
    <2>1. manifest' = segs
        BY <1>1, <1>2, Published DEF WriteManifest
    <2> QED BY <1>1, <1>2, <2>1 DEF Good, Retired
<1> QED BY <1>3, <1>6, <1>7, <1>8 DEF Good

\* Opening loads the published segments, as their files are.
LEMMA LoadedIsPublished ==
    ASSUME TypeOK, Good
    PROVE  /\ DOMAIN LoadedSegments = DOMAIN manifest
           /\ \A id \in DOMAIN manifest : LoadedSegments[id] = Found(id)
<1>1. present \/ DOMAIN disk = DOMAIN manifest
    BY DEF Good, FirstOpen
<1>2. LoadedSegments = Scan(DOMAIN manifest)
    BY <1>1 DEF LoadedSegments
<1> QED BY <1>2 DEF Scan

\* The lock holder opens the store.
LEMMA OpenGood == ASSUME TypeOK, TypeOK', Good, Open PROVE Good'
<1>1. /\ segs' = LoadedSegments /\ nextId' \in NextIds(DOMAIN segs') /\ dirty' = ~present
      /\ pc = "closed" /\ pc' = "sweep" /\ cur = 0
      /\ UNCHANGED <<disk, present, manifest, op, cur, todo, old, readers, next, acked, doomed,
                     dropped, cut, swallowed, trust>>
    BY DEF Open, history, TypeOK
<1>2. PublishedKept /\ LowFilesKept
    BY <1>1, SameFiles DEF Good
<1>3. FirstOpen'
    BY <1>1 DEF Good, FirstOpen
<1>4. DOMAIN segs' = DOMAIN manifest' /\ \A id \in DOMAIN manifest' : id < nextId'
    BY <1>1, LoadedIsPublished, NextIdsType DEF TypeOK, IsSegmentList
<1>5. FreshIds'
    BY <1>1, <1>4 DEF FreshIds
<1>6. Mirrored'
    <2>1. \A id \in DOMAIN segs' : segs'[id] = Found(id)'
        BY <1>1, <1>4, LoadedIsPublished DEF Found
    <2> QED BY <1>4, <2>1 DEF Mirrored
<1>7. Settled'
    BY <1>1, <1>6 DEF Settled, Good, FirstOpen
<1>8. Retired' /\ Working'
    BY <1>1 DEF Retired, Working, TypeOK
<1> QED BY <1>1, <1>2, <1>3, <1>5, <1>7, <1>8, PrivateStep DEF Good

\* It removes an orphan.
LEMMA SweepGood ==
    ASSUME TypeOK, TypeOK', Good, NEW id \in DOMAIN disk, SweepOrphan(id) PROVE Good'
<1>1. /\ pc = "sweep" /\ Mirrored /\ disk' = Without(disk, {id})
      /\ id \notin DOMAIN manifest
      /\ UNCHANGED <<present, manifest, memory, readers, next, acked, doomed, dropped, cut,
                     swallowed, trust>>
    BY DEF SweepOrphan, Orphans, Good, Settled, Mirrored, history
<1>2. PublishedKept /\ LowFilesKept
    BY <1>1, WithoutKeeps DEF Good
<1>3. DOMAIN disk' \subseteq DOMAIN disk
    BY <1>1 DEF Without, Restrict
<1>4. FirstOpen'
    BY <1>1, <1>3 DEF Good, FirstOpen, memory
<1>5. Settled'
    <2>1. Mirrored'
        BY <1>1, <1>2, MirroredKept DEF Good, memory
    <2> QED BY <1>1, <2>1 DEF Good, Settled, memory
<1>6. FreshIds' /\ Retired' /\ Working'
    BY <1>1 DEF Good, FreshIds, Retired, Working, memory
<1> QED BY <1>1, <1>2, <1>4, <1>5, <1>6, PrivateStep DEF Good

\* It finishes opening, with the first manifest if there was none.
LEMMA OpenDoneKeeps ==
    ASSUME TypeOK, Good, OpenDone, trust # "lost", trust' # "lost"
    PROVE  manifest' = manifest /\ (present' \/ present' = present) /\ trust' = trust
<1>1. CASE ~dirty
    BY <1>1 DEF OpenDone
<1>2. CASE dirty
    <2>1. manifest' = segs /\ present' /\ trust = "sound" /\ trust' = trust
        BY <1>2, Published DEF OpenDone, Publish, LoseManifest, Exposed
    <2>2. DOMAIN manifest = {} /\ DOMAIN segs = {}
        BY <1>2 DEF OpenDone, Good, Settled, Mirrored
    <2>3. manifest = [id \in {} |-> manifest[id]] /\ segs = [id \in {} |-> segs[id]]
        BY <2>2 DEF TypeOK, IsSegmentList
    <2> QED BY <2>1, <2>2, <2>3
<1> QED BY <1>1, <1>2

LEMMA OpenDoneGood ==
    ASSUME TypeOK, TypeOK', Good, OpenDone, trust # "lost", trust' # "lost" PROVE Good'
<1>1. /\ pc = "sweep" /\ pc' = "idle" /\ Mirrored /\ ~dirty' /\ cur = 0
      /\ manifest' = manifest /\ (present' \/ present' = present) /\ trust' = trust
      /\ op = "none"
      /\ UNCHANGED <<disk, op, segs, cur, nextId, todo, old, readers, next, acked, doomed,
                     dropped, cut, swallowed>>
    BY OpenDoneKeeps DEF OpenDone, Good, Settled, FreshIds, TypeOK
<1>2. present'
    <2>1. CASE dirty
        BY <2>1, Published DEF OpenDone
    <2>2. CASE ~dirty
        BY <1>1, <2>2 DEF Good, FirstOpen, OpenDone
    <2> QED BY <2>1, <2>2
<1>3. PublishedKept /\ LowFilesKept
    BY <1>1, SameFiles DEF Good
<1>4. Accounted(manifest, swallowed)' /\ Visible' = Visible
    BY <1>1, <1>3, LogKept DEF Good
<1>5. (Visible = AckedRecs \ (dropped \cup swallowed))' /\ HistoryOrdered'
    BY <1>1, <1>4 DEF Good, AckedRecs, HistoryOrdered
<1>6. FirstOpen'
    BY <1>2 DEF FirstOpen
<1>7. Settled'
    <2>1. Mirrored'
        BY <1>1, <1>3, MirroredKept DEF Good
    <2> QED BY <1>1, <2>1 DEF Settled
<1>10. FreshIds' /\ Retired' /\ Working'
    BY <1>1 DEF Good, FreshIds, Retired, Working
<1>8. \A m \in DOMAIN manifest : m <= m
    BY DEF TypeOK, IsSegmentList
<1>9. ReadersBehind'
    BY <1>1, <1>3, <1>8, ReadersKept DEF Good, TypeOK
<1> QED BY <1>4, <1>5, <1>6, <1>7, <1>9, <1>10 DEF Good

\* The process is gone: memory is empty and the published files are untouched.
LEMMA GoneGood ==
    ASSUME TypeOK, Good, PublishedKept, LowFilesKept, Gone,
           UNCHANGED <<present, manifest, acked, dropped, swallowed, readers>>,
           next' \in {next, next + 1}, DOMAIN disk' \subseteq DOMAIN disk
    PROVE  Good'
<1>1. FirstOpen'
    BY DEF Good, FirstOpen, Gone
<1>2. FreshIds' /\ Settled' /\ Retired' /\ Working'
    BY DEF Gone, FreshIds, Settled, Retired, Working
<1> QED BY <1>1, <1>2, PrivateStep DEF Good

\* It crashed, with part of the current file written.
LEMMA CrashGood == ASSUME TypeOK, TypeOK', Good, Crash PROVE Good'
<1>1. /\ Gone /\ next' \in {next, next + 1}
      /\ UNCHANGED <<present, manifest, acked, dropped, swallowed, readers>>
    BY DEF Crash
<1>2. DOMAIN disk' = DOMAIN disk /\ \A id \in DOMAIN disk : id # cur => disk'[id] = disk[id]
    BY DEF Crash, OnCurrent
<1>3. cur \in Nat
    BY DEF TypeOK, IsSegmentList
<1>4. PublishedKept /\ LowFilesKept
    BY <1>2, <1>3, OnCurrentKeeps DEF Good, TypeOK, FreshIds
<1> QED BY <1>1, <1>2, <1>4, GoneGood

\* A step that leaves the disk, the manifest and the lock holder alone.
LEMMA Untouched ==
    ASSUME TypeOK, Good, present' \/ present' = present,
           UNCHANGED <<disk, manifest, memory, next, acked, doomed, dropped, cut, swallowed, trust>>
    PROVE  /\ Accounted(manifest, swallowed)' /\ Visible' = Visible /\ AckedRecs' = AckedRecs
           /\ (Visible = AckedRecs \ (dropped \cup swallowed))'
           /\ FirstOpen' /\ HistoryOrdered' /\ FreshIds' /\ Settled' /\ Retired' /\ Working'
<1>1. PublishedKept
    BY SameFiles DEF Good
<1>2. Accounted(manifest, swallowed)' /\ Visible' = Visible /\ AckedRecs' = AckedRecs
    BY <1>1, LogKept DEF Good, AckedRecs
<1>3. (Visible = AckedRecs \ (dropped \cup swallowed))' /\ HistoryOrdered'
    BY <1>2 DEF Good, HistoryOrdered
<1>4. FirstOpen' /\ FreshIds' /\ Retired'
    BY DEF Good, FirstOpen, FreshIds, Retired, memory
<1>5. Settled'
    <2>1. Mirrored => Mirrored'
        BY <1>1, MirroredKept DEF Good, memory
    <2> QED BY <2>1 DEF Good, Settled, memory
<1>6. Working'
    <2>1. ASSUME NEW id \in DOMAIN segs, Written(id) PROVE Written(id)'
        BY <2>1 DEF Written, Whole, Short, memory
    <2>2. OnFile' = OnFile /\ TodoRecs' = TodoRecs /\ BatchRecs(next)' = BatchRecs(next)
        BY DEF OnFile, RecsOf, TodoRecs, BatchRecs, memory
    <2> QED BY <1>2, <2>1, <2>2 DEF Good, Working, memory
<1> QED BY <1>2, <1>3, <1>4, <1>5, <1>6

\* A lock-free process loads the manifest.
LEMMA ReaderOpenGood ==
    ASSUME TypeOK, TypeOK', Good, NEW r \in Readers, ReaderOpen(r) PROVE Good'
<1>1. /\ rpc' = [rpc EXCEPT ![r] = "sweep"] /\ rsegs' = [rsegs EXCEPT ![r] = LoadedSegments]
      /\ UNCHANGED <<disk, present, manifest, memory, next, acked, doomed, dropped, cut, swallowed,
                     trust>>
    BY DEF ReaderOpen, history
<1>2. /\ Accounted(manifest, swallowed)' /\ AckedRecs' = AckedRecs
      /\ (Visible = AckedRecs \ (dropped \cup swallowed))'
      /\ FirstOpen' /\ HistoryOrdered' /\ FreshIds' /\ Settled' /\ Retired' /\ Working'
    BY <1>1, Untouched
<1>4. ReadersBehind'
    <2> SUFFICES ASSUME NEW q \in Readers, rpc'[q] # "closed", NEW id \in DOMAIN rsegs'[q]
                 PROVE  /\ \E m \in DOMAIN manifest : id <= m
                        /\ id \in DOMAIN disk => Range(disk[id].recs) \subseteq AckedRecs
        BY <1>1, <1>2 DEF ReadersBehind
    <2>1. CASE q = r
        <3>3. id \in DOMAIN manifest
            BY <1>1, <2>1, LoadedIsPublished DEF TypeOK
        <3>1. id \in DOMAIN manifest /\ id <= id /\ id \in DOMAIN disk
            <4>1. id \in Nat
                BY <3>3 DEF TypeOK, IsSegmentList
            <4>2. id \in DOMAIN disk
                BY <3>3 DEF Good, Accounted
            <4> QED BY <3>3, <4>1, <4>2
        <3>2. Range(disk[id].recs) \subseteq Visible
            BY <3>1 DEF Visible, RecsOf
        <3> QED BY <3>1, <3>2 DEF Good
    <2>2. CASE q # r
        BY <1>1, <2>2 DEF Good, ReadersBehind, TypeOK
    <2> QED BY <2>1, <2>2
<1> QED BY <1>2, <1>4 DEF Good

\* It removes a file nobody relies on.
LEMMA ReaderSweepGood ==
    ASSUME TypeOK, TypeOK', Good, NEW r \in Readers, NEW id \in DOMAIN disk,
           ReaderSweep(r, id), trust' # "lost"
    PROVE  Good'
<1>1. /\ id \notin DOMAIN manifest /\ id \notin DOMAIN segs /\ disk' = Without(disk, {id})
      /\ UNCHANGED <<present, manifest, memory, readers, next, acked, doomed, dropped, cut,
                     swallowed, trust>>
    BY DEF ReaderSweep
<1>2. PublishedKept /\ LowFilesKept
    BY <1>1, WithoutKeeps DEF Good
<1>3. /\ DOMAIN disk' \subseteq DOMAIN disk
      /\ \A j \in DOMAIN segs : j \in DOMAIN disk => j \in DOMAIN disk' /\ disk'[j] = disk[j]
    BY <1>1 DEF Without, Restrict
<1>4. FirstOpen'
    BY <1>1, <1>3 DEF Good, FirstOpen, memory
<1>5. Visible' = Visible
    BY <1>1, <1>2, LogKept DEF Good
<1>6. FreshIds' /\ Settled' /\ Retired'
    <2>1. Mirrored => Mirrored'
        BY <1>1, <1>2, MirroredKept DEF Good, memory
    <2> QED BY <1>1, <2>1 DEF Good, FreshIds, Settled, Retired, memory
<1>7. ASSUME NEW j \in DOMAIN segs, Written(j) PROVE Written(j)' /\ disk'[j] = disk[j]
    BY <1>1, <1>3, <1>7 DEF Written, Whole, Short, memory
<1>9. (\A id_1 \in DOMAIN segs : Written(id_1)) => OnFile' = OnFile
    BY <1>1, <1>7 DEF OnFile, RecsOf, memory
<1>8. Working'
    BY <1>1, <1>5, <1>7, <1>9 DEF Good, Working, TodoRecs, BatchRecs, memory
<1> QED BY <1>1, <1>2, <1>4, <1>6, <1>8, PrivateStep DEF Good

\* It finishes opening; what it may publish is what is published.
LEMMA ReaderDoneGood ==
    ASSUME TypeOK, TypeOK', Good, NEW r \in Readers, ReaderDone(r), trust # "lost",
           trust' # "lost"
    PROVE  Good'
<1>1. /\ manifest' = manifest /\ (present' \/ present' = present) /\ trust' = trust
      /\ rpc[r] = "sweep" /\ rpc' = [rpc EXCEPT ![r] = "open"]
      /\ UNCHANGED <<disk, memory, rsegs, next, acked, doomed, dropped, cut, swallowed>>
    BY DEF ReaderDone, LoseManifest
<1>2. /\ Accounted(manifest, swallowed)' /\ AckedRecs' = AckedRecs
      /\ (Visible = AckedRecs \ (dropped \cup swallowed))'
      /\ FirstOpen' /\ HistoryOrdered' /\ FreshIds' /\ Settled' /\ Retired' /\ Working'
    BY <1>1, Untouched
<1>4. \A q \in Readers : rpc'[q] # "closed" => rpc[q] # "closed"
    BY <1>1 DEF TypeOK
<1>5. ReadersBehind'
    BY <1>1, <1>2, <1>4 DEF Good, ReadersBehind
<1> QED BY <1>2, <1>5 DEF Good

\* It closes the store.
LEMMA ReaderCloseGood ==
    ASSUME TypeOK, TypeOK', Good, NEW r \in Readers, ReaderClose(r) PROVE Good'
<1>1. /\ rpc' = [rpc EXCEPT ![r] = "closed"] /\ rsegs' = [rsegs EXCEPT ![r] = NoSegments]
      /\ UNCHANGED <<disk, present, manifest, memory, next, acked, doomed, dropped, cut, swallowed,
                     trust>>
    BY DEF ReaderClose, history
<1>2. /\ Accounted(manifest, swallowed)' /\ AckedRecs' = AckedRecs
      /\ (Visible = AckedRecs \ (dropped \cup swallowed))'
      /\ FirstOpen' /\ HistoryOrdered' /\ FreshIds' /\ Settled' /\ Retired' /\ Working'
    BY <1>1, Untouched
<1>4. \A q \in Readers : rpc'[q] # "closed" => rpc[q] # "closed" /\ rsegs'[q] = rsegs[q]
    BY <1>1 DEF TypeOK
<1>5. ReadersBehind'
    BY <1>1, <1>2, <1>4 DEF Good, ReadersBehind
<1> QED BY <1>2, <1>5 DEF Good

\* Every step keeps the invariant.
LEMMA StepGood ==
    ASSUME TypeOK, TypeOK', Good, Arranged, [Next]_vars, trust # "lost", trust' # "lost"
    PROVE  Good'
<1>1. CASE Open
    BY <1>1, OpenGood
<1>2. ASSUME NEW id \in DOMAIN disk, SweepOrphan(id) PROVE Good'
    BY <1>2, SweepGood
<1>3. CASE OpenDone
    BY <1>3, OpenDoneGood
<1>4. CASE AppendBegin
    BY <1>4, AppendBeginGood
<1>5. CASE AppendRefused
    <2>1. /\ UNCHANGED <<disk, present, manifest, memory, readers, acked, doomed, dropped, cut,
                         swallowed, trust>>
          /\ next' = next + 1 /\ pc = "idle"
        BY <1>5 DEF AppendRefused
    <2>2. PublishedKept /\ LowFilesKept
        BY <2>1, SameFiles DEF Good
    <2>5. Mirrored => Mirrored'
        BY <2>1, <2>2, MirroredKept DEF Good, memory
    <2>3. FreshIds' /\ Settled' /\ Retired' /\ Working'
        BY <2>1, <2>5 DEF Good, FreshIds, Settled, Retired, Working, memory
    <2>4. present
        BY <2>1, ManifestPresent
    <2> QED BY <2>1, <2>2, <2>3, <2>4, PrivateStep DEF Good
<1>6. CASE CompactBegin
    BY <1>6, CompactBeginGood
<1>7. CASE CompactOpenFails
    <2>1. DOMAIN segs' = {} /\ trust' # "sound"
        BY <1>7 DEF CompactOpenFails, NoSegments, Fail
    <2>2. op = "none"
        BY <1>7 DEF CompactOpenFails, TypeOK
    <2>3. PublishedKept /\ LowFilesKept
        BY <1>7, SameFiles DEF CompactOpenFails, Good
    <2> QED BY <1>7, <2>1, <2>2, <2>3, FailedStep DEF CompactOpenFails
<1>8. CASE WriteFrame
    BY <1>8, WriteFrameGood
<1>9. CASE WriteFails
    <2>1. DOMAIN disk' = DOMAIN disk /\ \A id \in DOMAIN disk : id # cur => disk'[id] = disk[id]
        BY <1>9 DEF WriteFails, OnCurrent
    <2>2. PublishedKept /\ LowFilesKept
        BY <2>1, OnCurrentKeeps DEF Good, TypeOK, FreshIds, IsSegmentList
    <2>3. trust' # "sound"
        BY <1>9 DEF WriteFails, Fail
    <2> QED BY <1>9, <2>2, <2>3, FailedStep DEF WriteFails, Abandon
<1>10. CASE Rotate
    BY <1>10, RotateGood
<1>11. CASE RotateRefused
    <2> PICK s \in Sealings : disk' = s.disk
        BY <1>11 DEF RotateRefused
    <2>1. cur # 0 /\ segs' = SegsSealed /\ cur \in DOMAIN segs
        BY <1>11 DEF RotateRefused, TypeOK
    <2>4. DOMAIN disk' = DOMAIN disk /\ \A id \in DOMAIN disk : id # cur => disk'[id] = disk[id]
        BY <2>1, SealingType DEF TypeOK
    <2>2. PublishedKept /\ LowFilesKept
        BY <2>1, <2>4, OnCurrentKeeps DEF Good, TypeOK, FreshIds, IsSegmentList
    <2>3. trust' # "sound" /\ DOMAIN segs' \subseteq DOMAIN segs
        BY <1>11, <2>1, SealedValues DEF RotateRefused, Fail
    <2> QED BY <1>11, <2>2, <2>3, FailedStep DEF RotateRefused, Abandon
<1>12. CASE Seal
    BY <1>12, SealGood
<1>13. CASE SealFails
    <2>1. DOMAIN disk' = DOMAIN disk /\ \A id \in DOMAIN disk : id # cur => disk'[id] = disk[id]
        BY <1>13, CutType DEF SealFails, TypeOK
    <2>2. PublishedKept /\ LowFilesKept
        BY <2>1, OnCurrentKeeps DEF Good, TypeOK, FreshIds, IsSegmentList
    <2>3. trust' # "sound"
        BY <1>13 DEF SealFails, Fail
    <2> QED BY <1>13, <2>2, <2>3, FailedStep DEF SealFails, Abandon
<1>14. CASE AppendPublish
    BY <1>14, AppendPublishGood
<1>15. CASE CompactPublish
    BY <1>15, CompactPublishGood
<1>16. CASE PublishFails
    <2>1. Fail /\ UNCHANGED <<present, manifest>>
        BY <1>16 DEF PublishFails, LoseManifest
    <2>2. PublishedKept /\ LowFilesKept /\ trust' # "sound"
        BY <1>16, <2>1, SameFiles DEF PublishFails, Good, Fail
    <2> QED BY <1>16, <2>1, <2>2, FailedStep DEF PublishFails, Abandon
<1>17. CASE Flush
    BY <1>17, Published DEF Flush, WriteManifest, Good, Settled
<1>18. ASSUME NEW id \in old, RemoveOld(id) PROVE Good'
    <2>1. /\ pc = "remove" /\ old' = old \ {id} /\ id \notin DOMAIN manifest
          /\ UNCHANGED <<present, manifest, pc, op, segs, cur, nextId, dirty, todo, readers, next,
                         acked, doomed, dropped, cut, swallowed, trust>>
        BY <1>18 DEF RemoveOld, Good, Retired, history
    <2>2. PublishedKept /\ LowFilesKept
        BY <1>18, <2>1, WithoutKeeps, SameFiles DEF RemoveOld, Good
    <2>5. Mirrored => Mirrored'
        BY <2>1, <2>2, MirroredKept DEF Good
    <2>3. FreshIds' /\ Settled' /\ Retired' /\ Working'
        BY <2>1, <2>5 DEF Good, FreshIds, Settled, Retired, Working
    <2>4. present
        BY <2>1, ManifestPresent
    <2> QED BY <2>1, <2>2, <2>3, <2>4, PrivateStep DEF Good
<1>19. CASE CompactDone
    <2>1. /\ pc = "remove" /\ pc' = "idle"
          /\ UNCHANGED <<disk, present, manifest, op, segs, cur, nextId, dirty, todo, old, readers,
                         next, acked, doomed, dropped, cut, swallowed, trust>>
        BY <1>19 DEF CompactDone, history
    <2>2. PublishedKept /\ LowFilesKept
        BY <2>1, SameFiles DEF Good
    <2>5. Mirrored => Mirrored'
        BY <2>1, <2>2, MirroredKept DEF Good
    <2>3. FreshIds' /\ Settled' /\ Retired' /\ Working'
        BY <2>1, <2>5 DEF Good, FreshIds, Settled, Retired, Working
    <2>4. present
        BY <2>1, ManifestPresent
    <2> QED BY <2>1, <2>2, <2>3, <2>4, PrivateStep DEF Good
<1>20. CASE Close
    BY <1>20, SameFiles, GoneGood DEF Close, Good
<1>21. CASE CloseOpenSegment
    <2>1. trust # "sound" /\ pc = "idle" /\ cur # 0 /\ cur \in DOMAIN segs
        BY <1>21 DEF CloseOpenSegment, Good, Settled, TypeOK
    <2>2. \E s \in Sealings : IoErrors /\ disk' = s.disk /\ UNCHANGED <<present, manifest>> /\ Forget
        BY <1>21, <2>1, Published DEF CloseOpenSegment
    <2>3. DOMAIN disk' = DOMAIN disk /\ \A id \in DOMAIN disk : id # cur => disk'[id] = disk[id]
        BY <2>1, <2>2, SealingType DEF TypeOK
    <2>4. PublishedKept /\ LowFilesKept
        BY <2>3, OnCurrentKeeps DEF Good, TypeOK, FreshIds, IsSegmentList
    <2> QED BY <1>21, <2>2, <2>3, <2>4, GoneGood DEF CloseOpenSegment
<1>22. CASE Crash
    BY <1>22, CrashGood
<1>23. ASSUME NEW r \in Readers, ReaderOpen(r) PROVE Good'
    BY <1>23, ReaderOpenGood
<1>24. ASSUME NEW r \in Readers, NEW id \in DOMAIN disk, ReaderSweep(r, id) PROVE Good'
    BY <1>24, ReaderSweepGood
<1>25. ASSUME NEW r \in Readers, ReaderDone(r) PROVE Good'
    BY <1>25, ReaderDoneGood
<1>26. ASSUME NEW r \in Readers, ReaderClose(r) PROVE Good'
    BY <1>26, ReaderCloseGood
<1>27. CASE UNCHANGED vars
    <2>1. UNCHANGED <<disk, present, manifest, memory, readers, next, acked, doomed, dropped, cut,
                      swallowed, trust>>
        BY <1>27 DEF vars, history
    <2>2. ReadersBehind'
        BY <2>1 DEF Good, ReadersBehind, AckedRecs, readers
    <2> QED BY <2>1, <2>2, Untouched DEF Good
<1>28. CASE CompactAll
    BY <1>28 DEF CompactAll
<1> QED
    BY <1>1, <1>2, <1>3, <1>4, <1>5, <1>6, <1>7, <1>8, <1>9, <1>10, <1>11, <1>12, <1>13,
       <1>14, <1>15, <1>16, <1>17, <1>18, <1>19, <1>20, <1>21, <1>22, <1>23, <1>24, <1>25,
       <1>26, <1>27, <1>28 DEF Next, LockHolder, LockFree

-------------------------------------------------------------------------------
(* Order and packing *)

\* Lists with the same records are in the same order, and as large.
LEMMA SameRecords ==
    ASSUME NEW f, NEW g, DOMAIN g = DOMAIN f, \A id \in DOMAIN f : g[id].recs = f[id].recs
    PROVE  (InOrder(f) => InOrder(g)) /\ (Fits(f) => Fits(g)) /\ Places(g) = Places(f)
<1>1. InOrder(f) => InOrder(g)
    BY DEF InOrder
<1>2. Fits(f) => Fits(g)
    BY DEF Fits
<1>3. Places(g) = Places(f)
    BY DEF Places
<1> QED BY <1>1, <1>2, <1>3

\* A new empty segment changes neither, but for the place it takes.
LEMMA OneMoreSegment ==
    ASSUME NEW f, NEW id, id \notin DOMAIN f, Fits(f), Cardinality(DOMAIN f) < MaxSegments,
           InOrder(f)
    PROVE  /\ InOrder(Put(f, id, EmptyInfo)) /\ Fits(Put(f, id, EmptyInfo))
           /\ Places(Put(f, id, EmptyInfo)) = Places(f)
<1> DEFINE g == Put(f, id, EmptyInfo)
<1>1. /\ DOMAIN g = DOMAIN f \cup {id} /\ g[id].recs = << >>
      /\ \A j \in DOMAIN f : g[j] = f[j]
    BY DEF Put, EmptyInfo
<1> HIDE DEF g
<1>2. InOrder(g)
    <2> SUFFICES ASSUME NEW a \in DOMAIN g, NEW b \in DOMAIN g,
                        NEW i \in DOMAIN g[a].recs, NEW j \in DOMAIN g[b].recs,
                        a < b \/ (a = b /\ i < j)
                 PROVE  Before(g[a].recs[i], g[b].recs[j])
        BY DEF InOrder
    <2>1. a # id /\ b # id
        BY <1>1
    <2>2. a \in DOMAIN f /\ b \in DOMAIN f /\ g[a] = f[a] /\ g[b] = f[b]
        BY <1>1, <2>1
    <2> QED BY <2>2 DEF InOrder
<1>3. Fits(g)
    <2>1. IsFiniteSet(DOMAIN g) /\ Cardinality(DOMAIN g) = Cardinality(DOMAIN f) + 1
        BY <1>1, FS_AddElement DEF Fits
    <2>2. Cardinality(DOMAIN f) \in Nat
        BY FS_CardinalityType DEF Fits
    <2>3. \A j \in DOMAIN g : Len(g[j].recs) <= SegCap
        BY <1>1 DEF Fits
    <2> QED BY <2>1, <2>2, <2>3 DEF Fits
<1>4. Places(g) = Places(f)
    <2>1. ASSUME NEW u \in Places(g) PROVE u \in Places(f)
        <3>1. u[1] \in DOMAIN g /\ u[2] \in 1..SegCap /\ u[2] <= Len(g[u[1]].recs)
              /\ u = <<u[1], u[2]>>
            BY DEF Places
        <3>2. u[1] # id
            BY <1>1, <3>1
        <3> QED BY <1>1, <3>1, <3>2 DEF Places
    <2>2. ASSUME NEW u \in Places(f) PROVE u \in Places(g)
        BY <1>1, <2>2 DEF Places
    <2> QED BY <2>1, <2>2
<1> QED BY <1>2, <1>3, <1>4 DEF g

\* A new list with one empty segment is in order and fits.
LEMMA FirstSegment ==
    ASSUME NEW id
    PROVE  /\ InOrder(Put(NoSegments, id, EmptyInfo)) /\ Fits(Put(NoSegments, id, EmptyInfo))
           /\ Places(Put(NoSegments, id, EmptyInfo)) = {}
<1>1. DOMAIN NoSegments = {}
    BY DEF NoSegments
<1>2. InOrder(NoSegments) /\ Places(NoSegments) = {}
    BY <1>1 DEF InOrder, Places
<1>3. Fits(NoSegments) /\ Cardinality(DOMAIN NoSegments) < MaxSegments
    BY <1>1, FS_EmptySet DEF Fits
<1> QED BY <1>1, <1>2, <1>3, OneMoreSegment

\* A list that fits has finitely many frames, and no more than its segments hold.
LEMMA PlacesCounted ==
    ASSUME NEW f, Fits(f)
    PROVE  /\ IsFiniteSet(Places(f)) /\ Cardinality(Places(f)) \in Nat
           /\ Cardinality(DOMAIN f) \in Nat
           /\ Cardinality(Places(f)) <= Cardinality(DOMAIN f) * SegCap
<1> DEFINE D == DOMAIN f
           B == D \X (1..SegCap)
<1>1. IsFiniteSet(D) /\ Cardinality(D) \in Nat
    BY FS_CardinalityType DEF Fits
<1>2. IsFiniteSet(1..SegCap) /\ Cardinality(1..SegCap) = SegCap
    BY FS_Interval
<1>3. IsFiniteSet(B) /\ Cardinality(B) = Cardinality(D) * SegCap
    BY <1>1, <1>2, FS_Product
<1>4. Places(f) \in SUBSET B
    BY DEF Places
<1> HIDE DEF D, B
<1>5. IsFiniteSet(Places(f)) /\ Cardinality(Places(f)) <= Cardinality(B)
    BY <1>3, <1>4, FS_Subset
<1>6. Cardinality(Places(f)) \in Nat
    BY <1>5, FS_CardinalityType
<1> QED BY <1>1, <1>3, <1>5, <1>6 DEF D

\* Full segments hold as many frames as they can.
LEMMA PlacesOfFull ==
    ASSUME NEW f, Fits(f), \A id \in DOMAIN f : Len(f[id].recs) = SegCap
    PROVE  Cardinality(Places(f)) = Cardinality(DOMAIN f) * SegCap
<1> DEFINE D == DOMAIN f
           B == D \X (1..SegCap)
<1>1. IsFiniteSet(D)
    BY DEF Fits
<1>2. IsFiniteSet(1..SegCap) /\ Cardinality(1..SegCap) = SegCap
    BY FS_Interval
<1>3. Cardinality(B) = Cardinality(D) * SegCap
    BY <1>1, <1>2, FS_Product
<1>4. ASSUME NEW u \in B PROVE u \in Places(f)
    BY DEF Places
<1>5. Places(f) = B
    BY <1>4 DEF Places
<1> QED BY <1>3, <1>5


\* The steps that may change the manifest.
LEMMA ManifestChanges ==
    ASSUME [Next]_vars
    PROVE  \/ UNCHANGED manifest \/ OpenDone \/ AppendPublish \/ CompactPublish \/ Flush
           \/ CloseOpenSegment \/ PublishFails \/ \E r \in Readers : ReaderDone(r)
BY DEF Next, LockHolder, LockFree, vars, memory, readers, history,
       Open, SweepOrphan, AppendBegin, AppendRefused, CompactBegin, CompactAll,
       CompactOpenFails, WriteFrame, WriteFails, Rotate, RotateRefused, Seal, SealFails,
       RemoveOld, CompactDone, Close, Crash, ReaderOpen, ReaderSweep, ReaderClose

\* Only a publication of a sound store changes the manifest without losing the store, and
\* what it publishes is the memory of the operation.
LEMMA OnlyWork ==
    ASSUME TypeOK, Good, [Next]_vars, trust # "lost", trust' # "lost"
    PROVE  manifest' = manifest \/ (trust = "sound" /\ pc = "publish" /\ manifest' = segs)
<1>1. CASE UNCHANGED manifest
    BY <1>1
<1>2. CASE OpenDone
    BY <1>2, OpenDoneKeeps
<1>3. CASE AppendPublish
    BY <1>3, Published DEF AppendPublish, WriteManifest
<1>4. CASE CompactPublish
    BY <1>4, Published DEF CompactPublish, WriteManifest
<1>5. CASE Flush
    BY <1>5, Published DEF Flush, WriteManifest, Good, Settled
<1>6. CASE CloseOpenSegment
    BY <1>6, Published DEF CloseOpenSegment, Good, Settled
<1>7. CASE PublishFails
    BY <1>7 DEF PublishFails, LoseManifest
<1>8. ASSUME NEW r \in Readers, ReaderDone(r) PROVE UNCHANGED manifest
    BY <1>8 DEF ReaderDone, LoseManifest
<1> QED BY <1>1, <1>2, <1>3, <1>4, <1>5, <1>6, <1>7, <1>8, ManifestChanges

\* The steps inside an operation of a process that stays sound.
LEMMA InsideOperation ==
    ASSUME TypeOK, [Next]_vars, trust # "lost", trust' = "sound", pc' \in {"write", "publish"}
    PROVE  /\ trust = "sound"
           /\ \/ AppendBegin \/ CompactBegin \/ WriteFrame \/ Rotate \/ Seal
              \/ UNCHANGED <<manifest, pc, op, segs, cur, nextId, todo>>
<1>1. trust = "sound"
    BY DEF Next, LockHolder, LockFree, vars, memory, readers, history, Fail, Forget, Exposed,
       Open, SweepOrphan, OpenDone, AppendBegin, AppendRefused, CompactBegin, CompactAll, Gone,
       WriteManifest, Publish, LoseManifest, CompactOpenFails, WriteFrame, WriteFails, Rotate, RotateRefused, Seal, SealFails,
       AppendPublish, CompactPublish, PublishFails, Flush, RemoveOld, CompactDone, Close,
       CloseOpenSegment, Crash, ReaderOpen, ReaderSweep, ReaderDone, ReaderClose, TypeOK
<1>2. ASSUME NEW r \in Readers, LockFree(r)
      PROVE  UNCHANGED <<manifest, pc, op, segs, cur, nextId, todo>>
    BY <1>2 DEF LockFree, memory, history, ReaderOpen, ReaderSweep, ReaderDone, ReaderClose,
                LoseManifest
<1>3. LockHolder => \/ AppendBegin \/ CompactBegin \/ WriteFrame \/ Rotate \/ Seal
    BY DEF LockHolder, Abandon, memory, Fail, Gone,
       Open, SweepOrphan, OpenDone, AppendRefused, CompactAll, CompactOpenFails, WriteFails, RotateRefused, SealFails,
       AppendPublish, CompactPublish, PublishFails, Flush, RemoveOld, CompactDone, Close,
       CloseOpenSegment, Crash
<1>4. UNCHANGED vars => UNCHANGED <<manifest, pc, op, segs, cur, nextId, todo>>
    BY DEF vars, memory
<1> QED BY <1>1, <1>2, <1>3, <1>4 DEF Next

\* Cutting segments short disturbs neither order nor limits.
LEMMA PrefixArranged ==
    ASSUME NEW f, NEW g, IsSegmentList(f), IsSegmentList(g), DOMAIN g = DOMAIN f,
           \A id \in DOMAIN g : IsPrefix(g[id].recs, f[id].recs), InOrder(f), Fits(f)
    PROVE  InOrder(g) /\ Fits(g)
<1>1. ASSUME NEW id \in DOMAIN g
      PROVE  /\ DOMAIN g[id].recs = 1..Len(g[id].recs) /\ DOMAIN f[id].recs = 1..Len(f[id].recs)
             /\ Len(g[id].recs) \in Nat /\ Len(f[id].recs) \in Nat
             /\ Len(g[id].recs) <= Len(f[id].recs)
             /\ \A i \in 1..Len(g[id].recs) :
                   i \in 1..Len(f[id].recs) /\ g[id].recs[i] = f[id].recs[i]
    <2>1. g[id].recs \in Seq(Records) /\ f[id].recs \in Seq(Records)
        BY DEF IsSegmentList, SegmentInfo
    <2> QED BY <2>1, PrefixElements
<1>2. InOrder(g)
    <2> SUFFICES ASSUME NEW a \in DOMAIN g, NEW b \in DOMAIN g,
                        NEW i \in DOMAIN g[a].recs, NEW j \in DOMAIN g[b].recs,
                        a < b \/ (a = b /\ i < j)
                 PROVE  Before(g[a].recs[i], g[b].recs[j])
        BY DEF InOrder
    <2>1. /\ i \in DOMAIN f[a].recs /\ g[a].recs[i] = f[a].recs[i]
          /\ j \in DOMAIN f[b].recs /\ g[b].recs[j] = f[b].recs[j]
        BY <1>1
    <2> QED BY <2>1 DEF InOrder
<1>3. Fits(g)
    BY <1>1 DEF Fits
<1> QED BY <1>2, <1>3

\* append_many begins behind everything that was published.
LEMMA AppendBeginArranged ==
    ASSUME TypeOK, Good, Arranged, AppendBegin, trust = "sound"
    PROVE  Queued' /\ Fits(segs')
<1>1. /\ pc = "idle" /\ pc' = "write" /\ todo' = BatchFrames(next)
    BY DEF AppendBegin
<1>2. Mirrored /\ cur = 0 /\ Accounted(segs, swallowed) /\ Visible = OnFile
    BY <1>1, SoundStart
<1>3. /\ segs' = Put(segs, nextId, EmptyInfo) /\ cur' = nextId /\ nextId' = nextId + 1
      /\ BudgetLeft(segs)
    BY <1>2 DEF AppendBegin, OpenSegment
<1>4. nextId \notin DOMAIN segs /\ nextId \in Nat
    BY <1>1 DEF Good, FreshIds, TypeOK, IsSegmentList
<1>5. InOrder(segs) /\ Fits(segs)
    BY <1>2, MirrorAccounted, PrefixArranged DEF Arranged, Good, Mirrored, TypeOK
<1>6. InOrder(segs') /\ Fits(segs')
    BY <1>3, <1>4, <1>5, OneMoreSegment DEF BudgetLeft
<1>7. RecsIn(segs') \subseteq Visible \cup swallowed
    <2>1. RecsIn(segs) \subseteq OnFile \cup swallowed
        BY <1>2, AccountedRecs DEF OnFile, TypeOK
    <2> QED BY <1>2, <1>3, <1>4, <2>1, RecsInPutEmpty
<1>8. ASSUME NEW e \in todo'
      PROVE  \E i \in 1..Batch[next] : e = [seg |-> 0, pos |-> i, rec |-> <<next, i>>]
    BY <1>1 DEF BatchFrames
<1>9. ASSUME NEW x \in RecsIn(segs'), NEW e \in todo' PROVE Before(x, e.rec)
    <2>1. x \in AckedRecs
        BY <1>7 DEF Good, HistoryOrdered
    <2>2. PICK n \in acked : x \in BatchRecs(n)
        BY <2>1 DEF AckedRecs
    <2>3. x[1] = n /\ n < next
        BY <2>2 DEF BatchRecs, Good, HistoryOrdered
    <2>4. e.rec[1] = next
        BY <1>8
    <2> QED BY <2>3, <2>4 DEF Before
<1>10. ASSUME NEW e \in todo', NEW f \in todo', Precedes(e, f) PROVE Before(e.rec, f.rec)
    <2>1. PICK i \in 1..Batch[next] : e = [seg |-> 0, pos |-> i, rec |-> <<next, i>>]
        BY <1>8
    <2>2. PICK j \in 1..Batch[next] : f = [seg |-> 0, pos |-> j, rec |-> <<next, j>>]
        BY <1>8
    <2>3. i < j
        BY <1>10, <2>1, <2>2 DEF Precedes
    <2> QED BY <2>1, <2>2, <2>3 DEF Before
<1>11. cur' = nextId' - 1
    BY <1>3, <1>4
<1> QED BY <1>6, <1>9, <1>10, <1>11 DEF Queued

\* compact() begins with the published frames, but for those it drops.
LEMMA CompactBeginArranged ==
    ASSUME TypeOK, TypeOK', Good, Arranged, CompactBegin, trust = "sound"
    PROVE  Queued' /\ Fits(segs') /\ Packed'
<1>1. /\ pc = "idle" /\ pc' = "write" /\ manifest' = manifest
      /\ segs' = Put(NoSegments, nextId, EmptyInfo) /\ cur' = nextId /\ nextId' = nextId + 1
    BY DEF CompactBegin, StartCompacted, OpenSegment
<1>2. DOMAIN segs = DOMAIN manifest /\ cur = 0
    BY <1>1, SoundStart DEF Mirrored
<1>3. InOrder(manifest) /\ Fits(manifest)
    BY DEF Arranged
<1>4. InOrder(segs') /\ Fits(segs') /\ Places(segs') = {}
    BY <1>1, FirstSegment
<1>5. DOMAIN segs' = {nextId} /\ segs'[nextId].recs = << >>
    BY <1>1 DEF Put, NoSegments, EmptyInfo
<1>6. FramesIn(cur) = 0
    BY <1>2 DEF FramesIn, TypeOK, IsDirectory
<1>7. PICK unflushed \in 0..FramesIn(cur) :
         \E reject \in SUBSET {e.rec : e \in FramesOnDisk(unflushed)} :
            /\ todo' = {e \in FramesOnDisk(unflushed) : e.rec \notin reject}
            /\ doomed' = reject
    BY DEF CompactBegin
<1>8. unflushed = 0
    BY <1>6, <1>7
<1>9. todo' \subseteq FramesOnDisk(0)
    BY <1>7, <1>8
<1>10. ASSUME NEW e \in todo'
       PROVE  /\ e.seg \in DOMAIN manifest /\ e.pos \in DOMAIN manifest[e.seg].recs
              /\ e.pos \in 1..Len(manifest[e.seg].recs) /\ e.seg \in Nat
              /\ e = [seg |-> e.seg, pos |-> e.pos, rec |-> manifest[e.seg].recs[e.pos]]
              /\ e.rec = manifest[e.seg].recs[e.pos]
    <2>1. PICK id \in DOMAIN segs :
             \E i \in 1..(Len(disk[id].recs) - IF id = cur THEN 0 ELSE 0) :
                e = [seg |-> id, pos |-> i, rec |-> disk[id].recs[i]]
        BY <1>9 DEF FramesOnDisk
    <2>2. /\ id \in DOMAIN manifest /\ id \in Nat
          /\ manifest[id].recs \in Seq(Records) /\ disk[id].recs \in Seq(Records)
          /\ IsPrefix(disk[id].recs, manifest[id].recs)
        BY <1>2, AccountedRecs DEF Good, TypeOK, IsSegmentList
    <2>3. PICK i \in 1..Len(disk[id].recs) : e = [seg |-> id, pos |-> i, rec |-> disk[id].recs[i]]
        BY <2>1, <2>2
    <2>4. i \in 1..Len(manifest[id].recs) /\ disk[id].recs[i] = manifest[id].recs[i]
        BY <2>2, <2>3, PrefixElements
    <2> QED BY <2>2, <2>3, <2>4
<1>11. RecsIn(segs') = {}
    BY <1>5 DEF RecsIn, RecsOf, Range
<1>12. ASSUME NEW e \in todo', NEW f \in todo', Precedes(e, f) PROVE Before(e.rec, f.rec)
    <2>1. e.rec = manifest[e.seg].recs[e.pos] /\ f.rec = manifest[f.seg].recs[f.pos]
        BY <1>10
    <2>2. e.seg < f.seg \/ (e.seg = f.seg /\ e.pos < f.pos)
        BY <1>12 DEF Precedes
    <2> QED BY <1>3, <1>10, <2>1, <2>2 DEF InOrder
<1>13. cur' = nextId' - 1
    BY <1>1 DEF TypeOK
<1>14. Queued'
    BY <1>4, <1>11, <1>12, <1>13 DEF Queued
<1>15. IsFiniteSet(todo') /\ Cardinality(todo') <= Cardinality(Places(manifest))
    <2> DEFINE T == todo'
               U == Places(manifest)
               place == [e \in T |-> <<e.seg, e.pos>>]
    <2>1. ASSUME NEW e \in T PROVE place[e] \in U
        <3>1. Len(manifest[e.seg].recs) <= SegCap
            BY <1>3, <1>10 DEF Fits
        <3>2. Len(manifest[e.seg].recs) \in Nat
            BY <1>10 DEF TypeOK, IsSegmentList, SegmentInfo
        <3>3. e.pos \in 1..SegCap /\ e.pos <= Len(manifest[e.seg].recs)
            BY <1>10, <3>1, <3>2
        <3> QED BY <1>10, <3>3 DEF Places
    <2>2. ASSUME NEW e \in T, NEW f \in T, place[e] = place[f] PROVE e = f
        <3>1. e.seg = f.seg /\ e.pos = f.pos
            BY <2>2
        <3> QED BY <1>10, <3>1
    <2>3. IsFiniteSet(U)
        BY <1>3, PlacesCounted
    <2>4. place \in [T -> U]
        BY <2>1
    <2> HIDE DEF T, U, place
    <2>5. place \in Injection(T, U)
        BY <2>2, <2>4 DEF Injection, IsInjective
    <2>6. IsFiniteSet(T) /\ Cardinality(T) <= Cardinality(U)
        BY <2>3, <2>5, FS_Injection
    <2> QED BY <2>6 DEF T, U
<1>16. Cardinality(Places(segs')) + Cardinality(todo') <= Cardinality(Places(manifest'))
    <2>1. Cardinality(todo') \in Nat
        BY <1>15, FS_CardinalityType
    <2> QED BY <1>1, <1>4, <1>15, <2>1, FS_EmptySet
<1>17. Packed'
    BY <1>1, <1>5, <1>15, <1>16 DEF Packed
<1> QED BY <1>4, <1>14, <1>17

\* The next frame in the queue goes behind everything written.
LEMMA WriteFrameArranged ==
    ASSUME TypeOK, TypeOK', Good, Arranged, WriteFrame, trust = "sound"
    PROVE  Queued' /\ Fits(segs') /\ (op = "compact" => Packed')
<1>1. PICK e \in todo :
        /\ \A f \in todo \ {e} : Precedes(e, f)
        /\ segs' = Put(segs, cur, [recs |-> Append(segs[cur].recs, e.rec), sealed |-> FALSE])
        /\ todo' = todo \ {e}
    BY DEF WriteFrame
<1>2. /\ pc = "write" /\ ~NeedsRotation
      /\ UNCHANGED <<manifest, pc, op, cur, nextId>>
    BY DEF WriteFrame
<1>3. /\ Queued /\ Fits(segs) /\ (op = "compact" => Packed)
      /\ cur \in DOMAIN segs /\ cur \in Nat /\ cur = nextId - 1
    BY <1>2 DEF Arranged, Queued, TypeOK, IsSegmentList
<1> DEFINE s == segs[cur].recs
           t == Append(s, e.rec)
<1>4. s \in Seq(Records) /\ e.rec \in Records
    BY <1>3 DEF TypeOK, IsSegmentList, SegmentInfo, Frame
<1>5. /\ DOMAIN s = 1..Len(s) /\ DOMAIN t = 1..(Len(s) + 1) /\ Len(s) \in Nat
      /\ Len(t) = Len(s) + 1
      /\ \A i \in 1..Len(s) : t[i] = s[i]
      /\ t[Len(s) + 1] = e.rec
    BY <1>4
<1>6. Len(s) < SegCap
    BY <1>2, <1>5 DEF NeedsRotation
<1>7. /\ DOMAIN segs' = DOMAIN segs /\ segs'[cur].recs = t
      /\ \A id \in DOMAIN segs : id # cur => segs'[id] = segs[id]
    BY <1>1, <1>3 DEF Put
<1>8. \A id \in DOMAIN segs : id \in Nat /\ id <= cur
    BY <1>2, <1>3 DEF Good, FreshIds, TypeOK, IsSegmentList
<1>9. Range(t) = Range(s) \cup {e.rec}
    BY <1>4, RangeAppend
<1> HIDE DEF s, t
<1>10. RecsIn(segs') = RecsIn(segs) \cup {e.rec}
    <2>1. \A id \in DOMAIN segs : Range(segs'[id].recs) =
              IF id = cur THEN Range(segs[id].recs) \cup {e.rec} ELSE Range(segs[id].recs)
        BY <1>7, <1>9 DEF s
    <2>2. RecsIn(segs) = UNION {Range(segs[id].recs) : id \in DOMAIN segs}
          /\ RecsIn(segs') = UNION {Range(segs'[id].recs) : id \in DOMAIN segs'}
        BY DEF RecsIn, RecsOf
    <2>3. ASSUME NEW x \in RecsIn(segs') PROVE x \in RecsIn(segs) \cup {e.rec}
        <3>1. PICK id \in DOMAIN segs : x \in Range(segs'[id].recs)
            BY <1>7, <2>2
        <3> QED BY <2>1, <2>2, <3>1
    <2>4. ASSUME NEW x \in RecsIn(segs) \cup {e.rec} PROVE x \in RecsIn(segs')
        <3>1. PICK id \in DOMAIN segs : x \in Range(segs[id].recs) \/ (id = cur /\ x = e.rec)
            BY <1>3, <2>2
        <3>2. x \in Range(segs'[id].recs) /\ id \in DOMAIN segs'
            BY <1>7, <2>1, <3>1
        <3> QED BY <2>2, <3>2
    <2> QED BY <2>3, <2>4
<1>11. ASSUME NEW a \in DOMAIN segs, NEW i \in DOMAIN segs'[a].recs
       PROVE  \/ /\ i \in DOMAIN segs[a].recs /\ segs'[a].recs[i] = segs[a].recs[i]
                 /\ segs[a].recs[i] \in RecsIn(segs)
              \/ a = cur /\ i = Len(s) + 1 /\ segs'[a].recs[i] = e.rec
    <2>1. CASE i \in DOMAIN segs[a].recs
        <3>1. segs'[a].recs[i] = segs[a].recs[i]
            BY <1>5, <1>7, <2>1 DEF s
        <3>2. segs[a].recs[i] \in RecsIn(segs)
            BY <2>1 DEF RecsIn, RecsOf, Range
        <3> QED BY <2>1, <3>1, <3>2
    <2>2. CASE i \notin DOMAIN segs[a].recs
        <3>1. a = cur
            BY <1>7, <2>2
        <3>2. i \in 1..(Len(s) + 1) /\ i \notin 1..Len(s)
            BY <1>5, <1>7, <2>2, <3>1 DEF s
        <3>3. i = Len(s) + 1
            BY <1>5, <3>2
        <3> QED BY <1>5, <1>7, <3>1, <3>3
    <2> QED BY <2>1, <2>2
<1>12. InOrder(segs')
    <2> SUFFICES ASSUME NEW a \in DOMAIN segs, NEW b \in DOMAIN segs,
                        NEW i \in DOMAIN segs'[a].recs, NEW j \in DOMAIN segs'[b].recs,
                        a < b \/ (a = b /\ i < j)
                 PROVE  Before(segs'[a].recs[i], segs'[b].recs[j])
        BY <1>7 DEF InOrder
    <2>1. a \in Nat /\ b \in Nat /\ a <= cur /\ b <= cur
        BY <1>8
    <2>2. CASE a = cur /\ i = Len(s) + 1
        <3>1. b = cur
            BY <1>3, <2>1, <2>2
        <3>2. j \in 1..(Len(s) + 1)
            BY <1>5, <1>7, <3>1
        <3> QED BY <1>3, <1>5, <2>2, <3>1, <3>2
    <2>3. CASE /\ i \in DOMAIN segs[a].recs /\ segs'[a].recs[i] = segs[a].recs[i]
               /\ segs[a].recs[i] \in RecsIn(segs)
        <3>1. CASE j \in DOMAIN segs[b].recs /\ segs'[b].recs[j] = segs[b].recs[j]
            BY <1>3, <2>3, <3>1 DEF Queued, InOrder
        <3>2. CASE segs'[b].recs[j] = e.rec
            BY <1>3, <2>3, <3>2 DEF Queued
        <3> QED BY <1>11, <3>1, <3>2
    <2> QED BY <1>11, <2>2, <2>3
<1>13. ASSUME NEW x \in RecsIn(segs'), NEW f \in todo' PROVE Before(x, f.rec)
    <2>1. f \in todo /\ f # e
        BY <1>1
    <2>2. Precedes(e, f)
        BY <1>1, <2>1
    <2> QED BY <1>3, <1>10, <2>1, <2>2 DEF Queued
<1>14. Queued'
    <2>1. \A f, g \in todo' : Precedes(f, g) => Before(f.rec, g.rec)
        BY <1>1, <1>3 DEF Queued
    <2> QED BY <1>2, <1>3, <1>12, <1>13, <2>1 DEF Queued
<1>15. Fits(segs')
    <2>1. ASSUME NEW id \in DOMAIN segs' PROVE Len(segs'[id].recs) <= SegCap
        <3>1. CASE id = cur
            BY <1>5, <1>6, <1>7, <3>1
        <3>2. CASE id # cur
            BY <1>3, <1>7, <3>2 DEF Fits
        <3> QED BY <3>1, <3>2
    <2> QED BY <1>3, <1>7, <2>1 DEF Fits
<1>16. ASSUME op = "compact" PROVE Packed'
    <2>1. Packed
        BY <1>3, <1>16
    <2> DEFINE p == <<cur, Len(s) + 1>>
    <2>2. ASSUME NEW u \in (DOMAIN segs) \X (1..SegCap)
          PROVE  u[2] <= Len(segs'[u[1]].recs) <=> u[2] <= Len(segs[u[1]].recs) \/ u = p
        <3>1. u = <<u[1], u[2]>> /\ u[2] \in Nat
            OBVIOUS
        <3>2. CASE u[1] = cur
            <4>1. u = p <=> u[2] = Len(s) + 1
                BY <3>1, <3>2
            <4> QED BY <1>5, <1>7, <3>1, <3>2, <4>1 DEF s
        <3>3. CASE u[1] # cur
            BY <1>7, <3>1, <3>3
        <3> QED BY <3>2, <3>3
    <2>3. p \in (DOMAIN segs) \X (1..SegCap)
        BY <1>3, <1>5, <1>6
    <2>4. p \notin Places(segs)
        BY <1>5 DEF Places, s
    <2> HIDE DEF p
    <2>5. Places(segs') = Places(segs) \cup {p}
        BY <1>7, <2>2, <2>3 DEF Places
    <2>6. IsFiniteSet(Places(segs)) /\ Cardinality(Places(segs)) \in Nat
        BY <1>3, PlacesCounted
    <2>7. Cardinality(Places(segs')) = Cardinality(Places(segs)) + 1
        BY <2>4, <2>5, <2>6, FS_AddElement
    <2>8. IsFiniteSet(todo') /\ Cardinality(todo') = Cardinality(todo) - 1
        BY <1>1, <2>1, FS_RemoveElement DEF Packed
    <2>9. Cardinality(todo) \in Nat
        BY <2>1, FS_CardinalityType DEF Packed
    <2>10. Cardinality(Places(manifest)) \in Nat
        BY PlacesCounted DEF Arranged
    <2>11. Cardinality(Places(segs')) + Cardinality(todo') <= Cardinality(Places(manifest'))
        BY <1>2, <2>1, <2>6, <2>7, <2>8, <2>9, <2>10 DEF Packed
    <2>12. \A id \in DOMAIN segs' \ {cur'} : Len(segs'[id].recs) = SegCap
        BY <1>2, <1>7, <2>1 DEF Packed
    <2> QED BY <2>8, <2>11, <2>12 DEF Packed
<1> QED BY <1>14, <1>15, <1>16

\* Sealing changes no record.
LEMMA SealedArranged ==
    ASSUME TypeOK, cur # 0
    PROVE  /\ DOMAIN SegsSealed = DOMAIN segs
           /\ \A id \in DOMAIN segs : SegsSealed[id].recs = segs[id].recs
<1>1. SegsSealed[cur].recs = segs[cur].recs
    BY SealedValues
<1> QED BY <1>1, SealedValues

\* A full segment gives way to an empty one.
LEMMA RotateArranged ==
    ASSUME TypeOK, TypeOK', Good, Arranged, Rotate, trust = "sound"
    PROVE  Queued' /\ Fits(segs') /\ (op = "compact" => Packed')
<1>1. /\ pc = "write" /\ cur # 0 /\ NeedsRotation /\ BudgetLeft(segs)
      /\ UNCHANGED <<manifest, pc, op, todo>>
      /\ segs' = Put(SegsSealed, nextId, EmptyInfo) /\ cur' = nextId /\ nextId' = nextId + 1
    BY DEF Rotate, OpenSegment, TypeOK
<1>2. Queued /\ Fits(segs) /\ (op = "compact" => Packed)
    BY <1>1 DEF Arranged
<1> DEFINE g == SegsSealed
<1>3. DOMAIN g = DOMAIN segs /\ \A id \in DOMAIN segs : g[id].recs = segs[id].recs
    BY <1>1, SealedArranged
<1>4. RecsIn(g) = RecsIn(segs)
    BY <1>1, SealedValues
<1>5. nextId \notin DOMAIN segs /\ nextId \in Nat
    BY <1>1 DEF Good, FreshIds, TypeOK, IsSegmentList
<1>6. segs' = Put(g, nextId, EmptyInfo)
    BY <1>1
<1> HIDE DEF g
<1>7. InOrder(g) /\ Fits(g) /\ Places(g) = Places(segs)
    BY <1>2, <1>3, SameRecords DEF Queued
<1>8. InOrder(segs') /\ Fits(segs') /\ Places(segs') = Places(segs)
    BY <1>1, <1>3, <1>5, <1>6, <1>7, OneMoreSegment DEF BudgetLeft
<1>9. RecsIn(segs') = RecsIn(segs)
    BY <1>3, <1>4, <1>5, <1>6, RecsInPutEmpty
<1>10. cur' = nextId' - 1
    BY <1>1, <1>5
<1>11. Queued'
    BY <1>1, <1>2, <1>8, <1>9, <1>10 DEF Queued
<1>12. ASSUME op = "compact" PROVE Packed'
    <2>1. Packed
        BY <1>2, <1>12
    <2>2. ASSUME NEW id \in DOMAIN segs' \ {cur'} PROVE Len(segs'[id].recs) = SegCap
        <3>1. id \in DOMAIN segs /\ segs'[id].recs = segs[id].recs
            BY <1>1, <1>3, <1>6, <2>2 DEF Put
        <3>2. CASE id = cur
            <4>1. Len(segs[id].recs) \in Nat
                BY <3>1 DEF TypeOK, IsSegmentList, SegmentInfo
            <4>2. Len(segs[id].recs) >= SegCap /\ Len(segs[id].recs) <= SegCap
                BY <1>1, <1>2, <3>1, <3>2 DEF NeedsRotation, Fits
            <4> QED BY <3>1, <4>1, <4>2
        <3>3. CASE id # cur
            BY <2>1, <3>1, <3>3 DEF Packed
        <3> QED BY <3>2, <3>3
    <2> QED BY <1>1, <1>8, <2>1, <2>2 DEF Packed
<1> QED BY <1>8, <1>11, <1>12

\* So does the last segment of the operation.
LEMMA SealArranged ==
    ASSUME TypeOK, TypeOK', Good, Arranged, Seal, trust = "sound"
    PROVE  Queued' /\ Fits(segs')
<1>1. /\ pc = "write" /\ pc' = "publish" /\ cur # 0 /\ segs' = SegsSealed /\ todo' = todo
      /\ RecsIn(segs') = RecsIn(segs)
    BY SealedValues DEF Seal, TypeOK
<1>2. Queued /\ Fits(segs)
    BY <1>1 DEF Arranged
<1>3. DOMAIN segs' = DOMAIN segs /\ \A id \in DOMAIN segs : segs'[id].recs = segs[id].recs
    BY <1>1, SealedArranged
<1>4. InOrder(segs') /\ Fits(segs')
    BY <1>2, <1>3, SameRecords DEF Queued
<1> QED BY <1>1, <1>2, <1>4 DEF Queued

\* Every step keeps the order of the log and the limits.
LEMMA StepArranged ==
    ASSUME TypeOK, TypeOK', trust # "lost" => Good, [Next]_vars, Arranged
    PROVE  Arranged'
<1>1. ASSUME trust' # "lost" PROVE InOrder(manifest') /\ Fits(manifest')
    <2>1. trust # "lost"
        BY <1>1, LostForGood
    <2>2. manifest' = manifest \/ (trust = "sound" /\ pc = "publish" /\ manifest' = segs)
        BY <1>1, <2>1, OnlyWork
    <2> QED BY <2>1, <2>2 DEF Arranged, Queued
<1>2. ASSUME trust' = "sound", pc' \in {"write", "publish"}
      PROVE  Queued' /\ Fits(segs') /\ (op' = "compact" /\ pc' = "write" => Packed')
    <2>1. trust # "lost" /\ Good
        BY <1>2, LostForGood
    <2>2. /\ trust = "sound"
          /\ \/ AppendBegin \/ CompactBegin \/ WriteFrame \/ Rotate \/ Seal
             \/ UNCHANGED <<manifest, pc, op, segs, cur, nextId, todo>>
        BY <1>2, <2>1, InsideOperation
    <2>3. CASE AppendBegin
        <3>1. op' = "append"
            BY <2>3 DEF AppendBegin
        <3> QED BY <2>1, <2>2, <2>3, <3>1, AppendBeginArranged
    <2>4. CASE CompactBegin
        BY <2>1, <2>2, <2>4, CompactBeginArranged
    <2>5. CASE WriteFrame
        <3>1. op' = op
            BY <2>5 DEF WriteFrame
        <3> QED BY <2>1, <2>2, <2>5, <3>1, WriteFrameArranged
    <2>6. CASE Rotate
        <3>1. op' = op
            BY <2>6 DEF Rotate
        <3> QED BY <2>1, <2>2, <2>6, <3>1, RotateArranged
    <2>7. CASE Seal
        <3>1. pc' = "publish"
            BY <2>7 DEF Seal
        <3> QED BY <2>1, <2>2, <2>7, <3>1, SealArranged
    <2>8. CASE UNCHANGED <<manifest, pc, op, segs, cur, nextId, todo>>
        <3>1. Queued /\ Fits(segs) /\ (op = "compact" /\ pc = "write" => Packed)
            BY <1>2, <2>2, <2>8 DEF Arranged
        <3>2. Queued'
            BY <2>8, <3>1 DEF Queued, RecsIn, RecsOf
        <3>3. Packed => Packed'
            BY <2>8 DEF Packed
        <3> QED BY <2>8, <3>1, <3>2, <3>3
    <2> QED BY <2>2, <2>3, <2>4, <2>5, <2>6, <2>7, <2>8
<1> QED BY <1>1, <1>2 DEF Arranged

-------------------------------------------------------------------------------
(* The theorems *)

\* The empty store satisfies the invariant.
LEMMA InitInductive == Init => Inductive
<1> SUFFICES ASSUME Init PROVE Inductive
    OBVIOUS
<1>1. /\ DOMAIN disk = {} /\ DOMAIN manifest = {} /\ DOMAIN segs = {}
      /\ acked = {} /\ dropped = {} /\ swallowed = {}
      /\ pc = "closed" /\ op = "none" /\ cur = 0 /\ \A r \in Readers : rpc[r] = "closed"
    BY DEF Init, NoSegments
<1>2. Visible = {} /\ AckedRecs = {}
    BY <1>1 DEF Visible, RecsOf, AckedRecs
<1>3. /\ Accounted(manifest, swallowed) /\ FirstOpen /\ HistoryOrdered /\ FreshIds /\ Settled /\ Retired
      /\ Working /\ ReadersBehind
    BY <1>1, <1>2 DEF Accounted, FirstOpen, HistoryOrdered, FreshIds, Settled, Retired, Working,
                      ReadersBehind
<1>4. Arranged
    <2>1. InOrder(manifest)
        BY <1>1 DEF InOrder
    <2>2. Fits(manifest)
        BY <1>1, FS_EmptySet DEF Fits
    <2> QED BY <1>1, <2>1, <2>2 DEF Arranged
<1> QED BY <1>1, <1>2, <1>3, <1>4, InitTypeOK DEF Inductive

\* Every step keeps it.
LEMMA StepInductive == Inductive /\ [Next]_vars => Inductive'
<1> SUFFICES ASSUME Inductive, [Next]_vars PROVE Inductive'
    OBVIOUS
<1>1. TypeOK /\ TypeOK'
    BY StepTypeOK DEF Inductive
<1>2. ASSUME trust' # "lost" PROVE Good'
    <2>1. trust # "lost"
        BY <1>1, <1>2, LostForGood
    <2>2. Good /\ Arranged
        BY <2>1 DEF Inductive, Good
    <2> QED BY <1>1, <1>2, <2>1, <2>2, StepGood
<1>3. (trust # "lost" => Good) /\ Arranged
    BY DEF Inductive, Good
<1>4. Arranged'
    BY <1>1, <1>3, StepArranged
<1> QED BY <1>1, <1>2, <1>4 DEF Inductive, Good

\* The inductive invariant holds in every reachable state.
THEOREM InductiveInvariant == Spec => []Inductive
<1> QED BY InitInductive, StepInductive, PTL DEF Spec

\* Until it is lost, the store's manifest names only segments whose files are whole, sealed
\* and with the recorded content, or were cut short by the unseen failure of their last
\* flush, and then by no more than the records in swallowed: an open after a crash at any
\* point finds no other damage.
THEOREM ManifestSoundAlways == Spec => []ManifestSound
<1>1. Inductive => ManifestSound
    BY DEF Inductive, ManifestSound
<1> QED BY <1>1, InductiveInvariant, PTL

\* Until it is lost, an open recovers exactly the acknowledged batches less what published
\* compactions dropped and less what flushes that failed unseen cut off.
THEOREM ExactRecoveryAlways == Spec => []ExactRecovery
<1>1. Inductive => ExactRecovery
    BY DEF Inductive, ExactRecovery
<1> QED BY <1>1, InductiveInvariant, PTL

\* Until it is lost, the records an open replays come in the order of the commits, also
\* after any number of compactions.
THEOREM ReplaysInOrder == Spec => []ReplayInOrder
<1>1. Inductive => ReplayInOrder
    BY DEF Inductive, Arranged, ReplayInOrder
<1> QED BY <1>1, InductiveInvariant, PTL

\* No compaction of a sound store meets the limit on segments: full segments, a frame left
\* to write and no more frames than before leave room for another segment.
THEOREM CompactionAlwaysFits == Spec => []CompactionFits
<1>1. Inductive => CompactionFits
    <2> SUFFICES ASSUME Inductive, op = "compact", trust = "sound", pc = "write", todo # {},
                        NeedsRotation
                 PROVE  BudgetLeft(segs)
        BY DEF CompactionFits
    <2>1. /\ Fits(segs) /\ Fits(manifest) /\ Packed /\ TypeOK
          /\ cur \in DOMAIN segs
        BY DEF Inductive, Arranged, TypeOK
    <2>2. ASSUME NEW id \in DOMAIN segs PROVE Len(segs[id].recs) = SegCap
        <3>1. CASE id = cur
            <4>1. Len(segs[id].recs) \in Nat
                BY <2>1 DEF TypeOK, IsSegmentList, SegmentInfo
            <4> QED BY <2>1, <3>1, <4>1 DEF Fits, NeedsRotation
        <3>2. CASE id # cur
            BY <2>1, <3>2 DEF Packed
        <3> QED BY <3>1, <3>2
    <2> DEFINE a == Cardinality(DOMAIN segs)
               m == Cardinality(DOMAIN manifest)
               t == Cardinality(todo)
    <2>3. Cardinality(Places(segs)) = a * SegCap
        BY <2>1, <2>2, PlacesOfFull
    <2>4. Cardinality(Places(manifest)) <= m * SegCap /\ m <= MaxSegments
          /\ Cardinality(Places(manifest)) \in Nat
        BY <2>1, PlacesCounted DEF Fits
    <2>5. a \in Nat /\ m \in Nat
        BY <2>1, PlacesCounted
    <2>6. t \in Nat /\ t # 0
        BY <2>1, FS_CardinalityType, FS_EmptySet DEF Packed
    <2>7. a * SegCap + t <= Cardinality(Places(manifest))
        BY <2>1, <2>3 DEF Packed
    <2> HIDE DEF a, m, t
    <2>8. a * SegCap < m * SegCap
        BY <2>4, <2>5, <2>6, <2>7
    <2>9. a < m
        <3>1. m <= a => m * SegCap <= a * SegCap
            BY <2>5
        <3> QED BY <2>5, <2>8, <3>1
    <2> QED BY <2>4, <2>5, <2>9 DEF BudgetLeft, a
<1> QED BY <1>1, InductiveInvariant, PTL

\* Until it is lost, no process without the lock ever replays a record that was not
\* acknowledged, although files come and go under it.
THEOREM NoDirtyReadAlways == Spec => []NoDirtyRead
<1>1. Inductive => NoDirtyRead
    <2> SUFFICES ASSUME Inductive, trust # "lost", NEW r \in Readers, rpc[r] = "open"
                 PROVE  RecsOf(disk, DOMAIN rsegs[r] \cap DOMAIN disk) \subseteq AckedRecs
        BY DEF NoDirtyRead
    <2>1. \A id \in DOMAIN rsegs[r] :
             id \in DOMAIN disk => Range(disk[id].recs) \subseteq AckedRecs
        BY DEF Inductive, ReadersBehind
    <2> QED BY <2>1 DEF RecsOf
<1> QED BY <1>1, InductiveInvariant, PTL

-------------------------------------------------------------------------------
(* Refinement *)

\* Only publishing a manifest acknowledges a batch or drops records.
LEMMA OnlyPublishing ==
    ASSUME [Next]_vars
    PROVE  UNCHANGED <<acked, dropped, swallowed>> \/ AppendPublish \/ CompactPublish
BY DEF Next, LockHolder, LockFree, vars, memory, readers, history, Abandon, Gone,
       Open, SweepOrphan, OpenDone, AppendBegin, AppendRefused, CompactBegin, CompactAll,
       CompactOpenFails, WriteFrame, WriteFails, Rotate, RotateRefused, Seal, SealFails,
       PublishFails, Flush, RemoveOld, CompactDone, Close,
       CloseOpenSegment, Crash, ReaderOpen, ReaderSweep, ReaderDone, ReaderClose

\* The empty store is the empty log.
LEMMA InitRefines == Init => Log!Init
<1> SUFFICES ASSUME Init PROVE Log!Init
    OBVIOUS
<1>1. DOMAIN manifest = {} /\ dropped = {} /\ swallowed = {} /\ trust = "sound"
    BY DEF Init, NoSegments
<1>2. Visible = {}
    BY <1>1 DEF Visible, RecsOf
<1> QED BY <1>1, <1>2 DEF Log!Init

\* Every step of the store is a commit, a compaction, a damage or nothing to the log.
LEMMA StepRefines == Inductive /\ Inductive' /\ [Next]_vars => [Log!Next]_(Log!vars)
<1> SUFFICES ASSUME Inductive, Inductive', [Next]_vars PROVE [Log!Next]_(Log!vars)
    OBVIOUS
<1>1. CASE trust' = "lost"
    BY <1>1 DEF Log!Next, Log!Damage
<1>2. CASE trust' # "lost"
    <2>1. trust # "lost"
        BY <1>2, LostForGood DEF Inductive
    <2>2. /\ Visible = AckedRecs \ (dropped \cup swallowed)
          /\ Visible' = AckedRecs' \ (dropped' \cup swallowed')
          /\ HistoryOrdered /\ HistoryOrdered' /\ Working /\ TypeOK
        BY <1>2, <2>1 DEF Inductive
    <2>6. cut # {} => IoErrors
        BY <2>2 DEF TypeOK
    <2>3. CASE UNCHANGED <<acked, dropped, swallowed>>
        <3>1. Visible' = Visible
            BY <2>2, <2>3 DEF AckedRecs
        <3> QED BY <1>2, <2>1, <2>3, <3>1 DEF Log!vars
    <2>4. CASE AppendPublish
        <3> DEFINE b == BatchRecs(next)
        <3>1. /\ acked' = acked \cup {next} /\ dropped' = dropped /\ next \in DOMAIN Batch
              /\ swallowed' = swallowed \cup cut
            BY <2>2, <2>4 DEF AppendPublish, TypeOK
        <3>2. AckedRecs' = AckedRecs \cup b
            BY <3>1 DEF AckedRecs, BatchRecs
        <3>3. \A n \in acked : n < next /\ n \in Nat /\ next \in Nat
            BY <2>2 DEF HistoryOrdered, TypeOK
        <3>4. b \cap AckedRecs = {}
            BY <3>3 DEF AckedRecs, BatchRecs
        <3>5. trust = "sound" /\ cut \subseteq b
            BY <1>2, <2>1, <2>2, <2>4, Published DEF AppendPublish, WriteManifest, Working
        <3>6. b \in {BatchRecs(n) : n \in DOMAIN Batch}
            BY <3>1
        <3> HIDE DEF b
        <3>7. b \cap Visible = {} /\ Visible' = Visible \cup (b \ cut)
            BY <2>2, <3>1, <3>2, <3>4, <3>5 DEF HistoryOrdered
        <3>8. Log!Commit(b)
            BY <2>6, <3>1, <3>5, <3>7 DEF Log!Commit, Log!Lose
        <3> QED BY <1>2, <2>1, <3>6, <3>8 DEF Log!Next
    <2>5. CASE CompactPublish
        <3>1. acked' = acked /\ dropped' = dropped \cup doomed /\ swallowed' = swallowed \cup cut
            BY <2>5 DEF CompactPublish
        <3>2. AckedRecs' = AckedRecs
            BY <3>1 DEF AckedRecs
        <3>3. trust = "sound" /\ cut \subseteq Visible /\ doomed \subseteq Visible
            BY <1>2, <2>1, <2>2, <2>5, Published DEF CompactPublish, WriteManifest, Working
        <3>4. Visible' = Visible \ (doomed \cup cut)
            BY <2>2, <3>1, <3>2
        <3>5. Log!Compact
            BY <2>6, <3>1, <3>3, <3>4 DEF Log!Compact, Log!Lose
        <3> QED BY <1>2, <2>1, <3>5 DEF Log!Next
    <2> QED BY <2>3, <2>4, <2>5, OnlyPublishing
<1> QED BY <1>1, <1>2

\* Until it is lost, the store implements the durable log: for every sequence of batches,
\* any segment size and budget, any number of lock-free openers, and any failures, those
\* included that no call reports.
THEOREM StoreImplementsDurableLog == Spec => ImplementsDurableLog
<1>1. Spec => Log!Spec
    BY InitRefines, StepRefines, InductiveInvariant, PTL DEF Spec, Log!Spec
<1> QED BY <1>1 DEF ImplementsDurableLog
===============================================================================
