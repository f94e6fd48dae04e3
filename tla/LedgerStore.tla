----------------------------- MODULE LedgerStore -----------------------------
(***************************************************************************)
(* The persistent record store of the ledger (persistence.hpp and          *)
(* persistence.cpp): segment files, the manifest that names them, the one  *)
(* process that holds the store lock, and any number of processes that     *)
(* open the same directory without the lock.                               *)
(*                                                                         *)
(* Every call that reaches the file system is a step of its own, so a      *)
(* crash or another process can come between any two of them.              *)
(***************************************************************************)
EXTENDS Integers, FiniteSets, SequencesExt

CONSTANTS Batch,        \* Batch[n]: how many records the n-th append_many writes
          SegCap,       \* records that fit in a segment (max_segment_bytes)
          MaxSegments,  \* max_segments
          IoErrors,     \* whether a write, a flush, a rename or a remove may fail
          Readers,      \* processes that open the store without the lock
          MaxSegmentId  \* bound: no compaction starts beyond this segment id

ASSUME StoreAssumption ==
    /\ Batch \in Seq(Nat \ {0})
    /\ SegCap \in Nat \ {0}
    /\ MaxSegments \in Nat \ {0}
    /\ IoErrors \in BOOLEAN
    /\ MaxSegmentId \in Nat

VARIABLES
    disk,      \* segment files: id -> [recs, form]
    present,   \* there is a manifest that open() can read
    manifest,  \* the segments it names: id -> [recs, sealed]
    \* memory of the process that holds the lock
    pc,        \* where it is: "closed", "idle" or inside an operation
    op,        \* the operation that is writing or publishing
    segs,      \* segments_: id -> [recs, sealed]
    cur,       \* the segment segment_file_ writes to, 0 when it is null
    nextId,    \* next_segment_id_
    dirty,     \* manifest_dirty_
    todo,      \* frames the operation has still to write
    old,       \* files compact() has still to remove
    \* memory of the processes without the lock
    rpc, rsegs, rdirty,
    \* history
    next,      \* the number of the append_many call in progress, or the next one
    acked,     \* the calls that returned success
    doomed,    \* records the predicate of the compaction in progress rejects
    dropped,   \* records a published compaction dropped
    cut,       \* records of the operation in progress that swallowed flushes cut off
    swallowed, \* records of published operations that swallowed flushes cut off
    trust      \* "sound", "degraded" or "lost", see below

memory  == <<pc, op, segs, cur, nextId, dirty, todo, old>>
readers == <<rpc, rsegs, rdirty>>
history == <<next, acked, doomed, dropped, cut, swallowed, trust>>
vars    == <<disk, present, manifest, memory, readers, history>>

-------------------------------------------------------------------------------
(* Records, files and what a scan recovers *)

Records      == (DOMAIN Batch) \X (Nat \ {0})
BatchRecs(n) == {n} \X (1..Batch[n])

\* A file without a footer is "open" while it is written; "torn" when a frame in it was
\* written only in part, so that a scan stops there whatever follows; "cut" when
\* seal_segment closed it although its last bytes could not be flushed.
SegmentFile == [recs : Seq(Records), form : {"open", "torn", "cut", "sealed"}]
SegmentInfo == [recs : Seq(Records), sealed : BOOLEAN]
IsDirectory(f)   == DOMAIN f \subseteq Nat \ {0} /\ f \in [DOMAIN f -> SegmentFile]
IsSegmentList(f) == DOMAIN f \subseteq Nat \ {0} /\ f \in [DOMAIN f -> SegmentInfo]
Frame       == [seg : Nat, pos : Nat \ {0}, rec : Records]

NoSegments == [id \in {} |-> 0]
Put(f, id, x) == [j \in DOMAIN f \cup {id} |-> IF j = id THEN x ELSE f[j]]
Without(f, ids) == Restrict(f, DOMAIN f \ ids)

RecsOf(f, ids) == UNION {Range(f[id].recs) : id \in ids}
RecsIn(f) == RecsOf(f, DOMAIN f)

\* The number of frames in a file; 0 is no file.
FramesIn(id) == IF id \in DOMAIN disk THEN Len(disk[id].recs) ELSE 0

\* The records a process that opens the store now would replay.
Visible == RecsOf(disk, DOMAIN manifest \cap DOMAIN disk)

\* What scan_segment finds in a file: a missing one is kept as a damaged entry.
Found(id) == IF id \in DOMAIN disk
             THEN [recs |-> disk[id].recs, sealed |-> disk[id].form = "sealed"]
             ELSE [recs |-> <<>>, sealed |-> FALSE]
Scan(ids) == [id \in ids |-> Found(id)]

\* (mutant) open() that believes the directory instead of the manifest.
LoadedFromDirectory == Scan(DOMAIN disk)

\* The segments open() starts from: those of the manifest, or every file there is.
LoadedSegments == Scan(IF present THEN DOMAIN manifest ELSE DOMAIN disk)

\* (mutant) The largest id itself.
NextIdsReused(ids) == {m \in {1} \cup ids : \A id \in ids : id <= m}
\* next_segment_id_ after loading: one more than the largest id.
NextIds(ids) == {m \in {1} \cup {id + 1 : id \in ids} : \A id \in ids : id < m}

\* The files sweep_orphans() removes.
Orphans(known) == DOMAIN disk \ known

\* (mutant) Last read, first written.
PrecedesReversed(e, f) == e.seg > f.seg \/ (e.seg = f.seg /\ e.pos > f.pos)
\* append_many takes the records in order, compact() in the order it read them.
Precedes(e, f) == e.seg < f.seg \/ (e.seg = f.seg /\ e.pos < f.pos)

BudgetLeft(s) == Cardinality(DOMAIN s) < MaxSegments
NeedsRotation == Len(segs[cur].recs) >= SegCap

(***************************************************************************)
(* trust is "sound" while memory and disk agree with what callers were     *)
(* told, but for the frames in swallowed: those of segments whose last     *)
(* flush failed although seal_segment, and with it the call, returned ok.  *)
(* A reported failure in the middle of an operation makes the process      *)
(* "degraded": its memory holds segments the caller does not know of.      *)
(* Closing or losing the process discards that memory.  The store is       *)
(* "lost" when a degraded process publishes, when a lock-free process      *)
(* removes or replaces what the lock holder relies on, when the manifest   *)
(* is removed by a rename that fails half-way or replaced by one whose     *)
(* flush failed unseen, and when a compaction is left with no record.      *)
(***************************************************************************)
Fail    == trust' = IF trust = "sound" THEN "degraded" ELSE trust
Forget  == trust' = IF trust = "degraded" THEN "sound" ELSE trust
Exposed == trust' = IF trust = "degraded" THEN "lost" ELSE trust

-------------------------------------------------------------------------------
(* Publishing: write_manifest *)

\* No open can read a manifest, and the next one takes every segment file of the directory
\* for the log: the renaming removed the old manifest and then failed, or sync_file
\* ignored that the temporary file could not be flushed and its beginning was renamed over
\* the manifest.
LoseManifest == IoErrors /\ manifest' = NoSegments /\ present' = FALSE /\ trust' = "lost"

\* write_manifest returns ok.
Publish(list) ==
    \/ manifest' = list /\ present' = TRUE /\ Exposed
    \/ LoseManifest

-------------------------------------------------------------------------------
(* Opening: load_manifest or rebuild, sweep_orphans, write_manifest *)

Open ==
    /\ pc = "closed"
    /\ segs' = LoadedSegments
    /\ nextId' \in NextIds(DOMAIN segs')
    /\ dirty' = ~present
    /\ pc' = "sweep"
    /\ UNCHANGED <<disk, present, manifest, op, cur, todo, old, readers, history>>

SweepOrphan(id) ==
    /\ pc = "sweep"
    /\ id \in Orphans(DOMAIN segs)
    /\ disk' = Without(disk, {id})
    /\ UNCHANGED <<present, manifest, memory, readers, history>>

\* A remove that fails leaves its file behind and open() goes on.
OpenDone ==
    /\ pc = "sweep"
    /\ Orphans(DOMAIN segs) = {} \/ IoErrors
    /\ IF dirty THEN Publish(segs) ELSE UNCHANGED <<manifest, present, trust>>
    /\ dirty' = FALSE
    /\ pc' = "idle"
    /\ UNCHANGED <<disk, op, segs, cur, nextId, todo, old, readers,
                   next, acked, doomed, dropped, cut, swallowed>>

-------------------------------------------------------------------------------
(* Segment files: open_segment, seal_segment *)

EmptyFile == [recs |-> <<>>, form |-> "open"]
EmptyInfo == [recs |-> <<>>, sealed |-> FALSE]

\* The directory after F has been done to the file being written, if it is still there.
OnCurrent(F(_)) == [id \in DOMAIN disk |-> IF id = cur THEN F(disk[id]) ELSE disk[id]]

\* fopen("wb+") creates the file or truncates the one of that name.
OpenSegment(d, s) ==
    /\ disk' = Put(d, nextId, EmptyFile)
    /\ segs' = Put(s, nextId, EmptyInfo)
    /\ cur' = nextId
    /\ nextId' = nextId + 1

\* The footer makes the file whole unless a torn frame lies before it.
SealedFile(f) == [recs |-> f.recs, form |-> IF f.form = "torn" THEN "torn" ELSE "sealed"]
DiskSealed == OnCurrent(SealedFile)
SegsSealed == Put(segs, cur, [recs |-> segs[cur].recs, sealed |-> TRUE])

\* What was left in the stdio buffer does not reach the file: it keeps the first `kept`
\* frames, and these records are cut off.
DiskCut(kept) == OnCurrent(LAMBDA f : [recs |-> SubSeq(f.recs, 1, kept), form |-> "cut"])
CutOff(kept)  == Range(segs[cur].recs) \ Range(SubSeq(segs[cur].recs, 1, kept))

\* seal_segment returns ok: the file is whole, or sync_file and fclose could not write
\* what was left and nobody looked.
Sealings ==
    {[disk |-> DiskSealed, cut |-> {}]} \cup
    {[disk |-> DiskCut(kept), cut |-> CutOff(kept)] :
        kept \in IF IoErrors THEN 0..FramesIn(cur) ELSE {}}

-------------------------------------------------------------------------------
(* append_many, compact: begin *)

BatchFrames(n) == {[seg |-> 0, pos |-> i, rec |-> <<n, i>>] : i \in 1..Batch[n]}

AppendBegin ==
    /\ pc = "idle" /\ next \in DOMAIN Batch
    /\ IF cur = 0 THEN BudgetLeft(segs) /\ OpenSegment(disk, segs)
                  ELSE UNCHANGED <<disk, segs, cur, nextId>>
    /\ todo' = BatchFrames(next)
    /\ op' = "append" /\ pc' = "write"
    /\ UNCHANGED <<present, manifest, dirty, old, readers, history>>

\* No segment left in the budget, or the new file cannot be created: nothing changes.
AppendRefused ==
    /\ pc = "idle" /\ next \in DOMAIN Batch
    /\ cur = 0 /\ (~BudgetLeft(segs) \/ IoErrors)
    /\ next' = next + 1
    /\ UNCHANGED <<disk, present, manifest, memory, readers, acked, doomed, dropped, cut,
                   swallowed, trust>>

\* What compact() reads back.  Frames of a segment that is still open may sit in the
\* stdio buffer: the last `unflushed` of them are not read.
FramesOnDisk(unflushed) ==
    UNION {{[seg |-> id, pos |-> i, rec |-> disk[id].recs[i]] :
                i \in 1..(Len(disk[id].recs) - IF id = cur THEN unflushed ELSE 0)} :
           id \in DOMAIN segs}

\* (mutant) segments_ is cleared after the first new segment is opened.
StartClearingLate ==
    /\ disk' = Put(disk, nextId, EmptyFile) /\ segs' = NoSegments
    /\ cur' = nextId /\ nextId' = nextId + 1
\* (mutant) segments_ is not cleared.
StartAppending == OpenSegment(disk, segs)
\* (mutant) The old files are removed first.
StartInPlace == OpenSegment(NoSegments, NoSegments)

\* segments_ is cleared before the first new segment is opened.
StartCompacted == OpenSegment(disk, NoSegments)

\* compact() reads every segment of segments_ back, clears segments_, and opens the first
\* new segment.  The predicate rejects any set of records but never all of them: its one
\* caller, Ledger::compact_closed_periods, keeps every record that is not an observation,
\* the snapshots of the first commit among them (but see CompactAll).  A missing file
\* stops compact() before it changes anything.
CompactBegin ==
    /\ pc = "idle" /\ nextId <= MaxSegmentId
    /\ DOMAIN segs \subseteq DOMAIN disk
    /\ \E unflushed \in 0..FramesIn(cur) :
       \E reject \in SUBSET {e.rec : e \in FramesOnDisk(unflushed)} :
           /\ todo' = {e \in FramesOnDisk(unflushed) : e.rec \notin reject}
           /\ doomed' = reject
    /\ todo' # {}
    /\ old' = DOMAIN segs
    /\ StartCompacted
    /\ op' = "compact" /\ pc' = "write"
    /\ UNCHANGED <<present, manifest, dirty, readers, next, acked, dropped, cut, swallowed,
                   trust>>

\* Swallowed flushes have cut off all that the caller would keep: no segment is opened,
\* and an empty manifest will be published.  (Next to a segment that a failed operation left
\* open, later appends would use the last element of an empty vector: not modelled.)
CompactAll ==
    /\ pc = "idle" /\ cur = 0 /\ swallowed # {}
    /\ DOMAIN segs \subseteq DOMAIN disk
    /\ doomed' = {e.rec : e \in FramesOnDisk(0)}
    /\ old' = DOMAIN segs
    /\ segs' = NoSegments
    /\ dirty' = TRUE
    /\ op' = "compact" /\ pc' = "publish"
    /\ trust' = "lost"
    /\ UNCHANGED <<disk, present, manifest, cur, nextId, todo, readers, next, acked, dropped,
                   cut, swallowed>>

\* The first new segment cannot be created, but segments_ is empty by then.
CompactOpenFails ==
    /\ IoErrors
    /\ pc = "idle" /\ cur = 0 /\ DOMAIN segs # {}
    /\ DOMAIN segs \subseteq DOMAIN disk
    /\ segs' = NoSegments
    /\ Fail
    /\ UNCHANGED <<disk, present, manifest, pc, op, cur, nextId, dirty, todo, old, readers,
                   next, acked, doomed, dropped, cut, swallowed>>

-------------------------------------------------------------------------------
(* append_many, compact: the loop over rotate_if_needed and write_frame *)

\* The operation returns an error and leaves memory as it is.
Abandon ==
    /\ pc' = "idle" /\ op' = "none" /\ todo' = {} /\ old' = {} /\ doomed' = {} /\ cut' = {}
    /\ next' = IF op = "append" THEN next + 1 ELSE next
    /\ UNCHANGED <<acked, dropped, swallowed>>

\* A frame written after a torn one is never read back.
WithFrame(f, rec) == [recs |-> IF f.form = "open" THEN Append(f.recs, rec) ELSE f.recs,
                      form |-> f.form]
Torn(f) == [recs |-> f.recs, form |-> "torn"]

WriteFrame ==
    /\ pc = "write" /\ ~NeedsRotation
    /\ \E e \in todo :
        /\ \A f \in todo \ {e} : Precedes(e, f)
        /\ disk' = OnCurrent(LAMBDA f : WithFrame(f, e.rec))
        /\ segs' = Put(segs, cur, [recs |-> Append(segs[cur].recs, e.rec), sealed |-> FALSE])
        /\ todo' = todo \ {e}
    /\ UNCHANGED <<present, manifest, pc, op, cur, nextId, dirty, old, readers, history>>

\* Some of the frame's bytes reach the file, or none.  segment_file_ stays open.
WriteFails ==
    /\ IoErrors
    /\ pc = "write" /\ todo # {} /\ ~NeedsRotation
    /\ disk' = disk \/ disk' = OnCurrent(Torn)
    /\ Abandon /\ Fail
    /\ UNCHANGED <<present, manifest, segs, cur, nextId, dirty, readers>>

\* (mutant) Every sealed segment is published at once.
RotatePublishing ==
    /\ pc = "write" /\ todo # {} /\ NeedsRotation /\ BudgetLeft(segs)
    /\ \E s \in Sealings : OpenSegment(s.disk, SegsSealed) /\ cut' = cut \cup s.cut
    /\ manifest' = SegsSealed
    /\ UNCHANGED <<present, pc, op, dirty, todo, old, readers,
                   next, acked, doomed, dropped, swallowed, trust>>

Rotate ==
    /\ pc = "write" /\ todo # {} /\ NeedsRotation /\ BudgetLeft(segs)
    /\ \E s \in Sealings : OpenSegment(s.disk, SegsSealed) /\ cut' = cut \cup s.cut
    /\ UNCHANGED <<present, manifest, pc, op, dirty, todo, old, readers,
                   next, acked, doomed, dropped, swallowed, trust>>

\* The full segment is sealed, but no new one can be opened.
RotateRefused ==
    /\ pc = "write" /\ todo # {} /\ NeedsRotation
    /\ ~BudgetLeft(segs) \/ IoErrors
    /\ \E s \in Sealings : disk' = s.disk
    /\ segs' = SegsSealed /\ cur' = 0
    /\ Abandon /\ Fail
    /\ UNCHANGED <<present, manifest, nextId, dirty, readers>>

\* The footer is not written; seal_segment closes the file all the same, and returns the
\* error.
SealFails ==
    /\ IoErrors
    /\ pc = "write" /\ (todo = {} \/ NeedsRotation)
    /\ \E kept \in 0..FramesIn(cur) : disk' = DiskCut(kept)
    /\ cur' = 0
    /\ Abandon /\ Fail
    /\ UNCHANGED <<present, manifest, segs, nextId, dirty, readers>>

Seal ==
    /\ pc = "write" /\ todo = {}
    /\ \E s \in Sealings : disk' = s.disk /\ cut' = cut \cup s.cut
    /\ segs' = SegsSealed /\ cur' = 0
    /\ dirty' = TRUE
    /\ pc' = "publish"
    /\ UNCHANGED <<present, manifest, op, nextId, todo, old, readers,
                   next, acked, doomed, dropped, swallowed, trust>>

-------------------------------------------------------------------------------
(* What each operation does after write_manifest *)

WriteManifest == Publish(segs) /\ dirty' = FALSE

AppendPublish ==
    /\ pc = "publish" /\ op = "append"
    /\ WriteManifest
    /\ acked' = acked \cup {next} /\ next' = next + 1
    /\ swallowed' = swallowed \cup cut /\ cut' = {}
    /\ pc' = "idle" /\ op' = "none"
    /\ UNCHANGED <<disk, segs, cur, nextId, todo, old, readers, doomed, dropped>>

CompactPublish ==
    /\ pc = "publish" /\ op = "compact"
    /\ WriteManifest
    /\ dropped' = dropped \cup doomed /\ doomed' = {}
    /\ swallowed' = swallowed \cup cut /\ cut' = {}
    /\ pc' = "remove" /\ op' = "none"
    /\ UNCHANGED <<disk, segs, cur, nextId, todo, old, readers, next, acked>>

RemoveOld(id) ==
    /\ pc = "remove" /\ id \in old
    /\ old' = old \ {id}
    /\ disk' = Without(disk, {id}) \/ (IoErrors /\ disk' = disk)
    /\ UNCHANGED <<present, manifest, pc, op, segs, cur, nextId, dirty, todo, readers, history>>

CompactDone ==
    /\ pc = "remove" /\ old = {}
    /\ pc' = "idle"
    /\ UNCHANGED <<disk, present, manifest, op, segs, cur, nextId, dirty, todo, old,
                   readers, history>>

\* Ledger::flush: what an earlier, failed write_manifest left unpublished.
Flush ==
    /\ pc = "idle" /\ dirty
    /\ WriteManifest
    /\ UNCHANGED <<disk, pc, op, segs, cur, nextId, todo, old, readers,
                   next, acked, doomed, dropped, cut, swallowed>>

\* The temporary file cannot be written or renamed, which is reported; the fallback may
\* already have removed the old manifest.
PublishFails ==
    /\ IoErrors
    /\ pc = "publish" \/ (pc = "idle" /\ dirty)
    /\ Abandon
    /\ \/ Fail /\ UNCHANGED <<present, manifest>>
       \/ LoseManifest
    /\ UNCHANGED <<disk, segs, cur, nextId, dirty, readers>>

-------------------------------------------------------------------------------
(* The end of the process *)

Gone ==
    /\ pc' = "closed" /\ op' = "none" /\ segs' = NoSegments /\ cur' = 0 /\ nextId' = 1
    /\ dirty' = FALSE /\ todo' = {} /\ old' = {} /\ doomed' = {} /\ cut' = {}

Close ==
    /\ pc = "idle" /\ cur = 0
    /\ Gone /\ Forget
    /\ UNCHANGED <<disk, present, manifest, readers, next, acked, dropped, swallowed>>

\* ~LedgerStore seals a segment that a failed operation left open and publishes it, and
\* ignores the errors of both.
CloseOpenSegment ==
    /\ pc = "idle" /\ cur # 0
    /\ \/ \E s \in Sealings : disk' = s.disk /\ Publish(SegsSealed)
       \/ \E s \in Sealings : IoErrors /\ disk' = s.disk /\ UNCHANGED <<present, manifest>> /\ Forget
       \/ \E kept \in 0..FramesIn(cur) : IoErrors /\ disk' = DiskCut(kept) /\ Publish(segs)
    /\ Gone
    /\ UNCHANGED <<readers, next, acked, dropped, swallowed>>

\* The file being written keeps whatever part of its frames had left the buffer.
Crash ==
    /\ pc # "closed"
    /\ \E kept \in 0..FramesIn(cur) :
           disk' = OnCurrent(LAMBDA f : [recs |-> SubSeq(f.recs, 1, kept), form |-> f.form])
    /\ Gone /\ Forget
    /\ next' = IF op = "append" THEN next + 1 ELSE next
    /\ UNCHANGED <<present, manifest, readers, acked, dropped, swallowed>>

-------------------------------------------------------------------------------
(* A process that opens the store without the lock runs the same open() *)

ReaderOpen(r) ==
    /\ rpc[r] = "closed"
    /\ rpc' = [rpc EXCEPT ![r] = "sweep"]
    /\ rsegs' = [rsegs EXCEPT ![r] = LoadedSegments]
    /\ rdirty' = [rdirty EXCEPT ![r] = ~present]
    /\ UNCHANGED <<disk, present, manifest, memory, history>>

ReaderSweep(r, id) ==
    /\ rpc[r] = "sweep"
    /\ id \in Orphans(DOMAIN rsegs[r])
    /\ disk' = Without(disk, {id})
    /\ trust' = IF id \in DOMAIN manifest \cup DOMAIN segs THEN "lost" ELSE trust
    /\ UNCHANGED <<present, manifest, memory, readers, next, acked, doomed, dropped, cut,
                   swallowed>>

\* The directory scan may end before it meets a file created meanwhile.
ReaderDone(r) ==
    /\ rpc[r] = "sweep"
    /\ rpc' = [rpc EXCEPT ![r] = "open"]
    /\ IF rdirty[r]
       THEN \/ /\ manifest' = rsegs[r] /\ present' = TRUE
               /\ trust' = IF manifest = rsegs[r] THEN trust ELSE "lost"
            \/ LoseManifest
       ELSE UNCHANGED <<manifest, present, trust>>
    /\ rdirty' = [rdirty EXCEPT ![r] = FALSE]
    /\ UNCHANGED <<disk, memory, rsegs, next, acked, doomed, dropped, cut, swallowed>>

ReaderClose(r) ==
    /\ rpc[r] = "open"
    /\ rpc' = [rpc EXCEPT ![r] = "closed"]
    /\ rsegs' = [rsegs EXCEPT ![r] = NoSegments]
    /\ UNCHANGED <<disk, present, manifest, memory, rdirty, history>>

-------------------------------------------------------------------------------

Init ==
    /\ disk = NoSegments /\ present = FALSE /\ manifest = NoSegments
    /\ pc = "closed" /\ op = "none" /\ segs = NoSegments /\ cur = 0 /\ nextId = 1
    /\ dirty = FALSE /\ todo = {} /\ old = {}
    /\ rpc = [r \in Readers |-> "closed"]
    /\ rsegs = [r \in Readers |-> NoSegments]
    /\ rdirty = [r \in Readers |-> FALSE]
    /\ next = 1 /\ acked = {} /\ doomed = {} /\ dropped = {} /\ cut = {} /\ swallowed = {}
    /\ trust = "sound"

LockHolder ==
    \/ Open \/ (\E id \in DOMAIN disk : SweepOrphan(id)) \/ OpenDone
    \/ AppendBegin \/ AppendRefused \/ CompactBegin \/ CompactAll \/ CompactOpenFails
    \/ WriteFrame \/ WriteFails \/ Rotate \/ RotateRefused \/ Seal \/ SealFails
    \/ AppendPublish \/ CompactPublish \/ PublishFails \/ Flush
    \/ (\E id \in old : RemoveOld(id)) \/ CompactDone
    \/ Close \/ CloseOpenSegment \/ Crash

LockFree(r) ==
    \/ ReaderOpen(r) \/ ReaderDone(r) \/ ReaderClose(r)
    \/ \E id \in DOMAIN disk : ReaderSweep(r, id)

Next == LockHolder \/ \E r \in Readers : LockFree(r)

Spec == Init /\ [][Next]_vars

-------------------------------------------------------------------------------
(* Properties *)

AckedRecs == UNION {BatchRecs(n) : n \in acked}

\* The file of a segment is what the entry x says: whole, sealed and with those records.
Whole(id, x) == x.sealed /\ disk[id] = [recs |-> x.recs, form |-> "sealed"]

\* Or seal_segment lost its end: frames are missing, but only from the end, and only ones
\* in `gone`.
Short(id, x, gone) ==
    /\ disk[id].form = "cut"
    /\ IsPrefix(disk[id].recs, x.recs)
    /\ Range(x.recs) \subseteq Range(disk[id].recs) \cup gone

\* The files of f are what f says they are, but for what is in `gone`.
Accounted(f, gone) ==
    \A id \in DOMAIN f : id \in DOMAIN disk /\ (Whole(id, f[id]) \/ Short(id, f[id], gone))

TypeOK ==
    /\ IsDirectory(disk)
    /\ present \in BOOLEAN
    /\ IsSegmentList(manifest)
    /\ pc \in {"closed", "sweep", "idle", "write", "publish", "remove"}
    /\ op \in {"none", "append", "compact"}
    /\ op # "none" <=> pc \in {"write", "publish"}
    /\ op = "append" => next \in DOMAIN Batch
    /\ IsSegmentList(segs)
    /\ cur \in {0} \cup DOMAIN segs
    /\ pc = "closed" => cur = 0
    /\ pc = "write" => cur # 0
    /\ nextId \in Nat \ {0}
    /\ dirty \in BOOLEAN
    /\ todo \subseteq Frame
    /\ old \subseteq Nat \ {0}
    /\ rpc \in [Readers -> {"closed", "sweep", "open"}]
    /\ DOMAIN rsegs = Readers
    /\ \A r \in Readers : IsSegmentList(rsegs[r])
    /\ rdirty \in [Readers -> BOOLEAN]
    /\ next \in Nat \ {0}
    /\ acked \subseteq DOMAIN Batch
    /\ doomed \subseteq Records /\ dropped \subseteq Records
    /\ cut \subseteq Records /\ swallowed \subseteq Records
    /\ cut \cup swallowed # {} => IoErrors
    /\ op = "none" => cut = {}
    /\ trust \in {"sound", "degraded", "lost"}

\* Until the store is lost, the published manifest describes the disk, whatever the lock
\* holder is in the middle of: every segment it names is there, and is whole, sealed and
\* with the recorded content, unless the flush that sealed it failed unseen.  Such a
\* segment lacks its footer and perhaps frames from its end, all of them in swallowed.  So
\* an open after a crash reports no damage but what swallowed flushes did.
ManifestSound == trust # "lost" => Accounted(manifest, swallowed)

\* Until the store is lost, an open recovers the acknowledged batches, whole, less what a
\* published compaction dropped and less the very frames swallowed flushes cut off: no part
\* of a batch that failed or was cut short by a crash, nothing a compaction dropped, and
\* nothing else is missing, however many operations follow the flush that failed.
ExactRecovery == trust # "lost" => Visible = AckedRecs \ (dropped \cup swallowed)

\* The records of a list, read in segment order, are in the order of their commits.
Before(x, y) == x[1] < y[1] \/ (x[1] = y[1] /\ x[2] < y[2])
InOrder(f) ==
    \A a, b \in DOMAIN f : \A i \in DOMAIN f[a].recs, j \in DOMAIN f[b].recs :
        (a < b \/ (a = b /\ i < j)) => Before(f[a].recs[i], f[b].recs[j])

\* Replay in segment order gives every record once, in the order of the commits, also
\* after a compaction has rewritten them.
ReplayInOrder == trust # "lost" => InOrder(manifest)

\* A compaction of an intact store never runs out of segments: what fitted in the old
\* segments fits, packed again, in as many.
CompactionFits ==
    (op = "compact" /\ trust = "sound" /\ pc = "write" /\ todo # {} /\ NeedsRotation)
        => BudgetLeft(segs)

\* A process without the lock replays only committed records, although the lock holder
\* writes segments, reuses the ids of orphans and compacts next to it.
NoDirtyRead ==
    trust # "lost" =>
        \A r \in Readers : rpc[r] = "open" =>
            RecsOf(disk, DOMAIN rsegs[r] \cap DOMAIN disk) \subseteq AckedRecs

\* The two halves of ExactRecovery without its proviso, as the documentation has them.

\* An append_many that returned an error, or was cut short by a crash, leaves no record
\* behind in the log.
RefusedBatchInvisible == \A n \in 1..(next - 1) : n \notin acked => Visible \cap BatchRecs(n) = {}

\* Compaction "publishes the new manifest, and only then removes the old files": every
\* record that a successful append_many wrote, no successful compaction dropped and no
\* swallowed flush cut off is in a segment the manifest names.
HistoryKept == present => AckedRecs \ (dropped \cup swallowed) \subseteq RecsIn(manifest)

\* An open without the lock is read only: it takes no committed record away.
OpenersKeepCommits == AckedRecs \ dropped \subseteq Visible

-------------------------------------------------------------------------------
(* The inductive invariant behind the safety properties *)

\* Before the first manifest there is nothing else either.
FirstOpen ==
    ~present => /\ DOMAIN disk = {} /\ DOMAIN manifest = {}
                /\ pc = "closed" \/ (pc = "sweep" /\ dirty)

\* What was dropped or lost had been acknowledged, and no later call has been.
HistoryOrdered ==
    /\ dropped \subseteq AckedRecs /\ swallowed \subseteq AckedRecs
    /\ \A n \in acked : n < next

\* New segments get ids above every published one, so no published file is written to.
FreshIds ==
    /\ pc # "closed" => \A id \in DOMAIN manifest \cup DOMAIN segs : id < nextId
    /\ pc \in {"closed", "sweep"} => cur = 0
    /\ cur # 0 => \A id \in DOMAIN manifest : id < cur

\* Memory names the published segments, each as it was published or as it was found.
Mirrored ==
    /\ DOMAIN segs = DOMAIN manifest
    /\ \A id \in DOMAIN segs : segs[id] \in {manifest[id], Found(id)}

\* Between operations memory is what is published.
Settled ==
    /\ pc = "sweep" => Mirrored /\ (dirty => DOMAIN manifest = {})
    /\ trust = "sound" /\ pc \in {"idle", "remove"} => Mirrored /\ ~dirty /\ cur = 0

\* compact() removes only what the new manifest does not name.
Retired ==
    /\ op = "compact" => \A id \in old : id < nextId /\ id \notin DOMAIN segs
    /\ pc = "remove" => old \cap DOMAIN manifest = {}

\* The file of a segment is what memory says it is, but for what was cut off, and only the
\* current one is open.
Written(id) ==
    /\ id \in DOMAIN disk
    /\ id = cur => disk[id] = [recs |-> segs[id].recs, form |-> "open"]
    /\ id # cur => Whole(id, segs[id]) \/ Short(id, segs[id], swallowed \cup cut)

TodoRecs == {e.rec : e \in todo}

\* The records in the files of the operation.
OnFile == RecsOf(disk, DOMAIN segs)

\* Inside an operation of a sound process, what it has on file and what it has still to
\* write are together the log it is going to publish.
Working ==
    trust = "sound" /\ pc \in {"write", "publish"} =>
        /\ pc = "publish" => cur = 0 /\ todo = {}
        /\ nextId - 1 \in DOMAIN segs
        /\ \A id \in DOMAIN segs : Written(id)
        /\ op = "append" => /\ DOMAIN manifest \subseteq DOMAIN segs
                            /\ cut \subseteq BatchRecs(next)
                            /\ OnFile \cup TodoRecs = Visible \cup (BatchRecs(next) \ cut)
        /\ op = "compact" => /\ doomed \subseteq Visible /\ cut \subseteq Visible \ doomed
                             /\ OnFile \cup TodoRecs = Visible \ (doomed \cup cut)

\* The files a lock-free process has open were published once, and their ids are not
\* given to new files.
ReadersBehind ==
    \A r \in Readers : rpc[r] # "closed" =>
        \A id \in DOMAIN rsegs[r] :
            /\ \E m \in DOMAIN manifest : id <= m
            /\ id \in DOMAIN disk => Range(disk[id].recs) \subseteq AckedRecs

\* What an operation has still to write comes after what it has written, in the order of
\* the commits, and goes to the segment with the largest id.
Queued ==
    /\ InOrder(segs)
    /\ \A x \in RecsIn(segs), e \in todo : Before(x, e.rec)
    /\ \A e, f \in todo : Precedes(e, f) => Before(e.rec, f.rec)
    /\ pc = "write" => cur = nextId - 1

\* A list keeps to the limits of the configuration.
Fits(f) ==
    /\ IsFiniteSet(DOMAIN f) /\ Cardinality(DOMAIN f) <= MaxSegments
    /\ \A id \in DOMAIN f : Len(f[id].recs) <= SegCap

\* The places of its frames.
Places(f) == {u \in (DOMAIN f) \X (1..SegCap) : u[2] <= Len(f[u[1]].recs)}

\* A compaction fills one segment after the other with no more frames than there were.
Packed ==
    /\ \A id \in DOMAIN segs \ {cur} : Len(segs[id].recs) = SegCap
    /\ IsFiniteSet(todo)
    /\ Cardinality(Places(segs)) + Cardinality(todo) <= Cardinality(Places(manifest))

Arranged ==
    /\ trust # "lost" => InOrder(manifest) /\ Fits(manifest)
    /\ trust = "sound" /\ pc \in {"write", "publish"} =>
          Queued /\ Fits(segs) /\ (op = "compact" /\ pc = "write" => Packed)

\* Inductive: it follows from itself over every step (LedgerStoreProofs) and implies
\* ManifestSound, ExactRecovery, ReplayInOrder, CompactionFits and NoDirtyRead.
Inductive ==
    /\ TypeOK
    /\ trust # "lost" =>
          /\ Accounted(manifest, swallowed) /\ Visible = AckedRecs \ (dropped \cup swallowed)
          /\ FirstOpen /\ HistoryOrdered /\ FreshIds /\ Settled /\ Retired /\ Working
          /\ ReadersBehind
    /\ Arranged

-------------------------------------------------------------------------------
(* Refinement *)

Log == INSTANCE DurableLog WITH
           Batches <- {BatchRecs(n) : n \in DOMAIN Batch},
           Lossy <- IoErrors,
           log <- Visible,
           dropped <- dropped,
           lost <- swallowed,
           damaged <- trust = "lost"

\* Until it is lost, the store is a durable log: seen through recovery, only publishing a
\* manifest changes it, by a batch or by what a compaction's predicate rejects, and by what
\* the flushes of that operation lost unseen, if any did.
ImplementsDurableLog == Log!Spec
===============================================================================
