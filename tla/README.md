# A formal model of the Fabric Efficiency Ledger

The ledger accounts for the use of a network fabric. Producers deliver
*observations*; an accounting *period* is closed into an immutable *revision*
derived from the evidence retained for it; later evidence takes effect through a
*correction*; *compaction* folds the evidence of closed periods away. A *topology*
says which scope a measurement belongs to and a *policy* how disputes are settled.
Everything is kept in a store of segment files under a manifest. These modules model
the store, the topology and the policy, the derivation and what is answered from it, the
life of periods, and the thread pool behind parallel ingestion. TLC checks them on small
instances. TLAPS proves every safety property that a run checks for every instance:
whatever the topology, the policy, the evidence, the capacities and the number of threads;
for three properties of the ledger on the condition that its records can be read back.

Paths below are those of the repository.

## 1. Inventory

### Record store (`src/persistence.cpp`, `include/fel/persistence.hpp`)

- State: the segment files `seg-<id>.felseg`; the manifest `fel.manifest.json`; the lock
  `fel.lock`; in memory `segments_`, `next_segment_id_`, `segment_file_`,
  `manifest_dirty_`, totals and watermark.
- Operations: `open` (load or rebuild the manifest, scan, sweep orphans), `append_many`
  (frames, rotation, seal, publish), `compact`, `flush`, `replay`, `verify`, the destructor.
- Hard: a crash between any two file operations; a write, seal, rename or remove that
  fails in the middle; a flush whose failure nobody looks at; stdio buffering; the segment budget; opens without the lock next
  to a writer; reuse of segment ids.
- Correct when: what an open recovers is exactly the acknowledged batches less what
  compactions dropped, in order; a published segment is never touched; what a flush loses
  unseen stays confined to the frames it lost.

### Derivation (`src/ledger.cpp` 194-817, `src/freshness.cpp`)

- State: none; a function of policy, topology, period, evidence and instant.
- Steps: exclude colliding, redelivered and divergent records; fence old epochs; admit;
  attribute; settle disputes per cell and window; settle independent totals; fold claims
  and conservation domains; fail under the strict policies or on overflow.
- Hard: the groupings overlap, so records meet several of them, in a fixed order; scan
  order decides ties; the result must not depend on arrival.
- Correct when: no measurement is counted twice, nothing is dropped unexplained, the two
  folds agree, authority is respected.

### Ledger periods (`src/ledger.cpp` 1465-3142, `src/period.cpp`, `src/observation.cpp`)

- State: `periods`, `revisions`, `corrections`, the multimap `observations`,
  `folded_periods`, `correction_required`, snapshot histories; one `CheckedMutex`.
- Operations: `open` (replay), `open_period`, `ingest`, `close_period`, `correct_period`,
  `compact_closed_periods`, `flush`, and the queries.
- Interaction: each changing operation appends to the store *before* it changes memory;
  compaction makes two commits.
- Hard: stops between commits; retries of batches; identities shared by two records;
  late evidence; states reconstructed by replay; ledgers that may not write.
- Correct when: memory is what a restart would find, lineages are linear, revisions never
  change, no evidence disappears uncounted, no evidence counts in two periods.

### Topology (`src/topology.cpp`, `src/topology_json.cpp`)

- State: maps of generations, sources, incarnations, scopes, resources, flows, paths and
  reservations, and a list of bindings.
- Operations: one `add_` per kind, `validate`, `ancestors_of`, `descendants_of`,
  `resources_in_scope`, `topology_to_json` and `topology_from_json`.
- Hard: definitions arrive in any order and only a whole document is validated; intervals
  are compared with their neighbours in a sorted list only.
- Correct when: the hierarchy of a valid document is a forest, every resource is
  attributed once, and no two incarnations of a source are live together.

### Snapshots of policy and topology (`src/ledger.cpp` 1734-1784, `src/policy.cpp`)

- State: the snapshots in the store, in order, and the pair the ledger runs with.
- Operations: `open` compares the caller's pair with the histories, refuses what was
  superseded, and records what is new.
- Hard: any sequence of reopenings, also for reading, with documents that come back
  changed from the text or cannot be read back at all.
- Correct when: what runs is what was recorded last, and nothing superseded runs again.

### Answers (`src/ledger.cpp` 819-930, 2325-2710)

- State: none; `query`, `aggregate` and `fold_efficiency` read a revision or derive again.
- Correct when: a ratio is given only if nothing is missing from it, scope totals add up
  along the hierarchy, and the two ways to aggregate (from evidence, from claims) agree.

### Thread pool and `ingest_parallel` (`src/concurrency.cpp`, `include/fel/concurrency.hpp`, `src/ledger.cpp` 2060-2116)

- State: the bounded queue with its closed and aborted flags, the cancellation flag,
  `running_`, the threads, the statistics; in `ingest_parallel` a counter, a mutex and a
  condition variable on the caller's stack.
- Operations: `start`, `submit`, `worker_loop`, `cancel`, `shutdown` (drain or abort);
  the chunks of an ingestion are jobs of the pool, and their caller waits for them.
- Interaction: clients, workers, the ingesting caller and whoever stops the pool run
  concurrently.
- Correct when: every counted job is in one place, shutdown and the ingestion return, and
  no job outlives the frame it writes to.

### Record forms (`src/ledger_json.cpp`, `src/time.cpp`)

- Times are nanoseconds in memory and milliseconds in a record; a conservation delta is
  written as bits and a sign; a record that does not verify is passed over at replay.
- Correct when: a restart finds what the process that stopped was working with.

### The rest

The lock audit (`CheckedMutex`), explanation, reconciliation, export and the integrity
report, serialization, digests, identifiers, errors, files and the command line tool are
not modelled; section 7 says why.

## 2. Modules

| Module | Models |
| --- | --- |
| `DurableLog` | what the store promises: an atomic, crash-proof log, until it is damaged |
| `LedgerStore` | the store, one step per file operation, with a lock holder and lock-free processes |
| `Times` | times on their way through a text |
| `Topology` | the document: adding, validating, walking, writing and reading |
| `Snapshots` | `Ledger::open` as far as policy and topology go; extends `Topology` |
| `Derivation` | the derivation, as operators over a set of observations |
| `Accounts` | efficiency, queries and rollups, aggregation; extends `Derivation` |
| `Accounting` | from a document to the accounts: building, opening, arriving; extends `Snapshots` |
| `Records` | what a record is after it was written and read; extends `Derivation`, `Times` |
| `Ledger` | the life of periods over a store that is the durable log; extends `Records` |
| `ThreadPool` | pool, queue, clients, workers, shutdown |
| `ParallelIngest` | `ingest_parallel` on that pool; extends `ThreadPool` |
| `MCLedgerStore`, `MCDerivation`, `MCLedger`, `MCPool` | the instances TLC checks |
| `FiniteLemmas` | what the library leaves out of finite sets, iteration and sums |
| `LedgerStoreProofs`, `TopologyProofs`, `DerivationProofs`, `AccountsProofs`, `AccountingProofs`, `LedgerProofs`, `PoolProofs` | theorems about the module of that name; `PoolProofs` about `ParallelIngest` |

Three compositions matter. `LedgerStore` implements `DurableLog` (refinement mapping: `log`
is what an open would replay), and `Ledger` uses that result: its `stored` changes by whole
commits only. `Accounting` puts `Topology`, `Snapshots` and `Accounts` into one behaviour:
a document is built, a ledger is opened on it, evidence arrives, and the accounts are derived
under the policy that runs, from what the derivation looks up in that document
(`LookedUp`). It takes the accounts as an instance of `AccountsProofs`, so that theorems about
any evidence hold at each of its states. `MCDerivation` is its bounded instance: `MCNext`
restricts `Next`. `ParallelIngest` runs the ingesting caller against the pool, another client
and whoever stops it.

### LedgerStore and the code

| Variable | Code |
| --- | --- |
| `disk` | the segment files; a file is its readable frames and whether it is open, torn, cut or sealed |
| `present`, `manifest` | `fel.manifest.json` |
| `segs`, `cur`, `nextId`, `dirty` | `segments_`, `segment_file_`/`current_segment_id_`, `next_segment_id_`, `manifest_dirty_` |
| `pc`, `op`, `todo`, `old` | the lock holder's place in `open`, `append_many` or `compact` and their locals |
| `rpc`, `rsegs`, `rdirty` | the same of a process opened with `take_exclusive_lock = false` |
| `next`, `acked`, `doomed`, `dropped`, `trust` | history: what callers were told |
| `cut`, `swallowed` | history: frames that flushes lost unseen, in the operation in progress and in published ones |

An operation is the sequence of its file operations: `AppendBegin`, `WriteFrame`,
`Rotate`, `Seal`, `AppendPublish` for `append_many`; `CompactBegin`, the same middle,
`CompactPublish`, `RemoveOld`, `CompactDone` for `compact`; `Open`, `SweepOrphan`,
`OpenDone` for `open`. Each has its failure: `AppendRefused`, `CompactOpenFails`,
`WriteFails`, `RotateRefused`, `SealFails`, `PublishFails`. `Crash` may come anywhere and
keeps any prefix of the frames still in the stdio buffer.

Some failures are not reported. `sync_file` ignores the result of `fflush`, and nobody looks
at that of `fclose`: a seal can return ok over a file that lacks its footer and any number of
its last frames (`Sealings`, the form *cut*), and a manifest can be replaced by the beginning
of the new one (`LoseManifest`). The operation goes on and is acknowledged. The frames a seal
lost are in `cut`, and in `swallowed` once the segment is published.

`trust` says when the promise ends. A failure in mid-operation makes the process
*degraded*: its memory names segments its caller knows nothing of. A restart forgets
that. A degraded process that publishes, or a lock-free one that removes or replaces what
the writer relies on, makes the store *lost*; so does a manifest that is removed by a rename
that fails half-way, or cut by a flush that failed unseen, because the next open then takes
every file for the log, and a compaction that lost frames leave with no record to keep. A cut
segment alone does not: what is missing is known to be in `swallowed`, and the properties hold
less those frames. They hold until the store is lost; the three violation runs show that each
of the first ways of getting there loses or invents records.

### Topology and Snapshots and the code

`topology` is a document under construction; every `Add...` operator is one `add_`
function with its refusals. `Valid` has one conjunct per check of `validate`; neighbours in
a sorted list are what `NextIncarnation` and its counterpart for bindings describe.
`Rewritten` is a document that was written and read: times are cut to the millisecond.
`Snapshots` keeps both histories; `PolicyFor` and `TopologyFor` are the decisions of
`Ledger::open`, `Recorded` its appends. A whole `open` holds the store, so it is one step.
`Arrive` is `ingest` as far as it checks one observation against the topology and the period
(`Acceptable`); what a batch does to the store is in `Ledger`.

### Derivation and Accounts and the code

An observation is a record of small values; amounts, windows and times are small
naturals. `Candidates` ... `Conservation` follow `run_derivation`, `fold_claims` and
`fold_conservation` step by step. A target (resource, flow, path or reservation) is one
value with at most one scope. Digests are compared as contents. `maxTotal` stands for
2^64 - 1, and exceeding it is the failure of the checked additions; the plain additions
of `fold_efficiency` wrap (`Wrapped`), its denominator saturates. `Rows`, `RolledUp`,
`EvidenceBuckets` and `ClaimBuckets` are `rows_from_claims`, `rollup_rows` and the two
branches of `aggregate`. The provenance of a report is that of its source in the document
(`Provenance`), a number from 1 (real) to 4 (unsupported, never counted); a folded claim is put
under the first of its sources and the first of its provenance classes.

### Ledger and the code

`stored` is the durable log by record kind: the periods opened, the revisions, the
corrections, the observations and the periods of the compaction records, plus whether the
policy and topology snapshots are there. The other variables are `Ledger::Impl`. Each
action is a whole operation, because each runs under the one mutex and makes one commit;
compaction is `CompactFold` and `CompactMark`, between which only `Stop` can come. A
ledger without the store lock (`mode = "reader"`) runs the same operations on its memory.
`Open` replays: it reads every record as `Records` says it comes back, and passes over
those that do not verify.

### ThreadPool and ParallelIngest and the code

| Variable | Code |
| --- | --- |
| `queue`, `gate` | `queue_`, `closed_`/`aborted_` of `BoundedQueue` |
| `cancelled`, `running`, `threads`, `stats` | the cancellation flag, `running_`, `threads_`, `stats_` |
| `worker`, `client` | the place of each thread in `worker_loop` and in `submit`, with its job |
| `life`, `counted` | the place of the holder of `lifecycle_mutex_`, and its local `dropped` |
| `pc`, `chunk`, `remaining` | `ingest_parallel`: its place, the next chunk, the counter |
| `dropped`, `drift` | history: jobs removed by an abort; pops less pushes between its count and its removal |

A step is what a thread does under one mutex, or one atomic operation other threads can
tell apart. The wait for the counter is one step with the look at it, because both happen
under `done_mutex`; the decrement before it is not. When the caller has returned, that
mutex is gone: the worker that still has to notify gets through or hangs (`lost`).

## 3. Runs

| Run | Asks | Result |
| --- | --- | --- |
| `StoreFaults.cfg` | does the store keep its promise under crashes, I/O errors, reported or not, a full budget and a lock-free process, until it is lost? | holds; 1,313,013 states |
| `StoreCapacity.cfg` | does a refused batch leave nothing behind? | violated |
| `StoreIoError.cfg` | does a failed compaction keep the history? | violated |
| `StoreReader.cfg` | is a lock-free open harmless? | violated |
| `Derivation.cfg` | is a valid document a forest with one scope per resource, do superseded ones stay out, and is everything counted once, explained, conserved and answered consistently, whatever arrives in whatever order? | holds; 33,779 states |
| `DerivationRedelivery.cfg` | is a second delivery always without effect? | violated |
| `DerivationCounts.cfg` | do admitted and rejected add up to considered? | violated |
| `Ledger.cfg` | memory, lineage, immutability, retention through all sequences of operations and restarts | holds; 82,378 states |
| `LedgerMark.cfg` | is a folded period always known to be folded? | violated |
| `LedgerIdentity.cfg` | does compaction leave open periods alone? | violated |
| `LedgerResidual.cfg` | is a closed period closed after a restart? | violated |
| `Pool.cfg` | is every job accounted for, and do shutdown and ingestion return, however threads interleave? | holds; 52,511 states |

### Properties

Store:

- `ManifestSound`, `ExactRecovery`: what an open recovers is what was acknowledged and not
  dropped, less exactly the frames that flushes lost unseen; every published segment is whole,
  or lacks its footer and such frames from its end, however many operations follow.
- `ReplayInOrder`, `NoDirtyRead`, `CompactionFits`: it is in the order of the commits, for a
  lock-free process too only committed records, and a compaction always fits.
- `ImplementsDurableLog`: the refinement. A commit or a compaction of the abstract log may
  lose records only where I/O errors are possible (`Lossy`).
- `Inductive`, here and in the runs of the ledger and the pool: the invariant the proofs
  rest on.

Topology and snapshots (`Derivation.cfg`):

- `HierarchyIsForest`, `AttributionUnique`: from any set of scopes of a valid document one
  leads out of it, and the resources below a scope are its own and its children's, once each.
- `LiveOnce`: no two incarnations of a source, and no two bindings of a resource, cover
  one instant, although validation compares neighbours only.
- `RunningIsRecorded`, `SupersededStaysOut`, `Reopenable`: the configuration that runs is
  the one a restart reads, no replaced topology comes back, and what runs can be opened
  again.

Derivation and answers (`Derivation.cfg`):

- `MeasuredOnce`, `Explained`, `Conserved`.
- `AuthorityRespected`: whoever disagrees with the amount a cell counts, a source of at least
  the same rank reported that amount. The record that is counted may be of a lower-ranked
  source that agrees, since the lowest identity among equal amounts is taken.
- `RedeliveryHarmless`: a measurement that arrives once more, under an identity of its own,
  changes no total, if all its deliveries are admissible or none, and none shares its identity
  with another record. Both provisos are needed: the delivery with the lowest identity is kept
  before it is known whether it may be counted.
- `DeterminateIsComplete`: of a determinate ratio every reported cell and window is counted,
  the totals of one domain and window agree and are met, and the denominator is the whole of
  the counted work.
- `RollupConserves`: scope totals are those of the scope and its children, in the whole
  rollup and in that of a filtered query.
- `AxesAgree`: aggregating retained evidence now, and the claims of the closing, give the same
  totals along category, scope, generation and target, and the same whole in buckets of time.
  Along provenance they do where no claim mixes two classes: where one does, the folded period
  has all of it under the first. Asked for any two instants at which the same evidence is
  usable; evidence, policy and document are those of the closing. Without either proviso TLC
  finds a counterexample.

Ledger:

- `RestartKeepsMemory`, `IntegrityHolds`, `RevisionsImmutable`, `StoredOnce`,
  `NothingEvicted`, `CountedInOnePeriod`.
- `LateIsFlagged`: no step after which a closed period would derive other claims leaves it
  out of `correction_required`.

Pool:

- `JobsConserved`, `EndsWithinSubmissions`, `DrainIsComplete`, `AbortIsTallied`: every job
  is in one place, a drain leaves none behind, and an abort reports what it dropped but for
  what moved between its count and its removal.
- `FrameOutlivesJobs`: when the caller has returned, no job is left that would write to its
  vectors.
- `ShutdownReturns`, `IngestReturns`: liveness, see below.

Every one of them is broken by a plausible bug in the modelled code: the operators
marked `(mutant)` beside the definitions they replace.

### Bounds

- Store: two records per segment, three segments. `StoreFaults` has batches of 1 and 3 records:
  every failure, reported or not, multiplies the states, and two commits are enough to lose a
  frame in one and to go on with the other. The violation runs have batches of 1, 1 and 3. The
  last batch needs a rotation, a compaction packs half-full segments, and the budget is
  exhausted both before and inside a batch. `MaxSegmentId` = 3 stops new compactions, the
  one operation that can go on for ever. `NotLost` stops at lost states, about which the
  properties say nothing. One lock-free process. The violation runs use a larger
  `MaxSegmentId` of 5 and, where the budget is not the question, `MaxSegments` = 9.
- Documents: five incarnations of three sources (one touches its predecessor, one runs beside
  it), one of them a simulator, so claims and disputes mix provenance classes; three scopes that
  can form a cycle or share the port, two bindings. Generation, sources and the first
  incarnations come first, in one order (`Prelude`): no property tells their orders apart. Milliseconds are two ticks, so a time can lie between two of them.
- Snapshots: six policies (one whose zero duration comes back as the default, one that cannot
  be read again) and five documents of the callers (one cut by the text, one that cannot be
  read again, none); at most four topologies and three policies in the store.
- Derivation: twelve observations, one for each relation the code distinguishes (redelivery
  before and after the instant, and of a record that shares its identity, reused sequence, agreeing and disagreeing sources, another
  window, a later epoch, a shared identity with an unknown target, two totals, failed work
  on a path); all subsets, all orders; four policies that between them take every branch of a
  dispute and of staleness; an early and a late instant; `maxTotal` = 12, which sums exceed.
  Evidence comes to the first ledger on the deployed document; later openings are checked
  without it, since the accounts do not depend on how the store got its configuration.
- Ledger: two adjacent periods and one overlapping both; three observations, two of one
  identity, one received between two milliseconds; batches of one; two retained records;
  two corrections, of one period. `ReaderChangesOnce`: a ledger that may not write is followed
  for one change beyond a store without corrections. `Bounded` goes no further once a record
  is stored twice.
- Pool: two workers and a queue of one, so the queue fills and both workers sleep; an
  ingestion in two chunks, and another client whose job throws.

### Fairness and liveness

`Pool.cfg` assumes weak fairness of each thread that has begun something: every worker
(jobs end), every client inside `submit`, the ingesting caller, and the holder of the
lifecycle mutex. That is what a scheduler that runs every runnable thread gives; each
mutex is held for a bounded time, so no stronger fairness is needed. Nobody has to start,
cancel or stop the pool, and no thread has to wake without being notified.

`ShutdownReturns` excepts a worker that hangs in the mutex of a returned caller;
`IngestReturns` excepts a chunk that can no longer reach its decrement, because an abort
dropped it or it was queued after `cancel` had sent the workers away. Both exceptions are
what the code does (section 6).

For the other components no fairness is assumed: their operations are synchronous calls
that end by themselves, which one comes next is up to the caller, and the process may stop
for good. `Derivation.cfg` and `Pool.cfg` do not check for deadlock: one ends when all
evidence has arrived, the other when all calls have returned.

## 4. Proofs

Every theorem is about the modules the runs check, with their constants left open. What is
assumed of them is named in the modules, and TLC evaluates it in every run:

| Assumption | Says |
| --- | --- |
| `StoreAssumption` | batches are not empty, capacity and budget are positive |
| `TimesAssumption`, `RecordsAssumption` | a millisecond has ticks; half a word is positive |
| `SnapshotsAssumption` | the default durations are natural and whole milliseconds |
| `AccountingAssumption` | definitions, documents, policies and observations have the fields and types the code gives them; sources have a rank and a provenance class; no scope is named like the nil identity |
| `LedgerAssumption` | the evidence is finite; periods are of whole milliseconds; observations verify when they are read back, and no two differ only below the millisecond (section 6 says what happens otherwise) |
| `PoolAssumption`, `IngestAssumption` | threads and jobs are finitely many; the caller is a client and its chunks do not throw |

### Store (`LedgerStoreProofs`)

`TypeCorrect`, `InductiveInvariant`, `ManifestSoundAlways`, `ExactRecoveryAlways`,
`ReplaysInOrder`, `CompactionAlwaysFits`, `NoDirtyReadAlways`, and the refinement
`StoreImplementsDurableLog`.

`ExactRecovery` is not inductive: publishing replaces the manifest by `segs`, so one has to
know that `segs` and the files behind it are, at that moment, the log as it was with the
batch added or the rejected records removed, less what flushes lost. `Working` says that for
every state inside an operation: what is on file (`OnFile`) together with what is still to be
written is the log to be published less `cut`, and `cut` holds records of this operation only,
so that an earlier batch loses nothing by it. `Settled` says that between operations memory
tells what is published (`Mirrored`: every segment is as the manifest has it, or as the scan of
an open found it), and `FreshIds` that new segments get ids above every published one, so that
writing them leaves `Accounted(manifest, swallowed)` alone: each published file is whole, or
lacks its footer and only frames in `swallowed` (`Short`). `Retired` does the same for the files a compaction removes,
`ReadersBehind` for the files a lock-free process reads, `HistoryOrdered` makes a commit
disjoint from the log, and `FirstOpen` covers the store before its first manifest. Each
conjunct is under `trust # "lost"`; a step that leaves the store degraded weakens only those
that hold for a sound process.

`Arranged` adds order and room. Order: what is still to be written comes after all that is
written, in the order of the commits, and goes to the segment with the largest id (`Queued`);
so every frame keeps the list in order. It also makes the frames of a segment those of no
other, so that a seal that loses some takes nothing else from `OnFile`. Room: a compaction fills one segment after the
other (`Packed`), and what it has written and has to write are no more frames than the
manifest had. If it had to rotate with the budget spent, it would have filled `MaxSegments`
segments of `SegCap` frames and still have a frame left: more than any manifest that `Fits`.

The refinement maps the two publications to `Commit` and `Compact`, which leave the records in
`swallowed` out of the log and name them in `lost`; without `IoErrors` there are none
(`Lossy`). The steps that lose the store, a manifest cut by its own flush among them, map to
`Damage`, and every other step to a stutter.

### Topology and snapshots (`TopologyProofs`, `AccountingProofs`)

`IsAForest`, `AttributesOnce`, `LivesOnce`, `RecordsWhatRuns`, `NeverBack`, `OpensAgain`,
from `Accounting!Inductive`: a document under construction has the shape of one, the store
remembers only snapshots that were valid, and what runs is current (`Remembered`). Beyond the
properties of the run it says that values have their types and that snapshots are valid, so
no run lists it; TLC finds it to hold on `MCDerivation` all the same.

- `LivesOnce`: of two spans of one source that cover an instant, take the earlier one and the
  least of those after it. It is the neighbour validation compares, and the two meet.
- `IsAForest`: `ancestors_of` climbs as long as it finds new scopes. A chain of sets that
  grows at every step outgrows the number of scopes, so `AncestorsOf` is closed under parents
  and the least such set (`AncestorsClosed`, `AncestorsLeast`). In a set of scopes from which no
  parent leads out, a topmost one would be above itself, which `validate` refuses.
- Reading what was written is idempotent on documents and policies (`ReadTwice`,
  `RewrittenIsPolicy`): what an open records is what the next one compares with.

### Derivation and answers (`DerivationProofs`, `AccountsProofs`, `AccountingProofs`)

`CountsOnce`, `ExplainsAll`, `AuthorityDecides`, `AccountsConserve`, `DeterminateIsWhole`,
`FoldingKeepsTotals` and `RedeliveryKeepsTotals` hold of any finite set of evidence; as
`CountsMeasurementsOnce`, `ExplainsWhatIsNotCounted`, `RespectsAuthority`, `ConservesWork`,
`RatiosAreOfTheWhole`, `RollsUpOnce`, `AggregatesAlike` and `RedeliveryChangesNothing` they hold
at every state and step of `Accounting`.

Sums are the difficulty: their definition recurs over a set, and facts about all sums would
need induction over data. The proofs weigh instead: `Weight` is the cardinality of a set of
units, `n` for an element of amount `n`, and the sum of a set is its weight, because a set on
which the two differ would have a smallest subset of that kind (`SumIsWeight`). What is true of
sums then follows from what the library knows of cardinalities: parts add up
(`WeightOfParts`), renaming changes nothing (`WeightRenamed`).

- `ConservesWork`: claims and domains are two groupings of the same counted records, and the
  records of `Conservation` stand for the parts.
- `AggregatesAlike`: buckets of evidence and buckets of claims are groupings of one set, and a
  label along an axis is the same for a record and for its claim (`SameOnAxis`). For provenance
  that needs `Unmixed`: the first class of a claim is then the class of each of its records
  (`FirstProvenance`). Two instants at which the same evidence is usable derive the same
  buckets (`SameBuckets`), so the answer of the running ledger is compared with a revision
  closed earlier.
- `RollsUpOnce`: in a forest the scopes below a scope are divided among its children
  (`ChildrenApart`, `AboveByChild`), and every scope is below exactly one topmost scope
  (`RootAbove`).
- `RedeliveryChangesNothing`: a new delivery divides no group that had one content
  (`GroupsWithIt`), so of a measurement that had a record admitted one is still admitted, and
  none is that was not (`RedeliveryAdmits`). Evidence that is admitted in such pairs settles
  every cell alike (`EchoedSettles`) and has the same sums under every key (`AgreeingSums`).

Two properties were stated more strongly before they were to be proved, and were false.
`AuthorityRespected` spoke of the rank of the counted record itself. `RedeliveryHarmless` did
not ask that no delivery shares its identity: where the one with the lowest identity is
excluded for a shared one, another delivery below it comes to be counted. The twelfth
observation of `MCDerivation` makes TLC reach that case.

### Ledger (`LedgerProofs`)

`StoresOnce`, `EvictsNothing`, `CountsInOnePeriod`, `KeepsRevisions` and `FlagsLate` hold
without a condition, `TypeCorrect`, `RestartKeeps` and `KeepsIntegrity` as
`[](ReadBack => ...)`: they fail once a stored revision does not verify when read, which is what
`LedgerResidual.cfg` shows. `ReadsBack` says when that cannot happen: the instants of
evaluation are whole milliseconds, and no evidence is an independent total.

`Inductive` has three parts. `Traced`: every record in memory, in the store or counted by a
revision was delivered, as it was or as it is read back; periods do not overlap. That gives the
first five. `Budget`: a writer has as many records of any identities as the store, so that what
compaction drops by identity leaves the store within the limit the memory keeps to. `Lineage`,
while everything reads back: one line of revisions per period, a revision for every correction,
and states, marks and flags that are those of the revisions (`Bookkeeping`).

### Pool and parallel ingestion (`PoolProofs`)

`TypeCorrect`, `JobsAreConserved`, `EndsAreSubmitted`, `DrainCompletes`, `AbortTallies` and
`FrameOutlives`, for any number of workers, clients and chunks and any capacity.

No property is inductive alone. The counter of the caller is the number of chunks that have
not decremented it and of the one being submitted (`Remaining`), which needs that a job is in
one place (`OnePlace`), is not submitted twice (`OwnJobs`) and was pushed by its client
(the last conjunct of `Inductive`). `DrainIsComplete` needs that no worker leaves a closed pool
with a queue (`Draining`), `AbortIsTallied` what the abort has counted at each of its steps
(`Tallying`), and both the order in which the holder of the lifecycle mutex proceeds
(`Lifecycle`, `Absent`).

### Only model-checked

- `ShutdownReturns` and `IngestReturns`: liveness under fairness is out of the prover's reach.
- The refutations of section 5, which are about what the code does and not about what it
  promises.
- That `MapThenSumSet` and the folds of the library compute the sum the code computes: the
  proofs take their definitions.

## 5. What the violation runs show

1. `StoreReader`: an open without the lock runs `sweep_orphans`, which removes the
   segments the writer has sealed and not yet published; the writer's commit is then lost.
2. `StoreIoError`: `compact` empties `segments_` before it has written the survivors;
   after a write error the destructor publishes a manifest without the history.
3. `StoreCapacity`: `append_many` refused at a rotation leaves its first records in
   `segments_`; the next publication, for instance the compaction its message asks for,
   makes them durable.
4. `DerivationRedelivery`: duplicates are excluded before admissibility is decided, so a
   copy with a lower identity that is not admissible takes the measurement with it. One whose
   identity another record has does the same.
5. `DerivationCounts`: `evidence_admitted + evidence_rejected` is not
   `evidence_considered` once there are totals, resolved disputes or mirrored duplicates.
6. `LedgerMark`: compaction drops evidence and marks the period in two commits.
7. `LedgerIdentity`: compaction drops by identity, across periods.
8. `LedgerResidual`: the bits of a negative conservation delta hold its sign, which is applied
   again on reading. The revision does not verify, replay passes over it, and the period is
   open after a restart.

## 6. Differences noted without a run

- `concurrency.cpp:296` says the tally of an abort "keeps submitted == completed + failed +
  cancelled". It does not when a worker pops, or a client pushes, between the count and the
  removal; `AbortIsTallied` states the exact difference.
- `cancel()` notifies nobody, and a job queued after the workers have left stays queued; an
  ingestion that waits for it does not return. `done_mutex` lives on the stack of a caller
  that may be gone when the last job locks it (`ledger.cpp:2097`).
- `DESIGN.md:143-147` says that a segment "is sealed, with its footer, at the end of every
  commit" and that the manifest is flushed before it is renamed. `sync_file` ignores a failed
  `fflush` (`persistence.cpp:78-88`) and the callers ignore `fclose` (342, 765): a commit is then
  acknowledged over a segment without footer or last frames, or over a manifest cut short, which
  makes the next open rebuild from every file it finds. `ExactRecovery` states the loss exactly.
- `PROOF.md:254` says that an overflow of an aggregate is reported "rather than wrapped". `merge`
  and `add_known` do report it; the summaries of efficiency are plain sums (`ledger.cpp:839`)
  that wrap. No property says anything of a sum beyond the width of the code.
- `README.md:307-308` says that after compaction the provenance axis is still served from the
  revision. It is served from the first class of each claim (`ledger.cpp:2642-2643`); the
  evidence, before, has the class of each record (2569). `AxesAgree` asks for equal totals only of
  claims that do not mix classes.
- Before folding, `aggregate` derives at the instant of the running ledger and under its policy
  and topology (`ledger.cpp:2558-2559`), after it the revision answers (2623). The two agree as
  long as the same evidence is usable and the configuration has not changed.
- `topology.cpp:42` calls intervals half open; both bounds belong to them.
- `aggregate.hpp:37` says that one axis is active and the other fields are nil; every field is
  filled, so the buckets of one axis are split by the others. The revision and
  `include_descendants` of an `AggregateRequest` are not used, and a time axis without a window
  reads an optional that is not set.
- `include_unknowns` of a query is not used. A query for one scope rolls its partial totals up
  into the scopes above it, and rows beyond the budget are cut before the rollup.
- `aggregate` of a folded period without a revision takes the last of none (`ledger.cpp:2623`);
  the state is reached after 8 above.
- The loser of a resolved dispute makes no domain unknown, and `stale` is not set on the
  contribution that wins one.
- A duration of zero in a policy is read back as the default, so the same policy is refused at
  the next open; a snapshot that cannot be read back is appended at every open; a topology
  with times between two milliseconds passes the test for superseded ones.
- Times between two milliseconds also make a redelivery after a restart look new, and a
  revision closed at such an instant does not verify. The bounds of a period are cut on reading
  (`ledger_json.cpp:391-429`) while its identity stays that of the full bounds: after a restart
  `open_period` with the same bounds derives that identity but is compared with other bounds,
  and evidence and new periods near a bound can be accepted or refused that were not before.

## 7. What is abstracted or not modelled

- Store: records have one size, so rotation happens after `SegCap` records, and the byte
  budget `max_bytes`, checked before anything is written, is left out. Files are damaged by
  crashes and failed writes of this program only, reported or not, so checksums are not
  modelled; a scan stops at a torn frame. Power loss, after an ignored `fsync` error or at any
  other time, is not modelled. A file that lost its header too is one with no frames.
  The lock has one
  holder; that `fcntl` locks belong to the process, so that two opens in one process both
  succeed, is listed as a hazard. The destructor's seal and publication are one step. A
  compaction never rejects every record, because the ledger's predicate keeps all that are
  not observations, the first snapshots among them; only after lost frames may nothing be left
  (`CompactAll`, beside no segment that an earlier failure left open).
- Topology: labels, kinds, localities and budgets of items; names are never nil.
- Policy: range checks of limits and the parsing of names.
- Derivation and answers: proof surfaces; a claim lists all its evidence, where the code stops
  at 20,000 identities; row and bucket budgets are large enough; resources and flows are one
  axis. A sum of a row or bucket beyond 64 bits is an error in place of the answer
  (`ledger.cpp:2419`, `add_known`, `merge`) and not modelled: `RolledUp` and the buckets sum
  without a bound. Of a period that was corrected or reconfigured since, `AxesAgree` says nothing.
- Ledger: an append of `open_period`, `close_period` or `correct_period` that fails changes
  nothing and is not a step; `IngestFails` is one because `correction_required` has changed by
  then. `ClaimOptions::period` only narrows what a batch is accepted for and is left out.
  Batches hold no record twice. Dry runs and reports change no state. Policy and topology are
  constants of `Ledger`; their histories are in `Snapshots`.
- Pool: `push` and `try_pop`, which nothing calls; `peak_queue`, `rejected` and
  `jobs_in_flight`. A chunk's job only checks and encodes records, into vectors nothing reads;
  the evidence is committed by the `ingest` that follows the wait, the `Ingest` of `Ledger`.
- Lock audit: nothing under `src/` acquires a ledger mutex twice in one thread, so its refusals
  never occur; the mutex is the atomicity of the actions of `Ledger`.
- Explanation, reconciliation, export, integrity report: they read one revision, or two, and
  format the result. `verify_integrity` states what `IntegrityHolds` checks.
- JSON and field writers, SHA-256, CRC-32C, identifiers, errors, file wrappers, provenance:
  sequential and without state; canonical forms and digests are taken to be injective.
- Command line tool: argument parsing and printing around one operation per process.

## 8. Plan

Every invariant and action property of a passing run is proved. What would say more:

1. `Ledger`: an abstract book of revisions per period, and the ledger shown to implement it,
   in the way the store implements `DurableLog`.
2. `Derivation`: when evidence that arrives leaves the claims of other cells as they are; it is
   what makes a correction local.
3. `Ledger`: the condition `ReadBack` as an invariant of ledgers with totals that show no
   residual, a weaker one than that there are none.
4. `ThreadPool`: the safety half of the returns, that no worker sleeps while there is work or a
   reason to leave.
