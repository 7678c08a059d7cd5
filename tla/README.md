# VecScaleDB: a TLA+ model of its storage, searches, registry, readers and coordinators

VecScaleDB is a vector database made of one writer, several readers and several
coordinators. The writer keeps an LSM engine on a shared directory; readers load
its immutable segments from there; coordinators keep the list of segments, the
current snapshot and their own leader in etcd. Paths below are relative to
`src/vecscaledb/`.

## 1. Inventory

| part | source | state | operations | talks to |
|---|---|---|---|---|
| LSM engine | `storage/lsm.py` | memtable, segment list, tombstones, LSN | start, stop, insert, delete, flush, merge, search | log, segments, `tombstones.json` |
| write-ahead log | `storage/wal.py` | `wal.log`, `wal.log.meta` (last LSN) | open, append, recover, truncate_before | disk |
| segment | `index/segment.py` | a directory: meta, vectors, ids, index | create, load, search, load_ids | disk |
| snapshots | `storage/snapshot.py` | reference counts | create, release, visible_segments | engine |
| writer | `writer/pipeline.py`, `writer/app.py` | engines, `_registered_segments`, background loops | insert, delete, register_unregistered_segments | engine, coordinator |
| coordinator, metadata | `coordinator/app.py` | keys in etcd | GET, POST, DELETE `/segments`, snapshot key | etcd |
| coordinator, leadership | `coordinator/app.py`, `coordinator/etcd_client.py` | two keys with a time to live, the flag `leader`, heartbeat task | lifespan, heartbeat, `/health`, campaign | etcd |
| coordinator, nodes and search | `coordinator/app.py`, `coordinator/ring.py` | cached nodes, hash ring, round-robin counter | register, search, routes, proxying | etcd, readers |
| in-memory metadata store | `coordinator/etcd_client.py` | values, times to live, leaders | put, get, delete, campaign, watch_prefix | |
| coordinator client | `coordinator/client.py` | none | three attempts over all replicas | coordinators |
| reader | `reader/app.py`, `reader/search.py` | segment cache, tombstones, hidden ids, visibility signature | refresh loop, search_all | coordinator, shared directory |
| single-node server | `node.py` | one engine | insert, delete, search | engine |
| algorithms | `storage/lsm.py` (`merge_results`, `filter_result_ids`), `index/ivf_flat.py` | none | top-k of an index, and of several answers | |
| not core | `observability.py`, `interactive_client.py`, `config.py`, `models.py`, `bench/` | | | |

Where it is hard:

* **Engine.** No coroutine of the engine ever awaits anything that suspends, so
  its operations do not interleave; the hard part is the death of the process
  between, or inside, the durable writes of one operation. Correct means: it
  behaves as a map from ids to vectors; an acknowledged write survives; a deleted
  id stays deleted; LSNs are fresh. A search takes a top-k of
  every segment and of the memtable and hides old and deleted versions
  afterwards. Correct means: no hit is stale, and none is lost without a reason.
* **Shards.** A writer has one engine per shard, each with its log and segments,
  all over one `tombstones.json` that each rewrites from its own set; a batch is
  divided among them, and a kill can come between its parts. Correct means: what
  an engine has taken stays, whatever the others do.
* **Registration.** Several tasks of the writer run
  `register_unregistered_segments` at once and suspend at each coordinator call;
  coordinator handlers suspend at each etcd call; timed-out calls are sent again
  while the first may still be executing. Correct means: the list becomes the
  writer's list; nothing live is deleted; the snapshot key reaches every listed
  segment.
* **Readers.** A refresh reads etcd, `tombstones.json` and the segment
  directories one after the other, while the writer changes all three. Correct
  means: one version per id, no deleted row, and agreement with the engine in
  the end.
* **Membership and searches.** Readers register through whichever coordinator
  answers, followers pass them on to a leader that may have changed; every search
  refreshes the list of readers from etcd, and handlers suspend between reading
  the list and using it. Correct means: a reader that is there is listed, and
  searched; an answer is the exact top-k of its shards or says that it is
  incomplete.
* **Leadership.** A heartbeat and a `/health` request of one replica, and those
  of other replicas, decide on keys read before an `await`; keys expire. Correct
  means: at most one leader, a leader that stays, a new one when it dies.

`PROJECT.json` lists the hazards line by line, with the property that covers each.

## 2. Modules

| module | what it is |
|---|---|
| `VectorStore` | abstract: a map from ids to vectors, with insert and delete of batches, and the request in flight |
| `LSMEngine` | engine, log, segments and tombstone file, with kills; shown to implement `VectorStore` |
| `LSMLedger` | `LSMEngine` beside a history of what callers wrote |
| `TopK` | a top-k of a set of hits, the filter of ids, the merge of answers |
| `EngineSearch` | `LSMLedger` and `TopK`: what a search of the engine answers, hit by hit, and what `health` counts |
| `ShardedWriter` | several engines, reduced to ids, over one `tombstones.json` |
| `SegmentRegistry` | writer tasks, coordinator handlers and etcd keys of the segment list |
| `ReadPath` | a reader over `LSMEngine` and a list of segments |
| `LeaderElection` | replicas, heartbeats, `/health`, campaign, keys that expire |
| `Coordinator` | readers that register, coordinators that list them, searches over `TopK` |
| `HashRing` | the consistent-hash ring as a function of the listed readers, and the route that uses it; part of `Coordinator` |
| `MemoryStore` | the in-memory backend of the etcd client, its election and its watchers |
| `LSMEngineProofs` | theorems about types, log and LSNs of the engine |
| `LSMLedgerProofs` | theorems about its contents: kills, refinement, search and `health` |
| `SegmentRegistryProofs`, `LeaderElectionProofs`, `HashRingProofs`, `CoordinatorProofs`, `ShardedWriterProofs`, `MemoryStoreProofs` | theorems about the module of that name |
| `MC...` | one for each module with a run: model values, kill points and symmetry |

An operator whose name carries a suffix after an underscore (`LatestRow_Oldest`)
is a mutant: the definition after it as a plausible bug would have it. No module
uses one; `PROJECT.json` pairs each with the property it breaks.

### LSMEngine

One operation is a sequence of actions, one per durable write; `pc` names the
next one, so `pc` says where a kill strikes.

| actions | code |
|---|---|
| `Start` | `LSMEngine.start`: `WAL.open`, load segments, load tombstones, replay |
| `Insert`, `Delete` (`Append`), `WriteMeta`, `ApplyInsert`, `ApplyDelete` | `WAL.append`, its LSN file, memtable and tombstones |
| `FlushCapture`, `FlushCreate`, `FlushPublish`, `TruncateMeta` | `flush`: first lock, `Segment.create`, second lock with `truncate_before`, its LSN file |
| `MergeCreate`, `MergePublish`, `MergeDropAll`, `RemoveOldest` | `merge`: new segment, list and tombstones, removal of the inputs |
| `Stop`, `Exit` | `stop` |
| `Kill` | the process dies before the write `pc` names |
| `KillInWrite` (`TearLog`, `TearMeta`, `TearTombstones`, `TearSegment`) | it dies inside that write and leaves the file half done, as the code that reads the file back will see it |

`KillPoints` and `TornFiles` choose where kills may strike, so that one run shows
what holds under some of them and another what fails under the rest. A batch of
rows is a function from all ids; a segment is its snapshot id, its rows and a
number that stands for the random part of its name (`FreshUids` lets it sort on
either side of the directories with the same snapshot). The segment list is kept
sorted by the code, so it is a set with the order `Before`.

`Hits` is `LSMEngine.search` at one id: the set of vectors an exact search can
return for it. `Content` is what the engine holds for its callers, and
`ImplementsVectorStore` says that `Content`, beside the operation in flight,
behaves as `VectorStore`: the contents change when a request is accepted, exactly
as it asks, and at no other time, so neither a flush nor a merge nor a restart may
show, even while a request is in flight. A write takes effect at its append; the
rows a flush has taken out of the memtable still count, since no caller can run
before the flush is over.

### LSMLedger

`ledger` is the vector of the newest logged record of each id. `masked` holds the
ids that `start` hides although their last write is an insert, which is what
`lost_reinsert` is about; the properties that hold leave those ids out.
`cutMerge` records that a kill has left a merge undone, or undone in part: either it
came while the inputs of a merge were being removed, or it leaves as many segments
as a merge takes, so that the next merge will not take them all. After either a
deleted row may come back; `ServesLedger` speaks of the behaviours where neither has
happened.

### TopK and EngineSearch

A hit is an id and a distance; `Nearest(hits, k)` is the set of all top-k answers,
one for each choice among equal distances, and `MergedResults` is `merge_results`:
the best distance of each id, without the deleted ids, then a top-k. In
`EngineSearch` a vector counts by its distance to one fixed query. `IndexSearch`
is the index of a segment: exact when it has no cells or all are probed, and
otherwise the top-k of any of its rows. `SegmentAnswers`, `MemTableSearch` and
`Answers` follow `LSMEngine.search`. `AnswersAreCurrent` is soundness against the
ledger; `MissesOnlyBehindHidden` says when a live row may be missing although the
answer has room: its index has not probed every cell, or hidden rows have taken
its place in the top-k of its segment, which is cut *before* the hidden ids are
taken out (`CutOff`). So a search may return fewer than `top_k` rows that exist;
the property says that there is no other way to lose one.

### ShardedWriter

An engine is reduced to which ids its memtable, its segments and its tombstones
hold, and its operations, which do not suspend, are whole; `LSMEngine` is one of
them in detail. Requests are the parts that `WriterPipeline.insert` and `delete`
give to the shards, one step each, with kills between them; a shutdown flushes
shard after shard. `doubt` holds the ids for which a restart has found the shared
file different from the tombstones of their engine, or the log with a delete and
a later insert (the `masked` of `LSMLedger`). `author` is the shard that wrote the
file last: the readers see its deletes, and may not see those of the others.

### SegmentRegistry

A writer task is what it waits for (`run`), the `local_ids` it computed before
its first call (`seen`) and what its loop has left (`todo`). Tasks are the background
loop and insert handlers; each starts a run whenever it likes (`Tick`, `InsertFlush`),
also while others are in the middle of one, and an insert may flush then. A request is
a record that its handler moves on one etcd operation at a time; `Retry`, `Fail` and
`Restart` leave a request behind without an owner, still executing (`Abandoned`), and
its answer is lost. The engine is reduced to its list: a flush adds a segment and may
replace the oldest ones by a merged one.

Overlapping runs do go wrong, in two ways that the properties name and exclude
everything else. `exposed` holds the segments that were flushed while another run had
computed its `local_ids` and had no list yet: that run takes their entries for stale.
`overtaken` holds the segments whose write of the snapshot key may be undone, because
another POST had read the key before it, or that a restarted writer has taken over
before their registration was over. What the first way leads to in the end is the run
`registry_overlap`.

### ReadPath

The reader's refresh is `GetSegments`, `LoadTombstones`, `LoadSegment`, then
`BuildIndex`, or one of `LoadFails`, `BuildFails`. It works on `fetch` and takes
effect at its end, since no search can run in between. The list of segments is
kept by two actions, which stand for one run of `SegmentRegistry` at a time, so
that what goes wrong here is the reader's and not the registry's. The engine is
`LSMEngine` whole: a refresh interleaves with every durable write of it. The cache
is an `OrderedDict` that loses its first entry when it is over its limit: of the
segments that a refresh has visited, the first visited is the first out, and those
it has not visited yet go before (`Evictable`; searches reorder these, so the model
takes any).

### LeaderElection

A task (`beat`, `health`) is at one etcd call; the call takes effect in one step
and the coroutine goes on in the next, so what it has read may be stale by then.
A replica boots as `lifespan` does: campaign, then register itself, read the
members, start the heartbeat; `/health` ends with a reading of the members too.
The replicas in `Probed` are asked GET `/health` without any limit, at any moment.
Time passes in periods of one heartbeat; `Tick` may cut a period short, before
the tasks are through, `MaxDelays` times. A period without a cut contains one
heartbeat of every live replica, which is what 5 s of sleep and an answering etcd
amount to. `Raise` is an etcd call that fails after its retries: it ends the
heartbeat task for good (`stuck`), while the app serves on. `Crash` gives no key back.
`MaxEvents` bounds crashes, failures and delays together, a delay counting as two.

### Coordinator

The registration of a reader is one call at a time: `Ask` sends it to the next URL,
`PutKey` and `AddNode` are `register` on the leader; a follower goes through
`AskLeader`, `ProxyReads`, `ProxyRefreshes` and `Forward`; `Refuse`, `TimeOut` and
`GiveUp` are the ways it fails. A request of a user is `Receive` (which reads the
keys), `Refresh` (which replaces the list), and for a search `Scatter`, `TakeTurns`
or `RefuseMode`, then `Gather`. Reading and replacing are two steps, so a handler
can put an older list in the place of a newer one: `NoShardIsMissed` says that this
is the only way in which a reader whose key was there all the time is not searched,
with `since`, `older` and `overtaken` recording what it speaks of. Such an answer
is *not* marked incomplete. The leader key is taken and lost in single steps
(`LeaderElection` has the rest), the counter of the round robin is kept modulo
`Lap`, a reader answers with any top-k of its shard.

### HashRing

`_rebuild_ring` clears the ring and adds every listed reader, in the step that has
changed the list, so the ring is a function of the readers (`Ring`) and has no state of
its own. The list of pairs is a sorted set; a reader is its place in the order of names,
a key is its own hash, and MD5 is an arbitrary function `token`. `Coordinator` extends
the module: `KeysAreOwned` is about the lists its handlers leave behind.

### MemoryStore

A method is one step, since none of this backend suspends; the generator
`watch_prefix` suspends at each `yield`. Times to live are counted in periods in
which each client campaigns once; the two clock readings of `campaign` may fall into
different periods (`Claims`). `lease` and `put` are ghosts: the time for which a
winner may rely on having won, and what was last put under each name.

## 3. Runs

The two "violation" runs check properties that a document and a test of the repository
state, and find counterexamples. The longest run takes about two and a half minutes.

| run | checks | bounds | result |
|---|---|---|---|
| `engine_graceful` | `TypeOK`, `ImplementsVectorStore`, `ClearedIdsAreGone`, `AnswersAreCurrent`, `MissesOnlyBehindHidden`, `HealthCountsFoundRows` | 2 ids, 2 vectors, 5 LSNs, flush at 2, merge at 3, no kills; a near and a far vector, at most 2 cells, small and large `top_k` and `nprobe` | holds |
| `engine_restarts` | `SegmentsVisible`, `LsnsAreFresh` | 2 ids, 1 vector, 3 LSNs, flush at 1, merge at 2; kills everywhere; log, tombstones and segments torn | holds |
| `ledger_killed` | `NewestRowSurvives`, `ServesLedger`, `UnflushedWritesAreLogged` | 2 ids, 2 vectors, 4 LSNs, flush at 2, merge at 2; kills at `SafePoints`; LSN file and segments torn | holds |
| `sharded_writer` | `WritesSurvive`, `ReadersSeeTheAuthor` | 3 ids in 2 shards, flush at 2, merge at 3; any number of requests and kills | holds |
| `registry_faults` | `TypeOK`, `RegisteredIsRemote`, `SnapshotCoversSegments`, `LiveSegmentsStay`, `EventuallyRegistered` | loop and insert handler at once, 3 requests in execution, 2 flushes, merge at 2, 1 fault | holds |
| `reader_converges` | `ReaderConverges` | 1 id, 2 vectors, 4 LSNs, flush at 1, merge at 3, a cache of 1 or of 2 segments, 1 restart of the reader | holds |
| `election_faults` | `TypeOK`, `LeaderStays`, `OneLeaderInTheEnd` | 2 replicas, one of them asked `/health` without limit, keys live 2 periods; at most a crash and a failing call, or one period cut short | holds |
| `coordinator_search` | `TypeOK`, `CompleteAnswersAreExact`, `NoShardIsMissed`, `KeysAreOwned` | 1 coordinator, 2 readers, 1 search and 1 `/health` at a time, top 2 of 4 hits with a tie, 3 modes, 2 virtual nodes each, two of which collide, 1 fault | holds |
| `coordinator_registration` | `ReadersListed` | 2 coordinators, 1 reader, 2 rounds of 2 URLs, 4 faults | holds |
| `memory_store` | `WinnerIsTheLeader`, `ReadsAreCurrent`, `FailoverHappens`, `FollowersCatchUp` | 2 clients, 2 names, 1 datum, keys live 2 periods, 1 restart | holds |
| `lost_reinsert` | `AcknowledgedInsertsSurvive` | delete, insert again, kill, restart | violated |
| `registry_overlap` | `FlushedSegmentsAreListed` | loop and insert handler at once, 2 requests in execution, 2 flushes, no merge, no fault | violated |

`SafePoints` are all points but one: before the LSN file is rewritten after a
truncation (`tmeta`), where a torn LSN file takes the engine back to LSN 0, behind
its own segments. The model has this point too: with it, `ledger_killed` ends in a
counterexample to `NewestRowSurvives`.

Conditions inside properties. `RegisteredIsRemote`, `LiveSegmentsStay` and
`EventuallyRegistered` except the segments in `exposed`, `SnapshotCoversSegments` those in
`overtaken`: the code does lose these, and the properties say that it loses no others.
`LeaderStays` speaks of behaviours without failing calls and without periods cut short
(`InTime`). `OneLeaderInTheEnd` speaks of behaviours in which some heartbeat task is left,
requests leave time a moment to pass (`[]<>Timely`), and neither of two things goes on for
ever, each of which TLC shows to keep any replica from leading: that `/health` is asked of a
leader without heartbeat (`StuckIsAsked`), and that requests race with heartbeats (`Raced`).
`LsnsAreFresh` is about the records that a recovery reaches: behind a torn record others
may lie, whose LSNs can be used again.
`WritesSurvive` leaves out the ids in `doubt` until they are written again, and
`ReadersSeeTheAuthor` the shards that did not write the file last.

Why the bounds are enough. Two ids tell a batch that replaces one row from one
that replaces all; two vectors tell an old version from a new one (one is enough
where only LSNs count); a merge at two segments puts every interleaving of flush,
merge and tombstone cleanup within four LSNs. With a merge at three, five LSNs put
versions of a row into two segments and the memtable at once. Three ids in two
shards give one shard a batch that can be flushed by itself, and the other one
that cannot. One id is enough for a reader: rows are hidden, replaced and merged
away id by id. A cache of one segment under a merge at three is full whenever there
is more than one version; one of two holds an old version beside a new one, which the
hidden ids must tell apart, and can still be full. The loop and an insert handler are
what an overlap of runs takes; the third request in execution is one that its client
has given up; two flushes with a merge at two put a merge into a registration. The
election needs two replicas to race; a third adds nobody who acts differently. One
replica that is asked `/health` has two tasks that interleave without limit against the
other's heartbeat; with both asked (`MaxEvents` = 1, no delay) TLC finds no error either,
in more time than a run has. Two shards with hits between each other's, and two that tie,
are what can go wrong in a merge; two coordinators are a leader and a follower.
Two keys are what a poll can yield between changes. Every limit (`MaxLsn`, `MaxFlushes`, `MaxFaults`,
`MaxRestarts`, `MaxCrashes`, `MaxErrors`, `MaxDelays`, `MaxEvents`, the `MaxFaults` of the coordinator, `MaxStarts`) is a guard; `Lap` and
the `Ttl` of `MemoryStore` are moduli and periods, and the other runs have no limit
but the size of their sets. The engine runs allow deadlock: at `MaxLsn`, killed for
good or unable to load a segment, the model really stops; so do those of the
coordinator, where all may have crashed. Symmetry is used only
where it is sound: with invariants, and with the refinement, which has no
liveness part.

Fairness. The runs of the engine alone check safety and need none. In the
registry the background loop ticks forever (`writer/app.py` catches what a run
raises), handlers that have begun go on and tasks take in their answers; nothing
forces an insert, a fault or an overlap. In the reader, the engine is started, its operations
end, and the registration and refresh loops go on. In the election, tasks go on,
a sleeping heartbeat wakes up, and time passes if it can do so again and again (strong
fairness of `Tick`: requests that come and go may disable it in between); nothing starts
a dead replica again, and nobody has to ask `/health`. In `Coordinator` the loops of readers and
coordinators go on (both are `while True`, and that of the reader catches what a
round raises), handlers end, and the key of a node that is down expires; nothing
starts a process again. In `MemoryStore` time passes, a client that has not stopped
campaigns once in a period, and the generator is read.

Known behaviours. Two runs show disagreements with the documentation. `lost_reinsert`: a
delete and an insert are replayed in order but their tombstones are not.
`registry_overlap`: a run that has computed its `local_ids` and waits for GET `/segments`
takes the entry that an insert makes in the meantime for stale and deletes it; when the
POST of that entry returns after the deletion, the writer believes it registered, and its
rows stay out of every search until the next restart or merge. The models also have the following ones, which the properties above except by
a condition, each named where it is:

* a kill while a merge removes its inputs serves a deleted id again: the tombstone
  is forgotten before the row is off the disk (`cutMerge`);
* so does a backlog of merges: a merge takes the `merge_threshold` oldest segments and
  forgets the tombstone of every deleted id it met in them; after kills between a flush
  and its merge there are more segments than that, and a row of the id in a later one is
  served again (`cutMerge`; `ClearedIdsAreGone` fails in `MCLSMEngine` with
  `KillPoints = {"merge"}`, five LSNs and merges at two);
* of two POST `/segments` that have both read the snapshot key, the one with the lower
  snapshot can write it last; a restarted writer takes an entry for registered whose
  registration has not written the key (`overtaken`);
* two replicas that start together both find no election key on etcd and both lead
  for a while (`OneLeaderInTheEnd` is about the end; `MemoryStore`, whose campaign
  is one step, has no such state: `WinnerIsTheLeader`);
* one failing etcd call ends the heartbeat of a replica for good (`OneLeaderInTheEnd`
  asks for one that is left). If that replica leads and is asked GET `/health`, it renews
  both leader keys from there (`coordinator/app.py:170-172`, `215-218`) and its own node key
  expires: the others follow a leader whose address nobody has (`StuckIsAsked`);
* a `/health` task and a heartbeat that both sync can undo each other's election: one has
  read no leader, the other wins meanwhile, and the first, now with the leader flag set,
  steps down on what it has read; repeated in every period, no replica leads (`Raced`);
* a search with a snapshot of before a refresh finds no version of an id whose
  newest one it may not see (`ReaderHits` with an older snapshot);
* a shard that rewrites `tombstones.json` takes the deletes of the others out of it:
  the readers show the deleted rows, and a restart loads the file into every engine
  (`doubt`, `author`);
* a search whose list of readers was replaced by an older one misses a shard and is
  not marked incomplete (`overtaken`).

## 4. Proofs

`LSMEngineProofs`, for any ids, vectors, thresholds, kill points and bounds:

* `TypeCorrect`: `TypeOK` is inductive. The only part that is not immediate is
  that `IsHighest` has a witness: the recovered LSNs are finitely many numbers, which
  needs `LsnsArePositive` and a lemma that a finite set has a maximum in any order.
* `LogInvariant`: `LogInv` is an invariant when no kill tears a record, nor the LSN
  file after a truncation (`LogFilesIntact`; any other file may be torn, and the LSN
  file at any other time). Neither may be left out: behind a torn record
  appends go on that recovery does not reach, and an LSN file torn after a
  truncation reads as 0. `SegmentsVisible` and `LsnsAreFresh` are not inductive:
  what makes them true after a restart is that every segment on disk is at or
  below some LSN on disk *while the process is down*, and that holds because the
  LSN file is behind only between an append and `_write_meta_lsn`, when the record
  itself is in the log. `LogInv` says so, and that a flush or a merge runs on an
  empty memtable.
* `SegmentsStayVisible`, `LsnsStayFresh` follow from it; the second says that no record
  which a recovery reaches has an LSN above the one in memory.
* `UnflushedWritesStayLogged` adds the property itself to the invariant: an
  insert overwrites an entry with a higher LSN, a flush moves the entries to
  `pending`, and the log is cut only once `pending` is a directory.

`LSMLedgerProofs`, for any ids, vectors, thresholds and bounds. Its theorems stand on
`EngineInvariant`, what the steps of the engine preserve by themselves: the operation
in flight, LSNs that are unique, the segment list against the directories on disk at
every `pc`, and that the memtable (or the segment made of it) is what `start` would
replay. All assume `LogFilesIntact`.

* `NewestRowAlwaysSurvives`: `NewestRowSurvives`, under kills anywhere else. The
  invariant (`RowInv`) is about the disk: the last record of an id that is still
  replayed agrees with the ledger, and an id without one has its newest row in a
  directory. That alone is not inductive: a merge that a kill has cut leaves its inputs
  beside its result, with equal snapshots, and the next merge may take any prefix of
  that list. Hence `Good`: a row that is not the newest has a newer one above it, and
  still has after the snapshot of any segment in between has become that row's; and
  `FewBelow`: fewer segments than a merge takes lie below a snapshot that several share.
* `LedgerIsServed`: `ServesLedger`, when in addition no kill tears `tombstones.json`
  (`TombstonesIntact`) and a merge takes more than one segment. With a threshold of 1
  the property is false, since every merge is then of one segment and forgets the
  tombstones of ids that others hold; `config.py` (default 4) does not rule that out.
  `FileInvariant` has the tombstones of deleted ids on disk or in the log,
  `CountInvariant` that without `cutMerge` a merge takes all segments, `GoneInvariant`
  that a deleted id has no row left or a tombstone.
* `EngineImplementsVectorStore`: `ImplementsVectorStore`, without kills (merge threshold
  above 1). `Graceful` adds that nothing is masked and that a stopped engine hides only
  deleted ids; so `Content` *is* the ledger at every step (`ContentInvariant`), the
  initial states map to an initial state, an append to the request of `VectorStore`, the
  end of an operation to its answer, and every other step to a stutter.
* `ClearedIdsStayGone`: `ClearedIdsAreGone`, under the same conditions; with kills
  TLC refutes it (section 3).
* `SearchAnswersAreCurrent`, `SearchMissesAreExplained`, `HealthIsWhatSearchFinds`: the
  three properties of `EngineSearch`, under the same conditions, for any distances,
  cells, `top_k` and `nprobe`. `Serves` turns what the engine serves under an id into
  what each source holds: a row of the memtable or of a newest segment that is not
  hidden is the one in the ledger, so no two hits have one id and the merge is a plain
  top-k (`FoundHits`). A row that is cut off was cut off by k hits of its source: if none
  of them is hidden they are all in the merge, which is then full of hits as near
  (`FoundOrCut`, `NothingFarther`). A search for everything cuts nothing off, and the ids
  that `health` counts are the live ones (`CountedIds`).

`SegmentRegistryProofs`, for any tasks, requests, flushes and faults:

* `RegistryTypes`: `TypeOK`.
* `RegisteredStaysRemote` (`RegisteredIsRemote`) and `LiveSegmentsAreKept`
  (`LiveSegmentsStay`), for runs that overlap in any way. `RunInvariant` is their common
  invariant (`RunInv`). A run that waits for its list has every segment of the writer among
  its `local_ids`, but for the exposed ones, and every later segment is a new one
  (`KnownFacts`); so what a run has still to delete, and every DELETE in execution, awaited
  or given up, is of a segment that was dropped or is exposed (`TaskFacts`, `SegFacts`). And a
  registration that a run waits for, once past its put, has its segment listed.
* `SnapshotReachesSegments` (`SnapshotCoversSegments`), under all overlaps and faults.
  `SnapshotInvariant` says of every registered segment that is not overtaken that the key
  reaches it and that whoever is about to write the key has read a value that does: the
  next write can then not take it back.

`LeaderElectionProofs`, for any number of replicas and any bounds:

* `ElectionTypeCorrect`, under all faults.
* `TimelyInvariant`: `TimelyInv`, under all faults, since it speaks only of the
  states where `InTime` still holds.
* `SettledLeaderStays`: `LeaderStays`, assuming only that a key lives for two
  heartbeats or more (`LongLived`; in the code 10 s against 5 s). The property says
  that a step in time does not displace a leader with both keys, no rival, and
  nobody acting on older reads. The step that could is the tick: both keys must
  have been renewed in the period that ends. `TimelyInv` says why: a task reads
  and writes within one period; the election key is written before the leader
  key, so it never expires first; and a replica that still leads after its
  heartbeat has renewed the leader key in it (by itself or by its `/health` task).

`HashRingProofs`, for any readers, virtual nodes and hashes:

* `KeysMoveOnlyWithTheirReaders`: of any two lists of readers, one after the other or at two
  replicas, no key belongs to one reader in the first and to another in the second that are
  both on both lists. The pairs of the two are in both rings, and the first of them in the
  order from the key on does not depend on the others; the case distinction is whether some
  pair lies above the key. (A statement about two rings, so no run has it.)
* `KeyIsOwned`, the lemma behind `OwnersExistAndAreUnique`. The order of pairs is
  antisymmetric, so no two pairs come first; a first pair exists because the order of
  numbers is well-founded: of the pairs to choose from (those above the key or, when there
  are none, all of them) those with the least token, and of these the one of the least
  reader.

`CoordinatorProofs`, for any coordinators, readers, URLs, requests and faults:

* `CoordinatorTypes`: one step per action; the numbers of attempts and the counter
  modulo `Lap` need facts of their own.
* `OwnersExistAndAreUnique`: `KeysAreOwned`, from the types of `nodes` and `KeyIsOwned`.
* `MergedTopKIsExact`, a lemma about `TopK` alone: a top-k of the top-k answers of the
  parts is a top-k of the whole, whatever is chosen among equal distances. If a hit of
  the whole is missing from the answer, either its part has cut it off behind k hits, or
  the merge has; in both cases k hits are as near, which a count of finite sets turns
  into the definition.
* `ScatterGatherIsExact`: `CompleteAnswersAreExact`. The answer is written by `Gather`
  alone, where `MergedTopKIsExact` applies, in replicated mode to one target that
  holds everything; other actions leave the answer and its targets alone.
* `NoShardIsEverMissed`: `NoShardIsMissed`. `ListInv` follows the list of a search from
  its arrival to the choice of its targets: the keys it has read contain the readers
  that have been there since, the list it has written contains what it read as long as
  no older reading has replaced it, and whoever is about to replace it has either read
  no earlier or is known to be older.

`ShardedWriterProofs`, for any ids, shards and flush threshold, and a merge threshold
above 1 (a merge leaves one segment, which must be fewer than the next merge takes, or
segments would accumulate and a later merge leave some of them out; the code's default
is 4):

* `WritesOfShardsSurvive`: `WritesSurvive`; `ReadersFollowTheAuthor`:
  `ReadersSeeTheAuthor`. The invariant `IInv` says of every engine that it is `Sound`:
  a deleted entry of its memtable has its record in the log and its tombstone, an id
  with a delete record has an entry, and fewer segments are left than a merge takes, so
  that every merge is of all of them. Of the file it says that its tombstones are among
  those of its author, and are all of them for the ids of the author's shard that are
  not in doubt. The lemmas prove of `Merged`, `Flushed`, `Inserted`, `Deleted` and
  `Started` that they keep it and which ids they make served.

`MemoryStoreProofs`, for any clients, names, data and times to live:

* `WinnersLead`: `WinnerIsTheLeader`; `StoreReadsAreCurrent`: `ReadsAreCurrent`. The
  invariant ties the ghosts to the store: a client with time left is the store's leader
  and both its keys live at least as long, and the time left of a name is that of its
  last put, except for a deleted one, whose value is gone whatever its time. Pruning at
  any moment keeps both.

Only model-checked: every liveness property (`EventuallyRegistered`, `ReaderConverges`, `OneLeaderInTheEnd`, `ReadersListed`,
`FailoverHappens`, `FollowersCatchUp`), which the prover does not reach. Every
invariant, every action property and the refinement that a passing run checks is
stated by a theorem, under the conditions above: of the engine's, those about contents
after kills need the files that the code cannot repair to be whole, and those about
searches need that no kill comes at all.

## 5. Not modelled

The geometry of vectors: an index that does not probe every cell may answer with any
of its rows. The start-up writes of the LSN file are one step with the rest of
`start`, so a kill does not cut `start` in two. Searches of the engine at an older
snapshot, and the reference counts of snapshots, which nothing but `health` reads. In
`ShardedWriter` vectors, and kills inside an operation (`LSMEngine` has them for one
engine). One reader in `ReadPath`, which loads every shard. A reader that serves a
deleted row for one refresh period, because a merge came between two of its reads or
because the new version is not flushed yet, is a behaviour of `ReadPath`; no property
forbids it. In `SegmentRegistry` and `LeaderElection`, proxying from a follower to the
leader is a failed or a late call; in `Coordinator` one registration call of a reader is
executed at a time, and the writer does not register. GET `/route/insert` with
`get_shard_id`, `get_nodes_for_range`, `observe_leader`: nothing uses their answers. A
directory that `rmtree` has half removed either still loads or makes `Segment.load`
raise; one that loads but has lost its `ids.npy` is not told apart. Observability, the
interactive client, and the benchmark and report scripts (together nearly half of the
lines) measure and print, and keep no state of the system.

## 6. Plan

1. Engine: `Start` in its two durable steps; an `rmtree` that fails and goes on;
   searches at an explicit older snapshot.
2. `SegmentRegistry` composed with `LeaderElection`: requests that are proxied
   during a change of leader.
3. `ShardedWriter` as an abstraction of several `LSMEngine`s (a refinement without
   kills inside operations).
4. Proofs: what a search finds after kills that have left no merge undone (with
   masked ids set apart, as in `ServesLedger`); types of the reader and the safety that
   `ReaderConverges` rests on (a cache never drops a segment for an older one); that a
   shard of `ShardedWriter` does what `LSMEngine` does.
