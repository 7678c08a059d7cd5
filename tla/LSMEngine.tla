------------------------------ MODULE LSMEngine ------------------------------
(***************************************************************************)
(* The storage engine of one shard: vecscaledb/storage/lsm.py over its     *)
(* write-ahead log (storage/wal.py), its segment directories               *)
(* (index/segment.py) and the tombstone file.                              *)
(*                                                                         *)
(* No body of `async with self._lock` awaits anything, so no engine        *)
(* coroutine ever suspends: to the event loop an insert, with the flush    *)
(* and the merge it triggers, is one step.  What can cut an operation in   *)
(* two is the death of the process, so an operation is split here at its   *)
(* durable writes; pc names the write that comes next, and Kill may strike *)
(* between any two of them (constant KillPoints) or in the middle of one   *)
(* (constant TornFiles).                                                   *)
(***************************************************************************)
EXTENDS Integers, FiniteSets

CONSTANTS
  Ids,             \* external vector ids
  Vectors,         \* vector payloads
  None,            \* no vector
  FlushThreshold,  \* live memtable rows that make an insert flush
  MergeThreshold,  \* segments that make a flush merge
  MaxLsn,          \* bound: no operation is accepted beyond this LSN
  KillPoints,      \* the values of pc at which the process may be killed
  TornFiles        \* the files a kill may catch half written

PCs == {"down", "idle", "meta", "apply", "flush", "create", "publish",
        "tmeta", "merge", "mpublish", "remove", "exit"}

ASSUME EngineAssumption ==
  /\ None \notin Vectors
  /\ FlushThreshold \in Nat \ {0}
  /\ MergeThreshold \in Nat \ {0}
  /\ MaxLsn \in Nat
  /\ KillPoints \subseteq PCs \ {"down"}
  /\ TornFiles \subseteq {"wal", "meta", "tombstones", "segment"}

(***************************************************************************)
(* A batch of rows is a total function: None marks an id that has no row.  *)
(***************************************************************************)
Rows == [Ids -> Vectors \cup {None}]
NoRows == [i \in Ids |-> None]
RowIds(rows) == {i \in Ids : rows[i] # None}

\* A memtable entry; lsn 0 stands for "the id is not in the dict", vec None
\* with a positive lsn for an entry with deleted = True.
Entry == [lsn : Nat, vec : Vectors \cup {None}]
NoEntry == [lsn |-> 0, vec |-> None]
NoEntries == [i \in Ids |-> NoEntry]

\* A WAL record, and the operation in flight ("none" and "stop" write none).
Record == [lsn : Nat, kind : {"insert", "delete", "stop", "none"},
           ids : SUBSET Ids, rows : Rows]
NoOp == [lsn |-> 0, kind |-> "none", ids |-> {}, rows |-> NoRows]

\* A segment: snap is its snapshot_id; uid orders the random suffixes of the
\* segment ids of one snapshot.
Segment == [snap : Nat, uid : Int, rows : Rows]
NoSegment == [snap |-> 0, uid |-> 0, rows |-> NoRows]

VARIABLES
  \* on disk
  wal,         \* the records WAL.recover() returns; their lsn is the file order
  walTorn,     \* a partial record follows them and cuts off what comes after
  walMeta,     \* the number in wal.log.meta; an empty file reads as 0
  tombFile,    \* the ids in tombstones.json; a broken file reads as {}
  dirs,        \* the segment directories that load
  unloadable,  \* some directory has a meta.json but Segment.load raises on it
  \* in the memory of the process
  memtable, segments, tombstones, lastLsn,
  \* the operation in flight
  pc, op,
  pending,     \* the segment a flush or a merge is writing
  merging      \* the segments a merge replaces

disk == <<wal, walTorn, walMeta, tombFile, dirs, unloadable>>
memory == <<memtable, segments, tombstones, lastLsn>>
control == <<pc, op, pending, merging>>
vars == <<disk, memory, control>>

Up == pc # "down"

-----------------------------------------------------------------------------
(***************************************************************************)
(* Segments.  The engine keeps its list sorted by (snapshot_id,            *)
(* segment_id), so the list is a set with this order.                      *)
(***************************************************************************)
Before(s, t) == s.snap < t.snap \/ (s.snap = t.snap /\ s.uid < t.uid)

Holding(segs, i) == {s \in segs : s.rows[i] # None}

\* Mutant: merge() keeps the oldest version of an id.
LatestRow_Oldest(segs, i) ==
  LET holders == Holding(segs, i)
  IN IF holders = {} THEN None
     ELSE (CHOOSE s \in holders : \A t \in holders : ~Before(t, s)).rows[i]

\* The row merge() keeps for i: the one of the last segment that has i.
LatestRow(segs, i) ==
  LET holders == Holding(segs, i)
  IN IF holders = {} THEN None
     ELSE (CHOOSE s \in holders : \A t \in holders : ~Before(s, t)).rows[i]

LatestRows(segs) == [i \in Ids |-> LatestRow(segs, i)]

\* The oldest n segments of the list.
IsOldest(old, segs, n) ==
  /\ old \subseteq segs
  /\ Cardinality(old) = n
  /\ \A s \in old, t \in segs \ old : Before(s, t)

\* Where the random part of a new segment id may sort among the directories
\* of the same snapshot.
FreshUids(snap) ==
  LET same == {d.uid : d \in {e \in dirs : e.snap = snap}}
  IN IF same = {} THEN {0}
     ELSE {u \in {v + k : v \in same, k \in {-1, 1}} : u \notin same}

-----------------------------------------------------------------------------
(***************************************************************************)
(* LSMEngine.search: the vectors an exact search at snapshot snap can      *)
(* return under id i, given the memtable, the segments and the tombstones. *)
(* More than one vector means that the distance to the query decides.      *)
(***************************************************************************)
InMem(mem, snap, i) == mem[i].lsn > 0 /\ mem[i].lsn <= snap

Hits(mem, segs, tombs, snap, i) ==
  LET shown == Holding({s \in segs : s.snap <= snap}, i)
      newest == {s \in shown : \A t \in shown : t.snap <= s.snap}
  IN CASE i \in tombs -> {}
       [] i \notin tombs /\ InMem(mem, snap, i) -> {mem[i].vec} \ {None}
       [] OTHER -> {s.rows[i] : s \in newest}

-----------------------------------------------------------------------------
(***************************************************************************)
(* Recovery: what start() computes from the disk.                          *)
(***************************************************************************)
\* Mutants: the meta file is ignored, or read as the next LSN.
RecoveredLsns_LogOnly == {0} \cup {r.lsn : r \in wal}
RecoveredLsns_NextLsn == {walMeta - 1} \cup {r.lsn : r \in wal}

RecoveredLsns == {walMeta} \cup {r.lsn : r \in wal}

\* Mutant: min() in the place of max() in WAL.open.
IsHighest_Lowest(n, S) == n \in S /\ \A m \in S : n <= m

IsHighest(n, S) == n \in S /\ \A m \in S : m <= n

\* Mutant: start() skips the records strictly below the newest segment.
Replayed_FromSnapshot == {r \in wal : \A s \in dirs : r.lsn >= s.snap}

\* start() skips every record at or below the newest segment's snapshot.
Replayed == {r \in wal : \A s \in dirs : r.lsn > s.snap}

\* Mutant: records are replayed newest first.
ReplayedEntry_Reversed(i) ==
  LET touching == {r \in Replayed : i \in r.ids}
  IN IF touching = {} THEN NoEntry
     ELSE LET last == CHOOSE r \in touching : \A q \in touching : r.lsn <= q.lsn
          IN [lsn |-> last.lsn, vec |-> last.rows[i]]

ReplayedEntry(i) ==
  LET touching == {r \in Replayed : i \in r.ids}
  IN IF touching = {} THEN NoEntry
     ELSE LET last == CHOOSE r \in touching : \A q \in touching : q.lsn <= r.lsn
          IN [lsn |-> last.lsn, vec |-> last.rows[i]]

ReplayedMemtable == [i \in Ids |-> ReplayedEntry(i)]

\* A replayed delete adds its ids to the tombstones; a replayed insert
\* removes none.
ReplayedTombstones ==
  tombFile \cup UNION {r.ids : r \in {q \in Replayed : q.kind = "delete"}}

Start ==
  /\ pc = "down"
  /\ \E n \in RecoveredLsns :
       /\ IsHighest(n, RecoveredLsns)
       /\ walMeta' = n
       /\ \/ /\ unloadable        \* Segment.load raises: start() fails
             /\ UNCHANGED <<memory, control>>
          \/ /\ ~unloadable
             /\ lastLsn' = n
             /\ segments' = dirs
             /\ tombstones' = ReplayedTombstones
             /\ memtable' = ReplayedMemtable
             /\ pc' = "idle"
             /\ UNCHANGED <<op, pending, merging>>
  /\ UNCHANGED <<wal, walTorn, tombFile, dirs, unloadable>>

-----------------------------------------------------------------------------
(***************************************************************************)
(* insert(), delete() and stop() up to the memtable.                       *)
(***************************************************************************)

\* WAL.append up to the fsync.  Behind a torn record the bytes reach the
\* file, but recover() never gets to them.
Append(rec) ==
  /\ pc = "idle"
  /\ lastLsn < MaxLsn
  /\ lastLsn' = rec.lsn
  /\ wal' = IF walTorn THEN wal ELSE wal \cup {rec}
  /\ op' = rec
  /\ pc' = "meta"
  /\ UNCHANGED <<walTorn, walMeta, tombFile, dirs, unloadable,
                 memtable, segments, tombstones, pending, merging>>

Insert(rows) ==
  /\ RowIds(rows) # {}
  /\ Append([lsn |-> lastLsn + 1, kind |-> "insert",
             ids |-> RowIds(rows), rows |-> rows])

Delete(ids) ==
  /\ ids # {}
  /\ Append([lsn |-> lastLsn + 1, kind |-> "delete",
             ids |-> ids, rows |-> NoRows])

\* WAL._write_meta_lsn at the end of append.
WriteMeta ==
  /\ pc = "meta"
  /\ walMeta' = lastLsn
  /\ pc' = "apply"
  /\ UNCHANGED <<wal, walTorn, tombFile, dirs, unloadable, memory,
                 op, pending, merging>>

LiveEntries(mem) == {i \in Ids : mem[i].vec # None}
Written(mem, rec) ==
  [i \in Ids |-> IF i \in rec.ids THEN [lsn |-> rec.lsn, vec |-> rec.rows[i]]
                 ELSE mem[i]]

ApplyInsert ==
  /\ pc = "apply" /\ op.kind = "insert"
  /\ memtable' = Written(memtable, op)
  /\ tombstones' = tombstones \ op.ids
  /\ tombFile' = IF tombstones \cap op.ids = {} THEN tombFile ELSE tombstones'
  /\ IF Cardinality(LiveEntries(memtable')) >= FlushThreshold
     THEN pc' = "flush" /\ op' = op
     ELSE pc' = "idle" /\ op' = NoOp
  /\ UNCHANGED <<wal, walTorn, walMeta, dirs, unloadable,
                 segments, lastLsn, pending, merging>>

ApplyDelete ==
  /\ pc = "apply" /\ op.kind = "delete"
  /\ memtable' = Written(memtable, op)
  /\ tombstones' = tombstones \cup op.ids
  /\ tombFile' = tombstones'
  /\ pc' = "idle"
  /\ op' = NoOp
  /\ UNCHANGED <<wal, walTorn, walMeta, dirs, unloadable,
                 segments, lastLsn, pending, merging>>

Stop ==
  /\ pc = "idle"
  /\ op' = [NoOp EXCEPT !.kind = "stop"]
  /\ pc' = "flush"
  /\ UNCHANGED <<disk, memory, pending, merging>>

\* The end of the operation in flight, after its flush and merge.
Return ==
  /\ pc' = IF op.kind = "stop" THEN "exit" ELSE "idle"
  /\ op' = NoOp

-----------------------------------------------------------------------------
(***************************************************************************)
(* flush()                                                                 *)
(***************************************************************************)
MemDeletes == {i \in Ids : memtable[i].lsn > 0 /\ memtable[i].vec = None}

\* The first locked section: keep the deletes, take the rows, clear.
FlushCapture ==
  /\ pc = "flush"
  /\ tombstones' = tombstones \cup MemDeletes
  /\ tombFile' = IF MemDeletes = {} THEN tombFile ELSE tombstones'
  /\ memtable' = NoEntries
  /\ \/ /\ LiveEntries(memtable) = {}
        /\ Return
        /\ UNCHANGED pending
     \/ /\ LiveEntries(memtable) # {}
        /\ \E i \in Ids :
             /\ \A j \in Ids : memtable[j].lsn <= memtable[i].lsn
             /\ pending' = [snap |-> memtable[i].lsn, uid |-> 0,
                            rows |-> [j \in Ids |-> memtable[j].vec]]
        /\ pc' = "create"
        /\ UNCHANGED op
  /\ UNCHANGED <<wal, walTorn, walMeta, dirs, unloadable,
                 segments, lastLsn, merging>>

\* Segment.create: the directory counts once its meta.json is written.
FlushCreate ==
  /\ pc = "create"
  /\ \E u \in FreshUids(pending.snap) : pending' = [pending EXCEPT !.uid = u]
  /\ dirs' = dirs \cup {pending'}
  /\ pc' = "publish"
  /\ UNCHANGED <<wal, walTorn, walMeta, tombFile, unloadable, memory,
                 op, merging>>

\* The second locked section: list the segment, WAL.truncate_before up to
\* its os.replace, which rewrites the recoverable records only.
FlushPublish ==
  /\ pc = "publish"
  /\ segments' = segments \cup {pending}
  /\ wal' = {r \in wal : r.lsn > pending.snap}
  /\ walTorn' = FALSE
  /\ pending' = NoSegment
  /\ pc' = "tmeta"
  /\ UNCHANGED <<walMeta, tombFile, dirs, unloadable,
                 memtable, tombstones, lastLsn, op, merging>>

\* The end of truncate_before, and the decision to merge.
TruncateMeta ==
  /\ pc = "tmeta"
  /\ walMeta' = lastLsn
  /\ IF Cardinality(segments) >= MergeThreshold
     THEN pc' = "merge" /\ UNCHANGED op
     ELSE Return
  /\ UNCHANGED <<wal, walTorn, tombFile, dirs, unloadable, memory,
                 pending, merging>>

-----------------------------------------------------------------------------
(***************************************************************************)
(* merge()                                                                 *)
(***************************************************************************)
\* Mutant: merge() copies deleted rows into the new segment.
MergedRows_KeepsDeleted(old) == LatestRows(old)

MergedRows(old) ==
  [i \in Ids |-> IF i \in tombstones THEN None ELSE LatestRow(old, i)]

Cleaned(old) == tombstones \cap RowIds(LatestRows(old))

MergeCreate ==
  /\ pc = "merge"
  /\ \E old \in SUBSET segments :
       /\ IsOldest(old, segments, MergeThreshold)
       /\ RowIds(MergedRows(old)) # {}
       /\ \E newest \in old :
            /\ \A s \in old : s.snap <= newest.snap
            /\ \E u \in FreshUids(newest.snap) :
                 pending' = [snap |-> newest.snap, uid |-> u,
                             rows |-> MergedRows(old)]
       /\ merging' = old
  /\ dirs' = dirs \cup {pending'}
  /\ pc' = "mpublish"
  /\ UNCHANGED <<wal, walTorn, walMeta, tombFile, unloadable, memory, op>>

MergePublish ==
  /\ pc = "mpublish"
  /\ segments' = (segments \ merging) \cup {pending}
  /\ tombstones' = tombstones \ Cleaned(merging)
  /\ tombFile' = tombstones'
  /\ pending' = NoSegment
  /\ pc' = "remove"
  /\ UNCHANGED <<wal, walTorn, walMeta, dirs, unloadable,
                 memtable, lastLsn, op, merging>>

\* Every row of the merged segments is deleted: no new segment.
MergeDropAll ==
  /\ pc = "merge"
  /\ \E old \in SUBSET segments :
       /\ IsOldest(old, segments, MergeThreshold)
       /\ RowIds(MergedRows(old)) = {}
       /\ segments' = segments \ old
       /\ tombstones' = tombstones \ Cleaned(old)
       /\ merging' = old
  /\ tombFile' = tombstones'
  /\ pc' = "remove"
  /\ UNCHANGED <<wal, walTorn, walMeta, dirs, unloadable,
                 memtable, lastLsn, op, pending>>

\* shutil.rmtree of the replaced directories, in list order.
RemoveOldest ==
  /\ pc = "remove"
  /\ \E s \in merging :
       /\ \A t \in merging : ~Before(t, s)
       /\ dirs' = dirs \ {s}
       /\ merging' = merging \ {s}
  /\ IF merging' = {} THEN Return ELSE UNCHANGED <<pc, op>>
  /\ UNCHANGED <<wal, walTorn, walMeta, tombFile, unloadable, memory, pending>>

-----------------------------------------------------------------------------
(***************************************************************************)
(* The end of the process.                                                 *)
(***************************************************************************)
PowerOff ==
  /\ pc' = "down"
  /\ op' = NoOp
  /\ pending' = NoSegment
  /\ merging' = {}
  /\ memtable' = NoEntries
  /\ segments' = {}
  /\ tombstones' = {}
  /\ lastLsn' = 0

\* stop() returns and the process ends.
Exit == pc = "exit" /\ PowerOff /\ UNCHANGED disk

\* The process dies before the durable write that pc names.
Kill == pc \in KillPoints /\ PowerOff /\ UNCHANGED disk

\* Inside WAL.append: part of a record is in the file.
TearLog ==
  /\ pc = "idle" /\ "wal" \in TornFiles
  /\ walTorn' = TRUE
  /\ UNCHANGED <<wal, walMeta, tombFile, dirs, unloadable>>

\* In _write_meta_lsn between open("w") and the write.
TearMeta ==
  /\ pc \in {"meta", "tmeta"} /\ "meta" \in TornFiles
  /\ walMeta' = 0
  /\ UNCHANGED <<wal, walTorn, tombFile, dirs, unloadable>>

\* The steps that rewrite tombstones.json.
PersistsTombstones ==
  \/ pc = "apply" /\ op.kind = "insert" /\ tombstones \cap op.ids # {}
  \/ pc = "apply" /\ op.kind = "delete"
  \/ pc = "flush" /\ MemDeletes # {}
  \/ pc = "mpublish"
  \/ pc = "merge" /\ \E old \in SUBSET segments :
       IsOldest(old, segments, MergeThreshold) /\ RowIds(MergedRows(old)) = {}

\* In _persist_tombstones between open("w") and the write.
TearTombstones ==
  /\ PersistsTombstones /\ "tombstones" \in TornFiles
  /\ tombFile' = {}
  /\ UNCHANGED <<wal, walTorn, walMeta, dirs, unloadable>>

\* While a meta.json is empty, or while rmtree has removed index.faiss and not
\* yet meta.json.
TearSegment ==
  /\ pc \in {"create", "merge", "remove"} /\ "segment" \in TornFiles
  /\ unloadable' = TRUE
  /\ \/ pc # "remove" /\ UNCHANGED dirs
     \/ /\ pc = "remove"
        /\ \E s \in merging : /\ \A t \in merging : ~Before(t, s)
                              /\ dirs' = dirs \ {s}
  /\ UNCHANGED <<wal, walTorn, walMeta, tombFile>>

\* The process dies inside a durable write and leaves it half done.
KillInWrite ==
  /\ pc \in KillPoints
  /\ TearLog \/ TearMeta \/ TearTombstones \/ TearSegment
  /\ PowerOff

-----------------------------------------------------------------------------
Init ==
  /\ wal = {} /\ walTorn = FALSE /\ walMeta = 0
  /\ tombFile = {} /\ dirs = {} /\ unloadable = FALSE
  /\ memtable = NoEntries /\ segments = {} /\ tombstones = {} /\ lastLsn = 0
  /\ pc = "down" /\ op = NoOp /\ pending = NoSegment /\ merging = {}

Request == (\E rows \in Rows : Insert(rows)) \/ (\E ids \in SUBSET Ids : Delete(ids))

Work == WriteMeta \/ ApplyInsert \/ ApplyDelete
          \/ FlushCapture \/ FlushCreate \/ FlushPublish \/ TruncateMeta
          \/ MergeCreate \/ MergePublish \/ MergeDropAll \/ RemoveOldest \/ Exit

Die == Kill \/ KillInWrite

Next == Start \/ Request \/ Stop \/ Work \/ Die

Spec == Init /\ [][Next]_vars

-----------------------------------------------------------------------------
(***************************************************************************)
(* The contents of the engine.  A write takes effect when its record is    *)
(* durable; the rows a flush has taken out of the memtable are still there *)
(* for a caller, who cannot run before the flush is over; a process that   *)
(* is down holds what start() will recover.                                *)
(***************************************************************************)
RecoveredLsn == CHOOSE n \in RecoveredLsns : IsHighest(n, RecoveredLsns)

RecoveredHits(tombs, i) == Hits(ReplayedMemtable, dirs, tombs, RecoveredLsn, i)

Unlisted == IF pc \in {"create", "publish"} THEN {pending} ELSE {}

Hidden == IF pc = "down" THEN ReplayedTombstones ELSE tombstones

\* What is held under i, were tombs the tombstones.
Held(tombs, i) ==
  CASE pc = "down" -> RecoveredHits(tombs, i)
    [] pc \in {"meta", "apply"} /\ i \in op.ids -> {op.rows[i]} \ {None}
    [] OTHER -> Hits(memtable, segments \cup Unlisted, tombs, lastLsn, i)

ServedHits(i) == Held(Hidden, i)

Content ==
  [i \in Ids |-> IF ServedHits(i) = {} THEN None
                 ELSE CHOOSE v \in ServedHits(i) : ServedHits(i) = {v}]

Store == INSTANCE VectorStore
           WITH store <- Content, request <- [ids |-> op.ids, rows |-> op.rows]

-----------------------------------------------------------------------------
(***************************************************************************)
(* Properties.                                                             *)
(***************************************************************************)

\* The type of every variable.
TypeOK ==
  /\ wal \subseteq Record
  /\ walTorn \in BOOLEAN /\ walMeta \in Nat
  /\ tombFile \subseteq Ids
  /\ dirs \subseteq Segment /\ unloadable \in BOOLEAN
  /\ memtable \in [Ids -> Entry]
  /\ segments \subseteq Segment
  /\ tombstones \subseteq Ids
  /\ lastLsn \in Nat
  /\ pc \in PCs
  /\ op \in Record
  /\ pending \in Segment
  /\ merging \subseteq Segment

\* Without kills the engine is the store its callers think it is: flushes,
\* merges, tombstone cleanup and restarts never show (insert, delete, flush,
\* merge, start and search of lsm.py taken together).
ImplementsVectorStore == Store!Spec

\* A merge takes a tombstone away only when no row of the id is left behind it,
\* in the merged segment or in one it has not merged (merge, the two places
\* that clear tombstones).
ClearedIdsAreGone ==
  [][(pc \in {"merge", "mpublish"}) =>
        \A i \in tombstones \ tombstones' : Holding(segments', i) = {}]_vars

\* The snapshot search() takes by default, wal.last_lsn, reaches every listed
\* segment and memtable row, so no row is out of its sight.
SegmentsVisible ==
  Up => /\ \A s \in segments : s.snap <= lastLsn
        /\ \A i \in Ids : memtable[i].lsn <= lastLsn

\* The next append gets an LSN above every record that recovery reaches, every
\* segment and the meta value on disk, across kills, so the engine tells no two
\* writes by one LSN (WAL.open, WAL.append).
LsnsAreFresh ==
  Up => /\ \A r \in wal : r.lsn <= lastLsn
        /\ \A s \in dirs : s.snap <= lastLsn
        /\ walMeta <= lastLsn

\* The record of an acknowledged write stays in the log, above the snapshot
\* start() replays from, for as long as its row is only in memory
\* (flush: Segment.create before truncate_before).
Logged(i, lsn, vec) ==
  \E r \in wal : r.lsn = lsn /\ i \in r.ids /\ r.rows[i] = vec

UnflushedWritesAreLogged ==
  /\ Up => \A i \in Ids : memtable[i].lsn > 0 =>
              /\ Logged(i, memtable[i].lsn, memtable[i].vec)
              /\ \A s \in dirs : s.snap < memtable[i].lsn
  /\ pc = "create" => \A i \in RowIds(pending.rows) :
              \E r \in wal : i \in r.ids /\ r.rows[i] = pending.rows[i]

\* Why the log invariants hold: the LSN in memory is the highest on disk, the
\* operation in flight is logged above every segment, and a flush or a merge
\* runs on an empty memtable.  Inductive when neither the log nor its meta file
\* can be torn.
LogInv ==
  /\ ~walTorn
  /\ ~Up => pending = NoSegment
  /\ \A s \in dirs : \E n \in RecoveredLsns : s.snap <= n
  /\ Up => /\ IsHighest(lastLsn, RecoveredLsns)
           /\ \A s \in dirs \cup segments \cup {pending} : s.snap <= lastLsn
           /\ \A i \in Ids : memtable[i].lsn <= lastLsn
           /\ pc # "meta" => walMeta = lastLsn
  /\ pc \in {"meta", "apply"} => /\ op \in wal
                                /\ op.lsn = lastLsn
                                /\ \A s \in dirs : s.snap < lastLsn
  /\ pc \in {"create", "publish", "tmeta", "merge", "mpublish", "remove", "exit"}
       => memtable = NoEntries

=============================================================================
