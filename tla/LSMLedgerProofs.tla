--------------------------- MODULE LSMLedgerProofs ---------------------------
(***************************************************************************)
(* Proofs about the contents of the engine, for any number of ids, vectors *)
(* and operations: the newest row of an id survives every kill and every   *)
(* flush and merge cut in two, deleted ids stay deleted as long as no kill *)
(* has left a merge undone, and without kills the engine implements        *)
(* VectorStore and search finds what its callers wrote.                    *)
(***************************************************************************)
EXTENDS EngineSearch, LSMEngineProofs

-----------------------------------------------------------------------------
(***************************************************************************)
(* What a list of segments holds under an id.                              *)
(*                                                                         *)
(* A merge that a kill has cut off leaves the segments it has merged beside*)
(* the merged one, at equal snapshots, and the next merge may take any     *)
(* prefix of that list.  So it is not enough that the newest rows are v:   *)
(* for a row that is not v there must be a newer one, and also after the   *)
(* snapshot of any segment x of the list has become that row's.            *)
(***************************************************************************)
Good(segs, i, v) ==
  \A y \in Holding(segs, i), x \in segs :
     \/ y.rows[i] = v
     \/ x.snap < y.snap
     \/ \E z \in Holding(segs, i) : z.snap > y.snap /\ (z = x \/ z.snap # x.snap)

Holds(segs, i, v) == Holding(segs, i) # {} /\ Good(segs, i, v)

\* Only segments at most as new as one of a few merged ones share a snapshot.
FewBelow(segs) ==
  \A s, t \in segs : s # t /\ s.snap = t.snap
     => Cardinality({d \in segs : d.snap < s.snap}) < MergeThreshold

\* All rows an exact search finds under the newest snapshot are v.
LEMMA NewestHoldersAgree ==
  ASSUME NEW segs, segs \subseteq Segment, IsFiniteSet(segs),
         NEW i \in Ids, NEW v, Holds(segs, i, v),
         NEW newest, newest = {s \in Holding(segs, i) : \A t \in Holding(segs, i) : t.snap <= s.snap}
  PROVE  {s.rows[i] : s \in newest} = {v}
<1> DEFINE H == Holding(segs, i)
<1>1. H \subseteq segs /\ IsFiniteSet(H) /\ H # {}
  <2>1. H \subseteq segs
    BY DEF Holding
  <2> QED
    BY <2>1, FS_Subset DEF Holds
<1>2. PICK m \in H : \A t \in H : ~Before(m, t)
  BY <1>1, NewestSegment
<1>3. \A s \in H : s.snap \in Nat
  BY <1>1 DEF Segment
<1>4. m \in newest
  BY <1>2, <1>3 DEF Before
<1>5. \A s \in newest : s.rows[i] = v
  BY <1>1, <1>3 DEF Holds, Good
<1> QED
  BY <1>4, <1>5

\* A new segment above all others keeps the newest row or brings it.
LEMMA AddNewest ==
  ASSUME NEW segs, segs \subseteq Segment, NEW p \in Segment,
         \A s \in segs : s.snap < p.snap,
         NEW i \in Ids, NEW v,
         (p.rows[i] = v /\ v # None) \/ (p.rows[i] = None /\ Good(segs, i, v))
  PROVE  Good(segs \cup {p}, i, v)
<1> SUFFICES ASSUME NEW y \in Holding(segs \cup {p}, i), NEW x \in segs \cup {p},
                    y.rows[i] # v, ~(x.snap < y.snap)
             PROVE  \E z \in Holding(segs \cup {p}, i) :
                       z.snap > y.snap /\ (z = x \/ z.snap # x.snap)
  BY DEF Good
<1>1. \A s \in segs \cup {p} : s.snap \in Nat
  BY DEF Segment
<1>2. CASE p.rows[i] = v /\ v # None
  <2>1. y \in segs /\ p \in Holding(segs \cup {p}, i)
    BY <1>2 DEF Holding
  <2> QED
    BY <1>1, <2>1
<1>3. CASE p.rows[i] = None /\ Good(segs, i, v)
  <2>1. y \in Holding(segs, i) /\ y \in segs
    BY <1>3 DEF Holding
  <2>2. \E z \in Holding(segs, i) : z.snap > y.snap /\ (z = x \/ z.snap # x.snap)
    <3>1. CASE x \in segs
      BY <2>1, <3>1, <1>3 DEF Good
    <3>2. CASE x = p
      <4>1. PICK z \in Holding(segs, i) : z.snap > y.snap
        BY <1>1, <1>3, <2>1 DEF Good
      <4>2. z.snap < p.snap /\ z.snap \in Nat /\ p.snap \in Nat
        BY <1>1 DEF Holding
      <4> QED
        BY <3>2, <4>1, <4>2
    <3> QED
      BY <3>1, <3>2
  <2> QED
    BY <2>2 DEF Holding
<1> QED
  BY <1>2, <1>3

\* Taking away segments at most as new as all that stay.
LEMMA DropOldest ==
  ASSUME NEW segs, segs \subseteq Segment, NEW rest \in SUBSET segs,
         \A r \in segs \ rest, d \in rest : r.snap <= d.snap,
         NEW i \in Ids, NEW v, Good(segs, i, v)
  PROVE  Good(rest, i, v)
<1> SUFFICES ASSUME NEW y \in Holding(rest, i), NEW x \in rest,
                    y.rows[i] # v, ~(x.snap < y.snap)
             PROVE  \E z \in Holding(rest, i) :
                       z.snap > y.snap /\ (z = x \/ z.snap # x.snap)
  BY DEF Good
<1>1. y \in Holding(segs, i) /\ x \in segs /\ y \in rest
  BY DEF Holding
<1>2. PICK z \in Holding(segs, i) : z.snap > y.snap /\ (z = x \/ z.snap # x.snap)
  BY <1>1 DEF Good
<1>3. z \in segs /\ z.snap \in Nat /\ y.snap \in Nat
  BY <1>1 DEF Holding, Segment
<1>4. z \in rest
  BY <1>1, <1>2, <1>3
<1> QED
  BY <1>2, <1>4 DEF Holding

\* The newest row of the segments a merge takes.
LEMMA LatestRowSource ==
  ASSUME NEW segs, segs \subseteq Segment, IsFiniteSet(segs), NEW i \in Ids
  PROVE  \/ Holding(segs, i) = {} /\ LatestRow(segs, i) = None
         \/ \E m \in Holding(segs, i) : /\ \A t \in Holding(segs, i) : ~Before(m, t)
                                        /\ LatestRow(segs, i) = m.rows[i]
<1> DEFINE H == Holding(segs, i)
<1>1. CASE H = {}
  BY <1>1 DEF LatestRow
<1>2. CASE H # {}
  <2>1. H \subseteq segs
    BY DEF Holding
  <2>2. \E s \in H : \A t \in H : ~Before(s, t)
    BY <1>2, <2>1, FS_Subset, NewestSegment
  <2> DEFINE m == CHOOSE s \in H : \A t \in H : ~Before(s, t)
  <2>3. m \in H /\ \A t \in H : ~Before(m, t)
    BY <2>2
  <2>4. LatestRow(segs, i) = m.rows[i]
    BY <1>2 DEF LatestRow
  <2> QED
    BY <2>3, <2>4
<1> QED
  BY <1>1, <1>2

\* The oldest segments a merge takes reach every snapshot that two segments share.
LEMMA OldestReachShared ==
  ASSUME NEW segs, segs \subseteq Segment, IsFiniteSet(segs), FewBelow(segs),
         NEW old, IsOldest(old, segs, MergeThreshold),
         NEW newest \in old, \A s \in old : s.snap <= newest.snap,
         NEW s \in segs, NEW t \in segs, s # t, s.snap = t.snap
  PROVE  s.snap <= newest.snap
<1> SUFFICES ASSUME newest.snap < s.snap PROVE FALSE
  BY DEF IsOldest, Segment
<1> DEFINE below == {d \in segs : d.snap < s.snap}
<1>1. old \subseteq segs /\ Cardinality(old) = MergeThreshold /\ MergeThreshold \in Nat
  BY EngineAssumption DEF IsOldest
<1>2. old \subseteq below
  BY <1>1 DEF Segment
<1>3. below \subseteq segs
  OBVIOUS
<1>4. IsFiniteSet(below) /\ Cardinality(below) \in Nat
  BY <1>3, FS_Subset, FS_CardinalityType
<1>5. Cardinality(old) <= Cardinality(below)
  BY <1>2, <1>4, FS_Subset
<1>6. Cardinality(below) < MergeThreshold
  BY DEF FewBelow
<1> QED
  BY <1>1, <1>4, <1>5, <1>6

\* A merged segment beside those it replaces shares snapshots only with segments
\* that the next merge reaches.
LEMMA MergeKeepsFewBelow ==
  ASSUME NEW segs, segs \subseteq Segment, IsFiniteSet(segs), FewBelow(segs),
         NEW old, IsOldest(old, segs, MergeThreshold),
         NEW newest \in old, \A s \in old : s.snap <= newest.snap,
         NEW p \in Segment, p.snap = newest.snap
  PROVE  FewBelow(segs \cup {p})
<1> SUFFICES ASSUME NEW s \in segs \cup {p}, NEW t \in segs \cup {p},
                    s # t, s.snap = t.snap
             PROVE  Cardinality({d \in segs \cup {p} : d.snap < s.snap}) < MergeThreshold
  BY DEF FewBelow
<1> DEFINE below == {d \in segs \cup {p} : d.snap < s.snap}
<1>1. old \subseteq segs /\ Cardinality(old) = MergeThreshold /\ MergeThreshold \in Nat
  BY EngineAssumption DEF IsOldest
<1>2. newest.snap \in Nat /\ \A d \in segs \cup {p} : d.snap \in Nat
  BY <1>1 DEF Segment
<1>3. CASE s.snap = newest.snap
  <2>1. below \subseteq old \ {newest}
    BY <1>2, <1>3 DEF IsOldest, Before
  <2>2. IsFiniteSet(old) /\ IsFiniteSet(old \ {newest})
        /\ Cardinality(old \ {newest}) = MergeThreshold - 1
    BY <1>1, FS_Subset, FS_RemoveElement
  <2>3. Cardinality(below) <= Cardinality(old \ {newest}) /\ Cardinality(below) \in Nat
    BY <2>1, <2>2, FS_Subset, FS_CardinalityType
  <2> QED
    BY <1>1, <2>2, <2>3
<1>4. CASE s.snap # newest.snap
  <2>1. s \in segs /\ t \in segs
    BY <1>4
  <2>2. s.snap < p.snap
    BY <1>2, <1>4, <2>1, OldestReachShared
  <2>3. below = {d \in segs : d.snap < s.snap}
    BY <1>2, <2>2
  <2> QED
    BY <2>1, <2>3 DEF FewBelow
<1> QED
  BY <1>3, <1>4

\* The merged segment neither hides the newest row nor stands in for it wrongly,
\* beside the segments it replaces and in their place.
LEMMA MergeKeepsNewest ==
  ASSUME NEW segs, segs \subseteq Segment, IsFiniteSet(segs), FewBelow(segs),
         NEW old, IsOldest(old, segs, MergeThreshold),
         NEW newest \in old, \A s \in old : s.snap <= newest.snap,
         NEW p \in Segment, p.snap = newest.snap,
         NEW i \in Ids, p.rows[i] = LatestRow(old, i),
         NEW v, Holds(segs, i, v)
  PROVE  /\ Holds(segs \cup {p}, i, v)
         /\ Holding((segs \ old) \cup {p}, i) # {}
<1> DEFINE all == segs \cup {p}
<1>1. old \subseteq segs /\ old \subseteq Segment /\ IsFiniteSet(old)
  BY FS_Subset DEF IsOldest
<1>2. newest.snap \in Nat /\ \A s \in all : s.snap \in Nat
  BY <1>1 DEF Segment
<1>3. Holding(old, i) # {} => p.rows[i] # None
  BY <1>1, LatestRowSource DEF Holding
<1>4. Holding((segs \ old) \cup {p}, i) # {}
  <2>1. CASE Holding(old, i) # {}
    BY <1>3, <2>1 DEF Holding
  <2>2. CASE Holding(old, i) = {}
    BY <2>2 DEF Holds, Holding
  <2> QED
    BY <2>1, <2>2
<1>5. \A z \in Holding(segs, i) : z \in Holding(all, i)
  BY DEF Holding
<1>6. Holding(all, i) # {}
  BY <1>5 DEF Holds
\* A newer row is above the merged segment, or the merged segment holds it.
<1>7. ASSUME NEW y \in Holding(segs, i), y.rows[i] # v, y.snap <= newest.snap
      PROVE  \/ y.snap < p.snap /\ p \in Holding(all, i)
             \/ \E z \in Holding(segs, i) : z.snap > y.snap /\ z.snap # p.snap
  <2>1. PICK z \in Holding(segs, i) :
           z.snap > y.snap /\ (z = newest \/ z.snap # newest.snap)
    BY <1>1, <1>2, <1>7 DEF Holds, Good, Holding
  <2>2. CASE z = newest
    BY <1>3, <2>1, <2>2 DEF Holding
  <2> QED
    BY <2>1, <2>2
<1>8. ASSUME NEW y \in Holding(all, i), y.rows[i] # v, y.snap <= newest.snap, NEW x \in all,
             NEW z \in Holding(segs, i), z.snap > newest.snap
      PROVE  \E w \in Holding(all, i) : w.snap > y.snap /\ (w = x \/ w.snap # x.snap)
  <2>1. z \in segs /\ z \in Holding(all, i) /\ z.snap > y.snap
    BY <1>2, <1>5, <1>8 DEF Holding
  <2>2. CASE x.snap = z.snap /\ x # z
    <3>1. x \in segs
      BY <1>2, <1>8, <2>2
    <3>2. z.snap <= newest.snap
      BY <2>1, <2>2, <3>1, OldestReachShared
    <3> QED
      BY <1>2, <1>8, <2>1, <3>2
  <2> QED
    BY <2>1, <2>2
<1>9. ASSUME NEW y \in Holding(all, i), NEW x \in all, y.rows[i] # v, ~(x.snap < y.snap)
      PROVE  \E z \in Holding(all, i) : z.snap > y.snap /\ (z = x \/ z.snap # x.snap)
  <2>1. CASE y = p
    <3>1. PICK m \in Holding(old, i) : /\ \A t \in Holding(old, i) : ~Before(m, t)
                                       /\ p.rows[i] = m.rows[i]
      BY <1>1, <2>1, LatestRowSource DEF Holding
    <3>2. m \in Holding(segs, i) /\ m \in old /\ m.snap <= newest.snap
      BY <1>1 DEF Holding
    <3>3. PICK z \in Holding(segs, i) :
             z.snap > m.snap /\ (z = newest \/ z.snap # newest.snap)
      BY <1>1, <1>2, <2>1, <1>9, <3>1, <3>2 DEF Holds, Good, Holding
    <3>4. z \in segs /\ m \in segs /\ z.snap \in Nat /\ m.snap \in Nat
      BY <1>2, <3>2 DEF Holding
    <3>5. z \notin old
      BY <3>1, <3>2, <3>3, <3>4 DEF Holding, Before
    <3>6. z.snap > newest.snap
      BY <1>2, <3>3, <3>4, <3>5 DEF IsOldest, Before
    <3> QED
      BY <1>8, <1>9, <2>1, <3>6
  <2>2. CASE y # p
    <3>1. y \in Holding(segs, i)
      BY <2>2 DEF Holding
    <3>2. CASE x \in segs
      BY <1>5, <1>9, <3>1, <3>2 DEF Holds, Good
    <3>3. CASE x = p
      BY <1>5, <1>7, <1>9, <3>1, <3>3, <1>2 DEF Holding
    <3> QED
      BY <3>2, <3>3
  <2> QED
    BY <2>1, <2>2
<1>10. Good(all, i, v)
  BY <1>9 DEF Good
<1> QED
  BY <1>4, <1>6, <1>10 DEF Holds

-----------------------------------------------------------------------------
(***************************************************************************)
(* What the log replays.                                                   *)
(***************************************************************************)

\* ReplayedEntry for any set of records.
LastEntry(log, i) ==
  LET touching == {r \in log : i \in r.ids}
  IN IF touching = {} THEN NoEntry
     ELSE LET last == CHOOSE r \in touching : \A q \in touching : q.lsn <= r.lsn
          IN [lsn |-> last.lsn, vec |-> last.rows[i]]

\* The last record that names an id decides its entry.
LEMMA LastEntrySource ==
  ASSUME NEW log, log \subseteq Record, IsFiniteSet(log), NEW i
  PROVE  \/ LastEntry(log, i) = NoEntry /\ \A q \in log : i \notin q.ids
         \/ \E r \in log : /\ i \in r.ids
                           /\ \A q \in log : i \in q.ids => q.lsn <= r.lsn
                           /\ LastEntry(log, i) = [lsn |-> r.lsn, vec |-> r.rows[i]]
<1> DEFINE T == {r \in log : i \in r.ids}
<1>1. CASE T = {}
  BY <1>1 DEF LastEntry
<1>2. CASE T # {}
  <2>1. T \subseteq log
    OBVIOUS
  <2>2. \E r \in T : \A q \in T : q.lsn <= r.lsn
    BY <1>2, <2>1, FS_Subset, NewestRecord
  <2> DEFINE m == CHOOSE r \in T : \A q \in T : q.lsn <= r.lsn
  <2>3. m \in T /\ \A q \in T : q.lsn <= m.lsn
    BY <2>2
  <2>4. LastEntry(log, i) = [lsn |-> m.lsn, vec |-> m.rows[i]]
    BY <1>2 DEF LastEntry
  <2> QED
    BY <2>3, <2>4
<1> QED
  BY <1>1, <1>2

LEMMA LastEntryOf ==
  ASSUME NEW log, log \subseteq Record, IsFiniteSet(log),
         \A r, q \in log : r.lsn = q.lsn => r = q,
         NEW i, NEW r \in log, i \in r.ids, \A q \in log : i \in q.ids => q.lsn <= r.lsn
  PROVE  LastEntry(log, i) = [lsn |-> r.lsn, vec |-> r.rows[i]]
<1>1. PICK m \in log : /\ i \in m.ids
                       /\ \A q \in log : i \in q.ids => q.lsn <= m.lsn
                       /\ LastEntry(log, i) = [lsn |-> m.lsn, vec |-> m.rows[i]]
  BY LastEntrySource
<1>2. m.lsn = r.lsn
  BY <1>1 DEF Record
<1> QED
  BY <1>1, <1>2

LEMMA ReplaysLastEntry == \A i : ReplayedEntry(i) = LastEntry(Replayed, i)
BY DEF ReplayedEntry, LastEntry

\* An empty log replays nothing.
LEMMA NothingToReplay ==
  ASSUME NEW i
  PROVE  LastEntry({}, i) = NoEntry
BY DEF LastEntry

\* A record above all others replaces the entries of its ids.
LEMMA AppendedEntry ==
  ASSUME NEW log, log \subseteq Record, IsFiniteSet(log),
         NEW rec \in Record, \A q \in log : q.lsn < rec.lsn,
         \A r, q \in log : r.lsn = q.lsn => r = q, NEW i
  PROVE  LastEntry(log \cup {rec}, i) =
           IF i \in rec.ids THEN [lsn |-> rec.lsn, vec |-> rec.rows[i]]
           ELSE LastEntry(log, i)
<1> DEFINE new == log \cup {rec}
<1>1. CASE i \in rec.ids
  <2>1. new \subseteq Record /\ IsFiniteSet(new) /\ rec \in new
    BY FS_AddElement
  <2>2. \A q \in new : q.lsn <= rec.lsn
    BY DEF Record
  <2>3. \A r, q \in new : r.lsn = q.lsn => r = q
    BY DEF Record
  <2>4. LastEntry(new, i) = [lsn |-> rec.lsn, vec |-> rec.rows[i]]
    <3> HIDE DEF new
    <3> QED
      BY <1>1, <2>1, <2>2, <2>3, LastEntryOf
  <2> QED
    BY <1>1, <2>4
<1>2. CASE i \notin rec.ids
  <2>1. {r \in new : i \in r.ids} = {r \in log : i \in r.ids}
    BY <1>2
  <2> QED
    BY <1>2, <2>1 DEF LastEntry
<1> QED
  BY <1>1, <1>2

-----------------------------------------------------------------------------
(***************************************************************************)
(* The engine between two durable writes: what is in flight, in the log, in*)
(* the memtable, in the list of segments and on disk.                      *)
(***************************************************************************)

\* The operation in flight.
OpFacts ==
  /\ pc \in {"down", "idle", "exit"} => op = NoOp
  /\ pc \in {"meta", "apply"} =>
       \/ op.kind = "delete" /\ op.rows = NoRows
       \/ op.kind = "insert" /\ op.ids = RowIds(op.rows)
  /\ pc = "flush" /\ LiveEntries(memtable) = {} => op.kind = "stop"

\* Every record has an LSN of its own, and names an id.
LogFacts ==
  /\ \A r, q \in wal : r.lsn = q.lsn => r = q
  /\ \A r \in wal : r.ids # {}

\* The segments in the list and those on disk.
ListFacts ==
  /\ pc \in {"idle", "meta", "apply", "flush", "create", "tmeta", "merge", "exit"}
       => dirs = segments
  /\ pc \in {"publish", "mpublish"} => dirs = segments \cup {pending}
  /\ pc = "mpublish" =>
       /\ merging \subseteq segments /\ pending \notin segments
       /\ \A s \in merging : /\ s.snap <= pending.snap
                             /\ \A t \in segments \ merging : s.snap <= t.snap
  /\ pc = "remove" =>
       /\ dirs = segments \cup merging /\ segments \cap merging = {}
       /\ \A s \in merging, t \in segments : s.snap <= t.snap

\* The memtable, or the segment made of it, is what start() would replay.
ReplayFacts ==
  /\ pc \in {"idle", "flush"} => memtable = ReplayedMemtable
  /\ pc \in {"meta", "apply"} => ReplayedMemtable = Written(memtable, op)
  /\ pc = "create" => /\ \A i \in Ids : ReplayedEntry(i).vec = pending.rows[i]
                      /\ \A s \in dirs : s.snap < pending.snap
  /\ pc \in {"create", "publish"} => \A r \in wal : r.lsn <= pending.snap
  /\ pc \in {"tmeta", "merge", "mpublish", "remove"} => wal = {}
  /\ pc = "exit" => \A i \in Ids : ReplayedEntry(i).vec = None

LEMMA AppendsInsertOrDelete ==
  ASSUME Request, lastLsn \in Nat
  PROVE  \E rec \in Record :
           /\ Append(rec) /\ rec.lsn = lastLsn + 1 /\ rec.ids # {}
           /\ \/ rec.kind = "delete" /\ rec.rows = NoRows
              \/ rec.kind = "insert" /\ rec.ids = RowIds(rec.rows)
<1>1. ASSUME NEW rows \in Rows, Insert(rows)
      PROVE  [lsn |-> lastLsn + 1, kind |-> "insert", ids |-> RowIds(rows), rows |-> rows] \in Record
  BY DEF Record, RowIds
<1>2. ASSUME NEW ids \in SUBSET Ids, Delete(ids)
      PROVE  [lsn |-> lastLsn + 1, kind |-> "delete", ids |-> ids, rows |-> NoRows] \in Record
  BY ConstantTypes DEF Record
<1>3. CASE \E rows \in Rows : Insert(rows)
  BY <1>1, <1>3 DEF Insert
<1>4. CASE \E ids \in SUBSET Ids : Delete(ids)
  BY <1>2, <1>4 DEF Delete
<1> QED
  BY <1>3, <1>4 DEF Request

\* What a merge takes and what it writes.
LEMMA MergeTakes ==
  ASSUME MergeCreate
  PROVE  \E old \in SUBSET segments, newest \in segments :
           /\ newest \in old /\ \A s \in old : s.snap <= newest.snap
           /\ IsOldest(old, segments, MergeThreshold)
           /\ \E u \in FreshUids(newest.snap) :
                pending' = [snap |-> newest.snap, uid |-> u, rows |-> MergedRows(old)]
           /\ merging' = old
BY DEF MergeCreate

\* A new segment id differs from those of its snapshot.
LEMMA FreshUidsAreNew ==
  ASSUME NEW snap, NEW u \in FreshUids(snap), NEW d \in dirs, d.snap = snap
  PROVE  d.uid # u
<1> DEFINE same == {e.uid : e \in {e \in dirs : e.snap = snap}}
<1>1. d.uid \in same
  OBVIOUS
<1>2. FreshUids(snap) = {w \in {v + k : v \in same, k \in {-1, 1}} : w \notin same}
  BY <1>1 DEF FreshUids
<1> HIDE DEF same
<1> QED
  BY <1>1, <1>2

THEOREM OpInvariant == Spec => []OpFacts
<1>1. Init => OpFacts
  BY DEF Init, OpFacts
<1>2. TypeInv /\ OpFacts /\ [Next]_vars => OpFacts'
  <2> SUFFICES ASSUME TypeInv, OpFacts, [Next]_vars PROVE OpFacts'
    OBVIOUS
  <2> USE DEF OpFacts
  <2>1. CASE Start
    <3>1. pc = "down" /\ pc' \in {"down", "idle"} /\ op' = op
      BY <2>1 DEF Start, control
    <3> QED
      BY <2>1, <3>1
  <2>2. CASE Request
    <3>1. PICK rec \in Record :
            /\ Append(rec)
            /\ \/ rec.kind = "delete" /\ rec.rows = NoRows
               \/ rec.kind = "insert" /\ rec.ids = RowIds(rec.rows)
      BY <2>2, AppendsInsertOrDelete DEF TypeInv, TypeOK
    <3> QED
      BY <3>1 DEF Append, RowIds
  <2>3. CASE Stop
    BY <2>3 DEF Stop, NoOp
  <2>4. CASE WriteMeta
    BY <2>4 DEF WriteMeta, RowIds
  <2>5. CASE ApplyInsert
    <3>1. Cardinality(LiveEntries(memtable')) >= FlushThreshold => LiveEntries(memtable') # {}
      <4>1. FlushThreshold > 0 /\ FlushThreshold \in Nat
        BY EngineAssumption
      <4> QED
        BY <4>1, FS_EmptySet
    <3> QED
      BY <2>5, <3>1 DEF ApplyInsert, LiveEntries
  <2>6. CASE ApplyDelete
    BY <2>6 DEF ApplyDelete
  <2>7. Return => pc' \in {"idle", "exit"} /\ op' = NoOp
    BY DEF Return
  <2>8. CASE FlushCapture \/ TruncateMeta \/ RemoveOldest
    BY <2>7, <2>8 DEF FlushCapture, TruncateMeta, RemoveOldest
  <2>9. CASE FlushCreate \/ FlushPublish \/ MergeCreate \/ MergePublish \/ MergeDropAll
    BY <2>9 DEF FlushCreate, FlushPublish, MergeCreate, MergePublish, MergeDropAll
  <2>10. CASE Exit \/ Die
    BY <2>10 DEF Exit, Die, Kill, KillInWrite, PowerOff
  <2>11. CASE UNCHANGED vars
    BY <2>11 DEF vars, memory, control, RowIds, LiveEntries
  <2> QED
    BY <2>1, <2>2, <2>3, <2>4, <2>5, <2>6, <2>8, <2>9, <2>10, <2>11 DEF Next, Work
<1> QED
  BY <1>1, <1>2, TypeInvariant, PTL DEF Spec

THEOREM ListInvariant == Spec => []ListFacts
<1>1. Init => ListFacts
  BY DEF Init, ListFacts
<1>2. TypeInv /\ ListFacts /\ [Next]_vars => ListFacts'
  <2> SUFFICES ASSUME TypeInv, ListFacts, [Next]_vars PROVE ListFacts'
    OBVIOUS
  <2> USE DEF ListFacts
  <2>1. CASE Start
    BY <2>1 DEF Start, control
  <2>2. CASE Request \/ Stop \/ WriteMeta \/ ApplyInsert \/ ApplyDelete
    BY <2>2 DEF Request, Insert, Delete, Append, Stop, WriteMeta, ApplyInsert, ApplyDelete,
                disk, memory
  <2>3. Return => pc' \in {"idle", "exit"}
    BY DEF Return
  <2>4. CASE FlushCapture
    BY <2>3, <2>4 DEF FlushCapture
  <2>5. CASE FlushCreate
    BY <2>5 DEF FlushCreate, memory
  <2>6. CASE FlushPublish
    BY <2>6 DEF FlushPublish
  <2>7. CASE TruncateMeta
    BY <2>3, <2>7 DEF TruncateMeta, memory
  <2>8. CASE MergeCreate
    <3>1. /\ pc = "merge" /\ pc' = "mpublish" /\ dirs = segments
          /\ dirs' = dirs \cup {pending'} /\ UNCHANGED segments
      BY <2>8 DEF MergeCreate, memory
    <3>2. PICK old \in SUBSET segments, newest \in segments :
            /\ newest \in old /\ \A s \in old : s.snap <= newest.snap
            /\ IsOldest(old, segments, MergeThreshold)
            /\ \E u \in FreshUids(newest.snap) :
                 pending' = [snap |-> newest.snap, uid |-> u, rows |-> MergedRows(old)]
            /\ merging' = old
      BY <2>8, MergeTakes
    <3>3. PICK u \in FreshUids(newest.snap) :
            pending' = [snap |-> newest.snap, uid |-> u, rows |-> MergedRows(old)]
      BY <3>2
    <3>4. pending' \notin segments
      <4>1. \A d \in dirs : d.snap = newest.snap => d.uid # u
        BY FreshUidsAreNew
      <4> QED
        BY <3>1, <3>3, <4>1
    <3>5. \A s \in old : s.snap <= pending'.snap
      BY <3>2, <3>3
    <3>6. \A s \in old, t \in segments \ old : s.snap <= t.snap
      BY <3>2 DEF IsOldest, Before, TypeInv, TypeOK, Segment
    <3> QED
      BY <3>1, <3>2, <3>4, <3>5, <3>6
  <2>9. CASE MergePublish
    <3>1. /\ pc = "mpublish" /\ pc' = "remove" /\ UNCHANGED <<dirs, merging>>
          /\ segments' = (segments \ merging) \cup {pending}
      BY <2>9 DEF MergePublish
    <3> QED
      BY <3>1
  <2>10. CASE MergeDropAll
    <3>1. PICK old \in SUBSET segments :
            /\ IsOldest(old, segments, MergeThreshold)
            /\ segments' = segments \ old /\ merging' = old
      BY <2>10 DEF MergeDropAll
    <3>2. \A s \in old, t \in segments \ old : s.snap <= t.snap
      BY <3>1 DEF IsOldest, Before, TypeInv, TypeOK, Segment
    <3> QED
      BY <2>10, <3>1, <3>2 DEF MergeDropAll
  <2>11. CASE RemoveOldest
    <3>1. PICK s \in merging : dirs' = dirs \ {s} /\ merging' = merging \ {s}
      BY <2>11 DEF RemoveOldest
    <3>2. /\ pc = "remove" /\ UNCHANGED segments
          /\ merging' # {} => pc' = "remove"
          /\ merging' = {} => pc' \in {"idle", "exit"}
      BY <2>3, <2>11 DEF RemoveOldest, memory
    <3> QED
      BY <3>1, <3>2
  <2>12. CASE Exit \/ Die
    BY <2>12 DEF Exit, Die, Kill, KillInWrite, PowerOff
  <2>13. CASE UNCHANGED vars
    BY <2>13 DEF vars, disk, memory, control
  <2> QED
    BY <2>1, <2>2, <2>4, <2>5, <2>6, <2>7, <2>8, <2>9, <2>10, <2>11, <2>12, <2>13
       DEF Next, Work
<1> QED
  BY <1>1, <1>2, TypeInvariant, PTL DEF Spec

\* The records of a set are newer than all segments, or they are not replayed.
LEMMA SameReplay ==
  ASSUME UNCHANGED <<wal, dirs>>
  PROVE  /\ UNCHANGED <<Replayed, ReplayedMemtable>>
         /\ \A i : ReplayedEntry(i)' = ReplayedEntry(i)
<1>1. Replayed' = Replayed
  BY DEF Replayed
<1>2. \A i : ReplayedEntry(i)' = ReplayedEntry(i)
  BY <1>1 DEF ReplayedEntry
<1> QED
  BY <1>1, <1>2 DEF ReplayedMemtable

\* An empty log replays nothing.
LEMMA EmptyLog ==
  /\ wal = {} => /\ Replayed = {} /\ ReplayedMemtable = NoEntries
                 /\ \A i : ReplayedEntry(i) = NoEntry
  /\ wal' = {} => /\ Replayed' = {} /\ ReplayedMemtable' = NoEntries
                  /\ \A i : ReplayedEntry(i)' = NoEntry
<1>1. ASSUME wal = {}
      PROVE  /\ Replayed = {} /\ ReplayedMemtable = NoEntries
             /\ \A i : ReplayedEntry(i) = NoEntry
  <2>1. Replayed = {}
    BY <1>1 DEF Replayed
  <2> QED
    BY <2>1 DEF ReplayedMemtable, ReplayedEntry, NoEntries
<1>2. ASSUME wal' = {}
      PROVE  /\ Replayed' = {} /\ ReplayedMemtable' = NoEntries
             /\ \A i : ReplayedEntry(i)' = NoEntry
  <2>1. Replayed' = {}
    BY <1>2 DEF Replayed
  <2> QED
    BY <2>1 DEF ReplayedMemtable, ReplayedEntry, NoEntries
<1> QED
  BY <1>1, <1>2

\* What an accepted request adds to what start() would replay.
LEMMA AppendReplays ==
  ASSUME TypeInv, LogInv, LogFacts, NEW rec \in Record, Append(rec), rec.lsn = lastLsn + 1
  PROVE  /\ wal' = wal \cup {rec} /\ \A r \in wal : r.lsn < rec.lsn
         /\ Replayed' = Replayed \cup {rec}
         /\ \A i : ReplayedEntry(i)' =
                     IF i \in rec.ids THEN [lsn |-> rec.lsn, vec |-> rec.rows[i]]
                     ELSE ReplayedEntry(i)
<1>1. wal' = wal \cup {rec} /\ dirs' = dirs /\ pc = "idle"
  BY DEF Append, LogInv
<1>2. lastLsn \in Nat /\ (\A r \in wal : r.lsn \in Nat) /\ (\A s \in dirs : s.snap \in Nat)
  BY DEF TypeInv, TypeOK, Record, Segment
<1>3. ASSUME NEW r \in wal
      PROVE  r.lsn < rec.lsn
  <2>1. r.lsn \in RecoveredLsns
    BY DEF RecoveredLsns
  <2>2. r.lsn <= lastLsn
    BY <1>1, <2>1 DEF LogInv, Up, IsHighest
  <2> QED
    BY <1>2, <2>2
<1>4. \A s \in dirs : rec.lsn > s.snap
  BY <1>1, <1>2 DEF LogInv, Up
<1>5. Replayed' = Replayed \cup {rec}
  BY <1>1, <1>4 DEF Replayed
<1>6. Replayed \subseteq Record /\ IsFiniteSet(Replayed) /\ Replayed \subseteq wal
  BY FS_Subset DEF Replayed, TypeInv, TypeOK, Finite
<1>7. ASSUME NEW i
      PROVE  ReplayedEntry(i)' = LastEntry(Replayed \cup {rec}, i)
  BY <1>5 DEF ReplayedEntry, LastEntry
<1>8. \A r, q \in Replayed : r.lsn = q.lsn => r = q
  BY <1>6 DEF LogFacts
<1>9. ASSUME NEW i
      PROVE  LastEntry(Replayed \cup {rec}, i) =
                     IF i \in rec.ids THEN [lsn |-> rec.lsn, vec |-> rec.rows[i]]
                     ELSE LastEntry(Replayed, i)
  BY <1>3, <1>6, <1>8, AppendedEntry
<1> QED
  BY <1>1, <1>3, <1>5, <1>7, <1>9, ReplaysLastEntry

THEOREM LogFactsHold ==
  ASSUME LogFilesIntact
  PROVE  Spec => []LogFacts
<1>1. Init => LogFacts
  BY DEF Init, LogFacts
<1>2. TypeInv /\ LogInv /\ LogFacts /\ [Next]_vars => LogFacts'
  <2> SUFFICES ASSUME TypeInv, LogInv, LogFacts, [Next]_vars PROVE LogFacts'
    OBVIOUS
  <2>1. CASE Request
    <3>1. PICK rec \in Record : Append(rec) /\ rec.lsn = lastLsn + 1 /\ rec.ids # {}
      BY <2>1, AppendsInsertOrDelete DEF TypeInv, TypeOK
    <3>2. wal' = wal \cup {rec} /\ \A r \in wal : r.lsn < rec.lsn
      BY <3>1, AppendReplays
    <3>3. \A r \in wal \cup {rec} : r.lsn \in Nat
      BY DEF TypeInv, TypeOK, Record
    <3> QED
      BY <3>1, <3>2, <3>3 DEF LogFacts
  <2>2. CASE wal' \subseteq wal
    BY <2>2 DEF LogFacts
  <2>3. Start \/ Stop \/ Work \/ Die \/ UNCHANGED vars => wal' \subseteq wal
    BY DEF Start, Stop, Work, WriteMeta, ApplyInsert, ApplyDelete, FlushCapture, FlushCreate,
           FlushPublish, TruncateMeta, MergeCreate, MergePublish, MergeDropAll, RemoveOldest,
           Exit, Die, Kill, KillInWrite, TearLog, TearMeta, TearTombstones, TearSegment, disk, vars
  <2> QED
    BY <2>1, <2>2, <2>3 DEF Next
<1> QED
  BY <1>1, <1>2, TypeInvariant, LogInvariant, PTL DEF Spec

\* The snapshot of a flush covers the log, and no segment is as new.
LEMMA FlushCoversLog ==
  ASSUME TypeInv, PositiveLsns, UnflushedWritesAreLogged, LogFacts,
         pc = "flush", memtable = ReplayedMemtable,
         NEW m \in Ids, \A j \in Ids : memtable[j].lsn <= memtable[m].lsn,
         LiveEntries(memtable) # {}
  PROVE  /\ \A r \in wal : r.lsn <= memtable[m].lsn
         /\ \A s \in dirs : s.snap < memtable[m].lsn
<1>1. /\ \A i \in Ids : memtable[i].lsn \in Nat
      /\ wal \subseteq Record /\ IsFiniteSet(wal)
      /\ \A r \in wal : r.lsn \in Nat /\ r.ids \subseteq Ids
      /\ \A s \in dirs : s.snap \in Nat
  BY DEF TypeInv, TypeOK, Finite, Record, Entry, Segment
<1>2. memtable[m].lsn > 0
  <2>1. PICK j \in Ids : memtable[j].vec # None
    BY DEF LiveEntries
  <2>2. memtable[j].lsn > 0
    BY <1>1, <2>1 DEF PositiveLsns
  <2> QED
    BY <1>1, <2>2
<1>3. \A s \in dirs : s.snap < memtable[m].lsn
  BY <1>2 DEF UnflushedWritesAreLogged, Up
<1>4. ASSUME NEW r \in wal
      PROVE  r.lsn <= memtable[m].lsn
  <2>1. CASE r \in Replayed
    <3>1. PICK j \in Ids : j \in r.ids
      BY <1>1 DEF LogFacts
    <3>2. memtable[j] = LastEntry(Replayed, j)
      BY ReplaysLastEntry DEF ReplayedMemtable
    <3>3. Replayed \subseteq Record /\ IsFiniteSet(Replayed)
      BY <1>1, FS_Subset DEF Replayed
    <3>4. r.lsn <= memtable[j].lsn
      BY <2>1, <3>1, <3>2, <3>3, LastEntrySource
    <3> QED
      BY <1>1, <3>4
  <2>2. CASE r \notin Replayed
    <3>1. PICK s \in dirs : ~(r.lsn > s.snap)
      BY <2>2 DEF Replayed
    <3> QED
      BY <1>1, <1>3, <3>1
  <2> QED
    BY <2>1, <2>2
<1> QED
  BY <1>3, <1>4

THEOREM ReplayInvariant ==
  ASSUME LogFilesIntact
  PROVE  Spec => []ReplayFacts
<1>1. Init => ReplayFacts
  BY DEF Init, ReplayFacts
<1>2. TypeInv /\ PositiveLsns /\ LogInv /\ UnflushedWritesAreLogged /\ OpFacts /\ LogFacts
        /\ ReplayFacts /\ [Next]_vars => ReplayFacts'
  <2> SUFFICES ASSUME TypeInv, PositiveLsns, LogInv, UnflushedWritesAreLogged, OpFacts,
                      LogFacts, ReplayFacts, [Next]_vars
               PROVE  ReplayFacts'
    OBVIOUS
  <2>1. ASSUME UNCHANGED <<wal, dirs, memtable, op, pending>>,
               pc' = pc \/ (pc = "meta" /\ pc' = "apply")
        PROVE  ReplayFacts'
    BY <2>1, SameReplay DEF ReplayFacts, Written
  <2>2. CASE Start
    <3>1. pc' \in {"down", "idle"} /\ UNCHANGED <<wal, dirs>>
          /\ (pc' = "idle" => memtable' = ReplayedMemtable)
      BY <2>2 DEF Start, control
    <3> QED
      BY <3>1, SameReplay DEF ReplayFacts
  <2>3. CASE Request
    <3>1. PICK rec \in Record : Append(rec) /\ rec.lsn = lastLsn + 1
      BY <2>3, AppendsInsertOrDelete DEF TypeInv, TypeOK
    <3>2. /\ pc = "idle" /\ pc' = "meta" /\ op' = rec /\ UNCHANGED memtable
      BY <3>1 DEF Append
    <3>3. \A i \in Ids : memtable[i] = ReplayedEntry(i)
      BY <3>2 DEF ReplayFacts, ReplayedMemtable
    <3>4. \A i \in Ids : ReplayedEntry(i)' = IF i \in op'.ids
                                             THEN [lsn |-> op'.lsn, vec |-> op'.rows[i]]
                                             ELSE memtable'[i]
      BY <3>1, <3>2, <3>3, AppendReplays
    <3>5. ReplayedMemtable' = Written(memtable, op)'
      BY <3>4 DEF ReplayedMemtable, Written
    <3> QED
      BY <3>2, <3>5 DEF ReplayFacts
  <2>4. CASE Stop
    <3>1. /\ pc = "idle" /\ pc' = "flush" /\ UNCHANGED <<wal, dirs, memtable>>
      BY <2>4 DEF Stop, disk, memory
    <3> QED
      BY <3>1, SameReplay DEF ReplayFacts
  <2>12. CASE WriteMeta
    BY <2>1, <2>12 DEF WriteMeta, memory
  <2>5. CASE ApplyInsert \/ ApplyDelete
    <3>1. /\ pc = "apply" /\ memtable' = Written(memtable, op)
          /\ pc' \in {"flush", "idle"} /\ UNCHANGED <<wal, dirs>>
      BY <2>5 DEF ApplyInsert, ApplyDelete
    <3> QED
      BY <3>1, SameReplay DEF ReplayFacts
  <2>6. CASE FlushCapture
    <3>1. /\ pc = "flush" /\ memtable' = NoEntries /\ UNCHANGED <<wal, dirs>>
      BY <2>6 DEF FlushCapture
    <3>2. \A i \in Ids : memtable[i] = ReplayedEntry(i)
      BY <3>1 DEF ReplayFacts, ReplayedMemtable
    <3>3. CASE LiveEntries(memtable) = {}
      <4>1. pc' = "exit"
        BY <2>6, <3>1, <3>3 DEF FlushCapture, Return, OpFacts
      <4>2. \A i \in Ids : ReplayedEntry(i).vec = None
        BY <3>2, <3>3 DEF LiveEntries
      <4> QED
        BY <3>1, <4>1, <4>2, SameReplay DEF ReplayFacts
    <3>4. CASE LiveEntries(memtable) # {}
      <4>1. PICK m \in Ids :
               /\ \A j \in Ids : memtable[j].lsn <= memtable[m].lsn
               /\ pending' = [snap |-> memtable[m].lsn, uid |-> 0,
                              rows |-> [j \in Ids |-> memtable[j].vec]]
               /\ pc' = "create"
        BY <2>6, <3>4 DEF FlushCapture
      <4>2. /\ \A r \in wal : r.lsn <= pending'.snap
            /\ \A s \in dirs : s.snap < pending'.snap
        BY <3>1, <3>4, <4>1, FlushCoversLog DEF ReplayFacts
      <4>3. \A i \in Ids : ReplayedEntry(i)'.vec = pending'.rows[i]
        BY <3>1, <3>2, <4>1, SameReplay
      <4> QED
        BY <3>1, <4>1, <4>2, <4>3 DEF ReplayFacts
    <3> QED
      BY <3>3, <3>4
  <2>7. CASE FlushCreate
    <3>1. /\ pc = "create" /\ pc' = "publish" /\ wal' = wal /\ pending'.snap = pending.snap
      BY <2>7 DEF FlushCreate, TypeInv, TypeOK, Segment
    <3> QED
      BY <3>1 DEF ReplayFacts
  <2>8. CASE FlushPublish
    <3>1. /\ pc = "publish" /\ pc' = "tmeta" /\ wal' = {r \in wal : r.lsn > pending.snap}
      BY <2>8 DEF FlushPublish
    <3>2. \A r \in wal : ~(r.lsn > pending.snap)
      <4>1. pending.snap \in Nat /\ \A r \in wal : r.lsn \in Nat
        BY DEF TypeInv, TypeOK, Record, Segment
      <4> QED
        BY <3>1, <4>1 DEF ReplayFacts
    <3> QED
      BY <3>1, <3>2 DEF ReplayFacts
  <2>9. CASE TruncateMeta \/ MergeCreate \/ MergePublish \/ MergeDropAll \/ RemoveOldest
    <3>1. pc \in {"tmeta", "merge", "mpublish", "remove"} /\ UNCHANGED <<wal, memtable>>
          /\ pc' \in {"merge", "mpublish", "remove", "idle", "exit"}
      BY <2>9 DEF TruncateMeta, MergeCreate, MergePublish, MergeDropAll, RemoveOldest,
                  Return, memory
    <3>2. wal' = {} /\ memtable' = NoEntries
      BY <3>1 DEF ReplayFacts, LogInv
    <3>3. /\ ReplayedMemtable' = NoEntries
          /\ \A i : ReplayedEntry(i)'.vec = None
      BY <3>2, EmptyLog DEF NoEntry
    <3> QED
      BY <3>1, <3>2, <3>3 DEF ReplayFacts
  <2>10. CASE Exit \/ Die
    BY <2>10 DEF Exit, Die, Kill, KillInWrite, PowerOff, ReplayFacts
  <2>11. CASE UNCHANGED vars
    BY <2>1, <2>11 DEF vars, disk, memory, control
  <2> QED
    BY <2>2, <2>3, <2>4, <2>5, <2>6, <2>7, <2>8, <2>9, <2>10, <2>11,
       <2>12 DEF Next, Work
<1> QED
  BY <1>1, <1>2, TypeInvariant, LsnsArePositive, LogInvariant, UnflushedWritesStayLogged,
     OpInvariant, LogFactsHold, PTL DEF Spec

\* Duplicated snapshots stay within the reach of the next merge.
THEOREM SharedSnapshotsAreLow ==
  ASSUME LogFilesIntact
  PROVE  Spec => []FewBelow(dirs)
<1>1. Init => FewBelow(dirs)
  BY DEF Init, FewBelow
<1>2. TypeInv /\ ListFacts /\ ReplayFacts /\ FewBelow(dirs) /\ [Next]_vars /\ TypeInv'
        => FewBelow(dirs)'
  <2> SUFFICES ASSUME TypeInv, ListFacts, ReplayFacts, FewBelow(dirs), [Next]_vars, TypeInv'
               PROVE  FewBelow(dirs')
    BY DEF FewBelow
  <2>1. /\ dirs \subseteq Segment /\ IsFiniteSet(dirs) /\ MergeThreshold \in Nat
        /\ \A s \in dirs : s.snap \in Nat
    BY EngineAssumption DEF TypeInv, TypeOK, Finite, Segment
  <2>2. CASE dirs' \subseteq dirs
    <3> SUFFICES ASSUME NEW s \in dirs', NEW t \in dirs', s # t, s.snap = t.snap
                 PROVE  Cardinality({d \in dirs' : d.snap < s.snap}) < MergeThreshold
      BY DEF FewBelow
    <3> DEFINE few  == {d \in dirs' : d.snap < s.snap}
               many == {d \in dirs : d.snap < s.snap}
    <3>1. few \subseteq many /\ many \subseteq dirs
      BY <2>2
    <3>2. IsFiniteSet(many) /\ IsFiniteSet(few)
      BY <2>1, <3>1, FS_Subset
    <3>3. /\ Cardinality(few) \in Nat /\ Cardinality(many) \in Nat
          /\ Cardinality(few) <= Cardinality(many)
      BY <3>1, <3>2, FS_CardinalityType, FS_Subset
    <3>4. Cardinality(many) < MergeThreshold
      BY <2>2 DEF FewBelow
    <3> QED
      BY <2>1, <3>3, <3>4
  <2>3. CASE FlushCreate
    <3>1. /\ pc = "create" /\ dirs' = dirs \cup {pending'} /\ pending'.snap = pending.snap
          /\ pending.snap \in Nat
      BY <2>3 DEF FlushCreate, TypeInv, TypeOK, Segment
    <3>2. \A s \in dirs : s.snap < pending'.snap
      BY <3>1 DEF ReplayFacts
    <3> SUFFICES ASSUME NEW s \in dirs', NEW t \in dirs', s # t, s.snap = t.snap
                 PROVE  Cardinality({d \in dirs' : d.snap < s.snap}) < MergeThreshold
      BY DEF FewBelow
    <3>3. s \in dirs /\ t \in dirs
      BY <2>1, <3>1, <3>2
    <3>4. {d \in dirs' : d.snap < s.snap} = {d \in dirs : d.snap < s.snap}
      BY <2>1, <3>1, <3>2, <3>3
    <3> QED
      BY <3>3, <3>4 DEF FewBelow
  <2>4. CASE MergeCreate
    <3>1. PICK old \in SUBSET segments, newest \in segments :
            /\ newest \in old /\ \A s \in old : s.snap <= newest.snap
            /\ IsOldest(old, segments, MergeThreshold)
            /\ \E u \in FreshUids(newest.snap) :
                 pending' = [snap |-> newest.snap, uid |-> u, rows |-> MergedRows(old)]
      BY <2>4, MergeTakes
    <3>2. dirs' = dirs \cup {pending'} /\ dirs = segments
      BY <2>4 DEF MergeCreate, ListFacts
    <3>3. pending' \in Segment /\ pending'.snap = newest.snap
      BY <3>1 DEF TypeInv, TypeOK
    <3> QED
      BY <2>1, <3>1, <3>2, <3>3, MergeKeepsFewBelow
  <2>5. Start \/ Request \/ Stop \/ Die \/ UNCHANGED vars => dirs' \subseteq dirs
    BY DEF Start, Request, Insert, Delete, Append, Stop, Die, Kill, KillInWrite,
           TearLog, TearMeta, TearTombstones, TearSegment, disk, vars
  <2>6. Work => dirs' \subseteq dirs \/ FlushCreate \/ MergeCreate
    BY DEF Work, WriteMeta, ApplyInsert, ApplyDelete, FlushCapture, FlushPublish,
           TruncateMeta, MergePublish, MergeDropAll, RemoveOldest, Exit, disk
  <2> QED
    BY <2>2, <2>3, <2>4, <2>5, <2>6 DEF Next
<1> QED
  BY <1>1, <1>2, TypeInvariant, ListInvariant, ReplayInvariant, PTL DEF Spec

-----------------------------------------------------------------------------
(***************************************************************************)
(* The ledger.                                                             *)
(***************************************************************************)

\* What the steps of the engine preserve by themselves.
EngineInv ==
  /\ TypeInv /\ PositiveLsns /\ LogInv /\ UnflushedWritesAreLogged
  /\ OpFacts /\ LogFacts /\ ListFacts /\ ReplayFacts /\ FewBelow(dirs)

THEOREM EngineInvariant ==
  ASSUME LogFilesIntact
  PROVE  LedgerSpec => []EngineInv
<1>1. LedgerInit => Init
  BY DEF LedgerInit
<1>2. [LedgerNext]_<<vars, ledgerVars>> => [Next]_vars
  BY DEF LedgerNext
<1>3. TypeInv /\ PositiveLsns /\ LogInv /\ UnflushedWritesAreLogged
        /\ OpFacts /\ LogFacts /\ ListFacts /\ ReplayFacts /\ FewBelow(dirs) => EngineInv
  BY DEF EngineInv
<1> QED
  BY <1>1, <1>2, <1>3, TypeInvariant, LsnsArePositive, LogInvariant, UnflushedWritesStayLogged,
     OpInvariant, LogFactsHold, ListInvariant, ReplayInvariant, SharedSnapshotsAreLow, PTL
     DEF LedgerSpec, Spec

\* The ids whose vector a caller can expect to find.
Current == {i \in Ids \ masked : ledger[i] # None}

\* The log and the segments together hold the vector in the ledger.
DiskFacts ==
  /\ \A i \in Ids : ReplayedEntry(i).lsn > 0 => ReplayedEntry(i).vec = ledger[i]
  /\ \A i \in Current : ReplayedEntry(i).lsn = 0 => Holds(dirs, i, ledger[i])
  /\ pc = "mpublish" => \A i \in Current :
        /\ Holds(segments, i, ledger[i])
        /\ Holding((segments \ merging) \cup {pending}, i) # {}
  /\ pc = "remove" => \A i \in Current : Holding(segments, i) # {}

\* No such id is hidden, but the one of an insert before it is applied.
TombFacts ==
  Up => \A i \in Current \cap tombstones : pc \in {"meta", "apply"} /\ i \in op.ids

RowInv == ledger \in Rows /\ masked \subseteq Ids /\ DiskFacts /\ TombFacts

\* Which steps write the ledger.
LEMMA LedgerSteps ==
  ASSUME LedgerNext
  PROVE  /\ Request => Enter
         /\ Start => Mask \/ (Keep /\ pc' = "down")
         /\ Stop \/ Work \/ Die => Keep
<1>1. Request => pc = "idle" /\ pc' = "meta"
  BY DEF Request, Insert, Delete, Append
<1>2. Start => pc = "down"
  BY DEF Start
<1>3. Stop \/ Work \/ Die => pc # "down" /\ pc' # "meta"
  <2>1. \A p \in KillPoints : p # "down"
    BY EngineAssumption
  <2> QED
    BY <2>1 DEF Stop, Work, WriteMeta, ApplyInsert, ApplyDelete, FlushCapture, FlushCreate,
           FlushPublish, TruncateMeta, MergeCreate, MergePublish, MergeDropAll, RemoveOldest,
           Exit, Die, Kill, KillInWrite, PowerOff, Return
<1> QED
  BY <1>1, <1>2, <1>3 DEF LedgerNext, Enter, Mask, Keep

\* An entry with LSN 0 is no entry.
LEMMA EntryZero ==
  ASSUME TypeInv, PositiveLsns, NEW i
  PROVE  ReplayedEntry(i).lsn \in Nat /\ (ReplayedEntry(i).lsn = 0 => ReplayedEntry(i).vec = None)
<1>1. Replayed \subseteq Record /\ IsFiniteSet(Replayed) /\ Replayed \subseteq wal
  BY FS_Subset DEF Replayed, TypeInv, TypeOK, Finite
<1>2. ReplayedEntry(i) = NoEntry \/ \E r \in Replayed : ReplayedEntry(i) = [lsn |-> r.lsn, vec |-> r.rows[i]]
  BY <1>1, LastEntrySource, ReplaysLastEntry
<1> QED
  BY <1>1, <1>2 DEF NoEntry, PositiveLsns, Record

\* The operation in flight is what the ledger says of its ids.
LEMMA OpIsInLedger ==
  ASSUME EngineInv, RowInv, pc \in {"meta", "apply"}, NEW i \in op.ids
  PROVE  i \in Ids /\ op.rows[i] = ledger[i]
<1>1. i \in Ids /\ op \in wal /\ op.lsn > 0
  BY DEF EngineInv, TypeInv, TypeOK, LogInv, PositiveLsns, Record
<1>2. ReplayedMemtable[i] = [lsn |-> op.lsn, vec |-> op.rows[i]]
  BY <1>1 DEF EngineInv, ReplayFacts, Written
<1>3. ReplayedEntry(i) = [lsn |-> op.lsn, vec |-> op.rows[i]]
  BY <1>1, <1>2 DEF ReplayedMemtable
<1> QED
  BY <1>1, <1>3 DEF RowInv, DiskFacts

\* A row of the memtable, otherwise, is what start() would replay.
LEMMA MemtableIsReplayed ==
  ASSUME EngineInv, Up, NEW i \in Ids, memtable[i].lsn # 0,
         ~(pc \in {"meta", "apply"} /\ i \in op.ids)
  PROVE  memtable[i] = ReplayedEntry(i)
<1>1. memtable # NoEntries /\ pc \in PCs
  BY DEF EngineInv, TypeInv, TypeOK, NoEntries, NoEntry
<1>2. pc \in {"idle", "meta", "apply", "flush"}
  BY <1>1 DEF EngineInv, LogInv, PCs, Up
<1>3. ReplayedEntry(i) = ReplayedMemtable[i]
  BY DEF ReplayedMemtable
<1> QED
  BY <1>2, <1>3 DEF EngineInv, ReplayFacts, Written

\* When the segment of a flush is on disk, its rows need no replay.
LEMMA FlushedIsNotReplayed ==
  ASSUME wal \subseteq Record, dirs \subseteq Segment,
         NEW p \in dirs, \A r \in wal : r.lsn <= p.snap
  PROVE  Replayed = {}
BY DEF Replayed, Record, Segment

\* Removing the directories a merge has replaced, one after the other.
LEMMA RemovalKeepsRows ==
  ASSUME EngineInv, RowInv, pc = "remove",
         NEW s \in merging, \A t \in merging : ~Before(t, s), dirs' = dirs \ {s},
         UNCHANGED <<wal, ledger, masked>>
  PROVE  /\ \A i : ReplayedEntry(i)' = NoEntry
         /\ \A i \in Current : Holds(dirs', i, ledger[i])
<1>1. wal = {} /\ wal' = {}
  BY DEF EngineInv, ReplayFacts
<1>2. dirs \subseteq Segment /\ segments \subseteq dirs \ {s} /\ dirs = segments \cup merging
  BY DEF EngineInv, TypeInv, TypeOK, ListFacts
<1>3. \A d \in dirs \ {s} : s.snap <= d.snap
  BY <1>2 DEF EngineInv, ListFacts, Before, Segment
<1>4. ASSUME NEW i \in Current
      PROVE  Holds(dirs', i, ledger[i])
  <2>1. Holds(dirs, i, ledger[i]) /\ Holding(segments, i) # {}
    BY <1>1, EmptyLog DEF RowInv, DiskFacts, NoEntry
  <2>2. Good(dirs \ {s}, i, ledger[i])
    BY <1>2, <1>3, <2>1, DropOldest DEF Holds, Current
  <2>3. Holding(dirs \ {s}, i) # {}
    BY <1>2, <2>1 DEF Holding
  <2> QED
    BY <2>2, <2>3 DEF Holds
<1> QED
  BY <1>1, <1>4, EmptyLog

THEOREM RowInvariant ==
  ASSUME LogFilesIntact
  PROVE  LedgerSpec => []RowInv
<1>1. LedgerInit => RowInv
  BY ConstantTypes DEF LedgerInit, Init, RowInv, DiskFacts, TombFacts, Current, Up, NoRows,
     ReplayedEntry, Replayed, NoEntry
<1>2. EngineInv /\ EngineInv' /\ RowInv /\ LedgerNext => RowInv'
  <2> SUFFICES ASSUME EngineInv, EngineInv', RowInv, LedgerNext PROVE RowInv'
    OBVIOUS
  <2>a. /\ TypeInv /\ PositiveLsns /\ LogInv /\ LogFacts /\ OpFacts /\ ListFacts /\ ReplayFacts
        /\ FewBelow(dirs) /\ DiskFacts /\ TombFacts
        /\ wal \subseteq Record /\ dirs \subseteq Segment /\ IsFiniteSet(dirs)
        /\ segments \subseteq Segment /\ IsFiniteSet(segments)
        /\ tombstones \subseteq Ids /\ pending \in Segment
    BY DEF EngineInv, RowInv, TypeInv, TypeOK, Finite
  <2>b. Keep => UNCHANGED <<ledger, masked, Current>>
    BY DEF Keep, Current
\* Steps that leave the disk and the ledger alone and hide no id.
  <2>1. ASSUME UNCHANGED <<wal, dirs, ledger, masked>>, tombstones' = tombstones,
               pc \notin {"down", "meta", "apply"}, pc' \notin {"mpublish", "remove"}
        PROVE  RowInv'
    BY <2>1, SameReplay DEF RowInv, DiskFacts, TombFacts, Current, Up
  <2>2. CASE Start
    <3>1. /\ pc = "down" /\ UNCHANGED <<wal, dirs>>
          /\ pc' \in {"down", "idle"}
      BY <2>2 DEF Start, control
    <3>2. Mask \/ (Keep /\ pc' = "down")
      BY <2>2, LedgerSteps DEF Start
    <3>3. /\ ledger' = ledger /\ masked \subseteq masked' /\ masked' \subseteq Ids
          /\ pc' # "down" => \A i \in tombstones' : ledger[i] # None => i \in masked'
      BY <3>2, <2>b DEF Mask, EngineInv, TypeInv, TypeOK, RowInv
    <3>4. Current' \subseteq Current
      BY <3>3 DEF Current
    <3>5. DiskFacts'
      BY <3>1, <3>3, <3>4, SameReplay DEF DiskFacts, RowInv
    <3>6. TombFacts'
      BY <3>3 DEF TombFacts, Current, Up
    <3> QED
      BY <3>3, <3>5, <3>6 DEF RowInv
  <2>3. CASE Request
    <3>1. PICK rec \in Record : Append(rec) /\ rec.lsn = lastLsn + 1
      BY <2>3, <2>a, AppendsInsertOrDelete DEF TypeInv, TypeOK
    <3>2. /\ pc = "idle" /\ pc' = "meta" /\ op' = rec
          /\ UNCHANGED <<dirs, tombstones>>
      BY <3>1 DEF Append
    <3>3. /\ ledger' = [i \in Ids |-> IF i \in rec.ids THEN rec.rows[i] ELSE ledger[i]]
          /\ masked' = masked \ rec.ids
      BY <2>3, <3>2, LedgerSteps DEF Enter
    <3>4. ledger' \in Rows /\ masked' \subseteq Ids
      BY <3>3 DEF RowInv, Rows, Record
    <3>5. \A i : ReplayedEntry(i)' = IF i \in rec.ids
                                     THEN [lsn |-> rec.lsn, vec |-> rec.rows[i]]
                                     ELSE ReplayedEntry(i)
      BY <2>a, <3>1, AppendReplays
    <3>6. \A i \in Current' : i \notin rec.ids => i \in Current
      BY <3>3 DEF Current
    <3>7. rec.lsn > 0
      BY <2>a, <3>1 DEF TypeInv, TypeOK
    <3>8. DiskFacts'
      <4>1. \A i \in Ids : ReplayedEntry(i)'.lsn > 0 => ReplayedEntry(i)'.vec = ledger'[i]
        BY <2>a, <3>3, <3>5 DEF DiskFacts
      <4>2. \A i \in Current' : ReplayedEntry(i)'.lsn = 0 => Holds(dirs', i, ledger'[i])
        <5> SUFFICES ASSUME NEW i \in Current', ReplayedEntry(i)'.lsn = 0
                     PROVE  Holds(dirs, i, ledger'[i])
          BY <3>2
        <5>1. i \notin rec.ids /\ i \in Current /\ ReplayedEntry(i).lsn = 0
          BY <3>5, <3>6, <3>7
        <5>2. ledger'[i] = ledger[i]
          BY <3>3, <5>1 DEF Current
        <5> QED
          BY <2>a, <5>1, <5>2 DEF DiskFacts
      <4> QED
        BY <3>2, <4>1, <4>2 DEF DiskFacts
    <3>9. TombFacts'
      BY <2>a, <3>2, <3>6 DEF TombFacts, Up
    <3> QED
      BY <3>4, <3>8, <3>9 DEF RowInv
  <2>4. CASE Stop
    BY <2>1, <2>4, <2>b, LedgerSteps DEF Stop, disk, memory
  <2>5. CASE WriteMeta
    <3>1. /\ pc = "meta" /\ pc' = "apply" /\ UNCHANGED <<wal, dirs, tombstones, op>>
          /\ UNCHANGED <<ledger, masked, Current>>
      BY <2>5, <2>b, LedgerSteps DEF WriteMeta, memory, Work
    <3> QED
      BY <3>1, SameReplay DEF RowInv, DiskFacts, TombFacts, Up
  <2>6. CASE ApplyInsert
    <3>1. /\ pc = "apply" /\ pc' \in {"flush", "idle"} /\ tombstones' = tombstones \ op.ids
          /\ UNCHANGED <<wal, dirs, ledger, masked, Current>>
      BY <2>6, <2>b, LedgerSteps DEF ApplyInsert, Work
    <3> QED
      BY <3>1, SameReplay DEF RowInv, DiskFacts, TombFacts, Up
  <2>7. CASE ApplyDelete
    <3>1. /\ pc = "apply" /\ pc' = "idle" /\ tombstones' = tombstones \cup op.ids
          /\ op.kind = "delete" /\ UNCHANGED <<wal, dirs, ledger, masked, Current>>
      BY <2>7, <2>b, LedgerSteps DEF ApplyDelete, Work
    <3>2. \A i \in op.ids : ledger[i] = None
      <4>1. op.rows = NoRows
        BY <2>a, <3>1 DEF OpFacts, RowIds
      <4> QED
        BY <3>1, <4>1, OpIsInLedger DEF NoRows
    <3>3. TombFacts'
      BY <2>a, <3>1, <3>2 DEF TombFacts, Up, Current
    <3> QED
      BY <3>1, <3>3, SameReplay DEF RowInv, DiskFacts
  <2>8. CASE FlushCapture
    <3>1. /\ pc = "flush" /\ tombstones' = tombstones \cup MemDeletes
          /\ pc' \notin {"mpublish", "remove"}
          /\ UNCHANGED <<wal, dirs, ledger, masked, Current>>
      BY <2>8, <2>b, LedgerSteps DEF FlushCapture, Return, Work
    <3>2. \A i \in MemDeletes : ledger[i] = None
      BY <2>a, <3>1 DEF MemDeletes, ReplayFacts, ReplayedMemtable, DiskFacts
    <3>3. TombFacts'
      BY <2>a, <3>1, <3>2 DEF TombFacts, Up, Current
    <3> QED
      BY <3>1, <3>3, SameReplay DEF RowInv, DiskFacts
  <2>9. CASE FlushCreate
    <3>1. /\ pc = "create" /\ pc' = "publish" /\ dirs' = dirs \cup {pending'}
          /\ pending'.snap = pending.snap /\ pending'.rows = pending.rows
          /\ pending' \in Segment
          /\ UNCHANGED <<wal, tombstones, ledger, masked, Current>>
      BY <2>9, <2>b, LedgerSteps
         DEF FlushCreate, memory, Work, EngineInv, TypeInv, TypeOK, Segment
    <3>2. Replayed' = {}
      <4>1. \A r \in wal : \E s \in dirs' : ~(r.lsn > s.snap)
        BY <2>a, <3>1 DEF ReplayFacts, Record, Segment
      <4> QED
        BY <3>1, <4>1 DEF Replayed
    <3>3. \A i : ReplayedEntry(i)' = NoEntry
      BY <3>2 DEF ReplayedEntry
    <3>4. ASSUME NEW i \in Current
          PROVE  Holds(dirs', i, ledger[i])
      <4>1. i \in Ids /\ ledger[i] # None
        BY DEF Current
      <4>2. pending'.rows[i] = ReplayedEntry(i).vec /\ \A s \in dirs : s.snap < pending'.snap
        BY <2>a, <3>1, <4>1 DEF ReplayFacts
      <4>3. CASE ReplayedEntry(i).lsn = 0
        <5>1. pending'.rows[i] = None /\ Holds(dirs, i, ledger[i])
          BY <2>a, <4>2, <4>3, EntryZero DEF DiskFacts
        <5>2. Good(dirs', i, ledger[i])
          BY <2>a, <3>1, <4>1, <4>2, <5>1, AddNewest DEF Holds
        <5> QED
          BY <3>1, <5>1, <5>2 DEF Holds, Holding
      <4>4. CASE ReplayedEntry(i).lsn # 0
        <5>1. pending'.rows[i] = ledger[i]
          BY <2>a, <4>1, <4>2, <4>4, EntryZero DEF DiskFacts
        <5>2. Good(dirs', i, ledger[i])
          BY <2>a, <3>1, <4>1, <4>2, <5>1, AddNewest
        <5> QED
          BY <3>1, <4>1, <5>1, <5>2 DEF Holds, Holding
      <4> QED
        BY <4>3, <4>4
    <3>5. DiskFacts'
      BY <3>1, <3>3, <3>4 DEF DiskFacts, NoEntry
    <3> QED
      BY <2>a, <3>1, <3>5 DEF RowInv, TombFacts, Up
  <2>10. CASE FlushPublish
    <3>1. /\ pc = "publish" /\ pc' = "tmeta" /\ wal' \subseteq wal
          /\ UNCHANGED <<dirs, tombstones, ledger, masked, Current>>
      BY <2>10, <2>b, LedgerSteps DEF FlushPublish, Work
    <3>2. \A i : ReplayedEntry(i)' = NoEntry
      BY <3>1, EmptyLog DEF EngineInv, ReplayFacts
    <3>3. pending \in dirs /\ \A r \in wal : r.lsn <= pending.snap
      BY <2>a, <3>1 DEF ListFacts, ReplayFacts
    <3>4. \A i : ReplayedEntry(i) = NoEntry
      <4>1. Replayed = {}
        BY <2>a, <3>3, FlushedIsNotReplayed
      <4> QED
        BY <4>1 DEF ReplayedEntry
    <3> QED
      BY <2>a, <3>1, <3>2, <3>4 DEF RowInv, DiskFacts, TombFacts, Up, NoEntry
  <2>11. CASE TruncateMeta
    <3>1. /\ pc = "tmeta" /\ pc' \in {"merge", "idle", "exit"}
          /\ UNCHANGED <<wal, dirs, tombstones>> /\ UNCHANGED <<ledger, masked>>
      BY <2>11, <2>b, LedgerSteps DEF TruncateMeta, Return, memory, Work
    <3> QED
      BY <2>1, <3>1
  <2>12. CASE MergeCreate
    <3>1. PICK old \in SUBSET segments, newest \in segments :
            /\ newest \in old /\ \A s \in old : s.snap <= newest.snap
            /\ IsOldest(old, segments, MergeThreshold)
            /\ \E u \in FreshUids(newest.snap) :
                 pending' = [snap |-> newest.snap, uid |-> u, rows |-> MergedRows(old)]
            /\ merging' = old
      BY <2>12, MergeTakes
    <3>2. /\ pc = "merge" /\ pc' = "mpublish" /\ dirs' = dirs \cup {pending'}
          /\ dirs = segments /\ wal = {} /\ wal' = {}
          /\ UNCHANGED <<segments, tombstones, ledger, masked, Current>>
      BY <2>12, <2>a, <2>b, LedgerSteps
         DEF MergeCreate, memory, Work, ListFacts, ReplayFacts
    <3>3. /\ pending'.snap = newest.snap /\ pending'.rows = MergedRows(old)
          /\ pending' \in Segment
      BY <3>1 DEF EngineInv, TypeInv, TypeOK
    <3>4. ASSUME NEW i \in Current
          PROVE  /\ Holds(dirs', i, ledger[i]) /\ Holds(segments, i, ledger[i])
                 /\ Holding((segments \ old) \cup {pending'}, i) # {}
      <4>1. i \in Ids /\ i \notin tombstones
        BY <2>a, <3>2 DEF Current, TombFacts, Up
      <4>2. pending'.rows[i] = LatestRow(old, i)
        BY <3>3, <4>1 DEF MergedRows
      <4>3. Holds(segments, i, ledger[i])
        BY <2>a, <3>2, EmptyLog DEF DiskFacts, NoEntry
      <4> QED
        BY <2>a, <3>1, <3>2, <3>3, <4>1, <4>2, <4>3, MergeKeepsNewest
    <3>5. DiskFacts'
      <4>1. \A i : ReplayedEntry(i)'.lsn = 0
        BY <3>2, EmptyLog DEF NoEntry
      <4>2. merging' = old /\ segments' = segments /\ Current' = Current /\ ledger' = ledger
        BY <3>1, <3>2
      <4>3. \A i \in Current' : /\ Holds(dirs', i, ledger'[i])
                                /\ Holds(segments', i, ledger'[i])
                                /\ Holding((segments' \ merging') \cup {pending'}, i) # {}
        BY <3>4, <4>2
      <4>4. pc' = "mpublish"
        BY <3>2
      <4> QED
        BY <4>1, <4>3, <4>4 DEF DiskFacts
    <3> QED
      BY <2>a, <3>2, <3>5 DEF RowInv, TombFacts, Up
  <2>13. CASE MergePublish
    <3>1. /\ pc = "mpublish" /\ pc' = "remove"
          /\ segments' = (segments \ merging) \cup {pending}
          /\ tombstones' \subseteq tombstones
          /\ UNCHANGED <<wal, dirs>> /\ UNCHANGED <<ledger, masked, Current>>
      BY <2>13, <2>b, LedgerSteps DEF MergePublish, Work
    <3> QED
      BY <2>a, <3>1, SameReplay DEF RowInv, DiskFacts, TombFacts, Up
  <2>14. CASE MergeDropAll
    <3>1. PICK old \in SUBSET segments :
            /\ IsOldest(old, segments, MergeThreshold)
            /\ RowIds(MergedRows(old)) = {}
            /\ segments' = segments \ old
      BY <2>14 DEF MergeDropAll
    <3>2. /\ pc = "merge" /\ pc' = "remove" /\ tombstones' \subseteq tombstones
          /\ dirs = segments /\ wal = {}
          /\ UNCHANGED <<wal, dirs>> /\ UNCHANGED <<ledger, masked, Current>>
      BY <2>14, <2>a, <2>b, LedgerSteps DEF MergeDropAll, Work, ListFacts, ReplayFacts
    <3>3. ASSUME NEW i \in Current
          PROVE  Holding(segments', i) # {}
      <4>1. i \in Ids /\ i \notin tombstones
        BY <2>a, <3>2 DEF Current, TombFacts, Up
      <4>2. LatestRow(old, i) = None
        BY <3>1, <4>1 DEF RowIds, MergedRows
      <4>3. old \subseteq Segment /\ IsFiniteSet(old)
        BY <2>a, FS_Subset
      <4>4. Holding(old, i) = {}
        BY <4>1, <4>2, <4>3, LatestRowSource DEF Holding
      <4>5. Holding(segments, i) # {}
        BY <2>a, <3>2, EmptyLog DEF DiskFacts, NoEntry, Holds
      <4> QED
        BY <3>1, <4>4, <4>5 DEF Holding
    <3> QED
      BY <2>a, <3>2, <3>3, SameReplay DEF RowInv, DiskFacts, TombFacts, Up
  <2>15. CASE RemoveOldest
    <3>1. PICK s \in merging : (\A t \in merging : ~Before(t, s)) /\ dirs' = dirs \ {s}
      BY <2>15 DEF RemoveOldest
    <3>2. /\ pc = "remove" /\ pc' \in {"remove", "idle", "exit"}
          /\ UNCHANGED <<wal, segments, tombstones>> /\ UNCHANGED <<ledger, masked, Current>>
      BY <2>15, <2>b, LedgerSteps DEF RemoveOldest, Return, memory, Work
    <3>3. /\ \A i : ReplayedEntry(i)' = NoEntry
          /\ \A i \in Current : Holds(dirs', i, ledger[i])
      BY <3>1, <3>2, RemovalKeepsRows
    <3>4. DiskFacts'
      BY <2>a, <3>2, <3>3 DEF DiskFacts, NoEntry
    <3> QED
      BY <2>a, <3>2, <3>4 DEF RowInv, TombFacts, Up
  <2>16. CASE Exit \/ Die
    <3>1. pc' = "down" /\ UNCHANGED wal /\ UNCHANGED <<ledger, masked, Current>>
      BY <2>16, <2>b, LedgerSteps
         DEF Exit, Die, Kill, KillInWrite, PowerOff, Work, disk,
             TearLog, TearMeta, TearTombstones, TearSegment
    <3>2. CASE UNCHANGED dirs
      BY <2>a, <3>1, <3>2, SameReplay DEF RowInv, DiskFacts, TombFacts, Up
    <3>3. CASE pc = "remove" /\ \E s \in merging : /\ \A t \in merging : ~Before(t, s)
                                                   /\ dirs' = dirs \ {s}
      <4>1. /\ \A i : ReplayedEntry(i)' = NoEntry
            /\ \A i \in Current : Holds(dirs', i, ledger[i])
        BY <3>1, <3>3, RemovalKeepsRows
      <4> QED
        BY <3>1, <4>1 DEF RowInv, DiskFacts, TombFacts, Up, NoEntry
    <3> QED
      BY <2>16, <3>2, <3>3
         DEF Exit, Die, Kill, KillInWrite, disk, TearLog, TearMeta, TearTombstones, TearSegment
  <2> QED
    BY <2>2, <2>3, <2>4, <2>5, <2>6, <2>7, <2>8, <2>9, <2>10, <2>11, <2>12, <2>13, <2>14,
       <2>15, <2>16 DEF LedgerNext, Next, Work
<1>3. RowInv /\ UNCHANGED <<vars, ledgerVars>> => RowInv'
  BY SameReplay
     DEF vars, disk, memory, control, ledgerVars, RowInv, DiskFacts, TombFacts, Current, Up
<1> QED
  BY <1>1, <1>2, <1>3, EngineInvariant, PTL DEF LedgerSpec

-----------------------------------------------------------------------------
(***************************************************************************)
(* What a search finds.                                                    *)
(***************************************************************************)

\* An id in the memtable is answered from it.
LEMMA MemtableHits ==
  ASSUME NEW mem, NEW segs, NEW tombs, NEW snap, NEW i, i \notin tombs,
         mem[i].lsn > 0, mem[i].lsn <= snap
  PROVE  Hits(mem, segs, tombs, snap, i) = {mem[i].vec} \ {None}
BY DEF Hits, InMem

\* Any other id is answered from the segments that hold its newest row.
LEMMA SegmentHits ==
  ASSUME NEW mem, NEW segs, segs \subseteq Segment, IsFiniteSet(segs), NEW tombs, NEW snap,
         NEW i \in Ids, i \notin tombs, mem[i].lsn = 0, \A s \in segs : s.snap <= snap,
         NEW v, Holds(segs, i, v)
  PROVE  Hits(mem, segs, tombs, snap, i) = {v}
<1> DEFINE shown == Holding({s \in segs : s.snap <= snap}, i)
           newest == {s \in shown : \A t \in shown : t.snap <= s.snap}
<1>1. {s \in segs : s.snap <= snap} = segs
  OBVIOUS
<1>2. newest = {s \in Holding(segs, i) : \A t \in Holding(segs, i) : t.snap <= s.snap}
  BY <1>1
<1>3. {s.rows[i] : s \in newest} = {v}
  <2> HIDE DEF newest
  <2> QED
    BY <1>2, NewestHoldersAgree
<1>4. Hits(mem, segs, tombs, snap, i) = {s.rows[i] : s \in newest}
  BY DEF Hits, InMem
<1> QED
  BY <1>3, <1>4

\* An id that is hidden, or neither in the memtable nor in a segment, is not found.
LEMMA NoHits ==
  ASSUME NEW mem, NEW segs, NEW tombs, NEW snap, NEW i,
         \/ i \in tombs
         \/ mem[i].lsn > 0 /\ mem[i].lsn <= snap /\ mem[i].vec = None
         \/ mem[i].lsn = 0 /\ Holding(segs, i) = {}
  PROVE  Hits(mem, segs, tombs, snap, i) = {}
<1>1. CASE i \in tombs
  BY <1>1 DEF Hits
<1>2. CASE i \notin tombs /\ mem[i].lsn > 0 /\ mem[i].lsn <= snap /\ mem[i].vec = None
  BY <1>2, MemtableHits
<1>3. CASE i \notin tombs /\ mem[i].lsn = 0 /\ Holding(segs, i) = {}
  <2> DEFINE shown == Holding({s \in segs : s.snap <= snap}, i)
             newest == {s \in shown : \A t \in shown : t.snap <= s.snap}
  <2>1. newest = {}
    BY <1>3 DEF Holding
  <2>2. Hits(mem, segs, tombs, snap, i) = {s.rows[i] : s \in newest}
    BY <1>3 DEF Hits, InMem
  <2> HIDE DEF newest
  <2> QED
    BY <2>1, <2>2
<1> QED
  BY <1>1, <1>2, <1>3

\* The LSN start() recovers is the highest of the log and its meta file.
LEMMA RecoveredIsHighest ==
  ASSUME TypeInv
  PROVE  RecoveredLsn \in RecoveredLsns /\ IsHighest(RecoveredLsn, RecoveredLsns)
<1>1. wal \subseteq Record /\ IsFiniteSet(wal) /\ walMeta \in Nat
  BY DEF TypeInv, TypeOK, Finite
<1>2. \E n \in RecoveredLsns : IsHighest(n, RecoveredLsns)
  <2>1. CASE wal = {}
    BY <1>1, <2>1 DEF RecoveredLsns, IsHighest
  <2>2. CASE wal # {}
    <3>1. PICK m \in wal : \A q \in wal : q.lsn <= m.lsn
      BY <1>1, <2>2, NewestRecord
    <3>2. m.lsn \in Nat /\ \A q \in wal : q.lsn \in Nat
      BY <1>1 DEF Record
    <3>3. CASE walMeta <= m.lsn
      BY <1>1, <3>1, <3>2, <3>3 DEF RecoveredLsns, IsHighest
    <3>4. CASE m.lsn <= walMeta
      BY <1>1, <3>1, <3>2, <3>4 DEF RecoveredLsns, IsHighest
    <3> QED
      BY <1>1, <3>2, <3>3, <3>4
  <2> QED
    BY <2>1, <2>2
<1> QED
  BY <1>2 DEF RecoveredLsn

\* What start() recovers is within the sight of a search.
LEMMA RecoveredIsVisible ==
  ASSUME TypeInv, LogInv, pc = "down"
  PROVE  /\ \A s \in dirs : s.snap <= RecoveredLsn
         /\ \A i : ReplayedEntry(i).lsn <= RecoveredLsn
<1>1. /\ RecoveredLsn \in RecoveredLsns /\ IsHighest(RecoveredLsn, RecoveredLsns)
      /\ RecoveredLsns \subseteq Nat /\ \A s \in dirs : s.snap \in Nat
  BY RecoveredIsHighest DEF TypeInv, TypeOK, RecoveredLsns, Record, Segment
<1>2. \A s \in dirs : s.snap <= RecoveredLsn
  BY <1>1 DEF LogInv, IsHighest
<1>3. ASSUME NEW i
      PROVE  ReplayedEntry(i).lsn <= RecoveredLsn
  <2>1. Replayed \subseteq wal /\ Replayed \subseteq Record /\ IsFiniteSet(Replayed)
    BY FS_Subset DEF Replayed, TypeInv, TypeOK, Finite
  <2>2. CASE ReplayedEntry(i) = NoEntry
    BY <1>1, <2>2 DEF NoEntry
  <2>3. CASE \E r \in Replayed : ReplayedEntry(i) = [lsn |-> r.lsn, vec |-> r.rows[i]]
    BY <1>1, <2>1, <2>3 DEF IsHighest, RecoveredLsns
  <2> QED
    BY <2>1, <2>2, <2>3, LastEntrySource, ReplaysLastEntry
<1> QED
  BY <1>2, <1>3

\* The segments a caller can see outside of a flush and a merge, and within one.
LEMMA SeenSegments ==
  ASSUME EngineInv, RowInv, Up, NEW i \in Current,
         memtable[i].lsn = 0, ~(pc \in {"meta", "apply"} /\ i \in op.ids)
  PROVE  /\ Holds(segments \cup Unlisted, i, ledger[i])
         /\ segments \cup Unlisted \subseteq Segment /\ IsFiniteSet(segments \cup Unlisted)
<1>1. /\ segments \subseteq Segment /\ IsFiniteSet(segments)
      /\ dirs \subseteq Segment /\ IsFiniteSet(dirs) /\ pending \in Segment
      /\ wal \subseteq Record /\ i \in Ids /\ ledger[i] # None /\ pc \in PCs
  BY DEF EngineInv, TypeInv, TypeOK, Finite, Current
<1>2. CASE pc = "publish"
  <2>1. segments \cup Unlisted = dirs
    BY <1>2 DEF Unlisted, EngineInv, ListFacts
  <2>2. ReplayedEntry(i) = NoEntry
    <3>1. Replayed = {}
      BY <1>1, <1>2, FlushedIsNotReplayed DEF EngineInv, ReplayFacts, ListFacts
    <3> QED
      BY <3>1 DEF ReplayedEntry
  <2>3. Holds(dirs, i, ledger[i])
    BY <2>2 DEF RowInv, DiskFacts, NoEntry
  <2> QED
    BY <1>1, <2>1, <2>3
<1>3. CASE pc = "create"
  <2>1. segments \cup Unlisted = dirs \cup {pending} /\ IsFiniteSet(dirs \cup {pending})
    BY <1>1, <1>3, FS_AddElement DEF Unlisted, EngineInv, ListFacts
  <2>2. pending.rows[i] = ReplayedEntry(i).vec /\ \A s \in dirs : s.snap < pending.snap
    BY <1>1, <1>3 DEF EngineInv, ReplayFacts
  <2>3. CASE ReplayedEntry(i).lsn = 0
    <3>1. pending.rows[i] = None /\ Holds(dirs, i, ledger[i])
      BY <2>2, <2>3, EntryZero DEF EngineInv, RowInv, DiskFacts
    <3>2. Good(dirs \cup {pending}, i, ledger[i])
      BY <1>1, <2>2, <3>1, AddNewest DEF Holds
    <3> QED
      BY <1>1, <2>1, <3>1, <3>2 DEF Holds, Holding
  <2>4. CASE ReplayedEntry(i).lsn # 0
    <3>1. pending.rows[i] = ledger[i]
      BY <1>1, <2>2, <2>4, EntryZero DEF EngineInv, RowInv, DiskFacts
    <3>2. Good(dirs \cup {pending}, i, ledger[i])
      BY <1>1, <2>2, <3>1, AddNewest
    <3> QED
      BY <1>1, <2>1, <3>1, <3>2 DEF Holds, Holding
  <2> QED
    BY <2>3, <2>4
<1>4. CASE pc \notin {"create", "publish"}
  <2>1. segments \cup Unlisted = segments
    BY <1>4 DEF Unlisted
  <2>2. Holds(segments, i, ledger[i])
    <3>1. CASE pc \in {"idle", "flush"}
      <4>1. ReplayedEntry(i).lsn = 0 /\ dirs = segments
        BY <1>1, <3>1 DEF EngineInv, ReplayFacts, ReplayedMemtable, ListFacts
      <4> QED
        BY <4>1 DEF RowInv, DiskFacts
    <3>2. CASE pc \in {"meta", "apply"}
      <4>1. ReplayedEntry(i) = ReplayedMemtable[i] /\ dirs = segments
        BY <1>1, <3>2 DEF ReplayedMemtable, EngineInv, ListFacts
      <4>2. ReplayedMemtable[i] = memtable[i]
        BY <1>1, <3>2 DEF EngineInv, ReplayFacts, Written
      <4> QED
        BY <4>1, <4>2 DEF RowInv, DiskFacts
    <3>3. CASE pc \in {"tmeta", "merge"}
      <4>1. wal = {} /\ dirs = segments
        BY <3>3 DEF EngineInv, ReplayFacts, ListFacts
      <4> QED
        BY <4>1, EmptyLog DEF RowInv, DiskFacts, NoEntry
    <3>4. CASE pc = "mpublish"
      BY <3>4 DEF RowInv, DiskFacts
    <3>5. CASE pc = "remove"
      <4>1. /\ wal = {} /\ dirs = segments \cup merging /\ segments \cap merging = {}
            /\ \A s \in merging, t \in segments : s.snap <= t.snap
        BY <3>5 DEF EngineInv, ReplayFacts, ListFacts
      <4>2. Good(dirs, i, ledger[i])
        <5>1. ReplayedEntry(i).lsn = 0
          BY <4>1, EmptyLog DEF NoEntry
        <5> QED
          BY <5>1 DEF RowInv, DiskFacts, Holds
      <4>3. segments \in SUBSET dirs /\ \A r \in dirs \ segments, d \in segments : r.snap <= d.snap
        BY <4>1
      <4>4. Good(segments, i, ledger[i])
        BY <1>1, <4>2, <4>3, DropOldest
      <4> QED
        BY <3>5, <4>4 DEF Holds, RowInv, DiskFacts
    <3>6. CASE pc = "exit"
      <4>1. ReplayedEntry(i).vec = None /\ dirs = segments
        BY <1>1, <3>6 DEF EngineInv, ReplayFacts, ListFacts
      <4>2. ReplayedEntry(i).lsn = 0
        BY <1>1, <4>1, EntryZero DEF EngineInv, RowInv, DiskFacts
      <4> QED
        BY <4>1, <4>2 DEF RowInv, DiskFacts
    <3> QED
      BY <1>1, <1>4, <3>1, <3>2, <3>3, <3>4, <3>5, <3>6 DEF PCs, Up
  <2> QED
    BY <1>1, <2>1, <2>2
<1> QED
  BY <1>2, <1>3, <1>4

\* Every expected vector is held, whatever hides other ids.
LEMMA CurrentIsHeld ==
  ASSUME EngineInv, RowInv, NEW i \in Current, NEW tombs, i \notin tombs
  PROVE  Held(tombs, i) = {ledger[i]}
<1>1. /\ i \in Ids /\ ledger[i] # None
      /\ dirs \subseteq Segment /\ IsFiniteSet(dirs) /\ TypeInv /\ PositiveLsns /\ LogInv
  BY DEF EngineInv, TypeInv, TypeOK, Finite, Current
<1>2. CASE pc = "down"
  <2>1. Held(tombs, i) = Hits(ReplayedMemtable, dirs, tombs, RecoveredLsn, i)
    BY <1>2 DEF Held, RecoveredHits
  <2>2. ReplayedMemtable[i] = ReplayedEntry(i) /\ ReplayedEntry(i).lsn \in Nat
    BY <1>1, EntryZero DEF ReplayedMemtable
  <2>3. /\ \A s \in dirs : s.snap <= RecoveredLsn
        /\ ReplayedEntry(i).lsn <= RecoveredLsn
    BY <1>1, <1>2, RecoveredIsVisible
  <2>4. CASE ReplayedEntry(i).lsn = 0
    <3>1. Holds(dirs, i, ledger[i])
      BY <2>4 DEF RowInv, DiskFacts
    <3>2. ReplayedMemtable[i].lsn = 0
      BY <2>2, <2>4
    <3> QED
      BY <1>1, <2>1, <2>3, <3>1, <3>2, SegmentHits
  <2>5. CASE ReplayedEntry(i).lsn # 0
    <3>1. ReplayedEntry(i).vec = ledger[i]
      BY <1>1, <2>2, <2>5 DEF RowInv, DiskFacts
    <3>2. ReplayedMemtable[i].lsn > 0 /\ ReplayedMemtable[i].lsn <= RecoveredLsn
          /\ ReplayedMemtable[i].vec = ledger[i]
      BY <2>2, <2>3, <2>5, <3>1
    <3> QED
      BY <1>1, <2>1, <3>2, MemtableHits
  <2> QED
    BY <2>4, <2>5
<1>3. CASE pc \in {"meta", "apply"} /\ i \in op.ids
  <2>1. Held(tombs, i) = {op.rows[i]} \ {None}
    BY <1>3 DEF Held
  <2> QED
    BY <1>1, <1>3, <2>1, OpIsInLedger
<1>4. CASE Up /\ ~(pc \in {"meta", "apply"} /\ i \in op.ids)
  <2>1. Held(tombs, i) = Hits(memtable, segments \cup Unlisted, tombs, lastLsn, i)
    BY <1>4 DEF Held, Up
  <2>2. /\ memtable[i].lsn \in Nat /\ memtable[i].lsn <= lastLsn
        /\ \A s \in segments \cup Unlisted : s.snap <= lastLsn
    BY <1>1, <1>4 DEF LogInv, Unlisted, TypeInv, TypeOK, Entry
  <2>3. CASE memtable[i].lsn = 0
    <3>1. /\ Holds(segments \cup Unlisted, i, ledger[i])
          /\ segments \cup Unlisted \subseteq Segment /\ IsFiniteSet(segments \cup Unlisted)
      BY <1>4, <2>3, SeenSegments
    <3> QED
      BY <1>1, <2>1, <2>2, <2>3, <3>1, SegmentHits
  <2>4. CASE memtable[i].lsn # 0
    <3>1. memtable[i] = ReplayedEntry(i)
      BY <1>1, <1>4, <2>4, MemtableIsReplayed
    <3>2. memtable[i].vec = ledger[i] /\ memtable[i].lsn > 0
      BY <1>1, <2>2, <2>4, <3>1 DEF RowInv, DiskFacts
    <3> QED
      BY <1>1, <2>1, <2>2, <3>2, MemtableHits
  <2> QED
    BY <2>3, <2>4
<1> QED
  BY <1>2, <1>3, <1>4 DEF Up

\* Whatever a kill interrupts and whatever it leaves half written of a segment or
\* of tombstones.json, the newest vector of an id is the one version the engine
\* holds.
THEOREM NewestRowAlwaysSurvives ==
  ASSUME LogFilesIntact
  PROVE  LedgerSpec => []NewestRowSurvives
<1>1. EngineInv /\ RowInv => NewestRowSurvives
  <2> SUFFICES ASSUME EngineInv, RowInv, NEW i \in Ids \ masked, ledger[i] # None
               PROVE  Held({}, i) = {ledger[i]}
    BY DEF NewestRowSurvives
  <2>1. i \in Current /\ i \notin {}
    BY DEF Current
  <2> QED
    BY <2>1, CurrentIsHeld
<1> QED
  BY <1>1, EngineInvariant, RowInvariant, PTL

-----------------------------------------------------------------------------
(***************************************************************************)
(* Deleted ids.  Their rows stay in the segments until a merge drops them, *)
(* and the tombstone may go when it does: this is right as long as the     *)
(* merge takes every segment there is, which a kill between a flush and its*)
(* merge can undo.                                                         *)
(***************************************************************************)

\* No kill comes while tombstones.json is being rewritten.
TombstonesIntact ==
  "tombstones" \in TornFiles => KillPoints \cap {"apply", "flush", "merge", "mpublish"} = {}

Gone == {i \in Ids : ledger[i] = None}

\* The tombstones of deleted ids can be read or replayed from the disk.
FileFacts ==
  /\ Up => Gone \cap tombstones \subseteq ReplayedTombstones
  /\ pc \in {"create", "publish", "tmeta", "merge", "mpublish", "remove"}
       => Gone \cap tombstones \subseteq tombFile

LEMMA TombstoneSources ==
  \A i : i \in ReplayedTombstones
           <=> i \in tombFile \/ \E q \in Replayed : q.kind = "delete" /\ i \in q.ids
BY DEF ReplayedTombstones

LEMMA TombstoneSourcesNext ==
  \A i : i \in ReplayedTombstones'
           <=> i \in tombFile' \/ \E q \in Replayed' : q.kind = "delete" /\ i \in q.ids
BY DEF ReplayedTombstones

\* A delete among the replayed records gives its ids an entry.
LEMMA ReplayedHasEntry ==
  ASSUME TypeInv, PositiveLsns, NEW q \in Replayed, NEW i \in q.ids
  PROVE  ReplayedEntry(i).lsn > 0
<1>1. Replayed \subseteq Record /\ IsFiniteSet(Replayed) /\ Replayed \subseteq wal
  BY FS_Subset DEF Replayed, TypeInv, TypeOK, Finite
<1>2. \E r \in Replayed : ReplayedEntry(i) = [lsn |-> r.lsn, vec |-> r.rows[i]]
  BY <1>1, LastEntrySource, ReplaysLastEntry
<1> QED
  BY <1>1, <1>2 DEF PositiveLsns

THEOREM FileInvariant ==
  ASSUME LogFilesIntact
  PROVE  LedgerSpec => []FileFacts
<1>1. LedgerInit => FileFacts
  BY DEF LedgerInit, Init, FileFacts, Up
<1>2. EngineInv /\ EngineInv' /\ RowInv /\ FileFacts /\ LedgerNext => FileFacts'
  <2> SUFFICES ASSUME EngineInv, EngineInv', RowInv, FileFacts, LedgerNext PROVE FileFacts'
    OBVIOUS
  <2>a. Keep => Gone' = Gone
    BY DEF Keep, Gone
  <2>1. ASSUME tombFile' = tombstones' PROVE FileFacts'
    BY <2>1, TombstoneSourcesNext DEF FileFacts
  <2>2. ASSUME UNCHANGED <<tombFile, tombstones>>, Gone' = Gone,
               pc \in {"create", "publish", "tmeta", "merge", "mpublish", "remove"}
        PROVE  FileFacts'
    BY <2>2, TombstoneSourcesNext DEF FileFacts
  <2>3. ASSUME UNCHANGED <<wal, dirs, tombFile>>
        PROVE  ReplayedTombstones' = ReplayedTombstones
    BY <2>3, SameReplay DEF ReplayedTombstones
  <2>4. CASE Start
    <3>1. /\ pc' \in {"down", "idle"} /\ UNCHANGED <<wal, dirs, tombFile>>
          /\ pc' = "idle" => tombstones' = ReplayedTombstones
      BY <2>4 DEF Start, control
    <3> QED
      BY <2>3, <3>1 DEF FileFacts, Up
  <2>5. CASE Request
    <3>1. PICK rec \in Record :
            /\ Append(rec) /\ rec.lsn = lastLsn + 1
            /\ \/ rec.kind = "delete" /\ rec.rows = NoRows
               \/ rec.kind = "insert" /\ rec.ids = RowIds(rec.rows)
      BY <2>5, AppendsInsertOrDelete DEF EngineInv, TypeInv, TypeOK
    <3>2. /\ pc = "idle" /\ pc' = "meta" /\ op' = rec /\ UNCHANGED <<tombFile, tombstones>>
      BY <3>1 DEF Append
    <3>3. Replayed' = Replayed \cup {rec}
      BY <3>1, AppendReplays DEF EngineInv
    <3>4. ledger' = [i \in Ids |-> IF i \in rec.ids THEN rec.rows[i] ELSE ledger[i]]
      BY <2>5, <3>2, LedgerSteps DEF Enter
    <3>5. ASSUME NEW i \in Gone' \cap tombstones'
          PROVE  i \in ReplayedTombstones'
      <4>1. CASE i \in rec.ids
        <5>1. rec.rows[i] = None /\ i \in Ids
          BY <3>4, <4>1 DEF Gone
        <5>2. rec.kind = "delete"
          BY <3>1, <4>1, <5>1 DEF RowIds
        <5> QED
          BY <3>3, <4>1, <5>2, TombstoneSourcesNext
      <4>2. CASE i \notin rec.ids
        <5>1. i \in Gone \cap tombstones
          BY <3>2, <3>4, <4>2 DEF Gone
        <5>2. i \in ReplayedTombstones
          BY <3>2, <5>1 DEF FileFacts, Up
        <5> QED
          BY <3>2, <3>3, <5>2, TombstoneSources, TombstoneSourcesNext
      <4> QED
        BY <4>1, <4>2
    <3> QED
      BY <3>2, <3>5 DEF FileFacts
  <2>6. CASE Stop \/ WriteMeta
    <3>1. /\ pc \in {"idle", "meta"} /\ pc' \in {"flush", "apply"}
          /\ UNCHANGED <<wal, dirs, tombFile, tombstones>> /\ Gone' = Gone
      BY <2>6, <2>a, LedgerSteps DEF Stop, WriteMeta, disk, memory, Work
    <3> QED
      BY <2>3, <3>1 DEF FileFacts, Up
  <2>7. CASE ApplyInsert
    <3>1. /\ pc = "apply" /\ pc' \in {"flush", "idle"} /\ UNCHANGED <<wal, dirs>>
          /\ tombstones' \subseteq tombstones /\ Gone' = Gone
          /\ tombFile' = tombFile \/ tombFile' = tombstones'
      BY <2>7, <2>a, LedgerSteps DEF ApplyInsert, Work
    <3> QED
      BY <2>1, <2>3, <3>1 DEF FileFacts, Up
  <2>8. CASE ApplyDelete \/ MergePublish \/ MergeDropAll
    BY <2>1, <2>8 DEF ApplyDelete, MergePublish, MergeDropAll
  <2>9. CASE FlushCapture
    <3>1. /\ pc = "flush" /\ UNCHANGED <<wal, dirs>> /\ Gone' = Gone
          /\ tombstones' = tombstones \cup MemDeletes
          /\ tombFile' = IF MemDeletes = {} THEN tombFile ELSE tombstones'
      BY <2>9, <2>a, LedgerSteps DEF FlushCapture, Work
    <3>2. CASE MemDeletes = {}
      <4>1. ASSUME NEW i \in Gone \cap tombstones
            PROVE  i \in tombFile
        <5>1. i \in ReplayedTombstones /\ i \in Ids /\ ledger[i] = None
          BY <3>1 DEF FileFacts, Up, Gone
        <5>2. ASSUME NEW q \in Replayed, i \in q.ids
              PROVE  FALSE
          <6>1. ReplayedEntry(i).lsn > 0
            BY <5>2, ReplayedHasEntry DEF EngineInv
          <6>2. ReplayedEntry(i).vec = None
            BY <5>1, <6>1 DEF RowInv, DiskFacts
          <6>3. memtable[i] = ReplayedEntry(i)
            BY <3>1, <5>1 DEF EngineInv, ReplayFacts, ReplayedMemtable
          <6> QED
            BY <3>2, <5>1, <6>1, <6>2, <6>3 DEF MemDeletes
        <5> QED
          BY <5>1, <5>2, TombstoneSources
      <4> QED
        BY <3>1, <3>2, <4>1, TombstoneSourcesNext DEF FileFacts
    <3>3. CASE MemDeletes # {}
      BY <2>1, <3>1, <3>3
    <3> QED
      BY <3>2, <3>3
  <2>10. CASE FlushCreate \/ FlushPublish \/ TruncateMeta \/ MergeCreate \/ RemoveOldest
    <3>1. /\ UNCHANGED <<tombFile, tombstones>> /\ Gone' = Gone
          /\ pc \in {"create", "publish", "tmeta", "merge", "mpublish", "remove"}
      BY <2>10, <2>a, LedgerSteps
         DEF FlushCreate, FlushPublish, TruncateMeta, MergeCreate, RemoveOldest, memory, Work
    <3> QED
      BY <2>2, <3>1
  <2>11. CASE Exit \/ Die
    BY <2>11 DEF Exit, Die, Kill, KillInWrite, PowerOff, FileFacts, Up
  <2> QED
    BY <2>4, <2>5, <2>6, <2>7, <2>8, <2>9, <2>10, <2>11 DEF LedgerNext, Next, Work
<1>3. FileFacts /\ UNCHANGED <<vars, ledgerVars>> => FileFacts'
  BY SameReplay
     DEF vars, disk, memory, control, ledgerVars, FileFacts, Gone, Up, ReplayedTombstones
<1> QED
  BY <1>1, <1>2, <1>3, EngineInvariant, RowInvariant, PTL DEF LedgerSpec

\* As long as no kill has left a merge undone, a merge takes all segments.
CountFacts == ~cutMerge =>
  /\ pc = "down" => Cardinality(dirs) < MergeThreshold
  /\ pc \in {"idle", "meta", "apply", "flush", "create", "publish", "exit", "remove"}
       => Cardinality(segments) < MergeThreshold
  /\ pc = "tmeta" => Cardinality(segments) <= MergeThreshold
  /\ pc \in {"merge", "mpublish"} => Cardinality(segments) = MergeThreshold
  /\ pc = "mpublish" => merging = segments

LEMMA OldestAreAll ==
  ASSUME NEW segs, IsFiniteSet(segs), NEW n \in Nat, Cardinality(segs) = n,
         NEW old, IsOldest(old, segs, n)
  PROVE  old = segs
BY FS_Subset DEF IsOldest

THEOREM CountInvariant ==
  ASSUME LogFilesIntact, MergeThreshold > 1
  PROVE  LedgerSpec => []CountFacts
<1>1. LedgerInit => CountFacts
  BY FS_EmptySet, EngineAssumption DEF LedgerInit, Init, CountFacts
<1>2. EngineInv /\ EngineInv' /\ CountFacts /\ LedgerNext => CountFacts'
  <2> SUFFICES ASSUME EngineInv, EngineInv', CountFacts, LedgerNext PROVE CountFacts'
    OBVIOUS
  <2>a. /\ IsFiniteSet(segments) /\ IsFiniteSet(dirs) /\ IsFiniteSet(dirs')
        /\ Cardinality(segments) \in Nat /\ Cardinality(dirs) \in Nat
        /\ Cardinality(dirs') \in Nat /\ MergeThreshold \in Nat
    BY FS_CardinalityType, EngineAssumption DEF EngineInv, TypeInv, Finite
  <2>b. cutMerge => cutMerge'
    BY DEF LedgerNext, Enter, Mask, Keep
  <2>1. CASE Start
    <3>1. /\ pc = "down" /\ UNCHANGED dirs
          /\ pc' = "down" \/ (pc' = "idle" /\ segments' = dirs)
      BY <2>1 DEF Start, control
    <3> QED
      BY <2>b, <3>1 DEF CountFacts
  <2>2. CASE Request \/ Stop \/ WriteMeta \/ ApplyInsert \/ ApplyDelete
    BY <2>2, <2>b DEF Request, Insert, Delete, Append, Stop, WriteMeta, ApplyInsert,
                      ApplyDelete, memory, CountFacts
  <2>3. Return => pc' \in {"idle", "exit"}
    BY DEF Return
  <2>4. CASE FlushCapture \/ FlushCreate
    BY <2>3, <2>4, <2>b DEF FlushCapture, FlushCreate, memory, CountFacts
  <2>5. CASE FlushPublish
    <3>1. /\ pc = "publish" /\ pc' = "tmeta" /\ segments' = segments \cup {pending}
      BY <2>5 DEF FlushPublish
    <3>2. Cardinality(segments') <= Cardinality(segments) + 1
          /\ Cardinality(segments') \in Nat
      <4>1. Cardinality(segments \cup {pending}) =
              IF pending \in segments THEN Cardinality(segments) ELSE Cardinality(segments) + 1
        BY <2>a, FS_AddElement
      <4> QED
        BY <2>a, <3>1, <4>1
    <3> QED
      BY <2>a, <2>b, <3>1, <3>2 DEF CountFacts
  <2>6. CASE TruncateMeta
    BY <2>3, <2>6, <2>a, <2>b DEF TruncateMeta, memory, CountFacts
  <2>7. CASE MergeCreate
    <3>1. /\ pc = "merge" /\ pc' = "mpublish" /\ UNCHANGED segments
          /\ IsOldest(merging', segments, MergeThreshold)
      BY <2>7 DEF MergeCreate, memory
    <3> QED
      BY <2>a, <2>b, <3>1, OldestAreAll DEF CountFacts
  <2>8. CASE MergePublish
    <3>1. /\ pc = "mpublish" /\ pc' = "remove"
          /\ segments' = (segments \ merging) \cup {pending}
      BY <2>8 DEF MergePublish
    <3>2. ~cutMerge => segments' = {pending}
      BY <3>1 DEF CountFacts
    <3>3. Cardinality({pending}) = 1
      BY FS_Singleton
    <3> QED
      BY <2>a, <2>b, <3>1, <3>2, <3>3 DEF CountFacts
  <2>9. CASE MergeDropAll
    <3>1. /\ pc = "merge" /\ pc' = "remove" /\ segments' = segments \ merging'
          /\ IsOldest(merging', segments, MergeThreshold)
      BY <2>9 DEF MergeDropAll
    <3>2. ~cutMerge => segments' = {}
      BY <2>a, <3>1, OldestAreAll DEF CountFacts
    <3> QED
      BY <2>a, <2>b, <3>1, <3>2, FS_EmptySet DEF CountFacts
  <2>10. CASE RemoveOldest
    BY <2>3, <2>10, <2>b DEF RemoveOldest, memory, CountFacts
  <2>11. CASE Exit \/ Die
    <3>1. pc' = "down" /\ Up /\ Keep
      BY <2>11, LedgerSteps, EngineAssumption
         DEF Exit, Die, Kill, KillInWrite, PowerOff, Work, Up
    <3> QED
      BY <2>a, <3>1 DEF Keep, CountFacts
  <2> QED
    BY <2>1, <2>2, <2>4, <2>5, <2>6, <2>7, <2>8, <2>9, <2>10, <2>11 DEF LedgerNext, Next, Work
<1>3. CountFacts /\ UNCHANGED <<vars, ledgerVars>> => CountFacts'
  BY DEF vars, disk, memory, control, ledgerVars, CountFacts
<1> QED
  BY <1>1, <1>2, <1>3, EngineInvariant, PTL DEF LedgerSpec

\* A deleted id has no row left, or its tombstone, until the delete is applied.
GoneFacts == ~cutMerge =>
  /\ pc = "down" => \A i \in Gone : i \in ReplayedTombstones \/ Holding(dirs, i) = {}
  /\ Up => \A i \in Gone : \/ Holding(segments, i) = {}
                           \/ i \in tombstones
                           \/ pc \in {"meta", "apply"} /\ i \in op.ids
  /\ pc \in {"create", "publish", "mpublish"} => \A i \in Gone : pending.rows[i] = None

\* A kill leaves the deleted ids hidden.
LEMMA GoneAfterDeath ==
  ASSUME TombstonesIntact, EngineInv, RowInv, FileFacts, GoneFacts, Keep,
         Exit \/ Die, ~cutMerge'
  PROVE  \A i \in Gone : i \in ReplayedTombstones' \/ Holding(dirs', i) = {}
<1>1. /\ ~cutMerge /\ pc # "remove" /\ Up
  BY EngineAssumption DEF Keep, Exit, Die, Kill, KillInWrite, PowerOff, Up
<1>2. UNCHANGED <<wal, dirs, tombFile>>
  <2>1. CASE Exit \/ Kill
    BY <2>1 DEF Exit, Kill, disk
  <2>2. CASE pc \in KillPoints /\ TearTombstones
    <3>1. pc \in {"apply", "flush", "merge", "mpublish"} /\ "tombstones" \in TornFiles
      BY <2>2 DEF TearTombstones, PersistsTombstones
    <3> QED
      BY <2>2, <3>1 DEF TombstonesIntact
  <2>3. CASE TearLog \/ TearMeta \/ TearSegment
    BY <1>1, <2>3 DEF TearLog, TearMeta, TearSegment
  <2> QED
    BY <2>1, <2>2, <2>3 DEF Die, KillInWrite
<1>3. ReplayedTombstones' = ReplayedTombstones
  BY <1>2, SameReplay DEF ReplayedTombstones
<1>4. ASSUME NEW i \in Gone
      PROVE  i \in ReplayedTombstones \/ Holding(dirs, i) = {}
  <2>1. i \in Ids /\ ledger[i] = None /\ pc \in PCs
    BY DEF Gone, EngineInv, TypeInv, TypeOK
  <2>2. CASE i \in tombstones
    BY <1>1, <2>2 DEF FileFacts
  <2>3. CASE pc \in {"meta", "apply"} /\ i \in op.ids
    <3>1. op.rows[i] = None
      BY <2>1, <2>3, OpIsInLedger
    <3>2. op.kind = "delete"
      BY <2>1, <2>3, <3>1 DEF EngineInv, OpFacts, RowIds
    <3>3. op \in Replayed
      <4>1. op \in wal /\ op.lsn = lastLsn /\ \A s \in dirs : s.snap < lastLsn
        BY <2>3 DEF EngineInv, LogInv
      <4>2. lastLsn \in Nat /\ \A s \in dirs : s.snap \in Nat
        BY DEF EngineInv, TypeInv, TypeOK, Segment
      <4> QED
        BY <4>1, <4>2 DEF Replayed
    <3> QED
      BY <2>3, <3>2, <3>3, TombstoneSources
  <2>4. CASE Holding(segments, i) = {}
    <3>1. CASE pc \in {"publish", "mpublish"}
      <4>1. dirs = segments \cup {pending} /\ pending.rows[i] = None
        BY <1>1, <3>1 DEF EngineInv, ListFacts, GoneFacts
      <4> QED
        BY <2>4, <4>1 DEF Holding
    <3>2. CASE pc \notin {"publish", "mpublish"}
      <4>1. dirs = segments
        BY <1>1, <2>1, <3>2 DEF EngineInv, ListFacts, PCs, Up
      <4> QED
        BY <2>4, <4>1
    <3> QED
      BY <3>1, <3>2
  <2> QED
    BY <1>1, <2>2, <2>3, <2>4 DEF GoneFacts
<1> QED
  BY <1>2, <1>3, <1>4

THEOREM GoneInvariant ==
  ASSUME LogFilesIntact, TombstonesIntact, MergeThreshold > 1
  PROVE  LedgerSpec => []GoneFacts
<1>1. LedgerInit => GoneFacts
  BY DEF LedgerInit, Init, GoneFacts, Holding, Up
<1>2. EngineInv /\ EngineInv' /\ RowInv /\ FileFacts /\ CountFacts /\ GoneFacts /\ LedgerNext
        => GoneFacts'
  <2> SUFFICES ASSUME EngineInv, EngineInv', RowInv, FileFacts, CountFacts, GoneFacts,
                      LedgerNext, ~cutMerge'
               PROVE  GoneFacts'
    BY DEF GoneFacts
  <2>a. ~cutMerge
    BY DEF LedgerNext, Enter, Mask, Keep
  <2>b. Keep => Gone' = Gone
    BY DEF Keep, Gone
\* Steps after which fewer rows are listed, no tombstone is gone and nothing is pending.
  <2>1. ASSUME Gone' = Gone, tombstones \subseteq tombstones',
               segments' = segments, pc \notin {"down", "meta", "apply"},
               pc' \notin {"down", "create", "publish", "mpublish"}
        PROVE  GoneFacts'
    BY <2>1, <2>a DEF GoneFacts, Up
  <2>2. CASE Start
    <3>1. /\ pc = "down" /\ UNCHANGED <<wal, dirs, tombFile>>
          /\ \/ pc' = "down"
             \/ pc' = "idle" /\ segments' = dirs /\ tombstones' = ReplayedTombstones
      BY <2>2 DEF Start, control
    <3>2. ledger' = ledger /\ Gone' = Gone
      BY <2>2, LedgerSteps DEF Mask, Keep, Gone
    <3>3. ReplayedTombstones' = ReplayedTombstones
      BY <3>1, SameReplay DEF ReplayedTombstones
    <3> QED
      BY <2>a, <3>1, <3>2, <3>3 DEF GoneFacts, Up
  <2>3. CASE Request
    <3>1. PICK rec \in Record : Append(rec)
      BY <2>3, AppendsInsertOrDelete DEF EngineInv, TypeInv, TypeOK
    <3>2. /\ pc = "idle" /\ pc' = "meta" /\ op' = rec
          /\ UNCHANGED <<segments, tombstones>>
      BY <3>1 DEF Append
    <3>3. ledger' = [i \in Ids |-> IF i \in rec.ids THEN rec.rows[i] ELSE ledger[i]]
      BY <2>3, <3>2, LedgerSteps DEF Enter
    <3>4. \A i \in Gone' : i \in rec.ids \/ i \in Gone
      BY <3>3 DEF Gone
    <3> QED
      BY <2>a, <3>2, <3>4 DEF GoneFacts, Up
  <2>4. CASE Stop
    BY <2>1, <2>4, <2>b, LedgerSteps DEF Stop, memory
  <2>5. CASE WriteMeta
    <3>1. /\ pc = "meta" /\ pc' = "apply" /\ UNCHANGED <<segments, tombstones, op>>
          /\ Gone' = Gone
      BY <2>5, <2>b, LedgerSteps DEF WriteMeta, memory, Work
    <3> QED
      BY <2>a, <3>1 DEF GoneFacts, Up
  <2>6. CASE ApplyInsert
    <3>1. /\ pc = "apply" /\ pc' \in {"flush", "idle"} /\ tombstones' = tombstones \ op.ids
          /\ op.kind = "insert" /\ UNCHANGED segments /\ Gone' = Gone
      BY <2>6, <2>b, LedgerSteps DEF ApplyInsert, Work
    <3>2. \A i \in op.ids : i \notin Gone
      <4>1. op.ids = RowIds(op.rows)
        BY <3>1 DEF EngineInv, OpFacts
      <4> QED
        BY <3>1, <4>1, OpIsInLedger DEF Gone, RowIds
    <3> QED
      BY <2>a, <3>1, <3>2 DEF GoneFacts, Up
  <2>7. CASE ApplyDelete
    <3>1. /\ pc = "apply" /\ pc' = "idle" /\ tombstones' = tombstones \cup op.ids
          /\ UNCHANGED segments /\ Gone' = Gone
      BY <2>7, <2>b, LedgerSteps DEF ApplyDelete, Work
    <3> QED
      BY <2>a, <3>1 DEF GoneFacts, Up
  <2>8. CASE FlushCapture
    <3>1. /\ pc = "flush" /\ tombstones \subseteq tombstones'
          /\ UNCHANGED segments /\ Gone' = Gone
          /\ \/ pc' \in {"idle", "exit"}
             \/ pc' = "create" /\ pending'.rows = [j \in Ids |-> memtable[j].vec]
      BY <2>8, <2>b, LedgerSteps DEF FlushCapture, Return, Work
    <3>2. \A i \in Gone : memtable[i].vec = None
      <4> SUFFICES ASSUME NEW i \in Gone PROVE memtable[i].vec = None
        OBVIOUS
      <4>1. i \in Ids /\ ledger[i] = None /\ memtable[i] = ReplayedEntry(i)
        BY <3>1 DEF Gone, EngineInv, ReplayFacts, ReplayedMemtable
      <4> QED
        BY <4>1, EntryZero DEF EngineInv, RowInv, DiskFacts
    <3> QED
      BY <2>a, <3>1, <3>2 DEF GoneFacts, Up, Gone
  <2>9. CASE FlushCreate
    <3>1. /\ pc = "create" /\ pc' = "publish" /\ UNCHANGED <<segments, tombstones>>
          /\ pending'.rows = pending.rows /\ Gone' = Gone
      BY <2>9, <2>b, LedgerSteps
         DEF FlushCreate, memory, Work, EngineInv, TypeInv, TypeOK, Segment
    <3> QED
      BY <2>a, <3>1 DEF GoneFacts, Up
  <2>10. CASE FlushPublish
    <3>1. /\ pc = "publish" /\ pc' = "tmeta" /\ UNCHANGED tombstones /\ Gone' = Gone
          /\ segments' = segments \cup {pending}
      BY <2>10, <2>b, LedgerSteps DEF FlushPublish, Work
    <3>2. \A i \in Gone : Holding(segments, i) = {} => Holding(segments', i) = {}
      BY <2>a, <3>1 DEF GoneFacts, Holding
    <3> QED
      BY <2>a, <3>1, <3>2 DEF GoneFacts, Up
  <2>11. CASE TruncateMeta
    <3>1. /\ pc = "tmeta" /\ pc' \in {"merge", "idle", "exit"}
          /\ UNCHANGED <<segments, tombstones>> /\ Gone' = Gone
      BY <2>11, <2>b, LedgerSteps DEF TruncateMeta, Return, memory, Work
    <3> QED
      BY <2>1, <3>1
  <2>12. CASE MergeCreate
    <3>1. PICK old \in SUBSET segments, newest \in segments :
            \E u \in FreshUids(newest.snap) :
               pending' = [snap |-> newest.snap, uid |-> u, rows |-> MergedRows(old)]
      BY <2>12, MergeTakes
    <3>2. pending'.rows = MergedRows(old)
      BY <3>1
    <3>3. /\ pc = "merge" /\ pc' = "mpublish" /\ UNCHANGED <<segments, tombstones>>
          /\ Gone' = Gone
      BY <2>12, <2>b, LedgerSteps DEF MergeCreate, memory, Work
    <3>4. ASSUME NEW i \in Gone
          PROVE  pending'.rows[i] = None
      <4>1. i \in Ids
        BY DEF Gone
      <4>2. CASE i \in tombstones
        BY <3>2, <4>1, <4>2 DEF MergedRows
      <4>3. CASE i \notin tombstones
        <5>1. Holding(segments, i) = {}
          BY <2>a, <3>3, <4>3 DEF GoneFacts, Up
        <5>2. Holding(old, i) = {}
          BY <5>1 DEF Holding
        <5>3. LatestRow(old, i) = None
          BY <5>2 DEF LatestRow
        <5> QED
          BY <3>2, <4>1, <4>3, <5>3 DEF MergedRows
      <4> QED
        BY <4>2, <4>3
    <3> QED
      BY <2>a, <3>3, <3>4 DEF GoneFacts, Up
  <2>13. CASE MergePublish
    <3>1. /\ pc = "mpublish" /\ pc' = "remove" /\ Gone' = Gone
          /\ segments' = (segments \ merging) \cup {pending}
      BY <2>13, <2>b, LedgerSteps DEF MergePublish, Work
    <3>2. segments' = {pending}
      BY <2>a, <3>1 DEF CountFacts
    <3>3. \A i \in Gone : Holding(segments', i) = {}
      BY <2>a, <3>1, <3>2 DEF GoneFacts, Holding
    <3> QED
      BY <3>1, <3>3 DEF GoneFacts, Up
  <2>14. CASE MergeDropAll
    <3>1. /\ pc = "merge" /\ pc' = "remove" /\ segments' = segments \ merging'
          /\ IsOldest(merging', segments, MergeThreshold)
      BY <2>14 DEF MergeDropAll
    <3>2. /\ IsFiniteSet(segments) /\ MergeThreshold \in Nat
          /\ Cardinality(segments) = MergeThreshold
      BY <2>a, <3>1, EngineAssumption DEF EngineInv, TypeInv, Finite, CountFacts
    <3>3. segments' = {}
      BY <3>1, <3>2, OldestAreAll
    <3> QED
      BY <3>1, <3>3 DEF GoneFacts, Up, Holding
  <2>15. CASE RemoveOldest
    <3>1. /\ pc = "remove" /\ pc' \in {"remove", "idle", "exit"}
          /\ UNCHANGED <<segments, tombstones>> /\ Gone' = Gone
      BY <2>15, <2>b, LedgerSteps DEF RemoveOldest, Return, memory, Work
    <3> QED
      BY <2>1, <3>1
  <2>16. CASE Exit \/ Die
    <3>1. Keep /\ pc' = "down"
      BY <2>16, LedgerSteps DEF Exit, Die, Kill, KillInWrite, PowerOff, Work
    <3>2. \A i \in Gone' : i \in ReplayedTombstones' \/ Holding(dirs', i) = {}
      BY <2>16, <2>b, <3>1, GoneAfterDeath
    <3> QED
      BY <3>1, <3>2 DEF GoneFacts, Up
  <2> QED
    BY <2>2, <2>3, <2>4, <2>5, <2>6, <2>7, <2>8, <2>9, <2>10, <2>11, <2>12, <2>13, <2>14,
       <2>15, <2>16 DEF LedgerNext, Next, Work
<1>3. GoneFacts /\ UNCHANGED <<vars, ledgerVars>> => GoneFacts'
  BY SameReplay
     DEF vars, disk, memory, control, ledgerVars, GoneFacts, Gone, Up, ReplayedTombstones
<1> QED
  BY <1>1, <1>2, <1>3, EngineInvariant, RowInvariant, FileInvariant, CountInvariant, PTL
     DEF LedgerSpec

\* Nothing is found under a deleted id.
LEMMA GoneIsNotServed ==
  ASSUME EngineInv, RowInv, GoneFacts, ~cutMerge, Up, NEW i \in Gone
  PROVE  ServedHits(i) = {}
<1>1. i \in Ids /\ ledger[i] = None
  BY DEF Gone
<1>2. ServedHits(i) = Held(tombstones, i)
  BY DEF ServedHits, Hidden, Up
<1>3. CASE pc \in {"meta", "apply"} /\ i \in op.ids
  <2>1. op.rows[i] = None
    BY <1>1, <1>3, OpIsInLedger
  <2> QED
    BY <1>2, <1>3, <2>1 DEF Held
<1>4. CASE ~(pc \in {"meta", "apply"} /\ i \in op.ids)
  <2>1. Held(tombstones, i) = Hits(memtable, segments \cup Unlisted, tombstones, lastLsn, i)
    BY <1>4 DEF Held, Up
  <2>2. i \in tombstones \/ Holding(segments, i) = {}
    BY <1>4 DEF GoneFacts
  <2>3. Holding(segments, i) = {} => Holding(segments \cup Unlisted, i) = {}
    BY DEF GoneFacts, Unlisted, Holding
  <2>4. memtable[i].lsn # 0 => /\ memtable[i].lsn > 0 /\ memtable[i].lsn <= lastLsn
                               /\ memtable[i].vec = None
    <3> SUFFICES ASSUME memtable[i].lsn # 0
                 PROVE  /\ memtable[i].lsn > 0 /\ memtable[i].lsn <= lastLsn
                        /\ memtable[i].vec = None
      OBVIOUS
    <3>1. memtable[i].lsn \in Nat /\ memtable[i].lsn <= lastLsn
      BY <1>1 DEF EngineInv, TypeInv, TypeOK, Entry, LogInv
    <3>2. memtable[i] = ReplayedEntry(i)
      BY <1>1, <1>4, MemtableIsReplayed
    <3> QED
      BY <1>1, <3>1, <3>2 DEF RowInv, DiskFacts
  <2> QED
    BY <1>2, <2>1, <2>2, <2>3, <2>4, NoHits
<1> QED
  BY <1>3, <1>4

\* An expected vector is served: its id is not hidden, or its insert is in flight.
LEMMA CurrentIsServed ==
  ASSUME EngineInv, RowInv, Up, NEW i \in Current
  PROVE  ServedHits(i) = {ledger[i]}
<1>1. ServedHits(i) = Held(tombstones, i)
  BY DEF ServedHits, Hidden, Up
<1>2. CASE i \notin tombstones
  BY <1>1, <1>2, CurrentIsHeld
<1>3. CASE i \in tombstones
  <2>1. pc \in {"meta", "apply"} /\ i \in op.ids
    BY <1>3 DEF RowInv, TombFacts
  <2>2. Held(tombstones, i) = {op.rows[i]} \ {None}
    BY <2>1 DEF Held
  <2>3. op.rows[i] = ledger[i] /\ ledger[i] # None
    BY <2>1, OpIsInLedger DEF Current
  <2> QED
    BY <1>1, <2>2, <2>3
<1> QED
  BY <1>2, <1>3

\* A running engine serves what the ledger says, deletes included, after any kills
\* that have not left a merge undone.
THEOREM LedgerIsServed ==
  ASSUME LogFilesIntact, TombstonesIntact, MergeThreshold > 1
  PROVE  LedgerSpec => []ServesLedger
<1>1. EngineInv /\ RowInv /\ GoneFacts => ServesLedger
  <2> SUFFICES ASSUME EngineInv, RowInv, GoneFacts, Up, ~cutMerge, NEW i \in Ids \ masked
               PROVE  ServedHits(i) = IF ledger[i] = None THEN {} ELSE {ledger[i]}
    BY DEF ServesLedger
  <2>1. CASE ledger[i] = None
    BY <2>1, GoneIsNotServed DEF Gone
  <2>2. CASE ledger[i] # None
    BY <2>2, CurrentIsServed DEF Current
  <2> QED
    BY <2>1, <2>2
<1> QED
  BY <1>1, EngineInvariant, RowInvariant, GoneInvariant, PTL

-----------------------------------------------------------------------------
(***************************************************************************)
(* Without kills.  The only way down is stop(), which flushes: start()     *)
(* then replays no delete of an id that a later record inserts again, so   *)
(* it hides deleted ids only, and no merge is ever left undone.  Hence the *)
(* engine holds what the ledger says at every step, also while it is down, *)
(* and the ledger is the abstract store.                                   *)
(***************************************************************************)
Graceful ==
  /\ masked = {} /\ ~cutMerge
  /\ Up => tombFile \subseteq tombstones
  /\ pc = "down" => ReplayedTombstones \subseteq Gone

LEMMA NoKillsLeaveFilesIntact ==
  ASSUME KillPoints = {}
  PROVE  LogFilesIntact /\ TombstonesIntact /\ ~Die
BY DEF LogFilesIntact, TombstonesIntact, Die, Kill, KillInWrite

\* What a stopped engine leaves on disk hides deleted ids only.
LEMMA StoppedHidesGone ==
  ASSUME EngineInv, RowInv, Graceful, pc = "exit"
  PROVE  ReplayedTombstones \subseteq Gone
<1>1. tombFile \subseteq tombstones /\ tombFile \subseteq Ids /\ masked = {}
  BY DEF Graceful, Up, EngineInv, TypeInv, TypeOK
<1>2. ASSUME NEW i \in tombFile
      PROVE  i \in Gone
  BY <1>1 DEF RowInv, TombFacts, Current, Gone, Up
<1>3. ASSUME NEW q \in Replayed, NEW i \in q.ids
      PROVE  i \in Gone
  <2>1. q \in Record /\ i \in Ids
    BY DEF Replayed, EngineInv, TypeInv, TypeOK, Record
  <2>2. ReplayedEntry(i).lsn > 0
    BY <1>3, ReplayedHasEntry DEF EngineInv
  <2>3. ReplayedEntry(i).vec = None
    BY <2>1 DEF EngineInv, ReplayFacts
  <2> QED
    BY <2>1, <2>2, <2>3 DEF RowInv, DiskFacts, Gone
<1> QED
  BY <1>2, <1>3, TombstoneSources

\* Without kills nothing is masked and no merge is left undone.
THEOREM GracefulInvariant ==
  ASSUME KillPoints = {}, MergeThreshold > 1
  PROVE  LedgerSpec => []Graceful
<1>1. LedgerInit => Graceful
  <2> SUFFICES ASSUME LedgerInit PROVE Graceful
    OBVIOUS
  <2>1. ReplayedTombstones = {}
    BY DEF LedgerInit, Init, ReplayedTombstones, Replayed
  <2> QED
    BY <2>1 DEF LedgerInit, Init, Graceful, Up
<1>2. EngineInv /\ RowInv /\ CountFacts /\ Graceful /\ LedgerNext => Graceful'
  <2> SUFFICES ASSUME EngineInv, RowInv, CountFacts, Graceful, LedgerNext PROVE Graceful'
    OBVIOUS
  <2>a. ASSUME UNCHANGED <<wal, dirs, tombFile>>
        PROVE  ReplayedTombstones' = ReplayedTombstones
    BY <2>a, SameReplay DEF ReplayedTombstones
  <2>b. ASSUME Up, pc' # "down", masked' = masked, ~cutMerge',
               tombFile' \subseteq tombstones'
        PROVE  Graceful'
    BY <2>b DEF Graceful, Up
  <2>1. CASE Start
    <3>1. /\ pc = "down" /\ UNCHANGED <<wal, dirs, tombFile>>
          /\ \/ pc' = "down"
             \/ pc' = "idle" /\ tombstones' = ReplayedTombstones
      BY <2>1 DEF Start, control
    <3>2. /\ ledger' = ledger /\ Gone' = Gone /\ ~cutMerge'
          /\ \/ masked' = masked
             \/ pc' = "idle" /\ masked' = masked \cup {i \in tombstones' : ledger[i] # None}
      <4>1. CASE Mask
        BY <3>1, <4>1 DEF Mask, Gone, Graceful
      <4>2. CASE Keep
        BY <3>1, <4>2 DEF Keep, Gone, Graceful, Up
      <4> QED
        BY <2>1, <4>1, <4>2, LedgerSteps
    <3>3. ReplayedTombstones' = ReplayedTombstones /\ ReplayedTombstones \subseteq Gone
      BY <2>a, <3>1 DEF Graceful
    <3>4. tombFile' \subseteq ReplayedTombstones
      BY <3>1, TombstoneSources
    <3>5. masked' = {}
      BY <3>1, <3>2, <3>3 DEF Graceful, Gone
    <3> QED
      BY <3>1, <3>2, <3>3, <3>4, <3>5 DEF Graceful, Up
  <2>2. CASE Request
    <3>1. PICK rec \in Record : Append(rec)
      BY <2>2, AppendsInsertOrDelete DEF EngineInv, TypeInv, TypeOK
    <3>2. pc = "idle" /\ pc' = "meta" /\ UNCHANGED <<tombFile, tombstones>>
      BY <3>1 DEF Append
    <3>3. masked' = {} /\ ~cutMerge'
      BY <2>2, LedgerSteps DEF Enter, Graceful
    <3> QED
      BY <3>2, <3>3 DEF Graceful, Up
  <2>3. CASE Stop
    BY <2>3, <2>b, LedgerSteps DEF Stop, Keep, disk, memory, Graceful, Up
  <2>4. CASE Exit
    <3>1. /\ pc = "exit" /\ pc' = "down" /\ UNCHANGED <<wal, dirs, tombFile>> /\ Keep
      BY <2>4, LedgerSteps DEF Exit, PowerOff, disk, Work
    <3>2. Cardinality(dirs) < MergeThreshold
      BY <3>1 DEF CountFacts, Graceful, EngineInv, ListFacts
    <3>3. ReplayedTombstones' = ReplayedTombstones /\ ReplayedTombstones \subseteq Gone
      BY <2>a, <3>1, StoppedHidesGone
    <3>4. Cardinality(dirs) \in Nat /\ MergeThreshold \in Nat
      BY FS_CardinalityType, EngineAssumption DEF EngineInv, TypeInv, Finite
    <3>5. masked' = {} /\ ~cutMerge' /\ Gone' = Gone
      BY <3>1, <3>2, <3>4 DEF Keep, Graceful, Gone
    <3> QED
      BY <3>1, <3>3, <3>5 DEF Graceful, Up
  <2>5. CASE Work /\ ~Exit
    <3>1. pc # "down" /\ pc' # "down"
      BY <2>5 DEF Work, WriteMeta, ApplyInsert, ApplyDelete, FlushCapture, FlushCreate,
           FlushPublish, TruncateMeta, MergeCreate, MergePublish, MergeDropAll, RemoveOldest,
           Return
    <3>2. masked' = masked /\ ~cutMerge'
      BY <2>5, <3>1, LedgerSteps DEF Keep, Graceful
    <3>3. tombFile \subseteq tombstones
      BY <3>1 DEF Graceful, Up
    <3>4. tombFile' \subseteq tombstones'
      BY <2>5, <3>3 DEF Work, WriteMeta, ApplyInsert, ApplyDelete, FlushCapture, FlushCreate,
           FlushPublish, TruncateMeta, MergeCreate, MergePublish, MergeDropAll, RemoveOldest,
           memory
    <3> QED
      BY <2>b, <3>1, <3>2, <3>4 DEF Up
  <2> QED
    BY <2>1, <2>2, <2>3, <2>4, <2>5, NoKillsLeaveFilesIntact DEF LedgerNext, Next
<1>3. Graceful /\ UNCHANGED <<vars, ledgerVars>> => Graceful'
  BY SameReplay
     DEF vars, disk, memory, control, ledgerVars, Graceful, Gone, Up, ReplayedTombstones
<1> QED
  BY <1>1, <1>2, <1>3, EngineInvariant, RowInvariant, CountInvariant,
     NoKillsLeaveFilesIntact, PTL DEF LedgerSpec

\* A stopped engine holds what the ledger says.
LEMMA StoppedHoldsLedger ==
  ASSUME EngineInv, RowInv, GoneFacts, Graceful, pc = "down", NEW i \in Ids
  PROVE  ServedHits(i) = IF ledger[i] = None THEN {} ELSE {ledger[i]}
<1>1. ServedHits(i) = Held(ReplayedTombstones, i) /\ masked = {} /\ ~cutMerge
      /\ ReplayedTombstones \subseteq Gone
  BY DEF ServedHits, Hidden, Graceful
<1>2. CASE ledger[i] # None
  <2>1. i \in Current /\ i \notin ReplayedTombstones
    BY <1>1, <1>2 DEF Current, Gone
  <2> QED
    BY <1>1, <1>2, <2>1, CurrentIsHeld
<1>3. CASE ledger[i] = None
  <2>1. i \in ReplayedTombstones \/ Holding(dirs, i) = {}
    BY <1>1, <1>3 DEF GoneFacts, Gone
  <2>2. ReplayedMemtable[i] = ReplayedEntry(i) /\ ReplayedEntry(i).lsn \in Nat
    BY EntryZero DEF ReplayedMemtable, EngineInv
  <2>3. ReplayedEntry(i).lsn <= RecoveredLsn
    BY RecoveredIsVisible DEF EngineInv
  <2>4. ReplayedEntry(i).lsn > 0 => ReplayedEntry(i).vec = None
    BY <1>3 DEF RowInv, DiskFacts
  <2>5. ReplayedMemtable[i].lsn = 0
          \/ (ReplayedMemtable[i].lsn > 0 /\ ReplayedMemtable[i].lsn <= RecoveredLsn
              /\ ReplayedMemtable[i].vec = None)
    BY <2>2, <2>3, <2>4
  <2>6. Hits(ReplayedMemtable, dirs, ReplayedTombstones, RecoveredLsn, i) = {}
    BY <2>1, <2>5, NoHits
  <2> QED
    BY <1>1, <1>3, <2>6 DEF Held, RecoveredHits
<1> QED
  BY <1>2, <1>3

\* The abstraction of the engine is the ledger.
ContentIsLedger == ledger \in Rows /\ Content = ledger

THEOREM ContentInvariant ==
  ASSUME KillPoints = {}, MergeThreshold > 1
  PROVE  LedgerSpec => []ContentIsLedger
<1>1. EngineInv /\ RowInv /\ GoneFacts /\ Graceful => ContentIsLedger
  <2> SUFFICES ASSUME EngineInv, RowInv, GoneFacts, Graceful PROVE ContentIsLedger
    OBVIOUS
  <2>1. ASSUME NEW i \in Ids
        PROVE  ServedHits(i) = IF ledger[i] = None THEN {} ELSE {ledger[i]}
    <3>1. masked = {} /\ ~cutMerge
      BY DEF Graceful
    <3>2. CASE pc = "down"
      BY <3>2, StoppedHoldsLedger
    <3>3. CASE Up /\ ledger[i] = None
      BY <3>1, <3>3, GoneIsNotServed DEF Gone
    <3>4. CASE Up /\ ledger[i] # None
      BY <3>1, <3>4, CurrentIsServed DEF Current
    <3> QED
      BY <3>2, <3>3, <3>4 DEF Up
  <2>2. ASSUME NEW i \in Ids
        PROVE  Content[i] = ledger[i]
    <3>1. CASE ledger[i] = None
      BY <2>1, <3>1 DEF Content
    <3>2. CASE ledger[i] # None
      <4>1. ServedHits(i) = {ledger[i]}
        BY <2>1, <3>2
      <4>2. (CHOOSE v \in ServedHits(i) : ServedHits(i) = {v}) = ledger[i]
        BY <4>1
      <4> QED
        BY <4>1, <4>2 DEF Content
    <3> QED
      BY <3>1, <3>2
  <2>3. Content = [i \in Ids |-> Content[i]] /\ ledger \in Rows
    BY DEF Content, RowInv
  <2> QED
    BY <2>2, <2>3 DEF Rows, ContentIsLedger
<1> QED
  BY <1>1, EngineInvariant, RowInvariant, GoneInvariant, GracefulInvariant,
     NoKillsLeaveFilesIntact, PTL

\* Without kills the engine implements the abstract store: a request takes effect
\* when its record reaches the log, its end is the answer, and a start, a flush, a
\* merge and a stop change nothing a caller can see.
THEOREM EngineImplementsVectorStore ==
  ASSUME KillPoints = {}, MergeThreshold > 1
  PROVE  LedgerSpec => ImplementsVectorStore
<1> DEFINE request == [ids |-> op.ids, rows |-> op.rows]
<1>1. LedgerInit /\ ContentIsLedger => Store!Init
  BY DEF LedgerInit, Init, ContentIsLedger, NoOp, NoRows,
         Store!Init, Store!NoRows, Store!NoRequest
<1>2. EngineInv /\ ContentIsLedger /\ ContentIsLedger' /\ LedgerNext
        => [Store!Next]_<<Content, request>>
  <2> SUFFICES ASSUME EngineInv, ContentIsLedger, ContentIsLedger', LedgerNext
               PROVE  [Store!Next]_<<Content, request>>
    OBVIOUS
  <2>1. Content = ledger /\ Content' = ledger' /\ Store!NoRows = NoRows
    BY DEF ContentIsLedger, NoRows, Store!NoRows
  <2>2. CASE Request
    <3>1. PICK rec \in Record :
            /\ Append(rec)
            /\ \/ rec.kind = "delete" /\ rec.rows = NoRows
               \/ rec.kind = "insert" /\ rec.ids = RowIds(rec.rows)
      BY <2>2, AppendsInsertOrDelete DEF EngineInv, TypeInv, TypeOK
    <3>2. pc = "idle" /\ op = NoOp /\ op' = rec /\ rec.rows \in Rows /\ rec.ids \in SUBSET Ids
      BY <3>1 DEF Append, EngineInv, OpFacts, Record
    <3>3. request = Store!NoRequest /\ request' = [ids |-> rec.ids, rows |-> rec.rows]
      BY <2>1, <3>2 DEF NoOp, Store!NoRequest
    <3>4. ledger' = [i \in Ids |-> IF i \in rec.ids THEN rec.rows[i] ELSE ledger[i]]
      BY <2>2, <3>2, LedgerSteps DEF Enter
    <3>5. CASE rec.kind = "insert" /\ rec.ids = RowIds(rec.rows)
      <4>1. Store!RowIds(rec.rows) = rec.ids
        BY <3>5 DEF RowIds, Store!RowIds
      <4>2. Store!Insert(rec.rows)
        BY <2>1, <3>3, <3>4, <4>1 DEF Store!Insert
      <4>3. rec.rows \in Store!Rows
        BY <3>2 DEF Rows, Store!Rows
      <4> QED
        BY <4>2, <4>3 DEF Store!Next
    <3>6. CASE rec.kind = "delete" /\ rec.rows = NoRows
      <4>1. ledger' = [i \in Ids |-> IF i \in rec.ids THEN None ELSE ledger[i]]
        BY <3>4, <3>6 DEF NoRows
      <4>2. Store!Delete(rec.ids)
        BY <2>1, <3>3, <3>6, <4>1 DEF Store!Delete
      <4> QED
        BY <3>2, <4>2 DEF Store!Next
    <3> QED
      BY <3>1, <3>5, <3>6
  <2>3. CASE Start \/ Stop \/ Work \/ Die
    <3>1. ledger' = ledger
      BY <2>3, LedgerSteps DEF Mask, Keep
    <3>2. request' = request \/ request' = Store!NoRequest
      <4>1. op' = op \/ op' = NoOp \/ op' = [NoOp EXCEPT !.kind = "stop"]
        BY <2>3 DEF Start, control, Stop, Work, WriteMeta, ApplyInsert, ApplyDelete,
             FlushCapture, FlushCreate, FlushPublish, TruncateMeta, MergeCreate, MergePublish,
             MergeDropAll, RemoveOldest, Exit, Return, Die, Kill, KillInWrite, PowerOff
      <4> QED
        BY <2>1, <4>1 DEF NoOp, Store!NoRequest
    <3> QED
      BY <2>1, <3>1, <3>2 DEF Store!Next, Store!Answer
  <2> QED
    BY <2>2, <2>3 DEF LedgerNext, Next
<1>3. UNCHANGED <<vars, ledgerVars>> /\ ContentIsLedger /\ ContentIsLedger'
        => UNCHANGED <<Content, request>>
  BY DEF ContentIsLedger, vars, control, ledgerVars
<1> QED
  BY <1>1, <1>2, <1>3, ContentInvariant, EngineInvariant, NoKillsLeaveFilesIntact, PTL
     DEF LedgerSpec, ImplementsVectorStore, Store!Spec

\* Without kills a merge that takes a tombstone away leaves no row of the id: it
\* has merged every segment there is.
THEOREM ClearedIdsStayGone ==
  ASSUME KillPoints = {}, MergeThreshold > 1
  PROVE  LedgerSpec => ClearedIdsAreGone
<1>1. EngineInv /\ RowInv /\ CountFacts /\ GoneFacts /\ Graceful /\ [Next]_vars
        => [(pc \in {"merge", "mpublish"}) =>
              \A i \in tombstones \ tombstones' : Holding(segments', i) = {}]_vars
  <2> SUFFICES ASSUME EngineInv, RowInv, CountFacts, GoneFacts, Graceful, [Next]_vars,
                      pc \in {"merge", "mpublish"}, NEW i \in tombstones \ tombstones'
               PROVE  Holding(segments', i) = {}
    OBVIOUS
  <2>1. MergeCreate \/ MergePublish \/ MergeDropAll
    <3>1. tombstones' # tombstones /\ ~Die
      BY NoKillsLeaveFilesIntact
    <3>2. Next
      BY <3>1 DEF vars, memory
    <3> QED
      BY <3>1, <3>2 DEF Next, Start, Request, Insert, Delete, Append, Stop, Work, WriteMeta,
         ApplyInsert, ApplyDelete, FlushCapture, FlushCreate, FlushPublish, TruncateMeta,
         RemoveOldest, Exit
  <2>2. CASE MergeCreate
    BY <2>2 DEF MergeCreate, memory
  <2>3. CASE MergePublish
    <3>1. segments' = {pending} /\ pc = "mpublish"
      BY <2>3 DEF MergePublish, CountFacts, Graceful
    <3>2. i \in Ids
      BY DEF EngineInv, TypeInv, TypeOK
    <3>3. i \in Gone
      BY <3>1, <3>2 DEF RowInv, TombFacts, Current, Gone, Up, Graceful
    <3> QED
      BY <3>1, <3>3 DEF GoneFacts, Graceful, Holding
  <2>4. CASE MergeDropAll
    <3>1. /\ pc = "merge" /\ segments' = segments \ merging'
          /\ IsOldest(merging', segments, MergeThreshold)
      BY <2>4 DEF MergeDropAll
    <3>2. /\ IsFiniteSet(segments) /\ MergeThreshold \in Nat
          /\ Cardinality(segments) = MergeThreshold
      BY <3>1, EngineAssumption DEF EngineInv, TypeInv, Finite, CountFacts, Graceful
    <3>3. segments' = {}
      BY <3>1, <3>2, OldestAreAll
    <3> QED
      BY <3>3 DEF Holding
  <2> QED
    BY <2>1, <2>2, <2>3, <2>4
<1>2. [LedgerNext]_<<vars, ledgerVars>> => [Next]_vars
  BY DEF LedgerNext
<1> QED
  BY <1>1, <1>2, EngineInvariant, RowInvariant, CountInvariant, GoneInvariant,
     GracefulInvariant, NoKillsLeaveFilesIntact, PTL DEF LedgerSpec, ClearedIdsAreGone

-----------------------------------------------------------------------------
(***************************************************************************)
(* The answers of a search of EngineSearch, and what health() counts.      *)
(*                                                                         *)
(* An engine without kills serves under each id the vector in the ledger   *)
(* (Serves), so what its memtable and its segments do not hide is current, *)
(* no id is found twice, and a live row is cut off only by rows beside it. *)
(***************************************************************************)

\* The hits of distinct ids are as many as the ids.
LEMMA HitsOfIds ==
  ASSUME NEW rows, NEW ids \in SUBSET Ids
  PROVE  /\ IsFiniteSet(HitsOf(rows, ids))
         /\ Cardinality(HitsOf(rows, ids)) = Cardinality(ids)
<1> DEFINE f == [i \in ids |-> [id |-> i, dist |-> Distance[rows[i]]]]
<1>1. IsFiniteSet(ids)
  BY SearchAssumption, FS_Subset
<1>2. f \in [ids -> HitsOf(rows, ids)]
  BY DEF HitsOf
<1>3. \A i, j \in ids : f[i] = f[j] => i = j
  OBVIOUS
<1>4. \A h \in HitsOf(rows, ids) : \E i \in ids : f[i] = h
  BY DEF HitsOf
<1>5. f \in Bijection(ids, HitsOf(rows, ids))
  <2> HIDE DEF f
  <2>1. f \in Injection(ids, HitsOf(rows, ids))
    BY <1>2, <1>3 DEF Injection, IsInjective
  <2>2. f \in Surjection(ids, HitsOf(rows, ids))
    BY <1>2, <1>4 DEF Surjection
  <2> QED
    BY <2>1, <2>2 DEF Bijection
<1> QED
  BY <1>1, <1>5, FS_Bijection DEF ExistsBijection

\* A top-k of no more than k hits is all of them.
LEMMA NearestOfFew ==
  ASSUME NEW k \in Nat, NEW hits, IsFiniteSet(hits), Cardinality(hits) <= k,
         NEW ans, IsNearest(ans, hits, k)
  PROVE  ans = hits
<1>1. ans \subseteq hits /\ (ans = hits \/ Cardinality(ans) = k)
  BY DEF IsNearest
<1>2. Cardinality(ans) <= Cardinality(hits) /\ Cardinality(hits) \in Nat
        /\ (Cardinality(hits) = Cardinality(ans) => hits = ans)
  BY <1>1, FS_Subset, FS_CardinalityType
<1> QED
  BY <1>1, <1>2

\* When k hits are no farther than d, so are all of the answer, which is full.
LEMMA NothingFarther ==
  ASSUME NEW k \in Nat, NEW hits, IsFiniteSet(hits), \A h \in hits : h.dist \in Nat,
         NEW near \in SUBSET hits, Cardinality(near) = k,
         NEW d \in Nat, \A h \in near : h.dist <= d,
         NEW ans, IsNearest(ans, hits, k)
  PROVE  Cardinality(ans) = k /\ \A a \in ans : a.dist <= d
<1>1. IsFiniteSet(ans) /\ Cardinality(ans) <= k /\ ans \subseteq hits
  BY FS_Subset DEF IsNearest
<1>2. CASE near \subseteq ans
  <2>1. Cardinality(near) <= Cardinality(ans) /\ Cardinality(ans) \in Nat
    BY <1>1, <1>2, FS_Subset, FS_CardinalityType
  <2>2. near = ans
    BY <1>1, <1>2, <2>1, FS_Subset
  <2> QED
    BY <2>2
<1>3. CASE ~(near \subseteq ans)
  <2>1. PICK n \in near : n \notin ans
    BY <1>3
  <2>2. Cardinality(ans) = k /\ \A a \in ans : a.dist <= n.dist
    BY <2>1 DEF IsNearest
  <2>3. n.dist \in Nat /\ n.dist <= d /\ \A a \in ans : a.dist \in Nat
    BY <1>1, <2>1
  <2> QED
    BY <2>2, <2>3
<1> QED
  BY <1>2, <1>3

\* A row that a source holds and does not hide is in the answer, or nothing in the
\* answer is farther, or the source has cut it off behind rows it hides.
LEMMA FoundOrCut ==
  ASSUME NEW k \in Nat, NEW rows, NEW ids \in SUBSET Ids, NEW i \in ids, NEW hidden, i \notin hidden,
         \A h \in HitsOf(rows, ids) : h.dist \in Nat,
         NEW reply, IsNearest(reply, HitsOf(rows, ids), k),
         NEW hits, IsFiniteSet(hits), \A h \in hits : h.dist \in Nat,
         Unhidden(reply, hidden) \subseteq hits,
         NEW ans, IsNearest(ans, hits, k),
         rows[i] = ledger[i], ~Crowded(HitsOf(rows, ids), i, k, hidden)
  PROVE  \/ LiveHit(i) \in ans
         \/ Cardinality(ans) = k /\ \A h \in ans : h.dist <= Distance[ledger[i]]
<1> DEFINE g == LiveHit(i)
<1>1. /\ g \in HitsOf(rows, ids) /\ g.id = i /\ g.dist = Distance[ledger[i]] /\ g.dist \in Nat
      /\ \A h \in HitsOf(rows, ids) : h.id = i => h = g
  BY DEF HitsOf, LiveHit
<1>2. CASE g \in reply
  <2>1. g \in hits
    BY <1>1, <1>2 DEF Unhidden
  <2> QED
    BY <1>1, <2>1 DEF IsNearest
<1>3. CASE g \notin reply
  <2>1. Cardinality(reply) = k /\ \A h \in reply : h.dist <= g.dist
    BY <1>1, <1>3 DEF IsNearest
  <2> DEFINE nearer == {h \in HitsOf(rows, ids) : h.id # i /\ h.dist <= Distance[ledger[i]]}
  <2>2. reply \subseteq nearer
    BY <1>1, <1>3, <2>1 DEF IsNearest
  <2>3. k <= Cardinality(nearer)
    <3>1. IsFiniteSet(nearer)
      BY HitsOfIds, FS_Subset
    <3> QED
      BY <2>1, <2>2, <3>1, FS_Subset
  <2>4. \A h \in nearer : h.id \notin hidden
    BY <2>3 DEF Crowded
  <2>5. reply \subseteq hits
    BY <2>2, <2>4 DEF Unhidden
  <2> QED
    BY <1>1, <2>1, <2>5, NothingFarther
<1> QED
  BY <1>2, <1>3

-----------------------------------------------------------------------------
\* An engine that a search finds: idle, and every id served as the ledger says.
Serves ==
  /\ pc = "idle" /\ EngineInv /\ RowInv
  /\ \A i \in Ids : ServedHits(i) = IF ledger[i] = None THEN {} ELSE {ledger[i]}

\* The newest rows of an id.
Top(i) == {s \in Holding(segments, i) : \A t \in Holding(segments, i) : t.snap <= s.snap}

LEMMA ServesTypes ==
  ASSUME Serves
  PROVE  /\ segments \subseteq Segment /\ IsFiniteSet(segments)
         /\ memtable \in [Ids -> Entry] /\ lastLsn \in Nat /\ tombstones \subseteq Ids
         /\ \A s \in segments : s.snap <= lastLsn
         /\ \A i \in Ids : memtable[i].lsn <= lastLsn
         /\ VisibleSegments(lastLsn) = segments
         /\ ledger \in Rows
BY DEF Serves, EngineInv, RowInv, TypeInv, TypeOK, Finite, LogInv, Up, VisibleSegments

\* What a source that does not hide an id has under it is the vector in the ledger.
LEMMA SourcesAreCurrent ==
  ASSUME Serves, NEW i \in Ids
  PROVE  /\ i \in DeletedIds(lastLsn) => ledger[i] = None
         /\ i \in MemIds(lastLsn) \ DeletedIds(lastLsn) =>
              memtable[i].vec = ledger[i] /\ ledger[i] # None
         /\ i \notin MemIds(lastLsn) \cup DeletedIds(lastLsn) =>
              /\ ledger[i] # None <=> Top(i) # {}
              /\ \A s \in Top(i) : s.rows[i] = ledger[i]
<1>1. /\ ServedHits(i) = Hits(memtable, segments, tombstones, lastLsn, i)
      /\ ServedHits(i) = IF ledger[i] = None THEN {} ELSE {ledger[i]}
  BY DEF Serves, ServedHits, Hidden, Held, Unlisted
<1>2. /\ \A s \in segments : s.snap <= lastLsn
      /\ memtable[i].lsn \in Nat /\ memtable[i].lsn <= lastLsn
  BY ServesTypes DEF Entry
<1>3. CASE i \in tombstones
  <2>1. Hits(memtable, segments, tombstones, lastLsn, i) = {}
    BY <1>3, NoHits
  <2>2. ledger[i] = None
    BY <1>1, <2>1
  <2> QED
    BY <1>3, <2>2 DEF DeletedIds
<1>4. CASE i \notin tombstones /\ memtable[i].lsn > 0
  <2>1. Hits(memtable, segments, tombstones, lastLsn, i) = {memtable[i].vec} \ {None}
    BY <1>2, <1>4, MemtableHits
  <2>2. InMem(memtable, lastLsn, i)
    BY <1>2, <1>4 DEF InMem
  <2>3. CASE memtable[i].vec = None
    <3>1. ledger[i] = None
      BY <1>1, <2>1, <2>3
    <3>2. i \in DeletedIds(lastLsn)
      BY <2>2, <2>3 DEF DeletedIds
    <3>3. i \notin MemIds(lastLsn)
      BY <2>3 DEF MemIds
    <3> QED
      BY <3>1, <3>2, <3>3
  <2>4. CASE memtable[i].vec # None
    <3>1. ledger[i] = memtable[i].vec /\ ledger[i] # None
      <4>1. {memtable[i].vec} \ {None} = {memtable[i].vec}
        BY <2>4
      <4> QED
        BY <1>1, <2>1, <2>4, <4>1
    <3>2. i \notin DeletedIds(lastLsn)
      BY <1>4, <2>4 DEF DeletedIds
    <3>3. i \in MemIds(lastLsn)
      BY <2>2, <2>4 DEF MemIds
    <3> QED
      BY <3>1, <3>2, <3>3
  <2> QED
    BY <2>3, <2>4
<1>5. CASE i \notin tombstones /\ memtable[i].lsn = 0
  <2>1. {s \in segments : s.snap <= lastLsn} = segments
    BY <1>2
  <2>2. Hits(memtable, segments, tombstones, lastLsn, i) = {s.rows[i] : s \in Top(i)}
    <3>1. ~InMem(memtable, lastLsn, i)
      BY <1>5 DEF InMem
    <3> QED
      BY <1>5, <2>1, <3>1 DEF Hits, Top
  <2>3. i \notin MemIds(lastLsn) /\ i \notin DeletedIds(lastLsn)
    BY <1>5 DEF MemIds, DeletedIds, InMem
  <2> QED
    BY <1>1, <2>2, <2>3
<1> QED
  BY <1>2, <1>3, <1>4, <1>5

\* What a search has to merge: the hits of the memtable and, taken out of the reply
\* of each segment, those that are not hidden.
Found(reply, mem) ==
  Unhidden(mem, DeletedIds(lastLsn))
    \cup UNION {Unhidden(reply[s], HiddenIds(s, lastLsn)) : s \in segments}

LEMMA AnswerParts ==
  ASSUME Serves, NEW k, NEW nprobe, NEW ans \in Answers(k, nprobe)
  PROVE  \E reply, mem :
           /\ mem \in MemTableSearch(k, lastLsn)
           /\ \A s \in segments : reply[s] \in IndexSearch(s.rows, k, nprobe)
           /\ IsNearest(ans, BestHits(Found(reply, mem)), k)
<1>1. PICK found \in SegmentAnswers(k, nprobe, lastLsn), mem \in MemTableSearch(k, lastLsn) :
        ans \in MergedResults(found \cup {mem}, k, DeletedIds(lastLsn))
  BY DEF Answers
<1>2. VisibleSegments(lastLsn) = segments
  BY ServesTypes
<1>3. PICK reply : /\ \A s \in segments : reply[s] \in IndexSearch(s.rows, k, nprobe)
                   /\ found = {Unhidden(reply[s], HiddenIds(s, lastLsn)) : s \in segments}
  BY <1>2 DEF SegmentAnswers
<1>4. \A s : DeletedIds(lastLsn) \subseteq HiddenIds(s, lastLsn)
  BY DEF HiddenIds
<1>5. Unhidden(UNION (found \cup {mem}), DeletedIds(lastLsn)) = Found(reply, mem)
  BY <1>3, <1>4 DEF Unhidden, Found
<1> QED
  BY <1>1, <1>3, <1>5 DEF MergedResults, Nearest

\* All of it is current.
LEMMA FoundIsCurrent ==
  ASSUME Serves, NEW k, NEW nprobe, NEW reply, NEW mem, mem \in MemTableSearch(k, lastLsn),
         \A s \in segments : reply[s] \in IndexSearch(s.rows, k, nprobe),
         NEW h \in Found(reply, mem)
  PROVE  h.id \in Live /\ h = LiveHit(h.id)
<1>1. CASE h \in Unhidden(mem, DeletedIds(lastLsn))
  <2>1. PICK i \in MemIds(lastLsn) : h = [id |-> i, dist |-> Distance[memtable[i].vec]]
    <3>1. h \in HitsOf([i \in Ids |-> memtable[i].vec], MemIds(lastLsn))
      BY <1>1 DEF Unhidden, MemTableSearch, Nearest
    <3> QED
      BY <3>1 DEF HitsOf, MemIds
  <2>2. i \in Ids /\ i \notin DeletedIds(lastLsn)
    BY <1>1, <2>1 DEF Unhidden, MemIds
  <2>3. memtable[i].vec = ledger[i] /\ ledger[i] # None
    BY <2>1, <2>2, SourcesAreCurrent
  <2> QED
    BY <2>1, <2>2, <2>3 DEF Live, LiveHit
<1>2. ASSUME NEW s \in segments, h \in Unhidden(reply[s], HiddenIds(s, lastLsn))
      PROVE  h.id \in Live /\ h = LiveHit(h.id)
  <2>1. PICK i \in RowIds(s.rows) : h = [id |-> i, dist |-> Distance[s.rows[i]]]
    <3>1. PICK ids \in Probed(s.rows, nprobe) : reply[s] \in Nearest(HitsOf(s.rows, ids), k)
      BY <1>2 DEF IndexSearch
    <3>2. ids \subseteq RowIds(s.rows)
      BY <3>1 DEF Probed
    <3> QED
      BY <1>2, <3>1, <3>2 DEF Unhidden, Nearest, HitsOf
  <2>2. i \in Ids /\ s \in Holding(segments, i) /\ i \notin HiddenIds(s, lastLsn)
    BY <1>2, <2>1 DEF RowIds, Holding, Unhidden
  <2>3. i \notin MemIds(lastLsn) \cup DeletedIds(lastLsn)
    BY <2>2 DEF HiddenIds
  <2>4. s \in Top(i)
    <3>1. \A t \in Holding(segments, i) : ~(s.snap < t.snap)
      BY <2>2, ServesTypes DEF HiddenIds
    <3>2. \A t \in Holding(segments, i) : t.snap \in Nat
      BY ServesTypes DEF Holding, Segment
    <3> QED
      BY <2>2, <3>1, <3>2 DEF Top
  <2>5. s.rows[i] = ledger[i] /\ ledger[i] # None
    BY <2>2, <2>3, <2>4, SourcesAreCurrent
  <2> QED
    BY <2>1, <2>2, <2>5 DEF Live, LiveHit
<1> QED
  BY <1>1, <1>2 DEF Found

\* So merge_results has nothing to choose between versions of an id.
LEMMA FoundHits ==
  ASSUME Serves, NEW found, \A h \in found : h.id \in Live /\ h = LiveHit(h.id)
  PROVE  /\ BestHits(found) = found /\ IsFiniteSet(found)
         /\ \A h \in found : h.dist \in Nat
<1>1. \A h \in found : h.dist \in Nat
  <2>1. \A i \in Live : Distance[ledger[i]] \in Nat
    BY ServesTypes, SearchAssumption DEF Live, Rows
  <2> QED
    BY <2>1 DEF LiveHit
<1>2. found \subseteq HitsOf(ledger, Ids)
  BY DEF LiveHit, Live, HitsOf
<1>3. IsFiniteSet(found)
  BY <1>2, HitsOfIds, FS_Subset
<1>4. BestHits(found) = found
  BY <1>1 DEF BestHits
<1> QED
  BY <1>1, <1>3, <1>4

LEMMA CurrentAnswers ==
  ASSUME Serves
  PROVE  AnswersAreCurrent
<1> SUFFICES ASSUME NEW r \in Requests, NEW ans \in Answers(r[1], r[2]), NEW h \in ans
             PROVE  h.id \in Live /\ h = LiveHit(h.id)
  BY DEF AnswersAreCurrent
<1>1. PICK reply, mem :
           /\ mem \in MemTableSearch(r[1], lastLsn)
           /\ \A s \in segments : reply[s] \in IndexSearch(s.rows, r[1], r[2])
           /\ IsNearest(ans, BestHits(Found(reply, mem)), r[1])
  BY AnswerParts
<1>2. h \in Found(reply, mem)
  BY <1>1 DEF IsNearest, BestHits
<1> QED
  BY <1>1, <1>2, FoundIsCurrent

\* A segment with a newest row of an id that the memtable does not know shows it.
LEMMA TopIsShown ==
  ASSUME Serves, NEW i \in Ids, i \notin MemIds(lastLsn) \cup DeletedIds(lastLsn),
         NEW s \in Top(i)
  PROVE  s \in segments /\ i \in RowIds(s.rows) /\ i \notin HiddenIds(s, lastLsn)
<1>1. s \in Holding(segments, i) /\ \A t \in Holding(segments, i) : t.snap <= s.snap
  BY DEF Top
<1>2. \A t \in Holding(segments, i) : t.snap \in Nat
  BY ServesTypes DEF Holding, Segment
<1>3. \A t \in Holding(segments, i) : ~(s.snap < t.snap)
  BY <1>1, <1>2
<1> QED
  BY <1>1, <1>3, ServesTypes DEF HiddenIds, Holding, RowIds

\* Every hit has a distance.
LEMMA HitDistances ==
  ASSUME NEW rows, NEW ids, \A i \in ids : rows[i] \in Vectors
  PROVE  \A h \in HitsOf(rows, ids) : h.dist \in Nat
BY SearchAssumption DEF HitsOf

LEMMA SourceDistances ==
  ASSUME Serves
  PROVE  /\ \A h \in HitsOf([j \in Ids |-> memtable[j].vec], MemIds(lastLsn)) : h.dist \in Nat
         /\ \A s \in segments : \A h \in HitsOf(s.rows, RowIds(s.rows)) : h.dist \in Nat
<1>1. \A j \in MemIds(lastLsn) : [k \in Ids |-> memtable[k].vec][j] \in Vectors
  BY ServesTypes DEF MemIds, Entry
<1>2. ASSUME NEW s \in segments
      PROVE  \A j \in RowIds(s.rows) : s.rows[j] \in Vectors
  BY ServesTypes DEF Segment, Rows, RowIds
<1> QED
  BY <1>1, <1>2, HitDistances

LEMMA AnswersMissBehindHidden ==
  ASSUME Serves
  PROVE  MissesOnlyBehindHidden
<1> SUFFICES ASSUME NEW r \in Requests, NEW ans \in Answers(r[1], r[2]),
                    NEW i \in Live \ masked, ~CutOff(i, r[1], r[2])
             PROVE  \/ LiveHit(i) \in ans
                    \/ Cardinality(ans) = r[1] /\ \A h \in ans : h.dist <= Distance[ledger[i]]
  BY DEF MissesOnlyBehindHidden
<1> DEFINE memRows == [j \in Ids |-> memtable[j].vec]
<1>1. r[1] \in Nat /\ i \in Ids /\ ledger[i] # None
  BY SearchAssumption DEF Live
<1>2. PICK reply, mem :
           /\ mem \in MemTableSearch(r[1], lastLsn)
           /\ \A s \in segments : reply[s] \in IndexSearch(s.rows, r[1], r[2])
           /\ IsNearest(ans, BestHits(Found(reply, mem)), r[1])
  BY AnswerParts
<1>3. /\ IsNearest(ans, Found(reply, mem), r[1])
      /\ IsFiniteSet(Found(reply, mem)) /\ \A h \in Found(reply, mem) : h.dist \in Nat
  <2>1. \A h \in Found(reply, mem) : h.id \in Live /\ h = LiveHit(h.id)
    BY <1>2, FoundIsCurrent
  <2> QED
    BY <1>2, <2>1, FoundHits
<1>4. i \notin DeletedIds(lastLsn)
  BY <1>1, SourcesAreCurrent
<1>5. CASE i \in MemIds(lastLsn)
  <2>1. IsNearest(mem, HitsOf(memRows, MemIds(lastLsn)), r[1])
    BY <1>2 DEF MemTableSearch, Nearest
  <2>2. memRows[i] = ledger[i]
    BY <1>1, <1>4, <1>5, SourcesAreCurrent
  <2>3. ~Crowded(HitsOf(memRows, MemIds(lastLsn)), i, r[1], DeletedIds(lastLsn))
    BY <1>5 DEF CutOff
  <2>4. Unhidden(mem, DeletedIds(lastLsn)) \subseteq Found(reply, mem)
    BY DEF Found
  <2>5. \A h \in HitsOf(memRows, MemIds(lastLsn)) : h.dist \in Nat
    BY SourceDistances
  <2>6. MemIds(lastLsn) \subseteq Ids
    BY DEF MemIds
  <2> HIDE DEF memRows
  <2> QED
    BY <1>1, <1>3, <1>4, <1>5, <2>1, <2>2, <2>3, <2>4, <2>5, <2>6, FoundOrCut
<1>6. CASE i \notin MemIds(lastLsn)
  <2>1. PICK s \in Top(i) : s.rows[i] = ledger[i]
    BY <1>1, <1>4, <1>6, SourcesAreCurrent
  <2>2. s \in segments /\ i \in RowIds(s.rows) /\ i \notin HiddenIds(s, lastLsn)
        /\ s \in Holding(segments, i)
    BY <1>1, <1>4, <1>6, TopIsShown DEF Top
  <2>3. IsExact(s.rows, r[2])
        /\ ~Crowded(HitsOf(s.rows, RowIds(s.rows)), i, r[1], HiddenIds(s, lastLsn))
    BY <2>2 DEF CutOff
  <2>4. IsNearest(reply[s], HitsOf(s.rows, RowIds(s.rows)), r[1])
    BY <1>2, <2>2, <2>3 DEF IndexSearch, Probed, Nearest
  <2>5. Unhidden(reply[s], HiddenIds(s, lastLsn)) \subseteq Found(reply, mem)
    BY <2>2 DEF Found
  <2>6. \A h \in HitsOf(s.rows, RowIds(s.rows)) : h.dist \in Nat
    BY <2>2, SourceDistances
  <2>7. RowIds(s.rows) \subseteq Ids
    BY DEF RowIds
  <2> QED
    BY <1>1, <1>3, <2>1, <2>2, <2>3, <2>4, <2>5, <2>6, <2>7, FoundOrCut
<1> QED
  BY <1>5, <1>6

-----------------------------------------------------------------------------
\* When everything is asked for and every cell is probed, all live rows are found.
LEMMA EverythingIsFound ==
  ASSUME Serves, NEW k \in Nat, NEW nprobe \in Nat, Cardinality(Ids) <= k, NList <= nprobe,
         NEW ans \in Answers(k, nprobe)
  PROVE  ans = HitsOf(ledger, Live)
<1> DEFINE memRows == [j \in Ids |-> memtable[j].vec]
<1>1. PICK reply, mem :
           /\ mem \in MemTableSearch(k, lastLsn)
           /\ \A s \in segments : reply[s] \in IndexSearch(s.rows, k, nprobe)
           /\ IsNearest(ans, BestHits(Found(reply, mem)), k)
  BY AnswerParts
<1>2. \A h \in Found(reply, mem) : h.id \in Live /\ h = LiveHit(h.id)
  BY <1>1, FoundIsCurrent
<1>3. IsNearest(ans, Found(reply, mem), k)
  BY <1>1, <1>2, FoundHits
<1>4. ASSUME NEW rows, NEW ids \in SUBSET Ids
      PROVE  /\ IsFiniteSet(HitsOf(rows, ids)) /\ Cardinality(HitsOf(rows, ids)) <= k
  <2>1. Cardinality(ids) <= Cardinality(Ids) /\ Cardinality(ids) \in Nat
        /\ Cardinality(Ids) \in Nat
    BY SearchAssumption, FS_Subset, FS_CardinalityType
  <2> QED
    BY <2>1, HitsOfIds
<1>5. mem = HitsOf(memRows, MemIds(lastLsn))
  <2>1. IsNearest(mem, HitsOf(memRows, MemIds(lastLsn)), k)
    BY <1>1 DEF MemTableSearch, Nearest
  <2>2. MemIds(lastLsn) \subseteq Ids
    BY DEF MemIds
  <2> HIDE DEF memRows
  <2> QED
    BY <1>4, <2>1, <2>2, NearestOfFew
<1>6. ASSUME NEW s \in segments
      PROVE  reply[s] = HitsOf(s.rows, RowIds(s.rows))
  <2>1. RowIds(s.rows) \subseteq Ids /\ Cardinality(RowIds(s.rows)) \in Nat
    BY SearchAssumption, FS_Subset, FS_CardinalityType DEF RowIds
  <2>2. IsExact(s.rows, nprobe)
    BY <2>1, SearchAssumption DEF IsExact, Cells
  <2>3. IsNearest(reply[s], HitsOf(s.rows, RowIds(s.rows)), k)
    BY <1>1, <2>2 DEF IndexSearch, Probed, Nearest
  <2> QED
    BY <1>4, <2>1, <2>3, NearestOfFew
<1>7. ASSUME NEW i \in Live
      PROVE  LiveHit(i) \in Found(reply, mem)
  <2>1. i \in Ids /\ ledger[i] # None /\ i \notin DeletedIds(lastLsn)
    BY SourcesAreCurrent DEF Live
  <2>2. CASE i \in MemIds(lastLsn)
    <3>1. memtable[i].vec = ledger[i]
      BY <2>1, <2>2, SourcesAreCurrent
    <3>2. LiveHit(i) \in mem
      BY <1>5, <2>1, <2>2, <3>1 DEF HitsOf, LiveHit
    <3> QED
      BY <2>1, <3>2 DEF Found, Unhidden, LiveHit
  <2>3. CASE i \notin MemIds(lastLsn)
    <3>1. PICK s \in Top(i) : s.rows[i] = ledger[i]
      BY <2>1, <2>3, SourcesAreCurrent
    <3>2. s \in segments /\ i \in RowIds(s.rows) /\ i \notin HiddenIds(s, lastLsn)
      BY <2>1, <2>3, TopIsShown
    <3>3. LiveHit(i) \in reply[s]
      BY <1>6, <3>1, <3>2 DEF HitsOf, LiveHit
    <3>4. LiveHit(i) \in Unhidden(reply[s], HiddenIds(s, lastLsn))
      BY <3>2, <3>3 DEF Unhidden, LiveHit
    <3> QED
      BY <3>2, <3>4 DEF Found
  <2> QED
    BY <2>2, <2>3
<1>8. Found(reply, mem) = HitsOf(ledger, Live)
  <2>1. HitsOf(ledger, Live) = {LiveHit(i) : i \in Live}
    BY DEF HitsOf, LiveHit
  <2> QED
    BY <1>2, <1>7, <2>1
<1> QED
  BY <1>3, <1>4, <1>8, NearestOfFew DEF Live

\* What health() counts.
LEMMA CountedIds ==
  ASSUME Serves
  PROVE  ((UNION {RowIds(s.rows) : s \in segments}) \cup MemIds(lastLsn))
           \ DeletedIds(lastLsn) = Live
<1> DEFINE stored == UNION {RowIds(s.rows) : s \in segments}
           counted == (stored \cup MemIds(lastLsn)) \ DeletedIds(lastLsn)
<1>a. \A i : i \in stored <=> \E s \in segments : i \in RowIds(s.rows)
  OBVIOUS
<1>b. MemIds(lastLsn) \subseteq Ids /\ \A rows : RowIds(rows) \subseteq Ids
  BY DEF MemIds, RowIds
<1> SUFFICES counted = Live
  OBVIOUS
<1> HIDE DEF stored
<1>1. ASSUME NEW i \in counted
      PROVE  i \in Live
  <2>1. i \in Ids /\ i \notin DeletedIds(lastLsn)
    BY <1>a, <1>b
  <2>2. CASE i \in MemIds(lastLsn)
    BY <2>1, <2>2, SourcesAreCurrent DEF Live
  <2>3. CASE i \notin MemIds(lastLsn)
    <3>1. Holding(segments, i) # {}
      <4>1. PICK s \in segments : i \in RowIds(s.rows)
        BY <1>a, <2>3
      <4> QED
        BY <4>1 DEF RowIds, Holding
    <3>2. \E s \in Holding(segments, i) : \A t \in Holding(segments, i) : t.snap <= s.snap
      <4>1. Holding(segments, i) \subseteq Segment /\ IsFiniteSet(Holding(segments, i))
        BY ServesTypes, FS_Subset DEF Holding
      <4>2. PICK s \in Holding(segments, i) : \A t \in Holding(segments, i) : ~Before(s, t)
        BY <3>1, <4>1, NewestSegment
      <4> QED
        BY <4>1, <4>2 DEF Before, Segment
    <3>3. Top(i) # {}
      BY <3>2 DEF Top
    <3> QED
      BY <2>1, <2>3, <3>3, SourcesAreCurrent DEF Live
  <2> QED
    BY <2>2, <2>3
<1>2. ASSUME NEW i \in Live
      PROVE  i \in counted
  <2>1. i \in Ids /\ ledger[i] # None /\ i \notin DeletedIds(lastLsn)
    BY SourcesAreCurrent DEF Live
  <2>2. i \notin MemIds(lastLsn) => \E s \in segments : i \in RowIds(s.rows)
    <3> SUFFICES ASSUME i \notin MemIds(lastLsn) PROVE \E s \in segments : i \in RowIds(s.rows)
      OBVIOUS
    <3>1. PICK s : s \in Top(i)
      BY <2>1, SourcesAreCurrent
    <3> QED
      BY <2>1, <3>1, TopIsShown
  <2> QED
    BY <1>a, <2>1, <2>2
<1> HIDE DEF counted
<1> QED
  BY <1>1, <1>2

\* Without a segment, the rows of the memtable are the live ids.
LEMMA MemtableAlone ==
  ASSUME Serves, segments = {}
  PROVE  LiveEntries(memtable) = Live
<1>1. ASSUME NEW i \in Ids, memtable[i].vec # None
      PROVE  i \in Live
  <2>1. memtable[i] = ReplayedEntry(i)
    BY DEF Serves, EngineInv, ReplayFacts, ReplayedMemtable
  <2>2. ReplayedEntry(i).lsn > 0
    BY <1>1, <2>1, EntryZero DEF Serves, EngineInv
  <2> QED
    BY <1>1, <2>1, <2>2 DEF Serves, RowInv, DiskFacts, Live
<1>2. ASSUME NEW i \in Live
      PROVE  i \in Ids /\ memtable[i].vec # None
  <2>1. i \in Ids /\ Top(i) = {} /\ i \notin DeletedIds(lastLsn) /\ ledger[i] # None
    BY SourcesAreCurrent DEF Live, Top, Holding
  <2>2. i \in MemIds(lastLsn)
    BY <2>1, SourcesAreCurrent
  <2> QED
    BY <2>1, <2>2 DEF MemIds
<1> QED
  BY <1>1, <1>2 DEF LiveEntries, RowIds

LEMMA HealthOfServing ==
  ASSUME Serves
  PROVE  HealthCountsFoundRows
<1>1. Health.ntotal = Cardinality(Live)
  BY CountedIds DEF Health, NTotal
<1>2. ASSUME NEW r \in Requests, Cardinality(Ids) <= r[1], NList <= r[2],
             NEW ans \in Answers(r[1], r[2])
      PROVE  Health.ntotal = Cardinality(ans)
  <2>1. ans = HitsOf(ledger, Live)
    BY <1>2, SearchAssumption, EverythingIsFound
  <2> QED
    BY <1>1, <2>1, HitsOfIds DEF Live
<1>3. Health.segments = 0 => Health.ntotal = Health.memtableSize
  <2>1. Cardinality(segments) = 0 => segments = {}
    BY ServesTypes, FS_EmptySet
  <2> QED
    BY <1>1, <2>1, MemtableAlone DEF Health
<1> QED
  BY <1>2, <1>3 DEF HealthCountsFoundRows

-----------------------------------------------------------------------------
\* An idle engine that is never killed serves every id as the ledger says.
THEOREM IdleEngineServes ==
  ASSUME KillPoints = {}, MergeThreshold > 1
  PROVE  LedgerSpec => [](pc = "idle" => Serves)
<1>1. EngineInv /\ RowInv /\ GoneFacts /\ Graceful => (pc = "idle" => Serves)
  <2> SUFFICES ASSUME EngineInv, RowInv, GoneFacts, Graceful, pc = "idle",
                      NEW i \in Ids
               PROVE  ServedHits(i) = IF ledger[i] = None THEN {} ELSE {ledger[i]}
    BY DEF Serves
  <2>1. masked = {} /\ ~cutMerge /\ Up
    BY DEF Graceful, Up
  <2>2. CASE ledger[i] = None
    BY <2>1, <2>2, GoneIsNotServed DEF Gone
  <2>3. CASE ledger[i] # None
    BY <2>1, <2>3, CurrentIsServed DEF Current
  <2> QED
    BY <2>2, <2>3
<1> QED
  BY <1>1, EngineInvariant, RowInvariant, GoneInvariant, GracefulInvariant,
     NoKillsLeaveFilesIntact, PTL

\* Every hit of every search is the vector written last under a live id.
THEOREM SearchAnswersAreCurrent ==
  ASSUME KillPoints = {}, MergeThreshold > 1
  PROVE  LedgerSpec => []AnswersAreCurrent
<1>1. (pc = "idle" => Serves) => AnswersAreCurrent
  BY CurrentAnswers DEF AnswersAreCurrent
<1> QED
  BY <1>1, IdleEngineServes, PTL

\* A search misses a live row only where its index or rows it hides have cut it off.
THEOREM SearchMissesAreExplained ==
  ASSUME KillPoints = {}, MergeThreshold > 1
  PROVE  LedgerSpec => []MissesOnlyBehindHidden
<1>1. (pc = "idle" => Serves) => MissesOnlyBehindHidden
  BY AnswersMissBehindHidden DEF MissesOnlyBehindHidden
<1> QED
  BY <1>1, IdleEngineServes, PTL

\* The ntotal of health() is what a search that asks for everything finds.
THEOREM HealthIsWhatSearchFinds ==
  ASSUME KillPoints = {}, MergeThreshold > 1
  PROVE  LedgerSpec => []HealthCountsFoundRows
<1>1. (pc = "idle" => Serves) => HealthCountsFoundRows
  BY HealthOfServing DEF HealthCountsFoundRows
<1> QED
  BY <1>1, IdleEngineServes, PTL

=============================================================================
