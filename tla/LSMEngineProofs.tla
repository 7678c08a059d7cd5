--------------------------- MODULE LSMEngineProofs ---------------------------
(***************************************************************************)
(* Proofs about LSMEngine: type correctness for any kills and any torn     *)
(* files, and, as long as the log and its meta file are not torn, that LSNs*)
(* stay fresh, that search sees every segment, and that every row that is  *)
(* only in memory can be replayed.                                         *)
(***************************************************************************)
EXTENDS LSMEngine, FiniteSetTheorems, TLAPS

Finite == IsFiniteSet(wal) /\ IsFiniteSet(dirs) /\ IsFiniteSet(segments)

TypeInv == TypeOK /\ Finite

-----------------------------------------------------------------------------
(***************************************************************************)
(* The choices the operators make.  The engine picks the newest record or  *)
(* segment of a finite set; the first lemma is what makes the choice mean  *)
(* something for sets of any size.                                         *)
(***************************************************************************)

\* Every non-empty subset of a finite set has an element below no other, for an
\* order R given as a set of pairs.
LEMMA FiniteMaximal ==
  ASSUME NEW S, IsFiniteSet(S), S # {},
         NEW R,
         \A x \in S : <<x, x>> \notin R,
         \A x, y, z \in S : <<x, y>> \in R /\ <<y, z>> \in R => <<x, z>> \in R
  PROVE  \E x \in S : \A y \in S : <<x, y>> \notin R
<1> DEFINE HasMax(T) == \E x \in T : \A y \in T : <<x, y>> \notin R
           Bad == {T \in FiniteSubsetsOf(S) : T # {} /\ ~HasMax(T)}
<1>1. SUFFICES ASSUME Bad # {} PROVE FALSE
  <2>1. S \in FiniteSubsetsOf(S)
    BY DEF FiniteSubsetsOf
  <2> QED BY <2>1
<1>2. PICK T \in Bad : \A U \in Bad : <<U, T>> \notin StrictSubsetOrdering(S)
  <2>1. Bad \subseteq FiniteSubsetsOf(S)
    OBVIOUS
  <2>2. IsWellFoundedOn(StrictSubsetOrdering(S), FiniteSubsetsOf(S))
    BY FS_StrictSubsetOrderingWellFounded
  <2> HIDE DEF Bad
  <2> QED BY <1>1, <2>1, <2>2, WFMin
<1>3. T \subseteq S /\ IsFiniteSet(T) /\ T # {} /\ ~HasMax(T)
  BY DEF FiniteSubsetsOf
<1>4. PICK x \in T : TRUE
  BY <1>3
<1> DEFINE U == T \ {x}
<1>5. U \in FiniteSubsetsOf(S)
  BY <1>3, FS_RemoveElement DEF FiniteSubsetsOf
<1>6. <<U, T>> \in StrictSubsetOrdering(S)
  BY <1>3, <1>4 DEF StrictSubsetOrdering
<1>7. U = {} \/ HasMax(U)
  BY <1>2, <1>5, <1>6
<1>8. HasMax(T)
  <2>1. CASE U = {}
    BY <1>3, <1>4, <2>1
  <2>2. CASE HasMax(U)
    <3>1. PICK m \in U : \A y \in U : <<m, y>> \notin R
      BY <2>2
    <3>2. CASE <<m, x>> \in R
      BY <1>3, <1>4, <3>1, <3>2
    <3>3. CASE <<m, x>> \notin R
      BY <1>3, <1>4, <3>1, <3>3
    <3> QED BY <3>2, <3>3
  <2> QED BY <1>7, <2>1, <2>2
<1> QED BY <1>3, <1>8

\* A set of records has one with the highest LSN.
LEMMA NewestRecord ==
  ASSUME NEW T, T \subseteq Record, IsFiniteSet(T), T # {}
  PROVE  \E r \in T : \A q \in T : q.lsn <= r.lsn
<1> DEFINE R == {p \in T \X T : p[1].lsn < p[2].lsn}
<1>1. \A x, y \in T : <<x, y>> \in R <=> x.lsn < y.lsn
  OBVIOUS
<1>2. \A x \in T : x.lsn \in Nat
  BY DEF Record
<1>3. \A x \in T : <<x, x>> \notin R
  BY <1>1, <1>2
<1>4. \A x, y, z \in T : <<x, y>> \in R /\ <<y, z>> \in R => <<x, z>> \in R
  BY <1>1, <1>2
<1>5. \E x \in T : \A y \in T : <<x, y>> \notin R
  <2> HIDE DEF R
  <2> QED BY <1>3, <1>4, FiniteMaximal
<1>6. PICK x \in T : \A y \in T : <<x, y>> \notin R
  BY <1>5
<1>7. \A y \in T : ~(x.lsn < y.lsn)
  BY <1>1, <1>6
<1> HIDE DEF R
<1> QED BY <1>2, <1>7

\* A set of segments has one that comes last in the list.
LEMMA NewestSegment ==
  ASSUME NEW T, T \subseteq Segment, IsFiniteSet(T), T # {}
  PROVE  \E s \in T : \A t \in T : ~Before(s, t)
<1> DEFINE R == {p \in T \X T : Before(p[1], p[2])}
<1>1. \A x, y \in T : <<x, y>> \in R <=> Before(x, y)
  OBVIOUS
<1>2. \A x \in T : x.snap \in Nat /\ x.uid \in Int
  BY DEF Segment
<1>3. \A x \in T : <<x, x>> \notin R
  BY <1>1, <1>2 DEF Before
<1>4. \A x, y, z \in T : <<x, y>> \in R /\ <<y, z>> \in R => <<x, z>> \in R
  BY <1>1, <1>2 DEF Before
<1>5. \E x \in T : \A y \in T : <<x, y>> \notin R
  <2> HIDE DEF R
  <2> QED BY <1>3, <1>4, FiniteMaximal
<1> QED BY <1>1, <1>5

\* merge() keeps a vector or nothing for every id.
LEMMA LatestRowType ==
  ASSUME NEW segs, segs \subseteq Segment, IsFiniteSet(segs), NEW i \in Ids
  PROVE  LatestRow(segs, i) \in Vectors \cup {None}
<1> DEFINE H == Holding(segs, i)
<1>1. CASE H = {}
  BY <1>1 DEF LatestRow
<1>2. CASE H # {}
  <2>1. H \subseteq segs /\ H \subseteq Segment
    BY DEF Holding
  <2>2. IsFiniteSet(H)
    BY <2>1, FS_Subset
  <2>3. \E s \in H : \A t \in H : ~Before(s, t)
    BY <1>2, <2>1, <2>2, NewestSegment
  <2> DEFINE m == CHOOSE s \in H : \A t \in H : ~Before(s, t)
  <2>4. m \in H
    BY <2>3
  <2>5. LatestRow(segs, i) = m.rows[i]
    BY <1>2 DEF LatestRow
  <2> QED BY <2>1, <2>4, <2>5 DEF Segment, Rows
<1> QED BY <1>1, <1>2

\* Every replayed memtable entry comes from a record that start() replays.
LEMMA ReplayedEntrySource ==
  ASSUME wal \subseteq Record, IsFiniteSet(wal), NEW i \in Ids
  PROVE  \/ ReplayedEntry(i) = NoEntry
         \/ \E r \in Replayed : /\ i \in r.ids
                                /\ ReplayedEntry(i) = [lsn |-> r.lsn, vec |-> r.rows[i]]
<1> DEFINE T == {r \in Replayed : i \in r.ids}
<1>1. CASE T = {}
  BY <1>1 DEF ReplayedEntry
<1>2. CASE T # {}
  <2>1. T \subseteq wal
    BY DEF Replayed
  <2>2. \E r \in T : \A q \in T : q.lsn <= r.lsn
    BY <1>2, <2>1, FS_Subset, NewestRecord
  <2> DEFINE m == CHOOSE r \in T : \A q \in T : q.lsn <= r.lsn
  <2>3. m \in T
    BY <2>2
  <2>4. ReplayedEntry(i) = [lsn |-> m.lsn, vec |-> m.rows[i]]
    BY <1>2 DEF ReplayedEntry
  <2> QED BY <2>3, <2>4
<1> QED BY <1>1, <1>2

\* The replayed memtable is a memtable.
LEMMA ReplayedMemtableType ==
  ASSUME wal \subseteq Record, IsFiniteSet(wal)
  PROVE  ReplayedMemtable \in [Ids -> Entry]
<1> SUFFICES ASSUME NEW i \in Ids PROVE ReplayedEntry(i) \in Entry
  BY DEF ReplayedMemtable
<1>1. CASE ReplayedEntry(i) = NoEntry
  BY <1>1 DEF NoEntry, Entry
<1>2. ASSUME NEW r \in Replayed, i \in r.ids,
             ReplayedEntry(i) = [lsn |-> r.lsn, vec |-> r.rows[i]]
      PROVE  ReplayedEntry(i) \in Entry
  BY <1>2 DEF Replayed, Record, Rows, Entry
<1> QED BY <1>1, <1>2, ReplayedEntrySource

\* The constant values of the variables have their types.
LEMMA ConstantTypes ==
  /\ NoRows \in Rows
  /\ NoOp \in Record
  /\ NoSegment \in Segment
  /\ NoEntries \in [Ids -> Entry]
BY DEF NoRows, Rows, NoOp, Record, NoSegment, Segment, NoEntries, NoEntry, Entry

-----------------------------------------------------------------------------
(***************************************************************************)
(* Type correctness.                                                       *)
(***************************************************************************)

\* The types and the finiteness of the disk hold in every state, for any kill
\* points and torn files.
THEOREM TypeInvariant == Spec => []TypeInv
<1>1. Init => TypeInv
  <2> SUFFICES ASSUME Init PROVE TypeInv
    OBVIOUS
  <2>1. walTorn \in BOOLEAN /\ unloadable \in BOOLEAN
    BY Zenon DEF Init
  <2>2. Finite
    BY FS_EmptySet DEF Init, Finite
  <2>3. walMeta \in Nat /\ lastLsn \in Nat /\ pc \in PCs
    BY DEF Init, PCs
  <2>4. memtable \in [Ids -> Entry] /\ op \in Record /\ pending \in Segment
    BY ConstantTypes, Zenon DEF Init
  <2>5. /\ wal = {} /\ tombFile = {} /\ dirs = {}
        /\ segments = {} /\ tombstones = {} /\ merging = {}
    BY Zenon DEF Init
  <2> QED BY <2>1, <2>2, <2>3, <2>4, <2>5, Zenon DEF TypeInv, TypeOK
<1>2. TypeInv /\ [Next]_vars => TypeInv'
  <2> SUFFICES ASSUME TypeInv, [Next]_vars PROVE TypeInv'
    OBVIOUS
  <2> USE DEF TypeInv, TypeOK, Finite
  <2>1. CASE Start
    <3>1. walMeta' \in Nat /\ (lastLsn' \in Nat)
      BY <2>1 DEF Start, RecoveredLsns, Record, memory
    <3>2. memtable' \in [Ids -> Entry]
      BY <2>1, ReplayedMemtableType DEF Start, memory
    <3>3. tombstones' \subseteq Ids
      BY <2>1 DEF Start, memory, ReplayedTombstones, Replayed, Record
    <3>4. segments' \subseteq Segment /\ IsFiniteSet(segments')
      BY <2>1 DEF Start, memory
    <3>5. pc' \in PCs /\ UNCHANGED <<op, pending, merging>>
      BY <2>1 DEF Start, control, PCs
    <3>6. UNCHANGED <<wal, walTorn, tombFile, dirs, unloadable>>
      BY <2>1 DEF Start
    <3> QED BY <3>1, <3>2, <3>3, <3>4, <3>5, <3>6
  <2>2. ASSUME NEW rec \in Record, Append(rec)
        PROVE  TypeInv'
    <3>1. wal' \subseteq Record /\ IsFiniteSet(wal')
      BY <2>2, FS_AddElement DEF Append
    <3>2. lastLsn' \in Nat
      BY <2>2 DEF Append, Record
    <3>3. op' \in Record /\ pc' \in PCs
      BY <2>2 DEF Append, PCs
    <3> QED BY <2>2, <3>1, <3>2, <3>3 DEF Append
  <2>3. CASE Request
    <3>1. ASSUME NEW rows \in Rows, Insert(rows) PROVE TypeInv'
      BY <2>2, <3>1 DEF Insert, Record, RowIds
    <3>2. ASSUME NEW ids \in SUBSET Ids, Delete(ids) PROVE TypeInv'
      BY <2>2, <3>2, ConstantTypes DEF Delete, Record
    <3> QED BY <2>3, <3>1, <3>2 DEF Request
  <2>4. CASE Stop
    <3>1. op' \in Record
      BY <2>4, ConstantTypes DEF Stop, Record
    <3> QED BY <2>4, <3>1 DEF Stop, disk, memory, PCs
  <2>5. CASE WriteMeta
    BY <2>5 DEF WriteMeta, memory, PCs
  <2>6. Written(memtable, op) \in [Ids -> Entry]
    BY DEF Written, Record, Rows, Entry
  <2>7. CASE ApplyInsert
    BY <2>6, <2>7, ConstantTypes DEF ApplyInsert, PCs
  <2>8. CASE ApplyDelete
    BY <2>6, <2>8, ConstantTypes DEF ApplyDelete, PCs, Record
  <2>9. Return => op' \in Record /\ pc' \in PCs
    BY ConstantTypes DEF Return, PCs
  <2>10. CASE FlushCapture
    <3>1. pc' \in PCs /\ op' \in Record
      BY <2>9, <2>10 DEF FlushCapture, PCs
    <3>2. pending' \in Segment
      BY <2>10 DEF FlushCapture, Segment, Rows, Entry
    <3>3. memtable' \in [Ids -> Entry]
      BY <2>10, ConstantTypes DEF FlushCapture
    <3>4. tombstones' \subseteq Ids /\ tombFile' \subseteq Ids
      BY <2>10 DEF FlushCapture, MemDeletes
    <3> QED BY <2>10, <3>1, <3>2, <3>3, <3>4 DEF FlushCapture
  <2>11. \A snap : FreshUids(snap) \subseteq Int
    BY DEF FreshUids, Segment
  <2>12. CASE FlushCreate
    <3>1. pending' \in Segment
      BY <2>11, <2>12 DEF FlushCreate, Segment
    <3> QED BY <2>12, <3>1, FS_AddElement DEF FlushCreate, memory, PCs
  <2>13. CASE FlushPublish
    <3>1. IsFiniteSet(wal')
      BY <2>13, FS_Subset DEF FlushPublish
    <3> QED BY <2>13, <3>1, FS_AddElement, ConstantTypes DEF FlushPublish, PCs
  <2>14. CASE TruncateMeta
    BY <2>9, <2>14 DEF TruncateMeta, memory, PCs
  <2>15. ASSUME NEW old \in SUBSET segments
         PROVE  IsFiniteSet(old) /\ MergedRows(old) \in Rows
    <3>1. IsFiniteSet(old) /\ old \subseteq Segment
      BY FS_Subset
    <3> QED BY <3>1, LatestRowType DEF MergedRows, Rows
  <2>16. CASE MergeCreate
    <3>1. pending' \in Segment /\ merging' \subseteq Segment
      BY <2>11, <2>15, <2>16 DEF MergeCreate, Segment
    <3> QED BY <2>16, <3>1, FS_AddElement DEF MergeCreate, memory, PCs
  <2>17. CASE MergePublish
    <3>1. IsFiniteSet(segments')
      BY <2>17, FS_Difference, FS_AddElement DEF MergePublish
    <3> QED BY <2>17, <3>1, ConstantTypes DEF MergePublish, PCs
  <2>18. CASE MergeDropAll
    <3>0. PICK old \in SUBSET segments : segments' = segments \ old /\ merging' = old
      BY <2>18 DEF MergeDropAll
    <3>1. IsFiniteSet(segments') /\ merging' \subseteq Segment
      BY <3>0, FS_Difference
    <3> QED BY <2>18, <3>1 DEF MergeDropAll, PCs
  <2>19. CASE RemoveOldest
    <3>1. IsFiniteSet(dirs') /\ dirs' \subseteq Segment /\ merging' \subseteq Segment
      BY <2>19, FS_RemoveElement DEF RemoveOldest
    <3> QED BY <2>9, <2>19, <3>1 DEF RemoveOldest, memory, PCs
  <2>20. PowerOff => /\ pc' \in PCs /\ op' \in Record /\ pending' \in Segment
                    /\ merging' \subseteq Segment /\ memtable' \in [Ids -> Entry]
                    /\ segments' \subseteq Segment /\ IsFiniteSet(segments')
                    /\ tombstones' \subseteq Ids /\ lastLsn' \in Nat
    BY ConstantTypes, FS_EmptySet DEF PowerOff, PCs
  <2>21. CASE Exit \/ Kill
    BY <2>20, <2>21 DEF Exit, Kill, disk
  <2>22. CASE PowerOff /\ (TearLog \/ TearMeta \/ TearTombstones)
    <3>1. CASE PowerOff /\ TearLog
      BY <2>20, <3>1, Zenon DEF TearLog
    <3>2. CASE PowerOff /\ TearMeta
      BY <2>20, <3>2 DEF TearMeta
    <3>3. CASE PowerOff /\ TearTombstones
      BY <2>20, <3>3 DEF TearTombstones
    <3> QED BY <2>22, <3>1, <3>2, <3>3
  <2>23. CASE PowerOff /\ TearSegment
    <3>1. dirs' \subseteq Segment /\ IsFiniteSet(dirs')
      BY <2>23, FS_RemoveElement DEF TearSegment
    <3> QED BY <2>20, <2>23, <3>1 DEF TearSegment
  <2>24. CASE UNCHANGED vars
    BY <2>24 DEF vars, disk, memory, control
  <2> QED
    BY <2>1, <2>3, <2>4, <2>5, <2>7, <2>8, <2>10, <2>12, <2>13, <2>14, <2>16,
       <2>17, <2>18, <2>19, <2>21, <2>22, <2>23, <2>24 DEF Next, Work, Die, KillInWrite
<1> QED BY <1>1, <1>2, PTL DEF Spec

\* In particular every variable keeps its type, whatever is killed or torn.
THEOREM TypeCorrect == Spec => []TypeOK
<1>1. TypeInv => TypeOK
  BY DEF TypeInv
<1> QED BY <1>1, TypeInvariant, PTL

-----------------------------------------------------------------------------
(***************************************************************************)
(* The log.                                                                *)
(***************************************************************************)

\* No kill comes while a record is being written, nor while wal.log.meta is
\* written after a truncation: at any other time the record of the operation in
\* flight makes up for a torn meta file.
LogFilesIntact == /\ "wal" \in TornFiles => "idle" \notin KillPoints
                  /\ "meta" \in TornFiles => "tmeta" \notin KillPoints

\* LSN 0 is for ids that are not in the memtable: no record carries it.
PositiveLsns ==
  /\ \A r \in wal : r.lsn > 0
  /\ \A i \in Ids : memtable[i].lsn = 0 => memtable[i].vec = None
  /\ pc \in {"meta", "apply"} => op.lsn > 0

\* The log and the memtable hold no LSN 0, which the model uses for "no entry".
THEOREM LsnsArePositive == Spec => []PositiveLsns
<1>1. Init => PositiveLsns
  BY DEF Init, PositiveLsns, NoEntries, NoEntry
<1>2. TypeInv /\ PositiveLsns /\ [Next]_vars => PositiveLsns'
  <2> SUFFICES ASSUME TypeInv, PositiveLsns, [Next]_vars PROVE PositiveLsns'
    OBVIOUS
  <2>1. CASE Start
    <3>1. wal' = wal /\ pc' \in {"down", "idle"} /\ memtable' \in {memtable, ReplayedMemtable}
      BY <2>1 DEF Start, memory, control
    <3>2. ASSUME NEW i \in Ids, ReplayedEntry(i).lsn = 0
          PROVE  ReplayedEntry(i).vec = None
      <4>1. ~\E r \in Replayed : ReplayedEntry(i) = [lsn |-> r.lsn, vec |-> r.rows[i]]
        BY <3>2 DEF TypeInv, TypeOK, Replayed, PositiveLsns
      <4>2. ReplayedEntry(i) = NoEntry
        BY <4>1, ReplayedEntrySource DEF TypeInv, TypeOK, Finite
      <4> QED BY <4>2 DEF NoEntry
    <3> QED BY <3>1, <3>2 DEF PositiveLsns, ReplayedMemtable
  <2>2. CASE Request
    <3>1. /\ op'.lsn = lastLsn + 1 /\ wal' \subseteq wal \cup {op'}
          /\ UNCHANGED memtable
      BY <2>2 DEF Request, Insert, Delete, Append
    <3> QED BY <3>1 DEF PositiveLsns, TypeInv, TypeOK
  <2>3. CASE ApplyInsert \/ ApplyDelete
    <3>1. /\ memtable' = Written(memtable, op) /\ wal' = wal
          /\ pc = "apply" /\ pc' \in {"flush", "idle"}
      BY <2>3 DEF ApplyInsert, ApplyDelete
    <3> QED BY <3>1 DEF PositiveLsns, Written
  <2>4. ASSUME wal' \subseteq wal, memtable' \in {memtable, NoEntries},
               pc' \in {"meta", "apply"} => pc \in {"meta", "apply"} /\ op' = op
        PROVE  PositiveLsns'
    BY <2>4 DEF PositiveLsns, NoEntries, NoEntry
  <2>5. CASE Stop \/ WriteMeta
    BY <2>4, <2>5 DEF Stop, WriteMeta, disk, memory
  <2>6. CASE FlushCapture \/ FlushCreate \/ FlushPublish \/ TruncateMeta
    BY <2>4, <2>6 DEF FlushCapture, FlushCreate, FlushPublish, TruncateMeta, Return, memory
  <2>7. CASE MergeCreate \/ MergePublish \/ MergeDropAll \/ RemoveOldest
    BY <2>4, <2>7 DEF MergeCreate, MergePublish, MergeDropAll, RemoveOldest, Return, memory
  <2>8. CASE Exit \/ Die
    BY <2>4, <2>8 DEF Exit, Die, Kill, KillInWrite, TearLog, TearMeta, TearTombstones,
                      TearSegment, PowerOff, disk
  <2>9. CASE UNCHANGED vars
    BY <2>4, <2>9 DEF vars, disk, memory, control
  <2> QED BY <2>1, <2>2, <2>3, <2>5, <2>6, <2>7, <2>8, <2>9 DEF Next, Work
<1> QED BY <1>1, <1>2, TypeInvariant, PTL DEF Spec

\* LogInv is inductive.
THEOREM LogInvariant ==
  ASSUME LogFilesIntact
  PROVE  Spec => []LogInv
<1>1. Init => LogInv
  BY DEF Init, LogInv, Up, NoSegment
<1>2. TypeInv /\ LogInv /\ [Next]_vars => LogInv'
  <2> SUFFICES ASSUME TypeInv, LogInv, [Next]_vars PROVE LogInv'
    OBVIOUS
  <2>a. /\ \A r \in wal : r.lsn \in Nat
        /\ \A s \in dirs \cup segments \cup {pending} : s.snap \in Nat
        /\ walMeta \in Nat /\ lastLsn \in Nat /\ pc \in PCs
        /\ memtable \in [Ids -> Entry]
        /\ \A i \in Ids : memtable[i].lsn \in Nat
        /\ RecoveredLsns \subseteq Nat
    BY DEF TypeInv, TypeOK, Record, Segment, Entry, RecoveredLsns
  <2>1. CASE Start
    <3>1. CASE unloadable
      <4>1. PICK n \in RecoveredLsns : /\ IsHighest(n, RecoveredLsns)
                                      /\ walMeta' = n
        BY <2>1 DEF Start
      <4>2. pc = "down" /\ UNCHANGED <<wal, walTorn, dirs, memory, control>>
        BY <2>1, <3>1 DEF Start
      <4>3. n \in RecoveredLsns'
        BY <4>1 DEF RecoveredLsns
      <4>4. \A s \in dirs : s.snap <= n
        BY <2>a, <4>1 DEF LogInv, IsHighest
      <4> QED BY <4>2, <4>3, <4>4 DEF LogInv, Up, memory, control
    <3>2. CASE ~unloadable
      <4>1. PICK n \in RecoveredLsns : /\ IsHighest(n, RecoveredLsns)
                                      /\ walMeta' = n /\ lastLsn' = n
                                      /\ segments' = dirs
                                      /\ memtable' = ReplayedMemtable
                                      /\ pc' = "idle"
                                      /\ pending' = pending
        BY <2>1, <3>2 DEF Start
      <4>2. UNCHANGED <<wal, walTorn, dirs>>
        BY <2>1 DEF Start
      <4>3. \A s \in dirs : s.snap <= n
        BY <2>a, <4>1 DEF LogInv, IsHighest
      <4>4. RecoveredLsns' = {n} \cup {r.lsn : r \in wal}
        BY <4>1, <4>2 DEF RecoveredLsns
      <4>5. IsHighest(n, RecoveredLsns')
        BY <2>a, <4>1, <4>4 DEF IsHighest, RecoveredLsns
      <4>6. \A i \in Ids : memtable'[i].lsn <= n
        <5> SUFFICES ASSUME NEW i \in Ids PROVE ReplayedEntry(i).lsn <= n
          BY <4>1 DEF ReplayedMemtable
        <5>1. CASE ReplayedEntry(i) = NoEntry
          BY <2>a, <4>1, <5>1 DEF NoEntry
        <5>2. ASSUME NEW r \in Replayed,
                     ReplayedEntry(i) = [lsn |-> r.lsn, vec |-> r.rows[i]]
              PROVE  ReplayedEntry(i).lsn <= n
          BY <4>1, <5>2 DEF Replayed, IsHighest, RecoveredLsns
        <5> QED BY <5>1, <5>2, ReplayedEntrySource DEF TypeInv, TypeOK, Finite
      <4>7. pending.snap <= n
        <5>1. pending = NoSegment /\ n \in Nat
          BY <2>1, <2>a, <4>1 DEF Start, LogInv, Up
        <5> QED BY <5>1 DEF NoSegment
      <4>8. IsHighest(lastLsn', RecoveredLsns') /\ walMeta' = lastLsn'
        BY <4>1, <4>5
      <4>9. \A s \in dirs' \cup segments' \cup {pending'} : s.snap <= lastLsn'
        BY <4>1, <4>2, <4>3, <4>7
      <4>10. \A s \in dirs' : \E m \in RecoveredLsns' : s.snap <= m
        BY <4>8, <4>9 DEF IsHighest
      <4>11. ~walTorn'
        BY <4>2 DEF LogInv
      <4> QED BY <4>1, <4>6, <4>8, <4>9, <4>10, <4>11 DEF LogInv, Up
    <3> QED BY <3>1, <3>2
  <2>2. ASSUME NEW rec \in Record, rec.lsn = lastLsn + 1, Append(rec)
        PROVE  LogInv'
    <3>1. /\ pc = "idle" /\ pc' = "meta" /\ op' = rec /\ lastLsn' = lastLsn + 1
          /\ wal' = wal \cup {rec}
          /\ UNCHANGED <<walTorn, walMeta, dirs, memtable, segments, pending>>
      BY <2>2 DEF Append, LogInv
    <3>2. RecoveredLsns' = RecoveredLsns \cup {lastLsn + 1}
      BY <2>2, <3>1 DEF RecoveredLsns
    <3>3. IsHighest(lastLsn', RecoveredLsns')
      BY <2>a, <3>1, <3>2 DEF LogInv, Up, IsHighest
    <3>4. \A s \in dirs \cup segments \cup {pending} : s.snap < lastLsn'
      BY <2>a, <3>1 DEF LogInv, Up
    <3>5. \A i \in Ids : memtable'[i].lsn <= lastLsn'
      BY <2>a, <3>1 DEF LogInv, Up
    <3>6. \A s \in dirs' \cup segments' \cup {pending'} : s.snap <= lastLsn'
      BY <2>a, <3>1, <3>4
    <3> QED BY <2>2, <3>1, <3>3, <3>4, <3>5, <3>6 DEF LogInv, Up, IsHighest
  <2>3. CASE Request
    <3>1. ASSUME NEW rows \in Rows, Insert(rows) PROVE LogInv'
      <4> DEFINE rec == [lsn |-> lastLsn + 1, kind |-> "insert",
                         ids |-> RowIds(rows), rows |-> rows]
      <4>1. rec \in Record /\ rec.lsn = lastLsn + 1
        BY <2>a DEF Record, RowIds
      <4>2. Append(rec)
        BY <3>1 DEF Insert
      <4> QED BY <2>2, <4>1, <4>2
    <3>2. ASSUME NEW ids \in SUBSET Ids, Delete(ids) PROVE LogInv'
      <4> DEFINE rec == [lsn |-> lastLsn + 1, kind |-> "delete",
                         ids |-> ids, rows |-> NoRows]
      <4>1. rec \in Record /\ rec.lsn = lastLsn + 1
        BY <2>a, ConstantTypes DEF Record
      <4>2. Append(rec)
        BY <3>2 DEF Delete
      <4> QED BY <2>2, <4>1, <4>2
    <3> QED BY <2>3, <3>1, <3>2 DEF Request
  <2>4. CASE Stop
    <3>1. RecoveredLsns' = RecoveredLsns
      BY <2>4 DEF Stop, disk, RecoveredLsns
    <3> QED BY <2>4, <3>1 DEF Stop, disk, memory, LogInv, Up, IsHighest
  <2>5. CASE WriteMeta
    <3>1. /\ pc = "meta" /\ pc' = "apply" /\ walMeta' = lastLsn
          /\ UNCHANGED <<wal, walTorn, dirs, memtable, segments, lastLsn, op, pending>>
      BY <2>5 DEF WriteMeta, memory
    <3>2. RecoveredLsns' = {lastLsn} \cup {r.lsn : r \in wal}
      BY <3>1 DEF RecoveredLsns
    <3>3. IsHighest(lastLsn, RecoveredLsns')
      BY <2>a, <3>1, <3>2 DEF LogInv, Up, IsHighest, RecoveredLsns
    <3> QED BY <3>1, <3>3 DEF LogInv, Up, IsHighest
  <2>6. CASE ApplyInsert \/ ApplyDelete
    <3>1. /\ pc = "apply" /\ memtable' = Written(memtable, op)
          /\ pc' \in {"flush", "idle"}
          /\ UNCHANGED <<wal, walTorn, walMeta, dirs, segments, lastLsn, pending>>
      BY <2>6 DEF ApplyInsert, ApplyDelete
    <3>2. RecoveredLsns' = RecoveredLsns
      BY <3>1 DEF RecoveredLsns
    <3>3. \A i \in Ids : memtable'[i].lsn <= lastLsn
      BY <2>a, <3>1 DEF Written, LogInv, Up
    <3> QED BY <3>1, <3>2, <3>3 DEF LogInv, Up, IsHighest
  <2>7. Return => pc' \in {"exit", "idle"}
    BY DEF Return
  <2>8. \A i \in Ids : NoEntries[i].lsn <= lastLsn
    BY <2>a DEF NoEntries, NoEntry
  <2>9. CASE FlushCapture
    <3>1. /\ pc = "flush" /\ memtable' = NoEntries /\ pc' \in {"exit", "idle", "create"}
          /\ UNCHANGED <<wal, walTorn, walMeta, dirs, segments, lastLsn>>
      BY <2>7, <2>9 DEF FlushCapture
    <3>2. RecoveredLsns' = RecoveredLsns
      BY <3>1 DEF RecoveredLsns
    <3>3. pending'.snap <= lastLsn
      BY <2>9, <3>1 DEF FlushCapture, LogInv, Up
    <3> QED BY <2>8, <3>1, <3>2, <3>3 DEF LogInv, Up, IsHighest
  <2>10. CASE FlushCreate
    <3>1. /\ pc = "create" /\ pc' = "publish" /\ dirs' = dirs \cup {pending'}
          /\ UNCHANGED <<wal, walTorn, walMeta, memtable, segments, lastLsn>>
      BY <2>10 DEF FlushCreate, memory
    <3>2. pending'.snap = pending.snap
      BY <2>10 DEF FlushCreate, TypeInv, TypeOK, Segment
    <3>3. RecoveredLsns' = RecoveredLsns
      BY <3>1 DEF RecoveredLsns
    <3>4. pending'.snap <= lastLsn /\ lastLsn \in RecoveredLsns
      BY <3>1, <3>2 DEF LogInv, Up, IsHighest
    <3> QED BY <3>1, <3>3, <3>4 DEF LogInv, Up, IsHighest
  <2>11. CASE FlushPublish
    <3>1. /\ pc = "publish" /\ pc' = "tmeta" /\ segments' = segments \cup {pending}
          /\ wal' \subseteq wal /\ ~walTorn' /\ pending' = NoSegment
          /\ UNCHANGED <<walMeta, dirs, memtable, lastLsn>>
      BY <2>11 DEF FlushPublish
    <3>2. RecoveredLsns' \subseteq RecoveredLsns /\ lastLsn \in RecoveredLsns'
      BY <3>1 DEF RecoveredLsns, LogInv, Up
    <3>3. pending'.snap <= lastLsn
      BY <2>a, <3>1 DEF NoSegment
    <3> QED BY <3>1, <3>2, <3>3 DEF LogInv, Up, IsHighest
  <2>12. CASE TruncateMeta
    <3>1. /\ pc = "tmeta" /\ pc' \in {"merge", "exit", "idle"} /\ walMeta' = lastLsn
          /\ UNCHANGED <<wal, walTorn, dirs, memtable, segments, lastLsn, pending>>
      BY <2>7, <2>12 DEF TruncateMeta, memory
    <3>2. RecoveredLsns' = RecoveredLsns
      BY <3>1 DEF RecoveredLsns, LogInv, Up
    <3> QED BY <3>1, <3>2 DEF LogInv, Up, IsHighest
  <2>13. CASE MergeCreate
    <3>1. /\ pc = "merge" /\ pc' = "mpublish" /\ dirs' = dirs \cup {pending'}
          /\ UNCHANGED <<wal, walTorn, walMeta, memtable, segments, lastLsn>>
      BY <2>13 DEF MergeCreate, memory
    <3>2. \E newest \in segments : pending'.snap = newest.snap
      BY <2>13 DEF MergeCreate
    <3>3. RecoveredLsns' = RecoveredLsns
      BY <3>1 DEF RecoveredLsns
    <3>4. pending'.snap <= lastLsn /\ lastLsn \in RecoveredLsns
      BY <3>1, <3>2 DEF LogInv, Up, IsHighest
    <3> QED BY <3>1, <3>3, <3>4 DEF LogInv, Up, IsHighest
  <2>14. CASE MergePublish \/ MergeDropAll \/ RemoveOldest
    <3>1. /\ pc \in {"merge", "mpublish", "remove"} /\ pc' \in {"remove", "exit", "idle"}
          /\ dirs' \subseteq dirs /\ segments' \subseteq segments \cup {pending}
          /\ pending' \in {pending, NoSegment}
          /\ UNCHANGED <<wal, walTorn, walMeta, memtable, lastLsn>>
      BY <2>7, <2>14 DEF MergePublish, MergeDropAll, RemoveOldest, memory
    <3>2. RecoveredLsns' = RecoveredLsns
      BY <3>1 DEF RecoveredLsns
    <3>3. pending'.snap <= lastLsn
      BY <2>a, <3>1 DEF NoSegment, LogInv, Up
    <3> QED BY <3>1, <3>2, <3>3 DEF LogInv, Up, IsHighest
  <2>15. CASE Exit \/ Die
    <3>1. /\ pc # "down" /\ pc' = "down" /\ pending' = NoSegment
          /\ UNCHANGED <<wal, walTorn>>
      <4>1. PowerOff => pc' = "down" /\ pending' = NoSegment
        BY DEF PowerOff
      <4>2. ~(pc \in KillPoints /\ TearLog)
        BY DEF TearLog, LogFilesIntact
      <4>3. \A p \in KillPoints : p # "down"
        BY EngineAssumption
      <4>4. CASE Exit \/ Kill
        BY <4>1, <4>3, <4>4 DEF Exit, Kill, disk
      <4>5. CASE pc \in KillPoints /\ PowerOff /\ (TearMeta \/ TearTombstones \/ TearSegment)
        BY <4>1, <4>3, <4>5 DEF TearMeta, TearTombstones, TearSegment
      <4> QED BY <2>15, <4>2, <4>4, <4>5 DEF Die, KillInWrite
    <3>2. dirs' \subseteq dirs
      BY <2>15 DEF Exit, Die, Kill, KillInWrite, disk,
                   TearLog, TearMeta, TearTombstones, TearSegment
    <3>3. lastLsn \in RecoveredLsns'
      <4>1. CASE pc \in KillPoints /\ TearMeta
        <5>1. pc = "meta"
          BY <4>1 DEF TearMeta, LogFilesIntact
        <5>2. op \in wal /\ op.lsn = lastLsn
          BY <5>1 DEF LogInv
        <5> QED BY <3>1, <5>2 DEF RecoveredLsns
      <4>2. CASE UNCHANGED walMeta
        <5>1. RecoveredLsns' = RecoveredLsns
          BY <3>1, <4>2 DEF RecoveredLsns
        <5> QED BY <3>1, <5>1 DEF LogInv, Up, IsHighest
      <4>3. (pc \in KillPoints /\ TearMeta) \/ UNCHANGED walMeta
        BY <2>15 DEF Exit, Die, Kill, KillInWrite, disk, TearLog, TearTombstones, TearSegment
      <4> QED BY <4>1, <4>2, <4>3
    <3> QED BY <3>1, <3>2, <3>3 DEF LogInv, Up
  <2>16. CASE UNCHANGED vars
    BY <2>16 DEF vars, disk, memory, control, LogInv, Up, RecoveredLsns
  <2> QED
    BY <2>1, <2>3, <2>4, <2>5, <2>6, <2>9, <2>10, <2>11, <2>12, <2>13, <2>14,
       <2>15, <2>16 DEF Next, Work
<1>3. Spec => []TypeInv
  BY TypeInvariant
<1> QED BY <1>1, <1>2, <1>3, PTL DEF Spec

\* The default snapshot of a search reaches every segment and memtable row.
THEOREM SegmentsStayVisible ==
  ASSUME LogFilesIntact
  PROVE  Spec => []SegmentsVisible
<1>1. LogInv => SegmentsVisible
  BY DEF LogInv, SegmentsVisible
<1> QED BY <1>1, LogInvariant, PTL

\* The LSN of the next append is above everything recovery reaches, whatever was
\* killed before.
THEOREM LsnsStayFresh ==
  ASSUME LogFilesIntact
  PROVE  Spec => []LsnsAreFresh
<1>1. LogInv => LsnsAreFresh
  BY DEF LogInv, LsnsAreFresh, IsHighest, RecoveredLsns
<1> QED BY <1>1, LogInvariant, PTL

\* Every row that is only in memory can be replayed from the log, for any
\* thresholds and any kill points.
THEOREM UnflushedWritesStayLogged ==
  ASSUME LogFilesIntact
  PROVE  Spec => []UnflushedWritesAreLogged
<1>1. Init => UnflushedWritesAreLogged
  BY DEF Init, UnflushedWritesAreLogged, Up
<1>2. TypeInv /\ PositiveLsns /\ LogInv /\ UnflushedWritesAreLogged /\ [Next]_vars
        => UnflushedWritesAreLogged'
  <2> SUFFICES ASSUME TypeInv, PositiveLsns, LogInv, UnflushedWritesAreLogged, [Next]_vars
               PROVE  UnflushedWritesAreLogged'
    OBVIOUS
  <2>1. ASSUME memtable' = NoEntries, pc' # "create"
        PROVE  UnflushedWritesAreLogged'
    BY <2>1 DEF UnflushedWritesAreLogged, NoEntries, NoEntry
  <2>2. ASSUME UNCHANGED memtable, wal \subseteq wal', dirs' = dirs,
               pc \notin {"down", "create"}, pc' # "create"
        PROVE  UnflushedWritesAreLogged'
    BY <2>2 DEF UnflushedWritesAreLogged, Logged, Up
  <2>3. CASE Start
    <3>1. CASE pc' = "down"
      BY <3>1 DEF UnflushedWritesAreLogged, Up
    <3>2. CASE pc' # "down"
      <4>1. /\ memtable' = ReplayedMemtable /\ pc' = "idle"
            /\ UNCHANGED <<wal, dirs>>
        BY <2>3, <3>2 DEF Start, control
      <4>2. ASSUME NEW i \in Ids, memtable'[i].lsn > 0
            PROVE  /\ Logged(i, memtable'[i].lsn, memtable'[i].vec)
                   /\ \A s \in dirs : s.snap < memtable'[i].lsn
        <5>1. memtable'[i] = ReplayedEntry(i)
          BY <4>1 DEF ReplayedMemtable
        <5>2. PICK r \in Replayed :
                 /\ i \in r.ids
                 /\ ReplayedEntry(i) = [lsn |-> r.lsn, vec |-> r.rows[i]]
          BY <4>2, <5>1, ReplayedEntrySource DEF TypeInv, TypeOK, Finite, NoEntry
        <5>3. r \in wal /\ \A s \in dirs : r.lsn > s.snap
          BY DEF Replayed
        <5>4. r.lsn \in Nat /\ \A s \in dirs : s.snap \in Nat
          BY <5>3 DEF TypeInv, TypeOK, Record, Segment
        <5> QED BY <5>1, <5>2, <5>3, <5>4 DEF Logged
      <4> QED BY <4>1, <4>2 DEF UnflushedWritesAreLogged, Logged
    <3> QED BY <3>1, <3>2
  <2>4. CASE Request
    <3>1. /\ pc = "idle" /\ pc' = "meta" /\ wal \subseteq wal'
          /\ UNCHANGED <<memtable, dirs>>
      BY <2>4 DEF Request, Insert, Delete, Append
    <3> QED BY <2>2, <3>1
  <2>5. CASE Stop \/ WriteMeta
    BY <2>2, <2>5 DEF Stop, WriteMeta, disk, memory
  <2>6. CASE ApplyInsert \/ ApplyDelete
    <3>1. /\ pc = "apply" /\ memtable' = Written(memtable, op)
          /\ pc' \in {"flush", "idle"} /\ UNCHANGED <<wal, dirs>>
      BY <2>6 DEF ApplyInsert, ApplyDelete
    <3>2. op \in wal /\ \A s \in dirs : s.snap < op.lsn
      BY <3>1 DEF LogInv
    <3>3. ASSUME NEW i \in Ids, memtable'[i].lsn > 0
          PROVE  /\ Logged(i, memtable'[i].lsn, memtable'[i].vec)
                 /\ \A s \in dirs : s.snap < memtable'[i].lsn
      <4>1. CASE i \in op.ids
        BY <3>1, <3>2, <4>1 DEF Written, Logged
      <4>2. CASE i \notin op.ids
        BY <3>1, <3>3, <4>2 DEF Written, UnflushedWritesAreLogged, Up
      <4> QED BY <4>1, <4>2
    <3> QED BY <3>1, <3>3 DEF UnflushedWritesAreLogged, Logged
  <2>7. CASE FlushCapture
    <3>1. /\ pc = "flush" /\ memtable' = NoEntries /\ UNCHANGED wal
      BY <2>7 DEF FlushCapture
    <3>2. CASE pc' # "create"
      BY <2>1, <3>1, <3>2
    <3>3. CASE pc' = "create"
      <4>1. pending'.rows = [j \in Ids |-> memtable[j].vec]
        BY <2>7, <3>3 DEF FlushCapture, Return
      <4>2. ASSUME NEW i \in RowIds(pending'.rows)
            PROVE  \E r \in wal : i \in r.ids /\ r.rows[i] = pending'.rows[i]
        <5>1. i \in Ids /\ memtable[i].vec # None
          BY <4>1 DEF RowIds
        <5>2. memtable[i].lsn > 0
          BY <5>1 DEF PositiveLsns, TypeInv, TypeOK, Entry
        <5> QED BY <3>1, <4>1, <5>1, <5>2 DEF UnflushedWritesAreLogged, Logged, Up
      <4> QED BY <3>1, <3>3, <4>2 DEF UnflushedWritesAreLogged, NoEntries, NoEntry
    <3> QED BY <3>2, <3>3
  <2>8. CASE FlushCreate \/ FlushPublish \/ MergeCreate \/ MergePublish \/ MergeDropAll
    <3>1. /\ pc \in {"create", "publish", "merge", "mpublish"}
          /\ pc' # "create" /\ UNCHANGED memtable
      BY <2>8 DEF FlushCreate, FlushPublish, MergeCreate, MergePublish, MergeDropAll, memory
    <3> QED BY <2>1, <3>1 DEF LogInv
  <2>9. CASE TruncateMeta \/ RemoveOldest
    <3>1. /\ pc \in {"tmeta", "remove"} /\ pc' # "create" /\ UNCHANGED memtable
      BY <2>9 DEF TruncateMeta, RemoveOldest, Return, memory
    <3> QED BY <2>1, <3>1 DEF LogInv
  <2>10. CASE Exit \/ Die
    <3>1. PowerOff
      BY <2>10 DEF Exit, Die, Kill, KillInWrite
    <3> QED BY <2>1, <3>1 DEF PowerOff
  <2>11. CASE UNCHANGED vars
    BY <2>11 DEF vars, disk, memory, control, UnflushedWritesAreLogged, Logged, Up
  <2> QED
    BY <2>3, <2>4, <2>5, <2>6, <2>7, <2>8, <2>9, <2>10, <2>11 DEF Next, Work
<1> QED BY <1>1, <1>2, TypeInvariant, LsnsArePositive, LogInvariant, PTL DEF Spec

=============================================================================
