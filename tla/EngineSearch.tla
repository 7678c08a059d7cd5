----------------------------- MODULE EngineSearch -----------------------------
(***************************************************************************)
(* What LSMEngine.search answers, hit by hit: the top_k of every segment   *)
(* and of the memtable (index/ivf_flat.py and storage/lsm.py), the hidden  *)
(* ids, and the merge; and what health() counts.  A search never suspends  *)
(* between its locked section and its answer, so it is an operator on the  *)
(* state of the engine, compared here with the ledger of its callers.      *)
(*                                                                         *)
(* The query is fixed, so a vector counts only by its distance to it.      *)
(***************************************************************************)
EXTENDS LSMLedger, TopK

CONSTANTS
  Distance,        \* the distance of each vector to the query
  NList,           \* Settings.nlist: cells of an index
  TrainingPoints,  \* rows that an index needs per cell (39 in the code)
  Requests         \* the pairs <<top_k, nprobe>> that are asked for

\* Ids are 64-bit integers.
ASSUME SearchAssumption ==
  /\ IsFiniteSet(Ids)
  /\ Distance \in [Vectors -> Nat]
  /\ NList \in Nat \ {0} /\ TrainingPoints \in Nat \ {0}
  /\ Requests \subseteq (Nat \ {0}) \X (Nat \ {0})

HitsOf(rows, ids) == {[id |-> i, dist |-> Distance[rows[i]]] : i \in ids}

-----------------------------------------------------------------------------
(***************************************************************************)
(* IVFFlatIndex                                                            *)
(***************************************************************************)
\* Segment.create: no more cells than rows.
Cells(n) == IF n < NList THEN n ELSE NList

\* train(): with too few rows per cell the index has none and is an exact one.
IsFlat(n) == n < TrainingPoints * Cells(n)

\* No cells in it (_extract_ivf finds none after a load either), or all probed.
IsExact(rows, nprobe) ==
  LET n == Cardinality(RowIds(rows)) IN IsFlat(n) \/ Cells(n) <= nprobe

\* The rows in the probed cells: any of them when not every cell is probed.
Probed(rows, nprobe) ==
  IF IsExact(rows, nprobe) THEN {RowIds(rows)} ELSE SUBSET RowIds(rows)

\* Mutant: one hit fewer than asked for.
IndexSearch_OneLess(rows, k, nprobe) ==
  UNION {Nearest(HitsOf(rows, ids), k - 1) : ids \in Probed(rows, nprobe)}

IndexSearch(rows, k, nprobe) ==
  UNION {Nearest(HitsOf(rows, ids), k) : ids \in Probed(rows, nprobe)}

-----------------------------------------------------------------------------
(***************************************************************************)
(* LSMEngine.search at the snapshot wal.last_lsn                           *)
(***************************************************************************)
VisibleSegments(snap) == {s \in segments : s.snap <= snap}

MemIds(snap) == {i \in Ids : InMem(memtable, snap, i) /\ memtable[i].vec # None}

DeletedIds(snap) ==
  tombstones \cup {i \in Ids : InMem(memtable, snap, i) /\ memtable[i].vec = None}

MemTableSearch(k, snap) ==
  Nearest(HitsOf([i \in Ids |-> memtable[i].vec], MemIds(snap)), k)

\* Mutant: rows of the memtable do not hide their older versions in segments.
HiddenIds_SegmentsOnly(s, snap) ==
  DeletedIds(snap)
    \cup {i \in Ids : \E t \in Holding(VisibleSegments(snap), i) : s.snap < t.snap}

HiddenIds(s, snap) ==
  DeletedIds(snap) \cup MemIds(snap)
    \cup {i \in Ids : \E t \in Holding(VisibleSegments(snap), i) : s.snap < t.snap}

\* One answer of every visible segment, its hidden ids taken out.
SegmentAnswers(k, nprobe, snap) ==
  LET shown == VisibleSegments(snap)
      some == UNION {IndexSearch(s.rows, k, nprobe) : s \in shown}
  IN {{Unhidden(f[s], HiddenIds(s, snap)) : s \in shown} :
        f \in {g \in [shown -> some] :
                 \A s \in shown : g[s] \in IndexSearch(s.rows, k, nprobe)}}

Answers(k, nprobe) ==
  UNION {MergedResults(found \cup {mem}, k, DeletedIds(lastLsn)) :
           found \in SegmentAnswers(k, nprobe, lastLsn),
           mem \in MemTableSearch(k, lastLsn)}

-----------------------------------------------------------------------------
(***************************************************************************)
(* LSMEngine.health                                                        *)
(***************************************************************************)
\* Mutant: the rows of the segments are added up.
NTotal_PerSegment ==
  LET size[segs \in SUBSET segments] ==
        IF segs = {} THEN 0
        ELSE LET s == CHOOSE t \in segs : TRUE
             IN Cardinality(RowIds(s.rows) \ tombstones) + size[segs \ {s}]
  IN size[segments] + Cardinality(MemIds(lastLsn))

NTotal ==
  Cardinality(((UNION {RowIds(s.rows) : s \in segments}) \cup MemIds(lastLsn))
                \ DeletedIds(lastLsn))

Health == [ntotal |-> NTotal, segments |-> Cardinality(segments),
           memtableSize |-> Cardinality(LiveEntries(memtable))]

-----------------------------------------------------------------------------
(***************************************************************************)
(* Properties.                                                             *)
(***************************************************************************)
Live == {i \in Ids : ledger[i] # None}
LiveHit(i) == [id |-> i, dist |-> Distance[ledger[i]]]

\* Every hit of every answer is an id that is not deleted, at the distance of
\* the vector written last, whatever flushes, merges and restarts lie between
\* (the hidden ids of search, merge_results).
AnswersAreCurrent ==
  pc = "idle" => \A r \in Requests : \A ans \in Answers(r[1], r[2]) :
     \A h \in ans : h.id \in Live /\ h = LiveHit(h.id)

\* Of these hits, k others are as near as that of i, and some of them are hidden.
Crowded(hits, i, k, hidden) ==
  LET nearer == {h \in hits : h.id # i /\ h.dist <= Distance[ledger[i]]}
  IN k <= Cardinality(nearer) /\ \E h \in nearer : h.id \in hidden

\* Why an answer may lack a live row although it has room: its segment did not
\* probe all its cells, or its segment (or the memtable, where rows can be hidden
\* after a replay) has cut it off behind hidden rows, which take part in its
\* top_k and are filtered afterwards (search).
CutOff(i, k, nprobe) ==
  \/ \E s \in Holding(segments, i) :
       \/ ~IsExact(s.rows, nprobe)
       \/ Crowded(HitsOf(s.rows, RowIds(s.rows)), i, k, HiddenIds(s, lastLsn))
  \/ /\ i \in MemIds(lastLsn)
     /\ Crowded(HitsOf([j \in Ids |-> memtable[j].vec], MemIds(lastLsn)), i, k,
                DeletedIds(lastLsn))

MissesOnlyBehindHidden ==
  pc = "idle" => \A r \in Requests : \A ans \in Answers(r[1], r[2]) :
     \A i \in Live \ masked :
       \/ LiveHit(i) \in ans
       \/ Cardinality(ans) = r[1] /\ \A h \in ans : h.dist <= Distance[ledger[i]]
       \/ CutOff(i, r[1], r[2])

\* The ntotal of health() is the number of hits of a search that asks for
\* everything: an id counts once, however many versions of it there are, and not
\* at all when it is deleted; without a segment it is that of the live rows of the
\* memtable, ids that start() has masked aside (ntotal and memtable_size against
\* search).
HealthCountsFoundRows ==
  pc = "idle" =>
    /\ \A r \in Requests : Cardinality(Ids) <= r[1] /\ NList <= r[2] =>
         \A ans \in Answers(r[1], r[2]) : Health.ntotal = Cardinality(ans)
    /\ Health.segments = 0 /\ masked = {} => Health.ntotal = Health.memtableSize

=============================================================================
