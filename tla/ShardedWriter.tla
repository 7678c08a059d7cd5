---------------------------- MODULE ShardedWriter ----------------------------
(***************************************************************************)
(* A writer with several shards: the engines of writer/pipeline.py, each   *)
(* with a log and segments of its own, over one tombstones.json, which     *)
(* every engine loads whole and rewrites from its own set.                 *)
(*                                                                         *)
(* LSMEngine is one engine in detail.  Here its operations are whole: none *)
(* of them suspends.  What a process can end between is the parts of a     *)
(* batch.  An engine is                                                    *)
(*   mem    its memtable, which is also what its log replays to;           *)
(*   dels   the ids of the delete records in its log;                      *)
(*   segs   the ids of its segments, oldest first;                         *)
(*   tombs  its set of tombstones;                                         *)
(*   wrote  whether the operation at hand rewrites the file.               *)
(* Vectors are left out: an id is there or is not.                         *)
(***************************************************************************)
EXTENDS Integers, Sequences, FiniteSets, Functions

CONSTANTS
  Ids,             \* external vector ids
  NumShards,
  FlushThreshold,  \* live memtable rows that make an insert flush
  MergeThreshold   \* segments that make a flush merge

ASSUME ShardedAssumption ==
  /\ Ids \subseteq Nat
  /\ NumShards \in Nat \ {0}
  /\ FlushThreshold \in Nat \ {0} /\ MergeThreshold \in Nat \ {0}

Shards == 0..(NumShards - 1)
ShardOf(i) == i % NumShards

VARIABLES
  up,
  tombFile,  \* the ids in tombstones.json
  engine,    \* the engines, as above; while the process is down, as it left them
  op,        \* the request or the shutdown in progress, and the shards left to do
  \* ghosts
  last,      \* the last operation that an engine has taken for each id
  doubt,     \* ids that the restarts since then may have got wrong
  author     \* the shard whose engine wrote tombstones.json last

vars == <<up, tombFile, engine, op, last, doubt, author>>

Idle == [kind |-> "none", ids |-> {}, todo |-> {}]

NewEngine == [mem |-> [i \in Ids |-> "none"], dels |-> {}, segs |-> <<>>,
              tombs |-> {}, wrote |-> FALSE]

Init ==
  /\ up = FALSE /\ tombFile = {}
  /\ engine = [s \in Shards |-> NewEngine]
  /\ op = Idle
  /\ last = [i \in Ids |-> "none"] /\ doubt = {}
  /\ author \in Shards

-----------------------------------------------------------------------------
(***************************************************************************)
(* The operations of an engine.                                            *)
(***************************************************************************)
Holding(e, state) == {i \in Ids : e.mem[i] = state}
AllOf(segs) == UNION Range(segs)
Stored(e) == AllOf(e.segs)

\* Mutant: the deleted rows are kept, their tombstones forgotten.
Merged_KeepsRows(e) ==
  IF Len(e.segs) < MergeThreshold THEN e
  ELSE LET old == AllOf(SubSeq(e.segs, 1, MergeThreshold))
       IN [e EXCEPT !.segs = <<old>> \o SubSeq(@, MergeThreshold + 1, Len(@)),
                    !.tombs = @ \ old, !.wrote = TRUE]

\* merge(): the oldest segments become one, without the rows that are deleted,
\* whose tombstones are forgotten.
Merged(e) ==
  IF Len(e.segs) < MergeThreshold THEN e
  ELSE LET old == AllOf(SubSeq(e.segs, 1, MergeThreshold))
           kept == old \ e.tombs
       IN [e EXCEPT !.segs = (IF kept = {} THEN <<>> ELSE <<kept>>)
                               \o SubSeq(@, MergeThreshold + 1, Len(@)),
                    !.tombs = @ \ old, !.wrote = TRUE]

\* flush(): with no live row the memtable is cleared but the log stays.
Flushed(e) ==
  LET gone == Holding(e, "gone")
      rows == Holding(e, "row")
      captured == [e EXCEPT !.tombs = @ \cup gone, !.wrote = @ \/ gone # {}]
  IN IF rows = {} THEN captured
     ELSE Merged([captured EXCEPT !.segs = Append(@, rows),
                                  !.mem = NewEngine.mem, !.dels = {}])

\* Mutant: insert() does not clear the tombstones.
Inserted_Hidden(e, ids) ==
  LET new == [e EXCEPT !.mem = [i \in Ids |-> IF i \in ids THEN "row" ELSE @[i]]]
  IN IF Cardinality(Holding(new, "row")) >= FlushThreshold THEN Flushed(new) ELSE new

Inserted(e, ids) ==
  LET new == [e EXCEPT !.mem = [i \in Ids |-> IF i \in ids THEN "row" ELSE @[i]],
                       !.tombs = @ \ ids, !.wrote = e.tombs \cap ids # {}]
  IN IF Cardinality(Holding(new, "row")) >= FlushThreshold THEN Flushed(new) ELSE new

Deleted(e, ids) ==
  [e EXCEPT !.mem = [i \in Ids |-> IF i \in ids THEN "gone" ELSE @[i]],
            !.dels = @ \cup ids, !.tombs = @ \cup ids, !.wrote = TRUE]

\* start(): the tombstones are those in the file and the replayed deletes.
Started(e) == [e EXCEPT !.tombs = tombFile \cup e.dels]

\* search(): what an engine serves.
Served(e) ==
  (Stored(e) \cup Holding(e, "row")) \ (Holding(e, "gone") \cup e.tombs)

-----------------------------------------------------------------------------
(***************************************************************************)
(* The pipeline.                                                           *)
(***************************************************************************)
\* insert() and delete() divide the batch among the shards.
Receive(kind, ids) ==
  /\ up /\ op = Idle /\ ids # {}
  /\ op' = [kind |-> kind, ids |-> ids, todo |-> {ShardOf(i) : i \in ids}]
  /\ UNCHANGED <<up, tombFile, engine, last, doubt, author>>

\* An engine has done its part.
Becomes(s, e) ==
  /\ engine' = [engine EXCEPT ![s] = [e EXCEPT !.wrote = FALSE]]
  /\ IF e.wrote THEN tombFile' = e.tombs /\ author' = s
                ELSE UNCHANGED <<tombFile, author>>

Part(s) == {i \in op.ids : ShardOf(i) = s}

\* The shards take their parts in the order in which the batch names them; the
\* last one makes the answer.
TakePart(s) ==
  /\ up /\ s \in op.todo /\ op.kind \in {"insert", "delete"}
  /\ Becomes(s, IF op.kind = "insert" THEN Inserted(engine[s], Part(s))
                                      ELSE Deleted(engine[s], Part(s)))
  /\ last' = [i \in Ids |-> IF i \in Part(s) THEN op.kind ELSE last[i]]
  /\ doubt' = doubt \ Part(s)
  /\ op' = IF op.todo = {s} THEN Idle ELSE [op EXCEPT !.todo = @ \ {s}]
  /\ UNCHANGED up

\* stop(): the engines flush one after the other.
Stop ==
  /\ up /\ op = Idle
  /\ op' = [kind |-> "stop", ids |-> {}, todo |-> Shards]
  /\ UNCHANGED <<up, tombFile, engine, last, doubt, author>>

StopEngine(s) ==
  /\ up /\ op.kind = "stop"
  /\ s \in op.todo /\ \A t \in op.todo : s <= t
  /\ Becomes(s, Flushed(engine[s]))
  /\ IF op.todo = {s} THEN up' = FALSE /\ op' = Idle
                      ELSE op' = [op EXCEPT !.todo = @ \ {s}] /\ UNCHANGED up
  /\ UNCHANGED <<last, doubt>>

Kill ==
  /\ up /\ up' = FALSE /\ op' = Idle
  /\ UNCHANGED <<tombFile, engine, last, doubt, author>>

\* The file is not what the engine of the id had in memory.
Overwritten == {i \in Ids : i \in tombFile <=> i \notin engine[ShardOf(i)].tombs}

\* The log holds a delete of the id and a later insert.
Masked == {i \in Ids : i \in engine[ShardOf(i)].dels /\ engine[ShardOf(i)].mem[i] = "row"}

\* start(): every engine loads the same file.
Start ==
  /\ ~up /\ up' = TRUE
  /\ engine' = [s \in Shards |-> Started(engine[s])]
  /\ doubt' = doubt \cup Overwritten \cup Masked
  /\ UNCHANGED <<tombFile, op, last, author>>

Next ==
  \/ \E kind \in {"insert", "delete"}, ids \in SUBSET Ids : Receive(kind, ids)
  \/ \E s \in Shards : TakePart(s) \/ StopEngine(s)
  \/ Stop \/ Kill \/ Start

Spec == Init /\ [][Next]_vars

-----------------------------------------------------------------------------
(***************************************************************************)
(* Properties.                                                             *)
(***************************************************************************)
\* The file is the one thing the shards of a writer disturb each other by.  What
\* an engine has last taken for an id, in a whole batch or in one that a kill cut
\* short, is what it serves, over flushes, merges and restarts, unless at a
\* restart the file of another shard disagreed with it or its log held the id
\* deleted and inserted again (WriterPipeline.insert, delete, stop and start,
\* LSMEngine._persist_tombstones and _load_tombstones).
WritesSurvive ==
  up => \A i \in Ids \ doubt :
          i \in Served(engine[ShardOf(i)]) <=> last[i] = "insert"

\* What the readers serve under the ids of a shard: the rows in its segments that
\* tombstones.json does not name.
Shown(i) == i \in Stored(engine[ShardOf(i)]) \ tombFile

\* The readers agree with the shard that has written the file last: they hide
\* what it has deleted and show what it has flushed.
ReadersSeeTheAuthor ==
  \A i \in Ids \ doubt : ShardOf(i) = author =>
    /\ last[i] = "delete" => ~Shown(i)
    /\ last[i] = "insert" /\ engine[author].mem[i] = "none" => Shown(i)

=============================================================================
