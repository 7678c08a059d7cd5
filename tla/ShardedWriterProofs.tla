------------------------- MODULE ShardedWriterProofs -------------------------
(***************************************************************************)
(* What survives in a writer with any number of shards: the properties of  *)
(* ShardedWriter as theorems.                                              *)
(*                                                                         *)
(* A flush merges all segments there are, so a row that a merge drops has  *)
(* no older copy left when its tombstone is forgotten.  This needs a merge *)
(* threshold of two or more.                                               *)
(***************************************************************************)
EXTENDS ShardedWriter, TLAPS

-----------------------------------------------------------------------------
(***************************************************************************)
(* The lists of segments.                                                  *)
(***************************************************************************)
LEMMA StoredAppended ==
  ASSUME NEW S, NEW segs \in Seq(S), NEW x \in S
  PROVE  AllOf(Append(segs, x)) = AllOf(segs) \cup x
<1>1. Append(segs, x) \in Seq(S) /\ Len(Append(segs, x)) = Len(segs) + 1 /\ Len(segs) \in Nat
        /\ \A n \in 1..Len(segs) : Append(segs, x)[n] = segs[n]
        /\ Append(segs, x)[Len(segs) + 1] = x
  OBVIOUS
<1>2. DOMAIN Append(segs, x) = 1..(Len(segs) + 1) /\ DOMAIN segs = 1..Len(segs)
  BY <1>1
<1>3. 1..(Len(segs) + 1) = 1..Len(segs) \cup {Len(segs) + 1}
  BY <1>1
<1>4. Range(Append(segs, x)) = Range(segs) \cup {x}
  BY <1>1, <1>2, <1>3 DEF Range
<1> QED
  BY <1>4 DEF AllOf

LEMMA StoredWhole ==
  ASSUME NEW S, NEW segs \in Seq(S)
  PROVE  /\ SubSeq(segs, 1, Len(segs)) = segs
         /\ SubSeq(segs, Len(segs) + 1, Len(segs)) = <<>>
OBVIOUS

LEMMA StoredOne ==
  ASSUME NEW x
  PROVE  /\ AllOf(<<x>> \o <<>>) = x
         /\ AllOf(<<>> \o <<>>) = {}
BY DEF AllOf, Range

-----------------------------------------------------------------------------
(***************************************************************************)
(* The engines.                                                            *)
(***************************************************************************)
Engines == [mem : [Ids -> {"none", "row", "gone"}], dels : SUBSET Ids,
            segs : Seq(SUBSET Ids), tombs : SUBSET Ids, wrote : BOOLEAN]

\* A deleted entry has its record in the log and its tombstone, and an id with a
\* delete record has an entry.
Consistent(e) ==
  /\ e \in Engines
  /\ \A i \in Ids : e.mem[i] = "gone" => i \in e.dels /\ i \in e.tombs
  /\ \A i \in e.dels : e.mem[i] # "none"

\* Fewer segments are left than a merge takes.
Sound(e) == Consistent(e) /\ Len(e.segs) < MergeThreshold

\* The engine has either not touched its tombstones or written them.
Persisted(e, new) == new.wrote \/ new.tombs = e.tombs

LEMMA MergedServes ==
  ASSUME MergeThreshold > 1, NEW e \in Engines, Len(e.segs) <= MergeThreshold,
         e.mem = NewEngine.mem, e.dels = {}
  PROVE  Sound(Merged(e)) /\ Served(Merged(e)) = Served(e) /\ Persisted(e, Merged(e))
<1> USE ShardedAssumption
<1> DEFINE m == Merged(e)
<1>0. Len(e.segs) \in Nat /\ e.segs \in Seq(SUBSET Ids) /\ e.tombs \subseteq Ids
        /\ e.wrote \in BOOLEAN
  BY DEF Engines
<1>1. CASE Len(e.segs) < MergeThreshold
  BY <1>1 DEF Merged, Sound, Consistent, Persisted, NewEngine
<1>2. CASE Len(e.segs) = MergeThreshold
  <2> DEFINE old == AllOf(e.segs)
             kept == old \ e.tombs
  <2>1. old = AllOf(SubSeq(e.segs, 1, MergeThreshold))
          /\ SubSeq(e.segs, MergeThreshold + 1, Len(e.segs)) = <<>>
    BY <1>0, <1>2, StoredWhole
  <2>2. m = [e EXCEPT !.segs = (IF kept = {} THEN <<>> ELSE <<kept>>) \o <<>>,
                      !.tombs = e.tombs \ old, !.wrote = TRUE]
    <3>1. ~(Len(e.segs) < MergeThreshold)
      BY <1>0, <1>2
    <3> QED
      BY <1>2, <2>1, <3>1 DEF Merged
  <2>3. old \subseteq Ids
    BY <1>0 DEF AllOf, Range
  <2> HIDE DEF m, old
  <2>4. /\ m.segs = (IF kept = {} THEN <<>> ELSE <<kept>>) \o <<>>
        /\ m.tombs = e.tombs \ old /\ m.wrote = TRUE
        /\ m.mem = e.mem /\ m.dels = e.dels
    BY <2>2 DEF Engines
  <2>5. m.segs \in Seq(SUBSET Ids) /\ Len(m.segs) < MergeThreshold
    <3>1. kept \in SUBSET Ids
      BY <2>3
    <3>2. <<kept>> \o <<>> \in Seq(SUBSET Ids) /\ Len(<<kept>> \o <<>>) = 1
      BY <3>1
    <3>3. <<>> \o <<>> \in Seq(SUBSET Ids) /\ Len(<<>> \o <<>>) = 0
      OBVIOUS
    <3>4. m.segs = <<kept>> \o <<>> \/ m.segs = <<>> \o <<>>
      BY <2>4
    <3>5. 0 < MergeThreshold /\ 1 < MergeThreshold
      OBVIOUS
    <3>6. CASE m.segs = <<kept>> \o <<>>
      BY <3>2, <3>5, <3>6
    <3>7. CASE m.segs = <<>> \o <<>>
      BY <3>3, <3>5, <3>7
    <3> QED
      BY <3>4, <3>6, <3>7
  <2>6. AllOf(m.segs) = kept
    BY <2>4, StoredOne
  <2>7. m \in Engines
    <3>1. m = [mem |-> m.mem, dels |-> m.dels, segs |-> m.segs, tombs |-> m.tombs,
               wrote |-> m.wrote]
      BY <2>2 DEF Engines
    <3> QED
      BY <3>1, <2>4, <2>5, <1>0 DEF Engines
  <2>8. \A i \in Ids : m.mem[i] = "none"
    BY <2>4 DEF NewEngine
  <2>9. Sound(m)
    BY <2>4, <2>5, <2>7, <2>8 DEF Sound, Consistent
  <2>10. Served(e) = AllOf(e.segs) \ e.tombs
    BY DEF Served, Stored, Holding, NewEngine
  <2>11. Served(m) = AllOf(m.segs) \ m.tombs
    BY <2>8 DEF Served, Stored, Holding
  <2>12. Served(m) = Served(e)
    BY <2>4, <2>6, <2>10, <2>11 DEF old
  <2> QED
    BY <2>4, <2>9, <2>12 DEF Persisted, m
<1> QED
  BY <1>0, <1>1, <1>2

LEMMA FlushedServes ==
  ASSUME MergeThreshold > 1, NEW e, Sound(e)
  PROVE  Sound(Flushed(e)) /\ Served(Flushed(e)) = Served(e) /\ Persisted(e, Flushed(e))
<1> USE ShardedAssumption
<1> DEFINE gone == Holding(e, "gone")
           rows == Holding(e, "row")
           c == [e EXCEPT !.tombs = e.tombs \cup gone, !.wrote = e.wrote \/ gone # {}]
           a == [c EXCEPT !.segs = Append(c.segs, rows), !.mem = NewEngine.mem, !.dels = {}]
<1>1. e \in Engines /\ Len(e.segs) < MergeThreshold /\ gone \subseteq e.tombs
  BY DEF Sound, Consistent, Holding
<1>2. /\ c.mem = e.mem /\ c.dels = e.dels /\ c.segs = e.segs /\ c.tombs = e.tombs
      /\ c.wrote \in BOOLEAN /\ c \in Engines
  <2>1. e.tombs \cup gone = e.tombs
    BY <1>1
  <2>2. c = [e EXCEPT !.tombs = e.tombs, !.wrote = e.wrote \/ gone # {}]
    BY <2>1
  <2>3. (e.wrote \/ gone # {}) \in BOOLEAN
    OBVIOUS
  <2> HIDE DEF gone
  <2> QED
    BY <1>1, <2>2, <2>3 DEF Engines
<1>3. CASE rows = {}
  <2>1. Flushed(e) = c
    BY <1>3 DEF Flushed
  <2>2. Sound(c) /\ Served(c) = Served(e) /\ Persisted(e, c)
    <3> HIDE DEF c
    <3> QED
      BY <1>2 DEF Sound, Consistent, Served, Stored, Holding, Persisted
  <2> QED
    BY <2>1, <2>2
<1>4. CASE rows # {}
  <2>1. Flushed(e) = Merged(a)
    BY <1>4 DEF Flushed
  <2> HIDE DEF c
  <2>2. rows \in SUBSET Ids /\ e.segs \in Seq(SUBSET Ids) /\ e.tombs \in SUBSET Ids
    BY <1>1 DEF Engines, Holding
  <2>3. NewEngine.mem \in [Ids -> {"none", "row", "gone"}]
    BY DEF NewEngine
  <2> HIDE DEF rows
  <2>4. Append(e.segs, rows) \in Seq(SUBSET Ids) /\ Len(Append(e.segs, rows)) <= MergeThreshold
    BY <1>1, <2>2
  <2>5. /\ a.mem = NewEngine.mem /\ a.dels = {} /\ a.segs = Append(e.segs, rows)
        /\ a.tombs = e.tombs /\ a.wrote = c.wrote
        /\ a \in Engines
    BY <1>2, <2>3, <2>4 DEF Engines
  <2> HIDE DEF a
  <2>7. Sound(Merged(a)) /\ Served(Merged(a)) = Served(a) /\ Persisted(a, Merged(a))
    BY <2>4, <2>5, MergedServes
  <2>8. AllOf(a.segs) = AllOf(e.segs) \cup rows
    <3> DEFINE S == SUBSET Ids
    <3>1. e.segs \in Seq(S) /\ rows \in S
      BY <2>2
    <3> HIDE DEF S
    <3>2. AllOf(Append(e.segs, rows)) = AllOf(e.segs) \cup rows
      BY <3>1, StoredAppended
    <3> QED
      BY <2>5, <3>2
  <2>9. Served(a) = (AllOf(e.segs) \cup rows) \ e.tombs
    BY <2>5, <2>8 DEF Served, Stored, Holding, NewEngine
  <2>10. Served(e) = (AllOf(e.segs) \cup rows) \ e.tombs
    BY <1>1 DEF Served, Stored, rows
  <2>11. Persisted(e, Merged(a))
    BY <2>5, <2>7 DEF Persisted
  <2> QED
    BY <2>1, <2>7, <2>9, <2>10, <2>11
<1> QED
  BY <1>3, <1>4

LEMMA InsertedServes ==
  ASSUME MergeThreshold > 1, NEW e, Sound(e), NEW ids \in SUBSET Ids
  PROVE  /\ Sound(Inserted(e, ids)) /\ Served(Inserted(e, ids)) = Served(e) \cup ids
         /\ Persisted(e, Inserted(e, ids))
<1> DEFINE new == [e EXCEPT !.mem = [i \in Ids |-> IF i \in ids THEN "row" ELSE e.mem[i]],
                            !.tombs = e.tombs \ ids, !.wrote = e.tombs \cap ids # {}]
<1>1. e \in Engines
  BY DEF Sound, Consistent
<1>2. /\ new.mem = [i \in Ids |-> IF i \in ids THEN "row" ELSE e.mem[i]]
      /\ new.tombs = e.tombs \ ids /\ new.wrote = (e.tombs \cap ids # {})
      /\ new.dels = e.dels /\ new.segs = e.segs
      /\ new \in Engines
  BY <1>1 DEF Engines
<1>3. Inserted(e, ids) \in {new, Flushed(new)}
  BY DEF Inserted
<1> HIDE DEF new
<1>4. Sound(new)
  BY <1>2 DEF Sound, Consistent, Engines
<1>5. Served(new) = Served(e) \cup ids
  BY <1>2 DEF Served, Stored, Holding
<1>6. Persisted(e, new)
  BY <1>1, <1>2 DEF Persisted, Engines
<1>7. Sound(Flushed(new)) /\ Served(Flushed(new)) = Served(new) /\ Persisted(new, Flushed(new))
  BY <1>4, FlushedServes
<1>8. new.wrote => Flushed(new).wrote
  <2>1. \A x \in Engines : x.wrote => Merged(x).wrote
    BY DEF Merged, Engines
  <2> QED
    BY <1>2, <2>1 DEF Flushed, Engines, Merged
<1>9. Persisted(e, Flushed(new))
  BY <1>6, <1>7, <1>8 DEF Persisted
<1> QED
  BY <1>3, <1>4, <1>5, <1>6, <1>7, <1>9

LEMMA DeletedServes ==
  ASSUME NEW e, Sound(e), NEW ids \in SUBSET Ids
  PROVE  /\ Sound(Deleted(e, ids)) /\ Served(Deleted(e, ids)) = Served(e) \ ids
         /\ Persisted(e, Deleted(e, ids))
<1> DEFINE new == Deleted(e, ids)
<1>1. e \in Engines
  BY DEF Sound, Consistent
<1>2. /\ new.mem = [i \in Ids |-> IF i \in ids THEN "gone" ELSE e.mem[i]]
      /\ new.tombs = e.tombs \cup ids /\ new.wrote = TRUE
      /\ new.dels = e.dels \cup ids /\ new.segs = e.segs
      /\ new \in Engines
  BY <1>1 DEF Deleted, Engines
<1> HIDE DEF new
<1>3. Sound(new)
  BY <1>2 DEF Sound, Consistent, Engines
<1>4. Served(new) = Served(e) \ ids
  BY <1>2 DEF Served, Stored, Holding
<1> QED
  BY <1>2, <1>3, <1>4 DEF Persisted, new

LEMMA StartedServes ==
  ASSUME NEW e, Sound(e), tombFile \subseteq Ids
  PROVE  /\ Sound(Started(e)) /\ Started(e).tombs = tombFile \cup e.dels
         /\ Started(e).mem = e.mem /\ Started(e).dels = e.dels
         /\ Started(e).segs = e.segs
<1>1. e \in Engines
  BY DEF Sound, Consistent
<1>2. /\ Started(e).tombs = tombFile \cup e.dels
      /\ Started(e).mem = e.mem /\ Started(e).dels = e.dels /\ Started(e).segs = e.segs
      /\ Started(e) \in Engines
  BY <1>1 DEF Started, Engines
<1> QED
  BY <1>2 DEF Sound, Consistent

-----------------------------------------------------------------------------
(***************************************************************************)
(* The writer.                                                             *)
(***************************************************************************)
\* The engines are sound, and for every id that is not in doubt its engine serves
\* what it has taken last.  The file holds nothing that its author has not, and
\* of the author's own ids all it has.
IInv ==
  /\ tombFile \subseteq Ids /\ op.ids \subseteq Ids /\ op.todo \subseteq Shards
  /\ DOMAIN engine = Shards /\ \A s \in Shards : Sound(engine[s])
  /\ last \in [Ids -> {"none", "insert", "delete"}]
  /\ author \in Shards
  /\ \A i \in Ids \ doubt : i \in Served(engine[ShardOf(i)]) <=> last[i] = "insert"
  /\ tombFile \subseteq engine[author].tombs
  /\ \A i \in Ids \ doubt :
       ShardOf(i) = author /\ i \in engine[author].tombs => i \in tombFile

LEMMA ShardOfId ==
  ASSUME NEW i \in Ids
  PROVE  ShardOf(i) \in Shards
<1>1. i \in Nat /\ NumShards \in Nat /\ NumShards > 0
  BY ShardedAssumption
<1>2. \A a, b \in Nat : b > 0 => a % b \in 0..(b - 1)
  OBVIOUS
<1> QED
  BY <1>1, <1>2 DEF ShardOf, Shards

\* The file after a step of the engine of s to e.
FileOf(s, e) ==
  \/ author' = s /\ e.wrote /\ tombFile' = e.tombs
  \/ author' = author /\ tombFile' = tombFile /\ e.tombs = engine[s].tombs

\* An engine takes a step that leaves the ids of doubt' in doubt.
LEMMA BecomesKeeps ==
  ASSUME IInv, NEW s \in Shards, NEW e, Sound(e), Persisted(engine[s], e), Becomes(s, e)
  PROVE  /\ tombFile' \subseteq Ids /\ author' \in Shards
         /\ DOMAIN engine' = Shards /\ \A t \in Shards : Sound(engine'[t])
         /\ \A t \in Shards \ {s} : engine'[t] = engine[t]
         /\ Served(engine'[s]) = Served(e) /\ engine'[s].tombs = e.tombs
         /\ tombFile' \subseteq engine'[author'].tombs
         /\ FileOf(s, e)
<1> DEFINE new == [e EXCEPT !.wrote = FALSE]
<1>1. e \in Engines
  BY DEF Sound, Consistent
<1>2. /\ new.mem = e.mem /\ new.dels = e.dels /\ new.segs = e.segs /\ new.tombs = e.tombs
      /\ new \in Engines
  BY <1>1 DEF Engines
<1>3. engine' = [engine EXCEPT ![s] = new]
  BY DEF Becomes
<1> HIDE DEF new
<1>4. DOMAIN engine' = Shards /\ engine'[s] = new
        /\ \A t \in Shards \ {s} : engine'[t] = engine[t]
  BY <1>3 DEF IInv
<1>5. Sound(new) /\ Served(new) = Served(e)
  BY <1>2 DEF Sound, Consistent, Served, Stored, Holding
<1>6. \A t \in Shards : Sound(engine'[t])
  BY <1>4, <1>5 DEF IInv
<1>7. FileOf(s, e)
  BY DEF FileOf, Becomes, Persisted
<1>8. tombFile' \subseteq Ids /\ author' \in Shards
  BY <1>1, <1>7 DEF FileOf, IInv, Engines
<1>9. tombFile' \subseteq engine'[author'].tombs
  BY <1>2, <1>4, <1>7 DEF FileOf, IInv
<1> QED
  BY <1>2, <1>4, <1>5, <1>6, <1>7, <1>8, <1>9

\* The part of a batch that falls to one shard.
LEMMA TakePartKeeps ==
  ASSUME MergeThreshold > 1, IInv, NEW s \in Shards, TakePart(s)
  PROVE  IInv'
<1> DEFINE e == IF op.kind = "insert" THEN Inserted(engine[s], Part(s))
                                      ELSE Deleted(engine[s], Part(s))
<1>1. Sound(engine[s]) /\ Part(s) \in SUBSET Ids
  BY DEF IInv, Part
<1>2. /\ Sound(e) /\ Persisted(engine[s], e)
      /\ op.kind = "insert" => Served(e) = Served(engine[s]) \cup Part(s)
      /\ op.kind # "insert" => Served(e) = Served(engine[s]) \ Part(s) /\ e.wrote
  <2>1. CASE op.kind = "insert"
    BY <1>1, <2>1, InsertedServes
  <2>2. CASE op.kind # "insert"
    <3>1. e = Deleted(engine[s], Part(s))
      BY <2>2
    <3>2. e.wrote
      BY <1>1, <3>1 DEF Deleted, Sound, Consistent, Engines
    <3> QED
      BY <1>1, <2>2, <3>1, <3>2, DeletedServes
  <2> QED
    BY <2>1, <2>2
<1>3. Becomes(s, e)
  BY DEF TakePart
<1> HIDE DEF e
<1>4. /\ tombFile' \subseteq Ids /\ author' \in Shards
      /\ DOMAIN engine' = Shards /\ \A t \in Shards : Sound(engine'[t])
      /\ \A t \in Shards \ {s} : engine'[t] = engine[t]
      /\ Served(engine'[s]) = Served(e) /\ engine'[s].tombs = e.tombs
      /\ tombFile' \subseteq engine'[author'].tombs
      /\ FileOf(s, e)
  BY <1>2, <1>3, BecomesKeeps
<1>5. op.kind \in {"insert", "delete"} /\ doubt' = doubt \ Part(s)
        /\ last' = [i \in Ids |-> IF i \in Part(s) THEN op.kind ELSE last[i]]
  BY DEF TakePart
<1>6. op'.ids \subseteq Ids /\ op'.todo \subseteq Shards
  <2>1. op' = Idle \/ op' = [op EXCEPT !.todo = op.todo \ {s}]
    BY DEF TakePart
  <2>2. CASE op' = Idle
    BY <2>2 DEF Idle
  <2>3. CASE op' = [op EXCEPT !.todo = op.todo \ {s}]
    <3>1. op'.ids = op.ids
      BY <2>3
    <3>2. op'.todo \in {op.todo, op.todo \ {s}}
      BY <2>3
    <3> QED
      BY <3>1, <3>2 DEF IInv
  <2> QED
    BY <2>1, <2>2, <2>3
<1>7. last' \in [Ids -> {"none", "insert", "delete"}]
  BY <1>5 DEF IInv
<1>8. ASSUME NEW i \in Ids, i \notin doubt'
      PROVE  i \in Served(engine'[ShardOf(i)]) <=> last'[i] = "insert"
  <2>1. CASE i \in Part(s)
    <3>1. ShardOf(i) = s
      BY <2>1 DEF Part
    <3> QED
      BY <1>2, <1>4, <1>5, <2>1, <3>1
  <2>2. CASE i \notin Part(s)
    <3>1. i \notin doubt /\ last'[i] = last[i]
      BY <1>5, <1>8, <2>2
    <3>2. i \in Served(engine'[ShardOf(i)]) <=> i \in Served(engine[ShardOf(i)])
      BY <1>2, <1>4, <2>2, ShardOfId
    <3> QED
      BY <3>1, <3>2 DEF IInv
  <2> QED
    BY <2>1, <2>2
<1>9. ASSUME NEW i \in Ids, i \notin doubt', ShardOf(i) = author', i \in engine'[author'].tombs
      PROVE  i \in tombFile'
  <2>1. CASE author' = s /\ tombFile' = e.tombs
    BY <1>4, <1>9, <2>1
  <2>2. CASE author' = author /\ tombFile' = tombFile /\ e.tombs = engine[s].tombs
               /\ ~e.wrote
    <3>1. i \in engine[author].tombs
      BY <1>4, <1>9, <2>2
    <3>2. CASE i \in Part(s)
      <4>1. op.kind = "insert" /\ i \in Served(engine'[s])
        BY <1>2, <1>4, <1>5, <2>2, <3>2
      <4>2. i \notin engine'[s].tombs /\ ShardOf(i) = s
        BY <3>2, <4>1 DEF Served, Part
      <4> QED
        BY <1>9, <4>2
    <3>3. CASE i \notin Part(s)
      BY <1>5, <1>9, <2>2, <3>1, <3>3 DEF IInv
    <3> QED
      BY <3>2, <3>3
  <2>3. CASE e.wrote
    BY <1>3, <2>1, <2>3 DEF Becomes
  <2> QED
    BY <1>4, <2>1, <2>2, <2>3 DEF FileOf
<1> QED
  BY <1>4, <1>6, <1>7, <1>8, <1>9 DEF IInv

LEMMA StopEngineKeeps ==
  ASSUME MergeThreshold > 1, IInv, NEW s \in Shards, StopEngine(s)
  PROVE  IInv'
<1> DEFINE e == Flushed(engine[s])
<1>1. Sound(engine[s])
  BY DEF IInv
<1>2. Sound(e) /\ Served(e) = Served(engine[s]) /\ Persisted(engine[s], e)
  BY <1>1, FlushedServes
<1>3. Becomes(s, e)
  BY DEF StopEngine
<1> HIDE DEF e
<1>4. /\ tombFile' \subseteq Ids /\ author' \in Shards
      /\ DOMAIN engine' = Shards /\ \A t \in Shards : Sound(engine'[t])
      /\ \A t \in Shards \ {s} : engine'[t] = engine[t]
      /\ Served(engine'[s]) = Served(e) /\ engine'[s].tombs = e.tombs
      /\ tombFile' \subseteq engine'[author'].tombs
      /\ FileOf(s, e)
  BY <1>2, <1>3, BecomesKeeps
<1>5. last' = last /\ doubt' = doubt
  BY DEF StopEngine
<1>6. op'.ids \subseteq Ids /\ op'.todo \subseteq Shards
  <2>1. op' = Idle \/ op' = [op EXCEPT !.todo = op.todo \ {s}]
    BY DEF StopEngine
  <2>2. CASE op' = Idle
    BY <2>2 DEF Idle
  <2>3. CASE op' = [op EXCEPT !.todo = op.todo \ {s}]
    <3>1. op'.ids = op.ids
      BY <2>3
    <3>2. op'.todo \in {op.todo, op.todo \ {s}}
      BY <2>3
    <3> QED
      BY <3>1, <3>2 DEF IInv
  <2> QED
    BY <2>1, <2>2, <2>3
<1>7. \A i \in Ids : Served(engine'[ShardOf(i)]) = Served(engine[ShardOf(i)])
  BY <1>2, <1>4, ShardOfId
<1>8. \A i \in Ids \ doubt :
        ShardOf(i) = author' /\ i \in engine'[author'].tombs => i \in tombFile'
  <2>1. CASE author' = s /\ tombFile' = e.tombs
    BY <1>4, <2>1
  <2>2. CASE author' = author /\ tombFile' = tombFile /\ e.tombs = engine[s].tombs
    BY <1>4, <2>2 DEF IInv
  <2> QED
    BY <1>4, <2>1, <2>2 DEF FileOf
<1> QED
  BY <1>4, <1>5, <1>6, <1>7, <1>8 DEF IInv

\* An id that a restart does not put in doubt finds the tombstone it had.
LEMMA StartKeeps ==
  ASSUME IInv, Start
  PROVE  IInv'
<1>1. /\ engine' = [s \in Shards |-> Started(engine[s])]
      /\ doubt' = doubt \cup Overwritten \cup Masked
      /\ UNCHANGED <<tombFile, op, last, author>>
  BY DEF Start
<1>2. \A s \in Shards :
        /\ Sound(engine'[s]) /\ engine'[s].tombs = tombFile \cup engine[s].dels
        /\ engine'[s].mem = engine[s].mem /\ engine'[s].dels = engine[s].dels
        /\ engine'[s].segs = engine[s].segs
  BY <1>1, StartedServes DEF IInv
<1>3. ASSUME NEW i \in Ids, i \notin doubt'
      PROVE  LET e == engine[ShardOf(i)] IN
             /\ i \in tombFile <=> i \in e.tombs
             /\ i \in e.dels => e.mem[i] = "gone" /\ i \in e.tombs
  <2>1. i \notin Overwritten /\ i \notin Masked
    BY <1>1, <1>3
  <2>2. Sound(engine[ShardOf(i)])
    BY ShardOfId DEF IInv
  <2> QED
    BY <2>1, <2>2 DEF Overwritten, Masked, Sound, Consistent, Engines
<1>4. ASSUME NEW i \in Ids, i \notin doubt'
      PROVE  i \in Served(engine'[ShardOf(i)]) <=> last'[i] = "insert"
  <2>1. i \in Served(engine'[ShardOf(i)]) <=> i \in Served(engine[ShardOf(i)])
    BY <1>2, <1>3, <1>4, ShardOfId DEF Served, Stored, Holding
  <2> QED
    BY <1>1, <1>4, <2>1 DEF IInv
<1>5. ASSUME NEW i \in Ids, i \notin doubt', ShardOf(i) = author', i \in engine'[author'].tombs
      PROVE  i \in tombFile'
  BY <1>1, <1>2, <1>3, <1>5 DEF IInv
<1>6. tombFile' \subseteq engine'[author'].tombs
  BY <1>1, <1>2 DEF IInv
<1> QED
  BY <1>1, <1>2, <1>4, <1>5, <1>6 DEF IInv

LEMMA InitSound ==
  ASSUME Init
  PROVE  IInv
<1>1. NewEngine \in Engines /\ Len(NewEngine.segs) = 0 /\ AllOf(NewEngine.segs) = {}
  BY DEF NewEngine, Engines, AllOf, Range
<1>2. Sound(NewEngine)
  BY <1>1, ShardedAssumption DEF Sound, Consistent, NewEngine
<1>3. Served(NewEngine) = {}
  BY <1>1 DEF Served, Stored, Holding, NewEngine
<1>4. \A i \in Ids : engine[ShardOf(i)] = NewEngine
  BY ShardOfId DEF Init
<1>5. NewEngine.tombs = {}
  BY DEF NewEngine
<1> QED
  BY <1>2, <1>3, <1>4, <1>5 DEF Init, IInv, Idle

LEMMA ShardedInvariant ==
  ASSUME MergeThreshold > 1
  PROVE  Spec => []IInv
<1>1. Init => IInv
  BY InitSound
<1>2. IInv /\ [Next]_vars => IInv'
  <2> SUFFICES ASSUME IInv, [Next]_vars
               PROVE  IInv'
    OBVIOUS
  <2>1. CASE UNCHANGED vars
    BY <2>1 DEF vars, IInv
  <2>2. ASSUME NEW kind, NEW ids \in SUBSET Ids, Receive(kind, ids)
        PROVE  IInv'
    BY <2>2, ShardOfId DEF Receive, IInv
  <2>3. CASE Stop
    BY <2>3 DEF Stop, IInv
  <2>4. CASE Kill
    BY <2>4 DEF Kill, Idle, IInv
  <2> QED
    BY <2>1, <2>2, <2>3, <2>4, TakePartKeeps, StopEngineKeeps, StartKeeps DEF Next
<1> QED
  BY <1>1, <1>2, PTL DEF Spec

\* Whatever the number of shards: a write is lost, or comes back, only where a
\* restart has found the file or the log at odds with the id's own engine
\* (WriterPipeline over LSMEngine.start, insert, delete, flush and merge).
THEOREM WritesOfShardsSurvive ==
  ASSUME MergeThreshold > 1
  PROVE  Spec => []WritesSurvive
<1>1. IInv => WritesSurvive
  BY DEF IInv, WritesSurvive
<1> QED
  BY <1>1, ShardedInvariant, PTL

\* The readers, who know the segments and the file only, agree with the shard
\* that has written the file last (SegmentCache.refresh, _persist_tombstones).
THEOREM ReadersFollowTheAuthor ==
  ASSUME MergeThreshold > 1
  PROVE  Spec => []ReadersSeeTheAuthor
<1>1. IInv => ReadersSeeTheAuthor
  <2> SUFFICES ASSUME IInv, NEW i \in Ids \ doubt, ShardOf(i) = author
               PROVE  /\ last[i] = "delete" => ~Shown(i)
                      /\ last[i] = "insert" /\ engine[author].mem[i] = "none" => Shown(i)
    BY DEF ReadersSeeTheAuthor
  <2>1. Sound(engine[author]) /\ (i \in Served(engine[author]) <=> last[i] = "insert")
          /\ (i \in tombFile <=> i \in engine[author].tombs)
    BY DEF IInv
  <2> QED
    BY <2>1 DEF Shown, Served, Holding, Sound, Consistent
<1> QED
  BY <1>1, ShardedInvariant, PTL

=============================================================================
