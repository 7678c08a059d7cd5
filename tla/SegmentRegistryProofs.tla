------------------------ MODULE SegmentRegistryProofs ------------------------
(***************************************************************************)
(* Proofs about the registration of segments, for any tasks, calls, merge  *)
(* threshold and numbers of flushes and faults: runs may overlap, and what *)
(* their clients have given up may still be executing.                     *)
(***************************************************************************)
EXTENDS SegmentRegistry, TLAPS

-----------------------------------------------------------------------------
(***************************************************************************)
(* The invariant of the runs.  A run that waits for its list has every     *)
(* segment of the writer among its local_ids, but for the exposed ones; a  *)
(* segment flushed after that is a new one, so what a run has still to     *)
(* delete, and every delete that is executing, its client gone or not, is  *)
(* of a segment that the writer has dropped or that is exposed.            *)
(***************************************************************************)

\* The segments there can have been so far.
Known == {s \in Segment : s.snap <= flushes /\ s.uid <= flushes}

\* A run waits for one call, of the kind of its loop.
CallFacts ==
  \A c \in Calls : call[c].owner # None =>
     /\ call[c].kind = task[call[c].owner].run
     /\ \A d \in Calls : call[d].owner = call[c].owner => c = d

KnownFacts ==
  /\ local \cup remote \cup registered \subseteq Known
  /\ \A c \in Calls : call[c].answer \cup {call[c].seg} \subseteq Known

TaskFacts ==
  \A t \in Tasks :
     /\ task[t].todo \subseteq Known
     /\ task[t].run = "list" => local \subseteq task[t].seen \cup exposed
     /\ task[t].run = "delete" => task[t].todo \cap local \subseteq exposed

\* No call deletes a segment of the writer that is not exposed, and a registration
\* that a run waits for has listed its segment and nothing has taken it away.
SegFacts ==
  \A c \in Calls : call[c].seg \in local \ exposed =>
     /\ call[c].kind # "delete"
     /\ call[c].kind = "register" /\ call[c].owner # None /\ call[c].step # "start" =>
          call[c].seg \in remote

RunInv == CallFacts /\ KnownFacts /\ TaskFacts /\ SegFacts /\ RegisteredIsRemote

\* A segment that the snapshot reaches, and will after every write in progress.
Settled(s) ==
  /\ s.snap <= snapshot
  /\ \A d \in Calls : At(d, "register", "write") => s.snap <= call[d].read

\* A finished registration that was not overtaken, and whatever the writer has
\* taken as registered in other ways, is settled.
SnapshotFacts ==
  /\ \A s \in registered \ overtaken : Settled(s)
  /\ \A c \in Calls :
       At(c, "register", "done") /\ call[c].seg \notin overtaken => Settled(call[c].seg)

-----------------------------------------------------------------------------
(***************************************************************************)
(* Helpers.                                                                *)
(***************************************************************************)

\* A flush keeps old segments and adds new ones.
LEMMA FlushAddsNew ==
  ASSUME TypeOK, Flush
  PROVE  /\ flushes' = flushes + 1 /\ flushes' \in 0..MaxFlushes
         /\ local' \subseteq Segment
         /\ \A s \in local' \ local :
              \/ s.snap = flushes + 1 /\ s.uid = 0
              \/ s.uid = flushes + 1 /\ (s.snap = flushes + 1 \/ \E r \in local : s.snap = r.snap)
<1> DEFINE segs == local \cup {[snap |-> flushes + 1, uid |-> 0]}
<1>1. flushes \in Nat /\ MaxFlushes \in Nat /\ flushes < MaxFlushes /\ local \subseteq Segment
  BY RegistryAssumption DEF TypeOK, Flush
<1>2. PICK new \in SUBSET {[snap |-> s.snap, uid |-> flushes + 1] : s \in segs} :
        local' \subseteq segs \cup new
  <2>1. local' \in Merged(segs)
    BY DEF Flush, Flushed
  <2>2. CASE Cardinality(segs) < MergeThreshold
    <3>1. local' = segs
      BY <2>1, <2>2 DEF Merged
    <3> QED
      BY <3>1
  <2>3. CASE ~(Cardinality(segs) < MergeThreshold)
    <3>1. PICK old \in SUBSET segs :
            local' \in {(segs \ old) \cup {[snap |-> s.snap, uid |-> flushes + 1]} : s \in Newest(old)}
                         \cup {segs \ old}
      BY <2>1, <2>3 DEF Merged
    <3>2. CASE local' = segs \ old
      BY <3>2
    <3>3. CASE local' # segs \ old
      <4>1. PICK s \in Newest(old) : local' = (segs \ old) \cup {[snap |-> s.snap, uid |-> flushes + 1]}
        BY <3>1, <3>3
      <4>2. s \in segs
        BY DEF Newest
      <4> QED
        BY <4>1, <4>2
    <3> QED
      BY <3>2, <3>3
  <2> QED
    BY <2>2, <2>3
<1>3. \A s \in local' : \/ s \in local
                        \/ s = [snap |-> flushes + 1, uid |-> 0]
                        \/ \E r \in segs : s = [snap |-> r.snap, uid |-> flushes + 1]
  BY <1>2
<1> QED
  BY <1>1, <1>3 DEF Flush, Segment

\* A request takes a free place.
LEMMA SentTakesPlace ==
  ASSUME NEW calls, NEW request, call' \in Sent(calls, request)
  PROVE  \E e \in Calls : calls[e] = FreeCall /\ call' = [calls EXCEPT ![e] = request]
<1>1. PICK e : e = CHOOSE c \in Calls : calls[c] = FreeCall
  OBVIOUS
<1>2. (\E c \in Calls : calls[c] = FreeCall) /\ call' = [calls EXCEPT ![e] = request]
  BY <1>1 DEF Sent
<1> QED
  BY <1>1, <1>2

\* How a run goes on.
LEMMA GoOnCases ==
  ASSUME NEW t, NEW calls, NEW stale, NEW segs, NEW reg, GoOn(t, calls, stale, segs, reg)
  PROVE  \/ \E e \in Calls, s \in stale :
              /\ calls[e] = FreeCall
              /\ task' = [task EXCEPT ![t] = [run |-> "delete", seen |-> {}, todo |-> stale \ {s}]]
              /\ call' = [calls EXCEPT ![e] = Request(t, "delete", s)]
         \/ \E e \in Calls, s \in segs :
              /\ calls[e] = FreeCall
              /\ task' = [task EXCEPT ![t] = [run |-> "register", seen |-> {},
                                             todo |-> {u \in segs : u.snap > s.snap}]]
              /\ call' = [calls EXCEPT ![e] = Request(t, "register", s)]
         \/ task' = [task EXCEPT ![t] = IdleTask] /\ call' = calls
<1>1. CASE \E s \in stale :
             /\ task' = [task EXCEPT ![t] = [run |-> "delete", seen |-> {}, todo |-> stale \ {s}]]
             /\ call' \in Sent(calls, Request(t, "delete", s))
  <2>1. PICK s \in stale :
          /\ task' = [task EXCEPT ![t] = [run |-> "delete", seen |-> {}, todo |-> stale \ {s}]]
          /\ call' \in Sent(calls, Request(t, "delete", s))
    BY <1>1
  <2>2. \E e \in Calls : calls[e] = FreeCall /\ call' = [calls EXCEPT ![e] = Request(t, "delete", s)]
    BY <2>1, SentTakesPlace
  <2> QED
    BY <2>1, <2>2
<1>2. CASE \E s \in segs :
             /\ task' = [task EXCEPT ![t] = [run |-> "register", seen |-> {},
                                            todo |-> {u \in segs : u.snap > s.snap}]]
             /\ call' \in Sent(calls, Request(t, "register", s))
  <2>1. PICK s \in segs :
          /\ task' = [task EXCEPT ![t] = [run |-> "register", seen |-> {},
                                         todo |-> {u \in segs : u.snap > s.snap}]]
          /\ call' \in Sent(calls, Request(t, "register", s))
    BY <1>2
  <2>2. \E e \in Calls : calls[e] = FreeCall /\ call' = [calls EXCEPT ![e] = Request(t, "register", s)]
    BY <2>1, SentTakesPlace
  <2> QED
    BY <2>1, <2>2
<1> QED
  BY <1>1, <1>2 DEF GoOn, First

-----------------------------------------------------------------------------
(***************************************************************************)
(* Types.                                                                  *)
(***************************************************************************)
LEMMA RequestTypes ==
  /\ FreeCall \in Call /\ IdleTask \in Task
  /\ \A t \in Tasks, kind \in Kinds, s \in Segment : Request(t, kind, s) \in Call
BY DEF FreeCall, IdleTask, Request, Call, Task, Kinds, Steps, Runs, Segment, NoSegment

LEMMA RequestFields ==
  ASSUME NEW t, NEW kind, NEW s
  PROVE  LET c == Request(t, kind, s)
         IN /\ c.owner = t /\ c.kind = kind /\ c.seg = s /\ c.answer = {} /\ c.step = "start"
            /\ FreeCall.owner = None /\ FreeCall.kind = "free" /\ FreeCall.seg = NoSegment
            /\ FreeCall.answer = {}
BY DEF Request, FreeCall

LEMMA GoOnTypes ==
  ASSUME task \in [Tasks -> Task], NEW t \in Tasks, NEW calls \in [Calls -> Call],
         NEW stale \in SUBSET Segment, NEW segs \in SUBSET Segment, NEW reg,
         GoOn(t, calls, stale, segs, reg)
  PROVE  task' \in [Tasks -> Task] /\ call' \in [Calls -> Call]
<1>1. \A s \in Segment : Request(t, "delete", s) \in Call /\ Request(t, "register", s) \in Call
  BY RequestTypes DEF Kinds
<1>2. \A run \in Runs, todo \in SUBSET Segment : [run |-> run, seen |-> {}, todo |-> todo] \in Task
  BY DEF Task
<1>3. ASSUME NEW s \in segs
      PROVE  {u \in segs : u.snap > s.snap} \in SUBSET Segment
  OBVIOUS
<1>4. CASE \E e \in Calls, s \in stale :
              /\ task' = [task EXCEPT ![t] = [run |-> "delete", seen |-> {}, todo |-> stale \ {s}]]
              /\ call' = [calls EXCEPT ![e] = Request(t, "delete", s)]
  <2>1. PICK e \in Calls, s \in stale :
              /\ task' = [task EXCEPT ![t] = [run |-> "delete", seen |-> {}, todo |-> stale \ {s}]]
              /\ call' = [calls EXCEPT ![e] = Request(t, "delete", s)]
    BY <1>4
  <2>2. [run |-> "delete", seen |-> {}, todo |-> stale \ {s}] \in Task
    BY <1>2 DEF Runs
  <2>3. Request(t, "delete", s) \in Call
    BY <1>1
  <2> QED
    BY <2>1, <2>2, <2>3
<1>5. CASE \E e \in Calls, s \in segs :
              /\ task' = [task EXCEPT ![t] = [run |-> "register", seen |-> {},
                                             todo |-> {u \in segs : u.snap > s.snap}]]
              /\ call' = [calls EXCEPT ![e] = Request(t, "register", s)]
  <2>1. PICK e \in Calls, s \in segs :
              /\ task' = [task EXCEPT ![t] = [run |-> "register", seen |-> {},
                                             todo |-> {u \in segs : u.snap > s.snap}]]
              /\ call' = [calls EXCEPT ![e] = Request(t, "register", s)]
    BY <1>5
  <2>2. [run |-> "register", seen |-> {}, todo |-> {u \in segs : u.snap > s.snap}] \in Task
    BY <1>2, <1>3 DEF Runs
  <2>3. Request(t, "register", s) \in Call
    BY <1>1
  <2> QED
    BY <2>1, <2>2, <2>3
<1>6. CASE task' = [task EXCEPT ![t] = IdleTask] /\ call' = calls
  BY <1>6, RequestTypes
<1> QED
  BY <1>4, <1>5, <1>6, GoOnCases

\* What becomes of a call that ends or is given up.
LEMMA EndedTypes ==
  ASSUME call \in [Calls -> Call], NEW c \in Calls
  PROVE  /\ Abandoned(c) \in Call
         /\ \A answer \in SUBSET Segment : Answered(c, answer) \in Call
<1>1. [call[c] EXCEPT !.owner = None] \in Call
  BY DEF Call
<1>2. \A answer \in SUBSET Segment :
        [call[c] EXCEPT !.step = "done", !.read = 0, !.answer = answer] \in Call
  BY DEF Call, Steps
<1> QED
  BY <1>1, <1>2, RequestTypes DEF Abandoned, Answered

\* The registry keeps its types, whatever the faults.
THEOREM RegistryTypes == Spec => []TypeOK
<1>1. Init => TypeOK
  BY RequestTypes, RegistryAssumption DEF Init, TypeOK
<1>2. TypeOK /\ [Next]_vars => TypeOK'
  <2> SUFFICES ASSUME TypeOK, [Next]_vars PROVE TypeOK'
    OBVIOUS
  <2> USE DEF TypeOK
  <2>a. \A t \in Tasks, c \in Calls : call[c].owner = t => call[c].kind \in Kinds /\ call[c].seg \in Segment
    BY DEF Call
  <2>b. \A c \in Calls : Taken(c) \in [Calls -> Call]
    BY RequestTypes DEF Taken
  <2>c. Fault => faults' \in 0..MaxFaults
    BY RegistryAssumption DEF Fault
  <2>1. ASSUME NEW t \in Tasks, NEW segs \in SUBSET Segment, Start(t, segs)
        PROVE  /\ task' \in [Tasks -> Task] /\ call' \in [Calls -> Call]
               /\ UNCHANGED <<registered, remote, snapshot, faults, overtaken>>
    <3>1. Request(t, "list", NoSegment) \in Call
      BY RequestTypes DEF Kinds, NoSegment, Segment
    <3>2. [run |-> "list", seen |-> segs, todo |-> {}] \in Task
      BY DEF Task, Runs
    <3>3. \E e \in Calls : call' = [call EXCEPT ![e] = Request(t, "list", NoSegment)]
      BY <2>1, SentTakesPlace DEF Start
    <3> QED
      BY <2>1, <3>1, <3>2, <3>3 DEF Start, etcd
  <2>2. ASSUME NEW t \in Tasks, Tick(t) \/ InsertFlush(t) PROVE TypeOK'
    <3>1. CASE Tick(t)
      BY <2>1, <3>1 DEF Tick
    <3>2. CASE InsertFlush(t)
      BY <2>1, <3>2, FlushAddsNew DEF InsertFlush
    <3> QED
      BY <2>2, <3>1, <3>2
  <2>3. ASSUME NEW t \in Tasks, NEW c \in Calls, Resume(t, c) PROVE TypeOK'
    <3>1. /\ call[c].seg \in Segment /\ call[c].answer \subseteq Segment
          /\ task[t].todo \subseteq Segment
      BY DEF Call, Task
    <3>2. CASE Listed(t, c)
      BY <2>b, <3>1, <3>2, GoOnTypes DEF Listed, etcd, history
    <3>3. CASE Deleted(t, c)
      BY <2>b, <3>1, <3>3, GoOnTypes DEF Deleted, etcd, history
    <3>4. CASE Registered(t, c)
      BY <2>b, <3>1, <3>4, GoOnTypes DEF Registered, etcd, history
    <3> QED
      BY <2>3, <3>2, <3>3, <3>4 DEF Resume
  <2>4. ASSUME NEW t \in Tasks, NEW c \in Calls, Retry(t, c) PROVE TypeOK'
    <3>1. PICK e \in Calls :
            call' = [[call EXCEPT ![c] = Abandoned(c)] EXCEPT ![e] = Request(t, call[c].kind, call[c].seg)]
      BY <2>4, SentTakesPlace DEF Retry
    <3>2. Request(t, call[c].kind, call[c].seg) \in Call
      BY <2>4, <2>a, RequestTypes DEF Retry
    <3>3. call' \in [Calls -> Call]
      BY <3>1, <3>2, EndedTypes
    <3> QED
      BY <2>4, <2>c, <3>3 DEF Retry, writer, etcd, history
  <2>5. ASSUME NEW t \in Tasks, NEW c \in Calls, Fail(t, c) PROVE TypeOK'
    BY <2>5, <2>c, EndedTypes, RequestTypes DEF Fail, etcd, history
  <2>6. ASSUME NEW c \in Calls, Handle(c) \/ Abort(c) PROVE TypeOK'
    <3>1. \A step \in Steps : [call[c] EXCEPT !.step = step] \in Call
      BY DEF Call
    <3>2. CASE ListSegments(c)
      BY <3>2, EndedTypes DEF ListSegments, writer, etcd, history
    <3>3. CASE DeleteSegment(c)
      <4>1. call' \in [Calls -> Call]
        BY <3>3, EndedTypes DEF DeleteSegment
      <4> QED
        BY <3>3, <4>1 DEF DeleteSegment, writer, history
    <3>4. CASE PutSegment(c)
      BY <3>1, <3>4 DEF PutSegment, writer, Steps, Call, history
    <3>5. CASE ReadSnapshot(c)
      <4>1. [call[c] EXCEPT !.step = "write", !.read = snapshot] \in Call
        BY DEF Call, Steps
      <4> QED
        BY <3>5, <4>1 DEF ReadSnapshot, writer, etcd, history
    <3>6. CASE WriteSnapshot(c)
      <4>1. Larger(call[c].read, call[c].seg.snap) \in Nat
        BY DEF Larger, Call, Segment
      <4>2. call' \in [Calls -> Call]
        BY <3>6, EndedTypes DEF WriteSnapshot
      <4>3. call[c].seg \in Segment
        BY DEF Call
      <4> QED
        BY <3>6, <4>1, <4>2, <4>3 DEF WriteSnapshot, writer
    <3>7. CASE Abort(c)
      BY <2>b, <3>7 DEF Abort, writer, etcd, history
    <3> QED
      BY <2>6, <3>2, <3>3, <3>4, <3>5, <3>6, <3>7 DEF Handle
  <2>7. CASE Restart
    <3>1. call' \in [Calls -> Call]
      BY <2>7, EndedTypes DEF Restart
    <3>2. registered' \subseteq Segment /\ overtaken' \subseteq Segment
      BY <2>7 DEF Restart
    <3> QED
      BY <2>7, <2>c, <3>1, <3>2, RequestTypes, FlushAddsNew DEF Restart, etcd
  <2>8. CASE UNCHANGED vars
    BY <2>8 DEF vars, writer, etcd, history
  <2> QED
    BY <2>2, <2>3, <2>4, <2>5, <2>6, <2>7, <2>8 DEF Next
<1> QED
  BY <1>1, <1>2, PTL DEF Spec

-----------------------------------------------------------------------------
(***************************************************************************)
(* The runs.                                                               *)
(***************************************************************************)

\* A run has one call.
LEMMA OnlyItsCall ==
  ASSUME TypeOK, CallFacts, NEW c \in Calls, NEW d \in Calls,
         call[c].owner \in Tasks, call[d].owner = call[c].owner
  PROVE  c = d
BY RegistryAssumption DEF CallFacts

\* A task that a call is for is running.
LEMMA OwnersRun ==
  ASSUME TypeOK, CallFacts, NEW c \in Calls, call[c].owner # None
  PROVE  /\ call[c].owner \in Tasks /\ task[call[c].owner].run # "idle"
         /\ call[c].kind = task[call[c].owner].run /\ call[c].kind # "free"
<1>1. call[c].owner \in Tasks /\ call[c].kind = task[call[c].owner].run
  BY DEF TypeOK, Call, CallFacts
<1>2. call[c].kind \in Kinds /\ task[call[c].owner].run \in Runs
  BY <1>1 DEF TypeOK, Call, Task
<1> QED
  BY <1>1, <1>2 DEF Kinds, Runs

LEMMA KnownStays ==
  ASSUME TypeOK, UNCHANGED flushes
  PROVE  Known' = Known /\ NoSegment \in Known
BY DEF Known, NoSegment, Segment, TypeOK

\* The next call of a run that has had its answer.
LEMMA NextCall ==
  ASSUME TypeOK, RunInv, TypeOK', NEW t \in Tasks, NEW c \in Calls, call[c].owner = t,
         NEW e \in Calls, Taken(c)[e] = FreeCall, NEW kind \in {"delete", "register"},
         NEW s \in Known, NEW todo \in SUBSET Known,
         task' = [task EXCEPT ![t] = [run |-> kind, seen |-> {}, todo |-> todo]],
         call' = [Taken(c) EXCEPT ![e] = Request(t, kind, s)],
         kind = "delete" => ({s} \cup todo) \cap local \subseteq exposed,
         UNCHANGED <<local, flushes, remote, exposed>>,
         registered' \subseteq Known, RegisteredIsRemote'
  PROVE  RunInv'
<1>1. /\ \A d \in Calls \ {c, e} : call'[d] = call[d]
      /\ call'[e] = Request(t, kind, s) /\ (c # e => call'[c] = FreeCall)
  BY DEF TypeOK, Taken
<1>2. /\ \A u \in Tasks \ {t} : task'[u] = task[u]
      /\ task'[t].run = kind /\ task'[t].todo = todo
  BY DEF TypeOK, Task
<1>3. /\ call'[e].owner = t /\ call'[e].kind = kind /\ call'[e].seg = s
      /\ call'[e].answer = {} /\ call'[e].step = "start" /\ t # None
      /\ FreeCall.owner = None /\ FreeCall.kind = "free" /\ FreeCall.seg = NoSegment
      /\ FreeCall.answer = {}
  BY <1>1, RequestFields, RegistryAssumption
<1>4. \A d \in Calls \ {e} : call'[d].owner # t
  BY <1>1, <1>3, OnlyItsCall DEF RunInv
<1>5. CallFacts'
  <2>1. ASSUME NEW d \in Calls \ {e}, call'[d].owner # None
        PROVE  /\ call'[d].kind = task'[call'[d].owner].run
               /\ \A b \in Calls : call'[b].owner = call'[d].owner => d = b
    <3>1. d # c /\ call'[d] = call[d] /\ call[d].owner \in Tasks \ {t}
      BY <1>1, <1>3, <1>4, <2>1, OwnersRun DEF RunInv
    <3>2. \A b \in Calls : call'[b].owner = call'[d].owner => b # e /\ b # c /\ call'[b] = call[b]
      BY <1>1, <1>3, <2>1, <3>1
    <3> QED
      BY <1>2, <2>1, <3>1, <3>2 DEF RunInv, CallFacts
  <2> QED
    BY <1>2, <1>3, <1>4, <2>1 DEF CallFacts
<1>6. Known' = Known /\ NoSegment \in Known
  BY KnownStays
<1>7. KnownFacts'
  BY <1>1, <1>3, <1>6 DEF RunInv, KnownFacts
<1>8. TaskFacts'
  BY <1>2, <1>6 DEF RunInv, TaskFacts
<1>9. SegFacts'
  <2>1. \A d \in Calls \ {c, e} : call'[d].seg \in local' \ exposed' =>
          /\ call'[d].kind # "delete"
          /\ call'[d].kind = "register" /\ call'[d].owner # None /\ call'[d].step # "start" =>
               call'[d].seg \in remote'
    BY <1>1 DEF RunInv, SegFacts
  <2> QED
    BY <1>1, <1>3, <2>1 DEF SegFacts
<1> QED
  BY <1>5, <1>7, <1>8, <1>9 DEF RunInv

\* The end of a run.
LEMMA RunEnds ==
  ASSUME TypeOK, RunInv, TypeOK', NEW t \in Tasks, NEW c \in Calls, call[c].owner = t,
         task' = [task EXCEPT ![t] = IdleTask],
         \/ call' = Taken(c)
         \/ call' = [call EXCEPT ![c] = Abandoned(c)],
         UNCHANGED <<local, flushes, remote, exposed>>,
         registered' \subseteq Known, RegisteredIsRemote'
  PROVE  RunInv'
<1>1. /\ \A d \in Calls \ {c} : call'[d] = call[d]
      /\ call'[c] = FreeCall \/ call'[c] = [call[c] EXCEPT !.owner = None]
  BY DEF TypeOK, Taken, Abandoned
<1>2. /\ \A u \in Tasks \ {t} : task'[u] = task[u]
      /\ task'[t].run = "idle" /\ task'[t].todo = {}
  BY DEF TypeOK, IdleTask
<1>3. /\ call'[c].owner = None /\ t # None
      /\ call'[c] = FreeCall \/ UNCHANGED <<call[c].kind, call[c].seg, call[c].answer>>
      /\ FreeCall.owner = None /\ FreeCall.kind = "free" /\ FreeCall.seg = NoSegment
      /\ FreeCall.answer = {}
  BY <1>1, RegistryAssumption DEF FreeCall, TypeOK, Call
<1>4. CallFacts'
  <2>1. ASSUME NEW d \in Calls, call'[d].owner # None
        PROVE  /\ call'[d].kind = task'[call'[d].owner].run
               /\ \A b \in Calls : call'[b].owner = call'[d].owner => d = b
    <3>1. d # c /\ call'[d] = call[d] /\ call[d].owner \in Tasks \ {t}
      BY <1>1, <1>3, <2>1, OwnersRun, OnlyItsCall DEF RunInv
    <3>2. \A b \in Calls : call'[b].owner = call'[d].owner => b # c /\ call'[b] = call[b]
      BY <1>1, <1>3, <2>1
    <3> QED
      BY <1>2, <2>1, <3>1, <3>2 DEF RunInv, CallFacts
  <2> QED
    BY <2>1 DEF CallFacts
<1>5. Known' = Known /\ NoSegment \in Known
  BY KnownStays
<1>6. KnownFacts'
  BY <1>1, <1>3, <1>5 DEF RunInv, KnownFacts
<1>7. TaskFacts'
  BY <1>2, <1>5 DEF RunInv, TaskFacts
<1>8. SegFacts'
  BY <1>1, <1>3 DEF RunInv, SegFacts
<1> QED
  BY <1>4, <1>6, <1>7, <1>8 DEF RunInv

\* What a flush adds is a new segment.
LEMMA FlushBringsNew ==
  ASSUME TypeOK, RunInv, Flush \/ UNCHANGED <<local, flushes>>
  PROVE  /\ Known \subseteq Known'
         /\ local' \subseteq Known' /\ Known \cap local' \subseteq local
<1>1. CASE Flush
  <2>1. /\ flushes' = flushes + 1 /\ local' \subseteq Segment
        /\ \A s \in local' \ local :
              \/ s.snap = flushes + 1 /\ s.uid = 0
              \/ s.uid = flushes + 1 /\ (s.snap = flushes + 1 \/ \E r \in local : s.snap = r.snap)
    BY <1>1, FlushAddsNew
  <2>2. flushes \in Nat /\ local \subseteq Known
    BY DEF TypeOK, RunInv, KnownFacts
  <2>3. Known \subseteq Known'
    BY <2>1, <2>2 DEF Known, Segment
  <2>4. local' \subseteq Known'
    BY <2>1, <2>2 DEF Known, Segment
  <2>5. Known \cap local' \subseteq local
    BY <2>1, <2>2 DEF Known, Segment
  <2> QED
    BY <2>3, <2>4, <2>5
<1>2. CASE UNCHANGED <<local, flushes>>
  BY <1>2 DEF RunInv, KnownFacts, Known
<1> QED
  BY <1>1, <1>2

\* A run begins, beside others that may be under way.
LEMMA RunBegins ==
  ASSUME TypeOK, RunInv, TypeOK', NEW t \in Tasks, Start(t, local'),
         Flush \/ UNCHANGED <<local, flushes>>, exposed \subseteq exposed',
         (\E u \in Tasks \ {t} : task[u].run = "list") => local' \ local \subseteq exposed'
  PROVE  RunInv'
<1>1. PICK e \in Calls :
        call[e] = FreeCall /\ call' = [call EXCEPT ![e] = Request(t, "list", NoSegment)]
  BY SentTakesPlace DEF Start
<1>2. /\ task' = [task EXCEPT ![t] = [run |-> "list", seen |-> local', todo |-> {}]]
      /\ UNCHANGED <<registered, remote>>
  BY DEF Start, etcd
<1>3. \A d \in Calls : call[d].owner # t
  BY OwnersRun, RegistryAssumption DEF RunInv, Start
<1>4. /\ \A d \in Calls \ {e} : call'[d] = call[d]
      /\ call'[e].owner = t /\ call'[e].kind = "list" /\ call'[e].seg = NoSegment
      /\ call'[e].answer = {} /\ t # None
  BY <1>1, RequestFields, RegistryAssumption DEF TypeOK
<1>5. /\ \A u \in Tasks \ {t} : task'[u] = task[u]
      /\ task'[t].run = "list" /\ task'[t].seen = local' /\ task'[t].todo = {}
  BY <1>2 DEF TypeOK
<1>6. CallFacts'
  <2>1. ASSUME NEW d \in Calls \ {e}, call'[d].owner # None
        PROVE  /\ call'[d].kind = task'[call'[d].owner].run
               /\ \A b \in Calls : call'[b].owner = call'[d].owner => d = b
    <3>1. call'[d] = call[d] /\ call[d].owner \in Tasks \ {t}
      BY <1>3, <1>4, <2>1, OwnersRun DEF RunInv
    <3>2. \A b \in Calls : call'[b].owner = call'[d].owner => b # e /\ call'[b] = call[b]
      BY <1>4, <3>1
    <3> QED
      BY <1>5, <2>1, <3>1, <3>2 DEF RunInv, CallFacts
  <2>2. \A b \in Calls \ {e} : call'[b].owner # t
    BY <1>3, <1>4
  <2> QED
    BY <1>4, <1>5, <2>1, <2>2 DEF CallFacts
<1>7. /\ Known \subseteq Known' /\ local' \subseteq Known'
      /\ Known \cap local' \subseteq local /\ NoSegment \in Known
  BY FlushBringsNew DEF Known, NoSegment, Segment, TypeOK
<1>8. KnownFacts'
  BY <1>2, <1>4, <1>7 DEF RunInv, KnownFacts
<1>9. TaskFacts'
  <2>1. ASSUME NEW u \in Tasks \ {t}, task[u].run = "list"
        PROVE  local' \subseteq task'[u].seen \cup exposed'
    <3>1. local' \ local \subseteq exposed'
      BY <2>1
    <3>2. local \subseteq task[u].seen \cup exposed
      BY <2>1 DEF RunInv, TaskFacts
    <3> QED
      BY <1>5, <3>1, <3>2
  <2>2. ASSUME NEW u \in Tasks \ {t}
        PROVE  /\ task'[u].todo \subseteq Known'
               /\ task'[u].run = "delete" => task'[u].todo \cap local' \subseteq exposed'
    <3>1. /\ task[u].todo \subseteq Known
          /\ task[u].run = "delete" => task[u].todo \cap local \subseteq exposed
      BY DEF RunInv, TaskFacts
    <3> QED
      BY <1>5, <1>7, <3>1
  <2> QED
    BY <1>5, <2>1, <2>2 DEF TaskFacts
<1>10. SegFacts'
  BY <1>2, <1>4, <1>7 DEF RunInv, KnownFacts, SegFacts
<1>11. RegisteredIsRemote'
  BY <1>2, <1>7 DEF RunInv, KnownFacts, RegisteredIsRemote
<1> QED
  BY <1>6, <1>8, <1>9, <1>10, <1>11 DEF RunInv

\* A call is sent again while the first may still be executing.
LEMMA RetryKeepsRun ==
  ASSUME TypeOK, RunInv, TypeOK', NEW t \in Tasks, NEW c \in Calls, Retry(t, c)
  PROVE  RunInv'
<1>1. PICK e \in Calls :
        /\ [call EXCEPT ![c] = Abandoned(c)][e] = FreeCall
        /\ call' = [[call EXCEPT ![c] = Abandoned(c)] EXCEPT ![e] = Request(t, call[c].kind, call[c].seg)]
  BY SentTakesPlace DEF Retry
<1>2. /\ call[c].owner = t /\ t # None
      /\ UNCHANGED <<local, flushes, registered, remote, task, exposed>>
  BY RegistryAssumption DEF Retry, writer, etcd, history
<1>3. /\ \A d \in Calls \ {c, e} : call'[d] = call[d]
      /\ call'[e] = Request(t, call[c].kind, call[c].seg)
      /\ c # e => call'[c] = Abandoned(c)
  BY <1>1 DEF TypeOK
<1>4. /\ call'[e].owner = t /\ call'[e].kind = call[c].kind /\ call'[e].seg = call[c].seg
      /\ call'[e].answer = {} /\ call'[e].step = "start"
  BY <1>3, RequestFields
<1>5. /\ Abandoned(c).owner = None
      /\ Abandoned(c) = FreeCall \/ /\ Abandoned(c).kind = call[c].kind
                                    /\ Abandoned(c).seg = call[c].seg
                                    /\ Abandoned(c).answer = call[c].answer
      /\ FreeCall.kind = "free" /\ FreeCall.seg = NoSegment /\ FreeCall.answer = {}
  BY DEF Abandoned, FreeCall, TypeOK, Call
<1>6. CallFacts'
  <2>1. \A d \in Calls \ {e} : call'[d].owner # t
    BY <1>2, <1>3, <1>5, OnlyItsCall DEF RunInv
  <2>2. ASSUME NEW d \in Calls \ {e}, call'[d].owner # None
        PROVE  /\ call'[d].kind = task'[call'[d].owner].run
               /\ \A b \in Calls : call'[b].owner = call'[d].owner => d = b
    <3>1. d # c /\ call'[d] = call[d]
      BY <1>3, <1>5, <2>2
    <3>2. \A b \in Calls : call'[b].owner = call'[d].owner => b # e /\ b # c /\ call'[b] = call[b]
      BY <1>3, <1>4, <1>5, <2>1, <2>2
    <3> QED
      BY <1>2, <2>2, <3>1, <3>2 DEF RunInv, CallFacts
  <2>3. call'[e].kind = task'[t].run
    BY <1>2, <1>4 DEF RunInv, CallFacts
  <2> QED
    BY <1>4, <2>1, <2>2, <2>3 DEF CallFacts
<1>7. Known' = Known /\ NoSegment \in Known
  BY <1>2, KnownStays
<1>8. TaskFacts' /\ RegisteredIsRemote'
  BY <1>2, <1>7 DEF RunInv, TaskFacts, RegisteredIsRemote
<1>9. KnownFacts'
  BY <1>2, <1>3, <1>4, <1>5, <1>7 DEF RunInv, KnownFacts
<1>10. SegFacts'
  BY <1>2, <1>3, <1>4, <1>5 DEF RunInv, SegFacts
<1> QED
  BY <1>6, <1>8, <1>9, <1>10 DEF RunInv

\* A restart leaves calls that nobody waits for.
LEMMA RestartEndsRuns ==
  ASSUME TypeOK, RunInv, TypeOK', Restart
  PROVE  RunInv'
<1>1. /\ Flush \/ UNCHANGED <<local, flushes>>
      /\ registered' \in {remote, {}} /\ UNCHANGED <<remote, exposed>>
      /\ \A t \in Tasks : task'[t].run = "idle" /\ task'[t].todo = {}
      /\ \A c \in Calls : call'[c] = Abandoned(c)
  BY DEF Restart, etcd, IdleTask
<1>2. \A c \in Calls :
        /\ call'[c].owner = None
        /\ call'[c] = FreeCall \/ UNCHANGED <<call[c].kind, call[c].seg, call[c].answer>>
        /\ FreeCall.kind = "free" /\ FreeCall.seg = NoSegment /\ FreeCall.answer = {}
  BY <1>1 DEF Abandoned, FreeCall, TypeOK, Call
<1>3. /\ Known \subseteq Known' /\ local' \subseteq Known'
      /\ Known \cap local' \subseteq local /\ NoSegment \in Known
  BY <1>1, FlushBringsNew DEF Known, NoSegment, Segment, TypeOK
<1>4. CallFacts' /\ TaskFacts'
  BY <1>1, <1>2 DEF CallFacts, TaskFacts
<1>5. KnownFacts'
  BY <1>1, <1>2, <1>3 DEF RunInv, KnownFacts
<1>6. SegFacts'
  BY <1>1, <1>2, <1>3 DEF RunInv, KnownFacts, SegFacts
<1>7. RegisteredIsRemote'
  BY <1>1, <1>3 DEF RunInv, KnownFacts, RegisteredIsRemote
<1> QED
  BY <1>4, <1>5, <1>6, <1>7 DEF RunInv

\* The coordinator's operations on behalf of a run, or of nobody.
LEMMA HandlersKeepRun ==
  ASSUME TypeOK, RunInv, TypeOK', NEW c \in Calls, Handle(c) \/ Abort(c)
  PROVE  RunInv'
<1>1. /\ UNCHANGED <<local, flushes, registered, task, exposed>>
      /\ \A d \in Calls \ {c} : call'[d] = call[d]
  BY DEF Handle, Abort, ListSegments, DeleteSegment, PutSegment, ReadSnapshot, WriteSnapshot,
         Taken, writer, history, TypeOK
<1>2. Known' = Known /\ NoSegment \in Known
  BY <1>1, KnownStays
<1>3. /\ FreeCall.owner = None /\ FreeCall.kind = "free" /\ FreeCall.seg = NoSegment
      /\ FreeCall.answer = {}
  BY RequestFields
<1>4. \/ call'[c] = FreeCall /\ call[c].owner = None
      \/ /\ UNCHANGED <<call[c].kind, call[c].owner, call[c].seg>>
         /\ call'[c].answer \in {call[c].answer, {}, remote}
  <2>1. ASSUME NEW answer \in {{}, remote}, call' = [call EXCEPT ![c] = Answered(c, answer)]
        PROVE  \/ call'[c] = FreeCall /\ call[c].owner = None
               \/ /\ UNCHANGED <<call[c].kind, call[c].owner, call[c].seg>>
                  /\ call'[c].answer \in {call[c].answer, {}, remote}
    <3>1. call'[c] = Answered(c, answer)
      BY <2>1 DEF TypeOK
    <3> QED
      BY <3>1 DEF Answered, TypeOK, Call
  <2>2. CASE ListSegments(c) \/ DeleteSegment(c) \/ WriteSnapshot(c)
    BY <2>1, <2>2 DEF ListSegments, DeleteSegment, WriteSnapshot
  <2>3. CASE PutSegment(c) \/ ReadSnapshot(c)
    <3>1. \/ call'[c] = [call[c] EXCEPT !.step = "read"]
          \/ call'[c] = [call[c] EXCEPT !.step = "write", !.read = snapshot]
      BY <2>3 DEF PutSegment, ReadSnapshot, TypeOK
    <3> QED
      BY <3>1 DEF TypeOK, Call
  <2>4. CASE Abort(c)
    BY <2>4 DEF Abort, Taken, TypeOK
  <2> QED
    BY <2>2, <2>3, <2>4 DEF Handle
<1>5. /\ remote' \subseteq remote \cup {call[c].seg}
      /\ \A s \in remote \ remote' : call[c].kind = "delete" /\ s = call[c].seg
      /\ call[c].kind = "register" /\ call'[c].kind = "register" /\ call'[c].step # "start" =>
           call[c].step # "start" \/ call[c].seg \in remote'
  <2>1. CASE DeleteSegment(c)
    BY <2>1 DEF DeleteSegment, At
  <2>2. CASE PutSegment(c)
    BY <2>2 DEF PutSegment, At
  <2>3. CASE ~DeleteSegment(c) /\ ~PutSegment(c)
    <3>1. remote' = remote
      BY <2>3 DEF Handle, Abort, ListSegments, ReadSnapshot, WriteSnapshot, etcd
    <3>2. ListSegments(c) => call[c].kind = "list"
      BY DEF ListSegments, At
    <3>3. ReadSnapshot(c) \/ WriteSnapshot(c) => call[c].step # "start"
      BY DEF ReadSnapshot, WriteSnapshot, At
    <3>4. Abort(c) => call'[c].kind = "free"
      BY <1>3 DEF Abort, Taken, TypeOK
    <3> QED
      BY <2>3, <3>1, <3>2, <3>3, <3>4 DEF Handle
  <2> QED
    BY <2>1, <2>2, <2>3
<1>6. (remote \cap local) \ exposed \subseteq remote'
  BY <1>5 DEF RunInv, SegFacts
<1>7. CallFacts'
  <2>1. \A d \in Calls : \/ call'[d].owner = None
                         \/ UNCHANGED <<call[d].kind, call[d].owner>>
    BY <1>1, <1>3, <1>4
  <2>2. \A d \in Calls : call'[d].owner # None => call'[d].owner = call[d].owner
    BY <2>1
  <2> QED
    BY <1>1, <2>1, <2>2 DEF RunInv, CallFacts
<1>8. TaskFacts'
  BY <1>1, <1>2 DEF RunInv, TaskFacts
<1>9. KnownFacts'
  <2>1. remote' \subseteq Known
    BY <1>5 DEF RunInv, KnownFacts
  <2>2. \A d \in Calls : call'[d].answer \cup {call'[d].seg} \subseteq Known
    BY <1>1, <1>2, <1>3, <1>4 DEF RunInv, KnownFacts
  <2> QED
    BY <1>1, <1>2, <2>1, <2>2 DEF RunInv, KnownFacts
<1>10. SegFacts'
  <2>1. ASSUME NEW d \in Calls \ {c}, call'[d].seg \in local' \ exposed'
        PROVE  /\ call'[d].kind # "delete"
               /\ call'[d].kind = "register" /\ call'[d].owner # None /\ call'[d].step # "start" =>
                    call'[d].seg \in remote'
    BY <1>1, <1>6, <2>1 DEF RunInv, SegFacts
  <2>2. ASSUME call'[c].seg \in local' \ exposed'
        PROVE  /\ call'[c].kind # "delete"
               /\ call'[c].kind = "register" /\ call'[c].owner # None /\ call'[c].step # "start" =>
                    call'[c].seg \in remote'
    <3>1. CASE call'[c] = FreeCall
      BY <1>3, <3>1
    <3>2. CASE call'[c] # FreeCall
      <4>1. UNCHANGED <<call[c].kind, call[c].owner, call[c].seg>>
        BY <1>4, <3>2
      <4> QED
        BY <1>1, <1>5, <1>6, <2>2, <4>1 DEF RunInv, SegFacts
    <3> QED
      BY <3>1, <3>2
  <2> QED
    BY <2>1, <2>2 DEF SegFacts
<1>11. RegisteredIsRemote'
  BY <1>1, <1>6 DEF RunInv, RegisteredIsRemote
<1> QED
  BY <1>7, <1>8, <1>9, <1>10, <1>11 DEF RunInv

\* A run takes in an answer and goes on.
LEMMA ResumeKeepsRun ==
  ASSUME TypeOK, RunInv, TypeOK', NEW t \in Tasks, NEW c \in Calls, Resume(t, c)
  PROVE  RunInv'
<1>1. call[c].owner = t /\ UNCHANGED <<local, flushes, remote, exposed>> /\ t # None
  BY RegistryAssumption DEF Resume, Listed, Deleted, Registered, Done, etcd, history
<1>2. call[c].kind = task[t].run
  BY <1>1 DEF RunInv, CallFacts
<1>3. /\ local \subseteq Known /\ registered \subseteq Known
      /\ call[c].answer \cup {call[c].seg} \subseteq Known
      /\ task[t].todo \subseteq Known
  BY DEF RunInv, KnownFacts, TaskFacts
<1>4. ASSUME NEW stale, NEW segs, NEW reg, GoOn(t, Taken(c), stale, segs, reg),
             stale \subseteq Known, stale \cap local \subseteq exposed, segs \subseteq Known,
             registered' \subseteq Known, RegisteredIsRemote'
      PROVE  RunInv'
  <2>1. CASE \E e \in Calls, s \in stale :
              /\ Taken(c)[e] = FreeCall
              /\ task' = [task EXCEPT ![t] = [run |-> "delete", seen |-> {}, todo |-> stale \ {s}]]
              /\ call' = [Taken(c) EXCEPT ![e] = Request(t, "delete", s)]
    <3>1. PICK e \in Calls, s \in stale :
              /\ Taken(c)[e] = FreeCall
              /\ task' = [task EXCEPT ![t] = [run |-> "delete", seen |-> {}, todo |-> stale \ {s}]]
              /\ call' = [Taken(c) EXCEPT ![e] = Request(t, "delete", s)]
      BY <2>1
    <3>2. /\ s \in Known /\ stale \ {s} \in SUBSET Known
          /\ ({s} \cup (stale \ {s})) \cap local \subseteq exposed
      BY <1>4
    <3> QED
      BY <1>1, <1>4, <3>1, <3>2, NextCall
  <2>2. CASE \E e \in Calls, s \in segs :
              /\ Taken(c)[e] = FreeCall
              /\ task' = [task EXCEPT ![t] = [run |-> "register", seen |-> {},
                                             todo |-> {u \in segs : u.snap > s.snap}]]
              /\ call' = [Taken(c) EXCEPT ![e] = Request(t, "register", s)]
    <3>1. PICK e \in Calls, s \in segs :
              /\ Taken(c)[e] = FreeCall
              /\ task' = [task EXCEPT ![t] = [run |-> "register", seen |-> {},
                                             todo |-> {u \in segs : u.snap > s.snap}]]
              /\ call' = [Taken(c) EXCEPT ![e] = Request(t, "register", s)]
      BY <2>2
    <3>2. s \in Known /\ {u \in segs : u.snap > s.snap} \in SUBSET Known
      BY <1>4
    <3> QED
      BY <1>1, <1>4, <3>1, <3>2, NextCall
  <2>3. CASE task' = [task EXCEPT ![t] = IdleTask] /\ call' = Taken(c)
    BY <1>1, <1>4, <2>3, RunEnds
  <2> QED
    BY <1>4, <2>1, <2>2, <2>3, GoOnCases
<1>5. CASE Listed(t, c)
  <2>1. /\ task[t].run = "list" /\ registered' = registered
        /\ GoOn(t, Taken(c), call[c].answer \ task[t].seen, local, registered)
    BY <1>5 DEF Listed
  <2>2. (call[c].answer \ task[t].seen) \cap local \subseteq exposed
    BY <2>1 DEF RunInv, TaskFacts
  <2>3. RegisteredIsRemote'
    BY <1>1, <2>1 DEF RunInv, RegisteredIsRemote
  <2> QED
    BY <1>3, <1>4, <2>1, <2>2, <2>3
<1>6. CASE Deleted(t, c)
  <2>1. /\ task[t].run = "delete" /\ registered' = registered \ {call[c].seg}
        /\ GoOn(t, Taken(c), task[t].todo, local, registered')
    BY <1>6 DEF Deleted
  <2>2. task[t].todo \cap local \subseteq exposed
    BY <2>1 DEF RunInv, TaskFacts
  <2>3. RegisteredIsRemote'
    BY <1>1, <2>1 DEF RunInv, RegisteredIsRemote
  <2> QED
    BY <1>3, <1>4, <2>1, <2>2, <2>3
<1>7. CASE Registered(t, c)
  <2>1. /\ task[t].run = "register" /\ registered' = registered \cup {call[c].seg}
        /\ call[c].step = "done"
        /\ GoOn(t, Taken(c), {}, task[t].todo, registered')
    BY <1>7 DEF Registered, Done
  <2>2. call[c].seg \in local \ exposed => call[c].seg \in remote
    BY <1>1, <1>2, <2>1 DEF RunInv, SegFacts
  <2>3. RegisteredIsRemote'
    BY <1>1, <2>1, <2>2 DEF RunInv, RegisteredIsRemote
  <2> QED
    BY <1>3, <1>4, <2>1, <2>3
<1> QED
  BY <1>5, <1>6, <1>7 DEF Resume

\* The inductive invariant of the runs, through overlaps, retries, failed runs,
\* aborted requests and restarts.
THEOREM RunInvariant == Spec => []RunInv
<1>1. Init => RunInv
  BY RequestFields
     DEF Init, RunInv, IdleTask, CallFacts, KnownFacts, Known, TaskFacts, SegFacts,
         RegisteredIsRemote, NoSegment, Segment
<1>2. TypeOK /\ TypeOK' /\ RunInv /\ [Next]_vars => RunInv'
  <2> SUFFICES ASSUME TypeOK, TypeOK', RunInv, [Next]_vars PROVE RunInv'
    OBVIOUS
  <2>1. ASSUME NEW t \in Tasks, Tick(t) \/ InsertFlush(t) PROVE RunInv'
    <3>1. /\ Start(t, local') /\ (Flush \/ UNCHANGED <<local, flushes>>)
          /\ exposed \subseteq exposed'
          /\ (\E u \in Tasks \ {t} : task[u].run = "list") => local' \ local \subseteq exposed'
      BY <2>1 DEF Tick, InsertFlush
    <3> QED
      BY <3>1, RunBegins
  <2>2. ASSUME NEW t \in Tasks, NEW c \in Calls, Fail(t, c) PROVE RunInv'
    <3>1. /\ call[c].owner = t /\ call' = [call EXCEPT ![c] = Abandoned(c)]
          /\ task' = [task EXCEPT ![t] = IdleTask]
          /\ UNCHANGED <<local, flushes, registered, remote, exposed>>
      BY <2>2 DEF Fail, etcd, history
    <3>2. registered' \subseteq Known /\ RegisteredIsRemote'
      BY <3>1 DEF RunInv, KnownFacts, RegisteredIsRemote
    <3> QED
      BY <3>1, <3>2, RunEnds
  <2>3. CASE UNCHANGED vars
    BY <2>3 DEF vars, writer, etcd, history, RunInv, CallFacts, KnownFacts, Known, TaskFacts,
                SegFacts, RegisteredIsRemote
  <2> QED
    BY <2>1, <2>2, <2>3, ResumeKeepsRun, RetryKeepsRun, RestartEndsRuns, HandlersKeepRun DEF Next
<1> QED
  BY <1>1, <1>2, RegistryTypes, PTL DEF Spec

\* A segment the writer has and believes registered is listed, unless a run with
\* older local_ids was waiting for its list when it was flushed.
THEOREM RegisteredStaysRemote == Spec => []RegisteredIsRemote
<1>1. RunInv => RegisteredIsRemote
  BY DEF RunInv
<1> QED
  BY <1>1, RunInvariant, PTL

\* No step takes any other segment of the writer from the list, also not a delete
\* that an earlier run, or an earlier process, has left behind.
THEOREM LiveSegmentsAreKept == Spec => LiveSegmentsStay
<1>1. RunInv /\ [Next]_vars => [\A s \in (local \cap remote) \ exposed : s \in remote']_vars
  <2> SUFFICES ASSUME RunInv, Next, NEW s \in (local \cap remote) \ exposed PROVE s \in remote'
    BY DEF vars, etcd
  <2>1. ASSUME NEW c \in Calls, Handle(c) PROVE s \in remote'
    <3>1. CASE DeleteSegment(c)
      <4>1. call[c].seg \notin local \ exposed /\ remote' = remote \ {call[c].seg}
        BY <3>1 DEF DeleteSegment, At, RunInv, SegFacts
      <4> QED
        BY <4>1
    <3>2. CASE ~DeleteSegment(c)
      BY <2>1, <3>2 DEF Handle, ListSegments, PutSegment, ReadSnapshot, WriteSnapshot, etcd
    <3> QED
      BY <3>1, <3>2
  <2>2. CASE \E c \in Calls : Abort(c)
    BY <2>2 DEF Abort, etcd
  <2>3. CASE \E t \in Tasks : Tick(t) \/ InsertFlush(t)
    BY <2>3 DEF Tick, InsertFlush, Start, etcd
  <2>4. CASE \E t \in Tasks, c \in Calls : Resume(t, c) \/ Retry(t, c) \/ Fail(t, c)
    BY <2>4 DEF Resume, Listed, Deleted, Registered, Retry, Fail, etcd
  <2>5. CASE Restart
    BY <2>5 DEF Restart, etcd
  <2> QED
    BY <2>1, <2>2, <2>3, <2>4, <2>5 DEF Next
<1> QED
  BY <1>1, RunInvariant, PTL DEF Spec, LiveSegmentsStay

-----------------------------------------------------------------------------
(***************************************************************************)
(* The snapshot.  A write of it can take back only what was written after  *)
(* it had been read.                                                       *)
(***************************************************************************)

\* Call new, once old, is no registration that has just read the snapshot or ended.
Quiet(old, new) ==
  new.kind = "register" /\ new.step \in {"write", "done"} =>
    /\ old.kind = "register" /\ old.step = new.step
    /\ old.read = new.read /\ old.seg = new.seg

\* A step that writes no snapshot and lets no registration read it or end.
LEMMA QuietSteps ==
  ASSUME SnapshotFacts, snapshot' = snapshot, overtaken \subseteq overtaken',
         \A c \in Calls : Quiet(call[c], call'[c]),
         \A s \in registered' \ registered :
           \E c \in Calls : At(c, "register", "done") /\ call[c].seg = s
  PROVE  SnapshotFacts'
<1>1. \A s : Settled(s) => Settled(s)'
  BY DEF Settled, At, Quiet
<1>2. \A s \in registered' \ overtaken' : Settled(s)
  BY DEF SnapshotFacts
<1>3. \A c \in Calls : At(c, "register", "done")' /\ call'[c].seg \notin overtaken' =>
                         Settled(call'[c].seg)
  BY DEF SnapshotFacts, At, Quiet
<1> QED
  BY <1>1, <1>2, <1>3 DEF SnapshotFacts

\* A call that is freed, given up or sent is quiet.
LEMMA QuietCalls ==
  ASSUME TypeOK, NEW c \in Calls
  PROVE  /\ \A d \in Calls : Quiet(call[d], Taken(c)[d])
         /\ \A d \in Calls : Quiet(call[d], [call EXCEPT ![c] = Abandoned(c)][d])
         /\ Quiet(call[c], FreeCall) /\ Quiet(call[c], Abandoned(c))
         /\ \A t, kind, s : Quiet(call[c], Request(t, kind, s))
<1>1. \A t, kind, s : Request(t, kind, s).step = "start"
  BY RequestFields
<1>2. FreeCall.kind = "free"
  BY DEF FreeCall
<1>3. Quiet(call[c], [call[c] EXCEPT !.owner = None])
  BY DEF Quiet, TypeOK, Call
<1> QED
  BY <1>1, <1>2, <1>3 DEF Quiet, Taken, Abandoned, TypeOK

\* A request takes the place of a free call.
LEMMA QuietSent ==
  ASSUME TypeOK, NEW calls, \A d \in Calls : Quiet(call[d], calls[d]), DOMAIN calls = Calls,
         NEW t, NEW kind, NEW s,
         call' = calls \/ \E e \in Calls : call' = [calls EXCEPT ![e] = Request(t, kind, s)],
         calls = [d \in Calls |-> calls[d]]
  PROVE  \A d \in Calls : Quiet(call[d], call'[d])
<1>1. \A d \in Calls : call'[d] = calls[d] \/ call'[d] = Request(t, kind, s)
  OBVIOUS
<1> QED
  BY <1>1, QuietCalls

\* The snapshot reaches what is registered, but for what has been overtaken.
THEOREM SnapshotInvariant == Spec => []SnapshotFacts
<1>1. Init => SnapshotFacts
  BY RequestFields DEF Init, SnapshotFacts, At
<1>2. TypeOK /\ TypeOK' /\ RunInv /\ SnapshotFacts /\ [Next]_vars => SnapshotFacts'
  <2> SUFFICES ASSUME TypeOK, TypeOK', RunInv, SnapshotFacts, [Next]_vars PROVE SnapshotFacts'
    OBVIOUS
  <2>1. ASSUME NEW t \in Tasks, Tick(t) \/ InsertFlush(t) PROVE SnapshotFacts'
    <3>1. /\ call' \in Sent(call, Request(t, "list", NoSegment))
          /\ UNCHANGED <<registered, snapshot, overtaken>>
      BY <2>1 DEF Tick, InsertFlush, Start, etcd
    <3>2. \E e \in Calls : call' = [call EXCEPT ![e] = Request(t, "list", NoSegment)]
      BY <3>1, SentTakesPlace
    <3>3. \A d \in Calls : Quiet(call[d], call'[d])
      <4>1. \A d \in Calls : Quiet(call[d], call[d])
        BY DEF Quiet
      <4> QED
        BY <3>2, <4>1, QuietSent DEF TypeOK
    <3> QED
      BY <3>1, <3>3, QuietSteps
  <2>2. ASSUME NEW t \in Tasks, NEW c \in Calls, Resume(t, c) PROVE SnapshotFacts'
    <3>1. /\ call[c].owner = t /\ call[c].step = "done" /\ call[c].kind = task[t].run
          /\ UNCHANGED <<snapshot, overtaken>>
      BY <2>2, RegistryAssumption
         DEF Resume, Listed, Deleted, Registered, Done, etcd, history, RunInv, CallFacts
    <3>2. registered' \subseteq registered \cup {call[c].seg}
          /\ (call[c].kind # "register" => registered' \subseteq registered)
      BY <2>2, <3>1 DEF Resume, Listed, Deleted, Registered
    <3>3. \E stale, segs, reg : GoOn(t, Taken(c), stale, segs, reg)
      BY <2>2 DEF Resume, Listed, Deleted, Registered
    <3>4. \/ \E e \in Calls : \E kind, s : call' = [Taken(c) EXCEPT ![e] = Request(t, kind, s)]
          \/ call' = Taken(c)
      BY <3>3, GoOnCases
    <3>5. \A d \in Calls : Quiet(call[d], call'[d])
      <4>1. Taken(c) = [d \in Calls |-> Taken(c)[d]] /\ DOMAIN Taken(c) = Calls
        BY DEF Taken, TypeOK
      <4>2. \A d \in Calls : Quiet(call[d], Taken(c)[d])
        BY QuietCalls
      <4> QED
        BY <3>4, <4>1, <4>2, QuietSent
    <3>6. \A s \in registered' \ registered :
            \E d \in Calls : At(d, "register", "done") /\ call[d].seg = s
      BY <3>1, <3>2 DEF At
    <3> QED
      BY <3>1, <3>5, <3>6, QuietSteps
  <2>3. ASSUME NEW t \in Tasks, NEW c \in Calls, Retry(t, c) PROVE SnapshotFacts'
    <3> DEFINE calls == [call EXCEPT ![c] = Abandoned(c)]
    <3>1. /\ call' \in Sent(calls, Request(t, call[c].kind, call[c].seg))
          /\ UNCHANGED <<registered, snapshot, overtaken>>
      BY <2>3 DEF Retry, writer, etcd, history
    <3>2. \E e \in Calls : call' = [calls EXCEPT ![e] = Request(t, call[c].kind, call[c].seg)]
      BY <3>1, SentTakesPlace
    <3>3. /\ calls = [d \in Calls |-> calls[d]] /\ DOMAIN calls = Calls
          /\ \A d \in Calls : Quiet(call[d], calls[d])
      BY QuietCalls DEF TypeOK
    <3>4. \A d \in Calls : \/ call'[d] = calls[d]
                            \/ call'[d] = Request(t, call[c].kind, call[c].seg)
      BY <3>2, <3>3
    <3>5. \A d \in Calls : Quiet(call[d], call'[d])
      BY <3>3, <3>4, QuietCalls
    <3> QED
      BY <3>1, <3>5, QuietSteps
  <2>4. ASSUME NEW t \in Tasks, NEW c \in Calls, Fail(t, c) PROVE SnapshotFacts'
    <3>1. UNCHANGED <<registered, snapshot, overtaken>> /\ \A d \in Calls : Quiet(call[d], call'[d])
      BY <2>4, QuietCalls DEF Fail, etcd, history
    <3> QED
      BY <3>1, QuietSteps
  <2>5. ASSUME NEW c \in Calls, ListSegments(c) \/ DeleteSegment(c) \/ PutSegment(c) \/ Abort(c)
        PROVE  SnapshotFacts'
    <3>1. UNCHANGED <<registered, snapshot, overtaken>>
      BY <2>5 DEF ListSegments, DeleteSegment, PutSegment, Abort, writer, etcd, history
    <3>2. Quiet(call[c], call'[c])
      <4>1. CASE PutSegment(c)
        BY <4>1 DEF PutSegment, Quiet, TypeOK, Call
      <4>2. CASE Abort(c)
        BY <4>2, QuietCalls DEF Abort
      <4>3. ASSUME NEW answer, call'[c] = Answered(c, answer), call[c].kind # "register"
            PROVE  Quiet(call[c], call'[c])
        BY <4>3, RequestFields DEF Answered, Quiet, TypeOK, Call
      <4> QED
        BY <2>5, <4>1, <4>2, <4>3 DEF ListSegments, DeleteSegment, At, TypeOK
    <3>3. \A d \in Calls \ {c} : call'[d] = call[d]
      BY <2>5 DEF ListSegments, DeleteSegment, PutSegment, Abort, Taken, TypeOK
    <3>4. \A d \in Calls : Quiet(call[d], call'[d])
      BY <3>2, <3>3 DEF Quiet
    <3> QED
      BY <3>1, <3>4, QuietSteps
  <2>6. ASSUME NEW c \in Calls, ReadSnapshot(c) PROVE SnapshotFacts'
    <3>1. /\ UNCHANGED <<registered, snapshot, overtaken>>
          /\ \A d \in Calls \ {c} : call'[d] = call[d]
          /\ call'[c].read = snapshot /\ call'[c].step = "write"
      BY <2>6 DEF ReadSnapshot, writer, etcd, history, TypeOK, Call
    <3>2. \A s : Settled(s) => Settled(s)'
      BY <3>1 DEF Settled, At
    <3> QED
      BY <3>1, <3>2 DEF SnapshotFacts, At
  <2>7. ASSUME NEW c \in Calls, WriteSnapshot(c) PROVE SnapshotFacts'
    <3>1. /\ At(c, "register", "write") /\ snapshot' = Larger(call[c].read, call[c].seg.snap)
          /\ registered' = registered /\ call'[c] = Answered(c, {})
          /\ \A d \in Calls \ {c} : call'[d] = call[d]
          /\ overtaken' = IF \E d \in Calls \ {c} : At(d, "register", "write")
                            THEN overtaken \cup {call[c].seg} ELSE overtaken
      BY <2>7 DEF WriteSnapshot, writer, TypeOK
    <3>2. /\ call[c].read \in Nat /\ call[c].seg.snap \in Nat
          /\ call'[c] = FreeCall \/ (call'[c].step = "done" /\ call'[c].seg = call[c].seg)
      <4>1. call[c].read \in Nat /\ call[c].seg.snap \in Nat
        BY DEF TypeOK, Call, Segment
      <4>2. call'[c] = FreeCall \/ (call'[c].step = "done" /\ call'[c].seg = call[c].seg)
        BY <3>1 DEF Answered, TypeOK, Call
      <4> QED
        BY <4>1, <4>2
    <3>3. call[c].read <= snapshot' /\ call[c].seg.snap <= snapshot' /\ snapshot' \in Nat
      BY <3>1, <3>2 DEF Larger
    <3>4. ~At(c, "register", "write")'
      BY <3>2, RequestFields DEF At
    <3>5. ASSUME NEW s \in Segment, Settled(s) PROVE Settled(s)'
      <4>1. s.snap <= call[c].read /\ s.snap \in Nat
        BY <3>1, <3>5 DEF Settled, Segment
      <4>2. s.snap <= snapshot'
        BY <3>2, <3>3, <4>1
      <4>3. \A d \in Calls : At(d, "register", "write")' => s.snap <= call'[d].read
        BY <3>1, <3>4, <3>5 DEF Settled, At
      <4> QED
        BY <4>2, <4>3 DEF Settled
    <3>6. ASSUME NEW s, s = call[c].seg, s \notin overtaken' PROVE Settled(s)'
      <4>1. \A d \in Calls \ {c} : ~At(d, "register", "write")
        BY <3>1, <3>6
      <4>2. \A d \in Calls : ~At(d, "register", "write")'
        BY <3>1, <3>4, <4>1 DEF At
      <4> QED
        BY <3>3, <3>6, <4>2 DEF Settled
    <3>7. \A s \in registered' \ overtaken' : Settled(s)'
      BY <3>1, <3>5 DEF SnapshotFacts, TypeOK
    <3>8. ASSUME NEW d \in Calls, At(d, "register", "done")', NEW s, s = call'[d].seg,
                 s \notin overtaken'
          PROVE  Settled(s)'
      <4>1. CASE d = c
        <5>1. call'[c].kind = "register"
          BY <3>8, <4>1 DEF At
        <5>2. s = call[c].seg
          BY <3>2, <3>8, <4>1, <5>1, RequestFields
        <5> QED
          BY <3>6, <3>8, <5>2
      <4>2. CASE d # c
        <5>1. call'[d] = call[d] /\ call[d].seg \in Segment /\ s = call[d].seg
          BY <3>1, <3>8, <4>2 DEF TypeOK, Call
        <5>2. At(d, "register", "done") /\ s \notin overtaken
          BY <3>1, <3>8, <5>1 DEF At
        <5>3. Settled(s)
          BY <5>1, <5>2 DEF SnapshotFacts
        <5> QED
          BY <3>5, <5>1, <5>3
      <4> QED
        BY <4>1, <4>2
    <3>9. \A d \in Calls : At(d, "register", "done")' /\ call'[d].seg \notin overtaken' =>
                             Settled(call[d].seg)'
      BY <3>8 DEF Settled
    <3> QED
      BY <3>7, <3>9 DEF SnapshotFacts
  <2>8. CASE Restart
    <3>1. /\ snapshot' = snapshot
          /\ \A c \in Calls : call'[c] = Abandoned(c)
          /\ overtaken' = overtaken \cup {s \in registered' :
                               s.snap > snapshot \/ \E c \in Calls : At(c, "register", "write")}
      BY <2>8 DEF Restart, etcd
    <3>2. \A c \in Calls : /\ ~At(c, "register", "done")'
                           /\ At(c, "register", "write")' => At(c, "register", "write")
      <4>1. \A c \in Calls : Quiet(call[c], call'[c])
        BY <3>1, QuietCalls
      <4>2. \A c \in Calls : call[c].step = "done" => call'[c].kind = "free"
        BY <3>1, RequestFields DEF Abandoned
      <4> QED
        BY <4>1, <4>2 DEF Quiet, At
    <3>3. ASSUME NEW s \in registered' \ overtaken' PROVE Settled(s)'
      <4>1. s.snap \in Nat /\ snapshot \in Nat
        BY DEF TypeOK, Segment
      <4>2. s.snap <= snapshot /\ \A c \in Calls : ~At(c, "register", "write")
        BY <3>1, <3>3, <4>1
      <4> QED
        BY <3>1, <3>2, <4>2 DEF Settled
    <3> QED
      BY <3>2, <3>3 DEF SnapshotFacts
  <2>9. CASE UNCHANGED vars
    BY <2>9 DEF vars, writer, etcd, history, SnapshotFacts, Settled, At
  <2> QED
    BY <2>1, <2>2, <2>3, <2>4, <2>5, <2>6, <2>7, <2>8, <2>9 DEF Next, Handle
<1> QED
  BY <1>1, <1>2, RegistryTypes, RunInvariant, PTL DEF Spec

\* The snapshot given to searches reaches every segment the writer believes
\* registered, except where two registrations had both read the snapshot, or a
\* restart has taken over an unfinished one.
THEOREM SnapshotReachesSegments == Spec => []SnapshotCoversSegments
<1>1. SnapshotFacts => SnapshotCoversSegments
  BY DEF SnapshotFacts, SnapshotCoversSegments, Settled
<1> QED
  BY <1>1, SnapshotInvariant, PTL

=============================================================================
