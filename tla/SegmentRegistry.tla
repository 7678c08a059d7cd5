--------------------------- MODULE SegmentRegistry ---------------------------
(***************************************************************************)
(* How the segments of the writer become known to the readers:             *)
(* WriterPipeline.register_unregistered_segments (writer/pipeline.py) run  *)
(* by every insert request and by a background loop, the handlers of the   *)
(* leading coordinator (coordinator/app.py) and the keys they keep in etcd.*)
(*                                                                         *)
(* The writer is one event loop: its tasks interleave only where they await*)
(* a coordinator call.  A coordinator handler interleaves with the others  *)
(* at each of its etcd operations, which run in threads.                   *)
(***************************************************************************)
EXTENDS Integers, FiniteSets

CONSTANTS
  Tasks,           \* insert handlers and the background loop of the writer
  Loop,            \* the task that is the background loop
  Calls,           \* coordinator requests that can be executing at once
  None,            \* no task is waiting for the call
  MergeThreshold,  \* segments that make a flush merge
  MaxFlushes,      \* bound: flushes in a behaviour
  MaxFaults        \* bound: timed-out calls, failed runs and writer crashes

ASSUME RegistryAssumption ==
  /\ Loop \in Tasks /\ None \notin Tasks
  /\ MergeThreshold \in Nat \ {0}
  /\ MaxFlushes \in Nat
  /\ MaxFaults \in Nat

\* A segment: its snapshot_id, and a number that tells apart the segments of one
\* snapshot (the random part of segment_id).
Segment == [snap : Nat, uid : Nat]
NoSegment == [snap |-> 0, uid |-> 0]

VARIABLES
  \* the writer
  local,       \* segments the engine lists
  flushes,     \* flushes so far; the LSN of a flush is its number
  registered,  \* WriterPipeline._registered_segments
  task,        \* what each task does in register_unregistered_segments
  \* the coordinator
  call,        \* the requests being executed
  \* etcd
  remote,      \* the segments under SEGMENT_PREFIX
  snapshot,    \* SNAPSHOT_CURRENT, 0 when it is not set
  faults,      \* faults so far
  \* history: how runs and registrations have overlapped
  exposed,     \* segments flushed while another run waited for GET /segments
  overtaken    \* segments whose write of SNAPSHOT_CURRENT may be undone

writer == <<local, flushes, registered, task>>
etcd == <<remote, snapshot>>
history == <<exposed, overtaken>>
vars == <<writer, call, etcd, faults, history>>

-----------------------------------------------------------------------------
(***************************************************************************)
(* The engine, as the pipeline sees it: an insert may flush a segment, and *)
(* a flush may replace the oldest segments with a merged one or with none. *)
(***************************************************************************)
Newest(segs) == {s \in segs : \A t \in segs : t.snap <= s.snap}

IsOldest(old, segs) ==
  /\ old \subseteq segs
  /\ Cardinality(old) = MergeThreshold
  /\ \A s \in old, t \in segs \ old : s.snap < t.snap

Merged(segs) ==
  IF Cardinality(segs) < MergeThreshold THEN {segs}
  ELSE UNION {{(segs \ old) \cup {[snap |-> s.snap, uid |-> flushes + 1]} : s \in Newest(old)}
                \cup {segs \ old} : old \in {o \in SUBSET segs : IsOldest(o, segs)}}

Flushed == Merged(local \cup {[snap |-> flushes + 1, uid |-> 0]})

-----------------------------------------------------------------------------
(***************************************************************************)
(* Calls.                                                                  *)
(***************************************************************************)
Kinds == {"free", "list", "delete", "register"}
Steps == {"start", "read", "write", "done"}

Call == [kind : Kinds, owner : Tasks \cup {None}, seg : Segment, step : Steps,
         read : Nat, answer : SUBSET Segment]
FreeCall == [kind |-> "free", owner |-> None, seg |-> NoSegment, step |-> "start",
             read |-> 0, answer |-> {}]

Request(t, kind, seg) ==
  [FreeCall EXCEPT !.kind = kind, !.owner = t, !.seg = seg]

\* calls with one more request in it, if there is room.
Sent(calls, request) ==
  IF \E c \in Calls : calls[c] = FreeCall
  THEN {[calls EXCEPT ![CHOOSE c \in Calls : calls[c] = FreeCall] = request]} ELSE {}

(***************************************************************************)
(* A run of register_unregistered_segments.  run is what it waits for,     *)
(* seen the local_ids it computed before its first call, todo the segments *)
(* its current loop has still to look at.                                  *)
(***************************************************************************)
Runs == {"idle", "list", "delete", "register"}
Task == [run : Runs, seen : SUBSET Segment, todo : SUBSET Segment]
IdleTask == [run |-> "idle", seen |-> {}, todo |-> {}]

First(segs) == {s \in segs : \A t \in segs : s.snap <= t.snap}

\* Task t goes on, synchronously, to its next call or to its end: first the
\* deletes of stale, then the registrations of segs that are not in reg.
GoOn(t, calls, stale, segs, reg) ==
  LET new == segs \ reg
  IN \/ /\ stale # {}
        /\ \E s \in First(stale) :
             /\ task' = [task EXCEPT ![t] = [run |-> "delete", seen |-> {}, todo |-> stale \ {s}]]
             /\ call' \in Sent(calls, Request(t, "delete", s))
     \/ /\ stale = {} /\ new # {}
        /\ \E s \in First(new) :
             /\ task' = [task EXCEPT ![t] = [run |-> "register", seen |-> {},
                                            todo |-> {u \in segs : u.snap > s.snap}]]
             /\ call' \in Sent(calls, Request(t, "register", s))
     \/ /\ stale = {} /\ new = {}
        /\ task' = [task EXCEPT ![t] = IdleTask]
        /\ call' = calls

\* register_unregistered_segments begins: local_ids is computed and GET /segments
\* is sent, whatever the other tasks are doing.
Start(t, segs) ==
  /\ task[t].run = "idle"
  /\ call' \in Sent(call, Request(t, "list", NoSegment))
  /\ task' = [task EXCEPT ![t] = [run |-> "list", seen |-> segs, todo |-> {}]]
  /\ UNCHANGED <<registered, etcd, faults, overtaken>>

\* A round of the background loop, or an insert that does not flush.
Tick(t) == Start(t, local) /\ UNCHANGED <<local, flushes, exposed>>

Flush ==
  /\ flushes < MaxFlushes
  /\ flushes' = flushes + 1
  /\ local' \in Flushed

\* An insert that flushes; the engine does not suspend before local_ids.  The
\* local_ids of a run that still waits for its list lack the new segment.
InsertFlush(t) ==
  /\ t # Loop
  /\ Flush
  /\ Start(t, local')
  /\ exposed' = IF \E u \in Tasks \ {t} : task[u].run = "list"
                  THEN exposed \cup (local' \ local) ELSE exposed

\* Nobody waits for call c any more.  Its handler goes on, except that a list
\* changes nothing and an answer is lost.
Abandoned(c) ==
  IF call[c].step = "done" \/ call[c].kind = "list" THEN FreeCall
  ELSE [call[c] EXCEPT !.owner = None]

\* The handler of call c ends, with this answer to whoever waits.
Answered(c, answer) ==
  IF call[c].owner = None THEN FreeCall
  ELSE [call[c] EXCEPT !.step = "done", !.read = 0, !.answer = answer]

Done(t, c) == call[c].owner = t /\ call[c].step = "done"
Taken(c) == [call EXCEPT ![c] = FreeCall]

\* Mutant: stale entries are not looked for.
Listed_NoDeletes(t, c) ==
  /\ task[t].run = "list" /\ Done(t, c)
  /\ GoOn(t, Taken(c), {}, local, registered)
  /\ UNCHANGED <<local, flushes, registered, etcd, faults, history>>

\* Mutant: the list is compared with _registered_segments.
Listed_AgainstRegistered(t, c) ==
  /\ task[t].run = "list" /\ Done(t, c)
  /\ GoOn(t, Taken(c), call[c].answer \ registered, local, registered)
  /\ UNCHANGED <<local, flushes, registered, etcd, faults, history>>

\* GET /segments returns: delete what was not local when the run began.
Listed(t, c) ==
  /\ task[t].run = "list" /\ Done(t, c)
  /\ GoOn(t, Taken(c), call[c].answer \ task[t].seen, local, registered)
  /\ UNCHANGED <<local, flushes, registered, etcd, faults, history>>

\* DELETE returns.
Deleted(t, c) ==
  /\ task[t].run = "delete" /\ Done(t, c)
  /\ registered' = registered \ {call[c].seg}
  /\ GoOn(t, Taken(c), task[t].todo, local, registered')
  /\ UNCHANGED <<local, flushes, etcd, faults, history>>

\* POST returns.
Registered(t, c) ==
  /\ task[t].run = "register" /\ Done(t, c)
  /\ registered' = registered \cup {call[c].seg}
  /\ GoOn(t, Taken(c), {}, task[t].todo, registered')
  /\ UNCHANGED <<local, flushes, etcd, faults, history>>

-----------------------------------------------------------------------------
(***************************************************************************)
(* The coordinator's handlers, one etcd operation at a time.               *)
(***************************************************************************)
At(c, kind, step) == call[c].kind = kind /\ call[c].step = step

\* list_segments
ListSegments(c) ==
  /\ At(c, "list", "start")
  /\ call' = [call EXCEPT ![c] = Answered(c, remote)]
  /\ UNCHANGED <<writer, etcd, faults, history>>

\* delete_segment
DeleteSegment(c) ==
  /\ At(c, "delete", "start")
  /\ remote' = remote \ {call[c].seg}
  /\ call' = [call EXCEPT ![c] = Answered(c, {})]
  /\ UNCHANGED <<writer, snapshot, faults, history>>

\* register_segment: put the segment, read the snapshot, write the larger.  A
\* registration that has read it by then will write over this one.
PutSegment(c) ==
  /\ At(c, "register", "start")
  /\ remote' = remote \cup {call[c].seg}
  /\ call' = [call EXCEPT ![c].step = "read"]
  /\ UNCHANGED <<writer, snapshot, faults, history>>

\* Mutant: int(current or "-1").
ReadSnapshot_Unset(c) ==
  /\ At(c, "register", "read")
  /\ call' = [call EXCEPT ![c].step = "write",
                          ![c].read = IF snapshot = 0 THEN -1 ELSE snapshot]
  /\ UNCHANGED <<writer, etcd, faults, history>>

ReadSnapshot(c) ==
  /\ At(c, "register", "read")
  /\ call' = [call EXCEPT ![c].step = "write", ![c].read = snapshot]
  /\ UNCHANGED <<writer, etcd, faults, history>>

\* Mutant: min() in the place of max().
Larger_Min(m, n) == IF m < n THEN m ELSE n

Larger(m, n) == IF m < n THEN n ELSE m

WriteSnapshot(c) ==
  /\ At(c, "register", "write")
  /\ snapshot' = Larger(call[c].read, call[c].seg.snap)
  /\ call' = [call EXCEPT ![c] = Answered(c, {})]
  /\ overtaken' = IF \E d \in Calls \ {c} : At(d, "register", "write")
                    THEN overtaken \cup {call[c].seg} ELSE overtaken
  /\ UNCHANGED <<writer, remote, faults, exposed>>

-----------------------------------------------------------------------------
(***************************************************************************)
(* Faults.                                                                 *)
(***************************************************************************)
Fault == faults < MaxFaults /\ faults' = faults + 1

\* The client's timeout: the call is sent again, to the same or another
\* replica, while the first one may still be executing.
Retry(t, c) ==
  /\ Fault
  /\ call[c].owner = t
  /\ call' \in Sent([call EXCEPT ![c] = Abandoned(c)], Request(t, call[c].kind, call[c].seg))
  /\ UNCHANGED <<writer, etcd, history>>

\* Mutant: the segment is on record before the call has succeeded.
Fail_MarksRegistered(t, c) ==
  /\ Fault
  /\ call[c].owner = t
  /\ call' = [call EXCEPT ![c] = Abandoned(c)]
  /\ task' = [task EXCEPT ![t] = IdleTask]
  /\ registered' = registered \cup (IF call[c].kind = "register" THEN {call[c].seg} ELSE {})
  /\ UNCHANGED <<local, flushes, etcd, history>>

\* The last attempt fails too: the exception ends the run.
Fail(t, c) ==
  /\ Fault
  /\ call[c].owner = t
  /\ call' = [call EXCEPT ![c] = Abandoned(c)]
  /\ task' = [task EXCEPT ![t] = IdleTask]
  /\ UNCHANGED <<local, flushes, registered, etcd, history>>

\* A coordinator dies in the middle of a request that its client has given up.
Abort(c) ==
  /\ call[c].kind # "free" /\ call[c].owner = None
  /\ call' = Taken(c)
  /\ UNCHANGED <<writer, etcd, faults, history>>

\* The writer is restarted: stop() may flush one more segment after the last
\* run, and _registered_segments is loaded from the coordinator, or is empty
\* when the coordinator does not answer.  What it takes over may be an entry whose
\* registration has not written the snapshot.
Restart ==
  /\ Fault
  /\ Flush \/ UNCHANGED <<local, flushes>>
  /\ registered' \in {remote, {}}
  /\ task' = [t \in Tasks |-> IdleTask]
  /\ call' = [c \in Calls |-> Abandoned(c)]
  /\ overtaken' = overtaken \cup {s \in registered' :
                       s.snap > snapshot \/ \E c \in Calls : At(c, "register", "write")}
  /\ UNCHANGED <<etcd, exposed>>

-----------------------------------------------------------------------------
Init ==
  /\ local = {} /\ flushes = 0 /\ registered = {}
  /\ task = [t \in Tasks |-> IdleTask]
  /\ call = [c \in Calls |-> FreeCall]
  /\ remote = {} /\ snapshot = 0
  /\ faults = 0
  /\ exposed = {} /\ overtaken = {}

Resume(t, c) == Listed(t, c) \/ Deleted(t, c) \/ Registered(t, c)

Handle(c) == \/ ListSegments(c) \/ DeleteSegment(c)
             \/ PutSegment(c) \/ ReadSnapshot(c) \/ WriteSnapshot(c)

Next ==
  \/ \E t \in Tasks : Tick(t) \/ InsertFlush(t)
  \/ \E t \in Tasks, c \in Calls : Resume(t, c) \/ Retry(t, c) \/ Fail(t, c)
  \/ \E c \in Calls : Handle(c) \/ Abort(c)
  \/ Restart

Spec == Init /\ [][Next]_vars

\* The background loop ticks forever (writer/app.py catches what a run raises),
\* started handlers go on, and a run takes in the answers it waits for.
FairSpec ==
  /\ Spec
  /\ WF_vars(Tick(Loop))
  /\ \A t \in Tasks, c \in Calls : WF_vars(Resume(t, c))
  /\ \A c \in Calls : WF_vars(Handle(c))

-----------------------------------------------------------------------------
(***************************************************************************)
(* Properties.                                                             *)
(***************************************************************************)

\* The type of every variable.
TypeOK ==
  /\ local \subseteq Segment /\ flushes \in 0..MaxFlushes
  /\ registered \subseteq Segment
  /\ task \in [Tasks -> Task]
  /\ call \in [Calls -> Call]
  /\ remote \subseteq Segment /\ snapshot \in Nat
  /\ faults \in 0..MaxFaults
  /\ exposed \subseteq Segment /\ overtaken \subseteq Segment

\* The snapshot that searches are given reaches every segment that the writer
\* believes registered, so its rows can be found.  The only ways to be above it: a
\* second POST had read the snapshot before this one wrote it, or a restarted writer
\* has taken over an unfinished registration (register_segment,
\* _current_snapshot_id, _load_registered_segments).
SnapshotCoversSegments == \A s \in registered \ overtaken : s.snap <= snapshot

\* A segment the writer believes registered, and would never register again, is
\* listed, whatever other runs, and calls that their clients have given up, are
\* doing.  The only way to lose its entry: a run had computed its local_ids before
\* the flush and had no list yet (_registered_segments).
RegisteredIsRemote == registered \cap local \subseteq remote \cup exposed

\* The cleanup of stale entries never takes a segment the writer still has, except
\* in the same way (local_ids against the answer of GET /segments).
LiveSegmentsStay == [][\A s \in (local \cap remote) \ exposed : s \in remote']_vars

\* Once flushes and faults are over, the coordinator lists segments of the writer
\* only, and all but those that a run with older local_ids could delete; the
\* writer believes that it has registered every one
\* (register_unregistered_segments, retried by the loop).
EventuallyRegistered ==
  <>[](remote \subseteq local /\ local \subseteq registered /\ local \ remote \subseteq exposed)

\* Every flushed segment gets registered, and stays so.
FlushedSegmentsAreListed == <>[](remote = local)

=============================================================================
