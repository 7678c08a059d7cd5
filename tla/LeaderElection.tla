---------------------------- MODULE LeaderElection ----------------------------
(***************************************************************************)
(* Which coordinator leads: the heartbeat loop and the leader flag of      *)
(* coordinator/app.py over EtcdClient.campaign and two etcd keys with a    *)
(* time to live.                                                           *)
(*                                                                         *)
(* A replica runs _sync_leader_state in its heartbeat task and in every    *)
(* GET /health, and both suspend at each etcd call.  Here a call takes     *)
(* effect in one step and the coroutine goes on in the next one, so that   *)
(* what it has read may be stale by then.  Time passes in periods of one   *)
(* heartbeat.                                                              *)
(***************************************************************************)
EXTENDS Integers, FiniteSets

CONSTANTS
  Nodes,        \* the coordinator replicas
  Probed,       \* those that are asked GET /health, as often as somebody likes
  None,         \* the key is not set
  Ttl,          \* heartbeats in the time to live of a key (10 s over 5 s)
  MaxCrashes,   \* bound: replicas that die
  MaxErrors,    \* bound: etcd calls that raise after their retries
  MaxDelays,    \* bound: periods that end before the replicas' work is done
  MaxEvents     \* bound: all of these together, a late period counting as two

ASSUME ElectionAssumption ==
  /\ None \notin Nodes /\ Probed \subseteq Nodes
  /\ Ttl \in Nat \ {0}
  /\ {MaxCrashes, MaxErrors, MaxDelays, MaxEvents} \subseteq Nat

Tasks == {"beat", "health"}

VARIABLES
  \* etcd
  election,   \* /vecscaledb/elections/coordinator
  leaderKey,  \* /vecscaledb/leader
  member,     \* the time /vecscaledb/nodes/<node> has left, 0 when it is gone
  \* the replicas
  mode,       \* where the process and its heartbeat task are
  leader,     \* the global `leader`
  proc,       \* what each task is doing, and what it read from etcd last
  \* faults so far
  crashes, errors, delays

keys == <<election, leaderKey, member>>
replicas == <<mode, leader, proc>>
counts == <<crashes, errors, delays>>
vars == <<keys, replicas, counts>>

Eventful(cost) == crashes + errors + 2 * delays + cost <= MaxEvents

\* "stuck": the heartbeat task has ended with an exception and the app serves on.
Modes == {"down", "booting", "due", "beaten", "stuck"}
Serving == {"due", "beaten", "stuck"}

\* The steps that wait for etcd; at "won" the last put has taken effect.
Waits == {"register", "get", "renewElection", "renewLeader",
          "poll", "claimElection", "claimLeader", "won", "join", "refresh"}
Steps == Waits \cup {"idle", "decide", "polled"}

Lease == [owner : Nodes, ttl : 1..Ttl] \cup {[owner |-> None, ttl |-> 0]}
NoLease == [owner |-> None, ttl |-> 0]
Held(n) == [owner |-> n, ttl |-> Ttl]

Idle == [at |-> "idle", seen |-> None]
At(n, p, s) == proc[<<n, p>>].at = s
GoTo(n, p, s) == proc' = [proc EXCEPT ![<<n, p>>].at = s]
Read(n, p, value, s) == proc' = [proc EXCEPT ![<<n, p>>] = [at |-> s, seen |-> value]]

\* The leader flag of n is up to date: lifespan() goes on to register the
\* replica, and /health to read the members.
Finish(n, p) ==
  \/ mode[n] = "booting" /\ Read(n, p, None, "join")
  \/ mode[n] # "booting" /\ p = "health" /\ Read(n, p, None, "refresh")
  \/ mode[n] # "booting" /\ p = "beat" /\ Read(n, p, None, "idle")

-----------------------------------------------------------------------------
(***************************************************************************)
(* _heartbeat_loop, _register_self, _sync_leader_state                     *)
(***************************************************************************)
Beat(n) ==
  /\ mode[n] = "due" /\ At(n, "beat", "idle")
  /\ mode' = [mode EXCEPT ![n] = "beaten"]
  /\ GoTo(n, "beat", "register")
  /\ UNCHANGED <<keys, leader, counts>>

Register(n, p) ==
  /\ \/ At(n, p, "register") /\ GoTo(n, p, "get")
     \/ At(n, p, "join") /\ GoTo(n, p, "refresh")
  /\ member' = [member EXCEPT ![n] = Ttl]
  /\ UNCHANGED <<election, leaderKey, mode, leader, counts>>

\* _refresh_nodes; lifespan() then starts the heartbeat task.
Refresh(n, p) ==
  /\ At(n, p, "refresh") /\ GoTo(n, p, "idle")
  /\ mode' = IF mode[n] = "booting" THEN [mode EXCEPT ![n] = "due"] ELSE mode
  /\ UNCHANGED <<keys, leader, counts>>

\* GET /health comes in.
Health(n) ==
  /\ n \in Probed /\ mode[n] \in Serving /\ At(n, "health", "idle")
  /\ GoTo(n, "health", "get")
  /\ UNCHANGED <<keys, mode, leader, counts>>

GetLeader(n, p) ==
  /\ At(n, p, "get")
  /\ Read(n, p, leaderKey.owner, "decide")
  /\ UNCHANGED <<keys, mode, leader, counts>>

\* Mutant: the leader renews its own key and forgets the election's.
Renew_LeaderKeyOnly(n, p) ==
  /\ At(n, p, "decide") /\ leader[n] /\ proc[<<n, p>>].seen = n
  /\ GoTo(n, p, "renewLeader")
  /\ UNCHANGED <<keys, mode, leader, counts>>

Renew(n, p) ==
  /\ At(n, p, "decide") /\ leader[n] /\ proc[<<n, p>>].seen = n
  /\ GoTo(n, p, "renewElection")
  /\ UNCHANGED <<keys, mode, leader, counts>>

StepDown(n, p) ==
  /\ At(n, p, "decide") /\ leader[n] /\ proc[<<n, p>>].seen # n
  /\ leader' = [leader EXCEPT ![n] = FALSE]
  /\ Finish(n, p)
  /\ UNCHANGED <<keys, mode, counts>>

Follow(n, p) ==
  /\ At(n, p, "decide") /\ ~leader[n] /\ proc[<<n, p>>].seen # None
  /\ Finish(n, p)
  /\ UNCHANGED <<keys, mode, leader, counts>>

\* Mutant: a replica campaigns when it starts and never again.
Campaign_OnlyAtStart(n, p) ==
  /\ At(n, p, "decide") /\ ~leader[n] /\ proc[<<n, p>>].seen = None
  /\ Finish(n, p)
  /\ UNCHANGED <<keys, mode, leader, counts>>

Campaign(n, p) ==
  /\ At(n, p, "decide") /\ ~leader[n] /\ proc[<<n, p>>].seen = None
  /\ GoTo(n, p, "poll")
  /\ UNCHANGED <<keys, mode, leader, counts>>

-----------------------------------------------------------------------------
(***************************************************************************)
(* EtcdClient.campaign: a get, and two puts when it finds nothing.         *)
(***************************************************************************)
Poll(n, p) ==
  /\ At(n, p, "poll")
  /\ Read(n, p, election.owner, "polled")
  /\ UNCHANGED <<keys, mode, leader, counts>>

Claim(n, p) ==
  /\ At(n, p, "polled") /\ proc[<<n, p>>].seen = None
  /\ GoTo(n, p, "claimElection")
  /\ UNCHANGED <<keys, mode, leader, counts>>

\* return current == value: a replica may find its own key of before a restart.
Polled(n, p) ==
  /\ At(n, p, "polled") /\ proc[<<n, p>>].seen # None
  /\ leader' = [leader EXCEPT ![n] = (proc[<<n, p>>].seen = n)]
  /\ Finish(n, p)
  /\ UNCHANGED <<keys, mode, counts>>

PutElection(n, p) ==
  /\ \/ At(n, p, "renewElection") /\ GoTo(n, p, "renewLeader")
     \/ At(n, p, "claimElection") /\ GoTo(n, p, "claimLeader")
  /\ election' = Held(n)
  /\ UNCHANGED <<leaderKey, member, mode, leader, counts>>

PutLeader(n, p) ==
  /\ \/ At(n, p, "renewLeader") /\ Finish(n, p)
     \/ At(n, p, "claimLeader") /\ GoTo(n, p, "won")
  /\ leaderKey' = Held(n)
  /\ UNCHANGED <<election, member, mode, leader, counts>>

Won(n, p) ==
  /\ At(n, p, "won")
  /\ leader' = [leader EXCEPT ![n] = TRUE]
  /\ Finish(n, p)
  /\ UNCHANGED <<keys, mode, counts>>

-----------------------------------------------------------------------------
(***************************************************************************)
(* Time and faults.                                                        *)
(***************************************************************************)
\* Every live heartbeat task has done its work of this period, and no request is
\* being served.
Timely ==
  \A n \in Nodes : /\ mode[n] \notin {"booting", "due"}
                   /\ \A p \in Tasks : At(n, p, "idle")

\* Mutant: an expired key keeps its value.
Aged_NotPruned(lease) ==
  IF lease.ttl = 0 THEN lease ELSE [lease EXCEPT !.ttl = @ - 1]

Aged(lease) ==
  IF lease.ttl <= 1 THEN NoLease ELSE [lease EXCEPT !.ttl = @ - 1]

Tick ==
  /\ \/ Timely /\ UNCHANGED delays
     \/ /\ ~Timely
        /\ Eventful(2) /\ delays < MaxDelays /\ delays' = delays + 1
  /\ election' = Aged(election)
  /\ leaderKey' = Aged(leaderKey)
  /\ member' = [n \in Nodes |-> IF member[n] = 0 THEN 0 ELSE member[n] - 1]
  /\ mode' = [n \in Nodes |-> IF mode[n] = "beaten" THEN "due" ELSE mode[n]]
  /\ UNCHANGED <<leader, proc, crashes, errors>>

Down(n) ==
  /\ mode' = [mode EXCEPT ![n] = "down"]
  /\ leader' = [leader EXCEPT ![n] = FALSE]
  /\ proc' = [q \in Nodes \X Tasks |-> IF q[1] = n THEN Idle ELSE proc[q]]

\* The process ends, killed or stopped: it gives no key back.
Crash(n) ==
  /\ mode[n] # "down"
  /\ Eventful(1) /\ crashes < MaxCrashes /\ crashes' = crashes + 1
  /\ Down(n)
  /\ UNCHANGED <<keys, errors, delays>>

\* lifespan() begins with a campaign.
Restart(n) ==
  /\ mode[n] = "down"
  /\ mode' = [mode EXCEPT ![n] = "booting"]
  /\ GoTo(n, "beat", "poll")
  /\ UNCHANGED <<keys, leader, counts>>

\* An etcd call raises: it ends the heartbeat task for good, a request with an
\* error, or the process when lifespan() is not over.
Raise(n, p) ==
  /\ proc[<<n, p>>].at \in Waits
  /\ Eventful(1) /\ errors < MaxErrors /\ errors' = errors + 1
  /\ \/ /\ p = "beat" /\ mode[n] = "booting"
        /\ Down(n)
     \/ /\ p = "beat" /\ mode[n] # "booting"
        /\ mode' = [mode EXCEPT ![n] = "stuck"]
        /\ proc' = [proc EXCEPT ![<<n, p>>] = Idle]
        /\ UNCHANGED leader
     \/ /\ p = "health"
        /\ proc' = [proc EXCEPT ![<<n, p>>] = Idle]
        /\ UNCHANGED <<mode, leader>>
  /\ UNCHANGED <<keys, crashes, delays>>

-----------------------------------------------------------------------------
\* All replicas are started at once.
Init ==
  /\ election = NoLease /\ leaderKey = NoLease
  /\ member = [n \in Nodes |-> 0]
  /\ mode = [n \in Nodes |-> "booting"]
  /\ leader = [n \in Nodes |-> FALSE]
  /\ proc = [q \in Nodes \X Tasks |->
               IF q[2] = "beat" THEN [Idle EXCEPT !.at = "poll"] ELSE Idle]
  /\ crashes = 0 /\ errors = 0 /\ delays = 0

Step(n, p) ==
  \/ Register(n, p) \/ Refresh(n, p) \/ GetLeader(n, p)
  \/ Renew(n, p) \/ StepDown(n, p) \/ Follow(n, p) \/ Campaign(n, p)
  \/ Poll(n, p) \/ Claim(n, p) \/ Polled(n, p)
  \/ PutElection(n, p) \/ PutLeader(n, p) \/ Won(n, p)

Next ==
  \/ \E n \in Nodes : Beat(n) \/ Health(n) \/ Crash(n) \/ Restart(n)
  \/ \E n \in Nodes, p \in Tasks : Step(n, p) \/ Raise(n, p)
  \/ Tick

Spec == Init /\ [][Next]_vars

\* Tasks go on, a sleeping heartbeat wakes up, and time passes if requests leave it
\* a moment now and then; nothing says that a replica that has died is started
\* again.
FairSpec ==
  /\ Spec
  /\ \A n \in Nodes : /\ WF_vars(Beat(n) \/ Step(n, "beat"))
                     /\ WF_vars(Step(n, "health"))
  /\ SF_vars(Tick)

-----------------------------------------------------------------------------
(***************************************************************************)
(* Properties.                                                             *)
(***************************************************************************)

\* The type of every variable; a key with no time left is gone.
TypeOK ==
  /\ election \in Lease /\ leaderKey \in Lease
  /\ member \in [Nodes -> 0..Ttl]
  /\ mode \in [Nodes -> Modes]
  /\ leader \in [Nodes -> BOOLEAN]
  /\ proc \in [Nodes \X Tasks -> [at : Steps, seen : Nodes \cup {None}]]
  /\ crashes \in 0..MaxCrashes /\ errors \in 0..MaxErrors
  /\ delays \in 0..MaxDelays

Beating(n) == mode[n] \in {"due", "beaten"}

\* n leads: it knows, no other replica with a heartbeat thinks so, both keys
\* name it, and a replica that proxies a request finds its address.
Leads(n) ==
  /\ mode[n] \in {"due", "beaten"} /\ leader[n]
  /\ \A m \in Nodes \ {n} : leader[m] => mode[m] = "stuck"
  /\ election.owner = n /\ leaderKey.owner = n /\ member[n] > 0

\* Nobody acts on a key that was read, or found absent, before n led.
NoRival(n) ==
  \A m \in Nodes, p \in Tasks :
    /\ proc[<<m, p>>].at \in {"decide", "polled"} => proc[<<m, p>>].seen = n
    /\ m # n => proc[<<m, p>>].at \in {"idle", "register", "get", "decide", "poll", "polled",
                                       "join", "refresh"}

\* No call has raised and no heartbeat has been late.
InTime == errors = 0 /\ delays = 0

\* While heartbeats are in time, a settled leader is never displaced, neither by
\* its own /health requests nor by replicas that start (_sync_leader_state,
\* campaign, the time to live of the keys).
LeaderStays ==
  [][\A n \in Nodes :
       InTime' /\ Leads(n) /\ NoRival(n) /\ mode'[n] # "down" => Leads(n)']_vars

\* Why LeaderStays holds when no call raises and every period is long enough:
\* a task reads and writes within one period, and writes the election key
\* first, so a replica that still leads at the end of a period has renewed
\* both keys in it.  Inductive under these conditions.
Fresh(lease, n) == lease.owner = n => lease.ttl = Ttl

Campaigning == {"poll", "polled", "claimElection", "claimLeader", "won"}

PunctualTask(n, p) ==
  /\ At(n, p, "decide") /\ proc[<<n, p>>].seen # n => Fresh(leaderKey, n)
  /\ mode[n] # "booting" /\ proc[<<n, p>>].at \in Campaigning => Fresh(leaderKey, n)
  /\ proc[<<n, p>>].at \in {"renewLeader", "claimLeader"} => Fresh(election, n)

PunctualReplica(n) ==
  /\ leaderKey.owner = n /\ election.owner = n => leaderKey.ttl <= election.ttl
  /\ mode[n] \in {"down", "booting"} => At(n, "health", "idle")
  /\ mode[n] \in {"down", "due"} => At(n, "beat", "idle")
  /\ mode[n] # "booting" => proc[<<n, "beat">>].at \notin {"join", "refresh"}
  /\ mode[n] = "beaten" => At(n, "beat", "register") \/ member[n] = Ttl
  /\ mode[n] = "beaten" /\ At(n, "beat", "idle") /\ leader[n] => Fresh(leaderKey, n)
  /\ mode[n] # "stuck"

Punctual(n) == PunctualReplica(n) /\ \A p \in Tasks : PunctualTask(n, p)

TimelyInv == InTime => \A n \in Nodes : Punctual(n)

\* A replica whose heartbeat has ended with an exception is asked GET /health.
StuckIsAsked == \E n \in Nodes : mode[n] = "stuck" /\ ~At(n, "health", "idle")

\* A GET /health is between its first read and its last write of the leader keys
\* while another task is too.
Syncing == {"decide", "renewElection", "renewLeader",
            "poll", "polled", "claimElection", "claimLeader", "won"}

Raced ==
  \E n \in Nodes : \E q \in (Nodes \X Tasks) \ {<<n, "health">>} :
    proc[<<n, "health">>].at \in Syncing /\ proc[q].at \in Syncing

\* However elections raced, whatever delays, crashes and failing calls there were
\* and however often GET /health is asked, in the end one replica leads for good, if
\* some heartbeat task is left, requests do not fill every period, and two things
\* that /health makes possible do not go on for ever: that a replica whose heartbeat
\* has ended renews both leader keys while its own key has expired, and that
\* requests and heartbeats undo each other's elections
\* (_heartbeat_loop, health, _sync_leader_state).
OneLeaderInTheEnd ==
  <>[]((\E n \in Nodes : Beating(n)) /\ ~StuckIsAsked /\ ~Raced) /\ []<>Timely
    => <>[](\E n \in Nodes : Leads(n))

=============================================================================
