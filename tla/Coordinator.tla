------------------------------ MODULE Coordinator ------------------------------
(***************************************************************************)
(* The nodes a coordinator knows, and the searches it fans out to them:    *)
(* POST /register, POST /search, GET /health and the routes of             *)
(* coordinator/app.py, the client that the readers register with           *)
(* (coordinator/client.py), and the loop that does so (reader/app.py).     *)
(*                                                                         *)
(* A handler suspends at every etcd or HTTP call.  Between them it is one  *)
(* step: in particular _refresh_nodes reads the keys in one step and       *)
(* replaces `nodes` and the ring in a later one, so an older list can      *)
(* replace a newer one.  Who leads is settled by LeaderElection; here the  *)
(* leader key is lost and taken again in single steps.                     *)
(***************************************************************************)
EXTENDS TopK, HashRing, Sequences

CONSTANTS
  Coordinators,
  None,         \* no leader, no coordinator
  Urls,         \* Settings.coordinator_urls, as the coordinators they name
  Rounds,       \* how often a client goes through them (3 in the code)
  Modes,        \* the values of search_fanout_mode to look at
  Shard,        \* the hits of the query in the shard of each reader
  K,            \* top_k of the searches
  Searches,     \* POST /search requests that can be in progress at once
  Probes,       \* GET /health requests likewise
  Lap,          \* search_counter is kept modulo this, a multiple of every list length
  MaxFaults     \* bound: crashes, time-outs and lost leader keys

Slots == Searches \cup Probes

ASSUME CoordinatorAssumption ==
  /\ None \notin Coordinators
  /\ Readers \cap (Coordinators \cup {None} \cup Slots) = {}
  /\ Searches \cap Probes = {}
  /\ Urls \in Seq(Coordinators) /\ Len(Urls) > 0
  /\ Rounds \in Nat \ {0} /\ K \in Nat \ {0} /\ Lap \in Nat \ {0} /\ MaxFaults \in Nat

\* What all readers hold together.  An id is in one shard and, newest version
\* only, once there: the writer routes it by id % num_shards.
Hits == UNION {Shard[r] : r \in Readers}

ASSUME ShardAssumption ==
  /\ IsFiniteSet(Hits)
  /\ \A h \in Hits : h.dist \in Nat
  /\ \A g, h \in Hits : g.id = h.id => g = h

VARIABLES
  fanout,     \* Settings.search_fanout_mode, the same for all
  \* etcd
  members,    \* the nodes that have a key under NODE_PREFIX
  leaderKey,  \* /vecscaledb/leader
  \* the processes
  up,         \* those that run
  leader,     \* the coordinators whose global `leader` is set
  nodes,      \* the readers in the global `nodes` of each coordinator
  counter,    \* search_counter of each coordinator
  \* the readers' registrations
  attempt,    \* the call the client of a reader has come to, 0 before the first
  call,       \* the handler that executes it
  late,       \* readers whose loop has been held up since their last key
  \* the requests of users
  request,    \* the handler in each slot
  faults

etcd == <<members, leaderKey>>
globals == <<up, leader, nodes, counter>>
clients == <<attempt, call, late>>
vars == <<fanout, etcd, globals, clients, request, faults>>

Fault == faults < MaxFaults /\ faults' = faults + 1

NoCall == [step |-> "free", at |-> None, to |-> None, got |-> {}, awaited |-> FALSE]
NoRequest == [step |-> "free", at |-> None, got |-> {}, targets |-> {},
              ans |-> {}, incomplete |-> FALSE,
              \* ghosts: readers whose keys have been there throughout, refreshes
              \* that have read before this one, whether one of them came later
              since |-> {}, older |-> {}, overtaken |-> FALSE]

Init ==
  /\ fanout \in Modes
  /\ members = Coordinators
  /\ \E c \in Coordinators : leaderKey = c /\ leader = {c}
  /\ up = Coordinators \cup Readers
  /\ nodes = [c \in Coordinators |-> {}] /\ counter = [c \in Coordinators |-> 0]
  /\ attempt = [r \in Readers |-> 0] /\ call = [r \in Readers |-> NoCall] /\ late = {}
  /\ request = [s \in Slots |-> NoRequest]
  /\ faults = 0

-----------------------------------------------------------------------------
(***************************************************************************)
(* The processes and their keys.                                           *)
(***************************************************************************)
\* Mutant: coordinators and writers join the ring.
ReadersOf_All(keys) == keys

\* _reader_nodes
ReadersOf(keys) == keys \cap Readers

\* The handlers that have read the keys for a _refresh_nodes at c.
Reading(c) ==
  {r \in Readers : call[r].step = "read" /\ call[r].at = c}
    \cup {s \in Slots : request[s].step = "read" /\ request[s].at = c}

\* Handler h replaces the nodes of its coordinator: the searches there that had
\* read later and have already replaced them are overtaken.
Overtaking(reqs, h) ==
  [s \in Slots |->
     IF h \in reqs[s].older
       THEN [reqs[s] EXCEPT !.older = @ \ {h}, !.overtaken = @ \/ reqs[s].step = "snapshot"]
       ELSE reqs[s]]

\* The requests of a process that has gone fail, and nobody hears their answers.
Crash(p) ==
  /\ p \in up /\ Fault
  /\ up' = up \ {p} /\ leader' = leader \ {p}
  /\ nodes' = [c \in Coordinators |-> IF c = p THEN {} ELSE nodes[c]]
  /\ counter' = [c \in Coordinators |-> IF c = p THEN 0 ELSE counter[c]]
  /\ request' = [s \in Slots |-> IF request[s].at = p THEN NoRequest ELSE request[s]]
  /\ attempt' = [r \in Readers |-> IF r = p THEN 0 ELSE attempt[r]]
  /\ call' = [r \in Readers |->
                IF call[r].at = p THEN NoCall
                ELSE IF r = p THEN [call[r] EXCEPT !.awaited = FALSE] ELSE call[r]]
  /\ UNCHANGED <<fanout, etcd, late>>

\* A reader starts, and its lifespan registers it like a round of its loop.
Restart(r) ==
  /\ r \in Readers \ up
  /\ up' = up \cup {r}
  /\ UNCHANGED <<fanout, etcd, leader, nodes, counter, clients, request, faults>>

\* The lifespan of a coordinator: campaign, _register_self, _refresh_nodes.  It
\* serves nothing before that.
Boot(c) ==
  /\ c \in Coordinators \ up
  /\ up' = up \cup {c}
  /\ members' = members \cup {c}
  /\ IF leaderKey \in {None, c} THEN leaderKey' = c /\ leader' = leader \cup {c}
                                ELSE UNCHANGED <<leaderKey, leader>>
  /\ nodes' = [nodes EXCEPT ![c] = ReadersOf(members')]
  /\ UNCHANGED <<fanout, counter, clients, request, faults>>

\* _heartbeat_loop: the own key, then _sync_leader_state.
Heartbeat(c) ==
  /\ c \in Coordinators \cap up
  /\ members' = members \cup {c}
  /\ \/ c \in leader /\ leaderKey # c /\ leader' = leader \ {c} /\ UNCHANGED leaderKey
     \/ c \notin leader /\ leaderKey = None
          /\ leader' = leader \cup {c} /\ leaderKey' = c
     \/ (c \in leader <=> leaderKey = c) /\ UNCHANGED <<leader, leaderKey>>
  /\ UNCHANGED <<fanout, up, nodes, counter, clients, request, faults>>

\* The leader key is not renewed: its holder is down, ...
LeaderExpires ==
  /\ leaderKey \in Coordinators \ up
  /\ leaderKey' = None
  /\ UNCHANGED <<fanout, members, globals, clients, request, faults>>

\* ... or too slow.
LoseLeaderKey ==
  /\ leaderKey # None /\ Fault
  /\ leaderKey' = None
  /\ UNCHANGED <<fanout, members, globals, clients, request>>

\* The TTL of a node key, twice the period of the loop that puts it: it runs out
\* when the node is down or a round of its loop has been held up.
Expire(n) ==
  /\ n \in members /\ (n \in late \/ n \notin up)
  /\ members' = members \ {n}
  /\ request' = [s \in Slots |->
                   IF request[s].step \in {"read", "snapshot"}
                     THEN [request[s] EXCEPT !.since = @ \ {n}] ELSE request[s]]
  /\ UNCHANGED <<fanout, leaderKey, globals, clients, faults>>

-----------------------------------------------------------------------------
(***************************************************************************)
(* Registration: _refresh_loop and _register_self of reader/app.py,        *)
(* CoordinatorClient._request, and register with _proxy_to_leader.         *)
(***************************************************************************)
Attempts == Rounds * Len(Urls)

\* Mutant: no failover, every attempt goes to the first URL.
UrlAt_First(n) == Urls[1]

UrlAt(n) == Urls[((n - 1) % Len(Urls)) + 1]

\* The loop comes round, or an attempt has failed: the next one.
Ask(r) ==
  /\ r \in up /\ call[r] = NoCall /\ attempt[r] < Attempts
  /\ attempt' = [attempt EXCEPT ![r] = @ + 1]
  /\ call' = [call EXCEPT ![r] = [NoCall EXCEPT !.step = "sent", !.awaited = TRUE,
                                                !.at = UrlAt(attempt[r] + 1)]]
  /\ UNCHANGED <<fanout, etcd, globals, late, request, faults>>

\* All have failed: the client raises, the loop logs that and sleeps.
GiveUp(r) ==
  /\ call[r] = NoCall /\ attempt[r] = Attempts
  /\ attempt' = [attempt EXCEPT ![r] = 0]
  /\ late' = late \cup {r}
  /\ UNCHANGED <<fanout, etcd, globals, call, request, faults>>

\* The client waits no longer; the handler goes on.
TimeOut(r) ==
  /\ call[r].awaited /\ Fault
  /\ call' = [call EXCEPT ![r].awaited = FALSE]
  /\ late' = late \cup {r}
  /\ UNCHANGED <<fanout, etcd, globals, attempt, request>>

At(r, step) == call[r].step = step /\ call[r].at \in up

\* The coordinator is down, or answers 503, or its call to the leader fails.
Refuse(r) ==
  /\ \/ call[r].step = "sent" /\ call[r].at \notin up
     \/ At(r, "asked") /\ call[r].to \in {None, call[r].at}
     \/ At(r, "forwarding") /\ call[r].to \notin up
  /\ call' = [call EXCEPT ![r] = NoCall]
  /\ UNCHANGED <<fanout, etcd, globals, attempt, late, request, faults>>

\* register() on the leader puts the key ...
PutKey(r) ==
  /\ At(r, "sent") /\ call[r].at \in leader
  /\ members' = members \cup {r}
  /\ late' = late \ {r}
  /\ call' = [call EXCEPT ![r].step = "put"]
  /\ UNCHANGED <<fanout, leaderKey, globals, attempt, request, faults>>

\* ... and adds the node to its list and its ring; the answer is that it is
\* registered.
AddNode(r) ==
  /\ At(r, "put")
  /\ nodes' = [nodes EXCEPT ![call[r].at] = @ \cup {r}]
  /\ call' = [call EXCEPT ![r] = NoCall]
  /\ attempt' = [attempt EXCEPT ![r] = IF call[r].awaited THEN 0 ELSE @]
  /\ UNCHANGED <<fanout, etcd, up, leader, counter, late, request, faults>>

\* A follower asks etcd who leads ...
AskLeader(r) ==
  /\ At(r, "sent") /\ call[r].at \notin leader
  /\ call' = [call EXCEPT ![r].step = "asked", ![r].to = leaderKey]
  /\ UNCHANGED <<fanout, etcd, globals, attempt, late, request, faults>>

\* ... reads the nodes ...
ProxyReads(r) ==
  /\ At(r, "asked") /\ call[r].to \notin {None, call[r].at}
  /\ call' = [call EXCEPT ![r].step = "read", ![r].got = members]
  /\ UNCHANGED <<fanout, etcd, globals, attempt, late, request, faults>>

\* ... replaces its own, and refuses when the leader is not among them ...
ProxyRefreshes(r) ==
  LET c == call[r].at IN
  /\ At(r, "read")
  /\ nodes' = [nodes EXCEPT ![c] = ReadersOf(call[r].got)]
  /\ request' = Overtaking(request, r)
  /\ call' = [call EXCEPT ![r] = IF call[r].to \in call[r].got
                                   THEN [@ EXCEPT !.step = "forwarding", !.got = {}]
                                   ELSE NoCall]
  /\ UNCHANGED <<fanout, etcd, up, leader, counter, attempt, late, faults>>

\* ... and passes the request on to the leader it was told of.
Forward(r) ==
  /\ At(r, "forwarding") /\ call[r].to \in up
  /\ call' = [call EXCEPT ![r].step = "sent", ![r].at = call[r].to, ![r].to = None]
  /\ UNCHANGED <<fanout, etcd, globals, attempt, late, request, faults>>

-----------------------------------------------------------------------------
(***************************************************************************)
(* GET /health and POST /search                                            *)
(***************************************************************************)
\* The request comes in, and _refresh_nodes reads the keys.
Receive(s, c) ==
  /\ c \in Coordinators \cap up /\ request[s] = NoRequest
  /\ request' = [request EXCEPT ![s] =
       IF s \in Probes
         THEN [NoRequest EXCEPT !.step = "read", !.at = c, !.got = members]
         ELSE [NoRequest EXCEPT !.step = "read", !.at = c, !.got = members,
                                !.since = members \cap Readers, !.older = Reading(c)]]
  /\ UNCHANGED <<fanout, etcd, globals, clients, faults>>

Doing(s, step) == request[s].step = step

\* Mutant: a list that is not empty is kept.
Refresh_OnceOnly(s) ==
  LET c == request[s].at
      reqs == Overtaking(request, s) IN
  /\ Doing(s, "read")
  /\ nodes' = [nodes EXCEPT ![c] = IF @ = {} THEN ReadersOf(request[s].got) ELSE @]
  /\ request' = [reqs EXCEPT ![s] = IF s \in Searches
                                      THEN [@ EXCEPT !.step = "snapshot", !.got = {}]
                                      ELSE NoRequest]
  /\ UNCHANGED <<fanout, etcd, up, leader, counter, clients, faults>>

\* _refresh_nodes replaces the list and the ring; /health then answers, and
\* /search goes on to read the current snapshot.
Refresh(s) ==
  LET c == request[s].at
      reqs == Overtaking(request, s) IN
  /\ Doing(s, "read")
  /\ nodes' = [nodes EXCEPT ![c] = ReadersOf(request[s].got)]
  /\ request' = [reqs EXCEPT ![s] = IF s \in Searches
                                      THEN [@ EXCEPT !.step = "snapshot", !.got = {}]
                                      ELSE NoRequest]
  /\ UNCHANGED <<fanout, etcd, up, leader, counter, clients, faults>>

\* sorted(list)[i] = n
IsNth(n, list, i) == Cardinality({m \in list : m < n}) = i

\* _search_targets: all readers, of which there may be none, ...
Scatter(s) ==
  LET list == nodes[request[s].at] IN
  /\ Doing(s, "snapshot")
  /\ fanout = "scatter" \/ Cardinality(list) <= 1
  /\ request' = [request EXCEPT ![s].step = "asking", ![s].targets = list, ![s].older = {}]
  /\ UNCHANGED <<fanout, etcd, globals, clients, faults>>

\* ... or one after the other, ...
TakeTurns(s) ==
  LET c == request[s].at
      list == nodes[c] IN
  /\ Doing(s, "snapshot") /\ Cardinality(list) > 1 /\ fanout = "replicated"
  /\ counter' = [counter EXCEPT ![c] = (@ + 1) % Lap]
  /\ \E n \in list :
       /\ IsNth(n, list, counter[c] % Cardinality(list))
       /\ request' = [request EXCEPT ![s].step = "asking", ![s].targets = {n}, ![s].older = {}]
  /\ UNCHANGED <<fanout, etcd, up, leader, nodes, clients, faults>>

\* ... or, with an unknown mode, none: the answer is an error.
RefuseMode(s) ==
  /\ Doing(s, "snapshot") /\ Cardinality(nodes[request[s].at]) > 1
  /\ fanout \notin {"scatter", "replicated"}
  /\ request' = [request EXCEPT ![s] = NoRequest]
  /\ UNCHANGED <<fanout, etcd, globals, clients, faults>>

\* What a reader holds: its shard, or everything.
Served(r) == IF fanout = "replicated" THEN Hits ELSE Shard[r]

\* Mutant: the exceptions of gather are dropped.
Incomplete_Never(failed) == FALSE

Incomplete(failed) == failed # {}

\* _search_reader of each target, gather, and merge_results: a reader that is
\* down fails, and any other one can.
Gather(s) ==
  /\ Doing(s, "asking")
  /\ \E failed \in SUBSET request[s].targets :
       LET answering == request[s].targets \ failed IN
       /\ request[s].targets \ up \subseteq failed
       /\ IF failed \cap up # {} THEN Fault ELSE UNCHANGED faults
       /\ \E reply \in [answering -> UNION {Nearest(Served(r), K) : r \in answering}] :
            /\ \A r \in answering : reply[r] \in Nearest(Served(r), K)
            /\ \E ans \in MergedResults({reply[r] : r \in answering}, K, {}) :
                 request' = [request EXCEPT ![s] =
                   [NoRequest EXCEPT !.step = "answered", !.at = request[s].at,
                                     !.targets = request[s].targets, !.ans = ans,
                                     !.incomplete = Incomplete(failed)]]
  /\ UNCHANGED <<fanout, etcd, globals, clients>>

Done(s) ==
  /\ Doing(s, "answered")
  /\ request' = [request EXCEPT ![s] = NoRequest]
  /\ UNCHANGED <<fanout, etcd, globals, clients, faults>>

-----------------------------------------------------------------------------
Register(r) ==
  \/ Ask(r) \/ GiveUp(r) \/ Refuse(r) \/ PutKey(r) \/ AddNode(r) \/ AskLeader(r)
  \/ ProxyReads(r) \/ ProxyRefreshes(r) \/ Forward(r)

Serve(s) ==
  \/ Refresh(s) \/ Scatter(s) \/ TakeTurns(s) \/ RefuseMode(s)
  \/ Gather(s) \/ Done(s)

Next ==
  \/ \E p \in Coordinators \cup Readers : Crash(p) \/ Expire(p)
  \/ \E c \in Coordinators : Boot(c) \/ Heartbeat(c)
  \/ LeaderExpires \/ LoseLeaderKey
  \/ \E r \in Readers : Restart(r) \/ Register(r) \/ TimeOut(r)
  \/ \E s \in Slots : Serve(s) \/ \E c \in Coordinators : Receive(s, c)

Spec == Init /\ [][Next]_vars

\* The loops of the readers and of the coordinators go on, handlers end, and
\* the TTL of a key that nobody renews runs out.
Fairness ==
  /\ \A r \in Readers : WF_vars(Register(r))
  /\ \A c \in Coordinators : WF_vars(Heartbeat(c))
  /\ WF_vars(LeaderExpires)
  /\ \A n \in Coordinators \cup Readers : WF_vars(n \notin up /\ Expire(n))

FairSpec == Spec /\ Fairness

-----------------------------------------------------------------------------
(***************************************************************************)
(* Properties.                                                             *)
(***************************************************************************)
Calls == [step : {"free", "sent", "asked", "read", "forwarding", "put"},
          at : Coordinators \cup {None}, to : Coordinators \cup {None},
          got : SUBSET (Coordinators \cup Readers), awaited : BOOLEAN]

Busy == [step : {"read", "snapshot", "asking", "answered"}, at : Coordinators,
         got : SUBSET (Coordinators \cup Readers), targets : SUBSET Readers,
         ans : SUBSET Hits, incomplete : BOOLEAN,
         since : SUBSET Readers, older : SUBSET (Readers \cup Slots), overtaken : BOOLEAN]

\* The types of the variables; nodes holds readers only (_reader_nodes), and only
\* a process that runs leads.
TypeOK ==
  /\ members \subseteq Coordinators \cup Readers
  /\ leaderKey \in Coordinators \cup {None}
  /\ up \subseteq Coordinators \cup Readers /\ leader \subseteq Coordinators \cap up
  /\ nodes \in [Coordinators -> SUBSET Readers]
  /\ counter \in [Coordinators -> 0..(Lap - 1)]
  /\ attempt \in [Readers -> 0..Attempts]
  /\ call \in [Readers -> Calls]
  /\ late \subseteq Readers
  /\ request \in [Slots -> Busy \cup {NoRequest}]
  /\ faults \in 0..MaxFaults

\* An answer that is not marked incomplete is a top-k of all that its targets
\* hold: no failed target and no merge order has lost a hit (search, gather with
\* return_exceptions, merge_results).
CompleteAnswersAreExact ==
  \A s \in Searches : request[s].step = "answered" /\ ~request[s].incomplete =>
    IsNearest(request[s].ans, UNION {Served(r) : r \in request[s].targets}, K)

\* A search of scatter mode asks every reader whose key was there from its arrival
\* until its targets were chosen, unless a refresh of another request, which had
\* read the keys before, replaced the list in between: an answer that is not
\* marked incomplete then misses a shard (_refresh_nodes, and the awaits of search
\* between it and _search_targets).
NoShardIsMissed ==
  \A s \in Searches :
    request[s].step = "asking" /\ fanout = "scatter" /\ ~request[s].overtaken =>
      request[s].since \subseteq request[s].targets

\* Whatever list its handlers have left a coordinator with, as long as there is a
\* reader in it, GET /route/search sends the query to exactly one of them, also
\* when virtual nodes collide (_rebuild_ring, get_node, route_search).
KeysAreOwned ==
  \A c \in Coordinators : nodes[c] # {} =>
    \A key \in Tokens : \E n \in nodes[c] : RouteSearch(nodes[c], key) = {n}

\* A reader that stays up, while some coordinator does, is registered in the end
\* and stays so, whichever replica it asks and whoever leads; one that stays down
\* is forgotten (_refresh_loop, CoordinatorClient._request, _proxy_to_leader, the
\* TTL of its key).
ReadersListed ==
  \A r \in Readers :
    /\ <>[](r \in up) /\ <>[](Coordinators \cap up # {}) => <>[](r \in members)
    /\ <>[](r \notin up) => <>[](r \notin members)

=============================================================================
