-------------------------- MODULE CoordinatorProofs --------------------------
(***************************************************************************)
(* Theorems about the coordinator, for any number of replicas, readers,    *)
(* searches and faults.                                                    *)
(***************************************************************************)
EXTENDS Coordinator, HashRingProofs, FiniteSetTheorems, TLAPS

-----------------------------------------------------------------------------
(***************************************************************************)
(* Why the answers of segments, shards and readers can be merged: a top-k  *)
(* of top-k answers of the parts is a top-k of the whole.                  *)
(***************************************************************************)

\* A part that is not answered in full is answered with k hits, none of which is
\* farther than a hit that is left out.
LEMMA LeftOut ==
  ASSUME NEW hits, NEW k, NEW ans, IsNearest(ans, hits, k), NEW h \in hits \ ans
  PROVE  Cardinality(ans) = k /\ \A a \in ans : a.dist <= h.dist
BY DEF IsNearest

\* A partial answer of k hits that is within an answer is that answer.
LEMMA WholeAnswer ==
  ASSUME NEW k \in Nat, NEW hits, IsFiniteSet(hits), NEW ans, IsNearest(ans, hits, k),
         NEW some \in SUBSET ans, Cardinality(some) = k
  PROVE  some = ans
<1>1. IsFiniteSet(ans) /\ Cardinality(ans) <= k
  BY FS_Subset DEF IsNearest
<1>2. Cardinality(some) <= Cardinality(ans) /\ Cardinality(ans) \in Nat
  BY <1>1, FS_Subset, FS_CardinalityType
<1>3. Cardinality(ans) = Cardinality(some)
  BY <1>1, <1>2
<1> QED
  BY <1>1, <1>3, FS_Subset

\* Merging (merge_results in LSMEngine.search, SegmentCache.search_all and the
\* coordinator's search): parts may overlap, and any k nearest of each will do.
THEOREM MergedTopKIsExact ==
  ASSUME NEW k \in Nat, NEW P, NEW part, NEW reply, NEW hits, NEW replies, NEW ans,
         hits = UNION {part[p] : p \in P}, IsFiniteSet(hits),
         \A h \in hits : h.dist \in Nat,
         replies = UNION {reply[p] : p \in P},
         \A p \in P : IsNearest(reply[p], part[p], k),
         IsNearest(ans, replies, k)
  PROVE  IsNearest(ans, hits, k)
<1>1. \A p \in P : reply[p] \subseteq part[p]
  BY DEF IsNearest
<1>2. replies \subseteq hits
  BY <1>1
<1>3. IsFiniteSet(replies)
  BY <1>2, FS_Subset
<1>4. ans \subseteq replies /\ Cardinality(ans) <= k
  BY DEF IsNearest
<1>5. ans \subseteq hits
  BY <1>2, <1>4
<1>6. ASSUME NEW h \in hits \ ans
      PROVE  Cardinality(ans) = k /\ \A a \in ans : a.dist <= h.dist
  <2>1. CASE h \in replies
    BY <2>1, LeftOut
  <2>2. CASE h \notin replies
    <3>1. PICK p \in P : h \in part[p]
      OBVIOUS
    <3>2. h \in part[p] \ reply[p]
      BY <2>2, <3>1
    <3>3. Cardinality(reply[p]) = k /\ \A b \in reply[p] : b.dist <= h.dist
      BY <3>2, LeftOut
    <3>4. CASE reply[p] \subseteq ans
      <4>1. reply[p] = ans
        BY <1>3, <3>3, <3>4, WholeAnswer
      <4> QED
        BY <4>1, <3>3
    <3>5. CASE ~(reply[p] \subseteq ans)
      <4>1. PICK b \in reply[p] : b \notin ans
        BY <3>5
      <4>2. b \in replies \ ans
        BY <4>1
      <4>3. Cardinality(ans) = k /\ \A a \in ans : a.dist <= b.dist
        BY <4>2, LeftOut
      <4>4. b.dist <= h.dist
        BY <3>3
      <4>5. b.dist \in Nat /\ h.dist \in Nat /\ \A a \in ans : a.dist \in Nat
        BY <1>2, <1>5, <4>2
      <4> QED
        BY <4>3, <4>4, <4>5
    <3> QED
      BY <3>4, <3>5
  <2> QED
    BY <2>1, <2>2
<1>7. ans = hits \/ Cardinality(ans) = k
  BY <1>5, <1>6
<1> QED
  BY <1>4, <1>5, <1>6, <1>7 DEF IsNearest

\* When no id is in the hits twice, merge_results has nothing to choose.
LEMMA NoDuplicates ==
  ASSUME NEW hits, \A h \in hits : h.dist \in Nat, \A g, h \in hits : g.id = h.id => g = h
  PROVE  BestHits(Unhidden(hits, {})) = hits
BY DEF BestHits, Unhidden

-----------------------------------------------------------------------------
(***************************************************************************)
(* The types and the invariants of the coordinator.                        *)
(***************************************************************************)

LEMMA Modulo ==
  ASSUME NEW a \in Nat, NEW b \in Nat, b > 0
  PROVE  a % b \in Nat /\ a % b < b
OBVIOUS

\* The URLs name coordinators.
LEMMA UrlAtCoordinator ==
  ASSUME NEW n \in Nat \ {0}
  PROVE  UrlAt(n) \in Coordinators
<1>1. Len(Urls) \in Nat /\ Len(Urls) > 0 /\ Urls \in Seq(Coordinators)
  BY CoordinatorAssumption
<1>2. n - 1 \in Nat /\ Len(Urls) > 0
  BY <1>1
<1>3. (n - 1) % Len(Urls) \in Nat /\ (n - 1) % Len(Urls) < Len(Urls)
  BY <1>1, <1>2, Modulo
<1> DEFINE i == (n - 1) % Len(Urls)
<1>4. i + 1 \in 1..Len(Urls)
  <2> HIDE DEF i
  <2> QED
    BY <1>1, <1>3 DEF i
<1> QED
  BY <1>1, <1>4 DEF UrlAt

\* The types, apart from the records.
OtherTypes ==
  /\ members \subseteq Coordinators \cup Readers
  /\ leaderKey \in Coordinators \cup {None}
  /\ up \subseteq Coordinators \cup Readers /\ leader \subseteq Coordinators \cap up
  /\ nodes \in [Coordinators -> SUBSET Readers]
  /\ counter \in [Coordinators -> 0..(Lap - 1)]
  /\ attempt \in [Readers -> 0..Attempts]
  /\ late \subseteq Readers
  /\ faults \in 0..MaxFaults

CallTypes == call \in [Readers -> Calls]
RequestTypes == request \in [Slots -> Busy \cup {NoRequest}]

LEMMA TypeParts == TypeOK <=> OtherTypes /\ CallTypes /\ RequestTypes
BY DEF TypeOK, OtherTypes, CallTypes, RequestTypes

LEMMA AttemptsType == Attempts \in Nat
<1>1. Rounds \in Nat /\ Len(Urls) \in Nat
  BY CoordinatorAssumption
<1>2. \A a, b \in Nat : a * b \in Nat
  OBVIOUS
<1> QED
  BY <1>1, <1>2 DEF Attempts

LEMMA NoCallType == NoCall \in Calls
BY DEF NoCall, Calls

\* A handler that has done something is a busy one.
LEMMA BusyTypes ==
  ASSUME RequestTypes, NEW s \in Slots, request[s].step # "free" \/ request[s].older # {}
  PROVE  request[s] \in Busy
BY DEF RequestTypes, NoRequest

\* A handler that is overtaken keeps its type.
LEMMA OvertakingTypes ==
  ASSUME RequestTypes, NEW h
  PROVE  /\ Overtaking(request, h) \in [Slots -> Busy \cup {NoRequest}]
         /\ \A s \in Slots : request[s] \in Busy => Overtaking(request, h)[s] \in Busy
<1>1. \A q \in Busy : [q EXCEPT !.older = @ \ {h},
                             !.overtaken = @ \/ q.step = "snapshot"] \in Busy
  BY DEF Busy
<1>2. \A s \in Slots : h \in request[s].older => request[s] \in Busy
  BY BusyTypes
<1>3. \A s \in Slots : request[s] \in Busy \cup {NoRequest}
  BY DEF RequestTypes
<1> QED
  BY <1>1, <1>2, <1>3 DEF Overtaking

\* What Gather answers with.
Answered(s, ans, failed) ==
  [NoRequest EXCEPT !.step = "answered", !.at = request[s].at,
                    !.targets = request[s].targets, !.ans = ans,
                    !.incomplete = Incomplete(failed)]

\* The types are inductive as they stand.
LEMMA TypeStep ==
  ASSUME TypeOK, [Next]_vars
  PROVE  TypeOK'
<1> USE CoordinatorAssumption, TypeParts, NoCallType, AttemptsType
<1>0. OtherTypes /\ CallTypes /\ RequestTypes
  OBVIOUS
<1>1. CASE UNCHANGED vars
  BY <1>0, <1>1 DEF vars, etcd, globals, clients, TypeOK, OtherTypes, CallTypes, RequestTypes
<1>2. ASSUME NEW p \in Coordinators \cup Readers, Crash(p)
      PROVE  TypeOK'
  <2>1. OtherTypes'
    BY <1>0, <1>2 DEF OtherTypes, Crash, Fault, etcd, globals, clients
  <2>2. CallTypes'
    <3>1. \A c \in Calls : [c EXCEPT !.awaited = FALSE] \in Calls
      BY DEF Calls
    <3> QED
      BY <1>0, <3>1, <1>2 DEF CallTypes, Crash
  <2>3. RequestTypes'
    BY <1>0, <1>2 DEF RequestTypes, Crash, etcd, globals, clients
  <2> QED
    BY <2>1, <2>2, <2>3 DEF TypeOK, OtherTypes, CallTypes, RequestTypes
<1>3. ASSUME NEW p \in Coordinators \cup Readers, Expire(p)
      PROVE  TypeOK'
  <2>1. OtherTypes'
    BY <1>0, <1>3 DEF OtherTypes, Expire, etcd, globals, clients
  <2>2. CallTypes'
    BY <1>0, <1>3 DEF CallTypes, Expire, etcd, globals, clients
  <2>3. RequestTypes'
    <3>1. \A q \in Busy : [q EXCEPT !.since = @ \ {p}] \in Busy
      BY DEF Busy
    <3>2. \A s \in Slots : request[s].step \in {"read", "snapshot"} => request[s] \in Busy
      BY <1>0, BusyTypes
    <3> QED
      BY <1>0, <3>1, <3>2, <1>3 DEF RequestTypes, Expire
  <2> QED
    BY <2>1, <2>2, <2>3 DEF TypeOK, OtherTypes, CallTypes, RequestTypes
<1>4. ASSUME NEW c \in Coordinators, Boot(c)
      PROVE  TypeOK'
  <2>1. OtherTypes'
    BY <1>0, <1>4 DEF OtherTypes, Boot, ReadersOf, etcd, globals, clients
  <2>2. CallTypes'
    BY <1>0, <1>4 DEF CallTypes, Boot, etcd, globals, clients
  <2>3. RequestTypes'
    BY <1>0, <1>4 DEF RequestTypes, Boot, etcd, globals, clients
  <2> QED
    BY <2>1, <2>2, <2>3 DEF TypeOK, OtherTypes, CallTypes, RequestTypes
<1>5. ASSUME NEW c \in Coordinators, Heartbeat(c)
      PROVE  TypeOK'
  <2>1. OtherTypes'
    BY <1>0, <1>5 DEF OtherTypes, Heartbeat, etcd, globals, clients
  <2>2. CallTypes'
    BY <1>0, <1>5 DEF CallTypes, Heartbeat, etcd, globals, clients
  <2>3. RequestTypes'
    BY <1>0, <1>5 DEF RequestTypes, Heartbeat, etcd, globals, clients
  <2> QED
    BY <2>1, <2>2, <2>3 DEF TypeOK, OtherTypes, CallTypes, RequestTypes
<1>6. CASE LeaderExpires
  <2>1. OtherTypes'
    BY <1>0, <1>6 DEF OtherTypes, LeaderExpires, etcd, globals, clients
  <2>2. CallTypes'
    BY <1>0, <1>6 DEF CallTypes, LeaderExpires, etcd, globals, clients
  <2>3. RequestTypes'
    BY <1>0, <1>6 DEF RequestTypes, LeaderExpires, etcd, globals, clients
  <2> QED
    BY <2>1, <2>2, <2>3 DEF TypeOK, OtherTypes, CallTypes, RequestTypes
<1>7. CASE LoseLeaderKey
  <2>1. OtherTypes'
    BY <1>0, <1>7 DEF OtherTypes, LoseLeaderKey, Fault, etcd, globals, clients
  <2>2. CallTypes'
    BY <1>0, <1>7 DEF CallTypes, LoseLeaderKey, etcd, globals, clients
  <2>3. RequestTypes'
    BY <1>0, <1>7 DEF RequestTypes, LoseLeaderKey, etcd, globals, clients
  <2> QED
    BY <2>1, <2>2, <2>3 DEF TypeOK, OtherTypes, CallTypes, RequestTypes
<1>8. ASSUME NEW r \in Readers, Restart(r)
      PROVE  TypeOK'
  <2>1. OtherTypes'
    BY <1>0, <1>8 DEF OtherTypes, Restart, etcd, globals, clients
  <2>2. CallTypes'
    BY <1>0, <1>8 DEF CallTypes, Restart, etcd, globals, clients
  <2>3. RequestTypes'
    BY <1>0, <1>8 DEF RequestTypes, Restart, etcd, globals, clients
  <2> QED
    BY <2>1, <2>2, <2>3 DEF TypeOK, OtherTypes, CallTypes, RequestTypes
<1>9. ASSUME NEW r \in Readers, Ask(r)
      PROVE  TypeOK'
  <2>1. OtherTypes'
    <3>1. attempt[r] + 1 \in 0..Attempts
      BY <1>0, <1>9 DEF OtherTypes, Ask
    <3>2. attempt' \in [Readers -> 0..Attempts]
      BY <1>0, <1>9, <3>1 DEF OtherTypes, Ask
    <3>3. UNCHANGED <<members, leaderKey, up, leader, nodes, counter, late, faults>>
      BY <1>9 DEF Ask, etcd, globals
    <3> QED
      BY <1>0, <3>2, <3>3 DEF OtherTypes
  <2>2. CallTypes'
    <3>1. call[r] \in Calls
      BY <1>0 DEF CallTypes
    <3>2. attempt[r] + 1 \in Nat \ {0}
      BY <1>0 DEF OtherTypes
    <3>3. UrlAt(attempt[r] + 1) \in Coordinators
      BY <3>2, UrlAtCoordinator
    <3>4. [NoCall EXCEPT !.step = "sent", !.awaited = TRUE, !.at = UrlAt(attempt[r] + 1)] \in Calls
      BY <3>1, <3>3 DEF NoCall, Calls
    <3> QED
      BY <1>0, <3>4, <1>9 DEF CallTypes, Ask, etcd, globals, clients
  <2>3. RequestTypes'
    BY <1>0, <1>9 DEF RequestTypes, Ask, etcd, globals, clients
  <2> QED
    BY <2>1, <2>2, <2>3 DEF TypeOK, OtherTypes, CallTypes, RequestTypes
<1>10. ASSUME NEW r \in Readers, GiveUp(r)
      PROVE  TypeOK'
  <2>1. OtherTypes'
    BY <1>0, <1>10 DEF OtherTypes, GiveUp, Attempts, etcd, globals, clients
  <2>2. CallTypes'
    BY <1>0, <1>10 DEF CallTypes, GiveUp, etcd, globals, clients
  <2>3. RequestTypes'
    BY <1>0, <1>10 DEF RequestTypes, GiveUp, etcd, globals, clients
  <2> QED
    BY <2>1, <2>2, <2>3 DEF TypeOK, OtherTypes, CallTypes, RequestTypes
<1>11. ASSUME NEW r \in Readers, TimeOut(r)
      PROVE  TypeOK'
  <2>1. OtherTypes'
    BY <1>0, <1>11 DEF OtherTypes, TimeOut, Fault, etcd, globals, clients
  <2>2. CallTypes'
    <3>1. call[r] \in Calls
      BY <1>0 DEF CallTypes
    <3>2. [call[r] EXCEPT !.awaited = FALSE] \in Calls
      BY <1>0, <3>1, <1>11 DEF Calls
    <3> QED
      BY <1>0, <3>2, <1>11 DEF CallTypes, TimeOut, etcd, globals, clients
  <2>3. RequestTypes'
    BY <1>0, <1>11 DEF RequestTypes, TimeOut, etcd, globals, clients
  <2> QED
    BY <2>1, <2>2, <2>3 DEF TypeOK, OtherTypes, CallTypes, RequestTypes
<1>12. ASSUME NEW r \in Readers, Refuse(r)
      PROVE  TypeOK'
  <2>1. OtherTypes'
    BY <1>0, <1>12 DEF OtherTypes, Refuse, etcd, globals, clients
  <2>2. CallTypes'
    BY <1>0, <1>12 DEF CallTypes, Refuse, etcd, globals, clients
  <2>3. RequestTypes'
    BY <1>0, <1>12 DEF RequestTypes, Refuse, etcd, globals, clients
  <2> QED
    BY <2>1, <2>2, <2>3 DEF TypeOK, OtherTypes, CallTypes, RequestTypes
<1>13. ASSUME NEW r \in Readers, PutKey(r)
      PROVE  TypeOK'
  <2>1. OtherTypes'
    BY <1>0, <1>13 DEF OtherTypes, PutKey, etcd, globals, clients
  <2>2. CallTypes'
    <3>1. call[r] \in Calls
      BY <1>0 DEF CallTypes
    <3>2. [call[r] EXCEPT !.step = "put"] \in Calls
      BY <1>0, <3>1, <1>13 DEF Calls
    <3> QED
      BY <1>0, <3>2, <1>13 DEF CallTypes, PutKey, etcd, globals, clients
  <2>3. RequestTypes'
    BY <1>0, <1>13 DEF RequestTypes, PutKey, etcd, globals, clients
  <2> QED
    BY <2>1, <2>2, <2>3 DEF TypeOK, OtherTypes, CallTypes, RequestTypes
<1>14. ASSUME NEW r \in Readers, AddNode(r)
      PROVE  TypeOK'
  <2>1. OtherTypes'
    <3>1. nodes' \in [Coordinators -> SUBSET Readers]
      BY <1>0, <1>14 DEF OtherTypes, AddNode
    <3>2. attempt' \in [Readers -> 0..Attempts]
      BY <1>0, <1>14 DEF OtherTypes, AddNode
    <3> QED
      BY <1>0, <3>1, <3>2, <1>14 DEF OtherTypes, AddNode, etcd
  <2>2. CallTypes'
    BY <1>0, <1>14 DEF CallTypes, AddNode, etcd, globals, clients
  <2>3. RequestTypes'
    BY <1>0, <1>14 DEF RequestTypes, AddNode, etcd, globals, clients
  <2> QED
    BY <2>1, <2>2, <2>3 DEF TypeOK, OtherTypes, CallTypes, RequestTypes
<1>15. ASSUME NEW r \in Readers, AskLeader(r)
      PROVE  TypeOK'
  <2>1. OtherTypes'
    BY <1>0, <1>15 DEF OtherTypes, AskLeader, etcd, globals, clients
  <2>2. CallTypes'
    <3>1. call[r] \in Calls
      BY <1>0 DEF CallTypes
    <3>2. [call[r] EXCEPT !.step = "asked", !.to = leaderKey] \in Calls
      BY <1>0, <3>1, <1>15 DEF Calls, OtherTypes
    <3> QED
      BY <1>0, <3>2, <1>15 DEF CallTypes, AskLeader, etcd, globals, clients
  <2>3. RequestTypes'
    BY <1>0, <1>15 DEF RequestTypes, AskLeader, etcd, globals, clients
  <2> QED
    BY <2>1, <2>2, <2>3 DEF TypeOK, OtherTypes, CallTypes, RequestTypes
<1>16. ASSUME NEW r \in Readers, ProxyReads(r)
      PROVE  TypeOK'
  <2>1. OtherTypes'
    BY <1>0, <1>16 DEF OtherTypes, ProxyReads, etcd, globals, clients
  <2>2. CallTypes'
    <3>1. call[r] \in Calls
      BY <1>0 DEF CallTypes
    <3>2. [call[r] EXCEPT !.step = "read", !.got = members] \in Calls
      BY <1>0, <3>1, <1>16 DEF Calls, OtherTypes
    <3> QED
      BY <1>0, <3>2, <1>16 DEF CallTypes, ProxyReads, etcd, globals, clients
  <2>3. RequestTypes'
    BY <1>0, <1>16 DEF RequestTypes, ProxyReads, etcd, globals, clients
  <2> QED
    BY <2>1, <2>2, <2>3 DEF TypeOK, OtherTypes, CallTypes, RequestTypes
<1>17. ASSUME NEW r \in Readers, ProxyRefreshes(r)
      PROVE  TypeOK'
  <2>1. OtherTypes'
    BY <1>0, <1>17 DEF OtherTypes, ProxyRefreshes, ReadersOf, etcd, globals, clients
  <2>2. CallTypes'
    <3>1. call[r] \in Calls
      BY <1>0 DEF CallTypes
    <3>2. [call[r] EXCEPT !.step = "forwarding", !.got = {}] \in Calls
      BY <1>0, <3>1, <1>17 DEF Calls
    <3> QED
      BY <1>0, <3>2, <1>17 DEF CallTypes, ProxyRefreshes, etcd, globals, clients
  <2>3. RequestTypes'
    BY <1>0, <1>17, OvertakingTypes DEF RequestTypes, ProxyRefreshes
  <2> QED
    BY <2>1, <2>2, <2>3 DEF TypeOK, OtherTypes, CallTypes, RequestTypes
<1>18. ASSUME NEW r \in Readers, Forward(r)
      PROVE  TypeOK'
  <2>1. OtherTypes'
    BY <1>0, <1>18 DEF OtherTypes, Forward, etcd, globals, clients
  <2>2. CallTypes'
    <3>1. call[r] \in Calls
      BY <1>0 DEF CallTypes
    <3>2. [call[r] EXCEPT !.step = "sent", !.at = call[r].to, !.to = None] \in Calls
      BY <1>0, <3>1, <1>18 DEF Calls
    <3> QED
      BY <1>0, <3>2, <1>18 DEF CallTypes, Forward, etcd, globals, clients
  <2>3. RequestTypes'
    BY <1>0, <1>18 DEF RequestTypes, Forward, etcd, globals, clients
  <2> QED
    BY <2>1, <2>2, <2>3 DEF TypeOK, OtherTypes, CallTypes, RequestTypes
<1>19. ASSUME NEW s \in Slots, Refresh(s)
      PROVE  TypeOK'
  <2>1. OtherTypes'
    BY <1>0, <1>19 DEF OtherTypes, Refresh, ReadersOf, etcd, globals, clients
  <2>2. CallTypes'
    BY <1>0, <1>19 DEF CallTypes, Refresh, etcd, globals, clients
  <2>3. RequestTypes'
    <3>1. Overtaking(request, s)[s] \in Busy
      BY <1>0, <1>19, BusyTypes, OvertakingTypes DEF Refresh, Doing
    <3>2. [Overtaking(request, s)[s] EXCEPT !.step = "snapshot", !.got = {}] \in Busy
      BY <3>1 DEF Busy
    <3> QED
      BY <1>0, <3>2, <1>19, OvertakingTypes DEF RequestTypes, Refresh
  <2> QED
    BY <2>1, <2>2, <2>3 DEF TypeOK, OtherTypes, CallTypes, RequestTypes
<1>20. ASSUME NEW s \in Slots, Scatter(s)
      PROVE  TypeOK'
  <2>1. OtherTypes'
    BY <1>0, <1>20 DEF OtherTypes, Scatter, etcd, globals, clients
  <2>2. CallTypes'
    BY <1>0, <1>20 DEF CallTypes, Scatter, etcd, globals, clients
  <2>3. RequestTypes'
    <3>1. request[s] \in Busy
      BY <1>0, <1>20, BusyTypes DEF Scatter, Doing
    <3>2. nodes[request[s].at] \in SUBSET Readers
      BY <1>0, <3>1 DEF OtherTypes, Busy
    <3>3. [request[s] EXCEPT !.step = "asking", !.targets = nodes[request[s].at], !.older = {}]
             \in Busy
      BY <3>1, <3>2 DEF Busy
    <3> QED
      BY <1>0, <3>3, <1>20 DEF RequestTypes, Scatter
  <2> QED
    BY <2>1, <2>2, <2>3 DEF TypeOK, OtherTypes, CallTypes, RequestTypes
<1>21. ASSUME NEW s \in Slots, TakeTurns(s)
      PROVE  TypeOK'
  <2>1. OtherTypes'
    <3>1. Lap \in Nat /\ Lap > 0
      OBVIOUS
    <3>2. \A a \in Nat : a % Lap \in Nat /\ a % Lap < Lap
      BY <3>1, Modulo
    <3> DEFINE next(c) == (counter[c] + 1) % Lap
    <3>3. \A c \in Coordinators : next(c) \in 0..(Lap - 1)
      <4>1. SUFFICES ASSUME NEW c \in Coordinators PROVE next(c) \in 0..(Lap - 1)
        OBVIOUS
      <4>2. counter[c] + 1 \in Nat
        BY <1>0 DEF OtherTypes
      <4>3. next(c) \in Nat /\ next(c) < Lap
        BY <4>2, <3>2
      <4> HIDE DEF next
      <4> QED
        BY <4>3, <3>1
    <3>4. counter' = [counter EXCEPT ![request[s].at] = next(request[s].at)]
      BY <1>21 DEF TakeTurns
    <3> HIDE DEF next
    <3>5. counter' \in [Coordinators -> 0..(Lap - 1)]
      BY <1>0, <3>3, <3>4 DEF OtherTypes
    <3> QED
      BY <1>0, <3>5, <1>21 DEF OtherTypes, TakeTurns, etcd, globals, clients
  <2>2. CallTypes'
    BY <1>0, <1>21 DEF CallTypes, TakeTurns, etcd, globals, clients
  <2>3. RequestTypes'
    <3>1. request[s] \in Busy
      BY <1>0, <1>21, BusyTypes DEF TakeTurns, Doing
    <3>2. nodes[request[s].at] \in SUBSET Readers
      BY <1>0, <3>1 DEF OtherTypes, Busy
    <3>3. \A m \in nodes[request[s].at] :
            [request[s] EXCEPT !.step = "asking", !.targets = {m}, !.older = {}] \in Busy
      BY <3>1, <3>2 DEF Busy
    <3> QED
      BY <1>0, <3>3, <1>21 DEF RequestTypes, TakeTurns
  <2> QED
    BY <2>1, <2>2, <2>3 DEF TypeOK, OtherTypes, CallTypes, RequestTypes
<1>22. ASSUME NEW s \in Slots, RefuseMode(s)
      PROVE  TypeOK'
  <2>1. OtherTypes'
    BY <1>0, <1>22 DEF OtherTypes, RefuseMode, etcd, globals, clients
  <2>2. CallTypes'
    BY <1>0, <1>22 DEF CallTypes, RefuseMode, etcd, globals, clients
  <2>3. RequestTypes'
    BY <1>0, <1>22 DEF RequestTypes, RefuseMode, etcd, globals, clients
  <2> QED
    BY <2>1, <2>2, <2>3 DEF TypeOK, OtherTypes, CallTypes, RequestTypes
<1>23. ASSUME NEW s \in Slots, Gather(s)
      PROVE  TypeOK'
  <2>1. OtherTypes'
    BY <1>0, <1>23 DEF OtherTypes, Gather, Fault, etcd, globals, clients
  <2>2. CallTypes'
    BY <1>0, <1>23 DEF CallTypes, Gather, etcd, globals, clients
  <2>3. RequestTypes'
    <3>1. request[s] \in Busy
      BY <1>0, <1>23, BusyTypes DEF Gather, Doing
    <3>2. PICK failed \in SUBSET request[s].targets :
            \E reply \in [request[s].targets \ failed ->
                           UNION {Nearest(Served(r), K) : r \in request[s].targets \ failed}] :
              \E ans \in MergedResults({reply[r] : r \in request[s].targets \ failed}, K, {}) :
                request' = [request EXCEPT ![s] = Answered(s, ans, failed)]
      BY <1>23 DEF Gather, Answered
    <3>3. PICK reply \in [request[s].targets \ failed ->
                           UNION {Nearest(Served(r), K) : r \in request[s].targets \ failed}] :
            \E ans \in MergedResults({reply[r] : r \in request[s].targets \ failed}, K, {}) :
                request' = [request EXCEPT ![s] = Answered(s, ans, failed)]
      BY <3>2
    <3>4. PICK ans \in MergedResults({reply[r] : r \in request[s].targets \ failed}, K, {}) :
                request' = [request EXCEPT ![s] = Answered(s, ans, failed)]
      BY <3>3
    <3>5. \A r \in request[s].targets \ failed : reply[r] \subseteq Hits
      <4>1. \A r \in request[s].targets : Served(r) \subseteq Hits
        BY <3>1 DEF Served, Hits, Busy
      <4>2. \A r \in request[s].targets : \A a \in Nearest(Served(r), K) : a \subseteq Hits
        BY <4>1 DEF Nearest
      <4> QED
        BY <4>2
    <3>6. ans \subseteq Hits
      BY <3>5, <3>4 DEF MergedResults, Nearest, BestHits, Unhidden
    <3>7. Answered(s, ans, failed) \in Busy
      BY <3>1, <3>6 DEF Answered, NoRequest, Busy, Incomplete
    <3> QED
      BY <1>0, <3>4, <3>7 DEF RequestTypes
  <2> QED
    BY <2>1, <2>2, <2>3 DEF TypeOK, OtherTypes, CallTypes, RequestTypes
<1>24. ASSUME NEW s \in Slots, Done(s)
      PROVE  TypeOK'
  <2>1. OtherTypes'
    BY <1>0, <1>24 DEF OtherTypes, Done, etcd, globals, clients
  <2>2. CallTypes'
    BY <1>0, <1>24 DEF CallTypes, Done, etcd, globals, clients
  <2>3. RequestTypes'
    BY <1>0, <1>24 DEF RequestTypes, Done, etcd, globals, clients
  <2> QED
    BY <2>1, <2>2, <2>3 DEF TypeOK, OtherTypes, CallTypes, RequestTypes
<1>25. ASSUME NEW s \in Slots, NEW c \in Coordinators, Receive(s, c)
      PROVE  TypeOK'
  <2>1. OtherTypes'
    BY <1>0, <1>25 DEF OtherTypes, Receive, etcd, globals, clients
  <2>2. CallTypes'
    BY <1>0, <1>25 DEF CallTypes, Receive, etcd, globals, clients
  <2>3. RequestTypes'
    <3>1. Reading(c) \subseteq Readers \cup Slots
      BY DEF Reading
    <3>2. [NoRequest EXCEPT !.step = "read", !.at = c, !.got = members] \in Busy
      BY <1>0 DEF NoRequest, Busy, OtherTypes
    <3>3. [NoRequest EXCEPT !.step = "read", !.at = c, !.got = members,
                            !.since = members \cap Readers, !.older = Reading(c)] \in Busy
      BY <1>0, <3>1 DEF NoRequest, Busy, OtherTypes
    <3> QED
      BY <1>0, <3>2, <3>3, <1>25 DEF RequestTypes, Receive
  <2> QED
    BY <2>1, <2>2, <2>3 DEF TypeOK, OtherTypes, CallTypes, RequestTypes
<1> QED
  BY <1>1, <1>2, <1>3, <1>4, <1>5, <1>6, <1>7, <1>8, <1>9, <1>10, <1>11, <1>12, <1>13, <1>14, <1>15, <1>16, <1>17, <1>18, <1>19, <1>20, <1>21, <1>22, <1>23, <1>24, <1>25 DEF Next, Register, Serve

LEMMA TypeInit ==
  ASSUME Init
  PROVE  TypeOK
<1>1. Lap - 1 \in Nat
  BY CoordinatorAssumption
<1>2. OtherTypes
  BY <1>1, AttemptsType, CoordinatorAssumption DEF Init, OtherTypes
<1>3. CallTypes
  BY NoCallType DEF Init, CallTypes
<1>4. RequestTypes
  BY DEF Init, RequestTypes
<1> QED
  BY <1>2, <1>3, <1>4, TypeParts

\* The types of the coordinator's state, whatever the registrations, searches,
\* crashes and time-outs that interleave.
THEOREM CoordinatorTypes == Spec => []TypeOK
<1>1. Init => TypeOK
  BY TypeInit
<1>2. TypeOK /\ [Next]_vars => TypeOK'
  BY TypeStep
<1> QED
  BY <1>1, <1>2, PTL DEF Spec

\* Every coordinator routes every key to exactly one of the readers in its list,
\* for any hash function, also one with collisions (_rebuild_ring, get_node,
\* route_search).
THEOREM OwnersExistAndAreUnique == Spec => []KeysAreOwned
<1>1. TypeOK => KeysAreOwned
  <2> SUFFICES ASSUME TypeOK, NEW c \in Coordinators, nodes[c] # {}, NEW key \in Tokens
               PROVE  \E n \in nodes[c] : RouteSearch(nodes[c], key) = {n}
    BY DEF KeysAreOwned
  <2>1. nodes[c] \in SUBSET Readers
    BY DEF TypeOK
  <2> QED
    BY <2>1, KeyIsOwned
<1> QED
  BY <1>1, CoordinatorTypes, PTL

-----------------------------------------------------------------------------
\* The answer in a slot, if there is one that is not marked incomplete, is exact.
Exact(s) ==
  request[s].step = "answered" /\ ~request[s].incomplete =>
    IsNearest(request[s].ans, UNION {Served(r) : r \in request[s].targets}, K)

Kept(s) ==
  /\ request'[s].step = request[s].step /\ request'[s].ans = request[s].ans
  /\ request'[s].targets = request[s].targets
  /\ request'[s].incomplete = request[s].incomplete

\* Nothing but the slot's own Gather puts an answer there or changes it.
LEMMA AnswersStay ==
  ASSUME TypeOK, [Next]_vars, NEW s \in Slots, ~Gather(s), request'[s].step = "answered"
  PROVE  Kept(s)
<1>1. request \in [Slots -> Busy \cup {NoRequest}]
  BY DEF TypeOK
<1>2. NoRequest.step = "free"
  BY DEF NoRequest
<1>3. request[s].step # "free" => request[s] \in Busy
  BY <1>1, <1>2
<1>4. CASE request' = request
  BY <1>4 DEF Kept
<1>5. ASSUME NEW t \in Slots, request' = [request EXCEPT ![t] = NoRequest]
      PROVE  Kept(s)
  BY <1>5, <1>1, <1>2 DEF Kept
<1>6. ASSUME NEW p \in Coordinators \cup Readers, Crash(p)
      PROVE  Kept(s)
  BY <1>6, <1>2 DEF Kept, Crash
<1>7. ASSUME NEW p \in Coordinators \cup Readers, Expire(p)
      PROVE  Kept(s)
  BY <1>7, <1>1 DEF Kept, Expire, Busy
<1>8. ASSUME NEW h, request[s] \in Busy
      PROVE  LET q == Overtaking(request, h)[s] IN
             q.step = request[s].step /\ q.ans = request[s].ans
               /\ q.targets = request[s].targets /\ q.incomplete = request[s].incomplete
  BY <1>8 DEF Overtaking, Busy
<1>9. ASSUME NEW h, request[s] \notin Busy
      PROVE  Overtaking(request, h)[s] = request[s]
  BY <1>9, <1>1 DEF Overtaking, NoRequest
<1>10. ASSUME NEW r \in Readers, ProxyRefreshes(r)
       PROVE  Kept(s)
  BY <1>10, <1>8, <1>9 DEF Kept, ProxyRefreshes
<1>11. ASSUME NEW t \in Slots, Refresh(t)
       PROVE  Kept(s)
  <2>1. request[t] \in Busy
    BY <1>1, <1>11, <1>2 DEF Refresh, Doing
  <2>2. CASE t = s
    <3>1. Overtaking(request, t)[s] \in Busy
      BY <2>1, <2>2, OvertakingTypes DEF TypeOK, RequestTypes
    <3>2. request'[s].step \in {"snapshot", "free"}
      BY <1>11, <2>2, <3>1, <1>2 DEF Refresh, Busy, Overtaking
    <3> QED
      BY <3>2 DEF Kept
  <2>3. CASE t # s
    <3>1. request'[s] = Overtaking(request, t)[s]
      BY <1>11, <2>3 DEF Refresh, Overtaking
    <3> QED
      BY <3>1, <1>8, <1>9 DEF Kept
  <2> QED
    BY <2>2, <2>3
<1>12. ASSUME NEW t \in Slots, Scatter(t) \/ TakeTurns(t)
       PROVE  Kept(s)
  <2>1. request[t] \in Busy
    BY <1>1, <1>12, <1>2 DEF Scatter, TakeTurns, Doing
  <2>2. CASE t = s
    <3>1. CASE Scatter(t)
      BY <3>1, <2>1, <2>2, <1>1 DEF Scatter, Busy
    <3>2. CASE TakeTurns(t)
      <4>1. PICK n : request' = [request EXCEPT ![t].step = "asking", ![t].targets = {n},
                                                ![t].older = {}]
        BY <3>2 DEF TakeTurns
      <4>2. request'[s].step = "asking"
        BY <4>1, <2>1, <2>2, <1>1 DEF Busy
      <4> QED
        BY <4>2
    <3> QED
      BY <1>12, <3>1, <3>2
  <2>3. CASE t # s
    <3>1. request'[s] = request[s]
      BY <1>12, <2>3, <1>1 DEF Scatter, TakeTurns
    <3> QED
      BY <3>1 DEF Kept
  <2> QED
    BY <2>2, <2>3
<1>13. ASSUME NEW t \in Slots, Gather(t)
       PROVE  Kept(s)
  <2>1. t # s
    BY <1>13
  <2>2. PICK q : request' = [request EXCEPT ![t] = q]
    BY <1>13 DEF Gather
  <2> QED
    BY <2>1, <2>2, <1>1 DEF Kept
<1>14. ASSUME NEW t \in Slots, NEW c \in Coordinators, Receive(t, c)
       PROVE  Kept(s)
  BY <1>14, <1>1 DEF Kept, Receive, NoRequest
<1>15. ASSUME NEW t \in Slots, RefuseMode(t) \/ Done(t)
       PROVE  Kept(s)
  BY <1>15, <1>5 DEF RefuseMode, Done
<1>16. CASE \E p \in Coordinators \cup Readers : Crash(p) \/ Expire(p)
  BY <1>16, <1>6, <1>7
<1>17. CASE \E r \in Readers : Restart(r) \/ Register(r) \/ TimeOut(r)
  BY <1>17, <1>4, <1>10 DEF Kept, Restart, Register, TimeOut, Ask, GiveUp, Refuse, PutKey,
       AddNode, AskLeader, ProxyReads, Forward
<1>18. CASE \E t \in Slots : Serve(t) \/ \E c \in Coordinators : Receive(t, c)
  BY <1>18, <1>11, <1>12, <1>13, <1>14, <1>15 DEF Serve
<1>19. CASE UNCHANGED vars \/ LeaderExpires \/ LoseLeaderKey
             \/ \E c \in Coordinators : Boot(c) \/ Heartbeat(c)
  BY <1>19, <1>4 DEF Kept, vars, LeaderExpires, LoseLeaderKey, Boot, Heartbeat
<1> QED
  BY <1>16, <1>17, <1>18, <1>19 DEF Next

LEMMA FanoutStays ==
  ASSUME [Next]_vars
  PROVE  fanout' = fanout
BY DEF Next, vars, Crash, Expire, Boot, Heartbeat, LeaderExpires, LoseLeaderKey, Restart,
  TimeOut, Register, Ask, GiveUp, Refuse, PutKey, AddNode, AskLeader, ProxyReads,
  ProxyRefreshes, Forward, Serve, Refresh, Scatter, TakeTurns, RefuseMode, Gather, Done, Receive

\* The replies of all targets, merged, are a top-k of what the targets hold.
LEMMA GatherIsExact ==
  ASSUME TypeOK, NEW s \in Slots, Gather(s), fanout' = fanout
  PROVE  Exact(s)'
<1>1. request[s] \in Busy /\ request \in [Slots -> Busy \cup {NoRequest}]
  BY DEF TypeOK, Gather, Doing, NoRequest
<1> DEFINE T == request[s].targets
<1>2. T \in SUBSET Readers
  BY <1>1 DEF Busy
<1>3. PICK failed \in SUBSET T :
        \E reply \in [T \ failed -> UNION {Nearest(Served(r), K) : r \in T \ failed}] :
          /\ \A r \in T \ failed : reply[r] \in Nearest(Served(r), K)
          /\ \E ans \in MergedResults({reply[r] : r \in T \ failed}, K, {}) :
               request' = [request EXCEPT ![s] = Answered(s, ans, failed)]
  BY DEF Gather, Answered
<1>4. PICK reply \in [T \ failed -> UNION {Nearest(Served(r), K) : r \in T \ failed}] :
          /\ \A r \in T \ failed : reply[r] \in Nearest(Served(r), K)
          /\ \E ans \in MergedResults({reply[r] : r \in T \ failed}, K, {}) :
               request' = [request EXCEPT ![s] = Answered(s, ans, failed)]
  BY <1>3
<1>5. PICK ans \in MergedResults({reply[r] : r \in T \ failed}, K, {}) :
               request' = [request EXCEPT ![s] = Answered(s, ans, failed)]
  BY <1>4
<1>6. request'[s] = Answered(s, ans, failed)
  BY <1>1, <1>5
<1>7. /\ request'[s].ans = ans /\ request'[s].targets = T
      /\ request'[s].incomplete = (failed # {})
  BY <1>6 DEF Answered, NoRequest, Incomplete
<1>8. CASE failed = {}
  <2> DEFINE hits == UNION {Served(r) : r \in T}
             replies == UNION {reply[r] : r \in T}
  <2>1. \A r \in T : IsNearest(reply[r], Served(r), K)
    BY <1>4, <1>8 DEF Nearest
  <2>2. hits \subseteq Hits
    BY <1>2 DEF Served, Hits
  <2>3. IsFiniteSet(hits) /\ \A h \in hits : h.dist \in Nat
    BY <2>2, ShardAssumption, FS_Subset
  <2>4. replies \subseteq hits
    BY <2>1 DEF IsNearest
  <2>5. /\ \A h \in replies : h.dist \in Nat
        /\ \A g, h \in replies : g.id = h.id => g = h
    BY <2>2, <2>4, ShardAssumption
  <2>6. BestHits(Unhidden(replies, {})) = replies
    <3> HIDE DEF replies
    <3> QED
      BY <2>5, NoDuplicates
  <2>7. replies = UNION {reply[r] : r \in T \ failed}
    BY <1>8
  <2>8. ans \in Nearest(BestHits(Unhidden(replies, {})), K)
    BY <1>5, <2>7 DEF MergedResults
  <2>9. IsNearest(ans, replies, K)
    BY <2>6, <2>8 DEF Nearest
  <2>10. K \in Nat
    BY CoordinatorAssumption
  <2>11. IsNearest(ans, hits, K)
    <3> DEFINE part == [r \in T |-> Served(r)]
               given == [r \in T |-> reply[r]]
    <3>1. hits = UNION {part[r] : r \in T} /\ replies = UNION {given[r] : r \in T}
      OBVIOUS
    <3>2. \A r \in T : IsNearest(given[r], part[r], K)
      BY <2>1
    <3> HIDE DEF hits, replies, part, given, T
    <3> QED
      BY <3>1, <3>2, <2>3, <2>9, <2>10, MergedTopKIsExact
  <2>12. \A r \in T : Served(r)' = Served(r)
    BY DEF Served
  <2>13. UNION {Served(r)' : r \in T} = hits
    BY <2>12
  <2> QED
    BY <2>11, <2>13, <1>7 DEF Exact
<1>9. CASE failed # {}
  BY <1>7, <1>9 DEF Exact
<1> QED
  BY <1>8, <1>9

\* Scatter-gather loses nothing: an answer that is not marked incomplete is a
\* top-k of the union of what its targets hold, for any number of readers, any
\* order of answers and any failures (search, _search_reader, merge_results).
THEOREM ScatterGatherIsExact == Spec => []CompleteAnswersAreExact
<1> DEFINE ExactInv == \A s \in Slots : Exact(s)
<1>1. Init => ExactInv
  BY DEF Init, Exact, NoRequest
<1>2. TypeOK /\ ExactInv /\ [Next]_vars => ExactInv'
  <2> SUFFICES ASSUME TypeOK, ExactInv, [Next]_vars, NEW s \in Slots
               PROVE  Exact(s)'
    OBVIOUS
  <2>1. fanout' = fanout
    BY FanoutStays
  <2>2. CASE Gather(s)
    BY <2>1, <2>2, GatherIsExact
  <2>3. CASE ~Gather(s)
    <3>1. \A r \in Readers : Served(r)' = Served(r)
      BY <2>1 DEF Served
    <3>2. SUFFICES ASSUME request'[s].step = "answered", ~request'[s].incomplete
                   PROVE  Exact(s)'
      BY DEF Exact
    <3>3. Kept(s)
      BY <2>3, <3>2, AnswersStay
    <3>4. request[s] \in Busy
      BY <3>2, <3>3 DEF Kept, TypeOK, NoRequest
    <3>5. request[s].targets \subseteq Readers
      BY <3>4 DEF Busy
    <3>6. {Served(r)' : r \in request[s].targets} = {Served(r) : r \in request[s].targets}
      BY <3>1, <3>5
    <3>7. IsNearest(request[s].ans, UNION {Served(r) : r \in request[s].targets}, K)
      BY <3>2, <3>3 DEF Kept, Exact
    <3> QED
      BY <3>3, <3>6, <3>7 DEF Kept, Exact
  <2> QED
    BY <2>2, <2>3
<1>3. ExactInv => CompleteAnswersAreExact
  BY DEF Exact, CompleteAnswersAreExact, Slots
<1> HIDE DEF ExactInv
<1> QED
  BY <1>1, <1>2, <1>3, CoordinatorTypes, PTL DEF Spec

-----------------------------------------------------------------------------
(***************************************************************************)
(* No shard is missed.  What a search knows of the readers whose keys have *)
(* been there since it arrived: they are in the list that it has read, in  *)
(* every list that was read later, and, until an older one replaces it, in *)
(* that of its coordinator.                                                *)
(***************************************************************************)
Serving(s) == request[s].step # "free" => request[s].at \in up

Aware(s) ==
  request[s].step \in {"read", "snapshot"} =>
    /\ request[s].since \subseteq members
    /\ request[s].step = "read" => request[s].since \subseteq request[s].got
    /\ \A r \in Readers :
         call[r].step = "read" /\ call[r].at = request[s].at =>
           r \in request[s].older \/ request[s].since \subseteq call[r].got
    /\ \A t \in Slots \ {s} :
         request[t].step = "read" /\ request[t].at = request[s].at =>
           t \in request[s].older \/ request[s].since \subseteq request[t].got
    /\ request[s].step = "snapshot" /\ ~request[s].overtaken =>
         request[s].since \subseteq nodes[request[s].at]

NotMissed(s) ==
  request[s].step = "asking" /\ fanout = "scatter" /\ ~request[s].overtaken =>
    request[s].since \subseteq request[s].targets

Knows(s) == Serving(s) /\ Aware(s) /\ NotMissed(s)

ListInv == \A s \in Slots : Knows(s)

\* A step that leaves the requests alone, takes no key and no process away, only
\* adds to the lists, and reads no old keys.
LEMMA RequestsStay ==
  ASSUME TypeOK, ListInv, request' = request, fanout' = fanout,
         up \subseteq up', members \subseteq members',
         \A c \in up : nodes[c] \subseteq nodes'[c],
         \A r \in Readers :
           call'[r].step = "read" =>
             \/ call[r].step = "read" /\ call'[r].at = call[r].at /\ call'[r].got = call[r].got
             \/ call'[r].got = members
  PROVE  ListInv'
<1> SUFFICES ASSUME NEW s \in Slots
             PROVE  Knows(s)'
  BY DEF ListInv
<1>1. Knows(s)
  BY DEF ListInv
<1>2. Serving(s)' /\ NotMissed(s)'
  BY <1>1 DEF Knows, Serving, NotMissed
<1>3. Aware(s)'
  <2> SUFFICES ASSUME request[s].step \in {"read", "snapshot"}
               PROVE  Aware(s)'
    BY DEF Aware
  <2>1. request[s].at \in up /\ request[s].since \subseteq members
    BY <1>1 DEF Knows, Serving, Aware
  <2>2. ASSUME NEW r \in Readers, call'[r].step = "read", call'[r].at = request[s].at
        PROVE  r \in request[s].older \/ request[s].since \subseteq call'[r].got
    BY <1>1, <2>1, <2>2 DEF Knows, Aware
  <2> QED
    BY <1>1, <2>1, <2>2 DEF Knows, Aware
<1> QED
  BY <1>2, <1>3 DEF Knows

\* A step that ends the handler in a slot, or takes it past the choice of its
\* targets.
LEMMA RequestLeaves ==
  ASSUME TypeOK, ListInv, NEW t \in Slots, NEW q, request' = [request EXCEPT ![t] = q],
         q.step \notin {"read", "snapshot"}, q.step # "free" => q.at \in up,
         q.step = "asking" /\ fanout = "scatter" /\ ~q.overtaken => q.since \subseteq q.targets,
         UNCHANGED <<fanout, members, up, nodes, call>>
  PROVE  ListInv'
<1> SUFFICES ASSUME NEW s \in Slots
             PROVE  Knows(s)'
  BY DEF ListInv
<1>1. Knows(s)
  BY DEF ListInv
<1>2. request'[t] = q /\ \A u \in Slots \ {t} : request'[u] = request[u]
  BY DEF TypeOK
<1>3. CASE s = t
  BY <1>2, <1>3 DEF Knows, Serving, Aware, NotMissed
<1>4. CASE s # t
  <2>1. request'[s] = request[s]
    BY <1>2, <1>4
  <2>2. \A u \in Slots : request'[u].step = "read" => request'[u] = request[u]
    BY <1>2
  <2>3. Serving(s)' /\ NotMissed(s)'
    BY <1>1, <2>1 DEF Knows, Serving, NotMissed
  <2>4. Aware(s)'
    BY <1>1, <2>1, <2>2 DEF Knows, Aware
  <2> QED
    BY <2>3, <2>4 DEF Knows
<1> QED
  BY <1>3, <1>4

\* What is left of a handler when an older list has replaced that of its
\* coordinator.
LEMMA OvertakingKeeps ==
  ASSUME RequestTypes, NEW h, NEW s \in Slots
  PROVE  LET q == Overtaking(request, h)[s] IN
         /\ q.step = request[s].step /\ q.at = request[s].at /\ q.got = request[s].got
         /\ q.since = request[s].since /\ q.targets = request[s].targets
         /\ q.older = request[s].older \ {h}
         /\ request[s].overtaken => q.overtaken
         /\ h \notin request[s].older => q.overtaken = request[s].overtaken
         /\ h \in request[s].older /\ request[s].step = "snapshot" => q.overtaken
<1>1. CASE h \in request[s].older
  <2>1. request[s] \in Busy
    BY <1>1, BusyTypes
  <2>2. Overtaking(request, h)[s] =
          [request[s] EXCEPT !.older = @ \ {h}, !.overtaken = @ \/ request[s].step = "snapshot"]
    BY <1>1 DEF Overtaking
  <2> QED
    BY <1>1, <2>1, <2>2 DEF Busy
<1>2. CASE h \notin request[s].older
  BY <1>2 DEF Overtaking
<1> QED
  BY <1>1, <1>2

\* A handler that has read the keys replaces the list of its coordinator.
LEMMA ListReplaced ==
  ASSUME TypeOK, ListInv, NEW h, NEW c \in Coordinators, NEW got,
         nodes' = [nodes EXCEPT ![c] = ReadersOf(got)],
         UNCHANGED <<fanout, members, up>>,
         NEW s \in Slots, request'[s] = Overtaking(request, h)[s],
         \* the list is an old one only for those who know it
         request[s].step \in {"read", "snapshot"} /\ request[s].at = c =>
           h \in request[s].older \/ request[s].since \subseteq got,
         \* the handler reads no more, and the others go on
         \A r \in Readers : call'[r].step = "read" => r # h /\ call'[r] = call[r],
         \A t \in Slots \ {s} : request'[t].step = "read" =>
           /\ t # h /\ request[t].step = "read"
           /\ request'[t].at = request[t].at /\ request'[t].got = request[t].got
  PROVE  Knows(s)'
<1>1. Knows(s)
  BY DEF ListInv
<1>2. RequestTypes /\ OtherTypes
  BY TypeParts
<1>3. /\ request'[s].step = request[s].step /\ request'[s].at = request[s].at
      /\ request'[s].got = request[s].got /\ request'[s].since = request[s].since
      /\ request'[s].targets = request[s].targets
      /\ request'[s].older = request[s].older \ {h}
      /\ request[s].overtaken => request'[s].overtaken
      /\ h \notin request[s].older => request'[s].overtaken = request[s].overtaken
      /\ h \in request[s].older /\ request[s].step = "snapshot" => request'[s].overtaken
  BY <1>2, OvertakingKeeps
<1>4. Serving(s)'
  BY <1>1, <1>3 DEF Knows, Serving
<1>5. NotMissed(s)'
  BY <1>1, <1>3 DEF Knows, NotMissed
<1>6. Aware(s)'
  <2> SUFFICES ASSUME request[s].step \in {"read", "snapshot"}
               PROVE  Aware(s)'
    BY <1>3 DEF Aware
  <2>1. request[s] \in Busy
    BY <1>2, BusyTypes
  <2>2. ASSUME NEW r \in Readers, call'[r].step = "read", call'[r].at = request'[s].at
        PROVE  r \in request'[s].older \/ request'[s].since \subseteq call'[r].got
    BY <1>1, <1>3, <2>2 DEF Knows, Aware
  <2>3. ASSUME NEW t \in Slots \ {s}, request'[t].step = "read", request'[t].at = request'[s].at
        PROVE  t \in request'[s].older \/ request'[s].since \subseteq request'[t].got
    BY <1>1, <1>3, <2>3 DEF Knows, Aware
  <2>4. ASSUME request'[s].step = "snapshot", ~request'[s].overtaken
        PROVE  request'[s].since \subseteq nodes'[request'[s].at]
    <3>1. h \notin request[s].older /\ ~request[s].overtaken
      BY <1>3, <2>4
    <3>2. CASE request[s].at = c
      <4>1. request[s].since \subseteq got /\ request[s].since \subseteq Readers
        BY <1>3, <2>1, <2>4, <3>1, <3>2 DEF Busy
      <4>2. nodes'[c] = ReadersOf(got)
        BY <1>2 DEF OtherTypes
      <4> QED
        BY <1>3, <3>2, <4>1, <4>2 DEF ReadersOf
    <3>3. CASE request[s].at # c
      <4>1. nodes'[request[s].at] = nodes[request[s].at]
        BY <1>2, <2>1, <3>3 DEF OtherTypes, Busy
      <4> QED
        BY <1>1, <1>3, <2>4, <3>1, <4>1 DEF Knows, Aware
    <3> QED
      BY <3>2, <3>3
  <2> QED
    BY <1>1, <1>3, <2>2, <2>3, <2>4 DEF Knows, Aware
<1> QED
  BY <1>4, <1>5, <1>6 DEF Knows

LEMMA ListCrash ==
  ASSUME TypeOK, ListInv, NEW p \in Coordinators \cup Readers, Crash(p)
  PROVE  ListInv'
<1> SUFFICES ASSUME NEW s \in Slots
             PROVE  Knows(s)'
  BY DEF ListInv
<1>1. Knows(s) /\ RequestTypes /\ OtherTypes /\ CallTypes
  BY TypeParts DEF ListInv
<1>2. /\ up' = up \ {p} /\ members' = members /\ fanout' = fanout
      /\ \A c \in Coordinators \ {p} : nodes'[c] = nodes[c]
      /\ \A t \in Slots : request'[t] = IF request[t].at = p THEN NoRequest ELSE request[t]
  BY DEF Crash, etcd
<1>3. ASSUME NEW r \in Readers, call'[r].step = "read"
      PROVE  /\ call[r].step = "read" /\ call'[r].at = call[r].at
             /\ call'[r].got = call[r].got
  <2>1. call[r] \in Calls
    BY <1>1 DEF CallTypes
  <2>2. call[r].at # p
    BY <1>3 DEF Crash, NoCall
  <2> QED
    BY <1>3, <2>1, <2>2 DEF Crash, Calls
<1>4. NoRequest.step = "free"
  BY DEF NoRequest
<1>5. CASE request[s].at = p
  BY <1>2, <1>4, <1>5 DEF Knows, Serving, Aware, NotMissed
<1>6. CASE request[s].at # p
  <2>1. request'[s] = request[s]
    BY <1>2, <1>6
  <2>2. \A t \in Slots : request'[t].step = "read" => request'[t] = request[t]
    BY <1>2, <1>4
  <2>3. Serving(s)' /\ NotMissed(s)'
    BY <1>1, <1>2, <1>6, <2>1 DEF Knows, Serving, NotMissed
  <2>4. Aware(s)'
    <3> SUFFICES ASSUME request[s].step \in {"read", "snapshot"}
                 PROVE  Aware(s)'
      BY <2>1 DEF Aware
    <3>1. request[s].at \in Coordinators
      BY <1>1, BusyTypes DEF Busy
    <3>2. nodes'[request[s].at] = nodes[request[s].at]
      BY <1>2, <1>6, <3>1
    <3> QED
      BY <1>1, <1>2, <1>3, <2>1, <2>2, <3>2 DEF Knows, Aware
  <2> QED
    BY <2>3, <2>4 DEF Knows
<1> QED
  BY <1>5, <1>6

LEMMA ListExpire ==
  ASSUME TypeOK, ListInv, NEW p \in Coordinators \cup Readers, Expire(p)
  PROVE  ListInv'
<1> SUFFICES ASSUME NEW s \in Slots
             PROVE  Knows(s)'
  BY DEF ListInv
<1>1. Knows(s) /\ RequestTypes
  BY TypeParts DEF ListInv
<1>2. /\ members' = members \ {p}
      /\ UNCHANGED <<up, fanout, nodes, call>>
  BY DEF Expire, globals, clients
<1>3. ASSUME NEW t \in Slots
      PROVE  /\ request'[t].step = request[t].step /\ request'[t].at = request[t].at
             /\ request'[t].got = request[t].got /\ request'[t].older = request[t].older
             /\ request'[t].targets = request[t].targets
             /\ request'[t].overtaken = request[t].overtaken
             /\ request'[t].since = IF request[t].step \in {"read", "snapshot"}
                                      THEN request[t].since \ {p} ELSE request[t].since
  <2>1. CASE request[t].step \in {"read", "snapshot"}
    <3>1. request[t] \in Busy
      BY <1>1, <2>1, BusyTypes
    <3>2. request'[t] = [request[t] EXCEPT !.since = @ \ {p}]
      BY <2>1 DEF Expire
    <3> QED
      BY <2>1, <3>1, <3>2 DEF Busy
  <2>2. CASE request[t].step \notin {"read", "snapshot"}
    BY <2>2 DEF Expire
  <2> QED
    BY <2>1, <2>2
<1>4. Serving(s)'
  BY <1>1, <1>2, <1>3 DEF Knows, Serving
<1>5. NotMissed(s)'
  BY <1>1, <1>2, <1>3 DEF Knows, NotMissed
<1>6. Aware(s)'
  BY <1>1, <1>2, <1>3 DEF Knows, Aware
<1> QED
  BY <1>4, <1>5, <1>6 DEF Knows

LEMMA ListProxy ==
  ASSUME TypeOK, ListInv, NEW r \in Readers, ProxyRefreshes(r)
  PROVE  ListInv'
<1> SUFFICES ASSUME NEW s \in Slots
             PROVE  Knows(s)'
  BY DEF ListInv
<1>1. Knows(s) /\ RequestTypes /\ CallTypes /\ OtherTypes
  BY TypeParts DEF ListInv
<1> DEFINE c == call[r].at
           got == call[r].got
<1>2. call[r] \in Calls /\ call[r].step = "read" /\ c \in up
  BY <1>1 DEF CallTypes, ProxyRefreshes, At
<1>3. c \in Coordinators
  BY <1>1, <1>2, CoordinatorAssumption DEF Calls, OtherTypes
<1>4. nodes' = [nodes EXCEPT ![c] = ReadersOf(got)] /\ UNCHANGED <<fanout, members, up>>
  BY DEF ProxyRefreshes, etcd
<1>5. request'[s] = Overtaking(request, r)[s]
  BY DEF ProxyRefreshes
<1>6. request[s].step \in {"read", "snapshot"} /\ request[s].at = c =>
        r \in request[s].older \/ request[s].since \subseteq got
  BY <1>1, <1>2 DEF Knows, Aware
<1>7. ASSUME NEW q \in Readers, call'[q].step = "read"
      PROVE  q # r /\ call'[q] = call[q]
  <2>1. CASE q = r
    BY <1>1, <1>2, <1>7, <2>1 DEF CallTypes, ProxyRefreshes, NoCall, Calls
  <2>2. CASE q # r
    BY <1>1, <2>2 DEF CallTypes, ProxyRefreshes
  <2> QED
    BY <2>1, <2>2
<1>8. ASSUME NEW t \in Slots \ {s}, request'[t].step = "read"
      PROVE  /\ t # r /\ request[t].step = "read"
             /\ request'[t].at = request[t].at /\ request'[t].got = request[t].got
  <2>1. t # r
    BY CoordinatorAssumption
  <2>2. request'[t] = Overtaking(request, r)[t]
    BY DEF ProxyRefreshes
  <2> QED
    BY <1>1, <1>8, <2>1, <2>2, OvertakingKeeps
<1> HIDE DEF c, got
<1> QED
  BY <1>3, <1>4, <1>5, <1>6, <1>7, <1>8, ListReplaced

LEMMA ListRefresh ==
  ASSUME TypeOK, ListInv, NEW h \in Slots, Refresh(h)
  PROVE  ListInv'
<1> SUFFICES ASSUME NEW s \in Slots
             PROVE  Knows(s)'
  BY DEF ListInv
<1>1. Knows(s) /\ Knows(h) /\ RequestTypes /\ CallTypes /\ OtherTypes
  BY TypeParts DEF ListInv
<1> DEFINE c == request[h].at
           got == request[h].got
<1>2. request[h] \in Busy /\ request[h].step = "read"
  BY <1>1, BusyTypes DEF Refresh, Doing
<1>3. c \in Coordinators /\ c \in up /\ nodes'[c] = ReadersOf(got)
  BY <1>1, <1>2 DEF Busy, Refresh, OtherTypes, Knows, Serving
<1>4. /\ nodes' = [nodes EXCEPT ![c] = ReadersOf(got)]
      /\ UNCHANGED <<fanout, members, up, call>>
  BY DEF Refresh, etcd, clients
<1>5. \A r \in Readers : call'[r].step = "read" => r # h /\ call'[r] = call[r]
  BY <1>4, CoordinatorAssumption
<1>6. \A t \in Slots \ {h} : request'[t] = Overtaking(request, h)[t]
  BY DEF Refresh, Overtaking
<1>7. LET q == Overtaking(request, h)[h] IN
      request'[h] = IF h \in Searches THEN [q EXCEPT !.step = "snapshot", !.got = {}]
                                      ELSE NoRequest
  BY DEF Refresh, Overtaking
<1>8. request'[h].step # "read"
  <2>1. Overtaking(request, h)[h] \in Busy
    BY <1>1, <1>2, OvertakingTypes
  <2> QED
    BY <1>7, <2>1 DEF Busy, NoRequest
<1>9. \A t \in Slots : request'[t].step = "read" =>
        /\ t # h /\ request[t].step = "read"
        /\ request'[t].at = request[t].at /\ request'[t].got = request[t].got
  BY <1>1, <1>6, <1>8, OvertakingKeeps
<1>10. CASE s # h
  <2>1. request[s].step \in {"read", "snapshot"} /\ request[s].at = c =>
          h \in request[s].older \/ request[s].since \subseteq got
    BY <1>1, <1>2, <1>10 DEF Knows, Aware
  <2>2. request'[s] = Overtaking(request, h)[s]
    BY <1>6, <1>10
  <2> HIDE DEF c, got
  <2> QED
    BY <1>3, <1>4, <1>5, <1>9, <2>1, <2>2, ListReplaced
<1>11. CASE s = h /\ h \notin Searches
  BY <1>7, <1>11 DEF Knows, Serving, Aware, NotMissed, NoRequest
<1>12. CASE s = h /\ h \in Searches
  <2> DEFINE q == Overtaking(request, h)[h]
  <2>1. q \in Busy
    BY <1>1, <1>2, OvertakingTypes
  <2>2. /\ q.at = c /\ q.since = request[h].since
        /\ q.older = request[h].older \ {h}
    BY <1>1, OvertakingKeeps
  <2>3. request'[h] = [q EXCEPT !.step = "snapshot", !.got = {}]
    BY <1>7, <1>12
  <2> HIDE DEF q
  <2>4. /\ request'[h].step = "snapshot" /\ request'[h].at = c
        /\ request'[h].since = request[h].since /\ request'[h].older = request[h].older \ {h}
    BY <2>1, <2>2, <2>3 DEF Busy
  <2>5. Serving(h)' /\ NotMissed(h)'
    BY <1>3, <1>4, <2>4 DEF Serving, NotMissed
  <2>6. request[h].since \subseteq members /\ request[h].since \subseteq nodes'[c]
    BY <1>1, <1>2, <1>3 DEF Knows, Aware, Busy, ReadersOf
  <2>7. ASSUME NEW r \in Readers, call'[r].step = "read", call'[r].at = c
        PROVE  r \in request'[h].older \/ request[h].since \subseteq call'[r].got
    BY <1>1, <1>2, <1>4, <1>5, <2>4, <2>7 DEF Knows, Aware
  <2>8. ASSUME NEW t \in Slots \ {h}, request'[t].step = "read", request'[t].at = c
        PROVE  t \in request'[h].older \/ request[h].since \subseteq request'[t].got
    BY <1>1, <1>2, <1>9, <2>4, <2>8 DEF Knows, Aware
  <2>9. Aware(h)'
    BY <1>4, <2>4, <2>6, <2>7, <2>8 DEF Aware
  <2> QED
    BY <1>12, <2>5, <2>9 DEF Knows
<1> QED
  BY <1>10, <1>11, <1>12

LEMMA ListReceive ==
  ASSUME TypeOK, ListInv, NEW h \in Slots, NEW c \in Coordinators, Receive(h, c)
  PROVE  ListInv'
<1> SUFFICES ASSUME NEW s \in Slots
             PROVE  Knows(s)'
  BY DEF ListInv
<1>1. Knows(s) /\ RequestTypes
  BY TypeParts DEF ListInv
<1>2. UNCHANGED <<fanout, members, up, nodes, call>> /\ c \in up
  BY DEF Receive, etcd, globals, clients
<1>3. /\ \A t \in Slots \ {h} : request'[t] = request[t]
      /\ request'[h].step = "read" /\ request'[h].at = c /\ request'[h].got = members
      /\ request'[h].since \subseteq members
      /\ request'[h].since = {} \/ request'[h].older = Reading(c)
  BY <1>1 DEF Receive, RequestTypes, NoRequest
<1>4. CASE s = h
  BY <1>2, <1>3, <1>4 DEF Knows, Serving, Aware, NotMissed, Reading
<1>5. CASE s # h
  <2>1. request'[s] = request[s]
    BY <1>3, <1>5
  <2>2. Serving(s)' /\ NotMissed(s)'
    BY <1>1, <1>2, <2>1 DEF Knows, Serving, NotMissed
  <2>3. Aware(s)'
    BY <1>1, <1>2, <1>3, <2>1 DEF Knows, Aware
  <2> QED
    BY <2>2, <2>3 DEF Knows
<1> QED
  BY <1>4, <1>5

LEMMA ListChosen ==
  ASSUME TypeOK, ListInv, NEW t \in Slots, Scatter(t) \/ TakeTurns(t)
  PROVE  ListInv'
<1>1. Knows(t) /\ request[t] \in Busy /\ request[t].step = "snapshot"
  BY TypeParts, BusyTypes DEF ListInv, Scatter, TakeTurns, Doing
<1>2. PICK targets :
        /\ request' = [request EXCEPT ![t].step = "asking", ![t].targets = targets,
                                      ![t].older = {}]
        /\ fanout = "scatter" => targets = nodes[request[t].at]
  BY DEF Scatter, TakeTurns
<1> DEFINE q == [request[t] EXCEPT !.step = "asking", !.targets = targets, !.older = {}]
<1>3. request' = [request EXCEPT ![t] = q]
  BY <1>2
<1>4. /\ q.step = "asking" /\ q.at = request[t].at /\ q.targets = targets
      /\ q.since = request[t].since /\ q.overtaken = request[t].overtaken
  BY <1>1 DEF Busy
<1> HIDE DEF q
<1>5. q.step # "free" => q.at \in up
  BY <1>1, <1>4 DEF Knows, Serving
<1>6. q.step = "asking" /\ fanout = "scatter" /\ ~q.overtaken => q.since \subseteq q.targets
  BY <1>1, <1>2, <1>4 DEF Knows, Aware
<1>7. UNCHANGED <<fanout, members, up, nodes, call>>
  BY DEF Scatter, TakeTurns, etcd, globals, clients
<1>8. q.step \notin {"read", "snapshot"}
  BY <1>4
<1> QED
  BY <1>3, <1>5, <1>6, <1>7, <1>8, RequestLeaves

LEMMA ListAnswered ==
  ASSUME TypeOK, ListInv, NEW t \in Slots, RefuseMode(t) \/ Gather(t) \/ Done(t)
  PROVE  ListInv'
<1>1. UNCHANGED <<fanout, members, up, nodes, call>>
  BY DEF RefuseMode, Gather, Done, etcd, globals, clients
<1>2. PICK q : /\ request' = [request EXCEPT ![t] = q]
               /\ \/ q.step = "free"
                  \/ /\ request[t].step = "asking"
                     /\ q.step = "answered" /\ q.at = request[t].at
  <2>1. CASE RefuseMode(t) \/ Done(t)
    <3>1. request' = [request EXCEPT ![t] = NoRequest]
      BY <2>1 DEF RefuseMode, Done
    <3>2. NoRequest.step = "free"
      BY DEF NoRequest
    <3> QED
      BY <3>1, <3>2
  <2>2. CASE Gather(t)
    <3>1. PICK ans, failed : request' = [request EXCEPT ![t] = Answered(t, ans, failed)]
      BY <2>2 DEF Gather, Answered
    <3>2. Answered(t, ans, failed).step = "answered" /\ Answered(t, ans, failed).at = request[t].at
      BY DEF Answered, NoRequest
    <3> QED
      BY <2>2, <3>1, <3>2 DEF Gather, Doing
  <2> QED
    BY <2>1, <2>2
<1>3. q.step # "free" => q.at \in up
  BY <1>2 DEF ListInv, Knows, Serving
<1> QED
  BY <1>1, <1>2, <1>3, RequestLeaves

LEMMA ListStep ==
  ASSUME TypeOK, ListInv, [Next]_vars
  PROVE  ListInv'
<1>0. OtherTypes /\ CallTypes
  BY TypeParts
<1>1. CASE UNCHANGED vars \/ LeaderExpires \/ LoseLeaderKey
             \/ (\E c \in Coordinators : Heartbeat(c)) \/ \E r \in Readers : Restart(r)
  <2>1. /\ request' = request /\ fanout' = fanout /\ nodes' = nodes /\ call' = call
        /\ up \subseteq up' /\ members \subseteq members'
    BY <1>1 DEF vars, etcd, globals, clients, LeaderExpires, LoseLeaderKey, Heartbeat, Restart
  <2> QED
    BY <2>1, RequestsStay
<1>2. ASSUME NEW c \in Coordinators, Boot(c)
      PROVE  ListInv'
  <2>1. /\ request' = request /\ fanout' = fanout /\ call' = call
        /\ up \subseteq up' /\ members \subseteq members'
        /\ c \notin up /\ nodes' = [nodes EXCEPT ![c] = ReadersOf(members')]
    BY <1>2 DEF clients, Boot
  <2>2. \A d \in up : nodes[d] \subseteq nodes'[d]
    BY <1>0, <2>1 DEF OtherTypes
  <2> QED
    BY <2>1, <2>2, RequestsStay
<1>3. ASSUME NEW r \in Readers,
             TimeOut(r) \/ Ask(r) \/ GiveUp(r) \/ Refuse(r) \/ PutKey(r) \/ AskLeader(r)
               \/ ProxyReads(r) \/ Forward(r) \/ AddNode(r)
      PROVE  ListInv'
  <2>1. /\ request' = request /\ fanout' = fanout /\ up' = up
        /\ members \subseteq members'
    BY <1>3 DEF TimeOut, Ask, GiveUp, Refuse, PutKey, AskLeader, ProxyReads, Forward, AddNode,
         etcd, globals
  <2>2. \A c \in up : nodes[c] \subseteq nodes'[c]
    <3>1. CASE AddNode(r)
      BY <1>0, <3>1 DEF AddNode, OtherTypes
    <3>2. CASE ~AddNode(r)
      BY <1>3, <3>2 DEF TimeOut, Ask, GiveUp, Refuse, PutKey, AskLeader, ProxyReads, Forward,
           globals
    <3> QED
      BY <3>1, <3>2
  <2>3. ASSUME NEW q \in Readers, call'[q].step = "read"
        PROVE  \/ /\ call[q].step = "read" /\ call'[q].at = call[q].at
                  /\ call'[q].got = call[q].got
               \/ call'[q].got = members
    <3>1. call[r] \in Calls /\ call \in [Readers -> Calls]
      BY <1>0 DEF CallTypes
    <3>2. CASE q # r
      <4>1. call'[q] = call[q]
        BY <1>3, <3>1, <3>2 DEF TimeOut, Ask, GiveUp, Refuse, PutKey, AskLeader, ProxyReads,
             Forward, AddNode
      <4> QED
        BY <2>3, <4>1
    <3>3. CASE q = r /\ (GiveUp(r) \/ Refuse(r) \/ AddNode(r))
      BY <2>3, <3>1, <3>3 DEF GiveUp, Refuse, AddNode, NoCall
    <3>4. CASE q = r /\ Ask(r)
      BY <2>3, <3>1, <3>4 DEF Ask, NoCall
    <3>5. CASE q = r /\ (PutKey(r) \/ AskLeader(r) \/ Forward(r))
      BY <2>3, <3>1, <3>5 DEF PutKey, AskLeader, Forward, Calls
    <3>6. CASE q = r /\ (TimeOut(r) \/ ProxyReads(r))
      BY <2>3, <3>1, <3>6 DEF TimeOut, ProxyReads, Calls
    <3> QED
      BY <1>3, <3>2, <3>3, <3>4, <3>5, <3>6
  <2> QED
    BY <2>1, <2>2, <2>3, RequestsStay
<1>4. CASE \E p \in Coordinators \cup Readers : Crash(p) \/ Expire(p)
  BY <1>4, ListCrash, ListExpire
<1>5. CASE \E r \in Readers : Restart(r) \/ Register(r) \/ TimeOut(r)
  BY <1>1, <1>3, <1>5, ListProxy DEF Register
<1>6. CASE \E s \in Slots : Serve(s) \/ \E c \in Coordinators : Receive(s, c)
  BY <1>6, ListRefresh, ListChosen, ListAnswered, ListReceive DEF Serve
<1> QED
  BY <1>1, <1>2, <1>4, <1>5, <1>6 DEF Next

\* A search of scatter mode asks every reader that was registered throughout,
\* unless an older list has replaced the one it read: whatever registrations,
\* other searches and health checks, crashes and lost keys come in between
\* (_refresh_nodes, search, _search_targets).
THEOREM NoShardIsEverMissed == Spec => []NoShardIsMissed
<1>1. Init => ListInv
  BY DEF Init, ListInv, Knows, Serving, Aware, NotMissed, NoRequest
<1>2. TypeOK /\ ListInv /\ [Next]_vars => ListInv'
  BY ListStep
<1>3. ListInv => NoShardIsMissed
  BY DEF ListInv, Knows, NotMissed, NoShardIsMissed, Slots
<1> QED
  BY <1>1, <1>2, <1>3, CoordinatorTypes, PTL DEF Spec

=============================================================================
