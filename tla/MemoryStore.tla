------------------------------ MODULE MemoryStore ------------------------------
(***************************************************************************)
(* The in-memory backend of coordinator/etcd_client.py: keys with a time   *)
(* to live that are taken out when somebody reads next, the election, and  *)
(* the generator watch_prefix, which polls.                                *)
(*                                                                         *)
(* Clients of one process share the store.  No method suspends, so each is *)
(* one step; watch_prefix suspends at every event that it yields.  (The    *)
(* etcd backend, whose calls do suspend, is in LeaderElection.)            *)
(***************************************************************************)
EXTENDS Integers, FiniteSets

CONSTANTS
  Clients,   \* those that campaign, each with its own name
  Names,     \* the keys under the watched prefix
  Data,      \* what is put under them
  None,
  Ttl,       \* the time to live of a key, in the periods of a client's campaigns
  MaxStarts  \* bound: clients that start again

ASSUME StoreAssumption ==
  /\ Ttl \in Nat \ {0, 1} /\ MaxStarts \in Nat
  /\ None \notin Clients \cup Data
  /\ Names \cap {"election", "leader"} = {}

Keys == Names \cup {"election", "leader"}
Never == Ttl + 1    \* the key is not in ttls

VARIABLES
  store,     \* values, ttls (the time left), and leader of _MemoryStore
  active,    \* the clients that campaign once in a period
  done,      \* those that have done so in this one
  starts,
  seen,      \* what watch_prefix has yielded last for each key
  poll,      \* current of watch_prefix, and the keys it has still to yield
  \* ghosts
  lease,     \* the time for which a client that has won may rely on it
  put        \* the last put or delete of each name, and the time it has left

vars == <<store, active, done, starts, seen, poll, lease, put>>

Nothing == [k \in Names |-> None]

Init ==
  /\ store = [values |-> [k \in Keys |-> None], ttls |-> [k \in Keys |-> Never],
              leader |-> None]
  /\ active = Clients /\ done = {} /\ starts = 0
  /\ seen = Nothing /\ poll = [current |-> Nothing, todo |-> {}]
  /\ lease = [n \in Clients |-> 0]
  /\ put = [k \in Names |-> [value |-> None, left |-> Never]]

-----------------------------------------------------------------------------
(***************************************************************************)
(* The store.                                                              *)
(***************************************************************************)
\* Mutant: a put without a time to live leaves the old one in place.
PutIn_KeepsTtl(st, k, v, ttl) ==
  [st EXCEPT !.values[k] = v, !.ttls[k] = IF ttl = Never THEN @ ELSE ttl]

\* put(key, value, ttl)
PutIn(st, k, v, ttl) == [st EXCEPT !.values[k] = v, !.ttls[k] = ttl]

\* Mutant: the leader record outlives its key.
Pruned_KeepsLeader(st) ==
  LET old == {k \in Keys : st.ttls[k] = 0}
  IN [st EXCEPT !.values = [k \in Keys |-> IF k \in old THEN None ELSE @[k]],
                !.ttls = [k \in Keys |-> IF k \in old THEN Never ELSE @[k]]]

\* Mutant: the leader record goes with any key.
Pruned_LeaderWithAny(st) ==
  LET old == {k \in Keys : st.ttls[k] = 0}
  IN [values |-> [k \in Keys |-> IF k \in old THEN None ELSE st.values[k]],
      ttls |-> [k \in Keys |-> IF k \in old THEN Never ELSE st.ttls[k]],
      leader |-> IF old # {} THEN None ELSE st.leader]

\* _prune_expired
Pruned(st) ==
  LET old == {k \in Keys : st.ttls[k] = 0}
  IN [values |-> [k \in Keys |-> IF k \in old THEN None ELSE st.values[k]],
      ttls |-> [k \in Keys |-> IF k \in old THEN Never ELSE st.ttls[k]],
      leader |-> IF "election" \in old THEN None ELSE st.leader]

\* get(key)
Get(k) == Pruned(store).values[k]

\* The two puts of a winner read the clock one after the other: the first key may
\* expire a period before the second.
Claims(st, n) ==
  {PutIn(PutIn(st, "election", n, ttl), "leader", n, Ttl) : ttl \in {Ttl, Ttl - 1}}

\* campaign(name): the possible stores.
Campaigned(st, n) ==
  LET p == Pruned(st)
      winner == IF p.leader = None THEN n ELSE p.leader
      q == [p EXCEPT !.leader = winner, !.values["leader"] = winner]
  IN IF winner = n THEN Claims(q, n) ELSE {q}

-----------------------------------------------------------------------------
(***************************************************************************)
(* The clients.                                                            *)
(***************************************************************************)
Campaign(n) ==
  /\ n \in active \ done
  /\ done' = done \cup {n}
  /\ store' \in Campaigned(store, n)
  /\ lease' = [lease EXCEPT ![n] = IF store'.leader = n THEN store'.ttls["election"] ELSE 0]
  /\ UNCHANGED <<active, starts, seen, poll, put>>

Stop(n) ==
  /\ n \in active
  /\ active' = active \ {n} /\ done' = done \ {n}
  /\ UNCHANGED <<store, starts, seen, poll, lease, put>>

Restart(n) ==
  /\ n \notin active /\ starts < MaxStarts
  /\ active' = active \cup {n} /\ starts' = starts + 1
  /\ UNCHANGED <<store, done, seen, poll, lease, put>>

Put(k, v, ttl) ==
  /\ store' = PutIn(store, k, v, ttl)
  /\ put' = [put EXCEPT ![k] = [value |-> v, left |-> ttl]]
  /\ UNCHANGED <<active, done, starts, seen, poll, lease>>

\* The time to live of the key stays behind.
Delete(k) ==
  /\ store' = [store EXCEPT !.values[k] = None]
  /\ put' = [put EXCEPT ![k] = [value |-> None, left |-> Never]]
  /\ UNCHANGED <<active, done, starts, seen, poll, lease>>

\* A period is over.
Older(left) == IF left \in {0, Never} THEN left ELSE left - 1

Tick ==
  /\ active \subseteq done /\ done' = {}
  /\ store' = [store EXCEPT !.ttls = [k \in Keys |-> Older(@[k])]]
  /\ lease' = [n \in Clients |-> Older(lease[n])]
  /\ put' = [k \in Names |-> [put[k] EXCEPT !.left = Older(@)]]
  /\ UNCHANGED <<active, starts, seen, poll>>

-----------------------------------------------------------------------------
(***************************************************************************)
(* The generator.                                                          *)
(***************************************************************************)
\* watch_prefix calls get_prefix ...
WatchPoll ==
  LET current == [k \in Names |-> Get(k)] IN
  /\ poll.todo = {}
  /\ store' = Pruned(store)
  /\ poll' = [current |-> current, todo |-> {k \in Names : seen[k] # current[k]}]
  /\ UNCHANGED <<active, done, starts, seen, lease, put>>

\* Mutant: keys that have gone are not yielded.
WatchYield_PutsOnly(k) ==
  /\ k \in poll.todo
  /\ seen' = IF poll.current[k] = None THEN seen ELSE [seen EXCEPT ![k] = poll.current[k]]
  /\ poll' = [poll EXCEPT !.todo = @ \ {k}]
  /\ UNCHANGED <<store, active, done, starts, lease, put>>

\* ... and yields what has changed, then what has gone; the store goes on changing
\* in between.
WatchYield(k) ==
  /\ k \in poll.todo
  /\ poll.current[k] = None => \A j \in poll.todo : poll.current[j] = None
  /\ seen' = [seen EXCEPT ![k] = poll.current[k]]
  /\ poll' = [poll EXCEPT !.todo = @ \ {k}]
  /\ UNCHANGED <<store, active, done, starts, lease, put>>

-----------------------------------------------------------------------------
Watch == WatchPoll \/ \E k \in Names : WatchYield(k)

Next ==
  \/ \E n \in Clients : Campaign(n) \/ Stop(n) \/ Restart(n)
  \/ \E k \in Names : Delete(k) \/ \E v \in Data, ttl \in {Ttl, Never} : Put(k, v, ttl)
  \/ Tick \/ Watch

Spec == Init /\ [][Next]_vars

\* Time passes, clients go on campaigning, and the generator is read.
FairSpec ==
  /\ Spec
  /\ \A n \in Clients : WF_vars(Campaign(n))
  /\ WF_vars(Tick) /\ WF_vars(Watch)

-----------------------------------------------------------------------------
(***************************************************************************)
(* Properties.                                                             *)
(***************************************************************************)
\* A client that has won may rely on it until its key expires: meanwhile no other
\* one wins, and everybody reads its name as the leader ("at most one leader",
\* campaign and _prune_expired).
WinnerIsTheLeader ==
  \A n \in Clients : lease[n] > 0 =>
    /\ Get("leader") = n
    /\ \A m \in Clients : lease[m] > 0 => m = n

\* A key reads as what was put under it last, until the time of that put is over
\* or it is deleted: neither an earlier time to live nor one that a delete has
\* left behind cuts it short or keeps it (put, get, delete, _prune_expired).
ReadsAreCurrent ==
  \A k \in Names : Get(k) = IF put[k].left = 0 THEN None ELSE put[k].value

\* When all clients but one have stopped for good, the one that goes on is the
\* leader in the end (test_leader_failover_on_ttl_expiry).
FailoverHappens ==
  \A n \in Clients : <>[](active = {n}) => <>[](Get("leader") = n)

\* Who follows the events of watch_prefix ends up with the contents of the store,
\* also when keys change or expire while the events of a poll are yielded
\* (watch_prefix).
FollowersCatchUp ==
  \A k \in Names, v \in Data \cup {None} : <>[](Get(k) = v) => <>[](seen[k] = v)

=============================================================================
