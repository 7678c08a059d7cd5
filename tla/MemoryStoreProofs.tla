--------------------------- MODULE MemoryStoreProofs ---------------------------
(***************************************************************************)
(* The two invariants of MemoryStore, for any number of clients and keys   *)
(* and every time to live of two periods or more.                          *)
(***************************************************************************)
EXTENDS MemoryStore, TLAPS

Times == 0..Never

\* The types that the invariants need.
TimesOK ==
  /\ DOMAIN store = {"values", "ttls", "leader"}
  /\ store.values \in [Keys -> Clients \cup Data \cup {None}]
  /\ store.ttls \in [Keys -> Times]
  /\ store.leader \in Clients \cup {None}
  /\ lease \in [Clients -> Times]
  /\ put \in [Names -> [value : Data \cup {None}, left : Times]]

\* A client that counts on its victory has the record and both keys, which live at
\* least as long.
Won(n) ==
  lease[n] > 0 =>
    /\ lease[n] <= Ttl
    /\ store.leader = n /\ store.values["leader"] = n
    /\ lease[n] <= store.ttls["election"] /\ lease[n] <= store.ttls["leader"]

\* A key is as the last put has left it, or it is gone: deleted, in which case a
\* time to live can be left over, or taken out at its end.
AsPut(k) ==
  \/ store.values[k] = put[k].value /\ store.ttls[k] = put[k].left
  \/ store.values[k] = None /\ put[k].value = None
  \/ store.values[k] = None /\ put[k].left = 0 /\ store.ttls[k] = Never

IInv == TimesOK /\ (\A n \in Clients : Won(n)) /\ (\A k \in Names : AsPut(k))

-----------------------------------------------------------------------------
\* The keys of the election are no names.
LEMMA KeysApart ==
  /\ "election" \in Keys /\ "leader" \in Keys
  /\ "election" \notin Names /\ "leader" \notin Names
  /\ Names \subseteq Keys
  /\ Ttl \in Nat /\ Ttl > 1 /\ Never = Ttl + 1 /\ Never \in Times
  /\ None \notin Clients
BY StoreAssumption DEF Keys, Never, Times

\* The parts of a pruned store.
LEMMA PrunedParts ==
  ASSUME TimesOK
  PROVE  /\ DOMAIN Pruned(store) = {"values", "ttls", "leader"}
         /\ Pruned(store).values \in [Keys -> Clients \cup Data \cup {None}]
         /\ Pruned(store).ttls \in [Keys -> Times]
         /\ Pruned(store).leader \in Clients \cup {None}
         /\ \A k \in Keys :
              /\ Pruned(store).values[k] = IF store.ttls[k] = 0 THEN None ELSE store.values[k]
              /\ Pruned(store).ttls[k] = IF store.ttls[k] = 0 THEN Never ELSE store.ttls[k]
         /\ Pruned(store).leader = IF store.ttls["election"] = 0 THEN None ELSE store.leader
BY KeysApart DEF Pruned, TimesOK, Times

\* Pruning keeps what the invariant says.
LEMMA PrunedKeeps ==
  ASSUME IInv, store' = Pruned(store), UNCHANGED <<lease, put>>
  PROVE  IInv'
<1>1. TimesOK'
  BY PrunedParts DEF IInv, TimesOK
<1>2. ASSUME NEW n \in Clients PROVE Won(n)'
  BY <1>2, PrunedParts, KeysApart DEF IInv, Won, TimesOK, Times
<1>3. ASSUME NEW k \in Names PROVE AsPut(k)'
  BY <1>3, PrunedParts, KeysApart DEF IInv, AsPut, TimesOK, Times
<1> QED BY <1>1, <1>2, <1>3 DEF IInv

\* What a campaign leaves: the pruned store with the winner in it, who is the
\* client itself when there is no other.
LEMMA CampaignedParts ==
  ASSUME TimesOK, NEW n \in Clients, NEW st \in Campaigned(store, n)
  PROVE  LET p == Pruned(store)
             winner == IF p.leader = None THEN n ELSE p.leader
         IN /\ DOMAIN st = {"values", "ttls", "leader"}
            /\ st.leader = winner
            /\ st.values = [k \in Keys |-> IF k = "leader" \/ (k = "election" /\ winner = n)
                                             THEN winner ELSE p.values[k]]
            /\ winner # n => st.ttls = p.ttls
            /\ winner = n => \E ttl \in {Ttl, Ttl - 1} :
                 st.ttls = [k \in Keys |-> IF k = "election" THEN ttl
                                           ELSE IF k = "leader" THEN Ttl ELSE p.ttls[k]]
<1> DEFINE p == Pruned(store)
           winner == IF p.leader = None THEN n ELSE p.leader
           q == [p EXCEPT !.leader = winner, !.values["leader"] = winner]
<1>1. /\ DOMAIN q = {"values", "ttls", "leader"}
      /\ q.leader = winner /\ q.ttls = p.ttls
      /\ q.values = [k \in Keys |-> IF k = "leader" THEN winner ELSE p.values[k]]
  BY PrunedParts, KeysApart
<1>2. CASE winner # n
  <2>1. st = q
    BY <1>2 DEF Campaigned
  <2> QED BY <2>1, <1>1, <1>2
<1>3. CASE winner = n
  <2>1. PICK ttl \in {Ttl, Ttl - 1} :
          st = PutIn(PutIn(q, "election", n, ttl), "leader", n, Ttl)
    BY <1>3 DEF Campaigned, Claims
  <2>2. /\ DOMAIN st = {"values", "ttls", "leader"}
        /\ st.leader = q.leader
        /\ st.values = [[q.values EXCEPT !["election"] = n] EXCEPT !["leader"] = n]
        /\ st.ttls = [[q.ttls EXCEPT !["election"] = ttl] EXCEPT !["leader"] = Ttl]
    BY <2>1, <1>1 DEF PutIn
  <2>3. p.ttls \in [Keys -> Times]
    BY PrunedParts
  <2> QED BY <2>2, <2>3, <1>1, <1>3
<1> QED BY <1>2, <1>3

LEMMA CampaignKeeps ==
  ASSUME IInv, NEW n \in Clients, Campaign(n)
  PROVE  IInv'
<1> DEFINE p == Pruned(store)
           winner == IF p.leader = None THEN n ELSE p.leader
<1>1. TimesOK
  BY DEF IInv
<1>2. /\ store' \in Campaigned(store, n) /\ UNCHANGED put
      /\ lease' = [lease EXCEPT ![n] = IF store'.leader = n THEN store'.ttls["election"] ELSE 0]
  BY DEF Campaign
<1>3. /\ DOMAIN store' = {"values", "ttls", "leader"}
      /\ store'.leader = winner
      /\ store'.values = [k \in Keys |-> IF k = "leader" \/ (k = "election" /\ winner = n)
                                           THEN winner ELSE p.values[k]]
      /\ winner # n => store'.ttls = p.ttls
      /\ winner = n => \E ttl \in {Ttl, Ttl - 1} :
           store'.ttls = [k \in Keys |-> IF k = "election" THEN ttl
                                         ELSE IF k = "leader" THEN Ttl ELSE p.ttls[k]]
  BY <1>1, <1>2, CampaignedParts
<1>4. winner \in Clients
  BY <1>1, PrunedParts
<1>5. /\ store'.values \in [Keys -> Clients \cup Data \cup {None}]
      /\ store'.ttls \in [Keys -> Times]
  <2>1. store'.values \in [Keys -> Clients \cup Data \cup {None}]
    BY <1>1, <1>3, <1>4, PrunedParts
  <2>2. CASE winner # n
    BY <2>2, <1>1, <1>3, PrunedParts
  <2>3. CASE winner = n
    BY <2>3, <1>1, <1>3, PrunedParts, KeysApart DEF Times
  <2> QED BY <2>1, <2>2, <2>3
<1>6. TimesOK'
  <2>1. store'.ttls["election"] \in Times /\ 0 \in Times
    BY <1>5, KeysApart DEF Times
  <2>2. lease' \in [Clients -> Times]
    BY <2>1, <1>1, <1>2 DEF TimesOK
  <2> QED BY <2>2, <1>1, <1>2, <1>3, <1>4, <1>5 DEF TimesOK
<1>7. ASSUME NEW m \in Clients PROVE Won(m)'
  <2> SUFFICES ASSUME lease'[m] > 0
               PROVE  Won(m)'
    BY DEF Won
  <2>1. CASE winner = n
    <3>1. PICK ttl \in {Ttl, Ttl - 1} :
            store'.ttls = [k \in Keys |-> IF k = "election" THEN ttl
                                          ELSE IF k = "leader" THEN Ttl ELSE p.ttls[k]]
      BY <2>1, <1>3
    <3>2. store'.ttls["election"] = ttl /\ store'.ttls["leader"] = Ttl
      BY <3>1, KeysApart
    <3>3. m = n
      <4>1. SUFFICES ASSUME m # n, lease[m] > 0 PROVE FALSE
        BY <1>1, <1>2 DEF TimesOK
      <4>2. store.leader = m /\ store.ttls["election"] > 0
        BY <4>1, <1>1, KeysApart DEF IInv, Won, TimesOK, Times
      <4>3. p.leader = m
        BY <4>2, <1>1, PrunedParts
      <4> QED BY <4>1, <4>3, <2>1, KeysApart
    <3>4. lease'[n] = ttl
      BY <3>2, <2>1, <1>1, <1>2, <1>3 DEF TimesOK
    <3>5. store'.values["leader"] = n
      BY <2>1, <1>3, KeysApart
    <3> QED BY <3>2, <3>3, <3>4, <3>5, <2>1, <1>3, KeysApart DEF Won
  <2>2. CASE winner # n
    <3>1. lease'[n] = 0 /\ m # n /\ lease'[m] = lease[m]
      BY <2>2, <1>1, <1>2, <1>3 DEF TimesOK
    <3>2. /\ lease[m] <= Ttl
          /\ store.leader = m /\ lease[m] <= store.ttls["election"]
          /\ lease[m] <= store.ttls["leader"]
          /\ lease[m] \in Nat /\ store.ttls["election"] \in Nat /\ store.ttls["leader"] \in Nat
      BY <3>1, <1>1, KeysApart DEF IInv, Won, TimesOK, Times
    <3>3. p.leader = m /\ p.ttls["election"] = store.ttls["election"]
                       /\ p.ttls["leader"] = store.ttls["leader"]
      BY <3>1, <3>2, <1>1, PrunedParts, KeysApart
    <3>4. store'.leader = m /\ store'.values["leader"] = m /\ store'.ttls = p.ttls
      BY <3>3, <2>2, <1>3, KeysApart
    <3> QED BY <3>1, <3>2, <3>3, <3>4 DEF Won
  <2> QED BY <2>1, <2>2
<1>8. ASSUME NEW k \in Names PROVE AsPut(k)'
  <2>1. /\ store'.values[k] = p.values[k]
        /\ store'.ttls[k] = p.ttls[k]
    BY <1>3, KeysApart
  <2> QED BY <2>1, <1>1, <1>2, PrunedParts, KeysApart DEF IInv, AsPut, TimesOK, Times
<1> QED BY <1>6, <1>7, <1>8 DEF IInv

\* A put under a name.
LEMMA PutKeeps ==
  ASSUME IInv, NEW k \in Names, NEW v \in Data, NEW ttl \in {Ttl, Never}, Put(k, v, ttl)
  PROVE  IInv'
<1>1. TimesOK
  BY DEF IInv
<1>2. /\ DOMAIN store' = {"values", "ttls", "leader"}
      /\ store'.values = [store.values EXCEPT ![k] = v]
      /\ store'.ttls = [store.ttls EXCEPT ![k] = ttl]
      /\ store'.leader = store.leader
  BY <1>1 DEF Put, PutIn, TimesOK
<1>3. put' = [put EXCEPT ![k] = [value |-> v, left |-> ttl]] /\ UNCHANGED lease
  BY DEF Put
<1>4. ttl \in Times
  BY KeysApart DEF Times
<1>5. TimesOK'
  BY <1>1, <1>2, <1>3, <1>4, KeysApart DEF TimesOK
<1>6. ASSUME NEW n \in Clients PROVE Won(n)'
  BY <1>1, <1>2, <1>3, KeysApart DEF IInv, Won, TimesOK
<1>7. ASSUME NEW j \in Names PROVE AsPut(j)'
  BY <1>1, <1>2, <1>3, KeysApart DEF IInv, AsPut, TimesOK
<1> QED BY <1>5, <1>6, <1>7 DEF IInv

LEMMA DeleteKeeps ==
  ASSUME IInv, NEW k \in Names, Delete(k)
  PROVE  IInv'
<1>1. TimesOK
  BY DEF IInv
<1>2. /\ DOMAIN store' = {"values", "ttls", "leader"}
      /\ store'.values = [store.values EXCEPT ![k] = None]
      /\ store'.ttls = store.ttls
      /\ store'.leader = store.leader
  BY <1>1 DEF Delete, TimesOK
<1>3. put' = [put EXCEPT ![k] = [value |-> None, left |-> Never]] /\ UNCHANGED lease
  BY DEF Delete
<1>5. TimesOK'
  BY <1>1, <1>2, <1>3, KeysApart DEF TimesOK
<1>6. ASSUME NEW n \in Clients PROVE Won(n)'
  BY <1>1, <1>2, <1>3, KeysApart DEF IInv, Won, TimesOK
<1>7. ASSUME NEW j \in Names PROVE AsPut(j)'
  BY <1>1, <1>2, <1>3, KeysApart DEF IInv, AsPut, TimesOK
<1> QED BY <1>5, <1>6, <1>7 DEF IInv

\* All times run down together.
LEMMA TickKeeps ==
  ASSUME IInv, Tick
  PROVE  IInv'
<1>1. TimesOK
  BY DEF IInv
<1>2. /\ DOMAIN store' = {"values", "ttls", "leader"}
      /\ store'.values = store.values
      /\ store'.ttls = [k \in Keys |-> Older(store.ttls[k])]
      /\ store'.leader = store.leader
  BY <1>1 DEF Tick, TimesOK
<1>3. /\ lease' = [n \in Clients |-> Older(lease[n])]
      /\ put' = [k \in Names |-> [put[k] EXCEPT !.left = Older(@)]]
  BY DEF Tick
<1>4. \A t \in Times : Older(t) \in Times
  BY KeysApart DEF Older, Times
<1>5. \A k \in Names : /\ put'[k].left = Older(put[k].left) /\ put'[k].value = put[k].value
                       /\ put'[k] \in [value : Data \cup {None}, left : Times]
  BY <1>1, <1>3, <1>4 DEF TimesOK
<1>6. TimesOK'
  <2>1. put' \in [Names -> [value : Data \cup {None}, left : Times]]
    BY <1>3, <1>5
  <2> QED BY <2>1, <1>1, <1>2, <1>3, <1>4 DEF TimesOK
<1>7. ASSUME NEW n \in Clients PROVE Won(n)'
  BY <1>1, <1>2, <1>3, KeysApart DEF IInv, Won, TimesOK, Times, Older
<1>8. ASSUME NEW k \in Names PROVE AsPut(k)'
  BY <1>1, <1>2, <1>5, KeysApart DEF IInv, AsPut, TimesOK, Older
<1> QED BY <1>6, <1>7, <1>8 DEF IInv

LEMMA StoreInvariant == Spec => []IInv
<1>1. Init => IInv
  BY KeysApart DEF Init, IInv, TimesOK, Won, AsPut, Times
<1>2. IInv /\ [Next]_vars => IInv'
  <2> SUFFICES ASSUME IInv, [Next]_vars PROVE IInv'
    OBVIOUS
  <2>1. ASSUME NEW n \in Clients, Campaign(n) PROVE IInv'
    BY <2>1, CampaignKeeps
  <2>2. ASSUME NEW k \in Names, Delete(k) PROVE IInv'
    BY <2>2, DeleteKeeps
  <2>3. ASSUME NEW k \in Names, NEW v \in Data, NEW ttl \in {Ttl, Never}, Put(k, v, ttl)
        PROVE IInv'
    BY <2>3, PutKeeps
  <2>4. CASE Tick
    BY <2>4, TickKeeps
  <2>5. CASE WatchPoll
    BY <2>5, PrunedKeeps DEF WatchPoll
  <2>6. CASE \/ UNCHANGED vars
             \/ \E n \in Clients : Stop(n) \/ Restart(n)
             \/ \E k \in Names : WatchYield(k)
    <3>1. UNCHANGED <<store, lease, put>>
      BY <2>6 DEF vars, Stop, Restart, WatchYield
    <3> QED BY <3>1 DEF IInv, TimesOK, Won, AsPut
  <2> QED BY <2>1, <2>2, <2>3, <2>4, <2>5, <2>6 DEF Next, Watch
<1> QED BY <1>1, <1>2, PTL DEF Spec

\* While a client that has won can count on it, everybody reads its name and no
\* other one has won.
THEOREM WinnersLead == Spec => []WinnerIsTheLeader
<1>1. IInv => WinnerIsTheLeader
  <2> SUFFICES ASSUME IInv, NEW n \in Clients, lease[n] > 0
               PROVE  /\ Get("leader") = n
                      /\ \A m \in Clients : lease[m] > 0 => m = n
    BY DEF WinnerIsTheLeader
  <2>1. store.leader = n /\ store.values["leader"] = n /\ store.ttls["leader"] # 0
    BY KeysApart DEF IInv, TimesOK, Times, Won
  <2>2. Get("leader") = n
    BY <2>1, PrunedParts, KeysApart DEF IInv, Get
  <2>3. \A m \in Clients : lease[m] > 0 => m = n
    BY <2>1 DEF IInv, Won
  <2> QED BY <2>2, <2>3
<1> QED BY <1>1, StoreInvariant, PTL

\* Every read is that of the last put, for as long as it was put.
THEOREM StoreReadsAreCurrent == Spec => []ReadsAreCurrent
<1>1. IInv => ReadsAreCurrent
  <2> SUFFICES ASSUME IInv, NEW k \in Names
               PROVE  Get(k) = IF put[k].left = 0 THEN None ELSE put[k].value
    BY DEF ReadsAreCurrent
  <2>1. Get(k) = IF store.ttls[k] = 0 THEN None ELSE store.values[k]
    BY PrunedParts, KeysApart DEF IInv, Get
  <2> QED BY <2>1, KeysApart DEF IInv, AsPut, TimesOK
<1> QED BY <1>1, StoreInvariant, PTL

=============================================================================
