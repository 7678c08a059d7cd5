------------------------ MODULE LeaderElectionProofs ------------------------
(***************************************************************************)
(* Proofs about LeaderElection, for any number of replicas, any time to    *)
(* live and any bounds.                                                    *)
(***************************************************************************)
EXTENDS LeaderElection, TLAPS

\* A lease that ages is still a lease, or is gone.
LEMMA AgedType ==
  ASSUME NEW lease \in Lease
  PROVE  Aged(lease) \in Lease
<1>1. CASE lease.ttl <= 1
  BY <1>1 DEF Aged, Lease, NoLease
<1>2. CASE ~(lease.ttl <= 1)
  <2>1. lease \in [owner : Nodes, ttl : 1..Ttl] /\ lease.ttl - 1 \in 1..Ttl
    BY <1>2, ElectionAssumption DEF Lease
  <2>2. Aged(lease) = [lease EXCEPT !.ttl = lease.ttl - 1]
    BY <1>2 DEF Aged
  <2> QED BY <2>1, <2>2 DEF Lease
<1> QED BY <1>1, <1>2

\* A key that is still set after a tick has one period less.
LEMMA AgedValue ==
  ASSUME NEW lease \in Lease, NEW n \in Nodes, Aged(lease).owner = n
  PROVE  Aged(lease).owner = lease.owner /\ Aged(lease).ttl = lease.ttl - 1
<1>1. ~(lease.ttl <= 1)
  BY ElectionAssumption DEF Aged, NoLease
<1>2. Aged(lease) = [lease EXCEPT !.ttl = lease.ttl - 1]
  BY <1>1 DEF Aged
<1> QED BY <1>1, <1>2 DEF Lease

Doing == [at : Steps, seen : Nodes \cup {None}]
ProcType == [Nodes \X Tasks -> Doing]

\* The ways in which a step changes what a task is doing.
LEMMA ProcTypes ==
  ASSUME proc \in ProcType, NEW n \in Nodes, NEW p \in Tasks
  PROVE  /\ \A s \in Steps : GoTo(n, p, s) => proc' \in ProcType
         /\ \A s \in Steps, v \in Nodes \cup {None} : Read(n, p, v, s) => proc' \in ProcType
         /\ proc' = [proc EXCEPT ![<<n, p>>] = Idle] => proc' \in ProcType
         /\ Finish(n, p) => proc' \in ProcType
         /\ Down(n) => proc' \in ProcType
<1>1. <<n, p>> \in Nodes \X Tasks
  OBVIOUS
<1>2. Idle \in Doing
  BY DEF Idle, Doing, Steps
<1>3. ASSUME NEW s \in Steps, GoTo(n, p, s) PROVE proc' \in ProcType
  BY <1>1, <1>3 DEF GoTo, ProcType, Doing
<1>4. ASSUME NEW s \in Steps, NEW v \in Nodes \cup {None}, Read(n, p, v, s)
      PROVE  proc' \in ProcType
  BY <1>1, <1>4 DEF Read, ProcType, Doing
<1>5. ASSUME proc' = [proc EXCEPT ![<<n, p>>] = Idle] PROVE proc' \in ProcType
  BY <1>1, <1>2, <1>5 DEF ProcType
<1>6. ASSUME Down(n) PROVE proc' \in ProcType
  BY <1>2, <1>6 DEF Down, ProcType
<1>7. ASSUME Finish(n, p) PROVE proc' \in ProcType
  BY <1>4, <1>7 DEF Finish, Steps, Waits
<1> QED BY <1>3, <1>4, <1>5, <1>6, <1>7

\* The initial state has the types.
LEMMA InitType == Init => TypeOK
  BY ElectionAssumption
  DEF Init, TypeOK, Lease, NoLease, Modes, Idle, Steps, Waits, Tasks

\* Every step keeps the types.
LEMMA NextType == TypeOK /\ [Next]_vars => TypeOK'
<1> SUFFICES ASSUME TypeOK, [Next]_vars PROVE TypeOK'
  OBVIOUS
<1>0. proc \in ProcType
  BY DEF TypeOK, ProcType, Doing
<1>1. ASSUME NEW n \in Nodes, Beat(n) PROVE TypeOK'
  <2>1. proc' \in ProcType
    BY <1>0, <1>1, ProcTypes DEF Beat, Tasks, Steps, Waits
  <2> QED BY <1>1, <2>1 DEF Beat, TypeOK, keys, counts, Modes, ProcType, Doing
<1>2. ASSUME NEW n \in Nodes, Health(n) PROVE TypeOK'
  <2>1. proc' \in ProcType
    BY <1>0, <1>2, ProcTypes DEF Health, Tasks, Steps, Waits
  <2> QED BY <1>2, <2>1, ElectionAssumption
          DEF Health, TypeOK, keys, counts, ProcType, Doing
<1>3. ASSUME NEW n \in Nodes, Crash(n) PROVE TypeOK'
  <2>1. proc' \in ProcType
    BY <1>0, <1>3, ProcTypes DEF Crash, Tasks
  <2> QED BY <1>3, <2>1, ElectionAssumption
          DEF Crash, Down, TypeOK, keys, Modes, ProcType, Doing
<1>4. ASSUME NEW n \in Nodes, Restart(n) PROVE TypeOK'
  <2>1. proc' \in ProcType
    BY <1>0, <1>4, ProcTypes DEF Restart, Tasks, Steps, Waits
  <2> QED BY <1>4, <2>1 DEF Restart, TypeOK, keys, counts, Modes, ProcType, Doing
<1>5. ASSUME NEW n \in Nodes, NEW p \in Tasks, Step(n, p) PROVE TypeOK'
  <2>1. /\ leaderKey.owner \in Nodes \cup {None}
        /\ election.owner \in Nodes \cup {None}
    BY DEF TypeOK, Lease
  <2>2. proc' \in ProcType
    <3>1. ASSUME \/ Register(n, p) \/ Refresh(n, p)
                 \/ Renew(n, p) \/ Campaign(n, p) \/ Claim(n, p)
          PROVE  proc' \in ProcType
      BY <1>0, <3>1, ProcTypes
      DEF Register, Refresh, Renew, Campaign, Claim, Steps, Waits
    <3>2. ASSUME GetLeader(n, p) \/ Poll(n, p) PROVE proc' \in ProcType
      BY <1>0, <2>1, <3>2, ProcTypes DEF GetLeader, Poll, Steps
    <3>3. ASSUME StepDown(n, p) \/ Follow(n, p) \/ Polled(n, p) \/ Won(n, p)
          PROVE  proc' \in ProcType
      BY <1>0, <3>3, ProcTypes DEF StepDown, Follow, Polled, Won
    <3>4. ASSUME PutElection(n, p) \/ PutLeader(n, p) PROVE proc' \in ProcType
      BY <1>0, <3>4, ProcTypes DEF PutElection, PutLeader, Steps, Waits
    <3> QED BY <1>5, <3>1, <3>2, <3>3, <3>4 DEF Step
  <2>3. mode' \in [Nodes -> Modes] /\ leader' \in [Nodes -> BOOLEAN]
    <3>1. ASSUME mode' = mode \/ Refresh(n, p) PROVE mode' \in [Nodes -> Modes]
      BY <3>1 DEF TypeOK, Refresh, Modes
    <3>2. mode' = mode \/ Refresh(n, p)
      BY <1>5 DEF Step, Register, Refresh, GetLeader, Renew, StepDown, Follow, Campaign,
                  Poll, Claim, Polled, PutElection, PutLeader, Won
    <3>3. \/ leader' = leader
          \/ \E b \in BOOLEAN : leader' = [leader EXCEPT ![n] = b]
      BY <1>5 DEF Step, Register, Refresh, GetLeader, Renew, StepDown, Follow, Campaign,
                  Poll, Claim, Polled, PutElection, PutLeader, Won
    <3>4. leader' \in [Nodes -> BOOLEAN]
      BY <3>3 DEF TypeOK
    <3> QED BY <3>1, <3>2, <3>4
  <2>4. Held(n) \in Lease
    BY ElectionAssumption DEF Held, Lease
  <2>5. election' \in Lease /\ leaderKey' \in Lease
    BY <1>5, <2>4 DEF Step, Register, Refresh, GetLeader, Renew, StepDown, Follow, Campaign,
                      Poll, Claim, Polled, PutElection, PutLeader, Won, TypeOK, keys
  <2>6. member' \in [Nodes -> 0..Ttl]
    <3>1. member' = member \/ member' = [member EXCEPT ![n] = Ttl]
      BY <1>5 DEF Step, Register, Refresh, GetLeader, Renew, StepDown, Follow, Campaign,
                  Poll, Claim, Polled, PutElection, PutLeader, Won, keys
    <3> QED BY <3>1, ElectionAssumption DEF TypeOK
  <2>7. UNCHANGED counts
    BY <1>5 DEF Step, Register, Refresh, GetLeader, Renew, StepDown, Follow, Campaign,
                Poll, Claim, Polled, PutElection, PutLeader, Won
  <2> QED BY <2>2, <2>3, <2>5, <2>6, <2>7 DEF TypeOK, counts, ProcType, Doing
<1>6. ASSUME NEW n \in Nodes, NEW p \in Tasks, Raise(n, p) PROVE TypeOK'
  <2>1. proc' \in ProcType
    BY <1>0, <1>6, ProcTypes DEF Raise
  <2>2. mode' \in [Nodes -> Modes] /\ leader' \in [Nodes -> BOOLEAN]
    BY <1>6 DEF Raise, Down, TypeOK, Modes
  <2>3. errors' \in 0..MaxErrors
    <3>1. errors < MaxErrors /\ errors' = errors + 1
      BY <1>6 DEF Raise
    <3> QED BY <3>1, ElectionAssumption DEF TypeOK
  <2> QED BY <1>6, <2>1, <2>2, <2>3 DEF Raise, TypeOK, keys, ProcType, Doing
<1>7. ASSUME Tick PROVE TypeOK'
  <2>1. election' \in Lease /\ leaderKey' \in Lease
    BY <1>7, AgedType DEF Tick, TypeOK
  <2>2. member' \in [Nodes -> 0..Ttl]
    <3>1. ASSUME NEW n \in Nodes
          PROVE  (IF member[n] = 0 THEN 0 ELSE member[n] - 1) \in 0..Ttl
      <4>1. member[n] \in 0..Ttl
        BY DEF TypeOK
      <4> QED BY <4>1, ElectionAssumption
    <3> QED BY <1>7, <3>1 DEF Tick
  <2>3. mode' \in [Nodes -> Modes]
    BY <1>7 DEF Tick, TypeOK, Modes
  <2>4. delays' \in 0..MaxDelays
    BY <1>7, ElectionAssumption DEF Tick, TypeOK
  <2> QED BY <1>7, <2>1, <2>2, <2>3, <2>4 DEF Tick, TypeOK
<1>8. CASE UNCHANGED vars
  BY <1>8 DEF TypeOK, vars, keys, replicas, counts
<1> QED BY <1>1, <1>2, <1>3, <1>4, <1>5, <1>6, <1>7, <1>8 DEF Next

\* Type correctness of the election, whatever raises, dies or is late.
THEOREM ElectionTypeCorrect == Spec => []TypeOK
  BY InitType, NextType, PTL DEF Spec

-----------------------------------------------------------------------------
(***************************************************************************)
(* A settled leader stays, when heartbeats are in time.                    *)
(***************************************************************************)
LongLived == Ttl >= 2

\* A step that ends in time has begun in time: it is neither a call that raises
\* nor the end of a period that was cut short.
LEMMA InTimeBefore ==
  ASSUME TypeOK, [Next]_vars, InTime'
  PROVE  /\ InTime
         /\ ~(\E n \in Nodes, p \in Tasks : Raise(n, p))
         /\ Tick => Timely
<1>1. errors \in Nat /\ delays \in Nat
  BY ElectionAssumption DEF TypeOK
<1>2. ASSUME NEW n \in Nodes, NEW p \in Tasks, Raise(n, p) PROVE FALSE
  BY <1>1, <1>2 DEF Raise, InTime
<1>3. ASSUME Tick PROVE InTime /\ Timely
  BY <1>1, <1>3 DEF Tick, InTime
<1>4. ASSUME NEW n \in Nodes, Beat(n) \/ Health(n) \/ Crash(n) \/ Restart(n) PROVE InTime
  BY <1>4 DEF Beat, Health, Crash, Restart, InTime, counts
<1>5. ASSUME NEW n \in Nodes, NEW p \in Tasks, Step(n, p) PROVE InTime
  <2>1. UNCHANGED counts
    BY <1>5 DEF Step, Register, Refresh, GetLeader, Renew, StepDown, Follow, Campaign,
                Poll, Claim, Polled, PutElection, PutLeader, Won
  <2> QED BY <2>1 DEF InTime, counts
<1>6. CASE UNCHANGED vars
  BY <1>2, <1>3, <1>6 DEF InTime, vars, counts
<1> QED BY <1>2, <1>3, <1>4, <1>5, <1>6 DEF Next

\* What one task step of replica n changes.
LEMMA OthersKeep ==
  ASSUME TypeOK, NEW n \in Nodes, NEW p \in Tasks, Step(n, p),
         NEW m \in Nodes, NEW q \in Tasks, <<m, q>> # <<n, p>>
  PROVE  proc'[<<m, q>>] = proc[<<m, q>>]
  BY DEF TypeOK, Step, Register, Refresh, GetLeader, Renew, StepDown, Follow, Campaign,
         Poll, Claim, Polled, PutElection, PutLeader, Won, GoTo, Read, Finish

\* What a task is doing after a step of its own.
LEMMA ProcAfter ==
  ASSUME TypeOK, NEW n \in Nodes, NEW p \in Tasks
  PROVE  /\ \A s : GoTo(n, p, s) => proc'[<<n, p>>].at = s
         /\ \A s, v : Read(n, p, v, s) => proc'[<<n, p>>] = [at |-> s, seen |-> v]
         /\ Finish(n, p) =>
              /\ proc'[<<n, p>>].at \in {"idle", "join", "refresh"}
              /\ mode[n] # "booting" /\ p = "beat" => proc'[<<n, p>>].at = "idle"
  BY DEF TypeOK, GoTo, Read, Finish

\* A step of replica n leaves the invariant of the other replicas alone.
LEMMA OthersPunctual ==
  ASSUME TypeOK, NEW n \in Nodes, NEW p \in Tasks, Step(n, p),
         NEW m \in Nodes, m # n, Punctual(m)
  PROVE  Punctual(m)'
<1>1. \A q \in Tasks : proc'[<<m, q>>] = proc[<<m, q>>]
  BY OthersKeep
<1>2. mode'[m] = mode[m] /\ leader'[m] = leader[m] /\ member'[m] = member[m]
  BY DEF TypeOK, Step, Register, Refresh, GetLeader, Renew, StepDown, Follow, Campaign,
         Poll, Claim, Polled, PutElection, PutLeader, Won, Finish, keys
<1>3. /\ election' = election \/ election'.owner = n
      /\ leaderKey' = leaderKey \/ leaderKey'.owner = n
  BY DEF Step, Register, Refresh, GetLeader, Renew, StepDown, Follow, Campaign,
         Poll, Claim, Polled, PutElection, PutLeader, Won, keys, Held
<1>4. Fresh(leaderKey, m) => Fresh(leaderKey, m)'
  BY <1>3 DEF Fresh
<1>5. Fresh(election, m) => Fresh(election, m)'
  BY <1>3 DEF Fresh
<1>6. leaderKey'.owner = m /\ election'.owner = m => leaderKey'.ttl <= election'.ttl
  BY <1>3 DEF Punctual, PunctualReplica
<1>7. ASSUME NEW q \in Tasks PROVE PunctualTask(m, q)'
  BY <1>1, <1>2, <1>4, <1>5 DEF Punctual, PunctualTask, At, Campaigning
<1>8. "beat" \in Tasks /\ "health" \in Tasks
  BY DEF Tasks
<1>9. PunctualReplica(m)'
  BY <1>1, <1>2, <1>4, <1>6, <1>8 DEF Punctual, PunctualReplica, At
<1> QED BY <1>7, <1>9 DEF Punctual

\* What the invariant says of replica n is not spoilt by its own steps.
LEMMA OwnPunctual ==
  ASSUME TypeOK, NEW n \in Nodes, NEW p \in Tasks, Step(n, p), Punctual(n)
  PROVE  Punctual(n)'
<1> USE DEF Tasks
<1>1. \A q \in Tasks \ {p} : proc'[<<n, q>>] = proc[<<n, q>>]
  BY OthersKeep
<1>2. proc[<<n, p>>].at # "idle"
  BY DEF Step, Register, Refresh, GetLeader, Renew, StepDown, Follow, Campaign,
         Poll, Claim, Polled, PutElection, PutLeader, Won, At
<1>3. /\ mode[n] # "down"
      /\ p = "health" => mode[n] # "booting"
      /\ p = "beat" => mode[n] # "due"
  BY <1>2 DEF Punctual, PunctualReplica, At
<1>4. /\ UNCHANGED leaderKey \/ leaderKey' = Held(n)
      /\ UNCHANGED election \/ election' = Held(n)
  BY DEF Step, Register, Refresh, GetLeader, Renew, StepDown, Follow, Campaign,
         Poll, Claim, Polled, PutElection, PutLeader, Won, keys
<1>5. /\ Fresh(leaderKey, n) => Fresh(leaderKey, n)'
      /\ Fresh(election, n) => Fresh(election, n)'
  BY <1>4 DEF Fresh, Held
<1>6. \/ mode'[n] = mode[n]
      \/ mode[n] = "booting" /\ mode'[n] = "due" /\ proc'[<<n, p>>].at = "idle"
  <2>1. mode' = mode \/ Refresh(n, p)
    BY DEF Step, Register, Refresh, GetLeader, Renew, StepDown, Follow, Campaign,
           Poll, Claim, Polled, PutElection, PutLeader, Won
  <2> QED BY <2>1, ProcAfter DEF Refresh, TypeOK
<1>0. /\ \A s : GoTo(n, p, s) => proc'[<<n, p>>].at = s
      /\ \A s, v : Read(n, p, v, s) => proc'[<<n, p>>] = [at |-> s, seen |-> v]
      /\ Finish(n, p) =>
           /\ proc'[<<n, p>>].at \in {"idle", "join", "refresh"}
           /\ mode[n] # "booting" /\ p = "beat" => proc'[<<n, p>>].at = "idle"
  BY ProcAfter
<1>7. ASSUME NEW q \in Tasks \ {p} PROVE PunctualTask(n, q)'
  <2>1. mode[n] = "booting" => proc[<<n, q>>].at = "idle"
    BY <1>3 DEF Punctual, PunctualReplica, At
  <2> QED BY <1>1, <1>5, <1>6, <2>1 DEF Punctual, PunctualTask, At, Campaigning
<1>8. PunctualTask(n, p)'
  <2>1. CASE Register(n, p) \/ Refresh(n, p)
    <3>1. proc'[<<n, p>>].at \in {"get", "refresh", "idle"}
      BY <2>1, <1>0 DEF Register, Refresh
    <3> QED BY <3>1 DEF PunctualTask, At, Campaigning
  <2>2. CASE GetLeader(n, p)
    <3>1. proc'[<<n, p>>] = [at |-> "decide", seen |-> leaderKey.owner]
      BY <2>2, <1>0 DEF GetLeader
    <3>2. leaderKey' = leaderKey
      BY <2>2 DEF GetLeader, keys
    <3> QED BY <3>1, <3>2 DEF PunctualTask, At, Campaigning, Fresh
  <2>3. CASE Renew(n, p)
    <3>1. proc'[<<n, p>>].at = "renewElection"
      BY <2>3, <1>0 DEF Renew
    <3> QED BY <3>1 DEF PunctualTask, At, Campaigning
  <2>4. CASE Campaign(n, p)
    <3>1. proc'[<<n, p>>].at = "poll"
      BY <2>4, <1>0 DEF Campaign
    <3>2. Fresh(leaderKey, n)
      BY <2>4, ElectionAssumption DEF Campaign, Punctual, PunctualTask
    <3> QED BY <1>5, <3>1, <3>2 DEF PunctualTask, At
  <2>5. CASE Poll(n, p) \/ Claim(n, p)
    <3>1. \/ At(n, p, "poll") /\ proc'[<<n, p>>].at = "polled"
          \/ At(n, p, "polled") /\ proc'[<<n, p>>].at = "claimElection"
      <4>1. CASE Poll(n, p)
        <5>1. proc'[<<n, p>>] = [at |-> "polled", seen |-> election.owner]
          BY <1>0, <4>1 DEF Poll
        <5> QED BY <4>1, <5>1 DEF Poll
      <4>2. CASE Claim(n, p)
        BY <1>0, <4>2 DEF Claim
      <4> QED BY <2>5, <4>1, <4>2
    <3>2. mode' = mode
      BY <2>5 DEF Poll, Claim
    <3> QED BY <1>5, <3>1, <3>2 DEF Punctual, PunctualTask, At, Campaigning
  <2>6. CASE PutElection(n, p)
    <3>1. \/ At(n, p, "renewElection") /\ proc'[<<n, p>>].at = "renewLeader"
          \/ At(n, p, "claimElection") /\ proc'[<<n, p>>].at = "claimLeader"
      BY <2>6, <1>0 DEF PutElection
    <3>2. mode' = mode /\ election' = Held(n)
      BY <2>6 DEF PutElection
    <3>3. Fresh(election, n)'
      BY <3>2 DEF Fresh, Held
    <3> QED BY <1>5, <3>1, <3>2, <3>3 DEF Punctual, PunctualTask, At, Campaigning
  <2>7. CASE PutLeader(n, p)
    <3>1. proc'[<<n, p>>].at \in {"idle", "join", "refresh", "won"}
      BY <2>7, <1>0 DEF PutLeader
    <3>2. Fresh(leaderKey, n)'
      BY <2>7 DEF PutLeader, Fresh, Held
    <3> QED BY <3>1, <3>2 DEF PunctualTask, At
  <2>8. CASE StepDown(n, p) \/ Follow(n, p) \/ Polled(n, p) \/ Won(n, p)
    <3>1. proc'[<<n, p>>].at \in {"idle", "join", "refresh"}
      BY <2>8, <1>0 DEF StepDown, Follow, Polled, Won
    <3> QED BY <3>1 DEF PunctualTask, At, Campaigning
  <2> QED BY <2>1, <2>2, <2>3, <2>4, <2>5, <2>6, <2>7, <2>8 DEF Step
<1>9. leaderKey'.owner = n /\ election'.owner = n => leaderKey'.ttl <= election'.ttl
  <2>1. \/ leaderKey' = leaderKey /\ election' = election
        \/ PutElection(n, p) \/ PutLeader(n, p)
    BY DEF Step, Register, Refresh, GetLeader, Renew, StepDown, Follow, Campaign,
           Poll, Claim, Polled, Won, keys
  <2>2. leaderKey.owner = n => leaderKey.ttl \in 1..Ttl
    BY ElectionAssumption DEF TypeOK, Lease
  <2>3. CASE PutElection(n, p)
    BY <2>2, <2>3, ElectionAssumption DEF PutElection, Held
  <2>4. CASE PutLeader(n, p)
    <3>1. Fresh(election, n)
      BY <2>4 DEF PutLeader, Punctual, PunctualTask, At
    <3> QED BY <2>4, <3>1, ElectionAssumption DEF PutLeader, Held, Fresh
  <2> QED BY <2>1, <2>3, <2>4 DEF Punctual, PunctualReplica
<1>10. mode'[n] \in {"down", "booting"} => At(n, "health", "idle")'
  BY <1>1, <1>3, <1>6 DEF Punctual, PunctualReplica, At
<1>11. mode'[n] \in {"down", "due"} => At(n, "beat", "idle")'
  BY <1>1, <1>3, <1>6 DEF Punctual, PunctualReplica, At
<1>12. mode'[n] = "beaten" => member'[n] = Ttl \/ At(n, "beat", "register")'
  <2>1. member'[n] = Ttl \/ (member' = member /\ proc[<<n, p>>].at # "register")
    BY DEF TypeOK, Step, Register, Refresh, GetLeader, Renew, StepDown, Follow, Campaign,
           Poll, Claim, Polled, PutElection, PutLeader, Won, keys, At
  <2> QED BY <1>1, <1>6, <2>1 DEF Punctual, PunctualReplica, At
<1>13. mode'[n] = "beaten" /\ At(n, "beat", "idle")' /\ leader'[n] => Fresh(leaderKey, n)'
  <2> SUFFICES ASSUME mode'[n] = "beaten", At(n, "beat", "idle")', leader'[n]
               PROVE  Fresh(leaderKey, n)'
    OBVIOUS
  <2>1. mode[n] = "beaten"
    BY <1>6
  <2>2. CASE PutLeader(n, p)
    BY <2>2 DEF PutLeader, Fresh, Held
  <2>3. CASE Polled(n, p) \/ Won(n, p)
    BY <1>5, <2>1, <2>3 DEF Polled, Won, Punctual, PunctualTask, At, Campaigning
  <2>4. CASE StepDown(n, p)
    BY <2>4 DEF StepDown, TypeOK
  <2>5. CASE Follow(n, p)
    BY <2>5 DEF Follow
  <2>6. CASE Refresh(n, p)
    <3>1. p = "health"
      BY <2>1, <2>6 DEF Refresh, Punctual, PunctualReplica, At
    <3> QED BY <1>1, <1>5, <2>1, <2>6, <3>1 DEF Refresh, Punctual, PunctualReplica, At
  <2>7. CASE ~(PutLeader(n, p) \/ Polled(n, p) \/ Won(n, p) \/ StepDown(n, p) \/ Follow(n, p)
                 \/ Refresh(n, p))
    <3>1. proc'[<<n, p>>].at # "idle"
      <4>1. CASE GetLeader(n, p) \/ Poll(n, p)
        <5>1. \E s \in {"decide", "polled"} : \E v : proc'[<<n, p>>] = [at |-> s, seen |-> v]
          BY <1>0, <4>1 DEF GetLeader, Poll
        <5> QED BY <5>1
      <4>2. CASE Register(n, p) \/ Renew(n, p) \/ Campaign(n, p) \/ Claim(n, p)
        BY <1>0, <4>2 DEF Register, Renew, Campaign, Claim
      <4>3. CASE PutElection(n, p)
        BY <1>0, <4>3 DEF PutElection
      <4> QED BY <2>7, <4>1, <4>2, <4>3 DEF Step
    <3>2. leader' = leader
      BY <2>7 DEF Step, Register, Refresh, GetLeader, Renew, Campaign, Poll, Claim, PutElection
    <3>3. p = "health" /\ At(n, "beat", "idle")
      BY <1>1, <3>1 DEF At
    <3> QED BY <1>5, <2>1, <3>2, <3>3 DEF Punctual, PunctualReplica
  <2> QED BY <2>2, <2>3, <2>4, <2>5, <2>6, <2>7
<1>14. mode'[n] # "booting" => proc'[<<n, "beat">>].at \notin {"join", "refresh"}
  <2> SUFFICES ASSUME p = "beat", mode'[n] # "booting"
               PROVE  proc'[<<n, "beat">>].at \notin {"join", "refresh"}
    BY <1>1, <1>3, <1>6 DEF Punctual, PunctualReplica
  <2>1. CASE mode[n] = "booting"
    BY <1>6, <2>1
  <2>2. CASE mode[n] # "booting"
    <3>1. CASE Finish(n, p)
      BY <1>0, <2>2, <3>1
    <3>2. CASE Register(n, p)
      BY <1>0, <2>2, <3>2 DEF Register, Punctual, PunctualReplica, At
    <3>3. CASE GetLeader(n, p) \/ Poll(n, p)
      <4>1. CASE GetLeader(n, p)
        <5>1. proc'[<<n, p>>] = [at |-> "decide", seen |-> leaderKey.owner]
          BY <1>0, <4>1 DEF GetLeader
        <5> QED BY <5>1
      <4>2. CASE Poll(n, p)
        <5>1. proc'[<<n, p>>] = [at |-> "polled", seen |-> election.owner]
          BY <1>0, <4>2 DEF Poll
        <5> QED BY <5>1
      <4> QED BY <3>3, <4>1, <4>2
    <3>4. CASE Refresh(n, p)
      BY <1>0, <3>4 DEF Refresh
    <3>5. CASE \/ Renew(n, p) \/ Campaign(n, p) \/ Claim(n, p)
               \/ PutElection(n, p) \/ PutLeader(n, p)
      BY <1>0, <3>1, <3>5 DEF Renew, Campaign, Claim, PutElection, PutLeader
    <3> QED BY <3>1, <3>2, <3>3, <3>4, <3>5 DEF Step, StepDown, Follow, Polled, Won
  <2> QED BY <2>1, <2>2
<1>15. mode'[n] # "stuck"
  BY <1>6 DEF Punctual, PunctualReplica
<1>16. PunctualReplica(n)'
  BY <1>9, <1>10, <1>11, <1>12, <1>13, <1>14, <1>15 DEF PunctualReplica, At
<1> QED BY <1>7, <1>8, <1>16 DEF Punctual

\* A coordinator that starts has an empty past.
LEMMA InitPunctual == Init => TimelyInv
  BY DEF Init, TimelyInv, InTime, Punctual, PunctualReplica, PunctualTask, Fresh, NoLease,
         At, Idle, Tasks, Campaigning

\* The invariant is kept as long as no call raises and no period is cut short.
LEMMA NextPunctual ==
  ASSUME TypeOK, TimelyInv, [Next]_vars
  PROVE  TimelyInv'
<1> SUFFICES ASSUME InTime' PROVE \A n \in Nodes : Punctual(n)'
  BY DEF TimelyInv
<1>0. \A n \in Nodes : Punctual(n)
  BY InTimeBefore DEF TimelyInv
<1>1. CASE \E n \in Nodes, p \in Tasks : Step(n, p)
  <2>1. PICK n \in Nodes, p \in Tasks : Step(n, p)
    BY <1>1
  <2>2. \A m \in Nodes : Punctual(m)'
    BY <1>0, <2>1, OwnPunctual, OthersPunctual
  <2> QED BY <2>2
<1>2. SUFFICES ASSUME NEW m \in Nodes, ~(\E n \in Nodes, p \in Tasks : Step(n, p))
               PROVE  Punctual(m)'
  BY <1>1
<1>3. Punctual(m)
  BY <1>0
<1>4. ~(\E n \in Nodes, p \in Tasks : Raise(n, p))
  BY InTimeBefore
<1>5. CASE \E n \in Nodes : Beat(n)
  <2>1. PICK n \in Nodes : Beat(n)
    BY <1>5
  <2>2. CASE n # m
    <3>1. mode'[m] = mode[m] /\ \A q \in Tasks : proc'[<<m, q>>] = proc[<<m, q>>]
      BY <2>1, <2>2 DEF Beat, GoTo, TypeOK
    <3> QED BY <1>3, <2>1, <3>1
            DEF Beat, keys, counts, Punctual, PunctualReplica, PunctualTask, Fresh,
                At, Tasks, Campaigning
  <2>3. CASE n = m
    <3>1. /\ mode'[m] = "beaten" /\ proc'[<<m, "beat">>].at = "register"
          /\ proc'[<<m, "health">>] = proc[<<m, "health">>]
          /\ mode[m] = "due"
      BY <2>1, <2>3 DEF Beat, GoTo, TypeOK, Tasks
    <3> QED BY <1>3, <2>1, <3>1
            DEF Beat, keys, counts, Punctual, PunctualReplica, PunctualTask, Fresh,
                At, Tasks, Campaigning
  <2> QED BY <2>2, <2>3
<1>6. CASE \E n \in Nodes : Health(n)
  <2>1. PICK n \in Nodes : Health(n)
    BY <1>6
  <2>2. CASE n # m
    <3>1. \A q \in Tasks : proc'[<<m, q>>] = proc[<<m, q>>]
      BY <2>1, <2>2 DEF Health, GoTo, TypeOK
    <3> QED BY <1>3, <2>1, <3>1
            DEF Health, keys, Punctual, PunctualReplica, PunctualTask, Fresh,
                At, Tasks, Campaigning
  <2>3. CASE n = m
    <3>1. /\ proc'[<<m, "health">>].at = "get"
          /\ proc'[<<m, "beat">>] = proc[<<m, "beat">>]
          /\ mode[m] \in Serving
      BY <2>1, <2>3 DEF Health, GoTo, TypeOK, Tasks
    <3> QED BY <1>3, <2>1, <3>1
            DEF Health, keys, Punctual, PunctualReplica, PunctualTask, Fresh,
                At, Tasks, Campaigning, Serving
  <2> QED BY <2>2, <2>3
<1>7. CASE \E n \in Nodes : Crash(n)
  <2>1. PICK n \in Nodes : Crash(n)
    BY <1>7
  <2>2. CASE n # m
    <3>1. /\ mode'[m] = mode[m] /\ leader'[m] = leader[m]
          /\ \A q \in Tasks : proc'[<<m, q>>] = proc[<<m, q>>]
      BY <2>1, <2>2 DEF Crash, Down, TypeOK
    <3> QED BY <1>3, <2>1, <3>1
            DEF Crash, keys, Punctual, PunctualReplica, PunctualTask, Fresh,
                At, Tasks, Campaigning
  <2>3. CASE n = m
    <3>1. mode'[m] = "down" /\ \A q \in Tasks : proc'[<<m, q>>] = Idle
      BY <2>1, <2>3 DEF Crash, Down, TypeOK
    <3> QED BY <1>3, <2>1, <3>1
            DEF Crash, keys, Punctual, PunctualReplica, PunctualTask,
                At, Tasks, Campaigning, Idle
  <2> QED BY <2>2, <2>3
<1>8. CASE \E n \in Nodes : Restart(n)
  <2>1. PICK n \in Nodes : Restart(n)
    BY <1>8
  <2>2. CASE n # m
    <3>1. mode'[m] = mode[m] /\ \A q \in Tasks : proc'[<<m, q>>] = proc[<<m, q>>]
      BY <2>1, <2>2 DEF Restart, GoTo, TypeOK
    <3> QED BY <1>3, <2>1, <3>1
            DEF Restart, keys, counts, Punctual, PunctualReplica, PunctualTask, Fresh,
                At, Tasks, Campaigning
  <2>3. CASE n = m
    <3>1. /\ mode'[m] = "booting" /\ proc'[<<m, "beat">>].at = "poll"
          /\ proc'[<<m, "health">>] = proc[<<m, "health">>]
          /\ mode[m] = "down"
      BY <2>1, <2>3 DEF Restart, GoTo, TypeOK, Tasks
    <3> QED BY <1>3, <2>1, <3>1
            DEF Restart, keys, counts, Punctual, PunctualReplica, PunctualTask, Fresh,
                At, Tasks, Campaigning
  <2> QED BY <2>2, <2>3
<1>9. CASE Tick
  <2>1. Timely /\ proc' = proc
    BY <1>9, InTimeBefore DEF Tick
  <2>2. \A q \in Tasks : proc'[<<m, q>>].at = "idle"
    BY <2>1 DEF Timely, At
  <2>3. mode'[m] \notin {"booting", "beaten", "stuck"}
    BY <1>3, <1>9, <2>1 DEF Tick, Timely, TypeOK, Punctual, PunctualReplica
  <2>4. leaderKey'.owner = m /\ election'.owner = m => leaderKey'.ttl <= election'.ttl
    <3>1. SUFFICES ASSUME leaderKey'.owner = m, election'.owner = m
                   PROVE  leaderKey'.ttl <= election'.ttl
      OBVIOUS
    <3>2. /\ leaderKey'.owner = leaderKey.owner /\ leaderKey'.ttl = leaderKey.ttl - 1
          /\ election'.owner = election.owner /\ election'.ttl = election.ttl - 1
      BY <1>9, <3>1, AgedValue DEF Tick, TypeOK
    <3>3. leaderKey.ttl <= election.ttl
      BY <1>3, <3>1, <3>2 DEF Punctual, PunctualReplica
    <3>4. leaderKey.ttl \in Int /\ election.ttl \in Int
      BY DEF TypeOK, Lease
    <3> QED BY <3>2, <3>3, <3>4
  <2> QED BY <2>2, <2>3, <2>4
          DEF Punctual, PunctualReplica, PunctualTask, At, Tasks, Campaigning
<1>10. CASE UNCHANGED vars
  BY <1>3, <1>10 DEF vars, keys, replicas, counts, Punctual, PunctualReplica,
                     PunctualTask, Fresh, At, Tasks, Campaigning
<1> QED BY <1>2, <1>4, <1>5, <1>6, <1>7, <1>8, <1>9, <1>10 DEF Next

\* The invariant behind the next theorem.
THEOREM TimelyInvariant == Spec => [](TypeOK /\ TimelyInv)
<1>1. Init => TypeOK /\ TimelyInv
  BY InitType, InitPunctual
<1>2. TypeOK /\ TimelyInv /\ [Next]_vars => (TypeOK /\ TimelyInv)'
  BY NextType, NextPunctual
<1> QED BY <1>1, <1>2, PTL DEF Spec

\* One step of a system with a settled leader leaves it the leader.
LEMMA LeaderStep ==
  ASSUME LongLived, TypeOK, TimelyInv, [Next]_vars, InTime', NEW n \in Nodes,
         Leads(n), NoRival(n), mode'[n] # "down"
  PROVE  Leads(n)'
<1>1. n # None
  BY ElectionAssumption
<1>2. /\ ~(\E m \in Nodes, p \in Tasks : Raise(m, p))
      /\ \A m \in Nodes : Punctual(m)
  BY InTimeBefore DEF TimelyInv
<1>0. \A m \in Nodes \ {n} : ~leader[m]
  BY <1>2 DEF Leads, Punctual, PunctualReplica
<1>3. ASSUME NEW m \in Nodes, NEW p \in Tasks, Step(m, p) PROVE Leads(n)'
  <2>1. /\ proc[<<m, p>>].at \in {"decide", "polled"} => proc[<<m, p>>].seen = n
        /\ m # n => proc[<<m, p>>].at \in
                      {"idle", "register", "get", "decide", "poll", "polled", "join", "refresh"}
    BY DEF NoRival
  <2>2. mode[n] \in {"due", "beaten"} /\ mode'[n] = mode[n]
    BY <1>3 DEF Leads, TypeOK, Step, Register, Refresh, GetLeader, Renew, StepDown, Follow,
                Campaign, Poll, Claim, Polled, PutElection, PutLeader, Won, Finish
  <2>3. leader'[n] /\ \A k \in Nodes \ {n} : ~leader'[k]
    BY <1>0, <1>3, <2>1 DEF Leads, TypeOK, Step, Register, Refresh, GetLeader, Renew, StepDown,
                      Follow, Campaign, Poll, Claim, Polled, PutElection, PutLeader,
                      Won, At
  <2>4. election'.owner = n /\ leaderKey'.owner = n
    BY <1>3, <2>1 DEF Leads, Step, Register, Refresh, GetLeader, Renew, StepDown, Follow,
                      Campaign, Poll, Claim, Polled, PutElection, PutLeader, Won,
                      At, keys, Held
  <2>5. member'[n] > 0
    BY <1>3, ElectionAssumption
    DEF Leads, TypeOK, Step, Register, Refresh, GetLeader, Renew, StepDown, Follow, Campaign,
        Poll, Claim, Polled, PutElection, PutLeader, Won, keys
  <2> QED BY <2>2, <2>3, <2>4, <2>5 DEF Leads
<1>4. ASSUME NEW m \in Nodes, Beat(m) \/ Health(m) \/ Restart(m) PROVE Leads(n)'
  <2>1. mode'[n] \in {"due", "beaten"}
    BY <1>4 DEF Beat, Health, Restart, Leads, TypeOK
  <2> QED BY <1>0, <1>4, <2>1 DEF Beat, Health, Restart, Leads, keys
<1>5. ASSUME NEW m \in Nodes, Crash(m) PROVE Leads(n)'
  <2>1. m # n
    BY <1>5 DEF Crash, Down, TypeOK
  <2> QED BY <1>0, <1>5, <2>1 DEF Crash, Down, Leads, TypeOK, keys
<1>6. ASSUME Tick PROVE Leads(n)'
  <2>1. Timely /\ proc' = proc
    BY <1>6, InTimeBefore DEF Tick
  <2>2. mode[n] = "beaten" /\ At(n, "beat", "idle")
    BY <2>1 DEF Leads, Timely, Tasks
  <2>3. PunctualReplica(n)
    BY <1>2 DEF Punctual
  <2>4. member[n] = Ttl
    BY <2>2, <2>3 DEF PunctualReplica, At
  <2>5. leaderKey.ttl = Ttl /\ leaderKey.ttl <= election.ttl
    BY <2>2, <2>3 DEF PunctualReplica, Fresh, Leads
  <2>6. election.ttl \in Int /\ leaderKey.ttl \in Int
    BY DEF TypeOK, Lease
  <2>7. ~(election.ttl <= 1) /\ ~(leaderKey.ttl <= 1)
    BY <2>5, <2>6, ElectionAssumption DEF LongLived
  <2>8. election'.owner = n /\ leaderKey'.owner = n
    BY <1>6, <2>7 DEF Tick, Aged, Leads, TypeOK, Lease
  <2>9. member'[n] > 0
    BY <1>6, <2>4, ElectionAssumption DEF Tick, LongLived
  <2>10. mode'[n] = "due" /\ leader' = leader
    BY <1>6, <2>2 DEF Tick, TypeOK
  <2> QED BY <1>0, <2>8, <2>9, <2>10 DEF Leads
<1>7. CASE UNCHANGED vars
  BY <1>7 DEF vars, keys, replicas, Leads
<1> QED BY <1>2, <1>3, <1>4, <1>5, <1>6, <1>7 DEF Next

\* When keys live for two heartbeats or more, a settled leader is never displaced
\* as long as no etcd call has raised and no heartbeat was late, whatever replicas
\* crash, restart or answer /health.
THEOREM SettledLeaderStays ==
  ASSUME LongLived
  PROVE  Spec => LeaderStays
<1>1. TypeOK /\ TimelyInv /\ [Next]_vars
        => [\A n \in Nodes :
              InTime' /\ Leads(n) /\ NoRival(n) /\ mode'[n] # "down" => Leads(n)']_vars
  BY LongLived, LeaderStep
<1> QED BY <1>1, TimelyInvariant, PTL DEF Spec, LeaderStays

=============================================================================
