---------------------------- MODULE HashRingProofs ----------------------------
(***************************************************************************)
(* Theorems about the ring, for every number of readers and virtual nodes  *)
(* and every hash function, also one with collisions.                      *)
(***************************************************************************)
EXTENDS HashRing, WellFoundedInduction, TLAPS

\* A pair of a ring is of one of its readers, and has a natural number as token.
LEMMA PairTypes ==
  ASSUME NEW readers \in SUBSET Readers
  PROVE  \A p \in Ring(readers) : /\ p.node \in readers
                                  /\ p.token \in Nat /\ p.node \in Nat
                                  /\ \A nodes : p.node \in nodes => p \in Ring(nodes)
<1> SUFFICES ASSUME NEW p \in Ring(readers)
             PROVE  /\ p.node \in readers
                    /\ p.token \in Nat /\ p.node \in Nat
                    /\ \A nodes : p.node \in nodes => p \in Ring(nodes)
  OBVIOUS
<1>1. PICK v \in readers \X Replicas : p = [token |-> token[v], node |-> v[1]]
  BY DEF Ring
<1>2. v[1] \in readers /\ v[2] \in Replicas /\ v = <<v[1], v[2]>> /\ v \in Readers \X Replicas
  OBVIOUS
<1>3. token[v] \in Nat /\ v[1] \in Nat
  BY <1>2, RingAssumption
<1>4. ASSUME NEW nodes, v[1] \in nodes PROVE p \in Ring(nodes)
  BY <1>1, <1>2, <1>4 DEF Ring
<1> QED
  BY <1>1, <1>2, <1>3, <1>4

\* No key has two owners.
LEMMA OneOwner ==
  ASSUME NEW readers \in SUBSET Readers, NEW key \in Tokens, NEW n, NEW m,
         Owns(Ring(readers), n, key), Owns(Ring(readers), m, key)
  PROVE  n = m
<1> DEFINE S == Successors(Ring(readers), key)
<1>1. PICK p \in S : p.node = n /\ \A q \in S : Ahead(p, q)
  BY DEF Owns
<1>2. PICK q \in S : q.node = m /\ \A s \in S : Ahead(q, s)
  BY DEF Owns
<1>3. Ahead(p, q) /\ Ahead(q, p)
  BY <1>1, <1>2
<1>4. p \in Ring(readers) /\ q \in Ring(readers)
  BY DEF Successors
<1> QED
  BY <1>1, <1>2, <1>3, <1>4, PairTypes DEF Ahead

\* The promise of consistent hashing: of the rings of any two lists of readers, in
\* succession or at two replicas, two readers that are in both lists never own the
\* same key, one in each (_rebuild_ring, get_node).
THEOREM KeysMoveOnlyWithTheirReaders ==
  ASSUME NEW readers \in SUBSET Readers, NEW others \in SUBSET Readers, NEW key \in Tokens,
         NEW n \in readers \cap others, NEW m \in readers \cap others,
         Owns(Ring(readers), n, key), Owns(Ring(others), m, key)
  PROVE  n = m
<1> DEFINE R == Ring(readers)
           O == Ring(others)
<1>1. PICK p \in Successors(R, key) : p.node = n /\ \A s \in Successors(R, key) : Ahead(p, s)
  BY DEF Owns
<1>2. PICK q \in Successors(O, key) : q.node = m /\ \A s \in Successors(O, key) : Ahead(q, s)
  BY DEF Owns
<1>3. p \in R /\ q \in O
  BY DEF Successors
<1>4. p \in O /\ q \in R
  BY <1>1, <1>2, <1>3, PairTypes
<1>5. /\ p.token \in Nat /\ p.node \in Nat
      /\ q.token \in Nat /\ q.node \in Nat /\ key \in Nat
  BY <1>3, <1>4, PairTypes, RingAssumption
<1> HIDE DEF R, O
<1>6. p \in Successors(O, key) /\ q \in Successors(R, key)
  <2>1. CASE key <= p.token
    <3>1. key <= q.token
      BY <2>1, <1>2, <1>3, <1>4 DEF Successors
    <3> QED
      BY <2>1, <3>1, <1>3, <1>4 DEF Successors
  <2>2. CASE ~(key <= p.token)
    <3>1. \A s \in R : ~(key <= s.token)
      BY <2>2, <1>1 DEF Successors
    <3>2. ~(key <= q.token)
      BY <3>1, <1>4
    <3>3. \A s \in O : ~(key <= s.token)
      BY <3>2, <1>2 DEF Successors
    <3> QED
      BY <3>1, <3>3, <1>3, <1>4 DEF Successors
  <2> QED
    BY <2>1, <2>2
<1>7. Ahead(p, q) /\ Ahead(q, p)
  BY <1>1, <1>2, <1>6
<1> QED
  BY <1>1, <1>2, <1>5, <1>7 DEF Ahead

-----------------------------------------------------------------------------
\* A set of numbers that is not empty has a least one.
LEMMA LeastNumber ==
  ASSUME NEW T, T \subseteq Nat, T # {}
  PROVE  \E m \in T : \A n \in T : m <= n
<1>1. \E R : IsWellFoundedOn(R, Nat) /\ \A m, n \in Nat : m < n => <<m, n>> \in R
  <2> DEFINE Less == {p \in Nat \X Nat : p[1] < p[2]}
  <2>1. OpToRel(<, Nat) = Less
    BY Zenon DEF OpToRel
  <2>2. IsWellFoundedOn(Less, Nat)
    BY <2>1, NatLessThanWellFounded, Zenon
  <2>3. \A m, n \in Nat : m < n => <<m, n>> \in Less
    OBVIOUS
  <2> HIDE DEF Less
  <2> QED
    BY <2>2, <2>3
<1>2. PICK R : IsWellFoundedOn(R, Nat) /\ \A m, n \in Nat : m < n => <<m, n>> \in R
  BY <1>1
<1>3. \E m \in T : \A n \in T : ~(<<n, m>> \in R)
  <2>1. IsWellFoundedOn(R, Nat)
    BY <1>2
  <2> QED
    BY <2>1, WFMin
<1>4. PICK m \in T : \A n \in T : ~(<<n, m>> \in R)
  BY <1>3
<1>5. \A n \in T : ~(n < m)
  BY <1>2, <1>4
<1>6. \A n \in T : m <= n
  BY <1>5
<1> QED
  BY <1>6

\* Some pair comes first: of those with the least token, the one of the least node.
LEMMA FirstPair ==
  ASSUME NEW S, S # {}, \A p \in S : p.token \in Nat /\ p.node \in Nat
  PROVE  \E p \in S : \A q \in S : Ahead(p, q)
<1> DEFINE tokens == {p.token : p \in S}
<1>1. PICK t \in tokens : \A u \in tokens : t <= u
  BY LeastNumber
<1> DEFINE lowest == {p \in S : p.token = t}
           numbers == {p.node : p \in lowest}
<1>2. numbers \subseteq Nat /\ numbers # {}
  BY <1>1
<1>3. PICK n \in numbers : \A m \in numbers : n <= m
  <2> HIDE DEF numbers
  <2> QED
    BY <1>2, LeastNumber
<1>4. PICK p \in lowest : p.node = n
  OBVIOUS
<1>5. ASSUME NEW q \in S
      PROVE  Ahead(p, q)
  <2>1. p.token = t /\ t <= q.token /\ t \in Nat /\ q.token \in Nat
    BY <1>1
  <2>2. q.token = t => p.node <= q.node
    BY <1>3, <1>4
  <2> QED
    BY <2>1, <2>2 DEF Ahead
<1> QED
  BY <1>5

\* With a reader there are pairs, and for every key some to choose from.
LEMMA SuccessorsExist ==
  ASSUME NEW readers \in SUBSET Readers, readers # {}, NEW key \in Tokens
  PROVE  /\ Successors(Ring(readers), key) # {}
         /\ Successors(Ring(readers), key) \subseteq Ring(readers)
<1>1. PICK n \in readers, r \in Replicas : TRUE
  BY RingAssumption
<1>2. [token |-> token[<<n, r>>], node |-> n] \in Ring(readers)
  BY RingAssumption DEF Ring
<1> QED
  BY <1>2 DEF Successors

\* Every key has exactly one owner.
LEMMA KeyIsOwned ==
  ASSUME NEW readers \in SUBSET Readers, readers # {}, NEW key \in Tokens
  PROVE  \E n \in readers : RouteSearch(readers, key) = {n}
<1> DEFINE S == Successors(Ring(readers), key)
<1>1. PICK p \in S : \A q \in S : Ahead(p, q)
  <2>1. S # {} /\ \A p \in S : p.token \in Nat /\ p.node \in Nat
    BY SuccessorsExist, PairTypes
  <2> HIDE DEF S
  <2> QED
    BY <2>1, FirstPair
<1>2. Owns(Ring(readers), p.node, key) /\ p.node \in readers
  BY <1>1, SuccessorsExist, PairTypes DEF Owns
<1>3. \A m : Owns(Ring(readers), m, key) => m = p.node
  BY <1>2, OneOwner
<1> QED
  BY <1>2, <1>3 DEF RouteSearch

=============================================================================
