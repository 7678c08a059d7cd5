------------------------------- MODULE HashRing -------------------------------
(***************************************************************************)
(* The consistent-hash ring of coordinator/ring.py, as the coordinator uses*)
(* it: every reader has a token per virtual node, and a key belongs to the *)
(* reader of the first token at or above its own, or of the first of all.  *)
(*                                                                         *)
(* The coordinator never changes a ring: _rebuild_ring clears it and adds  *)
(* every reader of `nodes` again, in the step that has changed them.  So   *)
(* the ring is a function of the readers.  Its list of (token, node) pairs *)
(* is kept sorted and is the set of its pairs with the order of tuples.    *)
(* MD5 is some function `token`; two virtual nodes may collide.            *)
(***************************************************************************)
EXTENDS Integers, FiniteSets

CONSTANTS
  Readers,   \* numbered in the order of their names
  Replicas,  \* the virtual nodes of a reader
  Tokens,    \* the hashes; a key is its own hash
  token      \* _hash of a virtual node

ASSUME RingAssumption ==
  /\ Readers \subseteq Nat
  /\ Replicas # {}
  /\ Tokens \subseteq Nat
  /\ token \in [Readers \X Replicas -> Tokens]

\* The ring of these readers (clear and add_node of each).
Ring(readers) == {[token |-> token[v], node |-> v[1]] : v \in readers \X Replicas}

\* The order of the pairs in the list.
Ahead(p, q) == p.token < q.token \/ (p.token = q.token /\ p.node <= q.node)

\* Mutant: no way round the end of the list.
Successors_NoWrap(ring, key) == {p \in ring : key <= p.token}

\* The pairs from bisect_left(list, (key, "")) on, or all when there is none.
Successors(ring, key) ==
  LET above == {p \in ring : key <= p.token}
  IN IF above = {} THEN ring ELSE above

\* get_node(key) = n
Owns(ring, n, key) ==
  \E p \in Successors(ring, key) :
    p.node = n /\ \A q \in Successors(ring, key) : Ahead(p, q)

\* route_search: the registered readers, or the one that owns the query's hash.
RouteSearch(readers, key) ==
  LET ring == Ring(readers)
  IN {n \in readers : Owns(ring, n, key)}

=============================================================================
