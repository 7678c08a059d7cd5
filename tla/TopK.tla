--------------------------------- MODULE TopK ---------------------------------
(***************************************************************************)
(* The k nearest of a set of hits, and the merging of partial answers:     *)
(* merge_results and filter_result_ids of storage/lsm.py, which the engine,*)
(* the readers and the coordinator share.                                  *)
(*                                                                         *)
(* A hit is [id |-> external id, dist |-> distance to the query].  Which of*)
(* several equally distant hits is kept depends on the order in which they *)
(* come; here any of them may be, so an operator yields the set of the     *)
(* answers that are possible.                                              *)
(***************************************************************************)
EXTENDS Integers, FiniteSets

\* ans holds k of the hits, or all when they are fewer, and none that is left
\* out is nearer.
IsNearest(ans, hits, k) ==
  /\ ans \subseteq hits
  /\ Cardinality(ans) <= k
  /\ ans = hits \/ Cardinality(ans) = k
  /\ \A a \in ans, h \in hits \ ans : a.dist <= h.dist

\* heapq.nsmallest(k, hits).
Nearest(hits, k) == {ans \in SUBSET hits : IsNearest(ans, hits, k)}

\* filter_result_ids
Unhidden(hits, hidden) == {h \in hits : h.id \notin hidden}

\* Mutant: a later result replaces an earlier one whatever its distance.
BestHits_Farthest(hits) ==
  {h \in hits : \A g \in hits : g.id = h.id => g.dist <= h.dist}

\* Of several hits of one id, the nearest.
BestHits(hits) ==
  {h \in hits : \A g \in hits : g.id = h.id => h.dist <= g.dist}

\* merge_results(results, k, deleted)
MergedResults(results, k, deleted) ==
  Nearest(BestHits(Unhidden(UNION results, deleted)), k)

=============================================================================
