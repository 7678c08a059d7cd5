---------------------------- MODULE MCEngineSearch ----------------------------
\* The run of EngineSearch: one vector is near the query, the other one far.
EXTENDS MCLSMEngine, EngineSearch

NearAndFar == [v \in MCVectors |-> IF v = v1 THEN 1 ELSE 2]
MCRequests == {<<1, 1>>, <<1, 2>>, <<2, 1>>, <<2, 2>>}
IdSymmetry == Permutations({i1, i2})

=============================================================================
