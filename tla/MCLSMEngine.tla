----------------------------- MODULE MCLSMEngine -----------------------------
\* Model values, kill points and symmetry for the runs of LSMEngine.
EXTENDS LSMEngine, TLC

CONSTANTS i1, i2, v1, v2

MCIds == {i1, i2}
MCVectors == {v1, v2}
OneVector == {v1}

AllPoints == PCs \ {"down"}

\* Without the point where a torn LSN file takes the engine back to LSN 0: the
\* log has been emptied, so no record makes up for it.
SafePoints == AllPoints \ {"tmeta"}

Symmetry == Permutations({i1, i2}) \cup Permutations({v1, v2})

=============================================================================
