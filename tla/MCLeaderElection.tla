--------------------------- MODULE MCLeaderElection ---------------------------
\* Model values for the runs of LeaderElection.
EXTENDS LeaderElection

CONSTANTS n1, n2

TwoNodes == {n1, n2}
OnlyN1 == {n1}

=============================================================================
