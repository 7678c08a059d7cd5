-------------------------- MODULE MCSegmentRegistry --------------------------
\* Model values for the runs of SegmentRegistry: the background loop and one insert
\* handler, whose runs overlap; in the run with faults there is room for a third
\* request, one that its client has given up.
EXTENDS SegmentRegistry

CONSTANTS insert, c1, c2, c3

MCTasks == {Loop, insert}
TwoCalls == {c1, c2}
ThreeCalls == {c1, c2, c3}

=============================================================================
