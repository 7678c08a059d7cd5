---------------------------- MODULE MCCoordinator ----------------------------
\* The runs of Coordinator: two readers whose hits mix, with one search and one
\* GET /health at a time, or one reader and two coordinators.
EXTENDS Coordinator

CONSTANTS c1, c2, s1, h1

TwoUrls == <<c1, c2>>
OneUrl == <<c1>>

MCTokens == 0..3

\* The two readers collide at 2, and a key above that has to go round.
MCToken == [p \in Readers \X Replicas |->
              IF p[2] = 1 THEN 2 ELSE IF p[1] = 1 THEN 1 ELSE 0]

Hit(i, d) == [id |-> i, dist |-> d]
MCShard == [r \in Readers |-> IF r = 1 THEN {Hit(1, 1), Hit(2, 3)} ELSE {Hit(3, 2), Hit(4, 3)}]

=============================================================================
