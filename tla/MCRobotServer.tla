---------------------------- MODULE MCRobotServer ----------------------------
(***************************************************************************)
(* Small servers for TLC: two descriptors, one or two robots, one or two    *)
(* threads in the pool, a table of four slots.                             *)
(***************************************************************************)
EXTENDS RobotServer, TLC

CONSTANTS ra, rb, w1, w2

OneFd == {1}
TwoFds == 1..2
FourSlots == 0..3
OneRobot == {ra}
TwoRobots == {ra, rb}
OneThread == {w1}
TwoThreads == {w1, w2}

\* Neither robot's probe begins at slot 0, and the two collide.
AwayFromZero == [r \in Id |-> 2]
\* Alike robots may be exchanged.
RobotSymmetry == Permutations(Id) \cup Permutations(Worker)
\* One robot's home is slot 0, which also means "not found": with Home <- AtZero
\* CommandReachesRobot fails (hash.c:95).
AtZero == [r \in Id |-> IF r = ra THEN 0 ELSE 2]
=============================================================================
