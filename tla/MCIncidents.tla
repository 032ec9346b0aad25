---------------------------- MODULE MCIncidents -----------------------------
(***************************************************************************)
(* Instances of Incidents: four robots, the higher the id the less         *)
(* important, one or two pockets, and situations in which robots wait for  *)
(* each other, for parked robots and for robots that cannot move.          *)
(***************************************************************************)
EXTENDS Incidents

CONSTANTS p1, p2, noPocket

MCRank == [r \in Robots |-> r]

W(view, waits, standing, vain) ==
  [view |-> view, waits |-> waits, standing |-> standing, vain |-> vain]
Drive == [r \in Robots |-> "driving"]
T(r, q) == <<r, q, "token">>
B(r, q) == <<r, q, "block">>
C(r, q) == <<r, q, "crossing">>

\* Robots that move; some of them get nowhere.
Dance == W(Drive, {}, {}, {1, 2})
\* Two deadlocks side by side.
Pairs == W(Drive, {T(1, 2), B(2, 1), B(3, 4), T(4, 3)}, Robots, Robots)
\* A deadlock of robots 1 and 2, and the parked robot 4 in front of 1 and 3.
Parked == W([Drive EXCEPT ![4] = "parked"],
            {T(1, 2), B(2, 1), B(1, 4), B(3, 4)}, {1, 2, 3}, {1, 2, 3})
\* Robots that face each other, one in E-stop, and one behind a silent robot.
Halted == W([Drive EXCEPT ![3] = "halted", ![2] = "silent"],
            {T(1, 3), C(3, 1), B(4, 2)}, {1, 3, 4}, {1, 3, 4})

AllWorlds == {Dance, Pairs, Parked, Halted}

\* Two robots that face each other, with one of them in E-stop and without.
Face(view) == W([Drive EXCEPT ![2] = view], {T(1, 2), T(2, 1)}, {1, 2}, {1, 2})
FacingWorlds == {Face("halted"), Face("driving")}
=============================================================================
