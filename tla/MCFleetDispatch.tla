-------------------------- MODULE MCFleetDispatch ----------------------------
(***************************************************************************)
(* Instances of FleetDispatch: two robots that need not be told apart,     *)
(* tasks for anybody, or one task for a certain robot.                     *)
(***************************************************************************)
EXTENDS FleetDispatch, TLC

CONSTANTS r1, r2, t1, t2

NoPin == [t \in Tasks |-> NoRobot]
OnePin == [t \in Tasks |-> IF t = t1 THEN r1 ELSE NoRobot]
RobotSymmetry == Permutations(Robots)
=============================================================================
