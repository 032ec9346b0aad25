------------------------------ MODULE MCDocking ------------------------------
(***************************************************************************)
(* An instance of docking.  The goals and what the server does with one of *)
(* them have no variable in common, so one run takes one at a time, and    *)
(* the second twice: part says which.                                      *)
(*   goals    DockAt, its client and the server's goals                    *)
(*   docking  one marker, whose frames may wait in the queues              *)
(*   frames   a neighbour's marker as well; each frame is handled at once  *)
(***************************************************************************)
EXTENDS DockGoals, Docking

CONSTANTS m1, m2

VARIABLE part

mcvars == <<part, dvars, dockvars>>

MCInit == part \in {"goals", "docking", "frames"} /\ DInit /\ DockInit

Goal(A) == part = "goals" /\ A /\ UNCHANGED <<part, dockvars>>
Docks(A) == part = "docking" /\ A /\ UNCHANGED <<part, dvars>>
Frames(A) == part = "frames" /\ A /\ UNCHANGED <<part, dvars>>

\* DockAt comes to rest.
AtRest == place \in {"docked", "failed"} /\ UNCHANGED dvars

OneMarker ==
  \/ DetectorId(m1) \/ Start(m1) \/ DetectorPose \/ Callback
  \/ \E cancel, left \in BOOLEAN : ControlStep(cancel, left)

MCNext == Goal(DNext) \/ Goal(AtRest) \/ Docks(OneMarker) \/ Frames(AtOnce)

MCSpec ==
  /\ MCInit /\ [][MCNext]_mcvars
  /\ WF_dvars(Goal(Tree))
  /\ \A g \in Goals : WF_dvars(Goal(Client(g))) /\ WF_dvars(Goal(Server(g)))
  /\ WF_dockvars(Docks(ControlStep(FALSE, FALSE)))

-----------------------------------------------------------------------------
\* DockAt ends.
MCDockAtEnds == part = "goals" => DockAtEnds

\* The goals of the server end, and so do its sessions.
MCDockingEnds == part = "docking" => DockingEnds
=============================================================================
