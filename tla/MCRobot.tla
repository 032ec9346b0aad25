------------------------------- MODULE MCRobot -------------------------------
(***************************************************************************)
(* An instance of the software of one robot and of the chargers it shares  *)
(* with the others.  These machines have no variable in common, so one run *)
(* takes one of them at a time: part says which, the others stay at their  *)
(* start.  The safety gate is taken twice: with obstacles, and with E-stop *)
(* samples but nothing near.                                               *)
(***************************************************************************)
EXTENDS TaskExecutor, ChargerClaims, SafetyGate, KidnapRecovery

CONSTANTS c1, c2

\* Robots whose numbers agree modulo the number of chargers begin at the same.
MCPreference == [r \in Robots |-> <<c1, c2>>]

\* One thing near at a time, or two of different kinds.
MCSights ==
  {ClearSight} \cup {[ClearSight EXCEPT !["lidar"] = d] : d \in 0..3}
    \cup {[ClearSight EXCEPT !["depth"] = d] : d \in {1, 2}}
    \cup {[ClearSight EXCEPT !["contact"] = 1, !["lidar"] = d] : d \in {2, 6}}
    \cup {[ClearSight EXCEPT !["depth_excl"] = 1]}

MCMaxSamples == [s \in Sources |-> IF s = "estop" THEN 3 ELSE 1]

VARIABLE part

MCInit ==
  /\ part \in {"executor", "claims", "obstacles", "estops", "pose"}
  /\ EInit /\ CInit /\ GInit /\ KInit
  /\ calm = (part = "estops") /\ (part # "executor" => battery = "full")

Executor(A) == part = "executor" /\ A /\ UNCHANGED <<part, cvars, gvars, kvars>>
Claimants == part = "claims" /\ CNext /\ UNCHANGED <<part, evars, gvars, kvars>>
Monitor == part = "pose" /\ KNext /\ UNCHANGED <<part, evars, cvars, gvars>>
Gate(A) ==
  /\ part \in {"obstacles", "estops"}
  /\ A /\ UNCHANGED <<part, evars, cvars, kvars>>
  /\ part = "obstacles" => UNCHANGED sent

MCNext == Executor(ENext) \/ Claimants \/ Gate(GNext) \/ Monitor

MCSpec ==
  /\ MCInit /\ [][MCNext]_<<part, evars, cvars, gvars, kvars>>
  /\ WF_evars(Executor(Begin \/ Halt)) /\ WF_evars(Executor(Ends))
  /\ WF_evars(Executor(Deadline))
  /\ WF_gvars(calm /\ Gate(Timer)) /\ WF_gvars(calm /\ Gate(RequestReset))
  /\ WF_gvars(calm /\ Gate(Arrival))
=============================================================================
