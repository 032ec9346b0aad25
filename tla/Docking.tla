------------------------------ MODULE Docking ------------------------------
(***************************************************************************)
(* One goal after the other in docking_server_node: the phases of          *)
(* DockingController, the marker observations it is given, and the session *)
(* in which the safety gate tolerates the dock plate.  The node is single- *)
(* threaded; the detector is another process, which publishes first the id *)
(* and then the pose of the marker it sees, on two topics.                 *)
(*                                                                         *)
(* Times count control steps.  Where the robot is comes anew with every    *)
(* step, as its place among the thresholds:                                *)
(*   far      beyond final_distance                                        *)
(*   near     nearer, but beyond stop_distance and its deadband            *)
(*   edge     between stop_distance and its deadband                       *)
(*   at       within stop_distance                                         *)
(*   past     beyond max_overshoot                                         *)
(* and the heading error is off, in the band of its hysteresis, or on.     *)
(***************************************************************************)
EXTENDS Integers, Sequences, FiniteSetsExt

CONSTANTS
  Markers,        \* one per dock; a goal expects the marker of its dock
  NoMarker,       \* -1
  MaxAttempts,    \* of a goal
  SettleFrames, FreshSteps, MarkerTimeout, SearchTimeout, BackupSteps, AttemptTimeout,
  IdMaxAge,       \* marker_id_max_age
  SightTimeout,   \* exclusion.marker_timeout
  QueueDepth      \* depth of the two marker subscriptions

ASSUME StepsAssumption ==
  /\ {MaxAttempts, SettleFrames, QueueDepth} \subseteq Nat \ {0}
  /\ {FreshSteps, MarkerTimeout, SearchTimeout, BackupSteps, AttemptTimeout,
      IdMaxAge, SightTimeout} \subseteq Nat
  /\ FreshSteps <= MarkerTimeout
ASSUME MarkersAssumption == NoMarker \notin Markers

Never == -1

VARIABLES
  \* the topics: ids and poses not handled yet, the frame whose pose is still
  \* to come, and what the executor found when it last waited
  ids, poses, coming, ready,
  last_id, id_age,      \* last_marker_id_ and how long ago it came
  expected,             \* expected_marker_id_
  active,               \* a goal is running
  pending_obs,              \* the marker of pending_obs_
  sight, session,       \* age of last_obs_; session_active_
  dock_phase, attempt,
  spent, waited,        \* steps since attempt_start_, since phase_start_
  settle_count, lateral_stall_count, arrived, heading_arrived,
  age, tracked,         \* of the tracker: steps since, and marker of, its last observation
  cmd,                  \* the command published last
  still                 \* steps in a row, up to SettleFrames, in which it stood to settle

topics == <<ids, poses, coming, ready>>
sighting == <<last_id, id_age, sight>>
judging == <<settle_count, lateral_stall_count, arrived, heading_arrived, still>>
controller == <<dock_phase, attempt, spent, waited, judging, age, tracked>>
dockvars == <<topics, sighting, expected, active, pending_obs, session, controller, cmd>>

DockPhases == {"idle", "search", "align", "approach", "final", "backup", "succeeded", "failed"}
Ages(limit) == 0..(limit + 1) \cup {Never}

DockTypeOK ==
  /\ ids \in Seq(Markers) /\ Len(ids) <= QueueDepth
  /\ poses \in Seq(Markers) /\ Len(poses) <= QueueDepth
  /\ coming \in Markers \cup {NoMarker}
  /\ ready \subseteq {"id", "pose"}
  /\ last_id \in Markers \cup {NoMarker} /\ id_age \in Ages(IdMaxAge)
  /\ expected \in Markers \cup {NoMarker}
  /\ active \in BOOLEAN /\ session \in BOOLEAN
  /\ pending_obs \in Markers \cup {NoMarker}
  /\ sight \in Ages(SightTimeout)
  /\ dock_phase \in DockPhases /\ attempt \in 0..MaxAttempts
  /\ spent \in 0..(AttemptTimeout + 1) /\ waited \in 0..(SearchTimeout + BackupSteps)
  /\ settle_count \in 0..SettleFrames /\ lateral_stall_count \in 0..(2 * SettleFrames)
  /\ arrived \in BOOLEAN /\ heading_arrived \in BOOLEAN
  /\ age \in Ages(MarkerTimeout) /\ tracked \in Markers \cup {NoMarker}
  /\ cmd \in {"stop", "turn", "drive", "reverse"}
  /\ still \in 0..SettleFrames

DockInit ==
  /\ ids = <<>> /\ poses = <<>> /\ coming = NoMarker /\ ready = {}
  /\ last_id = NoMarker /\ id_age = Never
  /\ expected = NoMarker /\ active = FALSE /\ pending_obs = NoMarker
  /\ sight = Never /\ session = FALSE
  /\ dock_phase = "idle" /\ attempt = 0 /\ spent = 0 /\ waited = 0
  /\ settle_count = 0 /\ lateral_stall_count = 0
  /\ arrived = FALSE /\ heading_arrived = FALSE
  /\ age = Never /\ tracked = NoMarker
  /\ cmd = "stop" /\ still = 0

Older(a, limit) == IF a = Never \/ a > limit THEN a ELSE a + 1

-----------------------------------------------------------------------------
(* The marker topics.                                                       *)

(* Every frame has been handled.                                            *)
Quiet == ids = <<>> /\ poses = <<>> /\ coming = NoMarker /\ ready = {}

(* The oldest sample makes way when the queue is full.                      *)
Queued(q, m) == IF Len(q) < QueueDepth THEN Append(q, m) ELSE Append(Tail(q), m)

DetectorId(m) ==
  /\ coming = NoMarker
  /\ coming' = m /\ ids' = Queued(ids, m)
  /\ UNCHANGED <<poses, ready, sighting, expected, active, pending_obs, session, controller, cmd>>

DetectorPose ==
  /\ coming # NoMarker
  /\ coming' = NoMarker /\ poses' = Queued(poses, coming)
  /\ UNCHANGED <<ids, ready, sighting, expected, active, pending_obs, session, controller, cmd>>

(* The executor takes up what has come, one sample per subscription.        *)
Wait ==
  /\ ready = {}
  /\ ready' = (IF ids # <<>> THEN {"id"} ELSE {}) \cup (IF poses # <<>> THEN {"pose"} ELSE {})
  /\ ready' # {}
  /\ UNCHANGED <<ids, poses, coming, sighting, expected, active, pending_obs, session>>
  /\ UNCHANGED <<controller, cmd>>

(* Faulty variant of PoseTurn: the subscription of poses comes first.       *)
PoseTurnFirst == "pose" \in ready
(* Callbacks run in the order of their registration: ids come first.        *)
PoseTurn == "pose" \in ready /\ "id" \notin ready

OnMarkerId ==
  /\ "id" \in ready /\ ready' = ready \ {"id"}
  /\ ids' = Tail(ids)
  /\ last_id' = Head(ids) /\ id_age' = 0
  /\ UNCHANGED <<poses, coming, sight, expected, active, pending_obs, session, controller, cmd>>

WrongMarker == id_age # Never /\ id_age <= IdMaxAge /\ last_id # expected

(* onMarker: a usable pose, or one dropped as ambiguous, degenerate or      *)
(* without a transform.                                                     *)
OnMarker ==
  /\ PoseTurn /\ ready' = ready \ {"pose"}
  /\ poses' = Tail(poses)
  /\ \/ UNCHANGED <<pending_obs, sight>>
     \/ /\ session /\ ~WrongMarker
        /\ pending_obs' = (IF active THEN Head(poses) ELSE pending_obs)
        /\ sight' = 0
  /\ UNCHANGED <<ids, coming, last_id, id_age, expected, active, session, controller, cmd>>

-----------------------------------------------------------------------------
(* DockingController.                                                       *)

Enter(p) == dock_phase' = p /\ waited' = 0

Retries == attempt < MaxAttempts

FailAttempt ==
  /\ Enter(IF Retries THEN "backup" ELSE "failed")
  /\ settle_count' = 0 /\ lateral_stall_count' = 0
  /\ arrived' = FALSE /\ heading_arrived' = FALSE
  /\ still' = 0
  /\ cmd' = "stop" /\ UNCHANGED attempt

Fresh == pending_obs # NoMarker
AgeNow == IF Fresh THEN 0 ELSE Older(age, MarkerTimeout)

BackUp ==
  /\ UNCHANGED judging
  /\ IF waited + 1 < BackupSteps
     THEN waited' = waited + 1 /\ cmd' = "reverse" /\ UNCHANGED <<dock_phase, attempt>>
     ELSE Enter("search") /\ attempt' = attempt + 1 /\ cmd' = "stop"

Search ==
  IF waited >= SearchTimeout THEN FailAttempt
  ELSE waited' = waited + 1 /\ cmd' = "turn" /\ UNCHANGED <<dock_phase, attempt, judging>>

Seen == AgeNow <= FreshSteps

(* Standing in tolerance: after SettleFrames of it the robot has docked.    *)
Settle ==
  /\ lateral_stall_count' = 0
  /\ settle_count' = settle_count + (IF Seen THEN 1 ELSE 0)
  /\ still' = Min({still + 1, SettleFrames})
  /\ dock_phase' = IF settle_count' >= SettleFrames THEN "succeeded" ELSE "final"
  /\ cmd' = "stop"

(* Faulty variant of Unsettled: leaving the tolerance is forgiven.          *)
UnsettledKept == settle_count
Unsettled == 0
Moves(c) == settle_count' = Unsettled /\ cmd' = c /\ still' = 0

(* Beyond final_distance: turn on the spot when the heading is off.         *)
Approach(heading) ==
  LET align == IF dock_phase = "align" THEN heading # "on" ELSE heading = "off" IN
  /\ dock_phase' = IF align THEN "align" ELSE "approach"
  /\ Moves(IF align THEN "turn" ELSE "drive")
  /\ UNCHANGED lateral_stall_count

(* Within it: slowly on, or turn once the distance is right.                *)
Final(there, lateral) ==
  /\ dock_phase' = "final"
  /\ lateral_stall_count' =
       IF there THEN lateral_stall_count + (IF lateral = "off" THEN 1 ELSE 0) ELSE 0
  /\ Moves(IF there THEN "turn" ELSE "drive")

(* The rest of update, with the robot at dist.                              *)
Servo(dist, lateral, heading) ==
  LET there == dist = "at" \/ (dist = "edge" /\ arrived)
      turned == there /\ (heading = "on" \/ (heading = "band" /\ heading_arrived)) IN
  IF \/ dist = "past"
     \/ there /\ lateral = "off" /\ lateral_stall_count = 2 * SettleFrames
  THEN FailAttempt
  ELSE /\ arrived' = there /\ heading_arrived' = turned
       /\ waited' = 0 /\ UNCHANGED attempt
       /\ CASE turned /\ lateral = "on" -> Settle
            [] dist = "far" -> Approach(heading)
            [] OTHER -> Final(there, lateral)

(* Faulty variant of TimeUp: an attempt may take for ever.                  *)
TimeUpNever == FALSE
TimeUp == spent >= AttemptTimeout

MarkerLost == AgeNow \notin 0..MarkerTimeout

(* DockingController.update.                                                *)
Update ==
  /\ pending_obs' = NoMarker
  /\ age' = AgeNow /\ tracked' = IF Fresh THEN pending_obs ELSE tracked
  /\ spent' = IF dock_phase = "backup" /\ waited + 1 >= BackupSteps THEN 0
               ELSE Older(spent, AttemptTimeout)
  /\ IF dock_phase = "backup" THEN BackUp
     ELSE IF TimeUp THEN FailAttempt
     ELSE IF dock_phase = "search" /\ ~Fresh THEN Search
     ELSE IF MarkerLost THEN FailAttempt
     ELSE \E dist \in {"far", "near", "edge", "at", "past"},
             lateral \in {"on", "off"}, heading \in {"on", "band", "off"} :
            Servo(dist, lateral, heading)

(* cancel and finish(true).                                                 *)
GoalCanceled ==
  /\ dock_phase' = "failed" /\ cmd' = "stop"
  /\ UNCHANGED <<pending_obs, attempt, spent, waited, judging, age, tracked>>

-----------------------------------------------------------------------------
(* The callbacks of the server.                                             *)

(* onAccepted; onGoal lets it happen when no goal runs, or one that is      *)
(* being cancelled and ends before it.                                      *)
Start(marker) ==
  /\ expected' = marker /\ active' = TRUE /\ session' = TRUE
  /\ pending_obs' = NoMarker
  /\ Enter("search") /\ attempt' = 1 /\ spent' = 0
  /\ settle_count' = 0 /\ lateral_stall_count' = 0
  /\ arrived' = FALSE /\ heading_arrived' = FALSE
  /\ still' = 0
  /\ age' = Never /\ tracked' = NoMarker
  /\ cmd' = "stop"
  /\ UNCHANGED <<topics, sighting>>

(* exclusionStep: after the goal the session lasts until the robot has left *)
(* or sees the marker no more.                                              *)
Unseen == Older(sight, SightTimeout) \notin 0..SightTimeout
(* Faulty variant of EndsSession: a robot that stays keeps the session.     *)
EndsSessionLeft(left) == session /\ ~active' /\ left
EndsSession(left) == session /\ ~active' /\ (left \/ Unseen)

ExclusionStep(left) ==
  /\ session' = (session /\ ~EndsSession(left))
  /\ sight' = IF EndsSession(left) THEN Never ELSE Older(sight, SightTimeout)

GoalStep(cancel) ==
  IF active
  THEN /\ IF cancel THEN GoalCanceled ELSE Update
       /\ active' = (dock_phase' \notin {"succeeded", "failed"})
  ELSE UNCHANGED <<active, pending_obs, controller, cmd>>

(* controlStep, the timer.                                                  *)
ControlStep(cancel, left) ==
  /\ GoalStep(cancel) /\ ExclusionStep(left)
  /\ id_age' = Older(id_age, IdMaxAge)
  /\ UNCHANGED <<topics, last_id, expected>>

Callback == Wait \/ OnMarkerId \/ OnMarker

DockNext ==
  \/ \E m \in Markers : DetectorId(m) \/ Start(m)
  \/ DetectorPose \/ Callback
  \/ \E cancel, left \in BOOLEAN : ControlStep(cancel, left)

(* Each frame is handled before the next one comes and the timer fires;     *)
(* goals come at any time.                                                  *)
AtOnce == (\E m \in Markers : Start(m)) \/ DetectorPose \/ Callback \/ (Quiet /\ DockNext)
AtOnceSpec == DockInit /\ [][AtOnce]_dockvars

(* The timer runs at 20 Hz, whatever else does; nobody need cancel the goal *)
(* or drive away.                                                           *)
DockSpec == DockInit /\ [][DockNext]_dockvars /\ WF_dockvars(ControlStep(FALSE, FALSE))

-----------------------------------------------------------------------------
(* The robot docks by the marker of its dock: no pose of another marker     *)
(* reaches the tracker (test_docking_server.cpp: the neighbour's marker is  *)
(* dropped).  It holds of AtOnceSpec, and where there is one marker only.   *)
OwnMarker == tracked \in {NoMarker, expected}

(* The tracker predicts the marker between observations, but a docking      *)
(* succeeds only after the robot stood for SettleFrames steps in a row and  *)
(* saw the marker just now, it drives at the dock only as long as it saw it *)
(* less than marker_timeout ago, and however a goal ends it is told to stop.*)
BySight ==
  /\ dock_phase = "succeeded" => still = SettleFrames /\ age \in 0..FreshSteps
  /\ cmd = "drive" => age \in 0..MarkerTimeout
  /\ cmd # "stop" => active

(* Every goal ends, whatever the markers show, unless another goal takes    *)
(* its place; and the plate is tolerated no longer than it is seen: once no *)
(* goal runs and no frame comes, the session ends too.                      *)
DockingEnds ==
  /\ <>[][~\E m \in Markers : Start(m)]_dockvars => <>[]~active
  /\ <>[](~active /\ coming = NoMarker /\ poses = <<>> /\ ready = {}) => <>[]~session

(* The control steps a goal may still take: those of this attempt and its   *)
(* last, failing, step; then BackupSteps back and a whole attempt for each  *)
(* one left.                                                                *)
BackingSteps == IF BackupSteps = 0 THEN 1 ELSE BackupSteps
AttemptSteps == AttemptTimeout + 1 + BackingSteps

StepsLeft ==
  (MaxAttempts - attempt) * AttemptSteps
    + IF dock_phase = "backup" THEN -waited ELSE AttemptTimeout + 1 - spent

(* A goal runs out of control steps whatever the markers show: every one    *)
(* takes from what is left, nothing but the start of a goal adds to it, and *)
(* a goal that runs has some left, at most MaxAttempts attempts in all.     *)
(* A path back to search that forgot to count the attempt or to wind the    *)
(* clock would keep the robot at the dock.                                  *)
StepsRunOut ==
  /\ [](active => StepsLeft \in 1..(MaxAttempts * AttemptSteps - BackingSteps))
  /\ [][active /\ active' =>
          /\ (\E cancel, left \in BOOLEAN : ControlStep(cancel, left)) => StepsLeft' < StepsLeft
          /\ StepsLeft' <= StepsLeft \/ \E m \in Markers : Start(m)]_dockvars
=============================================================================
