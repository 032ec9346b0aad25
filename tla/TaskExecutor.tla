---------------------------- MODULE TaskExecutor ----------------------------
(***************************************************************************)
(* The executor of one robot: ExecutorContext with the behaviour tree of   *)
(* task_executor.xml.  Between two ticks the tree stands at the running    *)
(* action of one branch; a tick lets that action go on, end well or fail,  *)
(* and goes on to the next running action, unless the E-stop gate halts it.*)
(* Services and topics change the context between ticks.                   *)
(*                                                                         *)
(* Motion, detection and docking end as they like; attempts are part of    *)
(* the action that makes them.  The claim of a charger is one of           *)
(* ChargerClaims, here it is given and taken freely.                       *)
(***************************************************************************)
EXTENDS Integers, Sequences

CONSTANT AcceptWhileReturning   \* accept_while_returning

ASSUME PolicyAssumption == AcceptWhileReturning \in BOOLEAN

VARIABLES
  task,       \* task_ is set
  payload,    \* payload_ is not empty
  attempted,  \* payload_return_attempted_
  pending,    \* return_pending_
  phase,      \* phase_
  charging,   \* charging_
  claim,      \* charger_claim_ is not empty
  step,       \* task_step of the blackboard
  charge,     \* charge_step of the blackboard
  back,       \* where ReturnPayload is (a sequence that forgets when halted)
  branch,     \* the branch of WorkOrIdle that is running
  docked,     \* the dock the robot stands in
  estop, lost, hold, battery   \* the latest of the topics

books == <<task, payload, attempted, pending>>
tree == <<step, charge, back, branch, claim, charging>>
inputs == <<estop, lost, hold, battery>>
evars == <<books, phase, tree, docked, inputs>>

Branches == {"none", "task", "error", "return", "waiting", "charge", "cooldown"}
Phases == {"IDLE", "MOVING", "RETURNING", "PERCEIVING", "DOCKING", "LOADING", "UNLOADING",
           "UNDOCKING", "CHARGING", "RECOVERING", "ERROR"}

ETypeOK ==
  /\ task \in BOOLEAN /\ payload \in BOOLEAN /\ attempted \in BOOLEAN /\ pending \in BOOLEAN
  /\ phase \in Phases
  /\ charging \in BOOLEAN /\ claim \in BOOLEAN
  /\ step \in 0..8 /\ charge \in 0..3 /\ back \in 0..3
  /\ branch \in Branches
  /\ docked \in {"none", "pickup", "dropoff", "charger"}
  /\ estop \in BOOLEAN /\ lost \in BOOLEAN /\ hold \in BOOLEAN
  /\ battery \in {"low", "enough", "full"}

-----------------------------------------------------------------------------
(* The running actions of the branches.                                     *)
TaskActions == <<"move", "perceive", "dock", "load", "undock", "move", "dock", "unload", "undock">>
ReturnActions == <<"move", "dock", "unload", "undock">>
ChargeActions == <<"move", "dock", "window", "undock">>

Action ==
  CASE branch = "task" -> TaskActions[step + 1]
    [] branch = "return" -> ReturnActions[back + 1]
    [] branch = "charge" -> ChargeActions[charge + 1]
    [] branch = "waiting" -> "move"
    [] OTHER -> "none"

Site ==
  CASE branch = "task" -> IF step <= 4 THEN "pickup" ELSE "dropoff"
    [] branch = "return" -> "pickup"
    [] branch = "charge" -> "charger"
    [] OTHER -> "none"

(* SetPhase, the first node of each of them.                                *)
PhaseOf(b, action) ==
  CASE action = "move" -> IF b = "waiting" THEN "RETURNING" ELSE "MOVING"
    [] action = "perceive" -> "PERCEIVING"
    [] action = "dock" -> "DOCKING"
    [] action = "load" -> "LOADING"
    [] action = "unload" -> "UNLOADING"
    [] action = "undock" -> "UNDOCKING"
    [] action = "window" -> "CHARGING"

(* What TrafficGate stands before.                                          *)
Gated == Action \in {"move", "perceive", "dock", "undock"}

-----------------------------------------------------------------------------
(* The branches of WorkOrIdle, in their order.                              *)

(* reportStatus with an end of the task.                                    *)
ReportEnd ==
  /\ task' = FALSE /\ pending' = TRUE
  /\ UNCHANGED <<payload, attempted>>

BeginTask ==
  /\ task
  /\ branch' = "task"
  /\ phase' = PhaseOf("task", TaskActions[step + 1])
  /\ UNCHANGED <<books, step, charge, back, claim, charging>>

Stranded == payload /\ ~task /\ ~attempted

BeginReturn ==
  /\ Stranded
  /\ branch' = "return" /\ back' = 0 /\ phase' = "MOVING"
  /\ UNCHANGED <<books, step, charge, claim, charging>>

BeginWaiting ==
  /\ ~task /\ ~Stranded /\ pending
  /\ branch' = "waiting" /\ phase' = "RETURNING"
  /\ UNCHANGED <<books, step, charge, back, claim, charging>>

(* Faulty variant of NoChargeInProgress: the battery alone decides.         *)
NoChargeAsked == TRUE
NoChargeInProgress == charge = 0

IdlePhase == IF payload THEN "ERROR" ELSE "IDLE"

Free == ~task /\ ~Stranded /\ ~pending

BeginIdle ==
  /\ Free /\ NoChargeInProgress /\ battery # "low"
  /\ branch' = "none" /\ phase' = IdlePhase
  /\ UNCHANGED <<books, step, charge, back, claim, charging>>

(* ChargeFailedCooldown: release, ERROR, Delay.                             *)
CoolDown ==
  /\ branch' = "cooldown" /\ phase' = "ERROR"
  /\ claim' = FALSE /\ charging' = FALSE

(* SelectCharger.  Before docking another robot may have been first, which  *)
(* leaves another charger or none.                                          *)
KeepsCharger ==
  /\ claim /\ UNCHANGED <<claim, charge>>
  /\ branch' = "charge"
  /\ phase' = PhaseOf("charge", ChargeActions[charge + 1])
  /\ charging' = (charge = 2)

TakesCharger ==
  /\ ~claim /\ claim' = TRUE /\ charge' = 0
  /\ branch' = "charge" /\ phase' = "MOVING" /\ UNCHANGED charging

ChangesCharger ==
  /\ claim /\ charge < 2 /\ charge' = 0
  /\ branch' = "charge" /\ UNCHANGED <<claim, phase, charging>>

FindsNoCharger ==
  /\ ~(claim /\ charge >= 2) /\ UNCHANGED charge
  /\ CoolDown

Select == KeepsCharger \/ TakesCharger \/ ChangesCharger \/ FindsNoCharger

BeginCharge ==
  /\ Free /\ ~(NoChargeInProgress /\ battery # "low")
  /\ Select
  /\ UNCHANGED <<books, step, back>>

Begin ==
  /\ ~estop /\ branch = "none"
  /\ BeginTask \/ BeginReturn \/ BeginWaiting \/ BeginIdle \/ BeginCharge
  /\ UNCHANGED <<docked, inputs>>

-----------------------------------------------------------------------------
(* The running action goes on.                                              *)

(* The body moves: Nav2 drives off, docking approaches, and a robot that    *)
(* holds may drive to its pose to yield.                                    *)
BodyMoves ==
  /\ ~estop /\ Gated
  /\ docked' = IF ~hold /\ Action = "dock" THEN Site ELSE "none"
  /\ ~hold => Action \in {"move", "dock"}
  /\ UNCHANGED <<books, phase, tree, inputs>>

(* Recovery between two attempts.                                           *)
Recovers ==
  /\ ~estop /\ ~hold /\ Action \in {"move", "perceive", "dock"}
  /\ phase' \in {"RECOVERING", PhaseOf(branch, Action)}
  /\ UNCHANGED <<books, tree, docked, inputs>>

(* While a charge is under way, SelectCharger finds that another robot was  *)
(* first.                                                                   *)
LosesCharger ==
  /\ ~estop /\ branch = "charge"
  /\ ChangesCharger \/ FindsNoCharger
  /\ UNCHANGED <<books, step, back, docked, inputs>>

(* What the end of an action leaves.  Failing to back out is absorbed.      *)
Handled ==
  /\ docked' \in
       CASE Action = "dock" -> {Site}
         [] Action = "move" -> {"none"}
         [] Action = "undock" -> {"none", docked}
         [] OTHER -> {docked}
  /\ payload' = CASE Action = "load" -> TRUE [] Action = "unload" -> FALSE [] OTHER -> payload
  /\ attempted' = IF Action \in {"load", "unload"} THEN FALSE ELSE attempted

CanEnd == ~estop /\ (Gated => ~hold) /\ (Action = "move" => ~lost)

TaskActionEnds ==
  /\ branch = "task" /\ CanEnd
  /\ ~(Action = "load" /\ payload)
  /\ Handled
  /\ IF step < 8
       THEN /\ step' = step + 1 /\ phase' = PhaseOf("task", TaskActions[step + 2])
            /\ UNCHANGED <<task, pending, branch>>
       ELSE /\ step' = 0 /\ branch' = "none"
            /\ task' = FALSE /\ pending' = TRUE /\ UNCHANGED phase
  /\ UNCHANGED <<charge, back, claim, charging, inputs>>

(* FailTask: ERROR, report, Delay.                                          *)
FailTask ==
  /\ branch' = "error" /\ phase' = "ERROR"
  /\ ReportEnd
  /\ UNCHANGED <<charge, back, claim, charging, docked, inputs>>

(* An action of the task fails: attempts exhausted, or already loaded.      *)
TaskActionFails ==
  /\ branch = "task" /\ ~estop
  /\ \/ Action \in {"move", "perceive", "dock"} /\ ~hold
     \/ Action = "load" /\ payload
  /\ step' = 0
  /\ FailTask

(* Faulty variant of OutOfTime: the time of a hold does not count.          *)
OutOfTimeMoving == ~estop /\ ~hold
(* TaskDeadline: the time of a run that no E-stop has interrupted is over.  *)
OutOfTime == ~estop

Deadline ==
  /\ branch = "task" /\ OutOfTime
  /\ UNCHANGED step
  /\ FailTask

(* The end of ReturnPayload, in whatever way: MarkPayloadReturnAttempted.   *)
ReturnActionEnds ==
  /\ branch = "return" /\ CanEnd
  /\ IF back < 3
       THEN /\ Handled /\ back' = back + 1
            /\ phase' = PhaseOf("return", ReturnActions[back + 2]) /\ UNCHANGED branch
       ELSE /\ docked' \in {"none", docked} /\ attempted' = payload
            /\ back' = 0 /\ branch' = "none" /\ UNCHANGED <<payload, phase>>
  /\ UNCHANGED <<task, pending, step, charge, claim, charging, inputs>>

ReturnActionFails ==
  /\ branch = "return" /\ ~estop /\ ~hold /\ Action \in {"move", "dock"}
  /\ attempted' = payload
  /\ back' = 0 /\ branch' = "none"
  /\ UNCHANGED <<task, payload, pending, phase, step, charge, claim, charging, docked, inputs>>

(* Faulty variant of PendingAfter: only an arrival counts.                  *)
PendingIfFailed(arrived) == ~arrived
PendingAfter(arrived) == FALSE

WaitingEnds ==
  /\ branch = "waiting" /\ ~estop /\ ~hold
  /\ \E arrived \in BOOLEAN :
       /\ arrived => ~lost
       /\ docked' = IF arrived THEN "none" ELSE docked
       /\ pending' = PendingAfter(arrived)
  /\ branch' = "none"
  /\ UNCHANGED <<task, payload, attempted, phase, step, charge, back, claim, charging, inputs>>

ChargeActionEnds ==
  /\ branch = "charge" /\ CanEnd
  /\ Handled
  /\ IF charge < 3
       THEN /\ charge' = charge + 1 /\ charging' = (charge = 1)
            /\ phase' = PhaseOf("charge", ChargeActions[charge + 2])
            /\ UNCHANGED <<branch, claim>>
       ELSE /\ charge' = 0 /\ branch' = "none" /\ claim' = FALSE /\ phase' = IdlePhase
            /\ UNCHANGED charging
  /\ UNCHANGED <<task, pending, step, back, inputs>>

ChargeActionFails ==
  /\ branch = "charge" /\ ~estop /\ ~hold /\ Action \in {"move", "dock"}
  /\ charge' = 0
  /\ CoolDown
  /\ UNCHANGED <<books, step, back, docked, inputs>>

(* The Delay of FailTask or ChargeFailedCooldown is over.                   *)
DelayEnds ==
  /\ ~estop
  /\ \/ branch = "error" /\ UNCHANGED phase
     \/ branch = "cooldown" /\ phase' = IdlePhase
  /\ branch' = "none"
  /\ UNCHANGED <<books, step, charge, back, claim, charging, docked, inputs>>

(* Faulty variant of StepHalted: what was halted counts as done.            *)
StepHaltedDone == step + 1
StepHalted == step

(* EstopGate halts what is running; ResumableSequence keeps its step.       *)
Halt ==
  /\ estop /\ branch # "none"
  /\ branch' = "none" /\ back' = 0
  /\ step' = StepHalted /\ charging' = FALSE
  /\ UNCHANGED <<books, phase, charge, claim, docked, inputs>>

-----------------------------------------------------------------------------
(* Services and topics.                                                     *)

(* Faulty variant of PhaseAccepts: whatever the robot is doing.             *)
PhaseAcceptsAny == TRUE
PhaseAccepts == phase = "IDLE" \/ (phase = "RETURNING" /\ AcceptWhileReturning)

(* Faulty variant of Progress: the last task's is left.                     *)
ProgressKept == step
Progress == 0

(* assign_task: evaluateTask, acceptTask and resetTaskProgress.             *)
Assign ==
  /\ ~estop /\ ~lost /\ ~task /\ ~payload /\ PhaseAccepts /\ battery # "low"
  /\ task' = TRUE
  /\ step' = Progress
  /\ UNCHANGED <<payload, attempted, pending, phase, charge, back, branch, claim, charging,
                 docked, inputs>>

ClearPayload ==
  /\ ~task /\ payload
  /\ payload' = FALSE /\ attempted' = FALSE
  /\ UNCHANGED <<task, pending, phase, tree, docked, inputs>>

SignalChanges ==
  /\ \/ estop' = ~estop /\ UNCHANGED <<lost, hold>>
     \/ lost' = ~lost /\ UNCHANGED <<estop, hold>>
     \/ hold' = ~hold /\ UNCHANGED <<estop, lost>>
  /\ UNCHANGED <<books, phase, tree, docked, battery>>

(* updateBattery with what a healthy battery reports: level by level, less  *)
(* while driving and more on the charger.  Noise across a threshold and NaN *)
(* (which makes the level unknown, hence not low) are left out.             *)
BatteryChanges ==
  /\ battery' = IF charging THEN (IF battery = "low" THEN "enough" ELSE "full")
                ELSE IF battery = "full" THEN "enough" ELSE "low"
  /\ UNCHANGED <<books, phase, tree, docked, estop, lost, hold>>

-----------------------------------------------------------------------------
EInit ==
  /\ task = FALSE /\ payload = FALSE /\ attempted = FALSE /\ pending = FALSE
  /\ phase = "IDLE" /\ charging = FALSE /\ claim = FALSE
  /\ step = 0 /\ charge = 0 /\ back = 0 /\ branch = "none" /\ docked = "none"
  /\ estop = FALSE /\ lost = FALSE /\ hold = FALSE /\ battery \in {"low", "enough", "full"}

(* An action of the tree comes to its end.                                  *)
Ends ==
  \/ TaskActionEnds \/ TaskActionFails \/ ReturnActionEnds \/ ReturnActionFails \/ WaitingEnds
  \/ ChargeActionEnds \/ ChargeActionFails \/ DelayEnds

Tick == Begin \/ BodyMoves \/ Recovers \/ LosesCharger \/ Ends \/ Deadline \/ Halt
Outside == Assign \/ ClearPayload \/ SignalChanges \/ BatteryChanges

ENext == Tick \/ Outside

ESpec == EInit /\ [][ENext]_evars

(* The tick timer runs; actions end, delays are over, the deadline comes.   *)
FairESpec ==
  ESpec /\ WF_evars(Begin \/ Halt) /\ WF_evars(Ends) /\ WF_evars(Deadline)
-----------------------------------------------------------------------------
(* An item is on board exactly in the steps between its loading and its     *)
(* unloading, through E-stops, failures, deadlines and tasks taken on the   *)
(* way back: no step is repeated or left out, nothing is loaded on top.     *)
PayloadAtStep == task => (payload <=> step \in 4..7)

(* What is to be done in a dock is done in the right one: nothing lets the  *)
(* robot leave between docking and loading, unloading or charging.          *)
DockedToHandle ==
  /\ task /\ step = 3 => docked = "pickup"
  /\ task /\ step = 7 => docked = "dropoff"
  /\ branch = "return" /\ back = 2 => docked = "pickup"
  /\ charge = 2 => docked = "charger"

(* From docking at the charger until it has backed out a robot has its      *)
(* claim and no task, and the charger is on only while the robot attends.   *)
ChargeUndisturbed ==
  /\ charge >= 2 => claim /\ ~task
  /\ charging => branch = "charge" /\ charge = 2 /\ phase = "CHARGING"

(* behavior_tree.md 4.2 and 4.4: a robot that says IDLE has brought back    *)
(* its item, is not on its way to the waiting place and has backed out of   *)
(* the charger.                                                             *)
ReadyWhenIdle ==
  phase = "IDLE" /\ ~task => ~payload /\ ~pending /\ charge < 2 /\ branch = "none"

(* behavior_tree.md 3: a task that was begun is reported done or failed,    *)
(* even if the robot is held or lost for ever, unless E-stops keep coming.  *)
BegunTaskEnds == <>[]~estop => [](branch = "task" => <>~task)

(* A robot that nobody stops, holds or drives from its chargers any more is *)
(* ready again and again, or has a task, or waits for its item to be taken  *)
(* off.                                                                     *)
Calm == ~estop /\ ~lost /\ ~hold
Available ==
  <>[]Calm /\ <>[][~LosesCharger]_evars
    => []<>(phase = "IDLE" \/ task \/ (payload /\ attempted))
=============================================================================
