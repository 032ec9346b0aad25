--------------------------- MODULE TaskLifecycle -----------------------------
(***************************************************************************)
(* What the fleet promises of a task, whatever happens between manager and *)
(* robots: the transitions of amr_fleet/task_state.py, TaskStateMachine.   *)
(* A failed task is put back at once while its failures do not exceed the  *)
(* retry limit, as the manager's _fail_task does in one callback.          *)
(***************************************************************************)
EXTENDS Integers

CONSTANTS
  Tasks,        \* task ids
  Robots,       \* robot ids
  NoRobot,      \* the empty robot_id
  Pin,          \* task |-> robot it was requested for, or NoRobot
  MaxRetries    \* max_task_retries

VARIABLES
  status,     \* task |-> "unknown" until received, then the record's status
  owner,      \* task |-> the record's robot_id
  failures    \* task |-> number of failures

lifecycle == <<status, owner, failures>>

LTypeOK ==
  /\ status \in [Tasks -> {"unknown", "PENDING", "IN_PROGRESS", "COMPLETED", "FAILED"}]
  /\ owner \in [Tasks -> Robots \cup {NoRobot}]
  /\ failures \in [Tasks -> Nat]

LInit ==
  /\ status = [t \in Tasks |-> "unknown"]
  /\ owner = [t \in Tasks |-> NoRobot]
  /\ failures = [t \in Tasks |-> 0]

Add(t) ==
  /\ status[t] = "unknown"
  /\ status' = [status EXCEPT ![t] = "PENDING"]
  /\ owner' = [owner EXCEPT ![t] = Pin[t]]
  /\ UNCHANGED failures

Start(t, r) ==
  /\ status[t] = "PENDING"
  /\ status' = [status EXCEPT ![t] = "IN_PROGRESS"]
  /\ owner' = [owner EXCEPT ![t] = r]
  /\ UNCHANGED failures

Complete(t) ==
  /\ status[t] = "IN_PROGRESS"
  /\ status' = [status EXCEPT ![t] = "COMPLETED"]
  /\ UNCHANGED <<owner, failures>>

(* The last allowed failure is final, and is booked on the robot at fault.  *)
Fail(t, r) ==
  /\ status[t] \in {"PENDING", "IN_PROGRESS"}
  /\ failures' = [failures EXCEPT ![t] = @ + 1]
  /\ IF failures[t] < MaxRetries
       THEN /\ status' = [status EXCEPT ![t] = "PENDING"]
            /\ owner' = [owner EXCEPT ![t] = Pin[t]]
       ELSE /\ status' = [status EXCEPT ![t] = "FAILED"]
            /\ owner' = [owner EXCEPT ![t] = IF @ = NoRobot THEN r ELSE @]

LNext ==
  \E t \in Tasks :
    \/ Add(t)
    \/ Complete(t)
    \/ \E r \in Robots : Start(t, r) \/ Fail(t, r)

LSpec == LInit /\ [][LNext]_lifecycle
=============================================================================
