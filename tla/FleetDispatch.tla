--------------------------- MODULE FleetDispatch -----------------------------
(***************************************************************************)
(* Dispatching of tasks by fleet_manager_node to the robots' executors     *)
(* (task_executor_node and fleet_adapter_node), over links that delay,     *)
(* reorder and lose.  Every callback of the manager is one action: its     *)
(* executor has one thread.  Allocation rounds that a callback runs belong *)
(* to its action.  Clocks are abstract: a dispatch goes through stages as  *)
(* the deadlines of its call pass, the other timeouts may fire whenever    *)
(* their condition can have come true.  A timer callback that loops over   *)
(* several expired dispatches, silent robots or overdue tasks is as many   *)
(* steps in a row: nothing the iterations share is kept between them.      *)
(***************************************************************************)
EXTENDS Integers, Sequences, FiniteSets

CONSTANTS
  Tasks,        \* task ids
  Robots,       \* robot ids
  NoRobot,      \* the empty robot_id
  NoTask,       \* the empty task id
  Busy,         \* a robot_state with no task and a status other than IDLE
  Unseen,       \* no robot_state (never received; none under way)
  NoDispatch,   \* the task is not in _inflight
  Pin,          \* task |-> robot it was requested for, or NoRobot
  MaxRetries,   \* max_task_retries
  MaxCalls,     \* bound: calls for one task, sent or in the outbox
  MaxMail,      \* bound: task_status messages of a robot under way
  Prompt,       \* whatever is under way arrives or is lost within assign_reconcile_s
  Faults        \* what may go wrong: "loss", "quiet", "slow", "crash", "busy"

ASSUME ConstantsAssumption ==
  /\ NoRobot \notin Robots /\ NoTask \notin Tasks
  /\ Busy \notin Tasks \cup {NoTask} /\ Unseen \notin Tasks \cup {NoTask, Busy}
  /\ Pin \in [Tasks -> Robots \cup {NoRobot}]
  /\ MaxRetries \in Nat /\ MaxCalls \in Nat /\ MaxMail \in Nat
  /\ Prompt \in BOOLEAN /\ Faults \subseteq {"loss", "quiet", "slow", "crash", "busy"}

VARIABLES
  status, owner, failures,  \* the records of TaskStateMachine
  queue,      \* tasks in the scheduler
  inflight,   \* task |-> its _Dispatch: robot, call (0: not sent), stage
  reserved,   \* robot |-> the task its _Robot.inflight names
  sent,       \* task |-> robots it was sent to since it last was put in the queue
  calls,      \* task |-> calls sent so far (the identity of a future)
  seen,       \* robot |-> current_task_id of its last robot_state
  fresh,      \* robots whose last robot_state is younger than robot_state_timeout_s
  lost,       \* robots declared offline
  backoff,    \* robots left out for reject_backoff_s
  outbox,     \* robot |-> task ids waiting out the link delay
  window,     \* is the batch window open
  requests,   \* assign_task calls under way
  responses,  \* their answers under way
  mail,       \* robot |-> task_status messages under way, in order
  reports,    \* robot |-> robot_state under way
  job,        \* robot |-> the task its executor runs
  adapter,    \* robot |-> the task its fleet adapter believes it runs
  runs        \* task |-> times a robot took it up (history)

books == <<status, owner, failures, queue>>
dispatch == <<inflight, reserved, outbox>>
network == <<requests, responses, mail, reports>>
robot == <<job, adapter>>
fvars == <<books, dispatch, sent, calls, seen, fresh, lost, backoff, window,
           network, robot, runs>>

Stages == {"waiting", "overdue", "unconfirmed", "late", "checked"}
Dispatches == [robot: Robots, call: Nat, stage: Stages]
Calls == [task: Tasks, robot: Robots, call: Nat]
Answers == [task: Tasks, robot: Robots, call: Nat, ok: BOOLEAN]
Mails == [task: Tasks, status: {"IN_PROGRESS", "COMPLETED", "FAILED"}]
States == Tasks \cup {NoTask, Busy}

ASSUME DispatchAssumption == NoDispatch \notin Dispatches

FTypeOK ==
  /\ status \in [Tasks -> {"unknown", "PENDING", "IN_PROGRESS", "COMPLETED", "FAILED"}]
  /\ owner \in [Tasks -> Robots \cup {NoRobot}]
  /\ failures \in [Tasks -> Nat]
  /\ queue \subseteq Tasks
  /\ inflight \in [Tasks -> Dispatches \cup {NoDispatch}]
  /\ reserved \in [Robots -> Tasks \cup {NoTask}]
  /\ sent \in [Tasks -> SUBSET Robots]
  /\ calls \in [Tasks -> Nat]
  /\ seen \in [Robots -> States \cup {Unseen}]
  /\ fresh \subseteq Robots /\ lost \subseteq Robots /\ backoff \subseteq Robots
  /\ outbox \in [Robots -> Seq(Tasks)]
  /\ window \in BOOLEAN
  /\ requests \subseteq Calls /\ responses \subseteq Answers
  /\ mail \in [Robots -> Seq(Mails)]
  /\ reports \in [Robots -> States \cup {Unseen}]
  /\ job \in [Robots -> Tasks \cup {NoTask}]
  /\ adapter \in [Robots -> Tasks \cup {NoTask}]
  /\ runs \in [Tasks -> Nat]

FInit ==
  /\ status = [t \in Tasks |-> "unknown"]
  /\ owner = [t \in Tasks |-> NoRobot]
  /\ failures = [t \in Tasks |-> 0]
  /\ queue = {}
  /\ inflight = [t \in Tasks |-> NoDispatch]
  /\ reserved = [r \in Robots |-> NoTask]
  /\ sent = [t \in Tasks |-> {}]
  /\ calls = [t \in Tasks |-> 0]
  /\ seen = [r \in Robots |-> Unseen]
  /\ fresh = {} /\ lost = {} /\ backoff = {}
  /\ outbox = [r \in Robots |-> <<>>]
  /\ window = FALSE
  /\ requests = {} /\ responses = {}
  /\ mail = [r \in Robots |-> <<>>]
  /\ reports = [r \in Robots |-> Unseen]
  /\ job = [r \in Robots |-> NoTask]
  /\ adapter = [r \in Robots |-> NoTask]
  /\ runs = [t \in Tasks |-> 0]

-----------------------------------------------------------------------------
(* Allocation.                                                              *)

Active(r) == {t \in Tasks : status[t] = "IN_PROGRESS" /\ owner[t] = r}

(* Faulty variant: the books are not asked whether the robot is at work.    *)
CandidatesByReport(res, back, gone) ==
  {r \in fresh \ (gone \cup back) : seen[r] = NoTask /\ res[r] = NoTask}

Candidates(res, back, gone) ==
  {r \in fresh \ (gone \cup back) :
     seen[r] = NoTask /\ res[r] = NoTask /\ Active(r) = {}}

(* select_batch and allocate: a batch of at most one task per free robot,   *)
(* all of it assigned; whatever is left out found no robot.  Which tasks    *)
(* come first and which robot is best is the scheduler's and the strategy's *)
(* choice.                                                                  *)
Allocations(pending, free) ==
  {A \in SUBSET (pending \X free) :
     /\ \A p, q \in A : p # q => p[1] # q[1] /\ p[2] # q[2]
     /\ \A p \in A : Pin[p[1]] \in {NoRobot, p[2]}
     /\ \/ Cardinality(A) = Cardinality(free)
        \/ \A t \in pending :
             \/ \E r \in free : <<t, r>> \in A
             \/ Pin[t] \in Robots \ free
             \/ \E u \in pending : Pin[u] = Pin[t] /\ <<u, Pin[t]>> \in A}

(* For the bound: calls made for t and calls waiting in the outbox.         *)
Called(t, box) ==
  calls[t] + Cardinality(UNION {{r} \X {k \in DOMAIN box[r] : box[r][k] = t} : r \in Robots})

(* A round on the intermediate state a callback has reached: dispatches are *)
(* booked and put into the outbox, or lost by the simulated link.           *)
Round(q, inf, res, back, gone, box) ==
  \E A \in Allocations({t \in q : inf[t] = NoDispatch /\ Called(t, box) < MaxCalls},
                       Candidates(res, back, gone)) :
  \E dropped \in (IF "loss" \in Faults THEN SUBSET A ELSE {{}}) :
    /\ inflight' = [t \in Tasks |->
         IF \E r \in Robots : <<t, r>> \in A
           THEN [robot |-> CHOOSE r \in Robots : <<t, r>> \in A, call |-> 0, stage |-> "waiting"]
           ELSE inf[t]]
    /\ reserved' = [r \in Robots |->
         IF \E t \in Tasks : <<t, r>> \in A THEN CHOOSE t \in Tasks : <<t, r>> \in A ELSE res[r]]
    /\ outbox' = [r \in Robots |->
         IF \E t \in Tasks : <<t, r>> \in A \ dropped
           THEN Append(box[r], CHOOSE t \in Tasks : <<t, r>> \in A) ELSE box[r]]

(* _clear_inflight: the dispatch and the reservation of its robot.          *)
Unbooked(t) == [inflight EXCEPT ![t] = NoDispatch]

(* Faulty variant of Unreserved: the robot is not released.                 *)
UnreservedNothing(t) == reserved

Unreserved(t) ==
  [r \in Robots |-> IF reserved[r] = t /\ inflight[t] # NoDispatch /\ inflight[t].robot = r
                      THEN NoTask ELSE reserved[r]]

Clear(t) ==
  /\ inflight' = Unbooked(t)
  /\ reserved' = Unreserved(t)
  /\ UNCHANGED outbox

(* _abort_dispatch: the robot is left out for a while, the rest try again.  *)
Abort(t, r, gone, box) ==
  /\ backoff' = backoff \cup {r}
  /\ Round(queue, Unbooked(t), Unreserved(t), backoff \cup {r}, gone, box)

-----------------------------------------------------------------------------
(* Records: start, failure with or without a retry.                         *)

(* Faulty variant: the started task stays in the scheduler.                 *)
StartTaskStaysQueued(t, r) ==
  /\ status' = [status EXCEPT ![t] = "IN_PROGRESS"]
  /\ owner' = [owner EXCEPT ![t] = r]
  /\ UNCHANGED <<failures, queue>>

StartTask(t, r) ==
  /\ status' = [status EXCEPT ![t] = "IN_PROGRESS"]
  /\ owner' = [owner EXCEPT ![t] = r]
  /\ queue' = queue \ {t}
  /\ UNCHANGED failures

(* Faulty variant of FailTask: one retry more than max_retries.             *)
FailTaskOneMore(t, r) ==
  /\ failures' = [failures EXCEPT ![t] = @ + 1]
  /\ sent' = [sent EXCEPT ![t] = {}]
  /\ IF failures[t] <= MaxRetries
       THEN /\ status' = [status EXCEPT ![t] = "PENDING"]
            /\ owner' = [owner EXCEPT ![t] = Pin[t]]
            /\ queue' = queue \cup {t}
       ELSE /\ status' = [status EXCEPT ![t] = "FAILED"]
            /\ owner' = [owner EXCEPT ![t] = IF @ = NoRobot THEN r ELSE @]
            /\ queue' = queue \ {t}

FailTask(t, r) ==
  /\ failures' = [failures EXCEPT ![t] = @ + 1]
  /\ sent' = [sent EXCEPT ![t] = {}]
  /\ IF failures[t] < MaxRetries
       THEN /\ status' = [status EXCEPT ![t] = "PENDING"]
            /\ owner' = [owner EXCEPT ![t] = Pin[t]]
            /\ queue' = queue \cup {t}
       ELSE /\ status' = [status EXCEPT ![t] = "FAILED"]
            /\ owner' = [owner EXCEPT ![t] = IF @ = NoRobot THEN r ELSE @]
            /\ queue' = queue \ {t}

(* _confirm_dispatch: the robot a call went to has accepted.                *)
Confirm(t, r) ==
  /\ Clear(t)
  /\ IF status[t] = "PENDING" THEN StartTask(t, r) ELSE UNCHANGED books

(* _late_start: accepted after the reservation was given up.                *)
MayStartLate(t, r, known) ==
  /\ status[t] = "PENDING" /\ inflight[t] = NoDispatch
  /\ known /\ Active(r) = {}

(* _on_robot_started; every other case only raises an alert.                *)
RobotStarted(t, r, known) ==
  \/ /\ status[t] = "PENDING" /\ inflight[t] # NoDispatch
     /\ inflight[t].robot = r
     /\ Confirm(t, r)
  \/ /\ MayStartLate(t, r, known)
     /\ StartTask(t, r)
     /\ UNCHANGED dispatch
  \/ /\ ~(status[t] = "PENDING" /\ inflight[t] # NoDispatch /\ inflight[t].robot = r)
     /\ ~MayStartLate(t, r, known)
     /\ UNCHANGED <<books, dispatch>>

-----------------------------------------------------------------------------
(* Callbacks of the manager.                                                *)

Admit(t) ==
  /\ status[t] = "unknown"
  /\ status' = [status EXCEPT ![t] = "PENDING"]
  /\ owner' = [owner EXCEPT ![t] = Pin[t]]
  /\ queue' = queue \cup {t}
  /\ UNCHANGED failures

(* A JSON request opens the batch window; a service call allocates at once. *)
OnTaskRequest(t) ==
  /\ Admit(t)
  /\ window' = TRUE
  /\ UNCHANGED <<dispatch, sent, calls, seen, fresh, lost, backoff, network, robot, runs>>

OnAssignTask(t) ==
  /\ Admit(t)
  /\ Round(queue \cup {t}, inflight, reserved, backoff, lost, outbox)
  /\ UNCHANGED <<sent, calls, seen, fresh, lost, backoff, window, network, robot, runs>>

OnBatchWindow ==
  /\ window
  /\ window' = FALSE
  /\ Round(queue, inflight, reserved, backoff, lost, outbox)
  /\ UNCHANGED <<books, sent, calls, seen, fresh, lost, backoff, network, robot, runs>>

(* A robot_state.  One that comes after assign_reconcile_s without the task *)
(* of a doubtful call lets the next timer take the reservation back.        *)
OnRobotState(r) ==
  LET c == reports[r]
      u == reserved[r]
      doubtful(t) == /\ inflight[t] # NoDispatch
                     /\ inflight[t].robot = r /\ inflight[t].stage = "late"
      looked == [t \in Tasks |-> IF doubtful(t) THEN [inflight[t] EXCEPT !.stage = "checked"]
                                                ELSE inflight[t]]
  IN
  /\ c # Unseen
  /\ reports' = [reports EXCEPT ![r] = Unseen]
  /\ seen' = [seen EXCEPT ![r] = c]
  /\ fresh' = fresh \cup {r}
  /\ lost' = lost \ {r}
  /\ \/ c \in Tasks /\ u = c /\ Confirm(c, r)
     \/ /\ ~(c \in Tasks /\ u = c)
        /\ inflight' = looked
        /\ UNCHANGED <<reserved, outbox>>
        /\ IF c \in Tasks /\ MayStartLate(c, r, r \in sent[c])
             THEN StartTask(c, r) ELSE UNCHANGED books
  /\ UNCHANGED <<sent, calls, backoff, window, requests, responses, mail, robot, runs>>

OnTaskStatus(r) ==
  LET m == Head(mail[r])
      t == m.task
      mine == status[t] = "IN_PROGRESS" /\ owner[t] = r
      called == status[t] = "PENDING" /\ inflight[t] # NoDispatch /\ inflight[t].robot = r
  IN
  /\ mail[r] # <<>>
  /\ mail' = [mail EXCEPT ![r] = Tail(@)]
  /\ \/ /\ m.status = "IN_PROGRESS"
        /\ RobotStarted(t, r, r \in sent[t] \/ r = Pin[t])
        /\ UNCHANGED sent
     \/ /\ m.status = "COMPLETED" /\ mine
        /\ status' = [status EXCEPT ![t] = "COMPLETED"]
        /\ sent' = [sent EXCEPT ![t] = {}]
        /\ UNCHANGED <<owner, failures, queue, dispatch>>
     \/ /\ m.status = "FAILED" /\ (mine \/ called)
        /\ Clear(t)
        /\ FailTask(t, r)
     \/ /\ ~mine /\ (m.status = "COMPLETED" \/ (m.status = "FAILED" /\ ~called))
        /\ UNCHANGED <<books, dispatch, sent>>
  /\ UNCHANGED <<calls, seen, fresh, lost, backoff, window, requests, responses, reports,
                 robot, runs>>

(* The answer to a call: of the dispatch that waits for it, or a late one.  *)
OnAssignResponse(p) ==
  LET current == inflight[p.task] # NoDispatch /\ inflight[p.task].call = p.call IN
  /\ responses' = responses \ {p}
  /\ \/ /\ current /\ p.ok
        /\ Confirm(p.task, p.robot)
        /\ UNCHANGED backoff
     \/ /\ current /\ ~p.ok
        /\ Abort(p.task, p.robot, lost, outbox)
        /\ UNCHANGED books
     \/ /\ ~current
        /\ IF p.ok THEN RobotStarted(p.task, p.robot, p.robot \in sent[p.task])
                   ELSE UNCHANGED <<books, dispatch>>
        /\ UNCHANGED backoff
  /\ UNCHANGED <<sent, calls, seen, fresh, lost, window, requests, mail, reports, robot, runs>>

(* The link delay of an outbox item is over.  The item is only a task id: it *)
(* sends whatever dispatch the task has by now, to that dispatch's robot.   *)
OnOutboxRelease(r) ==
  LET t == Head(outbox[r])
      d == inflight[t]
      box == [outbox EXCEPT ![r] = Tail(@)]
      waiting == d # NoDispatch /\ d.call = 0
  IN
  /\ outbox[r] # <<>>
  /\ \/ /\ waiting
        /\ sent' = [sent EXCEPT ![t] = @ \cup {d.robot}]
        /\ calls' = [calls EXCEPT ![t] = @ + 1]
        /\ inflight' = [inflight EXCEPT ![t].call = calls[t] + 1]
        /\ requests' = requests \cup {[task |-> t, robot |-> d.robot, call |-> calls[t] + 1]}
        /\ outbox' = box
        /\ UNCHANGED <<reserved, backoff>>
     \/ /\ waiting /\ "loss" \in Faults        \* the robot's service is not there
        /\ Abort(t, d.robot, lost, box)
        /\ UNCHANGED <<sent, calls, requests>>
     \/ /\ ~waiting
        /\ outbox' = box
        /\ UNCHANGED <<inflight, reserved, backoff, sent, calls, requests>>
  /\ UNCHANGED <<books, seen, fresh, lost, window, responses, mail, reports, robot, runs>>

(* The allocation timer: the dispatches whose time is up, then a round.     *)
Expired(t) ==
  /\ inflight[t] # NoDispatch
  /\ inflight[t].stage \in {"overdue", "checked"}

(* Faulty variants: no second look before a call is given up; a call that   *)
(* was sent is never given up.                                              *)
GivenUpAtOnce(t) ==
  \/ inflight[t].stage = "overdue"
  \/ inflight[t].stage = "checked" /\ seen[inflight[t].robot] # t
GivenUpUnsentOnly(t) == inflight[t].stage = "overdue" /\ inflight[t].call = 0

GivenUp(t) ==
  \/ inflight[t].stage = "overdue" /\ inflight[t].call = 0
  \/ inflight[t].stage = "checked" /\ seen[inflight[t].robot] # t

TimedRound(inf) ==
  IF window THEN inflight' = inf /\ UNCHANGED <<reserved, outbox>>
            ELSE Round(queue, inf, reserved, backoff, lost, outbox)

OnAllocationTimer ==
  /\ \/ \E t \in Tasks :
          /\ Expired(t) /\ GivenUp(t)
          /\ Abort(t, inflight[t].robot, lost, outbox)
     \/ \E t \in Tasks :
          /\ Expired(t) /\ ~GivenUp(t) /\ inflight[t].stage = "overdue"
          /\ TimedRound([inflight EXCEPT ![t].stage = "unconfirmed"])
          /\ UNCHANGED backoff
     \/ /\ \A t \in Tasks : ~Expired(t)
        /\ TimedRound(inflight)
        /\ UNCHANGED backoff
  /\ UNCHANGED <<books, sent, calls, seen, fresh, lost, window, network, robot, runs>>

(* The status timer: a robot is offline, its call and its task are given up.*)
RobotLost(r) ==
  /\ r \notin fresh \cup lost /\ seen[r] # Unseen
  /\ lost' = lost \cup {r}
  /\ IF reserved[r] # NoTask THEN Abort(reserved[r], r, lost \cup {r}, outbox)
                             ELSE UNCHANGED <<dispatch, backoff>>
  /\ \/ \E t \in Active(r) : FailTask(t, r)
     \/ Active(r) = {} /\ UNCHANGED <<books, sent>>
  /\ UNCHANGED <<calls, seen, fresh, window, network, robot, runs>>

(* The status timer: a task is in progress for longer than task_timeout_s.  *)
TaskTimeout(t) ==
  /\ "slow" \in Faults
  /\ status[t] = "IN_PROGRESS"
  /\ Clear(t)
  /\ FailTask(t, owner[t])
  /\ UNCHANGED <<calls, seen, fresh, lost, backoff, window, network, robot, runs>>

-----------------------------------------------------------------------------
(* Time.                                                                    *)

(* assign_timeout_s is over, counted from the end of the link delay;        *)
(* assign_reconcile_s after it is over, by when a prompt link has delivered *)
(* or lost what the robot was sent and has sent.                            *)
DeadlinePasses(t) ==
  LET d == inflight[t] IN
  /\ d # NoDispatch
  /\ \/ /\ d.stage = "waiting"
        /\ Prompt => \A k \in DOMAIN outbox[d.robot] : outbox[d.robot][k] # t
        /\ inflight' = [inflight EXCEPT ![t].stage = "overdue"]
     \/ /\ d.stage = "unconfirmed"
        /\ Prompt => /\ [task |-> t, robot |-> d.robot, call |-> d.call] \notin requests
                     /\ mail[d.robot] = <<>> /\ reports[d.robot] = Unseen
        /\ inflight' = [inflight EXCEPT ![t].stage = "late"]
  /\ UNCHANGED <<books, reserved, outbox, sent, calls, seen, fresh, lost, backoff, window,
                 network, robot, runs>>

BackoffOver(r) ==
  /\ r \in backoff
  /\ backoff' = backoff \ {r}
  /\ UNCHANGED <<books, dispatch, sent, calls, seen, fresh, lost, window, network, robot, runs>>

(* No robot_state of r for robot_state_timeout_s.                           *)
GoesQuiet(r) ==
  /\ "quiet" \in Faults
  /\ r \in fresh
  /\ fresh' = fresh \ {r}
  /\ UNCHANGED <<books, dispatch, sent, calls, seen, lost, backoff, window, network, robot, runs>>

-----------------------------------------------------------------------------
(* Robots: acceptTask answers and reports the start, reportStatus the end;  *)
(* the fleet adapter of the robot hears both and sends robot_state.         *)

Take(c) ==
  /\ c \in requests
  /\ requests' = requests \ {c}
  /\ \E ok \in BOOLEAN :        \* E-stop, lost, battery, payload... refuse as well
       /\ ok => job[c.robot] = NoTask /\ Len(mail[c.robot]) < MaxMail
       /\ responses' = responses \cup
            {[task |-> c.task, robot |-> c.robot, call |-> c.call, ok |-> ok]}
       /\ IF ok
            THEN /\ job' = [job EXCEPT ![c.robot] = c.task]
                 /\ adapter' = [adapter EXCEPT ![c.robot] = c.task]
                 /\ mail' = [mail EXCEPT ![c.robot] =
                               Append(@, [task |-> c.task, status |-> "IN_PROGRESS"])]
                 /\ runs' = [runs EXCEPT ![c.task] = @ + 1]
            ELSE UNCHANGED <<robot, mail, runs>>
  /\ UNCHANGED <<books, dispatch, sent, calls, seen, fresh, lost, backoff, window, reports>>

Finish(r) ==
  /\ job[r] # NoTask /\ Len(mail[r]) < MaxMail
  /\ \E end \in {"COMPLETED", "FAILED"} :
       mail' = [mail EXCEPT ![r] = Append(@, [task |-> job[r], status |-> end])]
  /\ job' = [job EXCEPT ![r] = NoTask]
  /\ adapter' = [adapter EXCEPT ![r] = IF @ = job[r] THEN NoTask ELSE @]
  /\ UNCHANGED <<books, dispatch, sent, calls, seen, fresh, lost, backoff, window,
                 requests, responses, reports, runs>>

Report(r) ==
  /\ reports[r] = Unseen
  /\ \/ reports' = [reports EXCEPT ![r] = adapter[r]]
     \/ /\ "busy" \in Faults /\ adapter[r] = NoTask
        /\ reports' = [reports EXCEPT ![r] = Busy]
  /\ UNCHANGED <<books, dispatch, sent, calls, seen, fresh, lost, backoff, window,
                 requests, responses, mail, robot, runs>>

(* The executor restarts: its task is gone and nobody is told.  The adapter *)
(* goes on reporting it until the executor takes up another.                *)
Crash(r) ==
  /\ "crash" \in Faults /\ job[r] # NoTask
  /\ job' = [job EXCEPT ![r] = NoTask]
  /\ UNCHANGED <<books, dispatch, sent, calls, seen, fresh, lost, backoff, window, network,
                 adapter, runs>>

Lose ==
  /\ "loss" \in Faults
  /\ \/ \E c \in requests : requests' = requests \ {c} /\ UNCHANGED responses
     \/ \E p \in responses : responses' = responses \ {p} /\ UNCHANGED requests
  /\ UNCHANGED <<books, dispatch, sent, calls, seen, fresh, lost, backoff, window,
                 mail, reports, robot, runs>>

-----------------------------------------------------------------------------
Manager ==
  \/ \E t \in Tasks : OnTaskRequest(t) \/ OnAssignTask(t) \/ TaskTimeout(t)
  \/ \E r \in Robots : OnRobotState(r) \/ OnTaskStatus(r) \/ OnOutboxRelease(r) \/ RobotLost(r)
  \/ \E p \in responses : OnAssignResponse(p)
  \/ OnBatchWindow
  \/ OnAllocationTimer

Environment ==
  \/ \E t \in Tasks : DeadlinePasses(t)
  \/ \E r \in Robots : BackoffOver(r) \/ GoesQuiet(r) \/ Finish(r) \/ Report(r) \/ Crash(r)
  \/ \E c \in requests : Take(c)
  \/ Lose

FNext == Manager \/ Environment

FSpec == FInit /\ [][FNext]_fvars

(* The manager's timers keep running, and of every robot either states keep *)
(* coming or it goes quiet.  Nothing else is sure to happen.                *)
TimedSpec ==
  /\ FSpec
  /\ WF_fvars(OnAllocationTimer)
  /\ \A t \in Tasks : WF_fvars(DeadlinePasses(t))
  /\ \A r \in Robots : /\ WF_fvars(OnRobotState(r) \/ GoesQuiet(r))
                       /\ WF_fvars(RobotLost(r))

(* All that is under way arrives, robots report and end what they began.    *)
FairSpec ==
  /\ TimedSpec
  /\ WF_fvars(OnBatchWindow)
  /\ WF_fvars(\E p \in responses : OnAssignResponse(p))
  /\ WF_fvars(\E c \in requests : Take(c))
  /\ \A r \in Robots : /\ WF_fvars(OnTaskStatus(r)) /\ WF_fvars(OnOutboxRelease(r))
                       /\ WF_fvars(BackoffOver(r))
                       /\ WF_fvars(Report(r)) /\ WF_fvars(Finish(r))

-----------------------------------------------------------------------------
(* The scheduler holds exactly the pending tasks: none is dispatched twice  *)
(* because a start left it in the queue, none is forgotten.                 *)
QueueExact == queue = {t \in Tasks : status[t] = "PENDING"}

(* The two sides of a reservation agree, and only a pending task has one:   *)
(* no robot stays reserved for a task that is not waiting for it.           *)
ReservationsAgree ==
  /\ \A t \in Tasks :
       inflight[t] # NoDispatch => status[t] = "PENDING" /\ reserved[inflight[t].robot] = t
  /\ \A r \in Robots :
       reserved[r] # NoTask =>
         inflight[reserved[r]] # NoDispatch /\ inflight[reserved[r]].robot = r

(* A robot carries out a task again only after a failure of it was booked,  *)
(* though calls and answers get lost and calls are repeated.                *)
SingleExecution == \A t \in Tasks : runs[t] <= 1 + failures[t]

(* In the books a robot has one task at a time.                             *)
OneTaskPerRobot == \A r \in Robots : Cardinality(Active(r)) <= 1

(* No robot stays reserved for ever by a call whose outcome is in doubt,    *)
(* whether answers get lost, the robot dies or the link sends nothing.      *)
ReservationEnds == \A t \in Tasks, r \in Robots : reserved[r] = t ~> reserved[r] # t

(* Why ReservationEnds: a booking that stays only gets closer to its end.   *)
(* The timers take its clock from stage to stage and never back, its call   *)
(* is sent once, before it is in doubt, and a late answer, a repeated round *)
(* or a report of another task does not start it anew.                      *)
Onward == {<<"waiting", "overdue">>, <<"overdue", "unconfirmed">>,
           <<"unconfirmed", "late">>, <<"late", "checked">>}

SameBooking(t) ==
  inflight[t] # NoDispatch /\ inflight'[t] # NoDispatch /\ inflight'[t].robot = inflight[t].robot

RunsOn(t) ==
  SameBooking(t) =>
    /\ \/ inflight'[t].stage = inflight[t].stage
       \/ <<inflight[t].stage, inflight'[t].stage>> \in Onward
    /\ \/ inflight'[t].call = inflight[t].call
       \/ /\ inflight[t].call = 0 /\ inflight[t].stage \in {"waiting", "overdue"}
          /\ calls'[t] = calls[t] + 1 /\ inflight'[t].call = calls'[t]

ClocksRunOn == [][\A t \in Tasks : RunsOn(t)]_fvars

(* Call numbers do their work: an answer of an earlier dispatch of the task *)
(* is never taken for the answer of another robot to the present one.       *)
AnswersMatched ==
  \A p \in responses :
    inflight[p.task] # NoDispatch /\ inflight[p.task].call = p.call =>
      p.robot = inflight[p.task].robot

(* No waiting task is forgotten: it starts, or all calls the bound allows   *)
(* have been made for it and were refused.                                  *)
Offered ==
  \A t \in Tasks : status[t] = "PENDING" ~> status[t] # "PENDING" \/ calls[t] = MaxCalls

(* A task requested for one robot never ends up with another, whichever     *)
(* late answer, status or state started it.                                 *)
PinKept ==
  \A t \in Tasks :
    status[t] \in {"IN_PROGRESS", "COMPLETED"} => Pin[t] \in {NoRobot, owner[t]}

(* A failed task is tried again max_retries times at most, over all ways to *)
(* fail it and all ways to start it again.                                  *)
RetriesBounded ==
  \A t \in Tasks : failures[t] <= MaxRetries + (IF status[t] = "FAILED" THEN 1 ELSE 0)

(* Whatever messages do, every step of the manager is one that the          *)
(* lifecycle of a task allows, or changes no record.                        *)
Lifecycle ==
  INSTANCE TaskLifecycle WITH status <- status, owner <- owner, failures <- failures
LifecycleSpec == Lifecycle!LSpec
=============================================================================
