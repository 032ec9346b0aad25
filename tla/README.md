# Verification of the AMR fleet system

TLA+ models of the fleet's decision logic, TLC configurations that check them
on small instances, and TLAPS proofs of the results that hold for every
instance. Paths are relative to the repository root; `amr_fleet` stands for
`src/amr_fleet/amr_fleet`.

## 1. Inventory

The system is a ROS 2 workspace: a fleet of delivery robots in a warehouse. One
*fleet manager* receives tasks and assigns them to robots, one *traffic manager*
keeps the robots apart in intersections and one-lane corridors, and every robot
runs an *executor* (a behaviour tree), a *fleet adapter*, a safety gate,
navigation, localization and docking. A dashboard watches and stops them.

| component | state it keeps | operations | talks to |
|---|---|---|---|
| zone tokens (`traffic_zones.py`, `ZoneTokenManager`) | tokens per zone with directions, entry marks, waits with age and overtake count | `update` (2 Hz), `reserve`, `forget`, `set_zones` | called by the traffic manager only |
| traffic manager (`traffic_manager.py`, node) | motion and stale state of robots, holds, how long robots stand | one cycle per 0.5 s timer tick; robot odometry and paths in, `traffic/hold` and yield poses out | tokens, crossing prediction, deadlock detector, incidents |
| deadlock (`deadlock.py`) and resolution (`traffic_resolution.py`) | age and reports of cycles, stall clocks; incidents with strategy, victim and pocket, attempts, cooldown, stuck sets | build the wait-for graph, confirm cycles; open and step incidents | traffic manager |
| task records (`task_state.py`) | status, robot and failures of each task | add, start, complete, fail, retry | fleet manager |
| scheduler (`scheduler.py`), allocation (`allocation.py`, `task_msg.py`) | waiting tasks | push, remove, ordered batch; greedy or Hungarian assignment | fleet manager |
| fleet manager (`fleet_manager_node.py`) | dispatches under way, reservation, last state and back-off of each robot, outbox per robot | callbacks: task request, task service, batch window, allocation timer, robot state, task status, call answer, outbox release | executors over an asynchronous service, adapters over topics |
| fleet adapter (`fleet_adapter_node.py`) | current task as it heard of it | task status in, `robot_state` out | executor, fleet manager |
| executor (`executor_context.cpp`, `task_executor_node.cpp`) and its behaviour tree (`behavior_trees/`, `bt_nodes/`) | task, phase, payload and where it came from, way back pending, charging, E-stop, lost, hold, battery; step of the task and of the charge cycle on the blackboard | accept, report, clear payload; a tree tick | fleet manager, navigation, docking, carrier |
| charger claims (`ExecutorContext::selectCharger`, heartbeat) | own claim and its start, claims heard of others | select, release, hear, heartbeat, time-out | executors of the other robots |
| safety gate (`safety_gate.cpp`, `safety_node.cpp`) | E-stop value per input, source time, latch; frame counts, stop causes, zone; what was last published | scan, cloud, command, E-stop, reset, 50 Hz timer | sensors, wheels, dashboard |
| kidnap detection (`kidnap_detector.py`, `kidnap_monitor_node.py`) | state, lost flag, evidence, budget of attempts and rotations, spin goal, trust window | AMCL, match, scan match, marker fix, initial pose, back-end poll, tick, spin accepted and result | AMCL, spin action server, operator |
| link delay (`latency.py`, `timer_queue.py`) | delayed items | push, release in link order | fleet manager |
| docking (`docking_server_node.cpp`, `docking_controller.cpp`) and its client (`ros_action_node.hpp`, `dock_at.xml`) | goal, phase, attempt, settle and stall counts, last marker id, session; stage and generation of the client | goal, cancel, marker id, marker pose, 20 Hz timer; a tree tick, answer, result | executor, marker detector, safety gate |
| navigation plugins, localization filters, perception | controllers and filters | servers and timers | executor |
| dashboard, bring-up, simulation | views, launch order, simulated carrier | web requests, timers | all robots |
| evaluation, description, messages | – | offline | – |

What is hard in it:

- *Order of one cycle.* Three paths give out tokens in one `update`. Returning,
  registering, queueing and granting read each other's results.
- *Silence.* Robots stop reporting and keep driving, or report again later.
- *Calls that may have happened.* `assign_task` is asynchronous. Its call, its
  answer, the status that follows and the periodic state all travel separately,
  and each of them can start the task in the books first.
- *Memory on both sides.* Record, dispatch, reservation, scheduler queue, outbox
  and the executor's own task have to agree through timeouts, retries and
  executor restarts.
- *Starvation.* Priorities against ageing for zones; back-off, reservation and
  batch window against waiting tasks.
- *Escalation.* Incidents climb a ladder on time-outs while robots move, stop, fall
  silent, and other incidents compete for robots and pockets; failures must rest
  and yet be taken up again.
- *Halts.* An E-stop interrupts the behaviour tree between any two ticks, and
  steps, payload, claim and way back must survive it.
- *Races without a referee.* Robots share out chargers by telling each other.
- *Memory that stops the robot.* Latches, confirmed causes and hysteresis keep a robot
  slow or standing; missing sensors must not release it, nor lock it in.
- *Goals that overlap.* Goals, answers, cancel requests and results of the docking action
  travel separately, while the tree halts, times out and sends again.
- *Sight that comes and goes.* Docking acts between frames on a prediction, and id and pose of a
  marker come on two topics.
- *Event-driven retries.* A recovery that goes on only when a goal ends, while goals are
  rejected, cancelled late, or overlap.

Properties that make the components correct: capacity of zones and true causes
of waiting (tokens); bodies apart in zones, no deadlock by tokens alone, service
of every wait (traffic); incidents apart, a ladder that goes forward, failures
reported and respected, no standing deadlock forgotten (incidents); records that
follow the lifecycle, an exact queue, agreeing reservations, no double execution,
no forgotten task (dispatch); item on board exactly in its steps, work done in the
right dock, tasks that end, a robot that gets ready again (executor); one robot
per charger (claims); the newest E-stop sample rules, stops are told at once and
stand for what was seen, and the robot moves again (safety gate); no goal without a master, docking by the
right marker that comes to an end, success only standing and seeing (docking); recoveries that
go on and trust no pose of before they were lost (kidnap). `PROJECT.json` lists the hazards line by line
with the properties that cover them.

## 2. Modules

    ZoneTokens  <--- ZoneTraffic          TaskLifecycle <== FleetDispatch
        ^                ^                  (implemented by)      ^
        |                |                                        |
    MCZoneTokens    MCZoneTraffic                          MCFleetDispatch
    ZoneTokensProofs <--- ZoneTrafficProofs                FleetDispatchProofs

    Incidents       TaskExecutor  ChargerClaims  SafetyGate  KidnapRecovery
        ^                 ^             ^            ^             ^
        |                 +-------------+-----+------+-------------+
    MCIncidents                            MCRobot
    IncidentsProofs  TaskExecutorProofs (with ChargerClaims), SafetyGateProofs,
                     KidnapRecoveryProofs

    DockGoals       Docking
        ^              ^
        +------+-------+
           MCDocking
           DockingProofs

The `MC` modules give constants their values; `*Proofs` modules hold the theorems.
Definitions named as a *faulty variant* in a comment are used by nothing: each is the
code with one plausible bug, and shows that a property depends on that detail.

### ZoneTokens

`ZoneTokenManager`. The variable `holders` is `_holders` (zone, robot,
direction of the token), `entered` is `_entered`, `known` the keys of
`_same_dir`; `waits`, `bypassed`, `before` are the request, the overtake count
and the age of the `_Wait` of each robot. Waiting ages are only ever compared, so
the model keeps the strict order `before` instead of times. `blockers` is the
result of the last cycle that the deadlock detector reads.

`Update(v)` is one call of `update` with the views `v` of all robots: return
tokens, mark entries, register robots found inside, carry waits over, grant in
priority order, count overtakings. A greedy loop in a fixed order is modelled by
the set it selects: `IsRegistration` and `IsGrant` say that a member fits beside
the holders and the members before it, and a non-member does not. That determines
the set, so `Update` is deterministic, as the code is (`Determined`, proved in section 4). `Reserve`, `Forget` and
`SetZones` are the other three public operations.

Left out: where zones come from (map geometry, `zone_visits`, `request_chain`).
A view carries what geometry would say: zones the body is in, zones still ahead
on the path, zones requested, directions, rank, and whether tokens are frozen.
A zone is its id, so the reuse of the id of an automatic corridor by a new map is
not seen.

### ZoneTraffic

Composes the token cycle with the robots it controls. `Cycle` is one tick of the
traffic manager: `_make_view` / `_stale_view` become `ViewOf`, then
`ZoneTokens!Update`, then the hold command (`_compose`). Robots come up to a
chain of zones, drive in and through when free to go, turn away, fall silent
(`obs_timeout_s`) and are heard again. `ahead` is a history variable that counts
grants to others during a wait.

Assumed of the physical robots, as the code's comments do: the request distance
is longer than a cycle's drive (a cycle sees a chain before the robot is in it),
a zone takes longer than a cycle to cross, and a held robot stops before the
zone. A silent robot drives to the end of its route but starts no new chain
unseen. A path does not change between the request of a chain and its passage
unless the robot turns away from all of it; a changed path is the exception that
`docs/algorithms/deadlock.md` (section 6, claim 5) makes, and `NoTokenCycle` fails without
that premise: that case is the deadlock detector's (`Incidents`). Silent robots stay
frozen; the release of unentered tokens after `lost_timeout_s` is documented as a
trade-off (`deadlock.md` 3.2) and not modelled. Zones in these instances are not shared.

### Incidents

The deadlock part of `TrafficManager.update` with `CycleConfirmer`, `StallDetector`
and `IncidentManager`, in active mode. One update is a chain of small steps in the
order of the code, so that what one step changes is seen by the next:

| step | code |
|---|---|
| `Observe` | the views of this cycle; `observe_progress`; sets whose immobile robot can move again leave the cooldown (`step`) |
| `StepIncident(S)` | `_step_one`: yield, escalate to a detour, next victim, resolved, unresolved |
| `Confirm` | the wait-for graph without the robots that yield, its components, `CycleConfirmer.update` |
| `OpenCycle(S)` | `open` for every confirmed cycle |
| `Watch` | `StallDetector.update` of those that ought to get ahead (`predecessors_closure`) |
| `OpenBlocked(r)` | BLOCKED by parked or immobile robots, robots in their order |
| `OpenLivelock(S)` | LIVELOCK of stalled robots close to each other |

`incidents` maps the robots of an active incident to its record, `cooldown` and
`stuck` those of a failed one to its rest and to the robots that could not move;
`fruitless` is a history variable. Times are cycles; `Worlds` are the situations an
observation may show (who drives, is parked, works, is halted, silent or gone; who
waits for whom and why; who stands; who gets nowhere), and each cycle may show any of
them. Geometry is free: pocket or none, way round or none, plan that avoids the mask or
not, others passed or not — except that the others need time (`PassAfter`) to have
left, since they have `contested_radius_m` to drive.

### TaskLifecycle and FleetDispatch

`TaskLifecycle` is the promise: the transitions of `TaskStateMachine` for each
task, with a failure and its retry in one step as the manager's callbacks make
it. `FleetDispatch` is the manager with the network and the robots, and
implements it (`LifecycleSpec`, by `INSTANCE` with the same variables).

| variable | code |
|---|---|
| `status`, `owner`, `failures` | `TaskRecord` |
| `queue` | the scheduler |
| `inflight[t]` | `_inflight[task]`: robot, which call, how far its deadlines passed |
| `reserved[r]` | `_robots[r].inflight` |
| `sent`, `calls` | `_sent`; the identity of the future of a call |
| `seen`, `fresh`, `lost`, `backoff` | `_robots[r].state`, `last_seen`, `lost`, `backoff_until` |
| `outbox` | `_outbox` and its delay queue, per robot |
| `window` | the batch timer is armed |
| `requests`, `responses`, `mail`, `reports` | service calls, answers, `task_status`, `robot_state` under way |
| `job`, `adapter` | the executor's task; the adapter's `_current` |
| `runs` | history: how often a robot took the task up |

Every callback is one action, since the node's executor has one thread; an
allocation round that a callback runs (`Round`) is part of its action. A timer
callback that loops over dispatches, robots and tasks is modelled as several
steps in a row. That is coarser only in allowing other callbacks in between.
Which tasks enter a batch and who gets them (`Allocations`) is any choice of the
maximal size that respects requested robots. Zero link delay is a delay whose
release comes at once.

A dispatch's deadlines are stages: `waiting` until `assign_timeout_s` after the
call, `overdue` then, `unconfirmed` once the timer has noticed, `late` when
`assign_reconcile_s` more has passed, `checked` when a state that arrived after
that did not show the task. `Prompt` says that whatever is under way arrives or
is lost within `assign_reconcile_s`; with it a stage only advances when nothing
of the call is under way any more.

Left out: KPI, alerts, log files, parameter updates; the executor behind acceptance
and final report is `TaskExecutor`.

### TaskExecutor

`ExecutorContext` with the tree of `task_executor.xml`. The variables `task`,
`payload`, `attempted`, `pending`, `phase`, `charging` are fields of the context;
`step` and `charge` are `task_step` and `charge_step` of the blackboard, which
`ResumableSequence` keeps over halts; `branch` is the running child of `WorkOrIdle`
(task, error delay, return of a stranded payload, drive to the waiting place, charge,
cooldown after a failed charge) and `back` the place in `ReturnPayload`, a plain sequence that
forgets. `docked` is where the body stands.

The tree stands at one running action between two ticks. `Begin` enters a branch in
the order of the fallback; the `...Ends` and `...Fails` actions are a tick in which the
running action ends; `Halt` is the E-stop gate; `Deadline` is `TaskDeadline`. A traffic
hold stops actions before which `TrafficGate` stands; the robot may then drive to a
yield pose. A whole `MoveTo`, `DockAt` or recovery with its retries is one action with
the results it may have. Services and topics (`Assign`, `ClearPayload`,
`SignalChanges`, `BatteryChanges`) come between ticks: the node's callbacks run in one thread. The battery falls level by level
unless it charges: measurements that jump over a threshold, and NaN, which `updateBattery` takes for an unknown level that counts as not
low, are left out, and the proofs of the charge cycle use that (`LowBeforeCharging`). The way out of an
exception in a tick (`tickOnce`: halt the tree, phase `ERROR`) is not modelled.

### ChargerClaims

The claim part of `ExecutorContext` for several robots: `SelectNext` is
`selectCharger` when the claim cannot be kept (first node of every tick of
`charge.xml`, which starts the cycle over), `Arrive`, `Dock`, `Charged`, `Release` the
steps of the cycle. `heard[r][q]` is what r believes of q; `Hear` is a change or a
heartbeat that arrives, `Lapse` is `claim_timeout`. `Informed` is the one assumption: driving and docking
take longer than messages, so a robot that docks knows of all claims not younger than
its own. `SelectCharger` locks the claim from `charge >= 2` on (`lock_step`).

### SafetyGate

`SafetyGate::evaluate` and the callbacks of `safety_node`. A distance is its place among the
thresholds of its channel, a speed one of four levels; `counts` are the frames in a row
of each channel, `causes` is `stop_causes_`, `zone` is `zone_`; `saidZone`, `saidEstop`,
`out` are what was last published. Every callback ends in `Step`, which evaluates and
publishes if the timer runs or the result is worth telling: the zone or the stop changes, or the speed falls by one of the
four levels. The code's threshold for the last is 0.05 m/s or 0.1 rad/s; smaller reductions, which wait for the next period of
the timer, have no counterpart. `sent`, `received`, `seen`
are the samples of an E-stop input, what its two subscriptions (latched and
volatile) have delivered, and `estop_seen_`.

A low obstacle is one only the cloud can show: scans and missing clouds do not show it, a fresh
cloud does. `calm` is a prophecy for `MovesAgain`: from some moment on nothing is near,
sensors work and the controller asks for the most it may get. What limits speed without memory (command,
degraded sensors, time to collision, escape proof) is a free choice below the cap.

### KidnapRecovery

`KidnapDetector` with the callbacks of its node and the spin action server. `state`,
`is_lost`, `converged`, `spins_left`, `reinits_done`, `spin_active`, `backend_ready`,
`spin_ready` are the detector's fields; `amcl`, `match`, `registration` abstract its evidence to
what decisions tell apart. Goals are counted by where they are: `asked` (sent, not answered), `spin_goal`
(running, the node has its handle), `loose` (running, handle overwritten), `canceling`. `gone` says
that the server went away with the last goal. Clocks (`suspect_time`, `recovery_timeout`,
`cooldown`, `marker_fix_persist`) may have run out whenever they can have. The monitor's own
`initialpose` comes back within 0.5 s as the code expects. The rotation by `cmd_vel` is left out
(`fallback_cmd_vel_topic` is empty in the shipped configuration). `given` is a history variable: a pose has come from
outside (an `initialpose` of somebody else, or the back end set up again) since the last LOST declared on alarms and since the
last recovery. It says nothing of which pose is accepted in the end: the own search may seed another one while the
window is open (`on_spin_done`).

### DockGoals

The subtree `DockAt` with its action client and the goals of the docking server. `place` says where the subtree
is (`TickDock` for `GuardedDock`, `Recovered` for the end of `RecoverDocking`, which is counted); `stage`,
`response_received`, `handle` and `outcome` are the fields of `RosActionNode`, and `current` is the goal whose generation
the callbacks still match, so that `Invalidate` means listening to none. At the server `status` follows a goal
from `asked` to its end: `OnGoal` (with the pre-emption of a goal being cancelled), `OnCancel`, `GoalEnds`. An
answer (`Answer`), a result (`Result`) and a cancel request (`cancels`) may come at any time after what they
answer; only requests for goals keep their order. `excused` is a history variable: goals a hold or a halt gave up.
A tree that is halted starts `DockAt` anew.

### Docking

`docking_server_node` with `DockingController`. An action of the timer is a whole `controlStep`: the goal's
step (`Update`, or `GoalCanceled`), then the session (`ExclusionStep`). Time is counted in control steps.
In every step the robot is anywhere among the thresholds of the controller (`Servo`), so that all
hysteresis and every order of phases is met. The detector publishes an id, then a pose; the single-threaded executor
takes up what has come (`Wait`: at most one sample of a subscription) and runs ids first (`PoseTurn`).
A pose is its marker; one that is ambiguous, degenerate or without a transform changes nothing. Goals for
docks without a marker in the table, the pose topic without covariance and the fix from foreign markers
are left out. `still` is a history variable. That only the dock's own marker is tracked (`OwnMarker`) holds if
frames are each handled before the next event (`AtOnceSpec`), or if there is one marker only; section 5 says what happens otherwise.
`StepsLeft` is the measure behind `DockingEnds`: the control steps a goal may still take.

## 3. Runs

Every run stays below three minutes on two workers. The runs check the properties that need several steps to
break. The type invariants are left to the proofs, and so is what section 4 says of every instance and no run
repeats (`VictimCommanded`, `PinKept`, `AnswersMatched`, `RetriesBounded`, `Determined`, and the measures `ClocksRunOn` and `StepsRunOut`);
TLC agreed with each on these instances before it was proved.

| run | instance | shows |
|---|---|---|
| `tokens_all_views` | 2 robots, an intersection and a shared corridor, all kinds of views, all four operations | capacity (`Exclusive`), entry marks (`EnteredHeld`) |
| `traffic` | 3 driving robots, chains in both orders; any robot that is free to go may fall silent and drive on; or (`flow`) all observed, the one of lowest priority needs both zones and the others keep crossing one each | `BodiesApart`, no cycle of waits by tokens alone (`NoTokenCycle`), `OvertakeBound`, every wait names a cause, only true ones, and nobody seen in a wanted zone is missing (`WaitExplained`); `MCServed`: the starvation guard works against a never-ending flow |
| `traffic_silent_waiters` | 2 robots; those that were refused may fall silent too | *violated*, see findings |
| `traffic_documented_bound` | 3 robots, all observed | *violated*, see findings |
| `dispatch_prompt` | 1 task, 2 robots, losses, slow answers, busy robots, executor restarts, one retry, bounded link | `SingleExecution`: without a booked failure a task is taken up once; the refinement `LifecycleSpec` |
| `dispatch_pairs` | 2 tasks (one pinned), 2 robots, losses | `OneTaskPerRobot` |
| `dispatch_reserved` | 1 task, 2 robots, one retry, unbounded link, losses, silence; only timers and reports are fair | `QueueExact`, `ReservationsAgree`, `ReservationEnds` |
| `dispatch_offered` | 2 tasks, 1 robot that may refuse, everything delivered | `Offered` |
| `incidents` | 4 robots, 2 pockets, four situations that may follow each other in any order | `IncidentsApart`, `LadderForward`, `FailureReported`, `FailureRespected`, `CyclesHandled` |
| `incidents_recovery` | 2 robots face each other, one in E-stop or not | *violated*, see findings |
| `robot` | one machine of a robot at a time, or 2 robots at 2 chargers | executor: `PayloadAtStep`, `DockedToHandle`, `ChargeUndisturbed`, `ReadyWhenIdle`, `BegunTaskEnds`, `Available`; claims: `OneRobotPerCharger`, `DocksWhereDriven`; gate: `EstopKept`, `StopPublished`, `StandsForLow`, `MovesAgain`; kidnap: `RecoveryGoesOn`, `AliasNeedsOutsidePose` |
| `docking` | DockAt with at most 3 goals, 2 attempts, a hold, a halt; or the server with one marker whose frames wait, or two whose frames are handled at once | `NoOrphan`, `DockedByLast`, `ApproachesBounded`, `MCDockAtEnds`; `BySight`, `OwnMarker`, `MCDockingEnds` |

**Bounds.** Two zones are enough for a chain, an overlap in part and two opposite
orders; the third robot is what makes overtaking, reservation for a starving
robot and a three-way queue possible. `MaxBypass = 1` makes starvation reachable
in two cycles. For dispatch, two robots show every confusion about where a task
is, two tasks every confusion about what a robot has. `MaxCalls` (calls per task)
bounds the retries of the allocation round, `MaxMail` the status messages of a
robot under way; a robot whose mailbox is full waits with its next message. One
retry (`MaxRetries = 1`) allows a failure of an earlier attempt to meet the next.
`OneTaskPerRobot` is checked with `MaxRetries = 0`, the shipped
`max_task_retries`: with retries, an answer that outlives its attempt starts the
retried task in the books on a robot that does not run it (listed as a hazard).

Incidents: four robots are the fewest for two incidents side by side, and the four
worlds are two deadlocks at once (`Pairs`), a deadlock beside a parked robot that blocks two
others (`Parked`), robots facing one in E-stop and one behind a silent one (`Halted`), and robots that move in vain
(`Dance`). All time-outs are one or two cycles, in the order of the shipped values: `EscalateAfter` <
`YieldTimeout`, `ReplanGrace` < `AltTimeout`; `DeadlockMax = 2` lets an incident go through two rungs before
it is cut off, `MaxAttempts = 1` makes the count matter in the second incident.

Robot: the executor and its environment are finite without a bound. `MaxTime = 3` gives two robots at
two chargers four instants to claim, so that they claim at once, one after the other, and again after giving
way. E-stop inputs have 3 and 1 samples (`MCMaxSamples`): press, release and press again over
two subscriptions. `MCSights` shows one near thing at a time or two of different kinds; the
pairs left out change neither causes nor caps. `ReinitRetry = 2`, `SpinRetry = 1` and
`ConvergeCount = 2` make every counter reach its middle and its end; with `MaxGoals = 2` a goal overlaps
the one it replaces. The machines of `robot` share no variable, so one run takes one of them at a time
(`part`): the states add up instead of multiplying, and no behaviour of a machine is lost.

Docking: with three goals one that is given up, one that is refused and one more meet; holds and halts come once. Counts
and time-outs of the controller are a few steps, in the order of the shipped values: `FreshSteps` <
`MarkerTimeout` < `AttemptTimeout`, and `SettleFrames = 2` has a middle and an end. Queues are one deep, as
the subscriptions lose the oldest sample. The two machines share no variable, so `part` chooses as in `robot`.

**Deadlock** is checked in `tokens_all_views`, in the incident runs and in `robot`,
and in `docking`, where some step is always possible (`AtRest` lets a `DockAt` that has ended stand). The other systems really stop: robots that all wait
for observation or have nothing more to do, tasks that are all finished within the bounds.

**Fairness.** `FairTSpec`: the 2 Hz timer keeps firing (weak fairness of
`Cycle`), a robot free to go enters and leaves zones (the docstring of
`traffic_zones.py` states the premise that every stay in a zone ends). Robots
need not come up to zones and need not turn away. `FairISpec`: weak fairness of the
whole cycle, since every step of it is part of one timer callback; what the next
observation shows is not fair to anybody, so `CyclesHandled` speaks of a deadlock that stands for good.
`TimedSpec`: the allocation timer runs, deadlines pass, states of a robot are handled or it goes quiet, and a
quiet robot is noticed; nothing is assumed of calls, answers or task status.
`FairSpec` adds delivery and robots that report and finish; `Offered` needs it,
since a robot that never reports is no candidate. `FairESpec` (in `MCSpec`): the tree is
ticked, actions come to an end where they can, the deadline comes; signals, holds and new tasks need
not. `BegunTaskEnds` and `Available` name the calm they need as a premise. `FairGSpec`: once calm, the
timer runs, samples arrive and somebody asks for the reset. `DFairness`: the tree ticks, messages arrive, the
server handles what it was sent and ends its goals, which `MCDockingEnds` shows of it; holds need not end.
`DockSpec`: the 20 Hz timer fires, while nobody need cancel a goal, drive away or show a marker.

## 4. Proofs

`ZoneTokensProofs` proves for every set of robots, zones, directions and views,
and every `MaxBypass` (assumptions: those named in `ZoneTokens`; robots are a
finite set of integers because ties are broken by identifier, directions agree
symmetrically):

- `TypeCorrect`: `Spec => []TypeOK`.
- `TokensOfKnownZones`, `MarksHeld`: tokens only for known zones, an entry mark
  only with its token. Both are inductive with the type invariant; the return
  step drops the mark with the token, registration and grant add tokens before
  marks, `SetZones` drops both.
- `ExclusiveTokens`: capacity. Inductive with the type invariant. A table stays
  exclusive when tokens are removed; a registration fits beside the holders and
  the registrations before it, so of two new tokens for a zone the later one
  was checked against the earlier; the same for grants, where of two robots in the
  grant set one precedes the other because the grant order is total on robots
  that need tokens.
- `BoundedOvertaking`: `BypassBound`. A refused robot that was starving keeps its
  zones reserved, so no later robot can be granted them: its count does not rise.
  One that was not starving had at most `MaxBypass - 1` and gains at most the
  number of other robots.
- `AgesOrdered`: `AgeOrder`. Who goes on waiting keeps its place among those who do, and
  all of them come before who begins to wait, so a strict weak order stays one.
- `CausesNamed`: `Spec => CyclesNameCauses`. After `Update`, for any views, every robot that waits names a cause and every
  cause holds a wanted zone or starves for one (`CausesTrue'`), whether it began to wait, went on, or named the same before. A refused robot has a zone that it does not fit or that is
  reserved; in the first case a holder or a robot served before it is named, in the second the first of the
  starving robots, which exists because the order of the pass is total and, by `AgeOrder`, strict among them.
- `CyclesAreDetermined`: `Determined`. The cycle is written by relations (a registration, a grant in the order of the pass), and
  they have one solution each, for any tokens, waits and views: both are greedy passes along a strict order of a
  finite set (`GreedyPass`), so the first robot on which two solutions differ has the same robots before it in both and fits in
  both or in neither, and a solution is built from that of one robot less. So `Update` is neither blocked nor open where the code's
  loops over sorted robots are neither. That the order is strict needs `AgeOrder`, since starving robots go by age.

`ZoneTrafficProofs` proves of the robots under these tokens, for every set of robots, zones, chains
and priorities and every `MaxBypass`:

- `TTypeCorrect`: `TSpec => []TTypeOK`, together with the invariants of the tokens (`TokenInv`), which are
  carried over by the lemmas about one cycle. Robots have no direction here, so two never hold one zone.
- `BodiesStayApart`: `BodiesApart`, if a robot whose observations stop was free to go (`Silence # "any"`; the run
  `traffic_silent_waiters` shows that it fails otherwise). The invariant `DriveInv` says that a robot
  free to go holds the tokens of all zones ahead, seen or not, and one that holds that of the zone it is in.
- `TokensNeverDeadlock`: `NoTokenCycle`, if besides no chain crosses a zone twice (`EachOnce`). `ChainInv` says that
  who waits holds nothing: tokens of zones ahead are unused while the robot is free to go, so no cycle takes
  them back one by one, and what a robot holds when its path comes up to a new chain goes back in one cycle. Hence
  among waiting robots only a starving one blocks another, and it precedes it in the pass; the first of them is
  blocked from outside.
- `OvertakingBounded`: `OvertakeBound`. `CountInv` says that grants past a waiting robot and the robots that
  began to wait no later are together no more than the overtakings counted and the other robots: a grant is
  counted or serves such a robot, and who comes back is younger.
- `WaitsExplained`: `WaitExplained` in every state, also between cycles, with the same hypothesis on silence. A cycle
  makes the causes true (`CycleExplainsWaits`, from the lemmas behind `CausesNamed`); driving changes no token. That nobody seen in a wanted
  zone is missing needs `SeenInv`: a robot seen in a zone holds its token after the cycle, so it is among the holders named.
- `TrafficImplementsTokens`: `TSpec => TokenSpec`. What drives the table is `ZoneTokens` with `Update` alone: an initial state of the
  robots is one of the table, a cycle presents views of the type `ZoneTokens` allows, and driving leaves the table alone.

`FleetDispatchProofs` proves for every set of tasks and robots, every pinning,
number of retries and combination of faults, with or without a time bound on the
link (assumptions: `ConstantsAssumption`, that the empty ids and what stands for an unseen or busy robot
are no ids of tasks and robots, and `DispatchAssumption`, that "no dispatch" is not a dispatch):

- `TypesCorrect`: `FSpec => []FTypeOK`.
- `QueueIsExact`: the scheduler holds exactly the pending tasks. Seven callbacks
  touch the records, but each in one of four ways (`RecordStep`: admission, a start
  of a pending task, a failure of a pending or running task, a completion of a
  running one), and each way keeps the queue exact.
- `ReservationsAlwaysAgree`: dispatches and reservations name each other and only
  for pending tasks. Callbacks go through intermediate tables (a dispatch is
  cleared and the same callback runs an allocation round on what is left), so the
  relation is stated of any tables (`Agree`) and shown to survive a clear, a
  change of stage and a round: a round books only tasks without dispatch for
  candidates without reservation, each at most once.
- `LifecycleImplemented`: `FSpec => LifecycleSpec`. Initial states map to initial
  states, and each of the four record operations is a step of `TaskLifecycle`.
  Only the fact that a running task has a robot is needed of the state
  (`OwnerKnown`: a task timeout fails the task on behalf of its owner).
- `PinsAreKept`: `FSpec => []PinKept`. A start needs a dispatch, an answer, or that the task was sent to the
  robot; `PinInv` says that each of those names the robot the task was requested for.
- `ExecutionIsSingle`: `SingleExecution`, if the link delivers or loses what it has within
  `assign_reconcile_s` (`Prompt`) and the states of the robots keep coming (no `"quiet"` among `Faults`); refusals, losses,
  slow answers and restarts are allowed, and any number of retries. Calls that are still under way have to be counted
  with the executions (`Spent`), since each may become one: `SingleInv` says that `Spent` is at most one above the failures booked,
  and not above them (`Slack`) while another call may be made (`Unsent`). `CallAccounted` follows a call in between: it
  is under way, or the robot's message that it took the task is, or nothing came of it, which is certain when the manager
  gives it up. Without `Prompt` a call given up may still arrive, and without states a robot is taken for lost while
  its call is under way: then a task may be taken up twice, as the docstring of the node says.
- `OneTaskForEachRobot`: `OneTaskPerRobot`, under the same hypotheses and with `MaxRetries = 0`, the shipped
  `max_task_retries`. `PairInv` says that a dispatch's robot has nothing in progress (`Apart`). An answer, message, job or report
  is `Evidence` of an execution, of which by `ExecutionIsSingle` there is one for each task, so all of them are of
  the one call, and of its robot (`CallsKnown`). With retries a late answer of an earlier attempt breaks it (a hazard in the list).
- `BookingsOnlyAge`: `FSpec => ClocksRunOn`, with any link. A booking that stays goes through its stages in their order, one at a
  time and never back, and its call is sent once and not after it came into doubt. Hence `ReservationEnds` needs no more than that timers
  and states keep coming. A round may book the given-up task again in the same callback, but not for the same
  robot, which `Abort` puts into `backoff` first: that this is the robot of the booking needs `ReservationsAgree` for a
  lost robot and, for a refusal, `Numbered`: of the calls and answers under way the one with the number of a booking is one
  of its robot. `AnswersOfTheBookedRobot` (`AnswersMatched`) is that part for answers.
- `RetriesAreBounded`: `RetriesBounded`, from the four ways the records change: a task fails `max_task_retries` times and once
  more, and then for good, whether its robot, the silence of it or a timeout fails it.

The inductive invariant `IInv` is `FTypeOK`, `QueueExact`, `OwnerKnown` and
`ReservationsAgree` together. Agreement is not inductive alone: a round
dispatches from the queue, so that it books pending tasks only needs the exact
queue; that in turn needs `OwnerKnown`, since a task timeout clears and fails on
behalf of the owner in the books. `MaxCalls` and
`MaxMail` bound the model for TLC; the proofs hold for every value of them.

`KidnapRecoveryProofs` proves for every number of attempts, rotations, converged updates and
goals (assumption: `RetryAssumption`):

- `KTypeCorrect`: `KSpec => []KTypeOK`.
- `RecoveryNeverSilent`: `KSpec => []RecoveryGoesOn`. Not inductive alone: a goal that is under way
  while a recovery starts may be cancelled without a replacement, so the invariant `KInv` adds
  what ties `spin_active`, `spin_ready` and the goals together, and that a lost robot is recovering or
  has failed.
- `OldPosesNeverTrusted`: `KSpec => AliasNeedsOutsidePose`. Trust opens only with a pose from outside; a LOST declared
  on alarms and a recovery close it, and whatever starts `given` anew closes it too: an open window implies `given`. The theorem
  does not say that the pose accepted is the one that was given, nor does it hold of a LOST declared by a marker: section 5.

`IncidentsProofs` proves for every set of robots, pockets and situations and every time-out
(assumptions: robots are a finite set of naturals, their rank is total, a situation has nobody wait for
itself, as `WaitForGraph.add` drops such edges):

- `ITypeCorrect`: `ISpec => []ITypeOK`.
- `IncidentsStayApart`: `IncidentsApart`. The openers of one cycle run after each other; `OpenCycle` works off
  a list made before them. So the invariant says of that list (`TodoSound`) that its sets meet neither each other
  nor an incident, which holds since two strongly connected components are the same or disjoint.
- `VictimIsCommanded`: `VictimCommanded`. A record is well-formed (`AllGood`): its victims are robots of the
  incident, and its strategy is carried out in one way. That a list of victims is never used up without a failure
  being booked is `at <= Len(victims)`.
- `LadderGoesForward`: `ISpec => LadderForward`. Every step either opens, ends or keeps an incident, or moves it
  forward (`_next_victim`, `_start_alt`); `AgeBound` says that only an incident this cycle has not stepped yet
  may be overdue.
- `FailuresAreRespected`: `ISpec => FailureRespected`. `FailedIsOver` ties `stuck` to an unlimited rest:
  only the release of a stuck set ends it.
- `FailureIsReported`: `FailureReported`. A sum over all robots of their failed attempts, written as a set: a robot with
  k attempts has the marks 1 to k (`MarksOf`). An incident has two robots or more, so it makes two marks or more, and `CountInv` says
  that the incidents without progress are no more than half of the marks. A robot that is given up, or gets ahead, sets the count
  back; before, nobody has more than `MaxAttempts`, so there are at most `MaxAttempts` times the robots many marks.

`TaskExecutorProofs` proves for both values of `accept_while_returning` `ETypeCorrect`,
`ItemOnBoardInItsSteps` (`PayloadAtStep`), `HandlesWhereDocked` (`DockedToHandle`),
`ChargesUndisturbed` (`ChargeUndisturbed`) and `IdleIsReady` (`ReadyWhenIdle`). The four support each other
and need five facts beside them: only the branch of the task carries it out, and one taken on the way to the
waiting place is at step 0 (`BranchOfTask`); a running branch shows a phase that accepts nothing (`PhaseOfBranch`), which
is what keeps `Assign` away from a charge or a return; with a claim only the charge cycle runs, also while halted
(`ClaimedForCharge`), so that the step of a task and the step of a charge are never both under way; a charge that has
not docked yet has a low battery, hence begins again after a halt (`LowBeforeCharging`); a failed charge leaves
nothing (`CooledDown`).

Of the claims the same module proves for any robots, chargers, preferences and times `CTypeCorrect`,
`NeverTwoAtACharger` (`OneRobotPerCharger`) and `DocksWhereItDrove` (`DocksWhereDriven`). Assumed are robots with
ordered identifiers and, in the guard of `Dock`, that messages are faster than driving (`Informed`). The invariant says that whoever
claims the charger of a docked robot claimed it later (`DockedFirst`): a robot that docks has heard all claims that
are not younger, and later claims have a later time (`ClaimsPast`); two docked robots would each be first.

`SafetyGateProofs` proves for any E-stop inputs, numbers of samples and sights `GTypeCorrect`,
`NewestEstopKept` (`EstopKept`), `StopIsPublished` (`StopPublished`) and `LowObstacleKept` (`StandsForLow`). The invariant adds
`SeenIsNewest`, which says that `estop_seen_` is as far as the better of the two subscriptions has come, and
`FacingHeld`, which says that a robot before a low obstacle has the cloud among its causes, so only a cloud can
clear it, and a cloud shows the obstacle.

`DockingProofs` proves of `DockGoals`, for any numbers of attempts, goals, holds and halts (assumptions:
`AttemptsAssumption`, `BoundsAssumption`):

- `DTypeCorrect`, `NoGoalIsOrphaned` (`NoOrphan`), `DocksByItsLastGoal` (`DockedByLast`). The invariant `Books` says which goals
  each side knows: goals are numbered in the order they were sent (`Numbered`), the server answers them in that order
  and accepts one only when the earlier ones are over (`InOrder`), and what the node remembers agrees with the stage it is in (`Listens`, `Stages`).
- `ApproachesAreBounded` (`ApproachesBounded`). `Counts` says that, but for the goals that holds and halts gave up, there is at
  most one for each failed attempt and one for this attempt.

Of `Docking`, for any markers, queue depths, counts and time-outs (assumptions: `StepsAssumption`, `MarkersAssumption`):

- `DockTypeCorrect` and `DocksBySight` (`BySight`), from an invariant that adds to the types what the controller's counts
  say of the phase they are in (`Settling`, `Commanded`). The type invariant was first stated with `SettleFrames` as the limit of
  the stall count; the proof failed, since a robot that has not turned yet counts as well (`docking_controller.cpp`:373), which the
  time-out of an attempt hides in the small instance. `Servo` counts as the code does, and the limit is twice that.
- `DocksByItsOwnMarker`: `AtOnceSpec => []OwnMarker`. `OneFrame` says where the single frame under way is, so that the id
  that vouches for a pose is that of its own frame.
- `GoalsRunOut`: `DockSpec => StepsRunOut`. Align and approach, final and stall, lost and found alternate as the markers please, and
  still every control step takes from `StepsLeft`: within an attempt its clock runs, whatever the phase; every further attempt has a share that includes the steps
  back that lead to it, which `waited` counts. The invariant
  ties the clocks to the phases (`Timed`): on the way back `waited` is below `BackingSteps`, elsewhere `spent` is within the time-out.

Stated as theorems are all invariants the runs check, and all action properties. Only model-checked is liveness, which is out of the
prover's reach: `MCServed`, `ReservationEnds`, `Offered`, `CyclesHandled`, `BegunTaskEnds`, `Available`, `MovesAgain`, `MCDockAtEnds`,
`MCDockingEnds`. Of several of them the safety core is proved, which fairness then turns into an end: `OvertakingBounded`
for `MCServed`, `BookingsOnlyAge` for `ReservationEnds`, `LadderGoesForward` for `CyclesHandled`, `GoalsRunOut` for `MCDockingEnds`.

## 5. Findings

- *Documented overtake bound* (`traffic_documented_bound`). The docstring of
  `traffic_zones.py` and `docs/algorithms/deadlock.md` bound the robots served
  before a waiting one by `max_bypass + (n - 1)`. Overtakings are counted once per
  cycle, after its grants, so the cycle that makes a robot starve may serve all
  others, and robots that began to wait no later go first as well:
  `max_bypass - 1 + 2(n - 1)` (`OvertakeBound`).
- *A refused robot that falls silent is let go* (`traffic_silent_waiters`). A
  stale view has no request, so `_tokens` has no wait and `_compose` publishes
  `hold = false` for a robot that was held back from an occupied zone. If only
  its localization output stopped, it drives in. The module and
  `docs/algorithms/deadlock.md` describe stale robots as handled fail-closed.
- *A deadlock is never taken up again* (`incidents_recovery`). When a robot that could not move can
  again in the cycle right after its incident failed, `IncidentManager.step` takes the
  set out of the cooldown before that cycle's candidates are computed. `CycleConfirmer` then never
  sees the cycle disappear, keeps it in `_reported` and does not confirm it again, although the comment
  there says that a new attempt may be made. The `incidents` run has no world in which that robot
  recovers within the deadlock, and there `CyclesHandled` holds.

Behaviours met while modelling that are documented or have no property:

- Pocket reservations ignore zones reserved for starving robots. An observation that
  flickers resets the age of a wait. A new map may reuse the id of an automatic corridor for another place.
- After an executor restart the adapter goes on reporting the lost task, so the robot is no candidate
  until it takes up another. With an unbounded link a task may be taken up twice (the node's docstring accepts
  this and raises `TASK_CONFLICT`). Reports carry no attempt number, so a late COMPLETED of an earlier attempt
  counts for the retried task.
- Chains are granted whole, but a robot that is inside without a token or whose path grows can be part of a
  wait cycle; that is left to the deadlock detector.
- With `accept_while_returning` (off as shipped) an accepted task is not under its deadline until
  the way back has ended.
- A robot may start a drive from inside a dock: after an E-stop in the `Undock` of `ReturnPayload`, after
  the deadline while docked, and after a failed backing out, which is absorbed.
- Several publishers of one E-stop topic overwrite each other's value, since values are kept per input and
  not per publisher. A safety node that restarts has forgotten its latch.
- A marker fix that declares LOST leaves the window of external trust open (`on_marker_fix`, `kidnap_detector.py`:456-514, does not go
  through `_declare_lost`), though `slam.md`:292 and 308, `kidnap_monitor.yaml`:59 and the comment at `kidnap_detector.py`:92
  say that a new LOST closes it. TLC shows it in three steps, as a violation of `[][~is_lost /\ is_lost' => ~trusted']_kvars`: an update of
  AMCL, an `initialpose`, a marker fix that contradicts it. The pose the marker has just disproved then still exempts an
  alias from `converge_margin` for what is left of the 30 s. Nor does an end of a rotation close the window: the next
  attempt seeds from the own search (`kidnap_detector.py`:565-588), and that seed is exempted as well, although `slam.md`:290-291
  gives as the reason for the exemption that the pose is not one the monitor chose.
- Overlapping or rejected goals use up
  attempts without a rotation. A `get_state` answer that never comes ends the polling of the back end.
  The time of LOST may be moved into the future by waiting times. An `initialpose` of the monitor that takes
  longer than 0.5 s to come back is taken for an outsider's, and an outsider's within that time is dropped.
- An action node that waits for a result has no time-out of its own; in the charge cycle no deadline is above it.
  A docking goal given up on time goes on driving until its late answer has cancelled it, while the tree backs out.
  A hold may cost a docking attempt although `dock_at.xml` says that it does not count: `onGoal` lets the new goal pre-empt
  the old one only when the cancel request, which travels on another service, has come before it. With
  frames that wait in the queues the id of a later frame may vouch for the pose of a neighbour's marker. The frames in
  which a robot settles need not be in a row: a step without a fresh observation does not reset their count.
  A marker hidden at the dock for longer than `exclusion.marker_timeout` ends the session of a docked robot.

## 6. Not modelled

- *Continuous or numeric*: zone extraction, `zone_visits`, pocket search and keep-out masks, crossing
  prediction, swept footprints and times to collision, control laws of docking, planners and yield behaviour of the
  navigation plugins, filters and scan matching, detection and tracking. Where a modelled component asks
  them, their answer is a free choice. These are most of the repository's lines.
- *Data without state*: schema validation, status codes, KPI, alert wording, parameters, messages, robot
  and world descriptions, launch files.
- *Outside of the robots*: dashboard, bring-up, simulation and evaluation watch or start
  the system. Of the dashboard's E-stop (`estop.py`), a reset answer that comes after the wait was given up
  rewrites the outcome reported; the lifecycle watchdog remembers a transition it asked for and does not ask a
  node again that falls back to the same state. Neither feeds a decision of a modelled component.
- *Within modelled components*: the passive traffic mode, crossing holds (facts of the wait graph in
  `Incidents`), release of tokens of lost robots, shared zones in `ZoneTraffic`, the scheduler's sort
  key and the optimality of an assignment, object memory and docks table of the executor, two publishers of
  one E-stop input, the rotation by `cmd_vel`, relocalisation from foreign
  markers in the docking server.
