------------------------------ MODULE Incidents ------------------------------
(***************************************************************************)
(* Deadlocks and their resolution: deadlock.CycleConfirmer and             *)
(* StallDetector, traffic_resolution.IncidentManager and the part of       *)
(* TrafficManager.update that opens incidents (active mode).  A cycle of   *)
(* update() is a chain of steps: Observe, one StepIncident per incident,   *)
(* Confirm and one OpenCycle per confirmed cycle of waits, Watch and the   *)
(* OpenBlocked and OpenLivelock of the waits without a cycle.              *)
(*                                                                         *)
(* What geometry decides is chosen freely: whether there is a pocket or a  *)
(* way round, whether the others have passed, whether a plan avoids the    *)
(* mask, which stalled robots are close to each other.                     *)
(***************************************************************************)
EXTENDS Integers, Sequences, FiniteSets

CONSTANTS
  Robots,         \* robot ids, in the order of their names
  Rank,           \* robot |-> its place in the order of importance (1 first)
  Pockets,        \* places to yield at
  NoPocket,
  Worlds,         \* what a cycle may observe
  ConfirmAfter,   \* confirm_s, in cycles; likewise the bounds below
  PassAfter,      \* a robot that drives needs as long to leave its place
  IdleBlock, StallAfter, EscalateAfter, YieldTimeout, ReplanGrace, AltTimeout,
  DeadlockMax, Cooldown,
  MaxAttempts     \* max_attempts_per_robot

Groups == {S \in SUBSET Robots : Cardinality(S) >= 2}
Kinds == {"driving", "parked", "working", "halted", "silent", "gone"}
Reasons == {"token", "crossing", "block"}

ASSUME RobotsAssumption == Robots \subseteq Nat /\ IsFiniteSet(Robots)
ASSUME RankAssumption ==
  /\ Rank \in [Robots -> 1..Cardinality(Robots)]
  /\ \A r, q \in Robots : Rank[r] = Rank[q] => r = q
ASSUME WorldsAssumption ==
  /\ Worlds \subseteq [view: [Robots -> Kinds],
                       waits: SUBSET (Robots \X Robots \X Reasons),
                       standing: SUBSET Robots, vain: SUBSET Robots]
  /\ \A w \in Worlds : \A e \in w.waits : e[1] # e[2]   \* WaitForGraph.add
ASSUME BoundsAssumption ==
  /\ {ConfirmAfter, PassAfter, IdleBlock, StallAfter, EscalateAfter, YieldTimeout, ReplanGrace,
      AltTimeout, DeadlockMax, MaxAttempts} \subseteq Nat
  /\ Cooldown \in Nat \ {0}
ASSUME PocketAssumption == NoPocket \notin Pockets

VARIABLES
  world,       \* what this cycle has observed
  incidents,   \* robots of an active incident |-> its progress
  attempts,    \* robot |-> incidents since it last made progress
  cooldown,    \* robots of a failed incident |-> cycles until it may be opened
  stuck,       \* likewise |-> those of them that could not move
  firstSeen,   \* robots of a cycle of waits |-> its age
  reported,    \* cycles that have been confirmed
  still,       \* robot |-> cycles it has stood for (up to IdleBlock)
  stall,       \* robot |-> cycles without progress (up to StallAfter)
  stage,       \* how far this cycle has come
  todo,        \* incidents to step, or cycles to open, in this stage
  turn,        \* robots up to this one have been looked at for BLOCKED
  fruitless    \* incidents since the last failure or progress (history)

open == <<incidents, attempts, cooldown, stuck, stall, fruitless>>
seen == <<world, still>>
cycles == <<firstSeen, reported>>
ivars == <<open, seen, cycles, stage, todo, turn>>

Never == -1   \* a cooldown without end

Incident ==
  [victims: Seq(Robots), at: Nat, strategy: {"YIELD", "ALT_PATH"},
   pocket: Pockets \cup {NoPocket}, mask: BOOLEAN, age: Nat, elapsed: Nat,
   immobile: SUBSET Robots, plans: 0..2]

ITypeOK ==
  /\ world \in Worlds
  /\ DOMAIN incidents \subseteq Groups
  /\ \A S \in DOMAIN incidents :
       /\ incidents[S] \in Incident
       /\ incidents[S].at \in DOMAIN incidents[S].victims
  /\ attempts \in [Robots -> Nat]
  /\ DOMAIN cooldown \subseteq Groups
  /\ \A S \in DOMAIN cooldown : cooldown[S] \in 1..Cooldown \cup {Never}
  /\ DOMAIN stuck \subseteq DOMAIN cooldown
  /\ \A S \in DOMAIN stuck : stuck[S] \in SUBSET S
  /\ DOMAIN firstSeen \subseteq Groups
  /\ \A S \in DOMAIN firstSeen : firstSeen[S] \in 0..ConfirmAfter
  /\ reported \subseteq Groups
  /\ still \in [Robots -> 0..IdleBlock] /\ stall \in [Robots -> 0..StallAfter]
  /\ stage \in {"step", "cycles", "blocked", "livelock"}
  /\ todo \subseteq Groups /\ turn \in Nat /\ fruitless \in Nat

-----------------------------------------------------------------------------
(* Views of the robots (RobotView).                                         *)
Present(r) == world.view[r] # "gone"
Active(r) == world.view[r] \in {"driving", "halted"}
Mobile(r) == world.view[r] \in {"driving", "parked", "working"}
Idle(r) == world.view[r] = "parked"

With(f, S, v) == [T \in DOMAIN f \cup {S} |-> IF T = S THEN v ELSE f[T]]
Without(f, sets) == [T \in DOMAIN f \ sets |-> f[T]]
Least(m, n) == IF m < n THEN m ELSE n

Victim(i) == i.victims[i.at]
Members == UNION DOMAIN incidents
InCooldown(S) == S \in DOMAIN cooldown

(* commands(): what the incidents ask of robot r.                           *)
CommandsFor(r) ==
  {[hold |-> i.strategy = "YIELD", pose |-> i.pocket, mask |-> i.mask] :
     i \in {i \in {incidents[S] : S \in DOMAIN incidents} :
              /\ Victim(i) = r
              /\ \/ i.strategy = "YIELD" /\ i.pocket # NoPocket
                 \/ i.strategy = "ALT_PATH" /\ i.mask}}

(* Incidents that were open when this cycle looked at the waits; the robots *)
(* on their way to a pocket then.                                           *)
Known == {S \in DOMAIN incidents : incidents[S].age > 0}
Yielding == {Victim(incidents[S]) : S \in {S \in Known : incidents[S].strategy = "YIELD"}}

(* The wait-for graph: a robot on its way to a pocket waits for nobody, and *)
(* robots of an incident are not stopped at a crossing.                     *)
Waits ==
  LET away == Yielding
      bound == UNION Known
  IN  {e \in world.waits :
         /\ e[1] \notin away
         /\ e[3] = "block" => e[2] \notin away
         /\ e[3] = "crossing" => e[1] \notin bound /\ e[2] \notin bound}
Successors(r) == {e[2] : e \in {e \in Waits : e[1] = r}}

(* Whichever part of S one takes, it waits for the rest of S.               *)
StronglyConnected(S, edges) ==
  \A T \in (SUBSET S) \ {{}, S} : \E e \in edges : e[1] \in T /\ e[2] \in S \ T

(* deadlock_components: the strongly connected components of two or more.   *)
Components(edges) ==
  LET strong == {S \in Groups : StronglyConnected(S, edges)}
  IN  {S \in strong : \A T \in strong : S \subseteq T => T = S}

-----------------------------------------------------------------------------
(* Steps of one incident.  Each operator gives the ways an incident of the  *)
(* robots S may go on; none of them is left when it has to be given up.     *)

Reserved(S) == {incidents[T].pocket : T \in DOMAIN incidents \ {S}}

(* _start_yield of the k-th victim: it yields only to somebody who drives.  *)
Yields(S, i, k) ==
  {[i EXCEPT !.at = k, !.strategy = "YIELD", !.pocket = p, !.mask = FALSE, !.elapsed = 0] :
     p \in {p \in Pockets \ Reserved(S) :
              Present(i.victims[k]) /\ \E r \in S \ {i.victims[k]} : Active(r)}}

(* _start_alt: a robot that drives is sent round by a keep-out mask.        *)
Detours(i, k) ==
  {[i EXCEPT !.at = k, !.strategy = "ALT_PATH", !.pocket = NoPocket, !.mask = TRUE,
             !.elapsed = 0] : j \in {j \in {k} : Active(i.victims[j])}}

(* Faulty variant of Starts: the search for a victim begins anew.           *)
StartsOver(S, i, first) ==
  UNION {Yields(S, i, k) \cup Detours(i, k) : k \in 1..Len(i.victims)}

(* _start_yield and, when victims have neither pocket nor way, _next_victim. *)
Starts(S, i, first) ==
  UNION {Yields(S, i, k) \cup Detours(i, k) : k \in first..Len(i.victims)}

(* _start_alt of the current victim, or else the next victims.              *)
StartsAlt(S, i) == Detours(i, i.at) \cup Starts(S, i, i.at + 1)

(* _passed and _others_passed: robots that do not drive have passed, those  *)
(* that cannot move are not waited for; of the others geometry tells, but   *)
(* they have contested_radius_m to go.                                      *)
Driving(S, i) == \E r \in S \ {Victim(i)} : Active(r) /\ Mobile(r)

(* _others_passed and _release_ok: the values their conjunction may have.   *)
Cleared(S, i) ==
  IF Driving(S, i) THEN (IF i.age >= PassAfter THEN BOOLEAN ELSE {FALSE})
  ELSE IF Active(Victim(i)) THEN BOOLEAN ELSE {TRUE}

(* _any_moved: somebody other than the victim has moved since the strategy. *)
Moved(S, i) == IF \E r \in S \ {Victim(i)} : Present(r) THEN BOOLEAN ELSE {FALSE}

(* A path of the victim seen first, or one other than before.  It matters   *)
(* only for a victim without an alternative.                                *)
PlansSeen(i) ==
  IF ~Active(Victim(i)) \/ Len(i.victims) > 1 THEN {i.plans}
  ELSE IF i.plans = 0 THEN {1} ELSE {i.plans, 2}

Overdue(i) == i.age > DeadlockMax

(* Same mask, same victim, more time: the only candidate, and it replans.   *)
Retryable(i) == Len(i.victims) = 1 /\ i.plans = 2

-----------------------------------------------------------------------------
Clear(f, S) == [r \in Robots |-> IF r \in S THEN 0 ELSE f[r]]

(* _resolved *)
Resolve(S) ==
  /\ incidents' = Without(incidents, {S})
  /\ stall' = Clear(stall, S)
  /\ UNCHANGED <<attempts, cooldown, stuck, fruitless>>

Continue(S, i) ==
  /\ incidents' = With(incidents, S, i)
  /\ UNCHANGED <<attempts, cooldown, stuck, stall, fruitless>>

(* Faulty variant of CooldownOf: no matter whether anybody can move again.  *)
CooldownOfAll(immobile) == Cooldown
CooldownOf(immobile) == IF immobile = {} THEN Cooldown ELSE Never

(* _unresolved: given up, the operator is called.                           *)
GiveUp(S, immobile) ==
  /\ incidents' = Without(incidents, {S})
  /\ cooldown' = With(cooldown, S, CooldownOf(immobile))
  /\ stuck' = IF immobile = {} THEN stuck ELSE With(stuck, S, immobile)
  /\ attempts' = Clear(attempts, S)
  /\ stall' = Clear(stall, S)
  /\ fruitless' = 0

(* One of the ways that are left, or none of them, as geometry has it.      *)
GoOn(S, ways, immobile) == (\E i \in ways : Continue(S, i)) \/ GiveUp(S, immobile)

(* The robots of S, mobile ones only, the least important first.            *)
VictimsOf(S) ==
  LET able == {r \in S : Mobile(r)}
      place(r) == 1 + Cardinality({q \in able : Rank[q] > Rank[r]})
  IN  [k \in 1..Cardinality(able) |-> CHOOSE r \in able : place(r) = k]

(* Faulty variant of Counted: only the robot that has to give way counts.   *)
CountedVictim(S) ==
  [r \in Robots |-> IF VictimsOf(S) # <<>> /\ r = VictimsOf(S)[1] THEN attempts[r] + 1
                    ELSE attempts[r]]
Counted(S) == [r \in Robots |-> IF r \in S THEN attempts[r] + 1 ELSE attempts[r]]

(* IncidentManager.open.  Nobody watches the progress of its robots then.   *)
Open(S) ==
  LET immobile == {r \in S : ~Mobile(r)}
      new == [victims |-> VictimsOf(S), at |-> 1, strategy |-> "YIELD", pocket |-> NoPocket,
              mask |-> FALSE, age |-> 0, elapsed |-> 0, immobile |-> immobile, plans |-> 0]
      allowed == VictimsOf(S) # <<>> /\ \A r \in S : Counted(S)[r] <= MaxAttempts
  IN  \/ /\ allowed
         /\ \E i \in Starts(S, new, 1) : incidents' = With(incidents, S, i)
         /\ attempts' = Counted(S)
         /\ fruitless' = fruitless + 1
         /\ stall' = Clear(stall, S)
         /\ UNCHANGED <<cooldown, stuck>>
      \/ GiveUp(S, immobile)

-----------------------------------------------------------------------------
Expired == {S \in DOMAIN cooldown : cooldown[S] = 1}

(* A view that is not stale may show that a robot with attempts got ahead   *)
(* or has another goal.                                                     *)
Advances(w, r) ==
  attempts[r] > 0 /\ r \notin w.vain /\ w.view[r] \notin {"silent", "gone"}

IInit ==
  /\ world \in Worlds
  /\ incidents = << >> /\ cooldown = << >> /\ stuck = << >>
  /\ attempts = [r \in Robots |-> 0]
  /\ firstSeen = << >> /\ reported = {}
  /\ still = [r \in Robots |-> 0] /\ stall = [r \in Robots |-> 0]
  /\ stage = "livelock" /\ todo = {} /\ turn = 0 /\ fruitless = 0

(* update(), up to the incidents: the views of this cycle, the robots that  *)
(* got ahead or changed their goal, and (step) the sets whose robots can    *)
(* move again.                                                              *)
Observe ==
  /\ stage = "livelock" /\ stage' = "step"
  /\ todo' = DOMAIN incidents /\ turn' = 0
  /\ world' \in Worlds
  /\ \E advanced \in SUBSET {r \in Robots : Advances(world', r)} :
       LET w == world'
           free == {S \in DOMAIN stuck :
                      \E r \in stuck[S] : w.view[r] \in {"gone", "driving", "parked", "working"}}
           over == Expired \cup free
       IN  /\ still' = [r \in Robots |->
                IF w.view[r] = "silent" THEN still[r]
                ELSE IF r \in w.standing /\ w.view[r] # "gone" THEN Least(still[r] + 1, IdleBlock) ELSE 0]
           /\ attempts' = Clear(attempts, advanced)
           /\ fruitless' = IF advanced = {} THEN fruitless ELSE 0
           /\ stuck' = Without(stuck, free)
           /\ cooldown' = [S \in DOMAIN cooldown \ over |->
                IF cooldown[S] = Never THEN Never ELSE cooldown[S] - 1]
  /\ incidents' = [S \in DOMAIN incidents |->
       [incidents[S] EXCEPT !.age = @ + 1, !.elapsed = @ + 1]]
  /\ UNCHANGED <<cycles, stall>>

(* _step_one with strategy YIELD.                                           *)
StepYield(S, i) ==
  \E cleared \in Cleared(S, i), moved \in Moved(S, i) :
    \/ cleared /\ Resolve(S)
    \/ /\ ~cleared
       /\ i.elapsed >= IF moved THEN YieldTimeout ELSE Least(EscalateAfter, YieldTimeout)
       /\ GoOn(S, StartsAlt(S, i), i.immobile)
    \/ /\ ~cleared
       /\ i.elapsed < IF moved THEN YieldTimeout ELSE Least(EscalateAfter, YieldTimeout)
       /\ UNCHANGED open

(* _step_one with strategy ALT_PATH.  A plan that avoids the mask may still *)
(* time out; one that does not has less time.                               *)
StepAlt(S, i) ==
  \E avoids \in (IF Active(Victim(i)) THEN BOOLEAN ELSE {TRUE}),
     done \in Cleared(S, i), plans \in PlansSeen(i) :
    LET j == [i EXCEPT !.plans = plans]
        late == j.elapsed >= IF avoids THEN AltTimeout ELSE Least(ReplanGrace, AltTimeout)
    IN  \/ avoids /\ done /\ Resolve(S)
        \/ /\ ~(avoids /\ done) /\ late
           /\ IF ~Retryable(j) THEN GoOn(S, Starts(S, j, j.at + 1), j.immobile)
              ELSE IF j.age < DeadlockMax THEN Continue(S, [j EXCEPT !.elapsed = 0])
              ELSE GiveUp(S, j.immobile)
        \/ ~(avoids /\ done) /\ ~late /\ Continue(S, j)

(* Incidents go on independently, except for the pockets they reserve.      *)
StepIncident(S) ==
  /\ stage = "step" /\ S \in todo
  /\ IF Overdue(incidents[S]) THEN GiveUp(S, incidents[S].immobile)
     ELSE IF incidents[S].strategy = "YIELD" THEN StepYield(S, incidents[S])
     ELSE StepAlt(S, incidents[S])
  /\ todo' = todo \ {S}
  /\ UNCHANGED <<seen, cycles, stage, turn>>

-----------------------------------------------------------------------------
(* Cycles of waits that nobody deals with yet.                              *)
Candidates ==
  {C \in Components(Waits) : C \cap Members = {} /\ ~InCooldown(C)}

(* Faulty variant of AgeOf: the first time is not kept.                     *)
AgeOfNew(C) == 0

(* CycleConfirmer.update: the age of cycle C, which was there before or not. *)
AgeOf(C) == IF C \in DOMAIN firstSeen THEN Least(firstSeen[C] + 1, ConfirmAfter) ELSE 0

(* It forgets a cycle that is gone.                                         *)
Confirm ==
  /\ stage = "step" /\ todo = {} /\ stage' = "cycles"
  /\ firstSeen' = [C \in Candidates |-> AgeOf(C)]
  /\ LET old == reported \cap DOMAIN firstSeen'
     IN  /\ todo' = {C \in DOMAIN firstSeen' : firstSeen'[C] >= ConfirmAfter} \ old
         /\ reported' = old \cup todo'
  /\ UNCHANGED <<open, seen, turn>>

OpenCycle(S) ==
  /\ stage = "cycles" /\ S \in todo
  /\ \A T \in todo \ {S} : \E r \in S : \A q \in T : r <= q
  /\ Open(S)
  /\ todo' = todo \ {S}
  /\ UNCHANGED <<seen, cycles, stage, turn>>

-----------------------------------------------------------------------------
Held == {e[1] : e \in {e \in Waits : e[3] # "block"}} \cup Yielding

(* Those that are held up and, by predecessors_closure, whoever is behind.  *)
HeldUp ==
  LET behind(S) == {e[1] : e \in {e \in Waits : e[3] = "block" /\ e[2] \in S}}
  IN  {r \in Robots : \A S \in SUBSET Robots : Held \cup behind(S) \subseteq S => r \in S}

(* _stalls begins: who of the robots that ought to get ahead does not.      *)
Watch ==
  /\ stage = "cycles" /\ todo = {}
  /\ stall' = [r \in Robots |->
       IF Active(r) /\ r \notin Members \cup HeldUp /\ r \in world.vain
         THEN Least(stall[r] + 1, StallAfter) ELSE 0]
  /\ stage' = "blocked" /\ todo' = {}
  /\ UNCHANGED <<incidents, attempts, cooldown, stuck, fruitless, seen, cycles, turn>>

(* Faulty variant of BlockedBy: robots of other incidents are not left out. *)
BlockedByAny(r) == {q \in Successors(r) : Idle(q) \/ ~Mobile(q)}

(* Parked robots, and robots that cannot move, that r waits for.            *)
BlockedBy(r) == {q \in Successors(r) \ Members : Idle(q) \/ ~Mobile(q)}

Blocked(r) ==
  /\ r \notin Members /\ Active(r) /\ still[r] >= IdleBlock
  /\ BlockedBy(r) # {} /\ ~InCooldown({r} \cup BlockedBy(r))

(* BLOCKED: robots in their order, each with the incidents opened before.   *)
OpenBlocked(r) ==
  /\ stage = "blocked" /\ r > turn /\ Blocked(r)
  /\ \A q \in Robots : turn < q /\ q < r => ~Blocked(q)
  /\ Open({r} \cup BlockedBy(r))
  /\ turn' = r
  /\ UNCHANGED <<seen, cycles, stage, todo>>

Unblocked ==
  /\ stage = "blocked" /\ \A r \in Robots : r > turn => ~Blocked(r)
  /\ stage' = "livelock" /\ todo' = {} /\ turn' = 0
  /\ UNCHANGED <<open, seen, cycles>>

(* LIVELOCK: stalled robots close to each other.  The next Observe ends the *)
(* cycle: which of them are close is up to geometry.                        *)
OpenLivelock(S) ==
  /\ stage = "livelock" /\ S \in Groups
  /\ \A r \in S : stall[r] >= StallAfter /\ r \notin Members
  /\ \A T \in todo : S \cap T = {}
  /\ ~InCooldown(S)
  /\ Open(S)
  /\ todo' = todo \cup {S}
  /\ UNCHANGED <<seen, cycles, stage, turn>>

INext ==
  \/ Observe \/ Confirm \/ Watch \/ Unblocked
  \/ \E S \in Groups : StepIncident(S) \/ OpenCycle(S) \/ OpenLivelock(S)
  \/ \E r \in Robots : OpenBlocked(r)

ISpec == IInit /\ [][INext]_ivars

(* The traffic timer keeps firing.                                          *)
FairISpec == ISpec /\ WF_ivars(INext)

-----------------------------------------------------------------------------
(* No robot is in two incidents, whichever of the three openers came first  *)
(* in a cycle, and no two incidents send robots to one pocket.              *)
IncidentsApart ==
  /\ \A S, T \in DOMAIN incidents : S # T => S \cap T = {}
  /\ \A S, T \in DOMAIN incidents :
       S # T /\ incidents[S].pocket # NoPocket => incidents[S].pocket # incidents[T].pocket

(* Every incident has its victim do exactly one thing: wait in a pocket or  *)
(* drive round a mask.                                                      *)
VictimCommanded ==
  \A S \in DOMAIN incidents :
    /\ Victim(incidents[S]) \in S
    /\ Cardinality(CommandsFor(Victim(incidents[S]))) = 1
    /\ \A c \in CommandsFor(Victim(incidents[S])) : c.mask = ~c.hold

(* deadlock.md 6 (1): an incident ends by deadlock_max_s, and within it the *)
(* order of victims and of strategies only goes forward.                    *)
LadderForward ==
  [][\A S \in DOMAIN incidents \cap DOMAIN incidents' :
       LET i == incidents[S]  j == incidents'[S]
       IN  /\ j.age <= DeadlockMax + 1
           /\ i.at <= j.at
           /\ i.at = j.at /\ i.strategy = "ALT_PATH" => j.strategy = "ALT_PATH"]_ivars

(* deadlock.md 5.3: robots whose incident failed are not taken up again     *)
(* before the cooldown is over, and never as long as those of them that     *)
(* could not move still cannot.                                             *)
FailureRespected ==
  [][/\ \A S \in DOMAIN incidents' \ DOMAIN incidents : S \notin DOMAIN cooldown
     /\ \A S \in DOMAIN stuck :
          S \notin DOMAIN cooldown' =>
            \E r \in stuck[S] : world'.view[r] \notin {"halted", "silent"}]_ivars

(* deadlock.md 6 (2): without progress, a failure is reported within        *)
(* floor(max_attempts n / 2) + 1 incidents.                                 *)
FailureReported == 2 * fruitless <= MaxAttempts * Cardinality(Robots)

(* Robots that go on waiting for each other, and for nobody else, are again *)
(* and again dealt with, or known to the operator as a failure.             *)
Deadlocks == [w \in Worlds |->
  {S \in Components(w.waits) : S \subseteq w.vain /\ \A e \in w.waits : e[1] \in S => e[2] \in S}]
CyclesHandled ==
  \A S \in UNION {Deadlocks[w] : w \in Worlds} :
    <>[](S \in Deadlocks[world]) => []<>(S \in DOMAIN incidents \cup DOMAIN cooldown)
=============================================================================
