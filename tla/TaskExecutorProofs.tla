-------------------------- MODULE TaskExecutorProofs -------------------------
(***************************************************************************)
(* Proofs about TaskExecutor, for both values of accept_while_returning,   *)
(* and about ChargerClaims, for any robots, chargers, preferences and any  *)
(* bound of the clock.                                                     *)
(***************************************************************************)
EXTENDS TaskExecutor, ChargerClaims, TLAPS

-----------------------------------------------------------------------------
(* The inductive invariant.                                                 *)

\* Only the branch of the task carries it out; a task taken on the way to
\* the waiting place has not begun.
BranchOfTask ==
  /\ branch = "task" => task
  /\ branch \in {"error", "return", "charge", "cooldown"} => ~task
  /\ branch = "waiting" /\ task => step = 0

\* A running branch has shown its phase; none of them is taken for idle.
PhaseOfBranch ==
  /\ branch \in {"task", "error", "return", "charge", "cooldown"}
       => phase \notin {"IDLE", "RETURNING"}
  /\ branch = "waiting" => phase # "IDLE"

\* With the claim of a charger the charge cycle alone goes on.
ClaimedForCharge ==
  /\ branch = "charge" => claim
  /\ claim => /\ ~task /\ ~pending /\ ~Stranded
              /\ branch \in {"none", "charge"}
              /\ phase \notin {"IDLE", "RETURNING"}
  /\ charge >= 2 => claim

\* Nothing but the charger fills the battery.
LowBeforeCharging == charge = 1 \/ (claim /\ charge = 0) => battery = "low"

\* A failed charge has left nothing behind.
CooledDown == branch = "cooldown" => ~pending /\ charge < 2

EInv ==
  /\ ETypeOK /\ BranchOfTask /\ PhaseOfBranch /\ ClaimedForCharge /\ LowBeforeCharging
  /\ CooledDown /\ PayloadAtStep /\ DockedToHandle /\ ChargeUndisturbed /\ ReadyWhenIdle

-----------------------------------------------------------------------------
(* What the branches are doing at each of their steps.                      *)

\* Phases that only a running action shows.
Working == {"MOVING", "PERCEIVING", "DOCKING", "LOADING", "UNLOADING", "UNDOCKING", "CHARGING"}

LEMMA WorkingPhases ==
  /\ Working \subseteq Phases \ {"IDLE", "RETURNING", "ERROR", "RECOVERING"}
  /\ {"IDLE", "RETURNING", "ERROR", "RECOVERING", "MOVING"} \subseteq Phases
  /\ "MOVING" \in Working
BY DEF Working, Phases

LEMMA PhaseOfTask ==
  ASSUME step \in 0..8
  PROVE  PhaseOf("task", TaskActions[step + 1]) \in Working
BY DEF TaskActions, PhaseOf, Working

LEMMA PhaseOfCharge ==
  ASSUME charge \in 0..3
  PROVE  /\ PhaseOf("charge", ChargeActions[charge + 1]) \in Working
         /\ charge = 2 => PhaseOf("charge", ChargeActions[charge + 1]) = "CHARGING"
BY DEF ChargeActions, PhaseOf, Working

LEMMA ActionOfTask ==
  ASSUME branch = "task", step \in 0..8
  PROVE  /\ Action \in {"move", "perceive", "dock", "load", "unload", "undock"}
         /\ Action = "load" <=> step = 3
         /\ Action = "unload" <=> step = 7
         /\ Action = "dock" <=> step \in {2, 6}
         /\ Action = "undock" <=> step \in {4, 8}
         /\ Site = IF step <= 4 THEN "pickup" ELSE "dropoff"
         /\ PhaseOf("task", TaskActions[step + 1]) \in Working
         /\ PhaseOf("task", Action) \in Working
         /\ step < 8 => PhaseOf("task", TaskActions[step + 2]) \in Working
BY DEF Action, Site, TaskActions, PhaseOf, Working

LEMMA ActionOfReturn ==
  ASSUME branch = "return", back \in 0..3
  PROVE  /\ Action \in {"move", "dock", "unload", "undock"}
         /\ Action = "dock" <=> back = 1
         /\ Action = "unload" <=> back = 2
         /\ Action = "undock" <=> back = 3
         /\ Site = "pickup"
         /\ PhaseOf("return", Action) \in Working
         /\ back < 3 => PhaseOf("return", ReturnActions[back + 2]) \in Working
BY DEF Action, Site, ReturnActions, PhaseOf, Working

LEMMA ActionOfCharge ==
  ASSUME branch = "charge", charge \in 0..3
  PROVE  /\ Action \in {"move", "dock", "window", "undock"}
         /\ Action = "move" <=> charge = 0
         /\ Action = "dock" <=> charge = 1
         /\ Action = "window" <=> charge = 2
         /\ Site = "charger"
         /\ PhaseOf("charge", ChargeActions[charge + 1]) \in Working
         /\ PhaseOf("charge", Action) \in Working
         /\ charge = 2 => PhaseOf("charge", ChargeActions[charge + 1]) = "CHARGING"
         /\ charge < 3 => PhaseOf("charge", ChargeActions[charge + 2]) \in Working
         /\ charge = 1 => PhaseOf("charge", ChargeActions[charge + 2]) = "CHARGING"
BY DEF Action, Site, ChargeActions, PhaseOf, Working

LEMMA ActionOfOthers ==
  ASSUME branch \in Branches \ {"task", "return", "charge"}
  PROVE  /\ Action = IF branch = "waiting" THEN "move" ELSE "none"
         /\ branch = "waiting" => PhaseOf(branch, Action) = "RETURNING"
BY DEF Action, Site, PhaseOf, Branches

(* What an action leaves, one kind after the other.                         *)
Sites == {"none", "pickup", "dropoff", "charger"}

LEMMA HandledLeaves ==
  ASSUME ETypeOK, Handled, Site \in Sites
  PROVE  /\ docked' \in Sites
         /\ payload' \in BOOLEAN /\ attempted' \in BOOLEAN
         /\ Action = "dock" => docked' = Site
         /\ Action \in {"perceive", "load", "unload", "window"} => docked' = docked
         /\ Action = "load" => payload'
         /\ Action = "unload" => ~payload'
         /\ Action \notin {"load", "unload"} => payload' = payload /\ attempted' = attempted
<1>1. docked' \in Sites
  BY DEF ETypeOK, Handled, Sites
<1>2. payload' \in BOOLEAN /\ attempted' \in BOOLEAN
  BY DEF ETypeOK, Handled
<1>3. Action = "dock" => docked' = Site
  BY DEF Handled
<1>4. Action \in {"perceive", "load", "unload", "window"} => docked' = docked
  BY DEF Handled
<1>5. (Action = "load" => payload') /\ (Action = "unload" => ~payload')
  BY DEF Handled
<1>6. Action \notin {"load", "unload"} => payload' = payload /\ attempted' = attempted
  BY DEF Handled
<1> QED BY <1>1, <1>2, <1>3, <1>4, <1>5, <1>6

-----------------------------------------------------------------------------
-----------------------------------------------------------------------------
(* The branches begin.                                                      *)

LEMMA BeginTaskKeeps ==
  ASSUME EInv, branch = "none", BeginTask, UNCHANGED <<docked, inputs>>
  PROVE  EInv'
<1>1. ETypeOK'
  BY WorkingPhases, PhaseOfTask
  DEF EInv, ETypeOK, BeginTask, BranchOfTask, PhaseOfBranch, books, inputs, Branches
<1>2. BranchOfTask' /\ PhaseOfBranch' /\ ClaimedForCharge' /\ LowBeforeCharging' /\
      CooledDown'
  BY WorkingPhases, PhaseOfTask
  DEF EInv, BranchOfTask, PhaseOfBranch, ClaimedForCharge, LowBeforeCharging,
    CooledDown, BeginTask, ETypeOK, books, inputs
<1>3. PayloadAtStep' /\ DockedToHandle' /\ ChargeUndisturbed' /\ ReadyWhenIdle'
  BY WorkingPhases, PhaseOfTask
  DEF EInv, PayloadAtStep, DockedToHandle, ChargeUndisturbed, ReadyWhenIdle, BeginTask,
    books
<1> QED BY <1>1, <1>2, <1>3 DEF EInv

LEMMA BeginReturnKeeps ==
  ASSUME EInv, branch = "none", BeginReturn, UNCHANGED <<docked, inputs>>
  PROVE  EInv'
<1>1. ETypeOK'
  BY WorkingPhases
  DEF EInv, ETypeOK, BeginReturn, BranchOfTask, PhaseOfBranch, books, inputs, Branches
<1>2. BranchOfTask' /\ PhaseOfBranch' /\ ClaimedForCharge' /\ LowBeforeCharging' /\
      CooledDown'
  BY WorkingPhases
  DEF EInv, BranchOfTask, PhaseOfBranch, ClaimedForCharge, LowBeforeCharging,
    CooledDown, BeginReturn, books, inputs, Stranded
<1>3. PayloadAtStep' /\ DockedToHandle' /\ ChargeUndisturbed' /\ ReadyWhenIdle'
  BY WorkingPhases
  DEF EInv, PayloadAtStep, DockedToHandle, ChargeUndisturbed, ReadyWhenIdle,
    BeginReturn, books
<1> QED BY <1>1, <1>2, <1>3 DEF EInv

LEMMA BeginWaitingKeeps ==
  ASSUME EInv, branch = "none", BeginWaiting, UNCHANGED <<docked, inputs>>
  PROVE  EInv'
<1>1. ETypeOK'
  BY WorkingPhases
  DEF EInv, ETypeOK, BeginWaiting, BranchOfTask, PhaseOfBranch, books, inputs, Branches
<1>2. BranchOfTask' /\ PhaseOfBranch' /\ ClaimedForCharge' /\ LowBeforeCharging' /\
      CooledDown'
  BY WorkingPhases
  DEF EInv, BranchOfTask, PhaseOfBranch, ClaimedForCharge, LowBeforeCharging,
    CooledDown, BeginWaiting, books, inputs
<1>3. PayloadAtStep' /\ DockedToHandle' /\ ChargeUndisturbed' /\ ReadyWhenIdle'
  BY WorkingPhases
  DEF EInv, PayloadAtStep, DockedToHandle, ChargeUndisturbed, ReadyWhenIdle,
    BeginWaiting, books
<1> QED BY <1>1, <1>2, <1>3 DEF EInv

LEMMA BeginIdleKeeps ==
  ASSUME EInv, branch = "none", BeginIdle, UNCHANGED <<docked, inputs>>
  PROVE  EInv'
<1>1. ETypeOK'
  BY WorkingPhases
  DEF EInv, ETypeOK, BeginIdle, Free, NoChargeInProgress, IdlePhase, BranchOfTask,
    PhaseOfBranch, books, inputs
<1>2. BranchOfTask' /\ PhaseOfBranch' /\ ClaimedForCharge' /\ LowBeforeCharging' /\
      CooledDown'
  BY WorkingPhases
  DEF EInv, BranchOfTask, PhaseOfBranch, ClaimedForCharge, LowBeforeCharging,
    CooledDown, BeginIdle, Free, NoChargeInProgress
<1>3. PayloadAtStep' /\ DockedToHandle' /\ ChargeUndisturbed' /\ ReadyWhenIdle'
  BY WorkingPhases
  DEF EInv, PayloadAtStep, DockedToHandle, ChargeUndisturbed, ReadyWhenIdle, BeginIdle,
    Free, NoChargeInProgress, IdlePhase, books
<1> QED BY <1>1, <1>2, <1>3 DEF EInv

LEMMA KeepsChargerKeeps ==
  ASSUME EInv, branch = "none", KeepsCharger, Free,
         UNCHANGED <<books, step, back, docked, inputs>>
  PROVE  EInv'
<1>1. ETypeOK'
  BY WorkingPhases, PhaseOfCharge
  DEF EInv, ETypeOK, KeepsCharger, Free, BranchOfTask, PhaseOfBranch, books, inputs,
    Branches
<1>2. BranchOfTask' /\ PhaseOfBranch' /\ ClaimedForCharge' /\ LowBeforeCharging' /\
      CooledDown'
  BY WorkingPhases, PhaseOfCharge
  DEF EInv, BranchOfTask, PhaseOfBranch, ClaimedForCharge, LowBeforeCharging,
    CooledDown, KeepsCharger, ETypeOK, books, inputs, Stranded
<1>3. PayloadAtStep' /\ DockedToHandle' /\ ChargeUndisturbed' /\ ReadyWhenIdle'
  BY WorkingPhases, PhaseOfCharge
  DEF EInv, PayloadAtStep, DockedToHandle, ChargeUndisturbed, ReadyWhenIdle,
    KeepsCharger, Free, ETypeOK, books
<1> QED BY <1>1, <1>2, <1>3 DEF EInv

LEMMA TakesChargerKeeps ==
  ASSUME EInv, branch = "none", ~(NoChargeInProgress /\ battery # "low"), TakesCharger,
         Free, UNCHANGED <<books, step, back, docked, inputs>>
  PROVE  EInv'
<1>1. ETypeOK'
  BY WorkingPhases
  DEF EInv, ETypeOK, TakesCharger, Free, NoChargeInProgress, BranchOfTask,
    PhaseOfBranch, books, inputs, Branches
<1>2. BranchOfTask' /\ PhaseOfBranch' /\ ClaimedForCharge' /\ LowBeforeCharging' /\
      CooledDown'
  BY WorkingPhases
  DEF EInv, BranchOfTask, PhaseOfBranch, ClaimedForCharge, LowBeforeCharging,
    CooledDown, TakesCharger, Free, NoChargeInProgress, ETypeOK, books, inputs, Stranded
<1>3. PayloadAtStep' /\ DockedToHandle' /\ ChargeUndisturbed' /\ ReadyWhenIdle'
  BY WorkingPhases
  DEF EInv, PayloadAtStep, DockedToHandle, ChargeUndisturbed, ReadyWhenIdle,
    TakesCharger, Free, NoChargeInProgress, books
<1> QED BY <1>1, <1>2, <1>3 DEF EInv

LEMMA ChangesChargerKeeps ==
  ASSUME EInv, branch \in {"none", "charge"}, ChangesCharger, Free,
         UNCHANGED <<books, step, back, docked, inputs>>
  PROVE  EInv'
<1>1. ETypeOK'
  BY WorkingPhases
  DEF EInv, ETypeOK, ChangesCharger, Free, BranchOfTask, PhaseOfBranch, books, inputs,
    Branches
<1>2. BranchOfTask' /\ PhaseOfBranch' /\ ClaimedForCharge' /\ LowBeforeCharging' /\
      CooledDown'
  BY WorkingPhases
  DEF EInv, BranchOfTask, PhaseOfBranch, ClaimedForCharge, LowBeforeCharging,
    CooledDown, ChangesCharger, ETypeOK, books, inputs, Stranded
<1>3. PayloadAtStep' /\ DockedToHandle' /\ ChargeUndisturbed' /\ ReadyWhenIdle'
  BY WorkingPhases
  DEF EInv, PayloadAtStep, DockedToHandle, ChargeUndisturbed, ReadyWhenIdle,
    ChangesCharger, Free, ClaimedForCharge, books
<1> QED BY <1>1, <1>2, <1>3 DEF EInv

LEMMA FindsNoChargerKeeps ==
  ASSUME EInv, branch \in {"none", "charge"}, FindsNoCharger, Free,
         UNCHANGED <<books, step, back, docked, inputs>>
  PROVE  EInv'
<1>1. ETypeOK'
  BY WorkingPhases, Zenon
  DEF EInv, ETypeOK, FindsNoCharger, CoolDown, Free, BranchOfTask, PhaseOfBranch, books,
    inputs, Branches
<1>2. BranchOfTask' /\ PhaseOfBranch' /\ ClaimedForCharge' /\ LowBeforeCharging' /\
      CooledDown'
  BY WorkingPhases
  DEF EInv, BranchOfTask, PhaseOfBranch, ClaimedForCharge, LowBeforeCharging,
    CooledDown, FindsNoCharger, CoolDown, Free, ETypeOK, books, inputs
<1>3. PayloadAtStep' /\ DockedToHandle' /\ ChargeUndisturbed' /\ ReadyWhenIdle'
  BY WorkingPhases
  DEF EInv, PayloadAtStep, DockedToHandle, ChargeUndisturbed, ReadyWhenIdle,
    FindsNoCharger, CoolDown, Free, books
<1> QED BY <1>1, <1>2, <1>3 DEF EInv

-----------------------------------------------------------------------------
(* The running action goes on, or ends.                                     *)

LEMMA BodyMovesKeeps ==
  ASSUME EInv, BodyMoves
  PROVE  EInv'
<1>0. /\ branch \in {"task", "return", "charge", "waiting"}
      /\ branch = "task" => Action \in {"move", "perceive", "dock", "undock"}
      /\ branch = "return" => Action \in {"move", "dock", "undock"}
      /\ branch = "charge" => Action \in {"move", "dock", "undock"}
  BY ActionOfTask, ActionOfReturn, ActionOfCharge, ActionOfOthers
  DEF BodyMoves, Gated, EInv, ETypeOK, Branches
<1>1. docked' \in Sites
  <2>1. Action = "dock" => Site \in Sites
    BY <1>0, ActionOfTask, ActionOfReturn, ActionOfCharge, ActionOfOthers
    DEF EInv, ETypeOK, Branches, Sites
  <2> QED BY <2>1 DEF BodyMoves, Sites
<1>2. task' \in BOOLEAN /\ payload' \in BOOLEAN /\ attempted' \in BOOLEAN /\
      pending' \in BOOLEAN
  BY DEF EInv, BodyMoves, ETypeOK, books
<1>3. phase' \in Phases /\ branch' \in Branches
  BY DEF EInv, BodyMoves, ETypeOK, tree
<1>4. step' \in 0..8 /\ charge' \in 0..3 /\ back' \in 0..3
  BY DEF EInv, BodyMoves, ETypeOK, tree
<1>5. charging' \in BOOLEAN /\ claim' \in BOOLEAN
  BY DEF EInv, BodyMoves, ETypeOK, tree
<1>6. estop' \in BOOLEAN /\ lost' \in BOOLEAN /\ hold' \in BOOLEAN /\ battery' \in {"low",
      "enough", "full"}
  BY DEF EInv, BodyMoves, ETypeOK, inputs
<1>7. BranchOfTask' /\ PhaseOfBranch' /\ ClaimedForCharge' /\ LowBeforeCharging' /\
      CooledDown'
  BY DEF EInv, BranchOfTask, PhaseOfBranch, ClaimedForCharge, LowBeforeCharging,
    CooledDown, BodyMoves, books, tree, inputs, Stranded
<1>8. DockedToHandle'
  <2>1. ~(task /\ step \in {3, 7})
    BY <1>0, ActionOfTask DEF EInv, ETypeOK, BranchOfTask
  <2>2. ~(branch = "return" /\ back = 2)
    BY <1>0, ActionOfReturn
  <2>3. charge # 2
    BY <1>0, ActionOfCharge DEF EInv, ClaimedForCharge
  <2> QED BY <2>1, <2>2, <2>3 DEF BodyMoves, books, tree, DockedToHandle
<1>9. PayloadAtStep'
  BY DEF EInv, PayloadAtStep, BodyMoves, ETypeOK, books, tree
<1>10. ChargeUndisturbed'
  BY DEF EInv, ChargeUndisturbed, BodyMoves, ETypeOK, books, tree
<1>11. ReadyWhenIdle'
  BY DEF EInv, ReadyWhenIdle, BodyMoves, ETypeOK, books, tree
<1>12. ETypeOK'
  BY <1>1, <1>2, <1>3, <1>4, <1>5, <1>6 DEF ETypeOK, Sites
<1> QED BY <1>12, <1>7, <1>8, <1>9, <1>10, <1>11 DEF EInv

LEMMA RecoversKeeps ==
  ASSUME EInv, Recovers
  PROVE  EInv'
<1>1. ETypeOK'
  BY WorkingPhases, ActionOfTask, ActionOfReturn, ActionOfCharge, ActionOfOthers
  DEF EInv, ETypeOK, Recovers, BranchOfTask, PhaseOfBranch, books, tree, inputs
<1>2. BranchOfTask' /\ PhaseOfBranch' /\ ClaimedForCharge' /\ LowBeforeCharging' /\
      CooledDown'
  BY WorkingPhases, ActionOfTask, ActionOfReturn, ActionOfCharge, ActionOfOthers
  DEF EInv, BranchOfTask, PhaseOfBranch, ClaimedForCharge, LowBeforeCharging,
    CooledDown, Recovers, ETypeOK, books, tree, inputs, Stranded
<1>3. PayloadAtStep' /\ DockedToHandle' /\ ChargeUndisturbed' /\ ReadyWhenIdle'
  BY WorkingPhases, ActionOfTask, ActionOfReturn, ActionOfCharge, ActionOfOthers
  DEF EInv, PayloadAtStep, DockedToHandle, ChargeUndisturbed, ReadyWhenIdle, Recovers,
    ETypeOK, books, tree
<1> QED BY <1>1, <1>2, <1>3 DEF EInv

LEMMA TaskStepEndsKeeps ==
  ASSUME EInv, TaskActionEnds, step < 8
  PROVE  EInv'
<1>1. ETypeOK'
  BY WorkingPhases, ActionOfTask, HandledLeaves
  DEF EInv, ETypeOK, TaskActionEnds, Sites, BranchOfTask, inputs
<1>2. BranchOfTask' /\ PhaseOfBranch' /\ ClaimedForCharge' /\ LowBeforeCharging' /\
      CooledDown'
  BY WorkingPhases, ActionOfTask, HandledLeaves
  DEF EInv, BranchOfTask, PhaseOfBranch, ClaimedForCharge, LowBeforeCharging,
    CooledDown, TaskActionEnds, ETypeOK, inputs
<1>3. PayloadAtStep' /\ DockedToHandle' /\ ChargeUndisturbed' /\ ReadyWhenIdle'
  BY WorkingPhases, ActionOfTask, HandledLeaves
  DEF EInv, PayloadAtStep, DockedToHandle, ChargeUndisturbed, ReadyWhenIdle,
    TaskActionEnds, Sites, ETypeOK, BranchOfTask
<1> QED BY <1>1, <1>2, <1>3 DEF EInv

LEMMA LastStepEndsKeeps ==
  ASSUME EInv, TaskActionEnds, step = 8
  PROVE  EInv'
<1>1. task' \in BOOLEAN /\ payload' \in BOOLEAN /\ attempted' \in BOOLEAN /\
      pending' \in BOOLEAN
  BY WorkingPhases, ActionOfTask, HandledLeaves, Zenon
  DEF EInv, TaskActionEnds, Sites, ETypeOK, BranchOfTask
<1>2. phase' \in Phases /\ branch' \in Branches
  BY WorkingPhases, ActionOfTask, HandledLeaves
  DEF EInv, TaskActionEnds, Sites, ETypeOK, BranchOfTask, Branches
<1>3. step' \in 0..8 /\ charge' \in 0..3 /\ back' \in 0..3
  BY WorkingPhases, ActionOfTask, HandledLeaves
  DEF EInv, TaskActionEnds, Sites, ETypeOK, BranchOfTask
<1>4. charging' \in BOOLEAN /\ claim' \in BOOLEAN
  BY WorkingPhases, ActionOfTask, HandledLeaves
  DEF EInv, TaskActionEnds, Sites, ETypeOK, BranchOfTask
<1>5. docked' \in Sites
  BY WorkingPhases, ActionOfTask, HandledLeaves
  DEF EInv, TaskActionEnds, Sites, ETypeOK, BranchOfTask
<1>6. estop' \in BOOLEAN /\ lost' \in BOOLEAN /\ hold' \in BOOLEAN /\ battery' \in {"low",
      "enough", "full"}
  BY WorkingPhases, ActionOfTask, HandledLeaves
  DEF EInv, TaskActionEnds, Sites, ETypeOK, BranchOfTask, inputs
<1>7. BranchOfTask' /\ PhaseOfBranch' /\ ClaimedForCharge' /\ LowBeforeCharging' /\
      CooledDown'
  BY WorkingPhases, ActionOfTask, HandledLeaves
  DEF EInv, BranchOfTask, PhaseOfBranch, ClaimedForCharge, LowBeforeCharging,
    CooledDown, TaskActionEnds, inputs
<1>8. PayloadAtStep' /\ DockedToHandle' /\ ChargeUndisturbed' /\ ReadyWhenIdle'
  BY WorkingPhases, ActionOfTask, HandledLeaves
  DEF EInv, PayloadAtStep, DockedToHandle, ChargeUndisturbed, ReadyWhenIdle,
    TaskActionEnds, BranchOfTask, PhaseOfBranch
<1>9. ETypeOK'
  BY <1>1, <1>2, <1>3, <1>4, <1>5, <1>6 DEF ETypeOK, Sites
<1> QED BY <1>9, <1>7, <1>8 DEF EInv

LEMMA TaskActionFailsKeeps ==
  ASSUME EInv, TaskActionFails
  PROVE  EInv'
<1>1. task' \in BOOLEAN /\ payload' \in BOOLEAN /\ attempted' \in BOOLEAN /\
      pending' \in BOOLEAN
  BY WorkingPhases, Zenon
  DEF EInv, TaskActionFails, FailTask, ReportEnd, ETypeOK, BranchOfTask, PhaseOfBranch
<1>2. phase' \in Phases /\ branch' \in Branches
  BY WorkingPhases
  DEF EInv, TaskActionFails, FailTask, ReportEnd, ETypeOK, BranchOfTask, PhaseOfBranch,
    Branches
<1>3. step' \in 0..8 /\ charge' \in 0..3 /\ back' \in 0..3
  BY WorkingPhases
  DEF EInv, TaskActionFails, FailTask, ReportEnd, ETypeOK, BranchOfTask, PhaseOfBranch
<1>4. charging' \in BOOLEAN /\ claim' \in BOOLEAN
  BY WorkingPhases
  DEF EInv, TaskActionFails, FailTask, ReportEnd, ETypeOK, BranchOfTask, PhaseOfBranch
<1>5. docked' \in Sites
  BY WorkingPhases
  DEF EInv, TaskActionFails, FailTask, ReportEnd, ETypeOK, BranchOfTask, PhaseOfBranch,
    Sites
<1>6. estop' \in BOOLEAN /\ lost' \in BOOLEAN /\ hold' \in BOOLEAN /\ battery' \in {"low",
      "enough", "full"}
  BY WorkingPhases
  DEF EInv, TaskActionFails, FailTask, ReportEnd, ETypeOK, BranchOfTask, PhaseOfBranch,
    inputs
<1>7. BranchOfTask' /\ PhaseOfBranch' /\ ClaimedForCharge' /\ LowBeforeCharging' /\
      CooledDown'
  BY WorkingPhases
  DEF EInv, BranchOfTask, PhaseOfBranch, ClaimedForCharge, LowBeforeCharging,
    CooledDown, TaskActionFails, FailTask, ReportEnd, inputs
<1>8. PayloadAtStep' /\ DockedToHandle' /\ ChargeUndisturbed' /\ ReadyWhenIdle'
  BY WorkingPhases
  DEF EInv, PayloadAtStep, DockedToHandle, ChargeUndisturbed, ReadyWhenIdle,
    TaskActionFails, FailTask, ReportEnd
<1>9. ETypeOK'
  BY <1>1, <1>2, <1>3, <1>4, <1>5, <1>6 DEF ETypeOK, Sites
<1> QED BY <1>9, <1>7, <1>8 DEF EInv

LEMMA DeadlineKeeps ==
  ASSUME EInv, Deadline
  PROVE  EInv'
<1>1. ETypeOK'
  BY WorkingPhases, Zenon
  DEF EInv, ETypeOK, Deadline, FailTask, ReportEnd, BranchOfTask, PhaseOfBranch,
    ChargeUndisturbed, inputs, Branches
<1>2. BranchOfTask' /\ PhaseOfBranch' /\ ClaimedForCharge' /\ LowBeforeCharging' /\
      CooledDown'
  BY WorkingPhases
  DEF EInv, BranchOfTask, PhaseOfBranch, ClaimedForCharge, LowBeforeCharging,
    CooledDown, Deadline, FailTask, ReportEnd, inputs
<1>3. PayloadAtStep' /\ DockedToHandle' /\ ChargeUndisturbed' /\ ReadyWhenIdle'
  BY WorkingPhases
  DEF EInv, PayloadAtStep, DockedToHandle, ChargeUndisturbed, ReadyWhenIdle, Deadline,
    FailTask, ReportEnd
<1> QED BY <1>1, <1>2, <1>3 DEF EInv

LEMMA ReturnStepEndsKeeps ==
  ASSUME EInv, ReturnActionEnds, back < 3
  PROVE  EInv'
<1>1. ETypeOK'
  BY WorkingPhases, ActionOfReturn, HandledLeaves
  DEF EInv, ETypeOK, ReturnActionEnds, Sites, BranchOfTask, inputs
<1>2. BranchOfTask' /\ PhaseOfBranch' /\ ClaimedForCharge' /\ LowBeforeCharging' /\
      CooledDown'
  BY WorkingPhases, ActionOfReturn, HandledLeaves
  DEF EInv, BranchOfTask, PhaseOfBranch, ClaimedForCharge, LowBeforeCharging,
    CooledDown, ReturnActionEnds, ETypeOK, inputs
<1>3. PayloadAtStep' /\ DockedToHandle' /\ ChargeUndisturbed' /\ ReadyWhenIdle'
  BY WorkingPhases, ActionOfReturn, HandledLeaves
  DEF EInv, PayloadAtStep, DockedToHandle, ChargeUndisturbed, ReadyWhenIdle,
    ReturnActionEnds, Sites, ETypeOK, BranchOfTask, ClaimedForCharge
<1> QED BY <1>1, <1>2, <1>3 DEF EInv

LEMMA ReturnEndsKeeps ==
  ASSUME EInv, ReturnActionEnds, back = 3
  PROVE  EInv'
<1>1. ETypeOK'
  BY DEF EInv, ETypeOK, ReturnActionEnds, BranchOfTask, PhaseOfBranch, inputs, Branches
<1>2. BranchOfTask' /\ PhaseOfBranch' /\ ClaimedForCharge' /\ LowBeforeCharging' /\
      CooledDown'
  BY DEF EInv, BranchOfTask, PhaseOfBranch, ClaimedForCharge, LowBeforeCharging,
    CooledDown, ReturnActionEnds, inputs
<1>3. PayloadAtStep' /\ DockedToHandle' /\ ChargeUndisturbed' /\ ReadyWhenIdle'
  BY DEF EInv, PayloadAtStep, DockedToHandle, ChargeUndisturbed, ReadyWhenIdle,
    ReturnActionEnds, BranchOfTask, ClaimedForCharge
<1> QED BY <1>1, <1>2, <1>3 DEF EInv

LEMMA ReturnActionFailsKeeps ==
  ASSUME EInv, ReturnActionFails
  PROVE  EInv'
<1>1. ETypeOK'
  BY DEF EInv, ETypeOK, ReturnActionFails, BranchOfTask, PhaseOfBranch, inputs, Branches
<1>2. BranchOfTask' /\ PhaseOfBranch' /\ ClaimedForCharge' /\ LowBeforeCharging' /\
      CooledDown'
  BY DEF EInv, BranchOfTask, PhaseOfBranch, ClaimedForCharge, LowBeforeCharging,
    CooledDown, ReturnActionFails, inputs
<1>3. PayloadAtStep' /\ DockedToHandle' /\ ChargeUndisturbed' /\ ReadyWhenIdle'
  BY DEF EInv, PayloadAtStep, DockedToHandle, ChargeUndisturbed, ReadyWhenIdle,
    ReturnActionFails
<1> QED BY <1>1, <1>2, <1>3 DEF EInv

LEMMA WaitingEndsKeeps ==
  ASSUME EInv, WaitingEnds
  PROVE  EInv'
<1>1. ETypeOK'
  BY Zenon
  DEF EInv, ETypeOK, WaitingEnds, PendingAfter, BranchOfTask, PhaseOfBranch, inputs,
    Branches
<1>2. BranchOfTask' /\ PhaseOfBranch' /\ ClaimedForCharge' /\ LowBeforeCharging' /\
      CooledDown'
  BY DEF EInv, BranchOfTask, PhaseOfBranch, ClaimedForCharge, LowBeforeCharging,
    CooledDown, WaitingEnds, inputs
<1>3. PayloadAtStep' /\ DockedToHandle' /\ ChargeUndisturbed' /\ ReadyWhenIdle'
  BY DEF EInv, PayloadAtStep, DockedToHandle, ChargeUndisturbed, ReadyWhenIdle,
    WaitingEnds, PendingAfter, BranchOfTask, ClaimedForCharge
<1> QED BY <1>1, <1>2, <1>3 DEF EInv

LEMMA ChargeStepEndsKeeps ==
  ASSUME EInv, ChargeActionEnds, charge < 3
  PROVE  EInv'
<1>1. ETypeOK'
  BY WorkingPhases, ActionOfCharge, HandledLeaves
  DEF EInv, ETypeOK, ChargeActionEnds, Sites, BranchOfTask, inputs
<1>2. BranchOfTask' /\ PhaseOfBranch' /\ ClaimedForCharge' /\ LowBeforeCharging' /\
      CooledDown'
  BY WorkingPhases, ActionOfCharge, HandledLeaves
  DEF EInv, BranchOfTask, PhaseOfBranch, ClaimedForCharge, LowBeforeCharging,
    CooledDown, ChargeActionEnds, Sites, ETypeOK, inputs, Stranded
<1>3. PayloadAtStep' /\ DockedToHandle' /\ ChargeUndisturbed' /\ ReadyWhenIdle'
  BY WorkingPhases, ActionOfCharge, HandledLeaves
  DEF EInv, PayloadAtStep, DockedToHandle, ChargeUndisturbed, ReadyWhenIdle,
    ChargeActionEnds, Sites, ETypeOK, ClaimedForCharge
<1> QED BY <1>1, <1>2, <1>3 DEF EInv

LEMMA ChargeEndsKeeps ==
  ASSUME EInv, ChargeActionEnds, charge = 3
  PROVE  EInv'
<1>1. task' \in BOOLEAN /\ payload' \in BOOLEAN /\ attempted' \in BOOLEAN /\
      pending' \in BOOLEAN
  BY WorkingPhases, ActionOfCharge, HandledLeaves
  DEF EInv, ChargeActionEnds, Sites, IdlePhase, ETypeOK, BranchOfTask
<1>2. phase' \in Phases /\ branch' \in Branches
  BY WorkingPhases, ActionOfCharge, HandledLeaves
  DEF EInv, ChargeActionEnds, Sites, IdlePhase, ETypeOK, BranchOfTask, Branches
<1>3. step' \in 0..8 /\ charge' \in 0..3 /\ back' \in 0..3
  BY WorkingPhases, ActionOfCharge, HandledLeaves
  DEF EInv, ChargeActionEnds, Sites, IdlePhase, ETypeOK, BranchOfTask
<1>4. charging' \in BOOLEAN /\ claim' \in BOOLEAN
  BY WorkingPhases, ActionOfCharge, HandledLeaves, Zenon
  DEF EInv, ChargeActionEnds, Sites, IdlePhase, ETypeOK, BranchOfTask
<1>5. docked' \in Sites
  BY WorkingPhases, ActionOfCharge, HandledLeaves
  DEF EInv, ChargeActionEnds, Sites, IdlePhase, ETypeOK, BranchOfTask
<1>6. estop' \in BOOLEAN /\ lost' \in BOOLEAN /\ hold' \in BOOLEAN /\ battery' \in {"low",
      "enough", "full"}
  BY WorkingPhases, ActionOfCharge, HandledLeaves
  DEF EInv, ChargeActionEnds, Sites, IdlePhase, ETypeOK, BranchOfTask, inputs
<1>7. BranchOfTask' /\ PhaseOfBranch' /\ ClaimedForCharge' /\ LowBeforeCharging' /\
      CooledDown'
  BY WorkingPhases, ActionOfCharge, HandledLeaves
  DEF BranchOfTask, PhaseOfBranch, ClaimedForCharge, LowBeforeCharging, CooledDown,
    ChargeActionEnds
<1>8. PayloadAtStep' /\ DockedToHandle' /\ ChargeUndisturbed' /\ ReadyWhenIdle'
  BY WorkingPhases, ActionOfCharge, HandledLeaves
  DEF EInv, PayloadAtStep, DockedToHandle, ChargeUndisturbed, ReadyWhenIdle,
    ChargeActionEnds, Sites, IdlePhase, ClaimedForCharge
<1>9. ETypeOK'
  BY <1>1, <1>2, <1>3, <1>4, <1>5, <1>6 DEF ETypeOK, Sites
<1> QED BY <1>9, <1>7, <1>8 DEF EInv

LEMMA ChargeActionFailsKeeps ==
  ASSUME EInv, ChargeActionFails
  PROVE  EInv'
<1>1. task' \in BOOLEAN /\ payload' \in BOOLEAN /\ attempted' \in BOOLEAN /\
      pending' \in BOOLEAN
  BY WorkingPhases
  DEF EInv, ChargeActionFails, CoolDown, ETypeOK, BranchOfTask, PhaseOfBranch, books
<1>2. phase' \in Phases /\ branch' \in Branches
  BY WorkingPhases
  DEF EInv, ChargeActionFails, CoolDown, ETypeOK, BranchOfTask, PhaseOfBranch, Branches
<1>3. step' \in 0..8 /\ charge' \in 0..3 /\ back' \in 0..3
  BY WorkingPhases
  DEF EInv, ChargeActionFails, CoolDown, ETypeOK, BranchOfTask, PhaseOfBranch
<1>4. charging' \in BOOLEAN /\ claim' \in BOOLEAN
  BY WorkingPhases, Zenon
  DEF EInv, ChargeActionFails, CoolDown, ETypeOK, BranchOfTask, PhaseOfBranch
<1>5. docked' \in Sites
  BY WorkingPhases
  DEF EInv, ChargeActionFails, CoolDown, ETypeOK, BranchOfTask, PhaseOfBranch, Sites
<1>6. estop' \in BOOLEAN /\ lost' \in BOOLEAN /\ hold' \in BOOLEAN /\ battery' \in {"low",
      "enough", "full"}
  BY WorkingPhases
  DEF EInv, ChargeActionFails, CoolDown, ETypeOK, BranchOfTask, PhaseOfBranch, inputs
<1>7. BranchOfTask' /\ PhaseOfBranch' /\ ClaimedForCharge' /\ LowBeforeCharging' /\
      CooledDown'
  BY WorkingPhases
  DEF EInv, BranchOfTask, PhaseOfBranch, ClaimedForCharge, LowBeforeCharging,
    CooledDown, ChargeActionFails, CoolDown, books
<1>8. PayloadAtStep' /\ DockedToHandle' /\ ChargeUndisturbed' /\ ReadyWhenIdle'
  BY WorkingPhases
  DEF EInv, PayloadAtStep, DockedToHandle, ChargeUndisturbed, ReadyWhenIdle,
    ChargeActionFails, CoolDown, books
<1>9. ETypeOK'
  BY <1>1, <1>2, <1>3, <1>4, <1>5, <1>6 DEF ETypeOK, Sites
<1> QED BY <1>9, <1>7, <1>8 DEF EInv

LEMMA DelayEndsKeeps ==
  ASSUME EInv, DelayEnds
  PROVE  EInv'
<1>1. ETypeOK'
  BY WorkingPhases
  DEF EInv, ETypeOK, DelayEnds, IdlePhase, BranchOfTask, PhaseOfBranch, books, inputs,
    Branches
<1>2. BranchOfTask' /\ PhaseOfBranch' /\ ClaimedForCharge' /\ LowBeforeCharging' /\
      CooledDown'
  BY WorkingPhases
  DEF EInv, BranchOfTask, PhaseOfBranch, ClaimedForCharge, LowBeforeCharging,
    CooledDown, DelayEnds, inputs
<1>3. PayloadAtStep' /\ DockedToHandle' /\ ChargeUndisturbed' /\ ReadyWhenIdle'
  BY WorkingPhases
  DEF EInv, PayloadAtStep, DockedToHandle, ChargeUndisturbed, ReadyWhenIdle, DelayEnds,
    IdlePhase, CooledDown, books
<1> QED BY <1>1, <1>2, <1>3 DEF EInv

LEMMA HaltKeeps ==
  ASSUME EInv, Halt
  PROVE  EInv'
<1>1. task' \in BOOLEAN /\ payload' \in BOOLEAN /\ attempted' \in BOOLEAN /\
      pending' \in BOOLEAN
  BY DEF EInv, Halt, StepHalted, ETypeOK, BranchOfTask, PhaseOfBranch, books
<1>2. phase' \in Phases /\ branch' \in Branches
  BY DEF EInv, Halt, StepHalted, ETypeOK, BranchOfTask, PhaseOfBranch, Branches
<1>3. step' \in 0..8 /\ charge' \in 0..3 /\ back' \in 0..3
  BY DEF EInv, Halt, StepHalted, ETypeOK, BranchOfTask, PhaseOfBranch
<1>4. charging' \in BOOLEAN /\ claim' \in BOOLEAN
  BY Zenon DEF EInv, Halt, StepHalted, ETypeOK, BranchOfTask, PhaseOfBranch
<1>5. docked' \in Sites
  BY DEF EInv, Halt, StepHalted, ETypeOK, BranchOfTask, PhaseOfBranch, Sites
<1>6. estop' \in BOOLEAN /\ lost' \in BOOLEAN /\ hold' \in BOOLEAN /\ battery' \in {"low",
      "enough", "full"}
  BY DEF EInv, Halt, StepHalted, ETypeOK, BranchOfTask, PhaseOfBranch, inputs
<1>7. BranchOfTask' /\ PhaseOfBranch' /\ ClaimedForCharge' /\ LowBeforeCharging' /\
      CooledDown'
  BY DEF EInv, BranchOfTask, PhaseOfBranch, ClaimedForCharge, LowBeforeCharging,
    CooledDown, Halt, books, inputs, Stranded
<1>8. PayloadAtStep' /\ DockedToHandle' /\ ChargeUndisturbed' /\ ReadyWhenIdle'
  BY DEF EInv, PayloadAtStep, DockedToHandle, ChargeUndisturbed, ReadyWhenIdle, Halt,
    StepHalted, books
<1>9. ETypeOK'
  BY <1>1, <1>2, <1>3, <1>4, <1>5, <1>6 DEF ETypeOK, Sites
<1> QED BY <1>9, <1>7, <1>8 DEF EInv

-----------------------------------------------------------------------------
(* Services and topics.                                                     *)

LEMMA AssignKeeps ==
  ASSUME EInv, Assign
  PROVE  EInv'
<1>1. ETypeOK'
  BY DEF EInv, ETypeOK, Assign, PhaseAccepts, Progress, BranchOfTask, PhaseOfBranch,
    inputs
<1>2. BranchOfTask' /\ PhaseOfBranch' /\ ClaimedForCharge' /\ LowBeforeCharging' /\
      CooledDown'
  BY DEF EInv, BranchOfTask, PhaseOfBranch, ClaimedForCharge, LowBeforeCharging,
    CooledDown, Assign, PhaseAccepts, Progress
<1>3. PayloadAtStep' /\ DockedToHandle' /\ ChargeUndisturbed' /\ ReadyWhenIdle'
  BY DEF EInv, PayloadAtStep, DockedToHandle, ChargeUndisturbed, ReadyWhenIdle, Assign,
    PhaseAccepts, Progress, ClaimedForCharge
<1> QED BY <1>1, <1>2, <1>3 DEF EInv

LEMMA ClearPayloadKeeps ==
  ASSUME EInv, ClearPayload
  PROVE  EInv'
<1>1. task' \in BOOLEAN /\ payload' \in BOOLEAN /\ attempted' \in BOOLEAN /\
      pending' \in BOOLEAN
  BY Zenon DEF EInv, ETypeOK, ClearPayload, ETypeOK, books, tree, inputs, Sites
<1>2. phase' \in Phases /\ branch' \in Branches
  BY DEF EInv, ETypeOK, ClearPayload, ETypeOK, books, tree, inputs, Sites
<1>3. step' \in 0..8 /\ charge' \in 0..3 /\ back' \in 0..3
  BY DEF EInv, ETypeOK, ClearPayload, ETypeOK, books, tree, inputs, Sites
<1>4. charging' \in BOOLEAN /\ claim' \in BOOLEAN
  BY DEF EInv, ETypeOK, ClearPayload, ETypeOK, books, tree, inputs, Sites
<1>5. docked' \in Sites
  BY DEF EInv, ETypeOK, ClearPayload, ETypeOK, books, tree, inputs, Sites
<1>6. estop' \in BOOLEAN /\ lost' \in BOOLEAN /\ hold' \in BOOLEAN /\ battery' \in {"low",
      "enough", "full"}
  BY DEF EInv, ETypeOK, ClearPayload, ETypeOK, books, tree, inputs, Sites
<1>7. BranchOfTask' /\ PhaseOfBranch' /\ ClaimedForCharge' /\ LowBeforeCharging' /\
      CooledDown'
  BY DEF EInv, BranchOfTask, PhaseOfBranch, ClaimedForCharge, LowBeforeCharging,
    CooledDown, ClearPayload, tree, inputs, Stranded
<1>8. PayloadAtStep' /\ DockedToHandle' /\ ChargeUndisturbed' /\ ReadyWhenIdle'
  BY DEF EInv, PayloadAtStep, DockedToHandle, ChargeUndisturbed, ReadyWhenIdle,
    ClearPayload, tree
<1>9. ETypeOK'
  BY <1>1, <1>2, <1>3, <1>4, <1>5, <1>6 DEF ETypeOK, Sites
<1> QED BY <1>9, <1>7, <1>8 DEF EInv

LEMMA SignalChangesKeeps ==
  ASSUME EInv, SignalChanges
  PROVE  EInv'
<1>1. task' \in BOOLEAN /\ payload' \in BOOLEAN /\ attempted' \in BOOLEAN /\
      pending' \in BOOLEAN
  BY DEF EInv, SignalChanges, ETypeOK, BranchOfTask, PhaseOfBranch, books
<1>2. phase' \in Phases /\ branch' \in Branches
  BY DEF EInv, SignalChanges, ETypeOK, BranchOfTask, PhaseOfBranch, tree
<1>3. step' \in 0..8 /\ charge' \in 0..3 /\ back' \in 0..3
  BY DEF EInv, SignalChanges, ETypeOK, BranchOfTask, PhaseOfBranch, tree
<1>4. charging' \in BOOLEAN /\ claim' \in BOOLEAN
  BY DEF EInv, SignalChanges, ETypeOK, BranchOfTask, PhaseOfBranch, tree
<1>5. docked' \in Sites
  BY DEF EInv, SignalChanges, ETypeOK, BranchOfTask, PhaseOfBranch, Sites
<1>6. estop' \in BOOLEAN /\ lost' \in BOOLEAN /\ hold' \in BOOLEAN /\ battery' \in {"low",
      "enough", "full"}
  BY Zenon DEF EInv, SignalChanges, ETypeOK, BranchOfTask, PhaseOfBranch
<1>7. BranchOfTask' /\ PhaseOfBranch' /\ ClaimedForCharge' /\ LowBeforeCharging' /\
      CooledDown'
  BY DEF EInv, BranchOfTask, PhaseOfBranch, ClaimedForCharge, LowBeforeCharging,
    CooledDown, SignalChanges, books, tree, Stranded
<1>8. PayloadAtStep' /\ DockedToHandle' /\ ChargeUndisturbed' /\ ReadyWhenIdle'
  BY DEF EInv, PayloadAtStep, DockedToHandle, ChargeUndisturbed, ReadyWhenIdle,
    SignalChanges, books, tree
<1>9. ETypeOK'
  BY <1>1, <1>2, <1>3, <1>4, <1>5, <1>6 DEF ETypeOK, Sites
<1> QED BY <1>9, <1>7, <1>8 DEF EInv

LEMMA BatteryChangesKeeps ==
  ASSUME EInv, BatteryChanges
  PROVE  EInv'
<1>1. ETypeOK'
  BY DEF EInv, ETypeOK, BatteryChanges, BranchOfTask, PhaseOfBranch, books, tree
<1>2. BranchOfTask' /\ PhaseOfBranch' /\ ClaimedForCharge' /\ LowBeforeCharging' /\
      CooledDown'
  BY DEF EInv, BranchOfTask, PhaseOfBranch, ClaimedForCharge, LowBeforeCharging,
    CooledDown, BatteryChanges, ChargeUndisturbed, books, tree, Stranded
<1>3. PayloadAtStep' /\ DockedToHandle' /\ ChargeUndisturbed' /\ ReadyWhenIdle'
  BY DEF EInv, PayloadAtStep, DockedToHandle, ChargeUndisturbed, ReadyWhenIdle,
    BatteryChanges, books, tree
<1> QED BY <1>1, <1>2, <1>3 DEF EInv

-----------------------------------------------------------------------------
(* The invariant holds.                                                     *)

LEMMA EInitially == EInit => EInv
<1> SUFFICES ASSUME EInit PROVE EInv
  OBVIOUS
<1>1. ETypeOK
  <2>1. /\ task \in BOOLEAN /\ payload \in BOOLEAN /\ attempted \in BOOLEAN /\ pending \in BOOLEAN
        /\ charging \in BOOLEAN /\ claim \in BOOLEAN
        /\ estop \in BOOLEAN /\ lost \in BOOLEAN /\ hold \in BOOLEAN
    BY Zenon DEF EInit
  <2>2. step \in 0..8 /\ charge \in 0..3 /\ back \in 0..3
    BY DEF EInit
  <2>3. phase \in Phases /\ branch \in Branches /\ docked \in {"none", "pickup", "dropoff", "charger"}
    BY DEF EInit, Phases, Branches
  <2>4. battery \in {"low", "enough", "full"}
    BY DEF EInit
  <2> QED BY <2>1, <2>2, <2>3, <2>4 DEF ETypeOK
<1>2. BranchOfTask /\ PhaseOfBranch /\ ClaimedForCharge /\ LowBeforeCharging /\ CooledDown
  BY DEF EInit, BranchOfTask, PhaseOfBranch, ClaimedForCharge, LowBeforeCharging, CooledDown
<1>3. PayloadAtStep /\ DockedToHandle /\ ChargeUndisturbed /\ ReadyWhenIdle
  BY DEF EInit, PayloadAtStep, DockedToHandle, ChargeUndisturbed, ReadyWhenIdle
<1> QED BY <1>1, <1>2, <1>3 DEF EInv

LEMMA BeginKeeps ==
  ASSUME EInv, Begin
  PROVE  EInv'
<1>1. branch = "none" /\ UNCHANGED <<docked, inputs>>
  BY DEF Begin
<1>2. CASE BeginTask
  BY <1>1, <1>2, BeginTaskKeeps
<1>3. CASE BeginReturn
  BY <1>1, <1>3, BeginReturnKeeps
<1>4. CASE BeginWaiting
  BY <1>1, <1>4, BeginWaitingKeeps
<1>5. CASE BeginIdle
  BY <1>1, <1>5, BeginIdleKeeps
<1>6. CASE BeginCharge
  <2>1. /\ Free /\ ~(NoChargeInProgress /\ battery # "low")
        /\ UNCHANGED <<books, step, back, docked, inputs>>
    BY <1>1, <1>6 DEF BeginCharge
  <2>2. CASE KeepsCharger
    BY <1>1, <2>1, <2>2, KeepsChargerKeeps
  <2>3. CASE TakesCharger
    BY <1>1, <2>1, <2>3, TakesChargerKeeps
  <2>4. CASE ChangesCharger
    BY <1>1, <2>1, <2>4, ChangesChargerKeeps
  <2>5. CASE FindsNoCharger
    BY <1>1, <2>1, <2>5, FindsNoChargerKeeps
  <2> QED BY <1>6, <2>2, <2>3, <2>4, <2>5 DEF BeginCharge, Select
<1> QED BY <1>2, <1>3, <1>4, <1>5, <1>6 DEF Begin

LEMMA LosesChargerKeeps ==
  ASSUME EInv, LosesCharger
  PROVE  EInv'
<1>1. branch = "charge" /\ UNCHANGED <<books, step, back, docked, inputs>>
  BY DEF LosesCharger
<1>2. Free
  BY <1>1 DEF EInv, ClaimedForCharge, Free
<1>3. CASE ChangesCharger
  BY <1>1, <1>2, <1>3, ChangesChargerKeeps
<1>4. CASE FindsNoCharger
  BY <1>1, <1>2, <1>4, FindsNoChargerKeeps
<1> QED BY <1>3, <1>4 DEF LosesCharger

LEMMA EndsKeeps ==
  ASSUME EInv, Ends
  PROVE  EInv'
<1>1. step \in 0..8 /\ charge \in 0..3 /\ back \in 0..3
  BY DEF EInv, ETypeOK
<1>2. CASE TaskActionEnds
  <2>1. step < 8 \/ step = 8
    BY <1>1
  <2> QED BY <1>2, <2>1, TaskStepEndsKeeps, LastStepEndsKeeps
<1>3. CASE ReturnActionEnds
  <2>1. back < 3 \/ back = 3
    BY <1>1
  <2> QED BY <1>3, <2>1, ReturnStepEndsKeeps, ReturnEndsKeeps
<1>4. CASE ChargeActionEnds
  <2>1. charge < 3 \/ charge = 3
    BY <1>1
  <2> QED BY <1>4, <2>1, ChargeStepEndsKeeps, ChargeEndsKeeps
<1>5. CASE TaskActionFails
  BY <1>5, TaskActionFailsKeeps
<1>6. CASE ReturnActionFails
  BY <1>6, ReturnActionFailsKeeps
<1>7. CASE WaitingEnds
  BY <1>7, WaitingEndsKeeps
<1>8. CASE ChargeActionFails
  BY <1>8, ChargeActionFailsKeeps
<1>9. CASE DelayEnds
  BY <1>9, DelayEndsKeeps
<1> QED BY <1>2, <1>3, <1>4, <1>5, <1>6, <1>7, <1>8, <1>9 DEF Ends

LEMMA ESteps == EInv /\ [ENext]_evars => EInv'
<1> SUFFICES ASSUME EInv, [ENext]_evars PROVE EInv'
  OBVIOUS
<1>1. CASE Tick
  <2>1. CASE Begin
    BY <2>1, BeginKeeps
  <2>2. CASE BodyMoves
    BY <2>2, BodyMovesKeeps
  <2>3. CASE Recovers
    BY <2>3, RecoversKeeps
  <2>4. CASE LosesCharger
    BY <2>4, LosesChargerKeeps
  <2>5. CASE Ends
    BY <2>5, EndsKeeps
  <2>6. CASE Deadline
    BY <2>6, DeadlineKeeps
  <2>7. CASE Halt
    BY <2>7, HaltKeeps
  <2> QED BY <1>1, <2>1, <2>2, <2>3, <2>4, <2>5, <2>6, <2>7 DEF Tick
<1>2. CASE Outside
  BY <1>2, AssignKeeps, ClearPayloadKeeps, SignalChangesKeeps, BatteryChangesKeeps DEF Outside
<1>3. CASE UNCHANGED evars
  <2>1. ETypeOK'
    <3>1. /\ task' = task /\ payload' = payload /\ attempted' = attempted /\ pending' = pending
          /\ phase' = phase /\ step' = step /\ charge' = charge /\ back' = back
          /\ branch' = branch /\ claim' = claim /\ charging' = charging /\ docked' = docked
          /\ estop' = estop /\ lost' = lost /\ hold' = hold /\ battery' = battery
      BY <1>3, Zenon DEF evars, books, tree, inputs
    <3>2. ETypeOK
      BY DEF EInv
    <3>3. /\ task' \in BOOLEAN /\ payload' \in BOOLEAN /\ attempted' \in BOOLEAN
          /\ pending' \in BOOLEAN /\ charging' \in BOOLEAN /\ claim' \in BOOLEAN
          /\ estop' \in BOOLEAN /\ lost' \in BOOLEAN /\ hold' \in BOOLEAN
      BY <3>1, <3>2, Zenon DEF ETypeOK
    <3>4. /\ phase' \in Phases /\ branch' \in Branches
          /\ step' \in 0..8 /\ charge' \in 0..3 /\ back' \in 0..3
          /\ docked' \in {"none", "pickup", "dropoff", "charger"}
          /\ battery' \in {"low", "enough", "full"}
      BY <3>1, <3>2 DEF ETypeOK
    <3> QED BY <3>3, <3>4 DEF ETypeOK
  <2>2. BranchOfTask' /\ PhaseOfBranch' /\ ClaimedForCharge' /\ LowBeforeCharging' /\ CooledDown'
    BY <1>3, Zenon DEF EInv, BranchOfTask, PhaseOfBranch, ClaimedForCharge, Stranded,
         LowBeforeCharging, CooledDown, evars, books, tree, inputs
  <2>3. PayloadAtStep' /\ DockedToHandle' /\ ChargeUndisturbed' /\ ReadyWhenIdle'
    BY <1>3, Zenon DEF EInv, PayloadAtStep, DockedToHandle, ChargeUndisturbed, ReadyWhenIdle,
         evars, books, tree, inputs
  <2> QED BY <2>1, <2>2, <2>3 DEF EInv
<1> QED BY <1>1, <1>2, <1>3 DEF ENext

(* Every reachable state of the executor satisfies the inductive invariant: *)
(* whatever services, topics and halts come between two ticks.              *)
THEOREM EInvariance == ESpec => []EInv
BY EInitially, ESteps, PTL DEF ESpec

(* Context and blackboard keep their types.                                 *)
THEOREM ETypeCorrect == ESpec => []ETypeOK
<1>1. EInv => ETypeOK
  BY DEF EInv
<1> QED BY <1>1, EInvariance, PTL

(* An item is on board exactly between its loading and its unloading: the   *)
(* steps of a task resume after halts where they stood, and a new task      *)
(* begins with its first step and an empty robot.                           *)
THEOREM ItemOnBoardInItsSteps == ESpec => []PayloadAtStep
<1>1. EInv => PayloadAtStep
  BY DEF EInv
<1> QED BY <1>1, EInvariance, PTL

(* Loading, unloading and charging happen in the dock they are meant for.   *)
THEOREM HandlesWhereDocked == ESpec => []DockedToHandle
<1>1. EInv => DockedToHandle
  BY DEF EInv
<1> QED BY <1>1, EInvariance, PTL

(* A robot that docks at a charger, charges or backs out has its claim and  *)
(* no task, and the charger is on only while the robot attends to it.       *)
THEOREM ChargesUndisturbed == ESpec => []ChargeUndisturbed
<1>1. EInv => ChargeUndisturbed
  BY DEF EInv
<1> QED BY <1>1, EInvariance, PTL

(* A robot that says IDLE is ready: nothing on board, no way back left, out *)
(* of the charger.                                                          *)
THEOREM IdleIsReady == ESpec => []ReadyWhenIdle
<1>1. EInv => ReadyWhenIdle
  BY DEF EInv
<1> QED BY <1>1, EInvariance, PTL

-----------------------------------------------------------------------------
(* The claims of chargers: the inductive invariant.                         *)

\* No claim is of the future, and a robot that has docked claimed before now.
ClaimsPast ==
  \A r \in Robots :
    /\ since[r] <= now
    /\ Locked(r) /\ claims[r] # NoCharger => since[r] < now

\* Whoever claims the charger of a robot that has docked claimed it later.
DockedFirst ==
  \A r, q \in Robots :
    r # q /\ Locked(r) /\ claims[r] # NoCharger /\ claims[q] = claims[r]
      => Before(since[r], r, since[q], q)

CInv == CTypeOK /\ ClaimsPast /\ DockedFirst /\ DocksWhereDriven

(* Of two robots at most one was before the other.                          *)
LEMMA BeforeAsymmetric ==
  ASSUME NEW r \in Robots, NEW q \in Robots, NEW s \in Nat, NEW t \in Nat,
         Before(s, r, t, q)
  PROVE  ~Before(t, q, s, r)
BY ClaimantsAssumption DEF Before

(* And of two robots with claims one was.                                   *)
LEMMA BeforeTotal ==
  ASSUME NEW r \in Robots, NEW q \in Robots, r # q, NEW s \in Nat, NEW t \in Nat,
         ~Before(t, q, s, r)
  PROVE  Before(s, r, t, q)
BY ClaimantsAssumption DEF Before

-----------------------------------------------------------------------------
(* One lemma per action that a conjunct may be disturbed by.                *)

LEMMA SelectKeeps ==
  ASSUME CInv, NEW r \in Robots, SelectNext(r)
  PROVE  CInv'
<1> USE DEF Locked
<1>a. /\ now \in Nat /\ now' = now /\ heard' = heard /\ reached' = reached
      /\ claims \in [Robots -> Chargers \cup {NoCharger}]
      /\ since \in [Robots -> Nat] /\ progress \in [Robots -> 0..3]
      /\ heard \in [Robots -> [Robots -> Claim]]
      /\ reached \in [Robots -> Chargers \cup {NoCharger}]
  BY DEF CInv, CTypeOK, SelectNext
<1>1. CASE \E k \in FreePlaces(r) :
             /\ claims' = [claims EXCEPT ![r] = Preference[r][k]]
             /\ since' = [since EXCEPT ![r] = now]
             /\ progress' = [progress EXCEPT ![r] = Restarted(r)]
  <2>1. PICK k \in FreePlaces(r) :
             /\ claims' = [claims EXCEPT ![r] = Preference[r][k]]
             /\ since' = [since EXCEPT ![r] = now]
             /\ progress' = [progress EXCEPT ![r] = 0]
    BY <1>1 DEF Restarted
  <2>2. Preference[r] \in Seq(Chargers) /\ k \in DOMAIN Preference[r]
    BY PreferenceAssumption DEF FreePlaces
  <2>3. Preference[r][k] \in Chargers
    BY <2>2
  <2>4. CTypeOK'
    BY <1>a, <2>1, <2>3 DEF CTypeOK
  <2>5. ClaimsPast'
    BY <1>a, <2>1 DEF CInv, ClaimsPast
  <2>6. DockedFirst'
    <3> SUFFICES ASSUME NEW p \in Robots, NEW q \in Robots, p # q, Locked(p)',
                        claims'[p] # NoCharger, claims'[q] = claims'[p]
                 PROVE  Before(since'[p], p, since'[q], q)
      BY DEF DockedFirst, Before
    <3>1. p # r /\ progress'[p] = progress[p] /\ claims'[p] = claims[p] /\ since'[p] = since[p]
      BY <1>a, <2>1
    <3>2. CASE q = r
      BY <1>a, <2>1, <3>1, <3>2 DEF CInv, ClaimsPast, Before
    <3>3. CASE q # r
      BY <1>a, <2>1, <3>1, <3>3 DEF CInv, DockedFirst, Before
    <3> QED BY <3>2, <3>3
  <2>7. DocksWhereDriven'
    BY <1>a, <2>1 DEF CInv, DocksWhereDriven
  <2> QED BY <2>4, <2>5, <2>6, <2>7 DEF CInv
<1>2. CASE claims' = [claims EXCEPT ![r] = NoCharger] /\ UNCHANGED <<since, progress>>
  <2>1. CTypeOK'
    BY <1>a, <1>2 DEF CTypeOK
  <2>2. ClaimsPast'
    BY <1>a, <1>2 DEF CInv, ClaimsPast
  <2>3. DockedFirst'
    BY <1>a, <1>2 DEF CInv, DockedFirst, Before
  <2>4. DocksWhereDriven'
    BY <1>a, <1>2 DEF CInv, DocksWhereDriven
  <2> QED BY <2>1, <2>2, <2>3, <2>4 DEF CInv
<1> QED BY <1>1, <1>2 DEF SelectNext

LEMMA DockKeeps ==
  ASSUME CInv, NEW r \in Robots, Dock(r)
  PROVE  CInv'
<1> USE DEF Locked
<1>a. /\ now \in Nat /\ now' = now /\ heard' = heard /\ reached' = reached
      /\ claims' = claims /\ since' = since
      /\ since \in [Robots -> Nat] /\ progress \in [Robots -> 0..3]
      /\ progress' = [progress EXCEPT ![r] = 2] /\ progress[r] = 1
  BY DEF CInv, CTypeOK, Dock
<1>1. CTypeOK'
  BY <1>a DEF CInv, CTypeOK
<1>2. since[r] < now
  BY DEF Dock, Informed
<1>3. ClaimsPast'
  BY <1>a, <1>2 DEF CInv, ClaimsPast
<1>4. DocksWhereDriven'
  BY <1>a DEF CInv, DocksWhereDriven
<1>5. DockedFirst'
  <2> SUFFICES ASSUME NEW p \in Robots, NEW q \in Robots, p # q, Locked(p)',
                      claims[p] # NoCharger, claims[q] = claims[p]
               PROVE  Before(since[p], p, since[q], q)
    BY <1>a DEF DockedFirst, Before
  <2>1. CASE p # r
    BY <1>a, <2>1 DEF CInv, DockedFirst
  <2>2. CASE p = r
    <3>1. ~Taken(r, claims[r], since[r])
      BY <1>a DEF Dock, Keeps
    <3>2. since[q] <= since[r] =>
            heard[r][q] = [charger |-> claims[q], since |-> since[q]]
      BY <2>2 DEF Dock, Informed
    <3>3. since[q] <= since[r] => ~Before(since[q], q, since[r], r)
      BY <2>2, <3>1, <3>2 DEF Taken
    <3>4. since[r] \in Nat /\ since[q] \in Nat
      BY <1>a
    <3>5. CASE since[q] <= since[r]
      BY <2>2, <3>3, <3>4, <3>5, BeforeTotal
    <3>6. CASE ~(since[q] <= since[r])
      BY <2>2, <3>4, <3>6 DEF Before
    <3> QED BY <3>5, <3>6
  <2> QED BY <2>1, <2>2
<1> QED BY <1>1, <1>3, <1>4, <1>5 DEF CInv

(* The other steps of a robot: none of them makes it docked.                *)
LEMMA StepKeeps ==
  ASSUME CInv, NEW r \in Robots, Arrive(r) \/ Charged(r) \/ Release(r)
  PROVE  CInv'
<1> USE DEF Locked
<1>a. /\ now \in Nat /\ now' = now /\ heard' = heard /\ since' = since
      /\ claims \in [Robots -> Chargers \cup {NoCharger}]
      /\ since \in [Robots -> Nat] /\ progress \in [Robots -> 0..3]
      /\ reached \in [Robots -> Chargers \cup {NoCharger}]
  BY DEF CInv, CTypeOK, Arrive, Charged, Release
<1>b. claims[r] # NoCharger
  BY DEF Arrive, Charged, Release, Keeps
<1>1. CASE Arrive(r)
  <2>a. /\ reached' = [reached EXCEPT ![r] = claims[r]] /\ claims' = claims
        /\ progress' = [progress EXCEPT ![r] = 1]
    BY <1>1 DEF Arrive
  <2>1. CTypeOK'
    BY <1>a, <2>a DEF CInv, CTypeOK
  <2>2. ClaimsPast' /\ DocksWhereDriven'
    BY <1>a, <2>a DEF CInv, ClaimsPast, DocksWhereDriven
  <2>3. DockedFirst'
    BY <1>a, <2>a DEF CInv, DockedFirst, Before
  <2> QED BY <2>1, <2>2, <2>3 DEF CInv
<1>2. CASE Charged(r)
  <2>a. /\ reached' = reached /\ claims' = claims /\ progress[r] = 2
        /\ progress' = [progress EXCEPT ![r] = 3]
    BY <1>2 DEF Charged
  <2>1. CTypeOK'
    BY <1>a, <2>a DEF CInv, CTypeOK
  <2>2. ClaimsPast' /\ DocksWhereDriven'
    BY <1>a, <2>a DEF CInv, ClaimsPast, DocksWhereDriven
  <2>3. DockedFirst'
    BY <1>a, <2>a DEF CInv, DockedFirst, Before
  <2> QED BY <2>1, <2>2, <2>3 DEF CInv
<1>3. CASE Release(r)
  <2>a. /\ reached' = reached /\ claims' = [claims EXCEPT ![r] = NoCharger]
        /\ progress' = [progress EXCEPT ![r] = 0]
    BY <1>3 DEF Release
  <2>1. CTypeOK'
    BY <1>a, <2>a DEF CInv, CTypeOK
  <2>2. ClaimsPast' /\ DocksWhereDriven'
    BY <1>a, <2>a DEF CInv, ClaimsPast, DocksWhereDriven
  <2>3. DockedFirst'
    BY <1>a, <2>a DEF CInv, DockedFirst, Before
  <2> QED BY <2>1, <2>2, <2>3 DEF CInv
<1> QED BY <1>1, <1>2, <1>3

(* Messages change only what is heard, time only the clock.                 *)
LEMMA RestKeeps ==
  ASSUME CInv,
         (\E r, q \in Robots : Hear(r, q) \/ Lapse(r, q)) \/ Pass \/ UNCHANGED cvars
  PROVE  CInv'
<1> USE DEF Locked
<1>a. /\ claims' = claims /\ since' = since /\ progress' = progress /\ reached' = reached
      /\ now \in Nat /\ since \in [Robots -> Nat]
      /\ claims \in [Robots -> Chargers \cup {NoCharger}]
      /\ heard \in [Robots -> [Robots -> Claim]]
  BY DEF CInv, CTypeOK, Hear, Lapse, Pass, cvars
<1>b. now' \in Nat /\ now <= now'
  <2>1. now' = now \/ now' = now + 1
    BY DEF Hear, Lapse, Pass, cvars
  <2> QED BY <1>a, <2>1
<1>1. heard' \in [Robots -> [Robots -> Claim]]
  <2>1. CASE \E r, q \in Robots : Hear(r, q) \/ Lapse(r, q)
    <3>1. PICK r \in Robots, q \in Robots : Hear(r, q) \/ Lapse(r, q)
      BY <2>1
    <3>2. Nothing \in Claim /\ [charger |-> claims[q], since |-> since[q]] \in Claim
      BY <1>a DEF Nothing, Claim
    <3>3. PICK v \in Claim : heard' = [heard EXCEPT ![r][q] = v]
      BY <3>1, <3>2 DEF Hear, Lapse
    <3>4. heard' = [heard EXCEPT ![r] = [heard[r] EXCEPT ![q] = v]]
      BY <3>3
    <3>5. heard[r] \in [Robots -> Claim]
      BY <1>a
    <3>6. [heard[r] EXCEPT ![q] = v] \in [Robots -> Claim]
      BY <3>5
    <3> QED BY <1>a, <3>4, <3>6
  <2>2. CASE Pass \/ UNCHANGED cvars
    BY <1>a, <2>2 DEF Pass, cvars
  <2> QED BY <2>1, <2>2
<1>2. CTypeOK'
  BY <1>a, <1>b, <1>1 DEF CInv, CTypeOK
<1>3. ClaimsPast' /\ DocksWhereDriven'
  BY <1>a, <1>b DEF CInv, ClaimsPast, DocksWhereDriven
<1>4. DockedFirst'
  BY <1>a DEF CInv, DockedFirst, Before
<1> QED BY <1>2, <1>3, <1>4 DEF CInv

-----------------------------------------------------------------------------
(* The invariant holds always: the steps above are all there are.           *)
THEOREM CInvariance == CSpec => []CInv
<1>1. CInit => CInv
  BY DEF CInit, CInv, CTypeOK, ClaimsPast, DockedFirst, DocksWhereDriven, Locked, Claim, Nothing
<1>2. CInv /\ [CNext]_cvars => CInv'
  BY SelectKeeps, DockKeeps, StepKeeps, RestKeeps DEF CNext
<1> QED BY <1>1, <1>2, PTL DEF CSpec

(* The claims, what is heard of them and the progress keep their types.     *)
THEOREM CTypeCorrect == CSpec => []CTypeOK
<1>1. CInv => CTypeOK
  BY DEF CInv
<1> QED BY <1>1, CInvariance, PTL

(* Two robots are never docked at one charger: selectCharger lets the older *)
(* claim win, whatever was heard when, among any number of robots.          *)
THEOREM NeverTwoAtACharger == CSpec => []OneRobotPerCharger
<1>1. CInv => OneRobotPerCharger
  <2> SUFFICES ASSUME CInv, NEW r \in Robots, NEW q \in Robots, r # q, Locked(r), Locked(q),
                      claims[r] # NoCharger, claims[r] = claims[q]
               PROVE  FALSE
    BY DEF OneRobotPerCharger
  <2>1. since[r] \in Nat /\ since[q] \in Nat
    BY DEF CInv, CTypeOK
  <2>2. Before(since[r], r, since[q], q) /\ Before(since[q], q, since[r], r)
    BY DEF CInv, DockedFirst
  <2> QED BY <2>1, <2>2, BeforeAsymmetric
<1> QED BY <1>1, CInvariance, PTL

(* A robot docks where it has driven to, also after giving way.             *)
THEOREM DocksWhereItDrove == CSpec => []DocksWhereDriven
<1>1. CInv => DocksWhereDriven
  BY DEF CInv
<1> QED BY <1>1, CInvariance, PTL
=============================================================================
