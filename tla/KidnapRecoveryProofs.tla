------------------------ MODULE KidnapRecoveryProofs -------------------------
(***************************************************************************)
(* For any number of attempts, rotations and goals: the monitor keeps its  *)
(* types, a recovery never goes silent, and no pose from outside is        *)
(* trusted beyond a LOST declared on alarms or a recovery.                 *)
(***************************************************************************)
EXTENDS KidnapRecovery, TLAPS

USE RetryAssumption

(* A goal more or less.                                                     *)
LEMMA GoalsCounted ==
  ASSUME KTypeOK
  PROVE  /\ Running \in {0, 1}
         /\ canceling + Running \in Nat
         /\ loose + Running \in Nat
         /\ asked > 0 => asked - 1 \in Nat
         /\ loose > 0 => loose - 1 + Running \in Nat
         /\ canceling > 0 => canceling - 1 \in Nat
BY DEF KTypeOK, Running

(* StartSpin and CancelSpin keep the types of what they set.                *)
LEMMA SpinTypes ==
  ASSUME KTypeOK, NEW out \in Nat, StartSpin(out)
  PROVE  /\ spin_ready' \in BOOLEAN /\ spin_active' \in BOOLEAN
         /\ asked' \in Nat /\ gone' \in BOOLEAN
BY DEF KTypeOK, StartSpin

LEMMA CancelTypes ==
  ASSUME KTypeOK, NEW ordered \in BOOLEAN, CancelSpin(ordered)
  PROVE  canceling' \in Nat /\ spin_goal' \in BOOLEAN
BY GoalsCounted DEF KTypeOK, CancelSpin

LEMMA ReinitializeTypes ==
  ASSUME KTypeOK, NEW out \in Nat, NEW done \in 0..ReinitRetry - 1, Reinitialize(done, out)
  PROVE  /\ reinits_done' \in 0..ReinitRetry /\ spins_left' \in 0..SpinRetry - 1
         /\ spin_ready' \in BOOLEAN /\ spin_active' \in BOOLEAN
         /\ asked' \in Nat /\ gone' \in BOOLEAN /\ echo' \in BOOLEAN
<1>1. StartSpin(out)
  BY DEF Reinitialize
<1>2. reinits_done' \in 0..ReinitRetry /\ spins_left' \in 0..SpinRetry - 1
  BY DEF Reinitialize
<1>3. echo' \in BOOLEAN
  BY DEF Reinitialize, KTypeOK
<1> QED BY <1>1, <1>2, <1>3, SpinTypes

(* A rotation in RECOVERING has been asked for, or the way to turn is       *)
(* known to be missing.                                                     *)
LEMMA StartSpinAsks ==
  ASSUME NEW out \in Nat, StartSpin(out)
  PROVE  spin_ready' => asked' > 0
BY DEF StartSpin

LEMMA SpinDoneTypes ==
  ASSUME KTypeOK, NEW out \in Nat, SpinDone(out)
  PROVE  /\ state' \in {"RECOVERING", "FAILED", state} /\ (is_lost = is_lost')
         /\ spins_left' \in 0..SpinRetry - 1 /\ reinits_done' \in 0..ReinitRetry
         /\ spin_ready' \in BOOLEAN /\ spin_active' \in BOOLEAN
         /\ asked' \in Nat /\ gone' \in BOOLEAN /\ echo' \in BOOLEAN
<1>1. CASE spins_left > 0 /\ spins_left' = spins_left - 1 /\ StartSpin(out)
           /\ UNCHANGED <<state, reinits_done, echo>>
  BY <1>1, SpinTypes DEF KTypeOK, SpinDone
<1>2. CASE spins_left = 0 /\ reinits_done < ReinitRetry /\ Reinitialize(reinits_done, out)
           /\ UNCHANGED state
  <2>1. reinits_done \in 0..ReinitRetry - 1
    BY <1>2 DEF KTypeOK
  <2> QED BY <1>2, <2>1, ReinitializeTypes DEF SpinDone
<1>3. CASE GiveUp(out)
  BY <1>3 DEF KTypeOK, GiveUp, SpinDone
<1>4. CASE spin_active' = FALSE /\ asked' = out
           /\ UNCHANGED <<state, spins_left, reinits_done, spin_ready, gone, echo>>
  BY <1>4 DEF KTypeOK, SpinDone
<1> QED BY <1>1, <1>2, <1>3, <1>4 DEF SpinDone

-----------------------------------------------------------------------------
(* What Evaluate may do: watch on, lose the pose, find it, or count.        *)
Counts(a, m, r) ==
  /\ converged' \in 0..ConvergeCount - 1
  /\ amcl' = a /\ match' = m /\ registration' = r
  /\ UNCHANGED <<state, is_lost, trusted, given, budget, goals, server, echo>>

LEMMA EvaluateCases ==
  ASSUME KTypeOK, NEW a, NEW m, NEW r, NEW jump, Evaluate(a, m, r, jump)
  PROVE  \/ \E s \in {"TRACKING", "SUSPECT"} : state \in {"TRACKING", "SUSPECT"} /\ Watching(s, a, m, r)
         \/ DeclareLost(a)
         \/ is_lost /\ Converges(a, m) /\ Recover(a, m)
         \/ is_lost /\ Counts(a, m, r)
<1>1. CASE is_lost /\ Converges(a, m) /\ Recover(a, m)
  BY <1>1
<1>2. CASE /\ is_lost /\ ~(Converges(a, m) /\ converged + 1 = ConvergeCount)
           /\ converged' = IF Converges(a, m) THEN converged + 1 ELSE 0
           /\ amcl' = a /\ match' = m /\ registration' = r
           /\ UNCHANGED <<state, is_lost, trusted, given, budget, goals, server, echo>>
  <2>1. converged' \in 0..ConvergeCount - 1
    BY <1>2 DEF KTypeOK
  <2>2. Counts(a, m, r)
    BY <1>2, <2>1, Zenon DEF Counts
  <2> QED BY <1>2, <2>2
<1>3. CASE ~is_lost \/ state \in {"TRACKING", "SUSPECT"}
  BY <1>1, <1>2, <1>3 DEF Evaluate
<1> QED BY <1>1, <1>2, <1>3 DEF Evaluate

LEMMA WatchingTypes ==
  ASSUME KTypeOK, NEW s \in {"TRACKING", "SUSPECT"}, NEW a \in Poses,
         NEW m \in Matches, NEW r \in Registrations,
         Watching(s, a, m, r)
  PROVE  KTypeOK'
BY DEF KTypeOK, States, Watching, budget, goals

LEMMA DeclareLostTypes ==
  ASSUME KTypeOK, NEW a \in Poses, DeclareLost(a)
  PROVE  KTypeOK'
<1>1. CancelSpin(spin_active) /\ spin_active \in BOOLEAN /\ Reinitialize(0, asked)
      /\ asked \in Nat /\ 0 \in 0..ReinitRetry - 1
  BY DEF DeclareLost, KTypeOK
<1>2. canceling' \in Nat /\ spin_goal' \in BOOLEAN
  BY <1>1, CancelTypes
<1>3. /\ reinits_done' \in 0..ReinitRetry /\ spins_left' \in 0..SpinRetry - 1
      /\ spin_ready' \in BOOLEAN /\ spin_active' \in BOOLEAN
      /\ asked' \in Nat /\ gone' \in BOOLEAN /\ echo' \in BOOLEAN
  BY <1>1, ReinitializeTypes
<1>4. /\ is_lost' \in BOOLEAN /\ state' = "RECOVERING"
      /\ state' \in States /\ match' \in Matches /\ registration' \in Registrations /\ amcl' \in Poses
      /\ trusted' \in BOOLEAN /\ given' \in BOOLEAN
      /\ backend_ready' \in BOOLEAN /\ server' \in BOOLEAN
  BY DEF DeclareLost, Lost, Forget, TrustAtLost, KTypeOK, States, Poses, Matches, Registrations
<1>5. converged' \in 0..ConvergeCount - 1 /\ loose' \in Nat
  BY DEF DeclareLost, Lost, KTypeOK
<1> QED BY <1>2, <1>3, <1>4, <1>5, Zenon DEF KTypeOK

LEMMA RecoverTypes ==
  ASSUME KTypeOK, NEW a \in Poses,
         NEW m \in Matches, Recover(a, m)
  PROVE  KTypeOK'
<1>1. canceling' \in Nat /\ spin_goal' \in BOOLEAN
  BY CancelTypes DEF Recover, KTypeOK
<1>2. converged' \in 0..ConvergeCount - 1
  BY DEF Recover
<1>3. /\ state' \in States /\ is_lost' \in BOOLEAN /\ trusted' \in BOOLEAN
      /\ given' \in BOOLEAN /\ spin_active' \in BOOLEAN
      /\ amcl' \in Poses /\ match' \in Matches /\ registration' \in Registrations
      /\ spins_left' = spins_left /\ reinits_done' = reinits_done
      /\ backend_ready' = backend_ready /\ spin_ready' = spin_ready
      /\ asked' = asked /\ loose' = loose /\ gone' = gone /\ server' = server /\ echo' = echo
  BY DEF Recover, KTypeOK, States, Poses, Matches, Registrations
<1> QED BY <1>1, <1>2, <1>3, Zenon DEF KTypeOK

LEMMA CountsTypes ==
  ASSUME KTypeOK, NEW a \in Poses,
         NEW m \in Matches, NEW r \in Registrations,
         Counts(a, m, r)
  PROVE  KTypeOK'
BY DEF KTypeOK, Counts, budget, goals

(* The inductive invariant: an open window of trust rests on a pose given   *)
(* from outside since the last LOST on alarms and the last recovery.        *)
KInv ==
  /\ KTypeOK
  /\ RecoveryGoesOn
  /\ is_lost <=> state \in {"RECOVERING", "FAILED"}
  /\ trusted => given

LEMMA DeclareLostInv ==
  ASSUME KInv, NEW a \in Poses, DeclareLost(a)
  PROVE  KInv' /\ (is_lost => is_lost')
<1>1. KTypeOK'
  BY DeclareLostTypes DEF KInv
<1>2. state' = "RECOVERING" /\ is_lost' = TRUE /\ trusted' = FALSE
  BY DEF DeclareLost, Lost, TrustAtLost
<1>3. spin_ready' => asked' > 0
  BY StartSpinAsks DEF DeclareLost, Reinitialize, KInv, KTypeOK
<1>4. RecoveryGoesOn'
  BY <1>3, Zenon DEF RecoveryGoesOn
<1> QED BY <1>1, <1>2, <1>4 DEF KInv

(* Every callback that evaluates signals keeps KInv, and ends LOST on an    *)
(* ambiguous match only if trusted.                                         *)
LEMMA EvaluateInv ==
  ASSUME KInv, NEW a \in Poses,
         NEW m \in Matches,
         NEW r \in Registrations, NEW jump, Evaluate(a, m, r, jump)
  PROVE  KInv' /\ (is_lost /\ ~is_lost' /\ match' = "thin" => given)
<1> USE DEF KInv
<1>1. ASSUME NEW s \in {"TRACKING", "SUSPECT"}, state \in {"TRACKING", "SUSPECT"}, Watching(s, a, m, r)
      PROVE  KInv' /\ is_lost' = is_lost
  <2>1. KTypeOK'
    BY <1>1, WatchingTypes
  <2>2. /\ state' = s /\ is_lost' = is_lost
        /\ trusted' = trusted /\ given' = given
    BY <1>1 DEF Watching
  <2> QED BY <1>1, <2>1, <2>2 DEF RecoveryGoesOn
<1>2. CASE DeclareLost(a)
  BY <1>2, DeclareLostInv
<1>3. CASE is_lost /\ Converges(a, m) /\ Recover(a, m)
  <2>1. KTypeOK'
    BY <1>3, RecoverTypes
  <2>2. /\ state' = "TRACKING" /\ is_lost' = FALSE /\ trusted' = FALSE /\ match' = m
    BY <1>3 DEF Recover
  <2>3. m = "thin" => given
    BY <1>3 DEF Converges
  <2> QED BY <2>1, <2>2, <2>3 DEF RecoveryGoesOn
<1>4. CASE is_lost /\ Counts(a, m, r)
  <2>1. KTypeOK'
    BY <1>4, CountsTypes
  <2>2. /\ state' = state /\ is_lost' = is_lost /\ trusted' = trusted /\ given' = given
        /\ backend_ready' = backend_ready /\ spin_ready' = spin_ready
        /\ asked' = asked /\ loose' = loose /\ spin_goal' = spin_goal /\ gone' = gone
    BY <1>4 DEF Counts, budget, goals
  <2> QED BY <1>4, <2>1, <2>2 DEF RecoveryGoesOn
<1> QED BY <1>1, <1>2, <1>3, <1>4, EvaluateCases

(* SpinDone takes the next attempt, or gives up, or there is nothing to go  *)
(* on with.                                                                 *)
LEMMA SpinDoneGoesOn ==
  ASSUME KTypeOK, NEW out \in Nat, SpinDone(out)
  PROVE  /\ is_lost' = is_lost /\ trusted' = trusted /\ given' = given
         /\ state' \in {state, "FAILED"} /\ (state' = "FAILED" => state \in {"RECOVERING", "FAILED"})
         /\ backend_ready' = backend_ready
         /\ state' = "RECOVERING" /\ backend_ready' /\ spin_ready' => asked' > 0
<1>1. is_lost' = is_lost /\ trusted' = trusted /\ given' = given /\ backend_ready' = backend_ready
  BY DEF SpinDone
<1>2. CASE state = "RECOVERING" /\ backend_ready /\ spin_ready /\ StartSpin(out) /\ state' = state
  BY <1>1, <1>2, StartSpinAsks
<1>3. CASE state = "RECOVERING" /\ GiveUp(out)
  BY <1>1, <1>3 DEF GiveUp
<1>4. CASE ~(state = "RECOVERING" /\ backend_ready /\ spin_ready)
           /\ state' = state /\ spin_ready' = spin_ready
  BY <1>1, <1>4
<1> QED BY <1>2, <1>3, <1>4 DEF SpinDone, Reinitialize

-----------------------------------------------------------------------------
(* The callbacks that evaluate.                                             *)
LEMMA SignalsInv ==
  ASSUME KInv, OnAmcl \/ OnMatch \/ OnScanMatch
  PROVE  KInv' /\ (is_lost /\ ~is_lost' /\ match' = "thin" => given)
<1>1. /\ amcl \in Poses /\ match \in Matches
      /\ registration \in Registrations
  BY DEF KInv, KTypeOK
<1>2. CASE OnAmcl
  BY <1>1, <1>2, EvaluateInv DEF OnAmcl
<1>3. CASE OnMatch
  BY <1>1, <1>3, EvaluateInv DEF OnMatch
<1>4. CASE OnScanMatch
  BY <1>1, <1>4, EvaluateInv DEF OnScanMatch
<1> QED BY <1>2, <1>3, <1>4

LEMMA MarkerFixInv ==
  ASSUME KInv, OnMarkerFix
  PROVE  KInv' /\ (is_lost => is_lost')
<1>1. asked \in Nat /\ StartSpin(asked)
  BY DEF KInv, KTypeOK, OnMarkerFix
<1>2. /\ spin_ready' \in BOOLEAN /\ spin_active' \in BOOLEAN /\ asked' \in Nat
      /\ gone' \in BOOLEAN /\ (spin_ready' => asked' > 0)
  BY <1>1, SpinTypes, StartSpinAsks DEF KInv
<1>3. converged' \in 0..ConvergeCount - 1 /\ reinits_done' \in 0..ReinitRetry
  BY DEF OnMarkerFix, Lost
<1>4. /\ is_lost' = TRUE /\ state' = "RECOVERING" /\ given' = given /\ echo' = TRUE
      /\ state' \in States /\ amcl' \in Poses /\ match' \in Matches /\ registration' \in Registrations
      /\ trusted' = trusted /\ spins_left' = spins_left
      /\ backend_ready' = backend_ready /\ spin_goal' = spin_goal
      /\ loose' = loose /\ canceling' = canceling /\ server' = server
  BY DEF OnMarkerFix, Lost, Forget, KInv, KTypeOK, States, Poses, Matches, Registrations
<1>5. KTypeOK'
  BY <1>2, <1>3, <1>4, Zenon DEF KInv, KTypeOK
<1>6. RecoveryGoesOn'
  BY <1>2, Zenon DEF RecoveryGoesOn
<1> QED BY <1>4, <1>5, <1>6, Zenon DEF KInv

LEMMA InitialPoseInv ==
  ASSUME KInv, NEW own \in BOOLEAN, OnInitialPose(own)
  PROVE  KInv' /\ (is_lost => is_lost')
<1>1. /\ echo' \in BOOLEAN /\ (state' = state \/ (state = "SUSPECT" /\ state' = "TRACKING"))
      /\ ((trusted' = trusted /\ given' = given) \/ (trusted' = TRUE /\ given' = TRUE))
      /\ trusted' \in BOOLEAN /\ given' \in BOOLEAN
      /\ state' \in States /\ registration' \in Registrations /\ match' \in Matches
  BY DEF KInv, KTypeOK, OnInitialPose, ExternalPoseReset, States, Matches, Registrations
<1>2. /\ is_lost' = is_lost /\ converged' = converged /\ amcl' = amcl
      /\ spins_left' = spins_left /\ reinits_done' = reinits_done
      /\ spin_active' = spin_active /\ backend_ready' = backend_ready
      /\ spin_ready' = spin_ready /\ asked' = asked /\ spin_goal' = spin_goal
      /\ loose' = loose /\ canceling' = canceling /\ gone' = gone
      /\ server' = server
  BY DEF OnInitialPose, budget, goals
<1>3. KTypeOK'
  BY <1>1, <1>2, Zenon DEF KInv, KTypeOK
<1>4. RecoveryGoesOn'
  BY <1>1, <1>2, Zenon DEF KInv, RecoveryGoesOn
<1> QED BY <1>1, <1>2, <1>3, <1>4 DEF KInv

LEMMA BackendActiveInv ==
  ASSUME KInv, BackendActive
  PROVE  KInv' /\ (is_lost => is_lost')
<1>1. CancelSpin(spin_active) /\ spin_active \in BOOLEAN /\ Reinitialize(0, asked) /\ StartSpin(asked)
  <2>1. Reinitialize(0, asked)
    BY DEF BackendActive
  <2> QED BY <2>1 DEF BackendActive, KInv, KTypeOK, Reinitialize
<1>10. asked \in Nat /\ 0 \in 0..ReinitRetry - 1
  BY DEF KInv, KTypeOK
<1>2. canceling' \in Nat /\ spin_goal' \in BOOLEAN
  BY <1>1, CancelTypes DEF KInv
<1>3. /\ reinits_done' \in 0..ReinitRetry /\ spins_left' \in 0..SpinRetry - 1
      /\ spin_ready' \in BOOLEAN /\ spin_active' \in BOOLEAN
      /\ asked' \in Nat /\ gone' \in BOOLEAN /\ echo' \in BOOLEAN
  BY <1>1, <1>10, ReinitializeTypes DEF KInv
<1>4. /\ state' = "RECOVERING" /\ state' \in States /\ is_lost' = is_lost /\ is_lost
      /\ backend_ready' = TRUE /\ trusted' = TRUE /\ given' = TRUE
      /\ amcl' \in Poses
      /\ converged' = converged /\ match' = match
      /\ registration' = registration /\ loose' = loose /\ server' = server
  BY DEF BackendActive, Forget, KInv, KTypeOK, States, Poses
<1>5. KTypeOK'
  BY <1>2, <1>3, <1>4, Zenon DEF KInv, KTypeOK
<1>6. spin_ready' => asked' > 0
  BY <1>1, <1>10, StartSpinAsks
<1>7. RecoveryGoesOn'
  BY <1>6, Zenon DEF RecoveryGoesOn
<1> QED BY <1>4, <1>5, <1>7, Zenon DEF KInv

LEMMA SpinReadyInv ==
  ASSUME KInv, SpinReady
  PROVE  KInv' /\ (is_lost => is_lost')
<1>1. /\ state' = state /\ is_lost' = is_lost /\ converged' = converged
      /\ trusted' = trusted /\ given' = given /\ match' = match
      /\ registration' = registration /\ spins_left' = spins_left
      /\ reinits_done' = reinits_done /\ backend_ready' = backend_ready
      /\ spin_goal' = spin_goal /\ loose' = loose /\ canceling' = canceling
      /\ server' = server /\ echo' = echo
      /\ amcl' \in Poses
  BY DEF SpinReady, Forget, verdict, KInv, KTypeOK, Poses
<1>2. CASE Resumes /\ StartSpin(asked)
  <2>1. /\ spin_ready' \in BOOLEAN /\ spin_active' \in BOOLEAN /\ asked' \in Nat
        /\ gone' \in BOOLEAN /\ (spin_ready' => asked' > 0)
    BY <1>2, SpinTypes, StartSpinAsks DEF KInv, KTypeOK
  <2>2. KTypeOK'
    BY <1>1, <2>1, Zenon DEF KInv, KTypeOK
  <2>3. RecoveryGoesOn'
    BY <2>1, Zenon DEF RecoveryGoesOn
  <2> QED BY <1>1, <2>2, <2>3, Zenon DEF KInv
<1>3. CASE ~Resumes /\ spin_ready' = TRUE /\ UNCHANGED <<spin_active, asked, gone>>
  <2>1. KTypeOK'
    BY <1>1, <1>3, Zenon DEF KInv, KTypeOK
  <2>2. RecoveryGoesOn'
    BY <1>1, <1>3, Zenon DEF RecoveryGoesOn, Resumes
  <2> QED BY <1>1, <2>1, <2>2, Zenon DEF KInv
<1> QED BY <1>2, <1>3 DEF SpinReady

LEMMA TimeIsUpInv ==
  ASSUME KInv, TimeIsUp
  PROVE  KInv' /\ (is_lost => is_lost')
<1>1. canceling' \in Nat /\ spin_goal' \in BOOLEAN
  BY CancelTypes DEF TimeIsUp, KInv, KTypeOK
<1>2. /\ state' = "FAILED" /\ state' \in States /\ spin_active' = FALSE /\ state = "RECOVERING"
      /\ is_lost' = is_lost /\ converged' = converged /\ trusted' = trusted
      /\ given' = given /\ amcl' = amcl /\ match' = match
      /\ registration' = registration /\ backend_ready' = backend_ready
      /\ loose' = loose /\ server' = server /\ asked' = asked
      /\ spins_left' = spins_left /\ reinits_done' = reinits_done
      /\ spin_ready' = spin_ready /\ gone' = gone /\ echo' = echo
  BY DEF TimeIsUp, GiveUp, signals, States
<1>3. KTypeOK'
  BY <1>1, <1>2, Zenon DEF KInv, KTypeOK
<1> QED BY <1>2, <1>3, Zenon DEF KInv, RecoveryGoesOn

LEMMA SuspicionEndsInv ==
  ASSUME KInv, SuspicionEnds
  PROVE  KInv' /\ (is_lost => is_lost')
<1>1. /\ amcl \in Poses /\ match \in Matches
      /\ registration \in Registrations /\ state = "SUSPECT"
  BY DEF KInv, KTypeOK, SuspicionEnds
<1>2. CASE Watching("TRACKING", amcl, match, registration)
  <2>1. KTypeOK'
    BY <1>1, <1>2, WatchingTypes DEF KInv
  <2>2. /\ state' = "TRACKING" /\ is_lost' = is_lost
        /\ trusted' = trusted /\ given' = given
    BY <1>2 DEF Watching
  <2> QED BY <1>1, <2>1, <2>2 DEF KInv, RecoveryGoesOn
<1>3. CASE DeclareLost(amcl)
  BY <1>1, <1>3, DeclareLostInv
<1> QED BY <1>2, <1>3 DEF SuspicionEnds

LEMMA TrustEndsInv ==
  ASSUME KInv, BackendInactive \/ TrustEnds
  PROVE  KInv' /\ (is_lost => is_lost')
<1>1. /\ state' = state /\ is_lost' = is_lost /\ given' = given
      /\ converged' = converged /\ amcl' = amcl /\ match' = match
      /\ registration' = registration /\ spins_left' = spins_left
      /\ reinits_done' = reinits_done /\ spin_active' = spin_active
      /\ spin_ready' = spin_ready /\ asked' = asked /\ spin_goal' = spin_goal
      /\ loose' = loose /\ canceling' = canceling /\ gone' = gone
      /\ server' = server /\ echo' = echo
      /\ (trusted' = trusted \/ trusted' = FALSE)
      /\ (backend_ready' = backend_ready \/ backend_ready' = FALSE)
  BY DEF BackendInactive, TrustEnds, verdict, signals, budget, goals
<1>2. KTypeOK'
  BY <1>1, Zenon DEF KInv, KTypeOK
<1>3. RecoveryGoesOn'
  BY <1>1, Zenon DEF KInv, RecoveryGoesOn
<1>4. (is_lost' <=> state' \in {"RECOVERING", "FAILED"}) /\ (trusted' => given')
  BY <1>1 DEF KInv
<1> QED BY <1>1, <1>2, <1>3, <1>4 DEF KInv

-----------------------------------------------------------------------------
(* The rotations.                                                           *)
LEMMA AcceptedInv ==
  ASSUME KInv, Accepted
  PROVE  KInv' /\ (is_lost => is_lost')
<1>1. spin_goal' = TRUE /\ spin_goal' \in BOOLEAN
  BY DEF Accepted
<1>2. asked' \in Nat /\ loose' \in Nat
  BY GoalsCounted DEF KInv, Accepted
<1>3. /\ state' = state /\ is_lost' = is_lost /\ given' = given
      /\ trusted' = trusted /\ converged' = converged /\ amcl' = amcl
      /\ match' = match /\ registration' = registration /\ spins_left' = spins_left
      /\ reinits_done' = reinits_done /\ spin_active' = spin_active
      /\ spin_ready' = spin_ready /\ backend_ready' = backend_ready
      /\ canceling' = canceling /\ gone' = gone /\ server' = server /\ echo' = echo
  BY DEF Accepted, verdict, signals, budget
<1>4. KTypeOK'
  BY <1>1, <1>2, <1>3, Zenon DEF KInv, KTypeOK
<1>5. RecoveryGoesOn'
  BY <1>1, Zenon DEF RecoveryGoesOn
<1> QED BY <1>3, <1>4, <1>5, Zenon DEF KInv

(* A goal that is over, whether it never ran or has ended.                  *)
LEMMA SpinDoneInv ==
  ASSUME KInv, NEW out \in Nat, SpinDone(out),
         spin_goal' \in BOOLEAN, loose' \in Nat, canceling' \in Nat
  PROVE  KInv' /\ (is_lost => is_lost')
<1>1. /\ spins_left' \in 0..SpinRetry - 1 /\ reinits_done' \in 0..ReinitRetry
      /\ spin_ready' \in BOOLEAN /\ spin_active' \in BOOLEAN
      /\ asked' \in Nat /\ gone' \in BOOLEAN /\ echo' \in BOOLEAN
  BY SpinDoneTypes DEF KInv
<1>2. /\ is_lost' = is_lost /\ trusted' = trusted /\ given' = given
      /\ state' \in {state, "FAILED"} /\ (state' = "FAILED" => state \in {"RECOVERING", "FAILED"})
      /\ backend_ready' = backend_ready
      /\ (state' = "RECOVERING" /\ backend_ready' /\ spin_ready' => asked' > 0)
  BY SpinDoneGoesOn DEF KInv
<1>3. /\ converged' = converged /\ amcl' = amcl /\ match' = match
      /\ registration' = registration /\ server' = server
  BY DEF SpinDone, signals
<1>4. state' \in States
  BY <1>2 DEF KInv, KTypeOK, States
<1>5. KTypeOK'
  BY <1>1, <1>2, <1>3, <1>4, Zenon DEF KInv, KTypeOK
<1>6. RecoveryGoesOn'
  BY <1>2, Zenon DEF RecoveryGoesOn
<1>7. is_lost' <=> state' \in {"RECOVERING", "FAILED"}
  BY <1>2 DEF KInv
<1>8. trusted' => given'
  BY <1>2 DEF KInv
<1> QED BY <1>2, <1>5, <1>6, <1>7, <1>8 DEF KInv

LEMMA RejectedInv ==
  ASSUME KInv, Rejected
  PROVE  KInv' /\ (is_lost => is_lost')
<1>1. asked - 1 \in Nat /\ SpinDone(asked - 1)
  BY GoalsCounted DEF KInv, Rejected
<1>2. spin_goal' \in BOOLEAN /\ loose' \in Nat /\ canceling' \in Nat
  BY DEF KInv, KTypeOK, Rejected
<1> QED BY <1>1, <1>2, SpinDoneInv

LEMMA EndedInv ==
  ASSUME KInv, Ended
  PROVE  KInv' /\ (is_lost => is_lost')
<1>1. asked \in Nat /\ loose \in Nat /\ canceling \in Nat
  BY DEF KInv, KTypeOK
<1>2. loose' \in Nat /\ canceling' \in Nat
  BY <1>1, GoalsCounted DEF KInv, Ended
<1>3. spin_goal' \in BOOLEAN /\ SpinDone(asked)
  BY DEF Ended
<1> QED BY <1>1, <1>2, <1>3, SpinDoneInv

(* A canceled goal tells nobody; the goal that loses its handle by it runs. *)
LEMMA CanceledInv ==
  ASSUME KInv, Canceled
  PROVE  KInv' /\ (is_lost => is_lost')
<1>1. loose' \in Nat /\ canceling' \in Nat /\ spin_goal' = FALSE /\ spin_goal' \in BOOLEAN
  BY GoalsCounted DEF KInv, Canceled
<1>2. loose > 0 \/ spin_goal => loose' > 0
  BY DEF Canceled, KInv, KTypeOK, Running
<1>3. /\ state' = state /\ is_lost' = is_lost /\ given' = given
      /\ trusted' = trusted /\ converged' = converged /\ amcl' = amcl
      /\ match' = match /\ registration' = registration /\ spins_left' = spins_left
      /\ reinits_done' = reinits_done /\ spin_active' = spin_active
      /\ spin_ready' = spin_ready /\ backend_ready' = backend_ready
      /\ asked' = asked /\ gone' = gone /\ server' = server /\ echo' = echo
  BY DEF Canceled, verdict, signals, budget
<1>4. KTypeOK'
  BY <1>1, <1>3, Zenon DEF KInv, KTypeOK
<1>5. RecoveryGoesOn'
  BY <1>2, <1>3, Zenon DEF KInv, RecoveryGoesOn
<1> QED BY <1>3, <1>4, <1>5, Zenon DEF KInv

LEMMA ServerInv ==
  ASSUME KInv, ServerComes \/ ServerGoes
  PROVE  KInv' /\ (is_lost => is_lost')
<1>1. /\ state' = state /\ is_lost' = is_lost /\ given' = given
      /\ trusted' = trusted /\ converged' = converged /\ amcl' = amcl
      /\ match' = match /\ registration' = registration
      /\ spins_left' = spins_left /\ reinits_done' = reinits_done
      /\ spin_active' = spin_active /\ spin_ready' = spin_ready
      /\ backend_ready' = backend_ready /\ echo' = echo
      /\ server' \in BOOLEAN
  BY DEF ServerComes, ServerGoes, verdict, signals, budget
<1>2. CASE ServerComes
  <2>1. /\ asked' = asked /\ spin_goal' = spin_goal /\ loose' = loose
        /\ canceling' = canceling /\ gone' = gone
    BY <1>2 DEF ServerComes, goals
  <2>2. KTypeOK'
    BY <1>1, <2>1, Zenon DEF KInv, KTypeOK
  <2> QED BY <1>1, <2>1, <2>2, Zenon DEF KInv, RecoveryGoesOn
<1>3. CASE ServerGoes
  <2>1. asked' \in Nat /\ loose' \in Nat /\ canceling' \in Nat /\ spin_goal' \in BOOLEAN
        /\ spin_goal' = FALSE /\ asked' = 0 /\ loose' = 0
        /\ gone' \in BOOLEAN /\ (gone \/ asked + Running + loose > 0 => gone')
    BY <1>3 DEF ServerGoes, KInv, KTypeOK
  <2>2. KTypeOK'
    BY <1>1, <2>1, Zenon DEF KInv, KTypeOK
  <2>3. asked > 0 \/ loose > 0 \/ spin_goal => asked + Running + loose > 0
    BY DEF KInv, KTypeOK, Running
  <2>4. RecoveryGoesOn'
    BY <1>1, <2>1, <2>3, Zenon DEF KInv, RecoveryGoesOn
  <2> QED BY <1>1, <2>2, <2>4, Zenon DEF KInv
<1> QED BY <1>2, <1>3
-----------------------------------------------------------------------------
LEMMA KInitInv == KInit => KInv
<1> SUFFICES ASSUME KInit PROVE KInv
  OBVIOUS
<1>1. converged \in 0..ConvergeCount - 1 /\ spins_left \in 0..SpinRetry - 1
      /\ reinits_done \in 0..ReinitRetry /\ asked \in Nat /\ loose \in Nat /\ canceling \in Nat
  BY DEF KInit
<1>2. /\ state \in States /\ amcl \in Poses /\ match \in Matches /\ registration \in Registrations
      /\ state = "TRACKING"
  BY DEF KInit, States, Poses, Matches, Registrations
<1>3. /\ is_lost = FALSE /\ trusted = FALSE /\ given = FALSE /\ spin_active = FALSE
      /\ backend_ready = TRUE /\ spin_ready = TRUE /\ server = FALSE /\ spin_goal = FALSE
      /\ gone = FALSE /\ echo = FALSE
  BY Zenon DEF KInit
<1>4. KTypeOK
  BY <1>1, <1>2, <1>3, Zenon DEF KTypeOK
<1> QED BY <1>2, <1>3, <1>4 DEF KInv, RecoveryGoesOn

(* One step of the monitor, whichever it is.                                *)
LEMMA KStep ==
  ASSUME KInv, KNext
  PROVE  KInv' /\ (is_lost /\ ~is_lost' /\ match' = "thin" => given)
<1>1. CASE Sensing
  BY <1>1, SignalsInv, MarkerFixInv, InitialPoseInv DEF Sensing
<1>2. CASE Timers
  BY <1>2, TrustEndsInv, BackendActiveInv, SpinReadyInv, TimeIsUpInv, SuspicionEndsInv DEF Timers
<1>3. CASE Turning
  BY <1>3, AcceptedInv, RejectedInv, EndedInv, CanceledInv, ServerInv DEF Turning
<1> QED BY <1>1, <1>2, <1>3 DEF KNext

LEMMA KStutter ==
  ASSUME KInv, UNCHANGED kvars
  PROVE  KInv'
<1>1. /\ state' = state /\ is_lost' = is_lost /\ given' = given
      /\ trusted' = trusted /\ converged' = converged /\ amcl' = amcl
      /\ match' = match /\ registration' = registration /\ spins_left' = spins_left
      /\ reinits_done' = reinits_done /\ spin_active' = spin_active
      /\ spin_ready' = spin_ready /\ backend_ready' = backend_ready
      /\ asked' = asked /\ spin_goal' = spin_goal /\ loose' = loose
      /\ canceling' = canceling /\ gone' = gone /\ server' = server /\ echo' = echo
  BY DEF kvars, verdict, signals, budget, goals
<1>2. KTypeOK'
  BY <1>1, Zenon DEF KInv, KTypeOK
<1>3. RecoveryGoesOn'
  BY <1>1, Zenon DEF KInv, RecoveryGoesOn
<1> QED BY <1>1, <1>2, <1>3, Zenon DEF KInv

(* The inductive invariant holds in every state of the monitor.             *)
THEOREM KInvariance == KSpec => []KInv
<1>1. KInv /\ [KNext]_kvars => KInv'
  BY KStep, KStutter
<1> QED BY <1>1, KInitInv, PTL DEF KSpec

(* Every state of the monitor is of its types: the attempts and the         *)
(* rotations left stay within reinit_retry and spin_retry whatever the      *)
(* action server answers.                                                   *)
THEOREM KTypeCorrect == KSpec => []KTypeOK
<1>1. KInv => KTypeOK
  BY DEF KInv
<1> QED BY <1>1, KInvariance, PTL

(* A recovery never goes silent: on_spin_done, set_backend_ready and        *)
(* set_spin_ready leave no state in which nothing will call the detector.   *)
THEOREM RecoveryNeverSilent == KSpec => []RecoveryGoesOn
<1>1. KInv => RecoveryGoesOn
  BY DEF KInv
<1> QED BY <1>1, KInvariance, PTL

(* LOST ends on an ambiguous match only if a pose came from outside since   *)
(* the last LOST on alarms and the last recovery; whether that pose is the  *)
(* one accepted, or a later seed of the own search, is not said.            *)
THEOREM OldPosesNeverTrusted == KSpec => AliasNeedsOutsidePose
<1>1. KInv /\ [KNext]_kvars => [is_lost /\ ~is_lost' /\ match' = "thin" => given]_kvars
  BY KStep
<1> QED BY <1>1, KInvariance, PTL DEF KSpec, AliasNeedsOutsidePose
=============================================================================
