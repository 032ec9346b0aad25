--------------------------- MODULE KidnapRecovery ----------------------------
(***************************************************************************)
(* Detecting that the robot has been carried off, and finding its pose     *)
(* again: KidnapDetector and the callbacks of kidnap_monitor_node, which   *)
(* run one at a time, with the action server that turns the robot.         *)
(*                                                                         *)
(* Clocks are abstract: suspect_time, recovery_timeout, cooldown and       *)
(* marker_fix_persist may have passed whenever they can have.  A goal is   *)
(* counted by where it is: asked for, running with the handle the node     *)
(* keeps or without, or being canceled.  The rotation by cmd_vel of the    *)
(* unit tests is left out (fallback_cmd_vel_topic is empty).               *)
(***************************************************************************)
EXTENDS Integers

CONSTANTS
  ReinitRetry,     \* reinit_retry
  SpinRetry,       \* spin_retry
  ConvergeCount,   \* converge_count
  MaxGoals         \* bound on the goals under way

ASSUME RetryAssumption ==
  /\ ReinitRetry \in Nat \ {0} /\ SpinRetry \in Nat \ {0}
  /\ ConvergeCount \in Nat \ {0} /\ MaxGoals \in Nat

VARIABLES
  state, is_lost,
  amcl,            \* the last amcl_pose: its covariance, and whether it is of this LOST
  match,           \* the last scan-map match since LOST; thin: an alias fits as well
  registration,    \* what the window of the scan matcher says
  converged,       \* _converged_count
  spins_left, reinits_done, spin_active, backend_ready, spin_ready,
  trusted,         \* the window of external trust is open
  given,           \* an outside pose came since LOST was declared on alarms (history)
  server,          \* the action server of spin is there
  asked,           \* goals sent and not answered
  spin_goal,       \* the handle of the goal accepted last
  loose,           \* goals that run and whose handle is forgotten
  canceling,       \* goals whose cancellation was asked for
  gone,            \* the server went away with the last goal
  echo             \* an initialpose of this node comes back to it

goals == <<asked, spin_goal, loose, canceling, gone>>
budget == <<spins_left, reinits_done, spin_active, backend_ready, spin_ready>>
signals == <<amcl, match, registration>>
verdict == <<state, is_lost, converged, trusted, given>>
kvars == <<verdict, signals, budget, goals, server, echo>>

States == {"TRACKING", "SUSPECT", "RECOVERING", "FAILED"}
Poses == {"none", "wide", "loose", "tight"}
Matches == {"low", "poor", "thin", "good"}
Registrations == {"few", "agrees", "doubts", "rejects"}

KTypeOK ==
  /\ state \in States
  /\ is_lost \in BOOLEAN /\ trusted \in BOOLEAN /\ given \in BOOLEAN
  /\ amcl \in Poses /\ match \in Matches /\ registration \in Registrations
  /\ converged \in 0..ConvergeCount - 1
  /\ spins_left \in 0..SpinRetry - 1 /\ reinits_done \in 0..ReinitRetry
  /\ spin_active \in BOOLEAN /\ backend_ready \in BOOLEAN /\ spin_ready \in BOOLEAN
  /\ server \in BOOLEAN /\ spin_goal \in BOOLEAN /\ gone \in BOOLEAN /\ echo \in BOOLEAN
  /\ asked \in Nat /\ loose \in Nat /\ canceling \in Nat

Running == IF spin_goal THEN 1 ELSE 0

\* Bound: no step that may send a goal while MaxGoals of them are under way.
Room == asked + Running + loose + canceling < MaxGoals

-----------------------------------------------------------------------------
(* Rotations.                                                               *)

(* _spin and start_spin, with out goals asked for before.                   *)
StartSpin(out) ==
  /\ spin_ready' = server
  /\ spin_active' = (server \/ ~spin_ready)
  /\ asked' = IF server THEN out + 1 ELSE out
  /\ gone' = (gone /\ ~server)

\* cancel_spin: a goal that is not accepted yet has no handle.
CancelSpin(ordered) ==
  /\ canceling' = IF ordered THEN canceling + Running ELSE canceling
  /\ spin_goal' = (spin_goal /\ ~ordered)

(* _reinitialize: the attempt after done; seeds an initialpose if it can.   *)
Reinitialize(done, out) ==
  /\ reinits_done' = done + 1
  /\ spins_left' = SpinRetry - 1
  /\ StartSpin(out)
  /\ echo' \in {echo, TRUE}

GiveUp(out) ==
  /\ state' = "FAILED"
  /\ spin_active' = FALSE
  /\ asked' = out
  /\ UNCHANGED <<spins_left, reinits_done, spin_ready, gone, echo>>

(* on_spin_done, with out goals still asked for.                            *)
SpinDone(out) ==
  /\ UNCHANGED <<is_lost, converged, trusted, given, signals, backend_ready, server>>
  /\ \/ /\ state = "RECOVERING" /\ backend_ready /\ spin_ready
        /\ \/ /\ spins_left > 0
              /\ spins_left' = spins_left - 1
              /\ StartSpin(out)
              /\ UNCHANGED <<state, reinits_done, echo>>
           \/ /\ spins_left = 0 /\ reinits_done < ReinitRetry
              /\ Reinitialize(reinits_done, out)
              /\ UNCHANGED state
           \/ spins_left = 0 /\ reinits_done = ReinitRetry /\ GiveUp(out)
     \/ /\ ~(state = "RECOVERING" /\ backend_ready /\ spin_ready)
        /\ spin_active' = FALSE
        /\ asked' = out
        /\ UNCHANGED <<state, spins_left, reinits_done, spin_ready, gone, echo>>

-----------------------------------------------------------------------------
(* LOST and found.                                                          *)

\* What is known of the pose is of before LOST.
Forget(a) == amcl' = (IF a = "tight" THEN "loose" ELSE a)

Lost ==
  /\ is_lost' = TRUE /\ state' = "RECOVERING" /\ converged' = 0
  /\ match' = "poor" /\ registration' = "few"

(* A pose given before LOST is no longer trusted.                           *)
TrustAtLostKept == trusted
TrustAtLost == FALSE

(* _declare_lost, with a the pose of AMCL.                                  *)
DeclareLost(a) ==
  /\ Room
  /\ Lost /\ Forget(a)
  /\ trusted' = TrustAtLost /\ given' = FALSE
  /\ CancelSpin(spin_active)
  /\ Reinitialize(0, asked)
  /\ UNCHANGED <<loose, backend_ready, server>>

(* _recover                                                                 *)
Recover(a, m) ==
  /\ is_lost' = FALSE /\ state' = "TRACKING" /\ converged' = 0
  /\ trusted' = FALSE /\ given' = FALSE
  /\ CancelSpin(spin_active) /\ spin_active' = FALSE
  /\ amcl' = a /\ match' = m /\ registration' = "few"
  /\ UNCHANGED <<spins_left, reinits_done, backend_ready, spin_ready,
                 asked, loose, gone, server, echo>>

Alarm(a, m, r) == a = "wide" \/ m = "low" \/ r = "rejects"
Converges(a, m) == a = "tight" /\ (m = "good" \/ (m = "thin" /\ trusted))

Watching(s, a, m, r) ==
  /\ state' = s /\ amcl' = a /\ match' = m /\ registration' = r
  /\ UNCHANGED <<is_lost, converged, trusted, given, budget, goals, server, echo>>

(* _evaluate with new signals; jump is the AMCL pose leaping against odom.  *)
Evaluate(a, m, r, jump) ==
  \/ /\ state = "TRACKING"
     /\ \/ Watching("TRACKING", a, m, r)      \* nothing wrong, or within the cooldown
        \/ (jump \/ Alarm(a, m, r)) /\ Watching("SUSPECT", a, m, r)
  \/ /\ state = "SUSPECT"
     /\ \/ Watching("SUSPECT", a, m, r)
        \/ ~Alarm(a, m, r) /\ Watching("TRACKING", a, m, r)
        \/ Alarm(a, m, r) /\ DeclareLost(a)
  \/ /\ is_lost /\ Converges(a, m) /\ converged + 1 = ConvergeCount
     /\ Recover(a, m)
  \/ /\ is_lost /\ ~(Converges(a, m) /\ converged + 1 = ConvergeCount)
     /\ converged' = IF Converges(a, m) THEN converged + 1 ELSE 0
     /\ amcl' = a /\ match' = m /\ registration' = r
     /\ UNCHANGED <<state, is_lost, trusted, given, budget, goals, server, echo>>

-----------------------------------------------------------------------------
(* Callbacks.                                                               *)

OnAmcl == \E a \in Poses \ {"none"}, jump \in BOOLEAN :
            Evaluate(a, match, registration, jump)

\* A margin is computed while lost only; low is the last of match_window in a row.
OnMatch ==
  /\ amcl # "none"
  /\ \E m \in Matches :
       (m = "thin" => is_lost) /\ Evaluate(amcl, m, registration, FALSE)

(* The window moves by a scan at a time, and rests while the robot is lost: *)
(* the matcher measures nothing then.                                       *)
OnScanMatch ==
  /\ ~is_lost
  /\ \E r \in Registrations :
       /\ r = "few" => registration = "few"
       /\ {r, registration} # {"agrees", "rejects"}
       /\ Evaluate(amcl, match, r, FALSE)

(* on_marker_fix, once the mismatch has lasted.  The window of trust is     *)
(* left as it is: a pose given before is trusted in this LOST as well.      *)
OnMarkerFix ==
  /\ Room
  /\ amcl # "none" /\ ~is_lost /\ registration # "agrees"
  /\ Lost /\ Forget(amcl)
  /\ reinits_done' = 0
  /\ echo' = TRUE
  /\ StartSpin(asked)
  /\ UNCHANGED <<trusted, given, spins_left, backend_ready, spin_goal, loose, canceling, server>>

(* on_external_pose_reset                                                   *)
ExternalPoseReset ==
  /\ state' = IF state = "SUSPECT" THEN "TRACKING" ELSE state
  /\ trusted' = TRUE /\ given' = TRUE
  /\ registration' = "few"
  /\ match' = IF match = "low" THEN "poor" ELSE match

(* on_initial_pose: what this node published itself is dropped (it arrives  *)
(* within 0.5 s), and so is any other pose that comes within that time.     *)
OnInitialPose(own) ==
  /\ own => echo
  /\ echo' = (echo /\ ~own)
  /\ IF own THEN UNCHANGED <<state, trusted, given, registration, match>>
            ELSE ExternalPoseReset
  /\ UNCHANGED <<is_lost, converged, amcl, budget, goals, server>>

(* on_backend_poll reads an answer, possibly of long ago, and calls         *)
(* set_backend_ready.                                                       *)
BackendInactive ==
  /\ is_lost /\ backend_ready
  /\ backend_ready' = FALSE
  /\ UNCHANGED <<verdict, signals, spins_left, reinits_done, spin_active, spin_ready,
                 goals, server, echo>>

BackendActive ==
  /\ Room
  /\ is_lost /\ ~backend_ready
  /\ backend_ready' = TRUE
  /\ state' = "RECOVERING"
  /\ trusted' = TRUE /\ given' = TRUE
  /\ Forget(amcl)
  /\ CancelSpin(spin_active)
  /\ Reinitialize(0, asked)
  /\ UNCHANGED <<is_lost, converged, match, registration, loose, server>>

(* set_spin_ready starts the rotation that could not be started.            *)
ResumesNever == FALSE
Resumes == state = "RECOVERING" /\ backend_ready

(* on_tick: a way to turn has appeared; the time waited moves the moment of *)
(* LOST, so that an update may be of before it.                             *)
SpinReady ==
  /\ Room
  /\ ~spin_ready /\ server
  /\ \/ Resumes /\ StartSpin(asked)
     \/ /\ ~Resumes
        /\ spin_ready' = TRUE
        /\ UNCHANGED <<spin_active, asked, gone>>
  /\ amcl' = amcl \/ Forget(amcl)
  /\ UNCHANGED <<verdict, match, registration, spins_left, reinits_done, backend_ready,
                 spin_goal, loose, canceling, server, echo>>

(* tick: the recovery has taken too long.                                   *)
TimeIsUp ==
  /\ state = "RECOVERING" /\ backend_ready /\ spin_ready
  /\ CancelSpin(spin_active)
  /\ GiveUp(asked)
  /\ UNCHANGED <<is_lost, converged, trusted, given, signals, backend_ready, loose, server>>

(* tick: suspect_time has passed.                                           *)
SuspicionEnds ==
  /\ state = "SUSPECT"
  /\ \/ ~Alarm(amcl, match, registration)
        /\ Watching("TRACKING", amcl, match, registration)
     \/ Alarm(amcl, match, registration) /\ DeclareLost(amcl)

TrustEnds ==
  /\ trusted
  /\ trusted' = FALSE
  /\ UNCHANGED <<state, is_lost, converged, given, signals, budget, goals, server, echo>>

(* on_spin_accepted                                                         *)
Accepted ==
  /\ server /\ asked > 0
  /\ asked' = asked - 1
  /\ spin_goal' = TRUE /\ loose' = loose + Running
  /\ UNCHANGED <<verdict, signals, budget, canceling, gone, server, echo>>

Rejected ==
  /\ server /\ asked > 0
  /\ SpinDone(asked - 1)
  /\ UNCHANGED <<spin_goal, loose, canceling>>

(* on_spin_result: whatever goal it is of, the handle is forgotten.  Of the *)
(* goal with the handle, of another one, or of one that ended before its    *)
(* cancellation got to it.                                                  *)
Ended ==
  /\ server
  /\ \/ spin_goal /\ UNCHANGED <<loose, canceling>>
     \/ loose > 0 /\ loose' = loose - 1 + Running /\ UNCHANGED canceling
     \/ canceling > 0 /\ canceling' = canceling - 1 /\ loose' = loose + Running
  /\ spin_goal' = FALSE
  /\ SpinDone(asked)

Canceled ==
  /\ server /\ canceling > 0
  /\ canceling' = canceling - 1 /\ loose' = loose + Running
  /\ spin_goal' = FALSE
  /\ UNCHANGED <<verdict, signals, budget, asked, gone, server, echo>>

(* The action server appears, or goes away with its goals.                  *)
ServerComes == ~server /\ server' = TRUE /\ UNCHANGED <<verdict, signals, budget, goals, echo>>

ServerGoes ==
  /\ server
  /\ server' = FALSE
  /\ gone' = (gone \/ asked + Running + loose > 0)
  /\ asked' = 0 /\ spin_goal' = FALSE /\ loose' = 0 /\ canceling' = 0
  /\ UNCHANGED <<verdict, signals, budget, echo>>

-----------------------------------------------------------------------------
KInit ==
  /\ state = "TRACKING" /\ is_lost = FALSE /\ converged = 0
  /\ trusted = FALSE /\ given = FALSE
  /\ amcl = "none" /\ match = "poor" /\ registration = "few"
  /\ spins_left = 0 /\ reinits_done = 0 /\ spin_active = FALSE
  /\ backend_ready = TRUE /\ spin_ready = TRUE
  /\ server = FALSE
  /\ asked = 0 /\ spin_goal = FALSE /\ loose = 0 /\ canceling = 0 /\ gone = FALSE
  /\ echo = FALSE

Sensing == OnAmcl \/ OnMatch \/ OnScanMatch \/ OnMarkerFix \/ \E own \in BOOLEAN : OnInitialPose(own)
Timers == BackendInactive \/ BackendActive \/ SpinReady \/ TimeIsUp \/ SuspicionEnds \/ TrustEnds
Turning == Accepted \/ Rejected \/ Ended \/ Canceled \/ ServerComes \/ ServerGoes

KNext == Sensing \/ Timers \/ Turning

KSpec == KInit /\ [][KNext]_kvars
-----------------------------------------------------------------------------
(* A recovery never goes silent: while AMCL and a way to turn are there, a  *)
(* rotation is under way whose end takes the next attempt, unless its       *)
(* server died, whatever came back in which order.                          *)
RecoveryGoesOn ==
  state = "RECOVERING" /\ backend_ready /\ spin_ready
    => asked > 0 \/ loose > 0 \/ spin_goal \/ gone

(* While the robot is lost, a pose that an alias of the place fits as well  *)
(* is accepted only if a pose came from outside (an initialpose, the back   *)
(* end set up again) since the last LOST declared on alarms and since the   *)
(* last recovery: no pose of before is trusted.  It need not be the pose    *)
(* that is accepted: the own search may have seeded another one since.  And *)
(* a LOST that a marker declares does not end the trust in an older pose.   *)
AliasNeedsOutsidePose == [][is_lost /\ ~is_lost' /\ match' = "thin" => given]_kvars
=============================================================================
