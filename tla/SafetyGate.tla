----------------------------- MODULE SafetyGate -----------------------------
(***************************************************************************)
(* The last stage before the wheels: SafetyGate::evaluate and the callbacks *)
(* of safety_node, which run one at a time.                                *)
(*                                                                         *)
(* A distance is abstracted to its place among the thresholds of its       *)
(* channel, the same scale for all channels:                               *)
(*   0 stop at once   1 stop   2 a stop is not released yet                *)
(*   3, 4 warning     5, 6 clear   (3 and 5 within zone_hysteresis).       *)
(* A speed is 0 (none), 1 (critical, degraded, escape), 2 (warning) or     *)
(* 3 (unlimited).  What sets a speed without any memory (the command, a    *)
(* degrading sensor, a missing cloud, TTC and its exceptions) is one free  *)
(* limit.  E-stop inputs have one publisher each.                          *)
(***************************************************************************)
EXTENDS Integers, Sequences, FiniteSets, FiniteSetsExt

CONSTANTS
  Sources,      \* the E-stop inputs: estop, fleet_estop
  MaxSamples,   \* bound on the samples of each input
  Sights        \* what scan and cloud may show: channel |-> place

Subscriptions == {"latched", "volatile"}
ScanChannels == {"lidar", "contact", "lidar_excl"}
CloudChannels == {"depth", "depth_excl"}
Channels == ScanChannels \cup CloudChannels
Places == 0..6
Speeds == 0..3

ASSUME SightsAssumption == Sights \subseteq [Channels -> Places]
ASSUME SamplesAssumption == MaxSamples \in [Sources -> Nat]

VARIABLES
  sent,       \* the samples of each input, in the order of their source time
  received,   \* the newest sample each subscription has delivered
  seen,       \* estop_seen_: the newest source time
  estop_sources,   \* the value of each input
  latched,    \* estop_latched_
  counts,     \* frames in a row of each channel, up to stop_confirm_frames
  causes,     \* stop_causes_, not empty iff proximity_stop_
  zone,       \* zone_: 0 clear .. 3 stop
  saidZone, saidEstop, out,   \* last_zone_, last_estop_, last_linear_: as published
  low,        \* a low obstacle, which only the cloud can show, is in the way
  facing,     \* and the robot has stopped for it
  calm        \* from now on nothing is in the way and no sensor fails

stops == <<sent, received, seen, estop_sources>>
gvars == <<stops, latched, counts, causes, zone, saidZone, saidEstop, out, low, facing, calm>>

NotPublished == 4

GTypeOK ==
  /\ sent \in [Sources -> Seq(BOOLEAN)]
  /\ received \in [Sources -> [Subscriptions -> Nat]]
  /\ seen \in [Sources -> Nat]
  /\ estop_sources \in [Sources -> BOOLEAN]
  /\ latched \in BOOLEAN
  /\ counts \in [Channels -> 0..2]
  /\ causes \subseteq {"lidar", "depth", "contact", "dock_exclusion"}
  /\ zone \in 0..3 /\ saidZone \in 0..NotPublished
  /\ saidEstop \in BOOLEAN /\ out \in Speeds
  /\ low \in BOOLEAN /\ facing \in BOOLEAN /\ calm \in BOOLEAN

-----------------------------------------------------------------------------
(* What the sensors show at the time of an evaluation.                      *)

ConfirmFrames == 2   \* stop_confirm_frames

(* updateChannel, for the channels that have a new frame; a cloud that is   *)
(* too old when it arrives is none.                                         *)
Counted(d, framed, fresh) ==
  [c \in Channels |->
    IF c \notin framed \/ (c \in CloudChannels /\ ~fresh) THEN counts[c]
    ELSE IF d[c] > 1 THEN 0
    ELSE Min({counts[c] + 1, ConfirmFrames})]

CauseOf(c) == IF c \in {"lidar_excl", "depth_excl"} THEN "dock_exclusion" ELSE c

(* The causes of confirmed, given the counts after this frame.              *)
Confirmed(d, n) == {CauseOf(c) : c \in {k \in Channels : d[k] = 0 \/ (d[k] = 1 /\ n[k] = ConfirmFrames)}}

Main(d) == Min({d["lidar"], d["depth"]})
Exclusion(d) == Min({d["lidar_excl"], d["depth_excl"]})

(* Faulty variant of DepthCleared: a cloud that fails shows nothing near.   *)
DepthClearedUnseen(d, fresh) == d["depth"] > 2
(* What stopped the robot has to be seen gone.                              *)
DepthCleared(d, fresh) == fresh /\ d["depth"] > 2

Cleared(d, fresh) ==
  /\ "lidar" \in causes => d["lidar"] > 2
  /\ "depth" \in causes => DepthCleared(d, fresh)
  /\ "contact" \in causes => d["contact"] > 2
  /\ "dock_exclusion" \in causes => Exclusion(d) > 2

CausesAfter(d, n, fresh) ==
  IF Confirmed(d, n) # {} THEN causes \cup Confirmed(d, n)
  ELSE IF Cleared(d, fresh) THEN {} ELSE causes

(* Faulty variant of Eased: a zone once entered is left only through STOP.  *)
EasedNever(place) == FALSE
(* The hysteresis towards a lighter zone.                                   *)
Eased(place) == place > (IF zone = 2 THEN 3 ELSE 5)

ZoneAt(place) ==
  CASE place <= 2 -> 2   \* closer than STOP but unconfirmed is CRITICAL
    [] place \in {3, 4} -> 1
    [] OTHER -> 0

ZoneAfter(d, stop) ==
  IF stop THEN 3
  ELSE IF ZoneAt(Main(d)) >= zone \/ zone = 3 \/ Eased(Main(d)) THEN ZoneAt(Main(d))
  ELSE zone

(* u_cap: zone, clearance and dock exclusion.                               *)
Cap(d, z) ==
  Min({CASE z = 1 -> 2 [] z = 2 -> 1 [] OTHER -> 3,
       IF Main(d) <= 1 \/ Exclusion(d) <= 1 THEN 0 ELSE 3,
       IF Exclusion(d) < 6 THEN 1 ELSE 3})

(* A robot in STOP that still gets closer, or may be: it sees no depth.     *)
Approaching(d, why, fresh) ==
  \/ "depth" \in why /\ ~fresh
  \/ why \cap {"lidar", "depth"} # {} /\ Main(d) <= 2
  \/ "dock_exclusion" \in why /\ Exclusion(d) <= 2
  \/ Main(d) <= 1 \/ Exclusion(d) <= 1

(* The commands the robot may get: any up to the cap, or in STOP an escape  *)
(* as proved from the beams.                                                *)
Commands(d, why, fresh) ==
  IF why = {} THEN 0..Cap(d, ZoneAfter(d, FALSE))
  ELSE IF Approaching(d, why, fresh) THEN {0}
  ELSE 0..Min({1, Cap(d, 3)})

-----------------------------------------------------------------------------
(* Faulty variant of WorthTelling: a change of the zone alone.              *)
WorthTellingZone(stopped, speed) == zone' # saidZone
(* What step() publishes between two periods.  A smaller cap is told if it  *)
(* is one of the four levels lower; the code tells it from 0.05 m/s or      *)
(* 0.1 rad/s on, so that changes within a level are not seen here.          *)
WorthTelling(stopped, speed) == zone' # saidZone \/ stopped # saidEstop \/ speed < out

ClearSight == [c \in Channels |-> 6]

(* What may show: without a fresh cloud nothing is near as far as the cloud *)
(* can tell, with one it shows a low obstacle.                              *)
Shown(fresh) ==
  IF calm THEN {ClearSight}
  ELSE {d \in Sights :
         IF fresh THEN low => d["depth"] <= 2 ELSE \A c \in CloudChannels : d[c] = 6}

(* evaluate(), with new frames of some channels.                            *)
Judge(d, fresh, framed) ==
  LET n == Counted(d, framed, fresh)
      why == CausesAfter(d, n, fresh)
  IN /\ counts' = n
     /\ causes' = why
     /\ zone' = ZoneAfter(d, why # {})
     /\ facing' = (low /\ (facing \/ "depth" \in why))

(* step(): evaluate, and publish in the timer or on a change.               *)
Step(timer, framed, latch) ==
  /\ latched' = latch
  /\ \E fresh, failed \in BOOLEAN :
       /\ calm => fresh /\ ~failed
       /\ \E d \in Shown(fresh) :
            /\ Judge(d, fresh, framed)
            /\ LET stopped == latch \/ failed
                   allowed == IF stopped THEN {0} ELSE Commands(d, causes', fresh)
               IN \E speed \in IF calm THEN {Max(allowed)} ELSE allowed :
                    IF timer \/ WorthTelling(stopped, speed)
                      THEN saidZone' = zone' /\ saidEstop' = stopped /\ out' = speed
                      ELSE UNCHANGED <<saidZone, saidEstop, out>>

Timer == Step(TRUE, {}, latched) /\ UNCHANGED <<stops, low, calm>>
SetCommand == Step(FALSE, {}, latched) /\ UNCHANGED <<stops, low, calm>>
OnScan == Step(FALSE, ScanChannels, latched) /\ UNCHANGED <<stops, low, calm>>
OnCloud == Step(FALSE, CloudChannels, latched) /\ UNCHANGED <<stops, low, calm>>

(* Faulty variant of News: every sample that arrives.                       *)
NewsAlways(s, k) == TRUE
(* A sample that did not come before by the other subscription.             *)
News(s, k) == k > seen[s]

(* A subscription delivers in order and may lose old samples to new ones.   *)
OnEstop(s, sub) ==
  \E k \in (received[s][sub] + 1)..Len(sent[s]) :
    /\ received' = [received EXCEPT ![s][sub] = k]
    /\ IF News(s, k)
         THEN /\ seen' = [seen EXCEPT ![s] = k]
              /\ estop_sources' = [estop_sources EXCEPT ![s] = sent[s][k]]
              /\ Step(FALSE, {}, latched \/ sent[s][k])
         ELSE UNCHANGED <<seen, estop_sources, latched, counts, causes, zone, saidZone, saidEstop,
                          out, facing>>
    /\ UNCHANGED <<sent, low, calm>>

AllSourcesClear == \A s \in Sources : ~estop_sources[s]

RequestReset ==
  /\ Step(FALSE, {}, latched /\ ~AllSourcesClear)
  /\ UNCHANGED <<stops, low, calm>>

(* Somebody presses or releases an E-stop.                                  *)
Publish(s, active) ==
  /\ Len(sent[s]) < MaxSamples[s]
  /\ sent' = [sent EXCEPT ![s] = Append(@, active)]
  /\ UNCHANGED <<received, seen, estop_sources, latched, counts, causes, zone, saidZone,
                 saidEstop, out, low, facing, calm>>

(* A low obstacle comes into the way of the robot or leaves it.             *)
LowObstacle ==
  /\ ~calm
  /\ low' = ~low
  /\ facing' = FALSE
  /\ UNCHANGED <<stops, latched, counts, causes, zone, saidZone, saidEstop, out, calm>>

CalmsDown ==
  /\ ~calm /\ ~low
  /\ calm' = TRUE
  /\ UNCHANGED <<stops, latched, counts, causes, zone, saidZone, saidEstop, out, low, facing>>

GInit ==
  /\ sent = [s \in Sources |-> <<>>]
  /\ received = [s \in Sources |-> [sub \in Subscriptions |-> 0]]
  /\ seen = [s \in Sources |-> 0] /\ estop_sources = [s \in Sources |-> FALSE]
  /\ latched = FALSE
  /\ counts = [c \in Channels |-> 0] /\ causes = {} /\ zone = 0
  /\ saidZone = NotPublished /\ saidEstop = FALSE /\ out = 0
  /\ low = FALSE /\ facing = FALSE /\ calm \in BOOLEAN

Arrival == \E s \in Sources, sub \in Subscriptions : OnEstop(s, sub)
Press == \E s \in Sources, active \in BOOLEAN : Publish(s, active)
Obstacles == OnScan \/ OnCloud \/ LowObstacle

GNext == Timer \/ SetCommand \/ Obstacles \/ Arrival \/ RequestReset \/ Press \/ CalmsDown

GSpec == GInit /\ [][GNext]_gvars

(* The period goes on, the samples arrive and somebody asks for the reset; only *)
(* when nothing is in the way does a property need it.                      *)
FairGSpec ==
  /\ GSpec /\ WF_gvars(calm /\ Timer) /\ WF_gvars(calm /\ RequestReset)
  /\ WF_gvars(calm /\ Arrival)
-----------------------------------------------------------------------------
Newest(s) == Max({received[s][sub] : sub \in Subscriptions})

(* The gate goes by the newest sample of every input, though each comes by  *)
(* two subscriptions in any order: none that is pressed is ever taken back  *)
(* by an older sample, and as long as one is pressed the latch is closed.   *)
EstopKept ==
  \A s \in Sources :
    /\ estop_sources[s] <=> Newest(s) > 0 /\ sent[s][Newest(s)]
    /\ estop_sources[s] => latched

(* After every callback the wheels and the rest of the robot have been told *)
(* of the stop in force: nothing waits for the next period.                 *)
StopPublished ==
  /\ latched => out = 0 /\ saidEstop
  /\ causes # {} => out <= 1 /\ saidZone = 3

(* Having stopped for a low obstacle the robot stands until it is gone,     *)
(* also when the clouds fail, come back, or a scan shows the way free.      *)
StandsForLow == facing => out = 0

(* A robot that nothing stops any more gets its full speed back, once the   *)
(* E-stops are released and the latch is reset: no state of the gate locks  *)
(* it in.                                                                   *)
Pressed(s) == sent[s] # <<>> /\ sent[s][Len(sent[s])]
MovesAgain == calm ~> out = 3 \/ \E s \in Sources : Pressed(s)
=============================================================================
