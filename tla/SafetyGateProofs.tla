--------------------------- MODULE SafetyGateProofs --------------------------
(***************************************************************************)
(* Proofs about SafetyGate, for any number of E-stop inputs, of samples of *)
(* each and for whatever scan and cloud may show.                          *)
(***************************************************************************)
EXTENDS SafetyGate, TLAPS

-----------------------------------------------------------------------------
(* The inductive invariant.                                                 *)

\* The two subscriptions of an input have together come as far as it is
\* seen, and the value is that of this sample.
SeenIsNewest ==
  \A s \in Sources :
    /\ \A sub \in Subscriptions : received[s][sub] <= seen[s] /\ seen[s] <= Len(sent[s])
    /\ \E sub \in Subscriptions : received[s][sub] = seen[s]
    /\ estop_sources[s] <=> seen[s] > 0 /\ sent[s][seen[s]]
    /\ estop_sources[s] => latched

\* The robot that stands before a low obstacle keeps the cloud as a cause:
\* only a cloud can clear it, and it shows the obstacle.
FacingHeld ==
  /\ facing => low /\ "depth" \in causes /\ out = 0
  /\ calm => ~low

GInv == GTypeOK /\ SeenIsNewest /\ StopPublished /\ FacingHeld

Causes == {"lidar", "depth", "contact", "dock_exclusion"}

-----------------------------------------------------------------------------
(* Minima and maxima of the sets the gate builds.                           *)
LEMMA MinOfTwo ==
  ASSUME NEW a \in Int, NEW b \in Int
  PROVE  Min({a, b}) = IF a <= b THEN a ELSE b
<1>1. CASE a <= b
  <2>1. \E x \in {a, b} : \A y \in {a, b} : x <= y
    BY <1>1
  <2> QED BY <1>1, <2>1 DEF Min
<1>2. CASE ~(a <= b)
  <2>1. \E x \in {a, b} : \A y \in {a, b} : x <= y
    BY <1>2
  <2> QED BY <1>2, <2>1 DEF Min
<1> QED BY <1>1, <1>2

LEMMA MinOfThree ==
  ASSUME NEW a \in Int, NEW b \in Int, NEW c \in Int
  PROVE  /\ Min({a, b, c}) \in {a, b, c}
         /\ Min({a, b, c}) <= a /\ Min({a, b, c}) <= b /\ Min({a, b, c}) <= c
<1>1. \E x \in {a, b, c} : \A y \in {a, b, c} : x <= y
  OBVIOUS
<1> QED BY <1>1 DEF Min

LEMMA MaxIn ==
  ASSUME NEW S, NEW m \in S, \A x \in S : m >= x
  PROVE  Max(S) \in S
<1>1. \E x \in S : \A y \in S : x >= y
  OBVIOUS
<1> QED BY <1>1 DEF Max

(* What an evaluation gives.                                                *)
LEMMA CapBounds ==
  ASSUME NEW d \in [Channels -> Places], NEW z \in 0..3
  PROVE  Cap(d, z) \in Speeds
<1> DEFINE a == CASE z = 1 -> 2 [] z = 2 -> 1 [] OTHER -> 3
           b == IF Main(d) <= 1 \/ Exclusion(d) <= 1 THEN 0 ELSE 3
           c == IF Exclusion(d) < 6 THEN 1 ELSE 3
<1>1. a \in Speeds /\ b \in Speeds /\ c \in Speeds
  BY DEF Speeds
<1>2. a \in Int /\ b \in Int /\ c \in Int
  BY <1>1 DEF Speeds
<1>3. Min({a, b, c}) \in {a, b, c}
  BY <1>2, MinOfThree
<1>4. Cap(d, z) = Min({a, b, c})
  BY DEF Cap
<1> HIDE DEF a, b, c
<1> QED BY <1>1, <1>3, <1>4

LEMMA MainOfDepth ==
  ASSUME NEW d \in [Channels -> Places]
  PROVE  Main(d) \in Places /\ Main(d) <= d["depth"] /\ Exclusion(d) \in Places
<1>1. d["lidar"] \in Places /\ d["depth"] \in Places
      /\ d["lidar_excl"] \in Places /\ d["depth_excl"] \in Places
  BY DEF Channels, ScanChannels, CloudChannels
<1> QED BY <1>1, MinOfTwo DEF Main, Exclusion, Places

LEMMA ZoneBounds ==
  ASSUME NEW d \in [Channels -> Places], NEW stop \in BOOLEAN, zone \in 0..3
  PROVE  ZoneAfter(d, stop) \in 0..3 /\ (stop => ZoneAfter(d, stop) = 3)
<1>1. ZoneAt(Main(d)) \in 0..3
  BY DEF ZoneAt
<1> QED BY <1>1 DEF ZoneAfter

LEMMA CausesAfterType ==
  ASSUME NEW d, NEW n, NEW fresh, causes \subseteq Causes
  PROVE  CausesAfter(d, n, fresh) \subseteq Causes
BY DEF CausesAfter, Confirmed, CauseOf, Causes, Channels, ScanChannels, CloudChannels

LEMMA CountedType ==
  ASSUME NEW d, NEW framed, NEW fresh, counts \in [Channels -> 0..2]
  PROVE  Counted(d, framed, fresh) \in [Channels -> 0..2]
<1> SUFFICES ASSUME NEW c \in Channels
             PROVE  Counted(d, framed, fresh)[c] \in 0..2
  BY DEF Counted
<1>1. counts[c] \in 0..2
  OBVIOUS
<1>2. Min({counts[c] + 1, 2}) \in 0..2
  BY <1>1, MinOfTwo
<1> QED BY <1>1, <1>2 DEF Counted, ConfirmFrames

(* The commands left to a robot, at most the slowest in STOP and none when  *)
(* it still gets closer.                                                    *)
LEMMA CommandsBound ==
  ASSUME NEW d \in [Channels -> Places], NEW why, NEW fresh \in BOOLEAN, zone \in 0..3
  PROVE  /\ Commands(d, why, fresh) \subseteq Speeds
         /\ why # {} => Commands(d, why, fresh) \subseteq 0..1
         /\ why # {} /\ Approaching(d, why, fresh) => Commands(d, why, fresh) = {0}
         /\ Max(Commands(d, why, fresh)) \in Commands(d, why, fresh)
<1>1. CASE why = {}
  <2>1. PICK k \in Speeds : Commands(d, why, fresh) = 0..k
    BY <1>1, ZoneBounds, CapBounds DEF Commands
  <2>2. k \in 0..k /\ \A x \in 0..k : k >= x
    BY DEF Speeds
  <2>3. Max(0..k) \in 0..k
    BY <2>2, MaxIn
  <2> QED BY <1>1, <2>1, <2>3 DEF Speeds
<1>2. CASE why # {} /\ Approaching(d, why, fresh)
  <2>1. Commands(d, why, fresh) = {0}
    BY <1>2 DEF Commands
  <2>2. Max({0}) \in {0}
    BY MaxIn
  <2>3. {0} \subseteq 0..1 /\ {0} \subseteq Speeds
    BY DEF Speeds
  <2> QED BY <1>2, <2>1, <2>2, <2>3
<1>3. CASE why # {} /\ ~Approaching(d, why, fresh)
  <2>1. Commands(d, why, fresh) = 0..Min({1, Cap(d, 3)})
    BY <1>3 DEF Commands
  <2>2. Cap(d, 3) \in 0..3
    BY CapBounds DEF Speeds
  <2>3. Min({1, Cap(d, 3)}) \in 0..1
    BY <2>2, MinOfTwo
  <2>4. PICK k \in 0..1 : Commands(d, why, fresh) = 0..k
    BY <2>1, <2>3
  <2>5. k \in 0..k /\ \A x \in 0..k : k >= x
    OBVIOUS
  <2>6. Max(0..k) \in 0..k
    BY <2>5, MaxIn
  <2> QED BY <1>3, <2>4, <2>6 DEF Speeds
<1> QED BY <1>1, <1>2, <1>3

-----------------------------------------------------------------------------
(* Whatever called step(): what it leaves is typed, and what is in force has *)
(* been published.                                                          *)
LEMMA StepKeeps ==
  ASSUME GInv, NEW timer \in BOOLEAN, NEW framed, NEW latch \in BOOLEAN,
         Step(timer, framed, latch), low' = low, calm' = calm
  PROVE  /\ latched' = latch /\ counts' \in [Channels -> 0..2] /\ causes' \subseteq Causes
         /\ zone' \in 0..3 /\ saidZone' \in 0..NotPublished
         /\ saidEstop' \in BOOLEAN /\ out' \in Speeds /\ facing' \in BOOLEAN
         /\ StopPublished' /\ FacingHeld'
<1> USE DEF Speeds
<1>a. /\ counts \in [Channels -> 0..2] /\ causes \subseteq Causes /\ zone \in 0..3
      /\ saidZone \in 0..NotPublished /\ saidEstop \in BOOLEAN /\ out \in 0..3
      /\ low \in BOOLEAN /\ facing \in BOOLEAN
  BY DEF GInv, GTypeOK, Causes
<1>0. PICK fresh \in BOOLEAN, failed \in BOOLEAN : \E d \in Shown(fresh) :
        /\ Judge(d, fresh, framed)
        /\ LET stopped == latch \/ failed
               allowed == IF stopped THEN {0} ELSE Commands(d, causes', fresh)
           IN \E speed \in IF calm THEN {Max(allowed)} ELSE allowed :
                IF timer \/ WorthTelling(stopped, speed)
                  THEN saidZone' = zone' /\ saidEstop' = stopped /\ out' = speed
                  ELSE UNCHANGED <<saidZone, saidEstop, out>>
  BY DEF Step
<1>1. PICK d \in Shown(fresh) :
        /\ Judge(d, fresh, framed)
        /\ LET stopped == latch \/ failed
               allowed == IF stopped THEN {0} ELSE Commands(d, causes', fresh)
           IN \E speed \in IF calm THEN {Max(allowed)} ELSE allowed :
                IF timer \/ WorthTelling(stopped, speed)
                  THEN saidZone' = zone' /\ saidEstop' = stopped /\ out' = speed
                  ELSE UNCHANGED <<saidZone, saidEstop, out>>
  BY <1>0
<1> DEFINE stopped == latch \/ failed
           allowed == IF stopped THEN {0} ELSE Commands(d, causes', fresh)
<1>2. PICK speed \in IF calm THEN {Max(allowed)} ELSE allowed :
        IF timer \/ WorthTelling(stopped, speed)
          THEN saidZone' = zone' /\ saidEstop' = stopped /\ out' = speed
          ELSE UNCHANGED <<saidZone, saidEstop, out>>
  BY <1>1
<1>3. d \in [Channels -> Places] /\ (fresh /\ low => d["depth"] <= 2)
  <2>1. CASE calm
    <3>1. d = [c \in Channels |-> 6] /\ ~low
      BY <1>1, <2>1 DEF Shown, ClearSight, GInv, FacingHeld
    <3> QED BY <3>1 DEF Places
  <2>2. CASE ~calm
    <3>1. d \in Sights /\ (fresh /\ low => d["depth"] <= 2)
      BY <1>1, <2>2 DEF Shown
    <3> QED BY <3>1, SightsAssumption
  <2> QED BY <2>1, <2>2
<1>4. /\ counts' = Counted(d, framed, fresh)
      /\ causes' = CausesAfter(d, Counted(d, framed, fresh), fresh)
      /\ zone' = ZoneAfter(d, causes' # {})
      /\ facing' = (low /\ (facing \/ "depth" \in causes'))
  BY <1>1 DEF Judge
<1>5. /\ counts' \in [Channels -> 0..2] /\ causes' \subseteq Causes
      /\ zone' \in 0..3 /\ (causes' # {} => zone' = 3) /\ facing' \in BOOLEAN
  BY <1>a, <1>3, <1>4, CountedType, CausesAfterType, ZoneBounds
<1>6. /\ Commands(d, causes', fresh) \subseteq Speeds
      /\ causes' # {} => Commands(d, causes', fresh) \subseteq 0..1
      /\ causes' # {} /\ Approaching(d, causes', fresh) => Commands(d, causes', fresh) = {0}
      /\ Max(Commands(d, causes', fresh)) \in Commands(d, causes', fresh)
  BY <1>a, <1>3, CommandsBound
<1>7. speed \in allowed
  <2>1. Max({0}) \in {0}
    BY MaxIn
  <2> QED BY <1>2, <1>6, <2>1
<1>8. speed \in 0..3 /\ (latch => speed = 0) /\ (causes' # {} => speed <= 1)
  BY <1>6, <1>7
<1>9. facing' => low /\ "depth" \in causes' /\ speed = 0
  <2> SUFFICES ASSUME facing'
               PROVE  low /\ "depth" \in causes' /\ speed = 0
    OBVIOUS
  <2>1. low
    BY <1>4
  <2>2. "depth" \in causes'
    <3>1. CASE "depth" \in causes
      <4>1. ~DepthCleared(d, fresh)
        BY <1>3, <2>1 DEF DepthCleared, Channels, ScanChannels, CloudChannels, Places
      <4>2. ~Cleared(d, fresh)
        BY <3>1, <4>1 DEF Cleared
      <4> QED BY <1>4, <3>1, <4>2 DEF CausesAfter
    <3>2. CASE "depth" \notin causes
      BY <1>4, <3>2 DEF GInv, FacingHeld
    <3> QED BY <3>1, <3>2
  <2>3. Approaching(d, causes', fresh)
    <3>1. CASE fresh
      <4>1. Main(d) <= 2
        BY <1>3, <2>1, <3>1, MainOfDepth DEF Channels, ScanChannels, CloudChannels, Places
      <4> QED BY <2>2, <4>1 DEF Approaching
    <3>2. CASE ~fresh
      BY <2>2, <3>2 DEF Approaching
    <3> QED BY <3>1, <3>2
  <2> QED BY <1>6, <1>7, <2>1, <2>2, <2>3
<1>10. CASE timer \/ WorthTelling(stopped, speed)
  <2>1. saidZone' = zone' /\ saidEstop' = stopped /\ out' = speed
    BY <1>2, <1>10
  <2>2. latched' = latch
    BY DEF Step
  <2>3. StopPublished' /\ FacingHeld'
    BY <1>5, <1>8, <1>9, <2>1, <2>2 DEF StopPublished, FacingHeld, GInv
  <2> QED BY <1>5, <1>8, <2>1, <2>2, <2>3 DEF NotPublished
<1>11. CASE ~(timer \/ WorthTelling(stopped, speed))
  <2>1. /\ saidZone' = saidZone /\ saidEstop' = saidEstop /\ out' = out
        /\ zone' = saidZone /\ stopped = saidEstop /\ ~(speed < out)
    BY <1>2, <1>11 DEF WorthTelling
  <2>2. latched' = latch
    BY DEF Step
  <2>3. out <= speed
    BY <1>a, <1>8, <2>1
  <2>4. StopPublished' /\ FacingHeld'
    BY <1>a, <1>5, <1>8, <1>9, <2>1, <2>2, <2>3 DEF StopPublished, FacingHeld, GInv
  <2> QED BY <1>a, <1>5, <2>1, <2>2, <2>4
<1> QED BY <1>10, <1>11

-----------------------------------------------------------------------------
(* Neither the timer nor a callback of the sensors changes what is known of *)
(* the E-stops.                                                             *)
LEMMA SeenUnchanged ==
  ASSUME SeenIsNewest, UNCHANGED stops, latched => latched'
  PROVE  SeenIsNewest'
BY DEF SeenIsNewest, stops

LEMMA SensorKeeps ==
  ASSUME GInv, NEW timer \in BOOLEAN, NEW framed, Step(timer, framed, latched),
         UNCHANGED <<stops, low, calm>>
  PROVE  GInv'
<1>1. latched \in BOOLEAN /\ low \in BOOLEAN /\ calm \in BOOLEAN
  BY DEF GInv, GTypeOK
<1>2. StopPublished' /\ FacingHeld' /\ latched' = latched
  BY <1>1, StepKeeps
<1>3. GTypeOK'
  BY <1>1, StepKeeps DEF GInv, GTypeOK, Causes, stops
<1>4. SeenIsNewest'
  BY <1>2, SeenUnchanged DEF GInv
<1> QED BY <1>2, <1>3, <1>4 DEF GInv

LEMMA ResetKeeps ==
  ASSUME GInv, RequestReset
  PROVE  GInv'
<1> DEFINE latch == latched /\ ~AllSourcesClear
<1>1. /\ latched \in BOOLEAN /\ latch \in BOOLEAN /\ low \in BOOLEAN /\ calm \in BOOLEAN
      /\ Step(FALSE, {}, latch) /\ UNCHANGED <<stops, low, calm>>
  BY DEF GInv, GTypeOK, RequestReset, AllSourcesClear
<1> HIDE DEF latch
<1>2. StopPublished' /\ FacingHeld' /\ latched' = latch
  BY <1>1, StepKeeps
<1>3. GTypeOK'
  BY <1>1, StepKeeps DEF GInv, GTypeOK, Causes, stops
<1>4. SeenIsNewest'
  BY <1>1, <1>2 DEF GInv, SeenIsNewest, stops, AllSourcesClear, latch
<1> QED BY <1>2, <1>3, <1>4 DEF GInv

LEMMA ArrivalKeeps ==
  ASSUME GInv, NEW s \in Sources, NEW sub \in Subscriptions, OnEstop(s, sub)
  PROVE  GInv'
<1>a. /\ sent \in [Sources -> Seq(BOOLEAN)] /\ seen \in [Sources -> Nat]
      /\ received \in [Sources -> [Subscriptions -> Nat]]
      /\ estop_sources \in [Sources -> BOOLEAN] /\ latched \in BOOLEAN
      /\ low \in BOOLEAN /\ calm \in BOOLEAN
  BY DEF GInv, GTypeOK
<1>1. PICK k \in (received[s][sub] + 1)..Len(sent[s]) :
        /\ received' = [received EXCEPT ![s][sub] = k]
        /\ IF News(s, k)
             THEN /\ seen' = [seen EXCEPT ![s] = k]
                  /\ estop_sources' = [estop_sources EXCEPT ![s] = sent[s][k]]
                  /\ Step(FALSE, {}, latched \/ sent[s][k])
             ELSE UNCHANGED <<seen, estop_sources, latched, counts, causes, zone, saidZone,
                              saidEstop, out, facing>>
        /\ UNCHANGED <<sent, low, calm>>
  BY DEF OnEstop
<1>2. /\ k \in 1..Len(sent[s]) /\ k \in Nat /\ sent[s][k] \in BOOLEAN
      /\ received' = [received EXCEPT ![s] = [received[s] EXCEPT ![sub] = k]]
      /\ received' \in [Sources -> [Subscriptions -> Nat]]
  BY <1>a, <1>1
<1>3. CASE News(s, k)
  <2> DEFINE latch == latched \/ sent[s][k]
  <2>1. latch \in BOOLEAN /\ Step(FALSE, {}, latch)
    BY <1>a, <1>1, <1>2, <1>3
  <2> HIDE DEF latch
  <2>2. StopPublished' /\ FacingHeld' /\ latched' = latch
    BY <1>1, <2>1, StepKeeps
  <2>3. /\ seen' = [seen EXCEPT ![s] = k] /\ sent' = sent
        /\ estop_sources' = [estop_sources EXCEPT ![s] = sent[s][k]]
        /\ low' = low /\ calm' = calm
    BY <1>1, <1>3
  <2>4. GTypeOK'
    <3>1. seen' \in [Sources -> Nat] /\ estop_sources' \in [Sources -> BOOLEAN]
      BY <1>a, <1>2, <2>3
    <3> QED BY <1>a, <1>2, <2>1, <2>3, <3>1, StepKeeps DEF GTypeOK, Causes
  <2>5. SeenIsNewest'
    <3> SUFFICES ASSUME NEW t \in Sources
                 PROVE  /\ \A u \in Subscriptions :
                             received'[t][u] <= seen'[t] /\ seen'[t] <= Len(sent'[t])
                        /\ \E u \in Subscriptions : received'[t][u] = seen'[t]
                        /\ estop_sources'[t] <=> seen'[t] > 0 /\ sent'[t][seen'[t]]
                        /\ estop_sources'[t] => latched'
      BY DEF SeenIsNewest
    <3>1. CASE t = s
      <4>1. seen'[t] = k /\ estop_sources'[t] = sent[t][k] /\ received'[t][sub] = k
        BY <1>a, <1>2, <2>3, <3>1
      <4>2. \A u \in Subscriptions : received'[t][u] <= k
        BY <1>a, <1>2, <1>3, <3>1 DEF GInv, SeenIsNewest, News
      <4> QED BY <1>2, <2>2, <2>3, <3>1, <4>1, <4>2 DEF latch
    <3>2. CASE t # s
      BY <1>a, <1>2, <2>2, <2>3, <3>2 DEF GInv, SeenIsNewest, latch
    <3> QED BY <3>1, <3>2
  <2> QED BY <2>2, <2>4, <2>5 DEF GInv
<1>4. CASE ~News(s, k)
  <2>1. /\ UNCHANGED <<seen, estop_sources, latched, counts, causes, zone, saidZone, saidEstop,
                       out, facing>>
        /\ UNCHANGED <<sent, low, calm>>
    BY <1>1, <1>4
  <2>2. GTypeOK'
    BY <1>2, <2>1 DEF GInv, GTypeOK
  <2>3. StopPublished' /\ FacingHeld'
    BY <2>1 DEF GInv, StopPublished, FacingHeld
  <2>4. SeenIsNewest'
    <3> SUFFICES ASSUME NEW t \in Sources
                 PROVE  /\ \A u \in Subscriptions : received'[t][u] <= seen[t]
                        /\ \E u \in Subscriptions : received'[t][u] = seen[t]
      BY <2>1 DEF GInv, SeenIsNewest
    <3>1. CASE t = s
      <4>1. PICK u \in Subscriptions : received[s][u] = seen[s]
        BY DEF GInv, SeenIsNewest
      <4>2. k <= seen[s] /\ received[s][sub] < k
        BY <1>a, <1>1, <1>4 DEF News
      <4>3. u # sub
        BY <1>a, <1>2, <4>1, <4>2
      <4>4. received'[s][u] = seen[s]
        BY <1>a, <1>2, <4>1, <4>3
      <4>5. \A v \in Subscriptions : received'[s][v] <= seen[s]
        BY <1>a, <1>2, <4>2 DEF GInv, SeenIsNewest
      <4> QED BY <3>1, <4>4, <4>5
    <3>2. CASE t # s
      BY <1>a, <1>2, <3>2 DEF GInv, SeenIsNewest
    <3> QED BY <3>1, <3>2
  <2> QED BY <2>2, <2>3, <2>4 DEF GInv
<1> QED BY <1>3, <1>4

LEMMA PublishKeeps ==
  ASSUME GInv, NEW s \in Sources, NEW active \in BOOLEAN, Publish(s, active)
  PROVE  GInv'
<1>1. /\ sent \in [Sources -> Seq(BOOLEAN)] /\ seen \in [Sources -> Nat]
      /\ sent' = [sent EXCEPT ![s] = Append(sent[s], active)]
      /\ UNCHANGED <<received, seen, estop_sources, latched, counts, causes, zone, saidZone,
                     saidEstop, out, low, facing, calm>>
  BY DEF GInv, GTypeOK, Publish
<1>2. sent' \in [Sources -> Seq(BOOLEAN)]
  BY <1>1
<1>3. \A t \in Sources : /\ Len(sent'[t]) >= Len(sent[t])
                         /\ \A k \in 1..Len(sent[t]) : sent'[t][k] = sent[t][k]
  BY <1>1
<1>4. SeenIsNewest'
  <2> SUFFICES ASSUME NEW t \in Sources
               PROVE  /\ \A sub \in Subscriptions : seen[t] <= Len(sent'[t])
                      /\ estop_sources[t] <=> seen[t] > 0 /\ sent'[t][seen[t]]
    BY <1>1 DEF GInv, SeenIsNewest
  <2>1. seen[t] <= Len(sent[t]) /\ Len(sent[t]) \in Nat /\ Len(sent'[t]) \in Nat /\ seen[t] \in Nat
    BY <1>1, <1>2 DEF GInv, SeenIsNewest, Subscriptions
  <2>2. seen[t] <= Len(sent'[t])
    BY <1>3, <2>1
  <2>3. seen[t] > 0 => sent'[t][seen[t]] = sent[t][seen[t]]
    BY <1>3, <2>1
  <2> QED BY <2>2, <2>3 DEF GInv, SeenIsNewest
<1>5. GTypeOK' /\ StopPublished' /\ FacingHeld'
  BY <1>1, <1>2 DEF GInv, GTypeOK, StopPublished, FacingHeld
<1> QED BY <1>4, <1>5 DEF GInv

(* The obstacle comes or goes, or nothing is in the way any more.           *)
LEMMA SurroundingsKeep ==
  ASSUME GInv, LowObstacle \/ CalmsDown \/ UNCHANGED gvars
  PROVE  GInv'
<1>1. /\ UNCHANGED <<stops, latched, counts, causes, zone, saidZone, saidEstop, out>>
      /\ low' \in BOOLEAN /\ calm' \in BOOLEAN
      /\ (facing' = FALSE \/ (facing' = facing /\ low' = low))
      /\ (calm' => ~low')
  <2>1. CASE LowObstacle
    BY <2>1, Zenon DEF GInv, GTypeOK, LowObstacle
  <2>2. CASE CalmsDown
    BY <2>2, Zenon DEF GInv, GTypeOK, FacingHeld, CalmsDown
  <2>3. CASE UNCHANGED gvars
    BY <2>3, Zenon DEF GInv, GTypeOK, FacingHeld, gvars
  <2> QED BY <2>1, <2>2, <2>3
<1>2. GTypeOK'
  BY <1>1 DEF GInv, GTypeOK, stops
<1>3. SeenIsNewest'
  BY <1>1, SeenUnchanged DEF GInv
<1>4. StopPublished' /\ FacingHeld'
  BY <1>1 DEF GInv, StopPublished, FacingHeld
<1> QED BY <1>2, <1>3, <1>4 DEF GInv

-----------------------------------------------------------------------------
LEMMA GInitially == GInit => GInv
<1> SUFFICES ASSUME GInit
             PROVE  GInv
  OBVIOUS
<1>1. GTypeOK
  <2>1. sent \in [Sources -> Seq(BOOLEAN)] /\ seen \in [Sources -> Nat]
    BY DEF GInit
  <2>2. received \in [Sources -> [Subscriptions -> Nat]] /\ counts \in [Channels -> 0..2]
    BY DEF GInit
  <2>3. /\ estop_sources \in [Sources -> BOOLEAN] /\ latched \in BOOLEAN
        /\ saidEstop \in BOOLEAN /\ low \in BOOLEAN /\ facing \in BOOLEAN /\ calm \in BOOLEAN
    BY Zenon DEF GInit
  <2>4. zone \in 0..3 /\ saidZone \in 0..4 /\ out \in 0..3 /\ causes = {}
    BY DEF GInit, NotPublished
  <2> QED BY <2>1, <2>2, <2>3, <2>4 DEF GTypeOK, NotPublished, Speeds
<1>2. SeenIsNewest
  <2> SUFFICES ASSUME NEW s \in Sources
               PROVE  /\ \A sub \in Subscriptions :
                           received[s][sub] <= seen[s] /\ seen[s] <= Len(sent[s])
                      /\ \E sub \in Subscriptions : received[s][sub] = seen[s]
                      /\ ~estop_sources[s] /\ ~(seen[s] > 0)
    BY DEF SeenIsNewest
  <2>1. "latched" \in Subscriptions
    BY DEF Subscriptions
  <2>2. /\ \A sub \in Subscriptions : received[s][sub] = 0
        /\ seen[s] = 0 /\ sent[s] = << >> /\ ~estop_sources[s]
    BY DEF GInit
  <2> QED BY <2>1, <2>2
<1>3. StopPublished /\ FacingHeld
  BY DEF GInit, StopPublished, FacingHeld
<1> QED BY <1>1, <1>2, <1>3 DEF GInv

LEMMA GSteps == GInv /\ [GNext]_gvars => GInv'
<1> SUFFICES ASSUME GInv, [GNext]_gvars
             PROVE  GInv'
  OBVIOUS
<1>1. CASE Timer
  BY <1>1, SensorKeeps DEF Timer
<1>2. CASE SetCommand
  BY <1>2, SensorKeeps DEF SetCommand
<1>3. CASE OnScan
  BY <1>3, SensorKeeps DEF OnScan
<1>4. CASE OnCloud
  BY <1>4, SensorKeeps DEF OnCloud
<1>5. CASE Arrival
  BY <1>5, ArrivalKeeps DEF Arrival
<1>6. CASE RequestReset
  BY <1>6, ResetKeeps
<1>7. CASE Press
  BY <1>7, PublishKeeps DEF Press
<1>8. CASE LowObstacle \/ CalmsDown \/ UNCHANGED gvars
  BY <1>8, SurroundingsKeep
<1> QED
  BY <1>1, <1>2, <1>3, <1>4, <1>5, <1>6, <1>7, <1>8 DEF GNext, Obstacles

(* The inductive invariant holds in every state of the gate.                *)
THEOREM GInvariance == GSpec => []GInv
BY GInitially, GSteps, PTL DEF GSpec

(* The state of the gate keeps its types, whatever the sensors show.        *)
THEOREM GTypeCorrect == GSpec => []GTypeOK
<1>1. GInv => GTypeOK
  BY DEF GInv
<1> QED BY <1>1, GInvariance, PTL

(* The gate goes by the newest sample of every E-stop input, in whatever    *)
(* order its two subscriptions bring them, and the latch stays closed while *)
(* one of them is pressed (safety_node.cpp, onEstop and requestReset).      *)
THEOREM NewestEstopKept == GSpec => []EstopKept
<1>1. GInv => EstopKept
  <2> SUFFICES ASSUME GInv, NEW s \in Sources
               PROVE  /\ estop_sources[s] <=> Newest(s) > 0 /\ sent[s][Newest(s)]
                      /\ estop_sources[s] => latched
    BY DEF EstopKept
  <2>1. Newest(s) = seen[s]
    <3> DEFINE R == {received[s][sub] : sub \in Subscriptions}
    <3>1. seen[s] \in R /\ (\A x \in R : seen[s] >= x /\ x \in Nat) /\ seen[s] \in Nat
      BY DEF GInv, SeenIsNewest, GTypeOK
    <3> HIDE DEF R
    <3>2. \E x \in R : \A y \in R : x >= y
      BY <3>1
    <3>3. Max(R) \in R /\ \A y \in R : Max(R) >= y
      BY <3>2 DEF Max
    <3>4. Max(R) = seen[s]
      BY <3>1, <3>3
    <3> QED BY <3>4 DEF Newest, R
  <2> QED BY <2>1 DEF GInv, SeenIsNewest
<1> QED BY <1>1, GInvariance, PTL

(* After every callback the stop in force has been published, to the wheels *)
(* and to the rest of the robot (step() publishes on a change).             *)
THEOREM StopIsPublished == GSpec => []StopPublished
<1>1. GInv => StopPublished
  BY DEF GInv
<1> QED BY <1>1, GInvariance, PTL

(* The robot that stopped for a low obstacle stands until it is gone: only  *)
(* a cloud that sees it gone releases the stop.                             *)
THEOREM LowObstacleKept == GSpec => []StandsForLow
<1>1. GInv => StandsForLow
  BY DEF GInv, FacingHeld, StandsForLow
<1> QED BY <1>1, GInvariance, PTL
=============================================================================
