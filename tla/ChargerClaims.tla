---------------------------- MODULE ChargerClaims ----------------------------
(***************************************************************************)
(* The chargers the executors share out among themselves: selectCharger,   *)
(* releaseCharger and updateChargerClaim of ExecutorContext, the heartbeat *)
(* of the node, and SelectCharger as the first node of every tick of       *)
(* charge.xml.  The robots know of each other only what they have heard.   *)
(***************************************************************************)
EXTENDS Integers, Sequences

CONSTANTS
  Robots,      \* robot ids, in the order of their names
  Chargers,
  NoCharger,
  Preference,  \* robot |-> chargers in the order it tries them
  MaxTime      \* bound on the clock

ASSUME ClaimantsAssumption == Robots \subseteq Int
ASSUME ChargersAssumption == NoCharger \notin Chargers
ASSUME PreferenceAssumption == Preference \in [Robots -> Seq(Chargers)]
ASSUME TimeAssumption == MaxTime \in Nat

VARIABLES
  now,       \* the clock of all robots
  claims,    \* charger_claim_ of each robot
  since,     \* charger_claim_since_
  heard,     \* claims_: what a robot has heard of another and still believes
  progress,  \* charge_step
  reached    \* the charger a robot last drove to

cvars == <<now, claims, since, heard, progress, reached>>

Claim == [charger: Chargers \cup {NoCharger}, since: Nat]
Nothing == [charger |-> NoCharger, since |-> 0]

CTypeOK ==
  /\ now \in Nat
  /\ claims \in [Robots -> Chargers \cup {NoCharger}]
  /\ since \in [Robots -> Nat]
  /\ heard \in [Robots -> [Robots -> Claim]]
  /\ progress \in [Robots -> 0..3]
  /\ reached \in [Robots -> Chargers \cup {NoCharger}]

-----------------------------------------------------------------------------
(* Faulty variant of Before: of robots of the same instant none gives way.  *)
BeforeOrAtOnce(s, q, t, r) == s < t
(* An older claim comes first, of two of one instant that of the lower name.*)
Before(s, q, t, r) == s < t \/ (s = t /\ q < r)

(* taken: as far as r has heard, somebody claimed charger c before it.      *)
Taken(r, c, mine) ==
  \E q \in Robots \ {r} :
    heard[r][q].charger = c /\ Before(heard[r][q].since, q, mine, r)

Locked(r) == progress[r] >= 2
Keeps(r) == claims[r] # NoCharger /\ (Locked(r) \/ ~Taken(r, claims[r], since[r]))

(* Places of the preference that are free, as far as r has heard.           *)
FreePlaces(r) == {k \in DOMAIN Preference[r] : ~Taken(r, Preference[r][k], now)}

(* Faulty variant of Restarted: a new charger, but no new way to it.        *)
RestartedNot(r) == progress[r]
Restarted(r) == 0

(* A tick in which SelectCharger cannot keep the claim: the next charger,   *)
(* from the first step on; or none, and Charge fails.                       *)
SelectNext(r) ==
  /\ ~Keeps(r)
  /\ \/ \E k \in FreePlaces(r) :
          /\ \A j \in FreePlaces(r) : k <= j
          /\ claims' = [claims EXCEPT ![r] = Preference[r][k]]
          /\ since' = [since EXCEPT ![r] = now]
          /\ progress' = [progress EXCEPT ![r] = Restarted(r)]
     \/ /\ FreePlaces(r) = {}
        /\ claims' = [claims EXCEPT ![r] = NoCharger]
        /\ UNCHANGED <<since, progress>>
  /\ UNCHANGED <<now, heard, reached>>

(* Ticks in which it can, and a step of ChargeCycle has come to its end.    *)
Arrive(r) ==
  /\ Keeps(r) /\ progress[r] = 0
  /\ reached' = [reached EXCEPT ![r] = claims[r]]
  /\ progress' = [progress EXCEPT ![r] = 1]
  /\ UNCHANGED <<now, claims, since, heard>>

(* A robot drives and docks longer than claims take to arrive: when it has  *)
(* docked it knows of every claim that is not younger than its own.         *)
Informed(r) ==
  /\ since[r] < now
  /\ \A q \in Robots \ {r} :
       claims[q] # NoCharger /\ since[q] <= since[r]
         => heard[r][q] = [charger |-> claims[q], since |-> since[q]]

Dock(r) ==
  /\ Keeps(r) /\ progress[r] = 1 /\ Informed(r)
  /\ progress' = [progress EXCEPT ![r] = 2]
  /\ UNCHANGED <<now, claims, since, heard, reached>>

Charged(r) ==
  /\ Keeps(r) /\ progress[r] = 2
  /\ progress' = [progress EXCEPT ![r] = 3]
  /\ UNCHANGED <<now, claims, since, heard, reached>>

(* The end of the cycle, or a drive or a docking that failed.               *)
Release(r) ==
  /\ Keeps(r) /\ progress[r] # 2
  /\ progress' = [progress EXCEPT ![r] = 0]
  /\ claims' = [claims EXCEPT ![r] = NoCharger]
  /\ UNCHANGED <<now, since, heard, reached>>

-----------------------------------------------------------------------------
(* A change of the claim of q, or its heartbeat, reaches r.                 *)
Hear(r, q) ==
  /\ r # q
  /\ heard' = [heard EXCEPT ![r][q] =
       IF claims[q] = NoCharger THEN Nothing
       ELSE [charger |-> claims[q], since |-> since[q]]]
  /\ UNCHANGED <<now, claims, since, progress, reached>>

(* A claim that is not renewed any more is over after claim_timeout.        *)
Lapse(r, q) ==
  /\ heard[r][q] # [charger |-> claims[q], since |-> since[q]]
  /\ heard' = [heard EXCEPT ![r][q] = Nothing]
  /\ UNCHANGED <<now, claims, since, progress, reached>>

Pass ==
  /\ now < MaxTime /\ now' = now + 1
  /\ UNCHANGED <<claims, since, heard, progress, reached>>

CInit ==
  /\ now = 0
  /\ claims = [r \in Robots |-> NoCharger] /\ since = [r \in Robots |-> 0]
  /\ heard = [r \in Robots |-> [q \in Robots |-> Nothing]]
  /\ progress = [r \in Robots |-> 0] /\ reached = [r \in Robots |-> NoCharger]

CNext ==
  \/ \E r \in Robots : SelectNext(r) \/ Arrive(r) \/ Dock(r) \/ Charged(r) \/ Release(r)
  \/ \E r, q \in Robots : Hear(r, q) \/ Lapse(r, q)
  \/ Pass

CSpec == CInit /\ [][CNext]_cvars

-----------------------------------------------------------------------------
(* Two robots never stand docked at one charger, though they may have       *)
(* chosen it at the same time and before they heard of each other.          *)
OneRobotPerCharger ==
  \A r, q \in Robots :
    r # q /\ Locked(r) /\ Locked(q) /\ claims[r] # NoCharger => claims[r] # claims[q]

(* A robot docks and charges at the charger it has driven to, also after it *)
(* has given way once or more.                                              *)
DocksWhereDriven ==
  \A r \in Robots : claims[r] # NoCharger /\ progress[r] >= 1 => reached[r] = claims[r]
=============================================================================
