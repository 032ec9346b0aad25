---------------------------- MODULE ZoneTraffic -----------------------------
(***************************************************************************)
(* Robots that drive through zones under the token cycle of ZoneTokens:    *)
(* traffic_manager.TrafficManager.update (observation -> tokens -> hold    *)
(* command) composed with the robots it observes.  A robot's way is the    *)
(* chain of zones ahead of it; it is seen at the request distance, gets a  *)
(* hold command in every cycle that refuses its chain, and drives in when  *)
(* the last cycle left it free to go.  When its observations stop it is    *)
(* `stale': the manager keeps it as an obstacle at its last position and   *)
(* freezes its tokens, and the robot itself may go on driving.             *)
(***************************************************************************)
EXTENDS ZoneTokens, Sequences

CONSTANTS
  Chains,     \* robot |-> chains of zones its paths cross without a stop
  Priority,   \* robot |-> rank of its task (smaller is served first)
  Silence     \* whose observations may stop: "none", "granted" or "any" robot

ASSUME ChainsAssumption ==
  \A r \in Robots : Chains[r] \subseteq Seq(Zones) \ {<<>>}
ASSUME PriorityAssumption == Priority \in [Robots -> Nat]
ASSUME SilenceAssumption == Silence \in {"none", "granted", "any"}

VARIABLES
  route,     \* robot |-> zones ahead; the first is the one it is in, if inside
  inside,    \* robot |-> is its body in the first zone of its route
  command,   \* robot |-> traffic/hold: "new" until a cycle has seen the chain
  stale,     \* robots whose observations stopped
  lastSeen,  \* robot |-> zones its body was in when last observed
  ahead      \* robot |-> grants to others of zones it waits for (history)

motion == <<route, inside>>
tvars == <<vars, motion, command, stale, lastSeen, ahead>>

Ahead(r) == {route[r][k] : k \in DOMAIN route[r]}
Body(r) == IF inside[r] THEN {Head(route[r])} ELSE {}

TTypeOK ==
  /\ TypeOK
  /\ route \in [Robots -> Seq(Zones)]
  /\ inside \in [Robots -> BOOLEAN]
  /\ command \in [Robots -> {"new", "hold", "go"}]
  /\ stale \subseteq Robots
  /\ lastSeen \in [Robots -> SUBSET Zones]
  /\ ahead \in [Robots -> Nat]
  /\ \A r \in Robots : inside[r] => route[r] # <<>>
  /\ AgeOrder

TInit ==
  /\ Init /\ known = Zones
  /\ route = [r \in Robots |-> <<>>]
  /\ inside = [r \in Robots |-> FALSE]
  /\ command = [r \in Robots |-> "go"]
  /\ stale = {}
  /\ lastSeen = [r \in Robots |-> {}]
  /\ ahead = [r \in Robots |-> 0]

-----------------------------------------------------------------------------
(* Faulty variant of ViewOf: a robot asks for one zone at a time.           *)
ViewOfUnchained(r) ==
  [occ |-> Body(r), upc |-> Ahead(r),
   req |-> IF inside[r] THEN (IF Len(route[r]) > 1 THEN {route[r][2]} ELSE {})
           ELSE (IF route[r] # <<>> THEN {Head(route[r])} ELSE {}),
   dir |-> [z \in Zones |-> NoDirection], rank |-> Priority[r], frozen |-> FALSE]

(* What the manager believes of robot r in this cycle.                      *)
ViewOf(r) ==
  IF r \in stale
    THEN [occ |-> lastSeen[r], upc |-> {}, req |-> {},
          dir |-> [z \in Zones |-> NoDirection], rank |-> Priority[r], frozen |-> TRUE]
    ELSE [occ |-> Body(r), upc |-> Ahead(r), req |-> Ahead(r) \ Body(r),
          dir |-> [z \in Zones |-> NoDirection], rank |-> Priority[r], frozen |-> FALSE]

Grants(r) ==
  {q \in Robots \ {r} :
     \E z \in waits'[r] \ ViewOf(q).occ : ~Held(holders, q, z) /\ Held(holders', q, z)}

(* A traffic cycle: tokens, then one command per robot.                     *)
Cycle ==
  /\ Update([r \in Robots |-> ViewOf(r)])
  /\ command' = [r \in Robots |-> IF waits'[r] # {} THEN "hold" ELSE "go"]
  /\ lastSeen' = [r \in Robots |-> IF r \in stale THEN lastSeen[r] ELSE Body(r)]
  /\ ahead' = [r \in Robots |->
       IF waits'[r] = {} THEN 0
       ELSE (IF waits[r] \cap waits'[r] # {} THEN ahead[r] ELSE 0) + Cardinality(Grants(r))]
  /\ UNCHANGED <<motion, stale>>

(* The robot's path comes within the request distance of a chain.  That     *)
(* distance is longer than a cycle's drive: a cycle sees it before it gets  *)
(* in (an observed robot; a silent one starts nothing new here).  A path    *)
(* that changes after its request is the exception deadlock.md 6 (5) makes: *)
(* no robot comes up to a chain with a token of another one yet unused.     *)
Approach(r) ==
  /\ route[r] = <<>> /\ r \notin stale /\ command[r] = "go"
  /\ \A z \in Zones : Held(holders, r, z) => <<r, z>> \in entered
  /\ \E chain \in Chains[r] : route' = [route EXCEPT ![r] = chain]
  /\ command' = [command EXCEPT ![r] = "new"]
  /\ UNCHANGED <<vars, inside, stale, lastSeen, ahead>>

Enter(r) ==
  /\ route[r] # <<>> /\ ~inside[r] /\ command[r] = "go"
  /\ inside' = [inside EXCEPT ![r] = TRUE]
  /\ UNCHANGED <<vars, route, command, stale, lastSeen, ahead>>

(* Out of the first zone: into the next of the chain, or clear of it.  A    *)
(* zone takes longer to cross than a cycle: an observed robot is seen in it.*)
Leave(r) ==
  /\ inside[r] /\ command[r] = "go"
  /\ r \in stale \/ Body(r) \subseteq lastSeen[r]
  /\ route' = [route EXCEPT ![r] = Tail(@)]
  /\ inside' = [inside EXCEPT ![r] = Len(route[r]) > 1]
  /\ UNCHANGED <<vars, command, stale, lastSeen, ahead>>

(* The path no longer crosses the chain (cancelled, replanned) before entry.*)
TurnAway(r) ==
  /\ route[r] # <<>> /\ ~inside[r]
  /\ route' = [route EXCEPT ![r] = <<>>]
  /\ UNCHANGED <<vars, inside, command, stale, lastSeen, ahead>>

GoSilent(r) ==
  /\ r \notin stale
  /\ Silence # "none"
  /\ command[r] # "new" /\ (Silence = "granted" => command[r] = "go")
  /\ stale' = stale \cup {r}
  /\ UNCHANGED <<vars, motion, command, lastSeen, ahead>>

SeenAgain(r) ==
  /\ r \in stale
  /\ stale' = stale \ {r}
  /\ UNCHANGED <<vars, motion, command, lastSeen, ahead>>

TNext ==
  \/ Cycle
  \/ \E r \in Robots :
       Approach(r) \/ Enter(r) \/ Leave(r) \/ TurnAway(r) \/ GoSilent(r) \/ SeenAgain(r)

TSpec == TInit /\ [][TNext]_tvars

(* The 2 Hz timer keeps firing, a robot free to go drives on, and every     *)
(* stay inside a zone ends (the premise the module's docstring states).     *)
TFairness ==
  /\ WF_tvars(Cycle)
  /\ \A r \in Robots : WF_tvars(Enter(r)) /\ WF_tvars(Leave(r))

FairTSpec == TSpec /\ TFairness

-----------------------------------------------------------------------------
(* No two robots' bodies are in one zone: what the tokens are for.          *)
BodiesApart ==
  \A r, q \in Robots : r # q => Body(r) \cap Body(q) = {}

(* Tokens alone never deadlock (deadlock.md 6, claim 5): among robots that  *)
(* wait for tokens there is always one whose causes all lie outside.        *)
NoTokenCycle ==
  \A S \in SUBSET {r \in Robots : waits[r] # {}} :
    S # {} => \E r \in S : blockers[r] \cap S = {}

(* What the deadlock detector builds its graph from, in every state: every  *)
(* waiting robot names causes, these are true, and none is missing of the   *)
(* robots seen in a zone it waits for.  (A zone given to a robot served     *)
(* later in the same cycle has its edge from the next cycle on.)            *)
WaitExplained ==
  /\ CausesTrue
  /\ \A r, q \in Robots :
       r # q /\ waits[r] \cap lastSeen[q] # {} => q \in blockers[r]

(* The true bound on overtaking while a robot waits: MaxBypass - 1 late     *)
(* grants, one cycle that may serve every other robot, and one grant to     *)
(* each robot that began to wait no later.                                  *)
OvertakeBound ==
  \A r \in Robots :
    ahead[r] <= (IF MaxBypass = 0 THEN 0 ELSE MaxBypass - 1 + Cardinality(Robots \ {r}))
                + Cardinality(Robots \ {r})

(* traffic_zones.py:25 and deadlock.md 3.2: at most max_bypass + (n - 1)    *)
(* grants go to other robots before a waiting robot's own.                  *)
DocumentedOvertakeBound ==
  \A r \in Robots : ahead[r] <= MaxBypass + Cardinality(Robots \ {r})

(* A robot that keeps its request is served however many robots of higher   *)
(* rank keep arriving.                                                      *)
Served == \A r \in Robots : waits[r] # {} ~> waits[r] = {}
=============================================================================
