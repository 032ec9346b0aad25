----------------------------- MODULE DockGoals -----------------------------
(***************************************************************************)
(* Docking as a task of the behaviour tree: the subtree DockAt, its action *)
(* client (RosActionNode, here for Dock) and the goals of                  *)
(* docking_server_node.  Each process handles its ticks and callbacks one  *)
(* at a time.  Between them travel goals, answers, cancel requests and     *)
(* results, on services of their own and so in any order, but for requests *)
(* of goals among themselves; each may take as long as it likes.  What the *)
(* server's controller does with a goal is in Docking; here it ends at     *)
(* some time, well or not.                                                 *)
(***************************************************************************)
EXTENDS Integers, FiniteSets

CONSTANTS
  DockAttempts,   \* dock_attempts of the subtree
  MaxSends,       \* bound on the goals sent
  MaxHolds, MaxHalts   \* bounds on traffic holds and halts of the tree

ASSUME AttemptsAssumption == DockAttempts \in Nat \ {0}
ASSUME BoundsAssumption == {MaxSends, MaxHolds, MaxHalts} \subseteq Nat

VARIABLES
  place,      \* where DockAt is: dock, recover, halted, docked or failed
  attempts,   \* failed attempts, counted by RetryUntilSuccessful
  traffic_hold,   \* traffic/hold, which TrafficGate reads
  holds, halts,   \* how many there were
  stage,      \* stage_ of the node Dock
  current,    \* the goal whose generation the callbacks still match, or None
  response_received, handle, outcome,   \* of the goal: answered, accepted, result
  goals_sent, \* goals sent so far; they are numbered in that order
  status,     \* of each goal at the server
  answered, reported,   \* goals whose answer, whose result has been heard
  cancels,    \* goals with a cancel request on its way
  excused     \* goals that a hold or a halt gave up, or before the last halt

listening == <<current, response_received, handle, outcome>>
client == <<place, attempts, stage, listening, goals_sent>>
traffic == <<traffic_hold, holds>>
wire == <<answered, reported, cancels>>
dvars == <<client, status, wire, traffic, halts, excused>>

None == 0
Goals == 1..MaxSends
Over == {"succeeded", "aborted", "canceled"}
WasAccepted == {"executing", "canceling"} \cup Over

DTypeOK ==
  /\ place \in {"dock", "recover", "halted", "docked", "failed"}
  /\ attempts \in 0..DockAttempts
  /\ traffic_hold \in BOOLEAN /\ holds \in 0..MaxHolds /\ halts \in 0..MaxHalts
  /\ stage \in {"idle", "wait_server", "wait_accept", "wait_result"}
  /\ current \in Goals \cup {None}
  /\ response_received \in BOOLEAN /\ handle \in BOOLEAN
  /\ outcome \in Over \cup {"none"}
  /\ goals_sent \in 0..MaxSends
  /\ status \in [Goals -> WasAccepted \cup {"unsent", "asked", "rejected"}]
  /\ answered \subseteq Goals /\ reported \subseteq Goals
  /\ cancels \subseteq Goals /\ excused \subseteq Goals

DInit ==
  /\ place = "dock" /\ attempts = 0
  /\ traffic_hold = FALSE /\ holds = 0 /\ halts = 0
  /\ stage = "idle" /\ current = None
  /\ response_received = FALSE /\ handle = FALSE /\ outcome = "none"
  /\ goals_sent = 0
  /\ status = [g \in Goals |-> "unsent"]
  /\ answered = {} /\ reported = {} /\ cancels = {} /\ excused = {}

-----------------------------------------------------------------------------
(* The node Dock.                                                           *)

(* From now on the callbacks listen to g, or to no goal.                    *)
ListenTo(g) ==
  /\ current' = g
  /\ response_received' = FALSE /\ handle' = FALSE /\ outcome' = "none"

Invalidate == ListenTo(None)

(* cancelActiveGoal: only an accepted goal without a result is cancelled.   *)
CancelRequests == IF handle /\ outcome = "none" THEN cancels \cup {current} ELSE cancels

HaltDock ==
  /\ stage' = "idle"
  /\ IF stage = "idle" THEN UNCHANGED <<listening, cancels, excused>>
     ELSE /\ Invalidate
          /\ cancels' = CancelRequests
          /\ excused' = excused \cup ({current} \ {None})

(* FAILURE of Dock leads to RecoverDocking.                                 *)
Fails == stage' = "idle" /\ place' = "recover"

(* kWaitServer: the server is not seen, or not for too long.                *)
NoServer ==
  /\ \/ stage = "idle" /\ stage' = "wait_server" /\ UNCHANGED place
     \/ stage = "wait_server" /\ Fails
  /\ UNCHANGED <<attempts, listening, goals_sent, status, wire, excused>>

SendGoal ==
  /\ stage \in {"idle", "wait_server"} /\ goals_sent < MaxSends
  /\ goals_sent' = goals_sent + 1
  /\ ListenTo(goals_sent + 1)
  /\ status' = [status EXCEPT ![goals_sent + 1] = "asked"]
  /\ stage' = "wait_accept"
  /\ UNCHANGED <<place, attempts, wire, excused>>

(* The answer takes longer than server_timeout.                             *)
AnswerTimesOut ==
  /\ stage = "wait_accept" /\ ~response_received
  /\ Invalidate /\ Fails
  /\ UNCHANGED <<attempts, goals_sent, status, wire, excused>>

Rejection ==
  /\ stage = "wait_accept" /\ response_received /\ ~handle
  /\ Fails
  /\ UNCHANGED <<attempts, listening, goals_sent, status, wire, excused>>

(* An accepted goal: wait, or take its result.                              *)
LookForResult ==
  /\ stage \in {"wait_accept", "wait_result"} /\ handle
  /\ IF outcome = "none"
     THEN stage' = "wait_result" /\ UNCHANGED <<place, listening>>
     ELSE /\ Invalidate
          /\ IF outcome = "succeeded" THEN stage' = "idle" /\ place' = "docked" ELSE Fails
  /\ UNCHANGED <<attempts, goals_sent, status, wire, excused>>

(* A tick of the tree while DockAt is at Dock.  TrafficGate comes first.    *)
TickDock ==
  /\ place = "dock"
  /\ \/ /\ traffic_hold /\ HaltDock
        /\ UNCHANGED <<place, attempts, goals_sent, status, answered, reported>>
     \/ ~traffic_hold /\ (NoServer \/ SendGoal \/ AnswerTimesOut \/ Rejection \/ LookForResult)
  /\ UNCHANGED <<traffic, halts>>

(* Faulty variant of TriesAgain: one attempt too many.                      *)
TriesAgainOnceMore == attempts < DockAttempts
TriesAgain == attempts + 1 < DockAttempts

(* RecoverDocking ends and the attempt is counted.                          *)
Recovered ==
  /\ place = "recover" /\ ~traffic_hold
  /\ attempts' = attempts + 1
  /\ place' = IF TriesAgain THEN "dock" ELSE "failed"
  /\ UNCHANGED <<stage, listening, goals_sent, status, wire, traffic, halts, excused>>

(* The E-stop halts the tree; later DockAt starts anew.                     *)
HaltTree ==
  /\ place \in {"dock", "recover"} /\ halts < MaxHalts
  /\ halts' = halts + 1
  /\ place' = "halted" /\ attempts' = 0
  /\ stage' = "idle"
  /\ IF stage = "idle" THEN UNCHANGED <<listening, cancels>>
     ELSE Invalidate /\ cancels' = CancelRequests
  /\ excused' = 1..goals_sent
  /\ UNCHANGED <<goals_sent, status, answered, reported, traffic>>

Resume ==
  /\ place = "halted" /\ place' = "dock"
  /\ UNCHANGED <<attempts, stage, listening, goals_sent, status, wire, traffic, halts, excused>>

HoldBegins ==
  /\ ~traffic_hold /\ traffic_hold' = TRUE /\ holds < MaxHolds /\ holds' = holds + 1
  /\ UNCHANGED <<client, status, wire, halts, excused>>
HoldEnds ==
  /\ traffic_hold /\ traffic_hold' = FALSE
  /\ UNCHANGED <<client, status, wire, holds, halts, excused>>

-----------------------------------------------------------------------------
(* The callbacks of the client.                                             *)

(* Faulty variant of LateAnswer: nobody cancels a goal accepted too late.   *)
LateAnswerIgnored(g) == UNCHANGED cancels
(* goal_response_callback with an old generation.                           *)
LateAnswer(g) == cancels' = IF status[g] = "rejected" THEN cancels ELSE cancels \cup {g}

Answer(g) ==
  /\ status[g] \in WasAccepted \cup {"rejected"} /\ g \notin answered
  /\ answered' = answered \cup {g}
  /\ IF current = g
     THEN response_received' = TRUE /\ handle' = (status[g] # "rejected") /\ UNCHANGED cancels
     ELSE LateAnswer(g) /\ UNCHANGED <<response_received, handle>>
  /\ UNCHANGED <<place, attempts, stage, current, outcome, goals_sent>>
  /\ UNCHANGED <<status, reported, traffic, halts, excused>>

(* Faulty variants of Heeded: any generation counts; only a client that has *)
(* already looked at the answer takes the result.                           *)
HeededAny(g) == current # None
HeededWaiting(g) == current = g /\ stage = "wait_result"
(* result_callback takes the result of the goal of its generation.          *)
Heeded(g) == current = g

(* The client has asked for the result when the answer came.                *)
Result(g) ==
  /\ g \in answered \ reported /\ status[g] \in Over
  /\ reported' = reported \cup {g}
  /\ outcome' = IF Heeded(g) THEN status[g] ELSE outcome
  /\ UNCHANGED <<place, attempts, stage, current, response_received, handle, goals_sent>>
  /\ UNCHANGED <<status, answered, cancels, traffic, halts, excused>>

-----------------------------------------------------------------------------
(* The server.                                                              *)

Active == {g \in Goals : status[g] \in {"executing", "canceling"}}

MayStart == \A h \in Active : status[h] = "canceling"

(* onGoal and onAccepted: a goal being cancelled makes way.                 *)
OnGoal(g) ==
  /\ status[g] = "asked" /\ \A h \in 1..(g - 1) : status[h] # "asked"
  /\ status' = [h \in Goals |->
       IF h = g THEN (IF MayStart THEN "executing" ELSE "rejected")
       ELSE IF status[h] = "canceling" THEN "canceled" ELSE status[h]]
  /\ UNCHANGED <<client, wire, traffic, halts, excused>>

OnCancel(g) ==
  /\ g \in cancels /\ cancels' = cancels \ {g}
  /\ status' = IF status[g] = "executing" THEN [status EXCEPT ![g] = "canceling"] ELSE status
  /\ UNCHANGED <<client, answered, reported, traffic, halts, excused>>

(* The goalStep that ends a goal.                                           *)
GoalEnds(g) ==
  /\ \/ status[g] = "canceling" /\ status' = [status EXCEPT ![g] = "canceled"]
     \/ /\ status[g] = "executing"
        /\ \E s \in {"succeeded", "aborted"} : status' = [status EXCEPT ![g] = s]
  /\ UNCHANGED <<client, wire, traffic, halts, excused>>

Tree == TickDock \/ Recovered
Client(g) == Answer(g) \/ Result(g)
Server(g) == OnGoal(g) \/ OnCancel(g) \/ GoalEnds(g)

DNext ==
  \/ Tree \/ HaltTree \/ Resume \/ HoldBegins \/ HoldEnds
  \/ \E g \in Goals : Client(g) \/ Server(g)

(* The tree ticks at 50 Hz, messages arrive, the server steps at 20 Hz and  *)
(* each of its goals ends (Docking!DockingEnds).                            *)
DFairness ==
  /\ WF_dvars(Tree)
  /\ \A g \in Goals : WF_dvars(Client(g)) /\ WF_dvars(Server(g))

DSpec == DInit /\ [][DNext]_dvars /\ DFairness

-----------------------------------------------------------------------------
(* A goal the node no longer waits for does not go on unnoticed: its late   *)
(* answer or a cancel request is still to come (ros_action_node.hpp: no     *)
(* orphaned goals, whatever is halted or times out in between).             *)
NoOrphan ==
  \A g \in Goals : status[g] = "executing" /\ g # current => g \notin answered \/ g \in cancels

(* The robot has docked only by the goal it sent last: the result of an     *)
(* earlier goal that was given up is never taken for it.                    *)
DockedByLast == place = "docked" => status[goals_sent] = "succeeded" /\ Active = {}

(* The tree counts attempts, the server approaches: but for what holds and  *)
(* halts gave up, the robot approaches at most dock_attempts times, late    *)
(* and lost answers included.                                               *)
ApproachesBounded ==
  Cardinality({g \in Goals \ excused : status[g] \in WasAccepted}) <= DockAttempts

(* Docking comes to an end unless a hold or a halt stops it.                *)
DockAtEnds ==
  (place \in {"dock", "recover"})
    ~> (place \in {"docked", "failed", "halted"} \/ traffic_hold)
=============================================================================
