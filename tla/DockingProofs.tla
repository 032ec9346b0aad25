---------------------------- MODULE DockingProofs ----------------------------
(***************************************************************************)
(* Proofs about DockGoals, for any dock_attempts and any number of goals,  *)
(* holds and halts, and about Docking, for any markers, times and depth of *)
(* the queues.                                                             *)
(***************************************************************************)
EXTENDS DockGoals, Docking, FiniteSetTheorems, TLAPS

-----------------------------------------------------------------------------
(* The goals: the inductive invariant.                                      *)

\* Goals are numbered as they are sent, and heard of only after they were.
Numbered ==
  /\ \A g \in Goals : g > goals_sent <=> status[g] = "unsent"
  /\ \A g \in answered : status[g] \notin {"unsent", "asked"}
  /\ excused \subseteq 1..goals_sent

\* The server answers goals in their order, and accepts one only when the
\* earlier ones are over.
InOrder ==
  \A g, h \in Goals : g < h =>
    /\ status[h] \notin {"unsent", "asked"} => status[g] \notin {"unsent", "asked"}
    /\ status[h] \in WasAccepted => status[g] \in Over \cup {"rejected"}

\* The node listens to the goal it sent last, if to any, and what it has
\* heard is what the server has said.
Listens ==
  IF current = None THEN ~response_received /\ ~handle /\ outcome = "none"
  ELSE /\ current = goals_sent
       /\ response_received <=> current \in answered
       /\ handle <=> current \in answered /\ status[current] # "rejected"
       /\ outcome # "none" => status[current] = outcome

\* A node at work is waiting for its goal; one that may send another has
\* nothing left to wait for but a rejection.
AtWork == stage \in {"wait_accept", "wait_result"}
Stages ==
  /\ stage # "idle" => place = "dock"
  /\ AtWork => current # None /\ goals_sent \notin excused
  /\ ~AtWork /\ current # None => response_received /\ ~handle

\* But for the goals given up there is one for each failed attempt, and the
\* one of this attempt.
Unexcused == (1..goals_sent) \ excused
ThisAttempt == IF AtWork \/ place \in {"recover", "docked"} THEN 1 ELSE 0
Counts ==
  /\ Cardinality(Unexcused) <= attempts + ThisAttempt
  /\ place # "failed" => attempts < DockAttempts

Books == Numbered /\ InOrder /\ Listens /\ Stages
DInv == DTypeOK /\ Books /\ Counts /\ NoOrphan /\ DockedByLast

-----------------------------------------------------------------------------
LEMMA UnexcusedFinite ==
  ASSUME goals_sent \in Nat
  PROVE  IsFiniteSet(Unexcused) /\ Cardinality(Unexcused) \in Nat
<1>1. IsFiniteSet(1..goals_sent)
  BY FS_Interval
<1>2. IsFiniteSet(Unexcused)
  BY <1>1, FS_Difference DEF Unexcused
<1> QED BY <1>2, FS_CardinalityType

(* The tree's side: steps after which the node listens to the same goal or  *)
(* to none.                                                                 *)
LEMMA NoServerKeeps ==
  ASSUME DInv, place = "dock", NoServer, UNCHANGED <<traffic, halts>>
  PROVE  DInv'
<1>0. DTypeOK /\ Numbered /\ InOrder /\ Listens /\ Stages /\ Counts /\ NoOrphan
  BY DEF DInv, Books
<1> USE DEF NoServer, Fails, listening, wire, traffic
<1>1. DTypeOK'
  BY <1>0 DEF DTypeOK, Goals
<1>2. Numbered' /\ InOrder' /\ Listens' /\ NoOrphan'
  BY <1>0 DEF Numbered, InOrder, Listens, NoOrphan
<1>3. Stages'
  BY <1>0 DEF Stages, AtWork
<1>4. Counts'
  <2>1. Unexcused' = Unexcused
    BY DEF Unexcused
  <2>2. Cardinality(Unexcused) \in Nat /\ attempts \in Nat
    BY <1>0, UnexcusedFinite, AttemptsAssumption DEF DTypeOK
  <2> QED BY <1>0, <2>1, <2>2 DEF Counts, ThisAttempt, AtWork
<1>5. DockedByLast'
  BY DEF DockedByLast
<1> QED BY <1>1, <1>2, <1>3, <1>4, <1>5 DEF DInv, Books

LEMMA SendGoalKeeps ==
  ASSUME DInv, place = "dock", SendGoal, UNCHANGED <<traffic, halts>>
  PROVE  DInv'
<1> DEFINE g == goals_sent + 1
<1>0. DTypeOK /\ Numbered /\ InOrder /\ Listens /\ Stages /\ Counts /\ NoOrphan
  BY DEF DInv, Books
<1> USE DEF SendGoal, ListenTo, wire, traffic
<1>a. /\ goals_sent \in Nat /\ g \in Goals /\ g # None /\ MaxSends \in Nat
      /\ status \in [Goals -> WasAccepted \cup {"unsent", "asked", "rejected"}]
      /\ answered \subseteq Goals
  BY <1>0, BoundsAssumption DEF DTypeOK, Goals, None
<1>b. /\ status'[g] = "asked" /\ status[g] = "unsent"
      /\ \A h \in Goals \ {g} : status'[h] = status[h]
      /\ g \notin answered /\ goals_sent' = g /\ current' = g
      /\ goals_sent \in Goals \cup {0}
  BY <1>0, <1>a DEF Numbered, Goals
<1>1. DTypeOK'
  <2>1. /\ goals_sent' \in 0..MaxSends /\ current' \in Goals \cup {None}
        /\ status' \in [Goals -> WasAccepted \cup {"unsent", "asked", "rejected"}]
    BY <1>a DEF Goals
  <2> QED BY <1>0, <2>1 DEF DTypeOK
<1>2. Numbered'
  BY <1>0, <1>a, <1>b DEF Numbered, Goals
<1>3. InOrder'
  BY <1>0, <1>a, <1>b DEF InOrder, WasAccepted, Over, Numbered, Goals
<1>4. Listens'
  BY <1>a, <1>b DEF Listens
<1>5. Stages'
  BY <1>0, <1>a, <1>b DEF Stages, AtWork, Numbered
<1>6. Counts'
  <2>1. /\ Cardinality(Unexcused) \in Nat /\ attempts \in Nat /\ IsFiniteSet(Unexcused)
    BY <1>0, <1>a, UnexcusedFinite, AttemptsAssumption DEF DTypeOK
  <2>2. Unexcused' = Unexcused \cup {g} /\ g \notin Unexcused
    BY <1>0, <1>a DEF Unexcused, Numbered
  <2>3. Cardinality(Unexcused') = Cardinality(Unexcused) + 1
    BY <2>1, <2>2, FS_AddElement
  <2> QED BY <1>0, <2>1, <2>3 DEF Counts, ThisAttempt, AtWork
<1>7. NoOrphan'
  <2> SUFFICES ASSUME NEW h \in Goals, status'[h] = "executing", h # g
               PROVE  h \notin answered \/ h \in cancels
    BY <1>b DEF NoOrphan
  <2>1. status[h] = "executing"
    BY <1>b
  <2>2. h = current => h \notin answered
    BY <1>0, <2>1 DEF Listens, Stages, AtWork, Goals, None
  <2> QED BY <1>0, <2>1, <2>2 DEF NoOrphan
<1>8. DockedByLast'
  BY DEF DockedByLast
<1> QED BY <1>1, <1>2, <1>3, <1>4, <1>5, <1>6, <1>7, <1>8 DEF DInv, Books

(* The node stops listening.  A goal that is left behind was not answered,  *)
(* is over, or is being cancelled.                                          *)
LEMMA InvalidatedKeeps ==
  ASSUME DInv, Invalidate, UNCHANGED <<goals_sent, status, answered>>,
         cancels \subseteq cancels', excused' \subseteq 1..goals_sent, stage' = "idle",
         \/ handle /\ outcome = "none" => cancels' = cancels \cup {current}
  PROVE  /\ Numbered' /\ InOrder' /\ Listens' /\ Stages' /\ NoOrphan'
         /\ current' = None
<1>0. DTypeOK /\ Numbered /\ InOrder /\ Listens /\ NoOrphan
  BY DEF DInv, Books
<1> USE DEF Invalidate, ListenTo
<1>1. Numbered' /\ InOrder' /\ Listens'
  BY <1>0 DEF Numbered, InOrder, Listens
<1>2. Stages'
  BY DEF Stages, AtWork
<1>3. NoOrphan'
  <2> SUFFICES ASSUME NEW h \in Goals, status[h] = "executing"
               PROVE  h \notin answered \/ h \in cancels'
    BY DEF NoOrphan
  <2>1. CASE h # current
    BY <1>0, <2>1 DEF NoOrphan
  <2>2. CASE h = current
    <3>1. outcome \in Over \cup {"none"}
      BY <1>0 DEF DTypeOK
    <3>2. h # None
      BY <1>0, BoundsAssumption DEF Goals, None
    <3> QED BY <1>0, <2>2, <3>1, <3>2 DEF Listens, Over
  <2> QED BY <2>1, <2>2
<1> QED BY <1>1, <1>2, <1>3

LEMMA AnswerTimesOutKeeps ==
  ASSUME DInv, place = "dock", AnswerTimesOut, UNCHANGED <<traffic, halts>>
  PROVE  DInv'
<1>0. DTypeOK /\ Numbered /\ Listens /\ Counts
  BY DEF DInv, Books
<1> USE DEF AnswerTimesOut, Fails, wire, traffic
<1>1. DTypeOK'
  BY <1>0 DEF DTypeOK, Invalidate, ListenTo, Goals, None
<1>2. Books' /\ NoOrphan'
  <2>1. ~handle
    BY <1>0 DEF Listens
  <2> QED BY <1>0, <2>1, InvalidatedKeeps DEF Numbered, Books
<1>3. Counts'
  <2>1. Unexcused' = Unexcused
    BY DEF Unexcused
  <2> QED BY <1>0, <2>1 DEF Counts, ThisAttempt, AtWork
<1>4. DockedByLast'
  BY DEF DockedByLast
<1> QED BY <1>1, <1>2, <1>3, <1>4 DEF DInv

LEMMA RejectionKeeps ==
  ASSUME DInv, place = "dock", Rejection, UNCHANGED <<traffic, halts>>
  PROVE  DInv'
<1>0. DTypeOK /\ Numbered /\ InOrder /\ Listens /\ Stages /\ Counts /\ NoOrphan
  BY DEF DInv, Books
<1> USE DEF Rejection, Fails, listening, wire, traffic
<1>1. DTypeOK'
  BY <1>0 DEF DTypeOK, Goals
<1>2. Numbered' /\ InOrder' /\ Listens' /\ NoOrphan'
  BY <1>0 DEF Numbered, InOrder, Listens, NoOrphan
<1>3. Stages'
  BY <1>0 DEF Stages, AtWork
<1>4. Counts'
  <2>1. Unexcused' = Unexcused
    BY DEF Unexcused
  <2> QED BY <1>0, <2>1 DEF Counts, ThisAttempt, AtWork
<1>5. DockedByLast'
  BY DEF DockedByLast
<1> QED BY <1>1, <1>2, <1>3, <1>4, <1>5 DEF DInv, Books

LEMMA LookForResultKeeps ==
  ASSUME DInv, place = "dock", LookForResult, UNCHANGED <<traffic, halts>>
  PROVE  DInv'
<1>0. DTypeOK /\ Numbered /\ InOrder /\ Listens /\ Stages /\ Counts /\ NoOrphan
  BY DEF DInv, Books
<1> USE DEF LookForResult, Fails, wire, traffic
<1>a. Unexcused' = Unexcused
  BY DEF Unexcused
<1>1. CASE outcome = "none"
  <2>0. stage' = "wait_result" /\ UNCHANGED <<place, listening>>
    BY <1>1
  <2> USE DEF listening
  <2>1. DTypeOK'
    BY <1>0, <2>0 DEF DTypeOK, Goals
  <2>2. Numbered' /\ InOrder' /\ Listens' /\ NoOrphan'
    BY <1>0, <2>0 DEF Numbered, InOrder, Listens, NoOrphan
  <2>3. Stages'
    BY <1>0, <2>0 DEF Stages, AtWork
  <2>4. Counts'
    BY <1>0, <1>a, <2>0 DEF Counts, ThisAttempt, AtWork
  <2>5. DockedByLast'
    BY <2>0 DEF DockedByLast
  <2> QED BY <2>1, <2>2, <2>3, <2>4, <2>5 DEF DInv, Books
<1>2. CASE outcome # "none"
  <2>0. /\ Invalidate /\ stage' = "idle"
        /\ \/ outcome = "succeeded" /\ place' = "docked"
           \/ outcome # "succeeded" /\ place' = "recover"
    BY <1>2
  <2>1. DTypeOK'
    BY <1>0, <2>0 DEF DTypeOK, Invalidate, ListenTo, Goals, None
  <2>2. Books' /\ NoOrphan'
    BY <1>0, <1>2, <2>0, InvalidatedKeeps DEF Numbered, Books
  <2>3. Counts'
    BY <1>0, <1>a, <2>0 DEF Counts, ThisAttempt, AtWork
  <2>4. DockedByLast'
    <3> SUFFICES ASSUME outcome = "succeeded"
                 PROVE  status[goals_sent] = "succeeded" /\ Active = {}
      BY <2>0 DEF DockedByLast, Active
    <3>1. current # None /\ current = goals_sent /\ status[goals_sent] = "succeeded"
          /\ goals_sent \in Goals
      BY <1>0 DEF Listens, DTypeOK
    <3>2. ASSUME NEW g \in Active
          PROVE  FALSE
      <4>1. g \in Goals /\ status[g] \in {"executing", "canceling"}
        BY <3>2 DEF Active
      <4>2. g <= goals_sent /\ g # goals_sent /\ g < goals_sent
        BY <1>0, <3>1, <4>1 DEF Numbered, Goals, DTypeOK
      <4> QED BY <1>0, <3>1, <4>1, <4>2 DEF InOrder, WasAccepted, Over
    <3> QED BY <3>1, <3>2
  <2> QED BY <2>1, <2>2, <2>3, <2>4 DEF DInv
<1> QED BY <1>1, <1>2

(* A hold halts the node, and its goal need not count.                      *)
LEMMA HaltDockKeeps ==
  ASSUME DInv, place = "dock", HaltDock,
         UNCHANGED <<place, attempts, goals_sent, status, answered, reported, traffic, halts>>
  PROVE  DInv'
<1>0. DTypeOK /\ Numbered /\ InOrder /\ Listens /\ Stages /\ Counts /\ NoOrphan
  BY DEF DInv, Books
<1> USE DEF HaltDock, traffic
<1>d. DockedByLast'
  BY DEF DockedByLast
<1>1. CASE stage = "idle"
  <2>0. stage' = "idle" /\ UNCHANGED <<listening, cancels, excused>>
    BY <1>1
  <2> USE DEF listening
  <2>1. DTypeOK'
    BY <1>0, <2>0 DEF DTypeOK, Goals
  <2>2. Numbered' /\ InOrder' /\ Listens' /\ NoOrphan'
    BY <1>0, <2>0 DEF Numbered, InOrder, Listens, NoOrphan
  <2>3. Stages'
    BY <1>0, <1>1, <2>0 DEF Stages, AtWork
  <2>4. Counts'
    <3>1. Unexcused' = Unexcused
      BY <2>0 DEF Unexcused
    <3> QED BY <1>0, <1>1, <2>0, <3>1 DEF Counts, ThisAttempt, AtWork
  <2> QED BY <1>d, <2>1, <2>2, <2>3, <2>4 DEF DInv, Books
<1>2. CASE stage # "idle"
  <2>0. /\ stage' = "idle" /\ Invalidate /\ cancels' = CancelRequests
        /\ excused' = excused \cup ({current} \ {None})
    BY <1>2
  <2>a. /\ cancels \subseteq cancels' /\ cancels' \subseteq Goals
        /\ handle /\ outcome = "none" => cancels' = cancels \cup {current}
    BY <1>0, <2>0 DEF CancelRequests, Listens, DTypeOK
  <2>b. excused' \subseteq 1..goals_sent
    BY <1>0, <2>0 DEF Numbered, Listens, DTypeOK, Goals, None
  <2>1. DTypeOK'
    <3>1. excused' \subseteq Goals /\ current' = None
      BY <1>0, <2>0, <2>b DEF DTypeOK, Goals, Invalidate, ListenTo
    <3> QED BY <1>0, <2>0, <2>a, <3>1 DEF DTypeOK, Invalidate, ListenTo
  <2>2. Books' /\ NoOrphan'
    BY <2>0, <2>a, <2>b, InvalidatedKeeps DEF Books
  <2>3. Counts'
    <3>1. /\ IsFiniteSet(Unexcused) /\ Cardinality(Unexcused) \in Nat /\ attempts \in Nat
          /\ goals_sent \in Nat
      BY <1>0, UnexcusedFinite, AttemptsAssumption DEF DTypeOK
    <3>2. CASE AtWork
      <4>1. current \in Unexcused /\ Unexcused' = Unexcused \ {current}
        BY <1>0, <2>0, <3>2 DEF Unexcused, Stages, Listens, DTypeOK, Goals, None
      <4>2. Cardinality(Unexcused') = Cardinality(Unexcused) - 1
        BY <3>1, <4>1, FS_RemoveElement
      <4> QED BY <1>0, <2>0, <3>1, <3>2, <4>2 DEF Counts, ThisAttempt, AtWork
    <3>3. CASE ~AtWork
      <4>1. Unexcused' \subseteq Unexcused
        BY <2>0 DEF Unexcused
      <4>2. Cardinality(Unexcused') <= Cardinality(Unexcused) /\ Cardinality(Unexcused') \in Nat
        BY <3>1, <4>1, FS_Subset, FS_CardinalityType
      <4> QED BY <1>0, <2>0, <3>1, <3>3, <4>2 DEF Counts, ThisAttempt, AtWork
    <3> QED BY <3>2, <3>3
  <2> QED BY <1>d, <2>1, <2>2, <2>3 DEF DInv
<1> QED BY <1>1, <1>2

LEMMA TickDockKeeps ==
  ASSUME DInv, TickDock
  PROVE  DInv'
<1>1. CASE traffic_hold
  BY <1>1, HaltDockKeeps DEF TickDock
<1>2. CASE ~traffic_hold
  BY <1>2, NoServerKeeps, SendGoalKeeps, AnswerTimesOutKeeps, RejectionKeeps, LookForResultKeeps
  DEF TickDock
<1> QED BY <1>1, <1>2

LEMMA RecoveredKeeps ==
  ASSUME DInv, Recovered
  PROVE  DInv'
<1>0. DTypeOK /\ Numbered /\ InOrder /\ Listens /\ Stages /\ Counts /\ NoOrphan
  BY DEF DInv, Books
<1> USE DEF Recovered, listening, wire, traffic
<1>a. attempts \in Nat /\ DockAttempts \in Nat /\ stage = "idle"
  BY <1>0, AttemptsAssumption DEF DTypeOK, Stages
<1>1. DTypeOK'
  <2>1. attempts' \in 0..DockAttempts /\ place' \in {"dock", "failed"}
    BY <1>0, <1>a DEF Counts
  <2> QED BY <1>0, <2>1 DEF DTypeOK, Goals
<1>2. Numbered' /\ InOrder' /\ Listens' /\ NoOrphan'
  BY <1>0 DEF Numbered, InOrder, Listens, NoOrphan
<1>3. Stages'
  BY <1>0 DEF Stages, AtWork
<1>4. Counts'
  <2>1. Unexcused' = Unexcused
    BY DEF Unexcused
  <2>2. Cardinality(Unexcused) \in Nat
    BY <1>0, UnexcusedFinite DEF DTypeOK
  <2>3. Cardinality(Unexcused) <= attempts + 1
    BY <1>0, <1>a, <2>2 DEF Counts, ThisAttempt, AtWork
  <2> QED BY <1>a, <2>1, <2>2, <2>3 DEF Counts, ThisAttempt, AtWork, TriesAgain
<1>5. DockedByLast'
  BY DEF DockedByLast
<1> QED BY <1>1, <1>2, <1>3, <1>4, <1>5 DEF DInv, Books

LEMMA HaltTreeKeeps ==
  ASSUME DInv, HaltTree
  PROVE  DInv'
<1>0. DTypeOK /\ Numbered /\ InOrder /\ Listens /\ Stages /\ Counts /\ NoOrphan
  BY DEF DInv, Books
<1>a. /\ place' = "halted" /\ attempts' = 0 /\ stage' = "idle" /\ halts' \in 0..MaxHalts
      /\ excused' = 1..goals_sent /\ UNCHANGED <<goals_sent, status, answered, reported, traffic>>
  BY <1>0, BoundsAssumption DEF HaltTree, DTypeOK
<1>b. 1..goals_sent \subseteq Goals
  BY <1>0, BoundsAssumption DEF DTypeOK, Goals
<1>1. Counts'
  <2>1. Unexcused' = {}
    BY <1>a DEF Unexcused
  <2>2. Cardinality(Unexcused') = 0
    BY <2>1, FS_EmptySet
  <2> QED BY <1>a, <2>2, AttemptsAssumption DEF Counts, ThisAttempt, AtWork
<1>2. DockedByLast'
  BY <1>a DEF DockedByLast
<1>3. CASE stage = "idle"
  <2>0. UNCHANGED <<listening, cancels>>
    BY <1>3 DEF HaltTree
  <2> USE DEF listening
  <2>1. DTypeOK'
    BY <1>0, <1>a, <1>b, <2>0, AttemptsAssumption DEF DTypeOK, Goals, traffic
  <2>2. Numbered' /\ InOrder' /\ Listens' /\ NoOrphan'
    BY <1>0, <1>a, <2>0 DEF Numbered, InOrder, Listens, NoOrphan
  <2>3. Stages'
    BY <1>0, <1>3, <1>a, <2>0 DEF Stages, AtWork
  <2> QED BY <1>1, <1>2, <2>1, <2>2, <2>3 DEF DInv, Books
<1>4. CASE stage # "idle"
  <2>0. Invalidate /\ cancels' = CancelRequests
    BY <1>4 DEF HaltTree
  <2>a. /\ cancels \subseteq cancels' /\ cancels' \subseteq Goals
        /\ handle /\ outcome = "none" => cancels' = cancels \cup {current}
    BY <1>0, <2>0 DEF CancelRequests, Listens, DTypeOK
  <2>b. /\ attempts' \in 0..DockAttempts /\ excused' \subseteq Goals
        /\ current' \in Goals \cup {None}
    BY <1>a, <1>b, <2>0, AttemptsAssumption DEF Invalidate, ListenTo
  <2>1. DTypeOK'
    BY <1>0, <1>a, <2>0, <2>a, <2>b DEF DTypeOK, Invalidate, ListenTo, traffic
  <2>2. Books' /\ NoOrphan'
    BY <1>a, <2>0, <2>a, InvalidatedKeeps DEF Books
  <2> QED BY <1>1, <1>2, <2>1, <2>2 DEF DInv
<1> QED BY <1>3, <1>4

LEMMA TrafficKeeps ==
  ASSUME DInv, Resume \/ HoldBegins \/ HoldEnds
  PROVE  DInv'
<1>0. DTypeOK /\ Numbered /\ InOrder /\ Listens /\ Stages /\ Counts /\ NoOrphan /\ DockedByLast
  BY DEF DInv, Books
<1>a. /\ UNCHANGED <<attempts, stage, listening, goals_sent, status, wire, halts, excused>>
      /\ traffic_hold' \in BOOLEAN /\ holds' \in 0..MaxHolds
      /\ place' = place \/ (place = "halted" /\ place' = "dock")
  <2>1. holds \in 0..MaxHolds /\ MaxHolds \in Nat /\ traffic_hold \in BOOLEAN
    BY <1>0, BoundsAssumption DEF DTypeOK
  <2>2. CASE Resume
    BY <2>1, <2>2 DEF Resume, traffic
  <2>3. CASE HoldBegins
    BY <2>1, <2>3 DEF HoldBegins, client
  <2>4. CASE HoldEnds
    BY <2>1, <2>4 DEF HoldEnds, client
  <2> QED BY <2>2, <2>3, <2>4
<1> USE <1>a DEF listening, wire
<1>1. DTypeOK'
  BY <1>0 DEF DTypeOK, Goals
<1>2. Numbered' /\ InOrder' /\ Listens' /\ NoOrphan'
  BY <1>0 DEF Numbered, InOrder, Listens, NoOrphan
<1>3. Stages' /\ DockedByLast'
  BY <1>0 DEF Stages, AtWork, DockedByLast, Active
<1>4. Counts'
  <2>1. Unexcused' = Unexcused
    BY DEF Unexcused
  <2> QED BY <1>0, <2>1 DEF Counts, ThisAttempt, AtWork
<1> QED BY <1>1, <1>2, <1>3, <1>4 DEF DInv, Books

(* The client's callbacks.                                                  *)
LEMMA AnswerKeeps ==
  ASSUME DInv, NEW g \in Goals, Answer(g)
  PROVE  DInv'
<1>0. DTypeOK /\ Numbered /\ InOrder /\ Listens /\ Stages /\ Counts /\ NoOrphan /\ DockedByLast
  BY DEF DInv, Books
<1>a. /\ UNCHANGED <<place, attempts, stage, current, outcome, goals_sent, status, reported,
                     traffic, halts, excused>>
      /\ status[g] \in WasAccepted \cup {"rejected"} /\ g \notin answered
      /\ answered' = answered \cup {g}
  BY DEF Answer
<1>b. \/ /\ current = g /\ response_received' = TRUE /\ handle' = (status[g] # "rejected")
         /\ UNCHANGED cancels
      \/ /\ current # g /\ UNCHANGED <<response_received, handle>>
         /\ cancels' = IF status[g] = "rejected" THEN cancels ELSE cancels \cup {g}
  BY DEF Answer, LateAnswer
<1>c. g # None
  BY BoundsAssumption DEF Goals, None
<1>1. DTypeOK'
  BY <1>0, <1>a, <1>b DEF DTypeOK, traffic
<1>2. Numbered' /\ InOrder'
  BY <1>0, <1>a DEF Numbered, InOrder, WasAccepted, Over
<1>3. Listens'
  <2>1. current = g => outcome = "none" \/ outcome = status[g]
    BY <1>0, <1>c DEF Listens
  <2>2. CASE current = g
    <3>1. current # None /\ current = goals_sent /\ response_received' = TRUE
          /\ handle' = (status[current] # "rejected") /\ current \in answered'
      BY <1>0, <1>a, <1>b, <1>c, <2>2 DEF Listens
    <3> QED BY <1>a, <2>1, <2>2, <3>1 DEF Listens
  <2>3. CASE current # g
    BY <1>0, <1>a, <1>b, <2>3 DEF Listens
  <2> QED BY <2>2, <2>3
<1>4. Stages'
  <2>1. current = g => AtWork
    BY <1>0, <1>a, <1>c DEF Stages, Listens
  <2> QED BY <1>0, <1>a, <1>b, <2>1 DEF Stages, AtWork
<1>5. NoOrphan'
  BY <1>0, <1>a, <1>b DEF NoOrphan
<1>6. Counts' /\ DockedByLast'
  <2>1. Unexcused' = Unexcused /\ ThisAttempt' = ThisAttempt /\ Active' = Active
    BY <1>a DEF Unexcused, ThisAttempt, AtWork, Active
  <2> QED BY <1>0, <1>a, <2>1 DEF Counts, DockedByLast
<1> QED BY <1>1, <1>2, <1>3, <1>4, <1>5, <1>6 DEF DInv, Books

LEMMA ResultKeeps ==
  ASSUME DInv, NEW g \in Goals, Result(g)
  PROVE  DInv'
<1>0. DTypeOK /\ Numbered /\ InOrder /\ Listens /\ Stages /\ Counts /\ NoOrphan /\ DockedByLast
  BY DEF DInv, Books
<1>a. /\ UNCHANGED <<place, attempts, stage, current, response_received, handle, goals_sent,
                     status, answered, cancels, traffic, halts, excused>>
      /\ status[g] \in Over /\ reported' = reported \cup {g}
      /\ outcome' = IF current = g THEN status[g] ELSE outcome
  BY DEF Result, Heeded
<1>c. g # None
  BY BoundsAssumption DEF Goals, None
<1>1. DTypeOK'
  BY <1>0, <1>a DEF DTypeOK, traffic
<1>2. Numbered' /\ InOrder' /\ Stages' /\ NoOrphan'
  BY <1>0, <1>a DEF Numbered, InOrder, Stages, AtWork, NoOrphan
<1>3. Listens'
  BY <1>0, <1>a, <1>c DEF Listens
<1>4. Counts' /\ DockedByLast'
  <2>1. Unexcused' = Unexcused /\ ThisAttempt' = ThisAttempt /\ Active' = Active
    BY <1>a DEF Unexcused, ThisAttempt, AtWork, Active
  <2> QED BY <1>0, <1>a, <2>1 DEF Counts, DockedByLast
<1> QED BY <1>1, <1>2, <1>3, <1>4 DEF DInv, Books

(* The server's side: what it does with one goal, or with the one that      *)
(* makes way for it.                                                        *)
LEMMA OnGoalKeeps ==
  ASSUME DInv, NEW g \in Goals, OnGoal(g)
  PROVE  DInv'
<1>0. DTypeOK /\ Numbered /\ InOrder /\ Listens /\ Stages /\ Counts /\ NoOrphan /\ DockedByLast
  BY DEF DInv, Books
<1>a. /\ UNCHANGED <<place, attempts, stage, listening, goals_sent, wire, traffic, halts, excused>>
      /\ status[g] = "asked" /\ \A h \in 1..(g - 1) : status[h] # "asked"
      /\ status' = [h \in Goals |->
           IF h = g THEN (IF MayStart THEN "executing" ELSE "rejected")
           ELSE IF status[h] = "canceling" THEN "canceled" ELSE status[h]]
  BY DEF OnGoal, client
<1> USE DEF listening, wire
<1>b. /\ status'[g] \in {"executing", "rejected"}
      /\ status'[g] = "executing" => MayStart
      /\ \A h \in Goals \ {g} :
           status'[h] = IF status[h] = "canceling" THEN "canceled" ELSE status[h]
  BY <1>a
<1>c. /\ g \notin answered /\ \A h \in Goals : h < g => status[h] # "asked"
  BY <1>0, <1>a DEF Numbered, Goals
<1>1. DTypeOK'
  <2>1. status' \in [Goals -> WasAccepted \cup {"unsent", "asked", "rejected"}]
    BY <1>0, <1>a DEF DTypeOK, WasAccepted, Over
  <2> QED BY <1>0, <1>a, <2>1 DEF DTypeOK, traffic
<1>2. Numbered'
  <2>1. \A h \in Goals : status'[h] = "unsent" <=> status[h] = "unsent"
    BY <1>a, <1>b
  <2>2. \A h \in answered : h \in Goals /\ h # g /\ status[h] \notin {"unsent", "asked"}
    BY <1>0, <1>c DEF Numbered, DTypeOK
  <2>3. \A h \in answered : status'[h] \notin {"unsent", "asked"}
    BY <1>b, <2>2
  <2> QED BY <1>0, <1>a, <2>1, <2>3 DEF Numbered
<1>3. InOrder'
  <2> SUFFICES ASSUME NEW h \in Goals, NEW k \in Goals, h < k
               PROVE  /\ status'[k] \notin {"unsent", "asked"} => status'[h] \notin {"unsent", "asked"}
                      /\ status'[k] \in WasAccepted => status'[h] \in Over \cup {"rejected"}
    BY DEF InOrder
  <2>1. h \in Nat /\ k \in Nat /\ h # k
    BY BoundsAssumption DEF Goals
  <2>2. CASE k = g
    <3>1. status[h] \in WasAccepted \cup {"rejected"} /\ h # g
      <4>1. status[h] \in WasAccepted \cup {"unsent", "asked", "rejected"}
        BY <1>0 DEF DTypeOK
      <4>2. status[h] # "unsent"
        BY <1>0, <1>a, <2>1, <2>2 DEF Numbered, Goals, DTypeOK
      <4> QED BY <1>c, <2>1, <2>2, <4>1, <4>2
    <3>2. MayStart => status[h] # "executing"
      BY DEF MayStart, Active
    <3> QED BY <1>b, <2>2, <3>1, <3>2 DEF WasAccepted, Over
  <2>3. CASE h = g
    <3>1. status[k] \in {"unsent", "asked"} /\ status'[k] = status[k]
      BY <1>0, <1>a, <1>b, <2>1, <2>3 DEF InOrder
    <3> QED BY <3>1 DEF WasAccepted, Over
  <2>4. CASE h # g /\ k # g
    BY <1>0, <1>b, <2>4 DEF InOrder, WasAccepted, Over
  <2> QED BY <2>2, <2>3, <2>4
<1>4. Listens'
  <2>1. CASE current = None
    BY <1>0, <1>a, <2>1 DEF Listens
  <2>2. CASE current # None
    <3>1. current \in Goals /\ (outcome # "none" => status[current] \in Over)
      BY <1>0, <2>2 DEF Listens, DTypeOK
    <3>2. current = g => ~handle /\ outcome = "none" /\ current \notin answered
      BY <1>0, <1>a, <1>c, <2>2, <3>1 DEF Listens, Over
    <3>3. current # g => status'[current] = status[current] \/ status[current] = "canceling"
      BY <1>b, <3>1
    <3>4. current # g => (status'[current] = "rejected" <=> status[current] = "rejected")
      BY <1>b, <3>1
    <3> QED BY <1>0, <1>a, <2>2, <3>1, <3>2, <3>3, <3>4 DEF Listens, Over
  <2> QED BY <2>1, <2>2
<1>5. Stages'
  BY <1>0, <1>a DEF Stages, AtWork
<1>6. NoOrphan'
  BY <1>0, <1>a, <1>b, <1>c DEF NoOrphan
<1>7. Counts'
  <2>1. Unexcused' = Unexcused /\ ThisAttempt' = ThisAttempt
    BY <1>a DEF Unexcused, ThisAttempt, AtWork
  <2> QED BY <1>0, <1>a, <2>1 DEF Counts
<1>8. DockedByLast'
  <2> SUFFICES ASSUME place = "docked"
               PROVE  FALSE
    BY <1>a DEF DockedByLast
  <2>1. status[goals_sent] = "succeeded"
    BY <1>0 DEF DockedByLast
  <2>2. g <= goals_sent /\ goals_sent \in Goals /\ g # goals_sent
    BY <1>0, <1>a, <2>1 DEF Numbered, Goals, DTypeOK
  <2>3. g < goals_sent
    BY <2>2 DEF Goals
  <2> QED BY <1>0, <1>a, <2>1, <2>2, <2>3 DEF InOrder
<1> QED BY <1>1, <1>2, <1>3, <1>4, <1>5, <1>6, <1>7, <1>8 DEF DInv, Books

LEMMA OnCancelKeeps ==
  ASSUME DInv, NEW g \in Goals, OnCancel(g)
  PROVE  DInv'
<1>0. DTypeOK /\ Numbered /\ InOrder /\ Listens /\ Stages /\ Counts /\ NoOrphan /\ DockedByLast
  BY DEF DInv, Books
<1>a. /\ UNCHANGED <<place, attempts, stage, listening, goals_sent, answered, reported, traffic,
                     halts, excused>>
      /\ cancels' = cancels \ {g}
      /\ status' = IF status[g] = "executing" THEN [status EXCEPT ![g] = "canceling"] ELSE status
  BY DEF OnCancel, client
<1> USE DEF listening
<1>b. /\ \A h \in Goals \ {g} : status'[h] = status[h]
      /\ \/ status[g] = "executing" /\ status'[g] = "canceling"
         \/ status[g] # "executing" /\ status'[g] = status[g]
      /\ status' \in [Goals -> WasAccepted \cup {"unsent", "asked", "rejected"}]
  BY <1>0, <1>a DEF DTypeOK, WasAccepted
<1>1. DTypeOK'
  BY <1>0, <1>a, <1>b DEF DTypeOK, traffic
<1>2. Numbered' /\ InOrder'
  <2>1. \A h \in Goals : \/ status'[h] = status[h]
                         \/ status[h] = "executing" /\ status'[h] = "canceling"
    BY <1>b
  <2>2. Numbered'
    <3>1. answered \subseteq Goals
      BY <1>0 DEF DTypeOK
    <3> QED BY <1>0, <1>a, <2>1, <3>1 DEF Numbered
  <2>3. InOrder'
    BY <1>0, <2>1 DEF InOrder, WasAccepted, Over
  <2> QED BY <2>2, <2>3
<1>3. Listens'
  <2>1. CASE current = None
    BY <1>0, <1>a, <2>1 DEF Listens
  <2>2. CASE current # None
    <3>1. current \in Goals /\ (outcome # "none" => outcome \in Over /\ status[current] = outcome)
      BY <1>0, <2>2 DEF Listens, DTypeOK
    <3>2. /\ status'[current] = "rejected" <=> status[current] = "rejected"
          /\ status[current] \in Over => status'[current] = status[current]
      BY <1>b, <3>1 DEF Over
    <3> QED BY <1>0, <1>a, <2>2, <3>1, <3>2 DEF Listens
  <2> QED BY <2>1, <2>2
<1>4. Stages'
  BY <1>0, <1>a DEF Stages, AtWork
<1>5. NoOrphan'
  BY <1>0, <1>a, <1>b DEF NoOrphan
<1>6. Counts'
  <2>1. Unexcused' = Unexcused /\ ThisAttempt' = ThisAttempt
    BY <1>a DEF Unexcused, ThisAttempt, AtWork
  <2> QED BY <1>0, <1>a, <2>1 DEF Counts
<1>7. DockedByLast'
  <2> SUFFICES ASSUME place = "docked"
               PROVE  status'[goals_sent] = "succeeded" /\ Active' = {}
    BY <1>a DEF DockedByLast
  <2>1. status[goals_sent] = "succeeded" /\ Active = {}
    BY <1>0 DEF DockedByLast
  <2>2. status[g] # "executing"
    BY <2>1 DEF Active
  <2> QED BY <1>a, <2>1, <2>2 DEF Active
<1> QED BY <1>1, <1>2, <1>3, <1>4, <1>5, <1>6, <1>7 DEF DInv, Books

LEMMA GoalEndsKeeps ==
  ASSUME DInv, NEW g \in Goals, GoalEnds(g)
  PROVE  DInv'
<1>0. DTypeOK /\ Numbered /\ InOrder /\ Listens /\ Stages /\ Counts /\ NoOrphan /\ DockedByLast
  BY DEF DInv, Books
<1>a. /\ UNCHANGED <<place, attempts, stage, listening, goals_sent, wire, traffic, halts, excused>>
      /\ status[g] \in {"executing", "canceling"}
      /\ \E s \in Over : status' = [status EXCEPT ![g] = s]
  BY DEF GoalEnds, client, Over
<1> USE DEF listening, wire
<1>b. /\ \A h \in Goals \ {g} : status'[h] = status[h]
      /\ status'[g] \in Over
      /\ status' \in [Goals -> WasAccepted \cup {"unsent", "asked", "rejected"}]
  BY <1>0, <1>a DEF DTypeOK, WasAccepted
<1>1. DTypeOK'
  BY <1>0, <1>a, <1>b DEF DTypeOK, traffic
<1>2. Numbered' /\ InOrder'
  <2>1. \A h \in Goals : \/ status'[h] = status[h]
                         \/ status[h] \in {"executing", "canceling"} /\ status'[h] \in Over
    BY <1>a, <1>b
  <2>2. Numbered'
    <3>1. answered \subseteq Goals
      BY <1>0 DEF DTypeOK
    <3> QED BY <1>0, <1>a, <2>1, <3>1 DEF Numbered, Over
  <2>3. InOrder'
    BY <1>0, <2>1 DEF InOrder, WasAccepted, Over
  <2> QED BY <2>2, <2>3
<1>3. Listens'
  <2>1. CASE current = None
    BY <1>0, <1>a, <2>1 DEF Listens
  <2>2. CASE current # None
    <3>1. current \in Goals /\ (outcome # "none" => outcome \in Over /\ status[current] = outcome)
      BY <1>0, <2>2 DEF Listens, DTypeOK
    <3>2. /\ status'[current] = "rejected" <=> status[current] = "rejected"
          /\ status[current] \in Over => status'[current] = status[current]
      BY <1>a, <1>b, <3>1 DEF Over
    <3> QED BY <1>0, <1>a, <2>2, <3>1, <3>2 DEF Listens
  <2> QED BY <2>1, <2>2
<1>4. Stages'
  BY <1>0, <1>a DEF Stages, AtWork
<1>5. NoOrphan'
  BY <1>0, <1>a, <1>b DEF NoOrphan, Over
<1>6. Counts'
  <2>1. Unexcused' = Unexcused /\ ThisAttempt' = ThisAttempt
    BY <1>a DEF Unexcused, ThisAttempt, AtWork
  <2> QED BY <1>0, <1>a, <2>1 DEF Counts
<1>7. DockedByLast'
  BY <1>0, <1>a DEF DockedByLast, Active
<1> QED BY <1>1, <1>2, <1>3, <1>4, <1>5, <1>6, <1>7 DEF DInv, Books

-----------------------------------------------------------------------------
LEMMA DInitially == DInit => DInv
<1> SUFFICES ASSUME DInit
             PROVE  DInv
  OBVIOUS
<1>0. MaxSends \in Nat /\ MaxHolds \in Nat /\ MaxHalts \in Nat /\ DockAttempts \in Nat \ {0}
  BY BoundsAssumption, AttemptsAssumption
<1>1. DTypeOK
  <2>1. status \in [Goals -> WasAccepted \cup {"unsent", "asked", "rejected"}]
    BY DEF DInit
  <2>2. attempts \in 0..DockAttempts /\ goals_sent \in 0..MaxSends
        /\ holds \in 0..MaxHolds /\ halts \in 0..MaxHalts
    BY <1>0 DEF DInit
  <2> QED BY <2>1, <2>2 DEF DInit, DTypeOK
<1>2. Books
  <2>1. \A g \in Goals : g > 0 /\ status[g] = "unsent"
    BY <1>0 DEF DInit, Goals
  <2> QED BY <2>1 DEF DInit, Books, Numbered, InOrder, Listens, Stages, AtWork, WasAccepted, Over
<1>3. Counts
  <2>1. Unexcused = {}
    BY DEF DInit, Unexcused
  <2>2. Cardinality(Unexcused) = 0
    BY <2>1, FS_EmptySet
  <2> QED BY <1>0, <2>2 DEF DInit, Counts, ThisAttempt, AtWork
<1>4. NoOrphan /\ DockedByLast
  BY DEF DInit, NoOrphan, DockedByLast
<1> QED BY <1>1, <1>2, <1>3, <1>4 DEF DInv

LEMMA DSteps == DInv /\ [DNext]_dvars => DInv'
<1> SUFFICES ASSUME DInv, [DNext]_dvars
             PROVE  DInv'
  OBVIOUS
<1>1. CASE Tree
  BY <1>1, TickDockKeeps, RecoveredKeeps DEF Tree
<1>2. CASE HaltTree
  BY <1>2, HaltTreeKeeps
<1>3. CASE Resume \/ HoldBegins \/ HoldEnds
  BY <1>3, TrafficKeeps
<1>4. ASSUME NEW g \in Goals, Client(g) \/ Server(g)
      PROVE  DInv'
  BY <1>4, AnswerKeeps, ResultKeeps, OnGoalKeeps, OnCancelKeeps, GoalEndsKeeps DEF Client, Server
<1>5. CASE UNCHANGED dvars
  <2>1. UNCHANGED <<place, attempts, traffic_hold, holds, halts, stage, current, response_received,
                    handle, outcome, goals_sent, status, answered, reported, cancels, excused>>
    BY <1>5 DEF dvars, client, listening, wire, traffic
  <2>2. DTypeOK' /\ Books' /\ NoOrphan' /\ DockedByLast'
    BY <2>1 DEF DInv, DTypeOK, Goals, Books, Numbered, InOrder, Listens, Stages, AtWork, NoOrphan,
                DockedByLast, Active
  <2>3. Counts'
    BY <2>1 DEF DInv, Counts, Unexcused, ThisAttempt, AtWork
  <2> QED BY <2>2, <2>3 DEF DInv
<1> QED BY <1>1, <1>2, <1>3, <1>4, <1>5 DEF DNext

(* The inductive invariant holds in every state of the goals.               *)
THEOREM DInvariance == DSpec => []DInv
BY DInitially, DSteps, PTL DEF DSpec

(* The goals and the node keep their types.                                 *)
THEOREM DTypeCorrect == DSpec => []DTypeOK
<1>1. DInv => DTypeOK
  BY DEF DInv
<1> QED BY <1>1, DInvariance, PTL

(* No goal goes on unnoticed, whatever is halted, held or times out while   *)
(* answers and requests are on their way (RosActionNode: a late answer is   *)
(* followed by a cancel request).                                           *)
THEOREM NoGoalIsOrphaned == DSpec => []NoOrphan
<1>1. DInv => NoOrphan
  BY DEF DInv
<1> QED BY <1>1, DInvariance, PTL

(* DockAt succeeds only by the goal it sent last, which has succeeded, and  *)
(* leaves no goal at work: results carry their generation (result_callback) *)
(* and a goal that is accepted ends the one before it (onAccepted).         *)
THEOREM DocksByItsLastGoal == DSpec => []DockedByLast
<1>1. DInv => DockedByLast
  BY DEF DInv
<1> QED BY <1>1, DInvariance, PTL

(* Late and lost answers cost an attempt each: but for what holds and halts *)
(* gave up, the robot approaches the dock at most dock_attempts times.      *)
THEOREM ApproachesAreBounded == DSpec => []ApproachesBounded
<1>1. DInv => ApproachesBounded
  <2> SUFFICES ASSUME DInv
               PROVE  ApproachesBounded
    OBVIOUS
  <2> DEFINE approaches == {g \in Goals \ excused : status[g] \in WasAccepted}
  <2>0. DTypeOK /\ Numbered /\ Counts
    BY DEF DInv, Books
  <2>1. approaches \subseteq Unexcused
    BY <2>0 DEF Numbered, Unexcused, Goals, WasAccepted, Over, DTypeOK
  <2>2. IsFiniteSet(Unexcused) /\ Cardinality(Unexcused) \in Nat
    BY <2>0, UnexcusedFinite DEF DTypeOK
  <2>3. Cardinality(Unexcused) <= DockAttempts
    <3>1. attempts \in 0..DockAttempts /\ DockAttempts \in Nat
      BY <2>0, AttemptsAssumption DEF DTypeOK
    <3>2. place = "failed" => ThisAttempt = 0
      BY DEF DInv, Books, Stages, ThisAttempt, AtWork
    <3> QED BY <2>0, <2>2, <3>1, <3>2 DEF Counts, ThisAttempt
  <2> HIDE DEF approaches
  <2>4. Cardinality(approaches) <= Cardinality(Unexcused) /\ Cardinality(approaches) \in Nat
    BY <2>1, <2>2, FS_Subset, FS_CardinalityType
  <2>5. Cardinality(approaches) <= DockAttempts
    BY <2>2, <2>3, <2>4, AttemptsAssumption
  <2> QED BY <2>5 DEF ApproachesBounded, approaches
<1> QED BY <1>1, DInvariance, PTL

-----------------------------------------------------------------------------
(* The controller: the inductive invariant.                                 *)
Running == dock_phase \notin {"idle", "succeeded", "failed"}

ControllerTypes ==
  /\ active \in BOOLEAN /\ pending_obs \in Markers \cup {NoMarker}
  /\ dock_phase \in DockPhases /\ attempt \in 0..MaxAttempts
  /\ spent \in 0..(AttemptTimeout + 1) /\ waited \in 0..(SearchTimeout + BackupSteps)
  /\ settle_count \in 0..SettleFrames /\ lateral_stall_count \in 0..(2 * SettleFrames)
  /\ arrived \in BOOLEAN /\ heading_arrived \in BOOLEAN
  /\ age \in Ages(MarkerTimeout) /\ tracked \in Markers \cup {NoMarker}
  /\ cmd \in {"stop", "turn", "drive", "reverse"}
  /\ still \in 0..SettleFrames

\* The robot stands for every frame that counts, and is done when they are
\* enough; an attempt that backs up is not the last.
Settling ==
  /\ settle_count <= still
  /\ dock_phase # "succeeded" => settle_count < SettleFrames
  /\ dock_phase = "succeeded" => still = SettleFrames /\ age \in 0..FreshSteps
  /\ dock_phase = "backup" => attempt < MaxAttempts

\* It moves only as long as the controller runs, and drives only by sight.
Commanded ==
  /\ cmd = "drive" => age \in 0..MarkerTimeout
  /\ cmd # "stop" => Running

Controlled == ControllerTypes /\ Settling /\ Commanded /\ active = Running

\* What the executor has found is there until it takes it.
TopicsSound ==
  /\ ids \in Seq(Markers) /\ Len(ids) <= QueueDepth
  /\ poses \in Seq(Markers) /\ Len(poses) <= QueueDepth
  /\ coming \in Markers \cup {NoMarker}
  /\ ready \subseteq {"id", "pose"}
  /\ "id" \in ready => ids # <<>>
  /\ "pose" \in ready => poses # <<>>

Sighted ==
  /\ last_id \in Markers \cup {NoMarker} /\ id_age \in Ages(IdMaxAge)
  /\ expected \in Markers \cup {NoMarker}
  /\ session \in BOOLEAN /\ sight \in Ages(SightTimeout)

KInv == Controlled /\ TopicsSound /\ Sighted

LEMMA KInvMeans == KInv => DockTypeOK /\ BySight
BY DEF KInv, Controlled, ControllerTypes, Settling, Commanded, TopicsSound, Sighted, DockTypeOK,
       BySight, Running

LEMMA OlderType ==
  ASSUME NEW limit \in Nat, NEW a \in Ages(limit)
  PROVE  /\ Older(a, limit) \in Ages(limit)
         /\ a \in 0..(limit + 1) => Older(a, limit) \in 0..(limit + 1)
BY DEF Ages, Older, Never

LEMMA Bounds ==
  /\ {MaxAttempts, SettleFrames, QueueDepth} \subseteq Nat \ {0}
  /\ FreshSteps \in Nat /\ MarkerTimeout \in Nat /\ SearchTimeout \in Nat /\ BackupSteps \in Nat
  /\ AttemptTimeout \in Nat /\ IdMaxAge \in Nat /\ SightTimeout \in Nat
  /\ FreshSteps <= MarkerTimeout
BY StepsAssumption

-----------------------------------------------------------------------------
(* The topics.                                                              *)
LEMMA QueuedType ==
  ASSUME NEW q \in Seq(Markers), Len(q) <= QueueDepth, NEW m \in Markers
  PROVE  Queued(q, m) \in Seq(Markers) /\ Len(Queued(q, m)) <= QueueDepth /\ Queued(q, m) # <<>>
<1>1. QueueDepth \in Nat \ {0} /\ Len(q) \in Nat
  BY Bounds
<1>2. CASE Len(q) < QueueDepth
  BY <1>1, <1>2 DEF Queued
<1>3. CASE Len(q) = QueueDepth
  <2>1. q # <<>> /\ Tail(q) \in Seq(Markers) /\ Len(Tail(q)) = Len(q) - 1
    BY <1>1, <1>3
  <2> QED BY <1>1, <1>3, <2>1 DEF Queued
<1> QED BY <1>1, <1>2, <1>3

LEMMA TopicsKeep ==
  ASSUME KInv, (\E m \in Markers : DetectorId(m)) \/ DetectorPose \/ Wait
  PROVE  KInv'
<1>0. Controlled /\ TopicsSound /\ Sighted
  BY DEF KInv
<1>a. UNCHANGED <<sighting, expected, active, pending_obs, session, controller, cmd>>
  BY DEF DetectorId, DetectorPose, Wait, sighting
<1>1. Controlled' /\ Sighted'
  BY <1>0, <1>a DEF Controlled, ControllerTypes, Settling, Commanded, Running, Sighted, sighting,
                    controller, judging
<1>2. TopicsSound'
  <2>1. ASSUME NEW m \in Markers, DetectorId(m)
        PROVE  TopicsSound'
    BY <1>0, <2>1, QueuedType DEF TopicsSound, DetectorId
  <2>2. CASE DetectorPose
    <3>1. coming \in Markers
      BY <1>0, <2>2 DEF TopicsSound, DetectorPose
    <3> QED BY <1>0, <2>2, <3>1, QueuedType DEF TopicsSound, DetectorPose
  <2>3. CASE Wait
    BY <1>0, <2>3 DEF TopicsSound, Wait
  <2> QED BY <2>1, <2>2, <2>3
<1> QED BY <1>1, <1>2 DEF KInv

LEMMA OnMarkerIdKeeps ==
  ASSUME KInv, OnMarkerId
  PROVE  KInv'
<1>0. Controlled /\ TopicsSound /\ Sighted
  BY DEF KInv
<1>1. ids # <<>> /\ Tail(ids) \in Seq(Markers) /\ Len(Tail(ids)) <= QueueDepth /\ Head(ids) \in Markers
  BY <1>0, Bounds DEF OnMarkerId, TopicsSound
<1>2. Controlled'
  BY <1>0 DEF OnMarkerId, Controlled, ControllerTypes, Settling, Commanded, Running, controller, judging
<1>3. TopicsSound'
  BY <1>0, <1>1 DEF OnMarkerId, TopicsSound
<1>4. Sighted'
  BY <1>0, <1>1, Bounds DEF OnMarkerId, Sighted, Ages
<1> QED BY <1>2, <1>3, <1>4 DEF KInv

LEMMA OnMarkerKeeps ==
  ASSUME KInv, OnMarker
  PROVE  KInv'
<1>0. Controlled /\ TopicsSound /\ Sighted
  BY DEF KInv
<1>1. poses # <<>> /\ Tail(poses) \in Seq(Markers) /\ Len(Tail(poses)) <= QueueDepth
      /\ Head(poses) \in Markers /\ ready' = ready \ {"pose"} /\ "id" \notin ready
  BY <1>0, Bounds DEF OnMarker, TopicsSound, PoseTurn
<1>2. pending_obs' \in Markers \cup {NoMarker} /\ (sight' = sight \/ sight' = 0)
  BY <1>0, <1>1 DEF OnMarker, Controlled, ControllerTypes
<1>3. Controlled'
  BY <1>0, <1>2 DEF OnMarker, Controlled, ControllerTypes, Settling, Commanded, Running, controller, judging
<1>4. TopicsSound'
  BY <1>0, <1>1 DEF OnMarker, TopicsSound
<1>5. Sighted'
  BY <1>0, <1>2, Bounds DEF OnMarker, Sighted, Ages
<1> QED BY <1>3, <1>4, <1>5 DEF KInv

LEMMA StartKeeps ==
  ASSUME KInv, NEW m \in Markers, Start(m)
  PROVE  KInv'
<1>0. Controlled /\ TopicsSound /\ Sighted
  BY DEF KInv
<1>1. Controlled'
  <2>1. /\ 0 \in 0..SettleFrames /\ 0 \in 0..(2 * SettleFrames) /\ 0 < SettleFrames
        /\ 0 \in 0..(SearchTimeout + BackupSteps) /\ 0 \in 0..(AttemptTimeout + 1)
        /\ 1 \in 0..MaxAttempts /\ Never \in Ages(MarkerTimeout)
    BY Bounds DEF Ages
  <2>2. /\ active' = TRUE /\ pending_obs' = NoMarker /\ dock_phase' = "search" /\ waited' = 0
        /\ attempt' = 1 /\ spent' = 0 /\ settle_count' = 0 /\ lateral_stall_count' = 0
        /\ arrived' = FALSE /\ heading_arrived' = FALSE /\ still' = 0
        /\ age' = Never /\ tracked' = NoMarker /\ cmd' = "stop"
    BY DEF Start, Enter
  <2>3. ControllerTypes'
    BY <2>1, <2>2 DEF ControllerTypes, DockPhases
  <2>4. Settling' /\ Commanded'
    BY <2>1, <2>2 DEF Settling, Commanded
  <2>5. active' = Running'
    BY <2>2 DEF Running
  <2> QED BY <2>3, <2>4, <2>5 DEF Controlled
<1>2. TopicsSound' /\ Sighted'
  BY <1>0 DEF Start, TopicsSound, Sighted, topics, sighting
<1> QED BY <1>1, <1>2 DEF KInv

-----------------------------------------------------------------------------
(* DockingController.update.  Finished is what goalStep makes of it.        *)
Finished == active' = (dock_phase' \notin {"succeeded", "failed"})

LEMMA FailAttemptKeeps ==
  ASSUME Controlled, active, FailAttempt, Finished,
         pending_obs' \in Markers \cup {NoMarker}, spent' \in 0..(AttemptTimeout + 1),
         age' \in Ages(MarkerTimeout), tracked' \in Markers \cup {NoMarker}
  PROVE  Controlled'
<1>1. ControllerTypes'
  <2>1. /\ 0 \in 0..SettleFrames /\ 0 \in 0..(2 * SettleFrames)
        /\ 0 \in 0..(SearchTimeout + BackupSteps)
    BY Bounds
  <2>2. /\ waited' = 0 /\ settle_count' = 0 /\ lateral_stall_count' = 0 /\ still' = 0
        /\ arrived' = FALSE /\ heading_arrived' = FALSE /\ cmd' = "stop" /\ attempt' = attempt
        /\ dock_phase' \in DockPhases
    BY DEF FailAttempt, Enter, DockPhases
  <2> QED BY <2>1, <2>2 DEF Controlled, ControllerTypes, Finished
<1>2. Settling' /\ Commanded' /\ active' = Running'
  BY Bounds DEF FailAttempt, Enter, Retries, Settling, Commanded, Running, Finished
<1> QED BY <1>1, <1>2 DEF Controlled

LEMMA MinOfTwo ==
  ASSUME NEW a \in Int, NEW b \in Int
  PROVE  Min({a, b}) = IF a <= b THEN a ELSE b
<1>1. \E x \in {a, b} : \A y \in {a, b} : x <= y
  OBVIOUS
<1>2. Min({a, b}) \in {a, b} /\ \A y \in {a, b} : Min({a, b}) <= y
  BY <1>1 DEF Min
<1> QED BY <1>2

LEMMA ServoKeeps ==
  ASSUME Controlled, active, dock_phase # "backup", ~MarkerLost, Finished,
         NEW dist \in {"far", "near", "edge", "at", "past"}, NEW lateral \in {"on", "off"},
         NEW heading \in {"on", "band", "off"}, Servo(dist, lateral, heading),
         pending_obs' \in Markers \cup {NoMarker}, spent' \in 0..(AttemptTimeout + 1),
         age' = AgeNow, tracked' \in Markers \cup {NoMarker}
  PROVE  Controlled'
<1> DEFINE there == dist = "at" \/ (dist = "edge" /\ arrived)
           turned == there /\ (heading = "on" \/ (heading = "band" /\ heading_arrived))
           stalled == there /\ lateral = "off" /\ lateral_stall_count = 2 * SettleFrames
<1>0. ControllerTypes /\ Settling /\ Running /\ dock_phase # "succeeded"
  BY DEF Controlled, Running
<1>1. age' \in 0..MarkerTimeout /\ age' \in Ages(MarkerTimeout)
  BY Bounds DEF MarkerLost, Ages
<1>2. CASE dist = "past" \/ stalled
  BY <1>1, <1>2, FailAttemptKeeps DEF Servo
<1>3. CASE ~(dist = "past" \/ stalled)
  <2>0. /\ arrived' = there /\ heading_arrived' = turned /\ waited' = 0 /\ UNCHANGED attempt
        /\ CASE turned /\ lateral = "on" -> Settle
             [] dist = "far" -> Approach(heading)
             [] OTHER -> Final(there, lateral)
    BY <1>3 DEF Servo
  <2>1. arrived' \in BOOLEAN /\ heading_arrived' \in BOOLEAN
        /\ waited' \in 0..(SearchTimeout + BackupSteps) /\ attempt' \in 0..MaxAttempts
    BY <1>0, <2>0, Bounds DEF ControllerTypes
  <2>a. dist = "far" => ~there
    OBVIOUS
  <2>2. CASE Settle
    <3>1. /\ settle_count \in Nat /\ settle_count < SettleFrames /\ still \in 0..SettleFrames
          /\ settle_count <= still /\ SettleFrames \in Nat \ {0}
      BY <1>0, Bounds DEF ControllerTypes, Settling
    <3>2. still' = IF still + 1 <= SettleFrames THEN still + 1 ELSE SettleFrames
      <4>1. still' = Min({still + 1, SettleFrames})
        BY <2>2 DEF Settle
      <4>2. still + 1 \in Int /\ SettleFrames \in Int
        BY <3>1
      <4> QED BY <4>1, <4>2, MinOfTwo
    <3>3. /\ \/ Seen /\ settle_count' = settle_count + 1
             \/ ~Seen /\ settle_count' = settle_count
          /\ lateral_stall_count' = 0 /\ cmd' = "stop"
          /\ dock_phase' = IF settle_count' >= SettleFrames THEN "succeeded" ELSE "final"
      BY <2>2, <3>1 DEF Settle
    <3>4. settle_count' \in 0..SettleFrames /\ still' \in 0..SettleFrames /\ settle_count' <= still'
      BY <3>1, <3>2, <3>3
    <3>5. dock_phase' = "succeeded" => still' = SettleFrames /\ age' \in 0..FreshSteps
      <4>1. Seen => age' \in 0..FreshSteps
        BY <1>1, Bounds DEF Seen
      <4> QED BY <3>1, <3>2, <3>3, <4>1
    <3>6. dock_phase' # "succeeded" => settle_count' < SettleFrames
      BY <3>1, <3>3, <3>4
    <3>7. ControllerTypes'
      BY <1>1, <2>1, <3>1, <3>3, <3>4 DEF ControllerTypes, DockPhases, Finished
    <3>8. Settling' /\ Commanded' /\ active' = Running'
      BY <3>3, <3>4, <3>5, <3>6 DEF Settling, Commanded, Running, Finished
    <3> QED BY <3>7, <3>8 DEF Controlled
  <2>3. CASE Approach(heading) \/ Final(there, lateral)
    <3>1. /\ dock_phase' \in {"align", "approach", "final"} /\ settle_count' = 0 /\ still' = 0
          /\ cmd' \in {"turn", "drive"}
      BY <2>3 DEF Approach, Final, Moves, Unsettled
    <3>2. lateral_stall_count' \in 0..(2 * SettleFrames)
      <4>1. lateral_stall_count \in 0..(2 * SettleFrames) /\ SettleFrames \in Nat
        BY <1>0, Bounds DEF ControllerTypes
      <4>2. CASE Approach(heading)
        BY <4>1, <4>2 DEF Approach
      <4>3. CASE Final(there, lateral)
        BY <1>3, <4>1, <4>3 DEF Final
      <4> QED BY <2>3, <4>2, <4>3
    <3>3. ControllerTypes'
      BY <1>1, <2>1, <3>1, <3>2, Bounds DEF ControllerTypes, DockPhases, Finished
    <3>4. Settling' /\ Commanded' /\ active' = Running'
      BY <1>1, <3>1, Bounds DEF Settling, Commanded, Running, Finished
    <3> QED BY <3>3, <3>4 DEF Controlled
  <2> QED BY <2>0, <2>2, <2>3
<1> QED BY <1>2, <1>3

LEMMA UpdateKeeps ==
  ASSUME Controlled, active, Update, Finished
  PROVE  Controlled'
<1>0. ControllerTypes /\ Settling /\ Running /\ Commanded
  BY DEF Controlled
<1>1. pending_obs' \in Markers \cup {NoMarker} /\ tracked' \in Markers \cup {NoMarker}
  BY <1>0 DEF Update, ControllerTypes
<1>2. age' = AgeNow /\ age' \in Ages(MarkerTimeout)
  <2>1. 0 \in Ages(MarkerTimeout)
    BY Bounds DEF Ages
  <2> QED BY <1>0, <2>1, OlderType, Bounds DEF Update, AgeNow, ControllerTypes
<1>3. spent' \in 0..(AttemptTimeout + 1)
  <2>1. Older(spent, AttemptTimeout) \in 0..(AttemptTimeout + 1)
    BY <1>0, Bounds DEF ControllerTypes, Older, Never
  <2> QED BY <2>1, Bounds DEF Update
<1>4. CASE dock_phase = "backup"
  <2>0. BackUp
    BY <1>4 DEF Update
  <2>1. /\ settle_count' = settle_count /\ still' = still
        /\ lateral_stall_count' = lateral_stall_count /\ arrived' = arrived
        /\ heading_arrived' = heading_arrived
        /\ settle_count < SettleFrames /\ attempt < MaxAttempts /\ waited \in Nat
        /\ attempt \in 0..MaxAttempts
    BY <1>0, <1>4, <2>0, Bounds DEF BackUp, judging, Settling, ControllerTypes
  <2>2. \/ /\ waited' = waited + 1 /\ waited + 1 < BackupSteps /\ cmd' = "reverse"
           /\ dock_phase' = "backup" /\ attempt' = attempt
        \/ /\ waited' = 0 /\ cmd' = "stop" /\ dock_phase' = "search" /\ attempt' = attempt + 1
    BY <1>4, <2>0 DEF BackUp, Enter
  <2>3. waited' \in 0..(SearchTimeout + BackupSteps) /\ attempt' \in 0..MaxAttempts
    BY <2>1, <2>2, Bounds
  <2>4. ControllerTypes'
    BY <1>0, <1>1, <1>2, <1>3, <2>1, <2>2, <2>3 DEF ControllerTypes, DockPhases, Finished
  <2>5. Settling' /\ Commanded' /\ active' = Running'
    BY <1>0, <2>1, <2>2 DEF Settling, Commanded, Running, Finished
  <2> QED BY <2>4, <2>5 DEF Controlled
<1>5. CASE dock_phase # "backup" /\ FailAttempt
  BY <1>1, <1>2, <1>3, <1>5, FailAttemptKeeps
<1>6. CASE dock_phase = "search" /\ Search
  <2>1. CASE waited >= SearchTimeout
    BY <1>5, <1>6, <2>1 DEF Search
  <2>2. CASE ~(waited >= SearchTimeout)
    <3>1. /\ waited' = waited + 1 /\ cmd' = "turn" /\ dock_phase' = "search" /\ attempt' = attempt
          /\ UNCHANGED judging
      BY <1>6, <2>2 DEF Search
    <3>2. waited' \in 0..(SearchTimeout + BackupSteps)
      BY <1>0, <2>2, <3>1, Bounds DEF ControllerTypes
    <3>3. ControllerTypes'
      BY <1>0, <1>1, <1>2, <1>3, <3>1, <3>2 DEF ControllerTypes, DockPhases, judging, Finished
    <3>4. Settling' /\ Commanded' /\ active' = Running'
      BY <1>0, <1>6, <3>1 DEF Settling, Commanded, Running, Finished, judging
    <3> QED BY <3>3, <3>4 DEF Controlled
  <2> QED BY <2>1, <2>2
<1>7. ASSUME dock_phase # "backup", ~MarkerLost,
             NEW dist \in {"far", "near", "edge", "at", "past"}, NEW lateral \in {"on", "off"},
             NEW heading \in {"on", "band", "off"}, Servo(dist, lateral, heading)
      PROVE  Controlled'
  BY <1>1, <1>2, <1>3, <1>7, ServoKeeps
<1>8. CASE dock_phase # "backup"
  <2>1. \/ FailAttempt
        \/ dock_phase = "search" /\ Search
        \/ ~MarkerLost /\ \E dist \in {"far", "near", "edge", "at", "past"},
                             lateral \in {"on", "off"}, heading \in {"on", "band", "off"} :
                            Servo(dist, lateral, heading)
    BY <1>8 DEF Update
  <2> QED BY <1>5, <1>6, <1>7, <1>8, <2>1
<1> QED BY <1>4, <1>8

LEMMA ControlStepKeeps ==
  ASSUME KInv, NEW cancel \in BOOLEAN, NEW left \in BOOLEAN, ControlStep(cancel, left)
  PROVE  KInv'
<1>0. Controlled /\ TopicsSound /\ Sighted
  BY DEF KInv
<1>1. Controlled'
  <2>1. CASE ~active
    BY <1>0, <2>1 DEF ControlStep, GoalStep, Controlled, ControllerTypes, Settling, Commanded, Running,
                      controller, judging
  <2>2. CASE active /\ ~cancel
    BY <1>0, <2>2, UpdateKeeps DEF ControlStep, GoalStep, Finished
  <2>3. CASE active /\ cancel
    <3>1. /\ dock_phase' = "failed" /\ cmd' = "stop" /\ active' = FALSE
          /\ UNCHANGED <<pending_obs, attempt, spent, waited, judging, age, tracked>>
      BY <2>3 DEF ControlStep, GoalStep, GoalCanceled
    <3>2. settle_count < SettleFrames
      BY <1>0, <2>3 DEF Controlled, Settling, Running
    <3> QED BY <1>0, <3>1, <3>2
    DEF Controlled, ControllerTypes, DockPhases, Settling, Commanded, Running, judging
  <2> QED BY <2>1, <2>2, <2>3
<1>2. TopicsSound'
  BY <1>0 DEF ControlStep, TopicsSound, topics
<1>3. Sighted'
  <2>1. session' \in BOOLEAN /\ expected' = expected /\ last_id' = last_id
    BY <1>0 DEF ControlStep, ExclusionStep, Sighted
  <2>2. sight' \in Ages(SightTimeout)
    <3>1. Never \in Ages(SightTimeout)
      BY DEF Ages
    <3>2. Older(sight, SightTimeout) \in Ages(SightTimeout)
      BY <1>0, OlderType, Bounds DEF Sighted
    <3> QED BY <3>1, <3>2 DEF ControlStep, ExclusionStep
  <2>3. id_age' \in Ages(IdMaxAge)
    BY <1>0, OlderType, Bounds DEF ControlStep, Sighted
  <2> QED BY <1>0, <2>1, <2>2, <2>3 DEF Sighted
<1> QED BY <1>1, <1>2, <1>3 DEF KInv

LEMMA DockInitially == DockInit => KInv
<1> SUFFICES ASSUME DockInit
             PROVE  KInv
  OBVIOUS
<1>1. /\ 0 \in 0..SettleFrames /\ 0 \in 0..(2 * SettleFrames) /\ 0 < SettleFrames
      /\ 0 \in 0..(SearchTimeout + BackupSteps) /\ 0 \in 0..(AttemptTimeout + 1)
      /\ 0 \in 0..MaxAttempts /\ QueueDepth >= 0
      /\ Never \in Ages(MarkerTimeout) /\ Never \in Ages(IdMaxAge) /\ Never \in Ages(SightTimeout)
  BY Bounds DEF Ages
<1>2. Controlled
  <2>1. ControllerTypes
    BY <1>1 DEF DockInit, ControllerTypes, DockPhases
  <2>2. Settling /\ Commanded
    BY <1>1 DEF DockInit, Settling, Commanded
  <2>3. active = Running
    BY DEF DockInit, Running
  <2> QED BY <2>1, <2>2, <2>3 DEF Controlled
<1>3. TopicsSound
  <2>1. <<>> \in Seq(Markers) /\ Len(<<>>) = 0
    OBVIOUS
  <2> QED BY <1>1, <2>1 DEF DockInit, TopicsSound
<1>4. Sighted
  BY <1>1 DEF DockInit, Sighted
<1> QED BY <1>2, <1>3, <1>4 DEF KInv

LEMMA DockSteps == KInv /\ [DockNext]_dockvars => KInv'
<1> SUFFICES ASSUME KInv, [DockNext]_dockvars
             PROVE  KInv'
  OBVIOUS
<1>1. ASSUME NEW m \in Markers, DetectorId(m) \/ Start(m)
      PROVE  KInv'
  BY <1>1, TopicsKeep, StartKeeps
<1>2. CASE DetectorPose \/ Callback
  BY <1>2, TopicsKeep, OnMarkerIdKeeps, OnMarkerKeeps DEF Callback
<1>3. ASSUME NEW cancel \in BOOLEAN, NEW left \in BOOLEAN, ControlStep(cancel, left)
      PROVE  KInv'
  BY <1>3, ControlStepKeeps
<1>4. CASE UNCHANGED dockvars
  BY <1>4 DEF dockvars, topics, sighting, controller, judging, KInv, Controlled, ControllerTypes,
              Settling, Commanded, Running, TopicsSound, Sighted
<1> QED BY <1>1, <1>2, <1>3, <1>4 DEF DockNext

(* The inductive invariant holds in every state of the docking server.      *)
THEOREM KInvariance == DockSpec => []KInv
BY DockInitially, DockSteps, PTL DEF DockSpec

(* The docking server keeps its types: attempts never exceed their number,  *)
(* and no counter of the controller leaves its bounds.                      *)
THEOREM DockTypeCorrect == DockSpec => []DockTypeOK
<1>1. KInv => DockTypeOK
  BY KInvMeans
<1> QED BY <1>1, KInvariance, PTL

(* Whatever the detector sends and whenever, the controller succeeds only   *)
(* after the robot stood for settle_frames steps in a row and saw the       *)
(* marker just now, it drives only by a marker it saw less than             *)
(* marker_timeout ago, and the robot is told to stop however a goal ends.   *)
THEOREM DocksBySight == DockSpec => []BySight
<1>1. KInv => BySight
  BY KInvMeans
<1> QED BY <1>1, KInvariance, PTL

-----------------------------------------------------------------------------
(* The steps a goal has left.                                               *)

\* An attempt that runs has been counted and has time; one that backs up has
\* steps back to take.
Timed ==
  active =>
    /\ attempt >= 1
    /\ dock_phase = "backup" => waited < BackingSteps
    /\ dock_phase # "backup" => spent <= AttemptTimeout

\* What a control step of a goal that goes on does to the clock: a step back,
\* the next attempt, a failed attempt, or a step of this one.
StepsBack == dock_phase = "backup" /\ dock_phase' = "backup" /\ waited' = waited + 1
             /\ waited' < BackingSteps /\ attempt' = attempt
NextAttempt == dock_phase = "backup" /\ dock_phase' = "search" /\ waited + 1 >= BackingSteps
               /\ attempt' = attempt + 1 /\ spent' = 0
AttemptOver == dock_phase # "backup" /\ dock_phase' = "backup" /\ waited' = 0 /\ attempt' = attempt
GoesOn == dock_phase # "backup" /\ dock_phase' # "backup" /\ attempt' = attempt
          /\ spent < AttemptTimeout /\ spent' = spent + 1

LEMMA ClockBounds ==
  /\ MaxAttempts \in Nat \ {0} /\ AttemptTimeout \in Nat /\ BackupSteps \in Nat
  /\ BackingSteps \in Nat \ {0} /\ BackingSteps >= BackupSteps
  /\ (BackupSteps # 0 => BackingSteps = BackupSteps) /\ (BackupSteps = 0 => BackingSteps = 1)
BY Bounds DEF BackingSteps

(* The phases of an update.                                                 *)
LEMMA UpdateOnClock ==
  ASSUME Controlled, Timed, active, Update, dock_phase' \notin {"succeeded", "failed"}
  PROVE  StepsBack \/ NextAttempt \/ AttemptOver \/ GoesOn
<1>0. /\ attempt \in 0..MaxAttempts /\ spent \in 0..(AttemptTimeout + 1) /\ waited \in Nat
  BY Bounds DEF Controlled, ControllerTypes
<1>1. CASE dock_phase = "backup"
  <2>1. BackUp
    BY <1>1 DEF Update
  <2>2. CASE waited + 1 < BackupSteps
    BY <1>0, <1>1, <2>1, <2>2, ClockBounds DEF BackUp, StepsBack
  <2>3. CASE ~(waited + 1 < BackupSteps)
    <3>1. spent' = 0
      BY <1>0, <1>1, <2>3, ClockBounds DEF Update
    <3>2. waited + 1 >= BackingSteps
      BY <1>0, <2>3, ClockBounds
    <3> QED BY <1>1, <2>1, <2>3, <3>1, <3>2 DEF BackUp, Enter, NextAttempt
  <2> QED BY <2>2, <2>3
<1>2. CASE dock_phase # "backup" /\ FailAttempt
  BY <1>2 DEF FailAttempt, Enter, AttemptOver
<1>3. CASE dock_phase # "backup" /\ ~FailAttempt
  <2>1. /\ ~TimeUp
        /\ \/ dock_phase = "search" /\ Search
           \/ \E dist \in {"far", "near", "edge", "at", "past"},
                 lateral \in {"on", "off"}, heading \in {"on", "band", "off"} :
                Servo(dist, lateral, heading)
    BY <1>3 DEF Update
  <2>2. spent < AttemptTimeout /\ spent' = spent + 1
    BY <1>0, <1>3, <2>1, ClockBounds DEF Update, TimeUp, Older, Never
  <2>3. dock_phase' # "backup" /\ attempt' = attempt
    <3>1. CASE dock_phase = "search" /\ Search
      BY <1>3, <3>1 DEF Search
    <3>2. ASSUME NEW dist \in {"far", "near", "edge", "at", "past"}, NEW lateral \in {"on", "off"},
                 NEW heading \in {"on", "band", "off"}, Servo(dist, lateral, heading)
          PROVE  dock_phase' # "backup" /\ attempt' = attempt
      BY <1>3, <3>2 DEF Servo, Settle, Approach, Final
    <3> QED BY <2>1, <3>1, <3>2
  <2> QED BY <1>3, <2>2, <2>3 DEF GoesOn
<1> QED BY <1>1, <1>2, <1>3

(* A control step of a goal that goes on keeps the clock and takes a step.  *)
LEMMA StepTaken ==
  ASSUME KInv, Timed, active, active', NEW cancel \in BOOLEAN, NEW left \in BOOLEAN,
         ControlStep(cancel, left)
  PROVE  Timed' /\ StepsLeft' < StepsLeft
<1>0. Controlled
  BY DEF KInv
<1>1. Update /\ dock_phase' \notin {"succeeded", "failed"}
  BY DEF ControlStep, GoalStep, GoalCanceled
<1>2. StepsBack \/ NextAttempt \/ AttemptOver \/ GoesOn
  BY <1>0, <1>1, UpdateOnClock
<1>3. /\ attempt \in Nat /\ attempt >= 1 /\ spent \in Nat /\ waited \in Nat
      /\ dock_phase # "backup" => spent <= AttemptTimeout
      /\ dock_phase = "backup" => waited < BackingSteps
  BY <1>0, Bounds DEF Controlled, ControllerTypes, Timed
<1>4. Timed'
  BY <1>2, <1>3, ClockBounds DEF Timed, StepsBack, NextAttempt, AttemptOver, GoesOn, BackingSteps
<1>5. AttemptSteps = AttemptTimeout + 1 + BackingSteps /\ AttemptSteps \in Nat
  BY ClockBounds DEF AttemptSteps, BackingSteps
<1>6. (MaxAttempts - (attempt + 1)) * AttemptSteps = (MaxAttempts - attempt) * AttemptSteps - AttemptSteps
  BY <1>3, <1>5, ClockBounds
<1>7. (MaxAttempts - attempt) * AttemptSteps \in Int
  BY <1>3, <1>5, ClockBounds
<1>8. /\ dock_phase = "backup" => StepsLeft = (MaxAttempts - attempt) * AttemptSteps - waited
      /\ dock_phase # "backup" =>
           StepsLeft = (MaxAttempts - attempt) * AttemptSteps + AttemptTimeout + 1 - spent
  BY <1>3, <1>7, ClockBounds DEF StepsLeft
<1>9. AttemptSteps' = AttemptSteps
  BY DEF AttemptSteps, BackingSteps
<1>10. CASE StepsBack
  <2>1. StepsLeft' = (MaxAttempts - attempt) * AttemptSteps - (waited + 1)
    BY <1>3, <1>7, <1>9, <1>10 DEF StepsLeft, StepsBack
  <2> QED BY <1>3, <1>4, <1>7, <1>8, <1>10, <2>1 DEF StepsBack
<1>11. CASE NextAttempt
  <2>1. StepsLeft' = (MaxAttempts - (attempt + 1)) * AttemptSteps + AttemptTimeout + 1
    BY <1>3, <1>5, <1>6, <1>7, <1>9, <1>11, ClockBounds DEF StepsLeft, NextAttempt
  <2> QED BY <1>3, <1>4, <1>5, <1>6, <1>7, <1>8, <1>11, <2>1, ClockBounds DEF NextAttempt
<1>12. CASE AttemptOver
  <2>1. StepsLeft' = (MaxAttempts - attempt) * AttemptSteps
    BY <1>7, <1>9, <1>12 DEF StepsLeft, AttemptOver
  <2> QED BY <1>3, <1>4, <1>7, <1>8, <1>12, <2>1, ClockBounds DEF AttemptOver
<1>13. CASE GoesOn
  <2>1. StepsLeft' = (MaxAttempts - attempt) * AttemptSteps + AttemptTimeout + 1 - (spent + 1)
    BY <1>3, <1>7, <1>9, <1>13, ClockBounds DEF StepsLeft, GoesOn
  <2> QED BY <1>3, <1>4, <1>7, <1>8, <1>13, <2>1, ClockBounds DEF GoesOn
<1> QED BY <1>2, <1>10, <1>11, <1>12, <1>13

(* The other steps leave the clock alone, or start a goal.                  *)
LEMMA ClockKept ==
  ASSUME UNCHANGED <<active, dock_phase, attempt, spent, waited>>
  PROVE  Timed' = Timed /\ StepsLeft' = StepsLeft
BY DEF Timed, StepsLeft, AttemptSteps, BackingSteps

LEMMA ClockSteps ==
  ASSUME KInv, Timed, [DockNext]_dockvars
  PROVE  /\ Timed'
         /\ active /\ active' =>
              /\ (\E cancel, left \in BOOLEAN : ControlStep(cancel, left)) => StepsLeft' < StepsLeft
              /\ StepsLeft' <= StepsLeft \/ \E m \in Markers : Start(m)
<1>1. StepsLeft \in Int
  <2>1. /\ attempt \in Int /\ spent \in Int /\ waited \in Int /\ AttemptSteps \in Int
    BY Bounds, ClockBounds DEF KInv, Controlled, ControllerTypes, AttemptSteps
  <2>2. (MaxAttempts - attempt) * AttemptSteps \in Int
    BY <2>1, ClockBounds
  <2> QED BY <2>1, <2>2, ClockBounds DEF StepsLeft
<1>2. ASSUME NEW cancel \in BOOLEAN, NEW left \in BOOLEAN, ControlStep(cancel, left)
      PROVE  /\ Timed'
             /\ active /\ active' => StepsLeft' < StepsLeft /\ StepsLeft' <= StepsLeft
  <2>1. CASE active /\ active'
    <3>1. Timed' /\ StepsLeft' < StepsLeft
      BY <1>2, <2>1, StepTaken
    <3>2. StepsLeft' \in Int
      <4>1. KInv'
        BY <1>2, ControlStepKeeps
      <4>2. attempt' \in Int /\ spent' \in Int /\ waited' \in Int /\ AttemptSteps \in Int
        BY <4>1, Bounds, ClockBounds DEF KInv, Controlled, ControllerTypes, AttemptSteps
      <4>3. (MaxAttempts - attempt') * AttemptSteps \in Int
        BY <4>2, ClockBounds
      <4> QED BY <4>2, <4>3, ClockBounds DEF StepsLeft, AttemptSteps, BackingSteps
    <3> QED BY <1>1, <3>1, <3>2
  <2>2. CASE ~active'
    BY <2>2 DEF Timed
  <2>3. CASE ~active /\ active'
    BY <1>2, <2>3 DEF ControlStep, GoalStep
  <2> QED BY <2>1, <2>2, <2>3
<1>3. ASSUME NEW m \in Markers, Start(m)
      PROVE  Timed'
  BY <1>3, ClockBounds DEF Start, Enter, Timed
<1>4. CASE (\E m \in Markers : DetectorId(m)) \/ DetectorPose \/ Callback \/ UNCHANGED dockvars
  <2>1. UNCHANGED <<active, dock_phase, attempt, spent, waited>>
    BY <1>4 DEF DetectorId, DetectorPose, Callback, Wait, OnMarkerId, OnMarker, dockvars, controller
  <2>2. Timed' /\ StepsLeft' = StepsLeft
    BY <2>1, ClockKept
  <2>3. active /\ active' => ~\E cancel, left \in BOOLEAN : ControlStep(cancel, left)
    <3> SUFFICES ASSUME active, active', NEW cancel \in BOOLEAN, NEW left \in BOOLEAN,
                        ControlStep(cancel, left)
                 PROVE  FALSE
      OBVIOUS
    <3>1. StepsLeft' < StepsLeft
      BY StepTaken
    <3> QED BY <1>1, <2>2, <3>1
  <2> QED BY <1>1, <2>2, <2>3
<1>5. ASSUME NEW m \in Markers, Start(m), active, active',
             NEW cancel \in BOOLEAN, NEW left \in BOOLEAN, ControlStep(cancel, left)
      PROVE  StepsLeft' < StepsLeft
  BY <1>5, StepTaken
<1> QED BY <1>2, <1>3, <1>4, <1>5 DEF DockNext

(* Whatever is seen of the markers and when, the control steps a running    *)
(* goal has left are at least one and at most those of MaxAttempts attempts *)
(* with the ways back between them, every control step takes from them, and *)
(* only another goal adds to them: a goal ends by its own clock.            *)
THEOREM GoalsRunOut == DockSpec => StepsRunOut
<1>1. DockInit => Timed
  BY DEF DockInit, Timed
<1>2. KInv /\ Timed /\ [DockNext]_dockvars => Timed'
  BY ClockSteps
<1>3. KInv /\ Timed => (active => StepsLeft \in 1..(MaxAttempts * AttemptSteps - BackingSteps))
  <2> SUFFICES ASSUME KInv, Timed, active
               PROVE  StepsLeft \in 1..(MaxAttempts * AttemptSteps - BackingSteps)
    OBVIOUS
  <2>1. /\ attempt \in Nat /\ 1 <= attempt /\ attempt <= MaxAttempts
        /\ spent \in Nat /\ waited \in Nat
        /\ dock_phase = "backup" => attempt < MaxAttempts /\ waited < BackingSteps
        /\ dock_phase # "backup" => spent <= AttemptTimeout
    BY Bounds DEF KInv, Controlled, ControllerTypes, Settling, Timed
  <2>2. AttemptSteps \in Nat /\ AttemptSteps = AttemptTimeout + 1 + BackingSteps
    BY ClockBounds DEF AttemptSteps
  <2>3. (MaxAttempts - attempt) * AttemptSteps \in Int
    BY <2>1, <2>2, ClockBounds
  <2>4. (MaxAttempts - attempt) * AttemptSteps <= (MaxAttempts - 1) * AttemptSteps
    BY <2>1, <2>2, ClockBounds
  <2>5. (MaxAttempts - 1) * AttemptSteps = MaxAttempts * AttemptSteps - AttemptSteps
        /\ MaxAttempts * AttemptSteps \in Int
    BY <2>2, ClockBounds
  <2>6. CASE dock_phase # "backup"
    <3>1. (MaxAttempts - attempt) * AttemptSteps >= 0
      BY <2>1, <2>2, ClockBounds
    <3> QED BY <2>1, <2>2, <2>3, <2>4, <2>5, <2>6, <3>1, ClockBounds DEF StepsLeft
  <2>7. CASE dock_phase = "backup"
    <3>1. (MaxAttempts - attempt) * AttemptSteps >= AttemptSteps
      BY <2>1, <2>2, <2>7, ClockBounds
    <3> QED BY <2>1, <2>2, <2>3, <2>4, <2>5, <2>7, <3>1, ClockBounds DEF StepsLeft
  <2> QED BY <2>6, <2>7
<1>4. KInv /\ Timed /\ [DockNext]_dockvars =>
        [active /\ active' =>
          /\ (\E cancel, left \in BOOLEAN : ControlStep(cancel, left)) => StepsLeft' < StepsLeft
          /\ StepsLeft' <= StepsLeft \/ \E m \in Markers : Start(m)]_dockvars
  BY ClockSteps
<1> QED BY <1>1, <1>2, <1>3, <1>4, KInvariance, PTL DEF DockSpec, StepsRunOut

-----------------------------------------------------------------------------
(* One frame at a time: its id comes first and is what wrongMarker goes by  *)
(* when its pose comes.                                                     *)
\* Of the frame of marker m the id, or both, are still to be handled; or the
\* id has been and the pose is to come or to be handled.
Frame(m) ==
  \/ /\ coming = m /\ ids = <<m>> /\ poses = <<>> /\ ready \subseteq {"id"}
  \/ /\ coming = m /\ ids = <<>> /\ poses = <<>> /\ ready = {} /\ last_id = m /\ id_age = 0
  \/ /\ coming = NoMarker /\ ids = <<m>> /\ poses = <<m>> /\ ready \subseteq {"id", "pose"}
     /\ "pose" \in ready => "id" \in ready
  \/ /\ coming = NoMarker /\ ids = <<>> /\ poses = <<m>> /\ ready \subseteq {"pose"}
     /\ last_id = m /\ id_age = 0

OneFrame == Quiet \/ \E m \in Markers : Frame(m)

\* What the controller has of markers is of the dock of its goal.
OwnOnly == pending_obs \in {NoMarker, expected} /\ OwnMarker

FInv == OneFrame /\ OwnOnly

LEMMA QueuedFirst ==
  ASSUME NEW m \in Markers
  PROVE  Queued(<<>>, m) = <<m>>
BY Bounds DEF Queued

LEMMA FrameKeeps ==
  ASSUME OneFrame,
         (Quiet /\ \E m \in Markers : DetectorId(m)) \/ DetectorPose \/ Callback
  PROVE  OneFrame'
<1>1. ASSUME Quiet, NEW m \in Markers, DetectorId(m)
      PROVE  OneFrame'
  <2>1. Frame(m)'
    BY <1>1, QueuedFirst DEF Quiet, DetectorId, Frame
  <2> QED BY <2>1 DEF OneFrame
<1>2. CASE DetectorPose
  <2>1. PICK m \in Markers : Frame(m) /\ coming = m
    BY <1>2, MarkersAssumption DEF DetectorPose, OneFrame, Quiet, Frame
  <2>2. Frame(m)'
    BY <1>2, <2>1, QueuedFirst, MarkersAssumption DEF DetectorPose, Frame, sighting
  <2> QED BY <2>2 DEF OneFrame
<1>3. CASE Wait
  <2>1. PICK m \in Markers : Frame(m)
    BY <1>3 DEF Wait, OneFrame, Quiet
  <2>2. Frame(m)'
    BY <1>3, <2>1 DEF Wait, Frame, sighting
  <2> QED BY <2>2 DEF OneFrame
<1>4. CASE OnMarkerId
  <2>1. PICK m \in Markers : Frame(m)
    BY <1>4 DEF OnMarkerId, OneFrame, Quiet
  <2>2. Head(<<m>>) = m /\ Tail(<<m>>) = <<>>
    OBVIOUS
  <2>3. Frame(m)'
    BY <1>4, <2>1, <2>2 DEF OnMarkerId, Frame
  <2> QED BY <2>3 DEF OneFrame
<1>5. CASE OnMarker
  <2>1. PICK m \in Markers : Frame(m)
    BY <1>5 DEF OnMarker, PoseTurn, OneFrame, Quiet
  <2>2. Tail(<<m>>) = <<>>
    OBVIOUS
  <2>3. /\ coming = NoMarker /\ ids = <<>> /\ poses = <<m>> /\ ready = {"pose"}
    BY <1>5, <2>1 DEF OnMarker, PoseTurn, Frame
  <2>4. Quiet'
    BY <1>5, <2>2, <2>3 DEF OnMarker, Quiet
  <2> QED BY <2>4 DEF OneFrame
<1> QED BY <1>1, <1>2, <1>3, <1>4, <1>5 DEF Callback

(* A pose that is handled is of the marker whose id was handled last.       *)
LEMMA OnMarkerIsOwn ==
  ASSUME FInv, OnMarker
  PROVE  OwnOnly'
<1>1. PICK m \in Markers : Frame(m)
  BY DEF FInv, OnMarker, PoseTurn, OneFrame, Quiet
<1>2. poses = <<m>> /\ last_id = m /\ id_age = 0
  BY <1>1 DEF OnMarker, PoseTurn, Frame
<1>3. Head(poses) = m
  BY <1>2
<1>4. ~WrongMarker => m = expected
  BY <1>2, Bounds DEF WrongMarker, Never
<1>5. pending_obs' \in {NoMarker, expected}
  BY <1>3, <1>4 DEF FInv, OwnOnly, OnMarker
<1> QED BY <1>5 DEF FInv, OwnOnly, OwnMarker, OnMarker, controller

LEMMA FInitially == DockInit => FInv
BY DEF DockInit, FInv, OneFrame, Quiet, OwnOnly, OwnMarker

LEMMA FSteps == FInv /\ [AtOnce]_dockvars => FInv'
<1> SUFFICES ASSUME FInv, [AtOnce]_dockvars
             PROVE  FInv'
  OBVIOUS
<1>1. ASSUME NEW m \in Markers, Start(m)
      PROVE  FInv'
  BY <1>1 DEF Start, topics, sighting, FInv, OneFrame, Quiet, Frame, OwnOnly, OwnMarker
<1>2. CASE (Quiet /\ \E m \in Markers : DetectorId(m)) \/ DetectorPose \/ Wait \/ OnMarkerId
  <2>1. OneFrame'
    BY <1>2, FrameKeeps DEF FInv, Callback
  <2>2. OwnOnly'
    BY <1>2 DEF FInv, OwnOnly, OwnMarker, DetectorId, DetectorPose, Wait, OnMarkerId, controller
  <2> QED BY <2>1, <2>2 DEF FInv
<1>3. CASE OnMarker
  BY <1>3, FrameKeeps, OnMarkerIsOwn DEF FInv, Callback
<1>4. ASSUME Quiet, NEW cancel \in BOOLEAN, NEW left \in BOOLEAN, ControlStep(cancel, left)
      PROVE  FInv'
  <2>1. Quiet'
    BY <1>4 DEF ControlStep, topics, Quiet
  <2>2. expected' = expected
    BY <1>4 DEF ControlStep
  <2>3. pending_obs' \in {NoMarker, expected} /\ tracked' \in {NoMarker, expected}
    <3>1. pending_obs \in {NoMarker, expected} /\ tracked \in {NoMarker, expected}
      BY DEF FInv, OwnOnly, OwnMarker
    <3>2. CASE ~active
      BY <1>4, <3>1, <3>2 DEF ControlStep, GoalStep, controller
    <3>3. CASE active /\ cancel
      BY <1>4, <3>1, <3>3 DEF ControlStep, GoalStep, GoalCanceled
    <3>4. CASE active /\ ~cancel
      BY <1>4, <3>1, <3>4 DEF ControlStep, GoalStep, Update
    <3> QED BY <3>2, <3>3, <3>4
  <2> QED BY <2>1, <2>2, <2>3 DEF FInv, OneFrame, OwnOnly, OwnMarker
<1>5. CASE UNCHANGED dockvars
  BY <1>5 DEF dockvars, topics, sighting, controller, FInv, OneFrame, Quiet, Frame, OwnOnly, OwnMarker
<1> QED BY <1>1, <1>2, <1>3, <1>4, <1>5 DEF AtOnce, DockNext, Callback

(* When every frame is handled before the next event, no pose of a marker   *)
(* of another dock reaches the tracker, for any marker_id_max_age, and      *)
(* goals may come at any time (onMarker, wrongMarker).                      *)
THEOREM DocksByItsOwnMarker == AtOnceSpec => []OwnMarker
<1>1. AtOnceSpec => []FInv
  BY FInitially, FSteps, PTL DEF AtOnceSpec
<1>2. FInv => OwnMarker
  BY DEF FInv, OwnOnly
<1> QED BY <1>1, <1>2, PTL
=============================================================================
