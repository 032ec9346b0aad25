------------------------ MODULE FleetDispatchProofs --------------------------
(***************************************************************************)
(* Proofs about FleetDispatch, for any number of tasks and robots, any     *)
(* link and any faults: typing, the exact queue, agreeing reservations,    *)
(* that every step of the manager is one of the task's lifecycle, that     *)
(* only the robot a task was requested for starts it, that bookings only   *)
(* get closer to their end and that retries are bounded.  With prompt links*)
(* and robots that keep reporting: no task is carried out twice without a  *)
(* failure booked between; and, if nothing is tried again, no robot has    *)
(* two tasks in the books.                                                 *)
(*                                                                         *)
(* Every action changes the records in one of four ways or not at all      *)
(* (RecordStep); queue and lifecycle follow from that alone.  Dispatches   *)
(* change by a clear and by an allocation round, with a lemma for each.    *)
(***************************************************************************)
EXTENDS FleetDispatch, FiniteSetTheorems, TLAPS

Started(t, r) == status[t] = "PENDING" /\ StartTask(t, r)
Failed(t, r) == status[t] \in {"PENDING", "IN_PROGRESS"} /\ FailTask(t, r)
Completed(t) ==
  /\ status[t] = "IN_PROGRESS"
  /\ status' = [status EXCEPT ![t] = "COMPLETED"]
  /\ UNCHANGED <<owner, failures, queue>>

RecordStep ==
  \/ UNCHANGED books
  \/ \E t \in Tasks :
       \/ Admit(t)
       \/ Completed(t)
       \/ \E r \in Robots : Started(t, r) \/ Failed(t, r)

RecordTypes ==
  /\ status \in [Tasks -> {"unknown", "PENDING", "IN_PROGRESS", "COMPLETED", "FAILED"}]
  /\ owner \in [Tasks -> Robots \cup {NoRobot}]
  /\ failures \in [Tasks -> Nat]
  /\ queue \subseteq Tasks

\* A task in progress has a robot.
OwnerKnown == \A t \in Tasks : status[t] = "IN_PROGRESS" => owner[t] \in Robots

Booking == [Tasks -> Dispatches \cup {NoDispatch}]
Reservation == [Robots -> Tasks \cup {NoTask}]

\* ReservationsAgree, of any tables a callback goes through.
Agree(st, inf, res) ==
  /\ \A t \in Tasks :
       inf[t] # NoDispatch => st[t] = "PENDING" /\ res[inf[t].robot] = t
  /\ \A r \in Robots :
       res[r] # NoTask => inf[res[r]] # NoDispatch /\ inf[res[r]].robot = r

-----------------------------------------------------------------------------
(* Records.                                                                 *)

(* Whatever callback runs, the records change as one of the four record     *)
(* operations changes them.                                                 *)
LEMMA EveryStepOfRecords ==
  ASSUME FTypeOK, OwnerKnown, [FNext]_fvars
  PROVE  RecordStep
<1>1. ASSUME NEW t \in Tasks, OnTaskRequest(t) \/ OnAssignTask(t) PROVE RecordStep
  BY <1>1 DEF OnTaskRequest, OnAssignTask, RecordStep
<1>2. ASSUME NEW t \in Tasks, TaskTimeout(t) PROVE RecordStep
  BY <1>2 DEF TaskTimeout, RecordStep, Failed, OwnerKnown
<1>3. ASSUME NEW r \in Robots, OnRobotState(r) PROVE RecordStep
  BY <1>3 DEF OnRobotState, Confirm, RecordStep, Started, MayStartLate
<1>4. ASSUME NEW r \in Robots, OnTaskStatus(r) PROVE RecordStep
  <2> DEFINE m == Head(mail[r])
  <2>1. m.task \in Tasks
    <3>1. mail[r] \in Seq(Mails) /\ mail[r] # <<>>
      BY <1>4 DEF FTypeOK, OnTaskStatus
    <3>2. m \in Mails
      BY <3>1
    <3> QED  BY <3>2 DEF Mails
  <2> HIDE DEF m
  <2>2. CASE RobotStarted(m.task, r, r \in sent[m.task] \/ r = Pin[m.task])
    BY <2>1, <2>2 DEF RobotStarted, Confirm, MayStartLate, RecordStep, Started
  <2>3. CASE Completed(m.task)
    BY <2>1, <2>3 DEF RecordStep
  <2>4. CASE Failed(m.task, r)
    BY <2>1, <2>4 DEF RecordStep
  <2>5. CASE UNCHANGED books
    BY <2>5 DEF RecordStep
  <2> QED  BY <1>4, <2>2, <2>3, <2>4, <2>5 DEF OnTaskStatus, m, Completed, Failed
<1>5. ASSUME NEW p \in responses, OnAssignResponse(p) PROVE RecordStep
  <2>1. p.task \in Tasks /\ p.robot \in Robots
    BY DEF FTypeOK, Answers
  <2> QED
    BY <1>5, <2>1 DEF OnAssignResponse, Confirm, RobotStarted, MayStartLate, RecordStep, Started
<1>6. ASSUME NEW r \in Robots, OnOutboxRelease(r) PROVE RecordStep
  BY <1>6 DEF OnOutboxRelease, RecordStep
<1>7. ASSUME NEW r \in Robots, RobotLost(r) PROVE RecordStep
  <2>1. CASE \E t \in Active(r) : FailTask(t, r)
    BY <2>1 DEF Active, RecordStep, Failed
  <2>2. CASE UNCHANGED books
    BY <2>2 DEF RecordStep
  <2> QED  BY <1>7, <2>1, <2>2 DEF RobotLost
<1>8. CASE OnBatchWindow \/ OnAllocationTimer
  BY <1>8 DEF OnBatchWindow, OnAllocationTimer, RecordStep
<1>9. CASE Environment
  BY <1>9 DEF Environment, DeadlinePasses, BackoffOver, GoesQuiet, Finish, Report, Crash,
              Take, Lose, RecordStep, books
<1>10. CASE UNCHANGED fvars
  BY <1>10 DEF fvars, RecordStep
<1> QED
  BY <1>1, <1>2, <1>3, <1>4, <1>5, <1>6, <1>7, <1>8, <1>9, <1>10 DEF FNext, Manager

(* The record operations keep records typed, the queue exact and every      *)
(* running task with a robot.                                               *)
LEMMA RecordsKept ==
  ASSUME RecordTypes, QueueExact, OwnerKnown, RecordStep
  PROVE  RecordTypes' /\ QueueExact' /\ OwnerKnown'
<1>1. Pin \in [Tasks -> Robots \cup {NoRobot}] /\ NoRobot \notin Robots
  BY ConstantsAssumption
<1>2. CASE UNCHANGED books
  BY <1>2 DEF books, RecordTypes, QueueExact, OwnerKnown
<1>3. ASSUME NEW t \in Tasks, Admit(t) PROVE RecordTypes' /\ QueueExact' /\ OwnerKnown'
  BY <1>1, <1>3 DEF Admit, RecordTypes, QueueExact, OwnerKnown
<1>4. ASSUME NEW t \in Tasks, Completed(t) PROVE RecordTypes' /\ QueueExact' /\ OwnerKnown'
  BY <1>4 DEF Completed, RecordTypes, QueueExact, OwnerKnown
<1>5. ASSUME NEW t \in Tasks, NEW r \in Robots, Started(t, r)
      PROVE  RecordTypes' /\ QueueExact' /\ OwnerKnown'
  BY <1>5 DEF Started, StartTask, RecordTypes, QueueExact, OwnerKnown
<1>6. ASSUME NEW t \in Tasks, NEW r \in Robots, Failed(t, r)
      PROVE  RecordTypes' /\ QueueExact' /\ OwnerKnown'
  BY <1>1, <1>6 DEF Failed, FailTask, RecordTypes, QueueExact, OwnerKnown
<1> QED  BY <1>2, <1>3, <1>4, <1>5, <1>6 DEF RecordStep

-----------------------------------------------------------------------------
(* Dispatches and reservations.                                             *)

(* A dispatch is never the value that stands for none.                      *)
LEMMA DispatchFacts ==
  /\ \A b \in Dispatches : b # NoDispatch /\ b.robot \in Robots
  /\ NoTask \notin Tasks
BY DispatchAssumption, ConstantsAssumption DEF Dispatches

(* What an allocation round does to the two tables: the pairs it books are  *)
(* of different tasks that had no dispatch and different free robots.       *)
LEMMA RoundBooks ==
  ASSUME NEW q, q \subseteq Tasks, NEW inf, NEW res, NEW back, NEW gone,
         NEW box \in [Robots -> Seq(Tasks)],
         Round(q, inf, res, back, gone, box), fresh \subseteq Robots
  PROVE  \E A \in SUBSET (q \X Robots) :
           /\ \A p, o \in A : p # o => p[1] # o[1] /\ p[2] # o[2]
           /\ \A p \in A : inf[p[1]] = NoDispatch /\ res[p[2]] = NoTask
           /\ inflight' = [t \in Tasks |->
                IF \E r \in Robots : <<t, r>> \in A
                  THEN [robot |-> CHOOSE r \in Robots : <<t, r>> \in A,
                        call |-> 0, stage |-> "waiting"]
                  ELSE inf[t]]
           /\ reserved' = [r \in Robots |->
                IF \E t \in Tasks : <<t, r>> \in A
                  THEN CHOOSE t \in Tasks : <<t, r>> \in A ELSE res[r]]
           /\ outbox' \in [Robots -> Seq(Tasks)]
<1> DEFINE waiting == {t \in q : inf[t] = NoDispatch /\ Called(t, box) < MaxCalls}
<1>1. PICK A \in Allocations(waiting, Candidates(res, back, gone)) :
        \E dropped \in (IF "loss" \in Faults THEN SUBSET A ELSE {{}}) :
          /\ inflight' = [t \in Tasks |->
               IF \E r \in Robots : <<t, r>> \in A
                 THEN [robot |-> CHOOSE r \in Robots : <<t, r>> \in A,
                       call |-> 0, stage |-> "waiting"]
                 ELSE inf[t]]
          /\ reserved' = [r \in Robots |->
               IF \E t \in Tasks : <<t, r>> \in A
                 THEN CHOOSE t \in Tasks : <<t, r>> \in A ELSE res[r]]
          /\ outbox' = [r \in Robots |->
               IF \E t \in Tasks : <<t, r>> \in A \ dropped
                 THEN Append(box[r], CHOOSE t \in Tasks : <<t, r>> \in A) ELSE box[r]]
  BY DEF Round
<1>2. /\ A \in SUBSET (waiting \X Candidates(res, back, gone))
      /\ \A p, o \in A : p # o => p[1] # o[1] /\ p[2] # o[2]
  BY DEF Allocations
<1>3. A \in SUBSET (q \X Robots)
  BY <1>2 DEF Candidates
<1>4. \A p \in A : inf[p[1]] = NoDispatch /\ res[p[2]] = NoTask
  BY <1>2 DEF Candidates
<1>5. outbox' \in [Robots -> Seq(Tasks)]
  <2>1. ASSUME NEW r \in Robots, NEW t \in Tasks, <<t, r>> \in A
        PROVE  (CHOOSE u \in Tasks : <<u, r>> \in A) \in Tasks
    BY <2>1
  <2> DEFINE first(r) == CHOOSE u \in Tasks : <<u, r>> \in A
  <2>2. PICK dropped : outbox' = [r \in Robots |->
                IF \E t \in Tasks : <<t, r>> \in A \ dropped
                  THEN Append(box[r], first(r)) ELSE box[r]]
    BY <1>1
  <2>3. \A r \in Robots : (\E t \in Tasks : <<t, r>> \in A \ dropped) => first(r) \in Tasks
    BY <2>1
  <2> HIDE DEF first
  <2>4. ASSUME NEW r \in Robots, \E t \in Tasks : <<t, r>> \in A \ dropped
        PROVE  Append(box[r], first(r)) \in Seq(Tasks)
    <3>1. box[r] \in Seq(Tasks) /\ first(r) \in Tasks
      BY <2>3, <2>4
    <3> QED  BY <3>1
  <2> QED  BY <2>2, <2>4
<1> QED  BY <1>1, <1>2, <1>3, <1>4, <1>5

(* A round that only looks at pending tasks keeps reservations in           *)
(* agreement, whatever tables the callback has reached before it.           *)
LEMMA RoundAgrees ==
  ASSUME NEW st, NEW q, q \subseteq Tasks, \A t \in q : st[t] = "PENDING",
         NEW inf \in Booking, NEW res \in Reservation, Agree(st, inf, res),
         NEW back, NEW gone, NEW box \in [Robots -> Seq(Tasks)],
         Round(q, inf, res, back, gone, box), fresh \subseteq Robots
  PROVE  /\ inflight' \in Booking /\ reserved' \in Reservation
         /\ outbox' \in [Robots -> Seq(Tasks)]
         /\ Agree(st, inflight', reserved')
<1>1. PICK A \in SUBSET (q \X Robots) :
        /\ \A p, o \in A : p # o => p[1] # o[1] /\ p[2] # o[2]
        /\ \A p \in A : inf[p[1]] = NoDispatch /\ res[p[2]] = NoTask
        /\ inflight' = [t \in Tasks |->
             IF \E r \in Robots : <<t, r>> \in A
               THEN [robot |-> CHOOSE r \in Robots : <<t, r>> \in A,
                     call |-> 0, stage |-> "waiting"]
               ELSE inf[t]]
        /\ reserved' = [r \in Robots |->
             IF \E t \in Tasks : <<t, r>> \in A
               THEN CHOOSE t \in Tasks : <<t, r>> \in A ELSE res[r]]
        /\ outbox' \in [Robots -> Seq(Tasks)]
  BY RoundBooks
<1> DEFINE booked(r) == [robot |-> r, call |-> 0, stage |-> "waiting"]
<1>2. ASSUME NEW t \in Tasks, NEW r \in Robots, <<t, r>> \in A
      PROVE  /\ inflight'[t] = booked(r)
             /\ reserved'[r] = t
             /\ st[t] = "PENDING" /\ inf[t] = NoDispatch /\ res[r] = NoTask
  <2>1. (CHOOSE u \in Robots : <<t, u>> \in A) = r
    <3>1. \A u \in Robots : <<t, u>> \in A => u = r
      BY <1>1, <1>2
    <3> QED  BY <1>2, <3>1
  <2>2. (CHOOSE u \in Tasks : <<u, r>> \in A) = t
    <3>1. \A u \in Tasks : <<u, r>> \in A => u = t
      BY <1>1, <1>2
    <3> QED  BY <1>2, <3>1
  <2>3. st[t] = "PENDING" /\ inf[t] = NoDispatch /\ res[r] = NoTask
    BY <1>1, <1>2
  <2> QED  BY <1>1, <1>2, <2>1, <2>2, <2>3
<1>3. ASSUME NEW t \in Tasks, \A r \in Robots : <<t, r>> \notin A
      PROVE  inflight'[t] = inf[t]
  BY <1>1, <1>3
<1>4. ASSUME NEW r \in Robots, \A t \in Tasks : <<t, r>> \notin A
      PROVE  reserved'[r] = res[r]
  BY <1>1, <1>4
<1>5. \A r \in Robots : booked(r) \in Dispatches /\ booked(r).robot = r
  BY DEF Dispatches, Stages
<1> HIDE DEF booked
<1>6. inflight' \in Booking
  <2>1. ASSUME NEW t \in Tasks PROVE inflight'[t] \in Dispatches \cup {NoDispatch}
    <3>1. CASE \E r \in Robots : <<t, r>> \in A
      BY <1>2, <1>5, <3>1
    <3>2. CASE \A r \in Robots : <<t, r>> \notin A
      BY <1>3, <3>2 DEF Booking
    <3> QED  BY <3>1, <3>2
  <2> QED  BY <1>1, <2>1 DEF Booking
<1>7. reserved' \in Reservation
  <2>1. ASSUME NEW r \in Robots PROVE reserved'[r] \in Tasks \cup {NoTask}
    <3>1. CASE \E t \in Tasks : <<t, r>> \in A
      BY <1>2, <3>1
    <3>2. CASE \A t \in Tasks : <<t, r>> \notin A
      BY <1>4, <3>2 DEF Reservation
    <3> QED  BY <3>1, <3>2
  <2> QED  BY <1>1, <2>1 DEF Reservation
<1>8. ASSUME NEW t \in Tasks, inflight'[t] # NoDispatch
      PROVE  st[t] = "PENDING" /\ reserved'[inflight'[t].robot] = t
  <2>1. CASE \E r \in Robots : <<t, r>> \in A
    <3>1. PICK r \in Robots : <<t, r>> \in A
      BY <2>1
    <3>2. inflight'[t].robot = r
      BY <1>2, <1>5, <3>1
    <3> QED  BY <1>2, <3>1, <3>2
  <2>2. CASE \A r \in Robots : <<t, r>> \notin A
    <3>1. inflight'[t] = inf[t]
      BY <1>3, <2>2
    <3>2. inf[t].robot \in Robots
      BY <1>8, <3>1, DispatchFacts DEF Booking
    <3>3. st[t] = "PENDING" /\ res[inf[t].robot] = t
      BY <1>8, <3>1 DEF Agree
    <3>4. \A u \in Tasks : <<u, inf[t].robot>> \notin A
      BY <1>2, <3>2, <3>3, DispatchFacts
    <3> QED  BY <1>4, <3>1, <3>2, <3>3, <3>4
  <2> QED  BY <2>1, <2>2
<1>9. ASSUME NEW r \in Robots, reserved'[r] # NoTask
      PROVE  inflight'[reserved'[r]] # NoDispatch /\ inflight'[reserved'[r]].robot = r
  <2>1. CASE \E t \in Tasks : <<t, r>> \in A
    <3>1. PICK t \in Tasks : <<t, r>> \in A
      BY <2>1
    <3> QED  BY <1>2, <1>5, <3>1, DispatchFacts
  <2>2. CASE \A t \in Tasks : <<t, r>> \notin A
    <3>1. reserved'[r] = res[r]
      BY <1>4, <2>2
    <3>2. res[r] \in Tasks /\ inf[res[r]] # NoDispatch /\ inf[res[r]].robot = r
      BY <1>9, <3>1 DEF Agree, Reservation
    <3>3. \A u \in Robots : <<res[r], u>> \notin A
      BY <1>2, <3>2
    <3> QED  BY <1>3, <3>1, <3>2, <3>3
  <2> QED  BY <2>1, <2>2
<1> QED  BY <1>1, <1>6, <1>7, <1>8, <1>9 DEF Agree

(* Clearing a dispatch keeps the rest in agreement, also when the task's    *)
(* own status changes in the same step.                                     *)
LEMMA ClearAgrees ==
  ASSUME NEW t \in Tasks, NEW st, \A u \in Tasks \ {t} : st[u] = status[u],
         inflight \in Booking, reserved \in Reservation, Agree(status, inflight, reserved)
  PROVE  /\ Unbooked(t) \in Booking /\ Unreserved(t) \in Reservation
         /\ Unbooked(t)[t] = NoDispatch
         /\ Agree(st, Unbooked(t), Unreserved(t))
<1>1. Unbooked(t) \in Booking /\ Unbooked(t)[t] = NoDispatch
  BY DEF Unbooked, Booking
<1>2. Unreserved(t) \in Reservation
  BY DEF Unreserved, Reservation
<1>3. ASSUME NEW u \in Tasks, Unbooked(t)[u] # NoDispatch
      PROVE  st[u] = "PENDING" /\ Unreserved(t)[Unbooked(t)[u].robot] = u
  <2>1. u # t /\ Unbooked(t)[u] = inflight[u]
    BY <1>3 DEF Unbooked, Booking
  <2>2. inflight[u].robot \in Robots
    BY <1>3, <2>1, DispatchFacts DEF Booking
  <2>3. status[u] = "PENDING" /\ reserved[inflight[u].robot] = u
    BY <1>3, <2>1 DEF Agree
  <2> QED  BY <2>1, <2>2, <2>3 DEF Unreserved
<1>4. ASSUME NEW r \in Robots, Unreserved(t)[r] # NoTask
      PROVE  /\ Unbooked(t)[Unreserved(t)[r]] # NoDispatch
             /\ Unbooked(t)[Unreserved(t)[r]].robot = r
  <2>1. Unreserved(t)[r] = reserved[r] /\ reserved[r] # NoTask
    BY <1>4 DEF Unreserved
  <2>2. reserved[r] \in Tasks /\ inflight[reserved[r]] # NoDispatch /\ inflight[reserved[r]].robot = r
    BY <2>1 DEF Agree, Reservation
  <2>3. reserved[r] # t
    BY <1>4, <2>2 DEF Unreserved
  <2> QED  BY <2>1, <2>2, <2>3 DEF Unbooked, Booking
<1> QED  BY <1>1, <1>2, <1>3, <1>4 DEF Agree

(* The status of a task that has no dispatch may change.                    *)
LEMMA StatusAgrees ==
  ASSUME NEW st, NEW inf \in Booking, NEW res \in Reservation, NEW old, Agree(old, inf, res),
         NEW t, inf[t] = NoDispatch \/ st[t] = "PENDING",
         \A u \in Tasks \ {t} : st[u] = old[u]
  PROVE  Agree(st, inf, res)
BY DEF Agree

(* Dispatches may change in everything but their robots.                    *)
LEMMA StageAgrees ==
  ASSUME NEW st, NEW inf \in Booking, NEW new \in Booking, NEW res \in Reservation,
         Agree(st, inf, res),
         \A u \in Tasks : inf[u] # NoDispatch <=> new[u] # NoDispatch,
         \A u \in Tasks : inf[u] # NoDispatch => new[u].robot = inf[u].robot
  PROVE  Agree(st, new, res)
BY DEF Agree, Reservation

-----------------------------------------------------------------------------
(* Steps.                                                                   *)

DispatchTypes ==
  inflight \in Booking /\ reserved \in Reservation /\ outbox \in [Robots -> Seq(Tasks)]

\* The inductive invariant.
IInv == FTypeOK /\ QueueExact /\ OwnerKnown /\ ReservationsAgree

(* What the invariant says of the tables of dispatches and of the queue.    *)
LEMMA TablesOfInvariant ==
  ASSUME IInv
  PROVE  /\ DispatchTypes /\ RecordTypes /\ Agree(status, inflight, reserved)
         /\ queue \subseteq Tasks /\ \A t \in queue : status[t] = "PENDING"
         /\ fresh \subseteq Robots /\ calls \in [Tasks -> Nat]
BY DEF IInv, FTypeOK, DispatchTypes, RecordTypes, Booking, Reservation, ReservationsAgree,
       Agree, QueueExact

(* A dispatch given up, and the round that follows.                         *)
LEMMA AbortAgrees ==
  ASSUME IInv, NEW t \in Tasks, NEW r, NEW gone, NEW box \in [Robots -> Seq(Tasks)],
         Abort(t, r, gone, box)
  PROVE  DispatchTypes' /\ Agree(status, inflight', reserved')
<1>1. /\ Unbooked(t) \in Booking /\ Unreserved(t) \in Reservation
      /\ Agree(status, Unbooked(t), Unreserved(t))
  BY TablesOfInvariant, ClearAgrees DEF DispatchTypes
<1>2. Round(queue, Unbooked(t), Unreserved(t), backoff \cup {r}, gone, box)
  BY DEF Abort
<1>3. queue \subseteq Tasks /\ (\A u \in queue : status[u] = "PENDING") /\ fresh \subseteq Robots
  BY TablesOfInvariant
<1> HIDE DEF Unbooked, Unreserved
<1> QED  BY <1>1, <1>2, <1>3, RoundAgrees DEF DispatchTypes

(* A dispatch cleared, while the status of its task may change as well.     *)
LEMMA ClearedAgrees ==
  ASSUME IInv, NEW t \in Tasks, Clear(t), \A u \in Tasks \ {t} : status'[u] = status[u]
  PROVE  DispatchTypes' /\ ReservationsAgree'
<1>1. /\ Unbooked(t) \in Booking /\ Unreserved(t) \in Reservation
      /\ Agree(status', Unbooked(t), Unreserved(t))
  BY TablesOfInvariant, ClearAgrees DEF DispatchTypes
<1>2. inflight' = Unbooked(t) /\ reserved' = Unreserved(t) /\ outbox' = outbox
  BY DEF Clear
<1>3. outbox \in [Robots -> Seq(Tasks)]
  BY TablesOfInvariant DEF DispatchTypes
<1> HIDE DEF Unbooked, Unreserved
<1> QED  BY <1>1, <1>2, <1>3 DEF DispatchTypes, ReservationsAgree, Agree

(* Dispatches untouched, while a task without one changes its status.       *)
LEMMA UntouchedAgrees ==
  ASSUME IInv, UNCHANGED dispatch, NEW t \in Tasks,
         inflight[t] = NoDispatch \/ status'[t] = "PENDING",
         \A u \in Tasks \ {t} : status'[u] = status[u]
  PROVE  DispatchTypes' /\ ReservationsAgree'
<1>1. Agree(status', inflight, reserved)
  BY TablesOfInvariant, StatusAgrees DEF DispatchTypes
<1> QED  BY <1>1, TablesOfInvariant DEF DispatchTypes, ReservationsAgree, Agree, dispatch

(* An acceptance, however the manager hears of it.                          *)
LEMMA StartedAgrees ==
  ASSUME IInv, NEW t \in Tasks, NEW r \in Robots, NEW known,
         Confirm(t, r) \/ RobotStarted(t, r, known)
  PROVE  DispatchTypes' /\ ReservationsAgree'
<1>1. CASE Confirm(t, r)
  <2>1. \A u \in Tasks \ {t} : status'[u] = status[u]
    BY <1>1, TablesOfInvariant DEF Confirm, StartTask, books, RecordTypes
  <2> QED  BY <1>1, <2>1, ClearedAgrees DEF Confirm
<1>2. CASE MayStartLate(t, r, known) /\ StartTask(t, r) /\ UNCHANGED dispatch
  <2>1. \A u \in Tasks \ {t} : status'[u] = status[u]
    BY <1>2, TablesOfInvariant DEF StartTask, RecordTypes
  <2> QED  BY <1>2, <2>1, UntouchedAgrees DEF MayStartLate
<1>3. CASE UNCHANGED <<books, dispatch>>
  BY <1>3, TablesOfInvariant DEF books, dispatch, DispatchTypes, ReservationsAgree, Agree
<1> QED  BY <1>1, <1>2, <1>3 DEF RobotStarted

(* A record operation changes the status of its task only.                  *)
LEMMA OneStatusChanges ==
  ASSUME RecordTypes, NEW t \in Tasks, NEW r,
         Admit(t) \/ StartTask(t, r) \/ FailTask(t, r) \/ Completed(t)
  PROVE  \A u \in Tasks \ {t} : status'[u] = status[u]
BY DEF RecordTypes, Admit, StartTask, FailTask, Completed

(* Every step keeps dispatches and reservations in agreement.               *)
LEMMA DispatchesKept ==
  ASSUME IInv, [FNext]_fvars
  PROVE  DispatchTypes' /\ ReservationsAgree'
<1> DEFINE Goal == DispatchTypes' /\ ReservationsAgree'
<1>0. /\ DispatchTypes /\ RecordTypes /\ Agree(status, inflight, reserved)
      /\ queue \subseteq Tasks /\ \A t \in queue : status[t] = "PENDING"
      /\ fresh \subseteq Robots /\ calls \in [Tasks -> Nat]
  BY TablesOfInvariant
<1>a. ASSUME UNCHANGED status, DispatchTypes', Agree(status, inflight', reserved') PROVE Goal
  BY <1>a DEF ReservationsAgree, Agree
<1>b. ASSUME UNCHANGED <<status, dispatch>> PROVE Goal
  BY <1>0, <1>b DEF DispatchTypes, dispatch, ReservationsAgree, Agree
<1>1. ASSUME NEW t \in Tasks, OnTaskRequest(t) PROVE Goal
  <2>1. \A u \in Tasks \ {t} : status'[u] = status[u]
    BY <1>0, <1>1, OneStatusChanges DEF OnTaskRequest
  <2>2. status'[t] = "PENDING" /\ UNCHANGED dispatch
    BY <1>0, <1>1 DEF OnTaskRequest, Admit, RecordTypes
  <2> QED  BY <2>1, <2>2, UntouchedAgrees
<1>2. ASSUME NEW t \in Tasks, OnAssignTask(t) PROVE Goal
  <2>1. \A u \in Tasks \ {t} : status'[u] = status[u]
    BY <1>0, <1>2, OneStatusChanges DEF OnAssignTask
  <2>2. status'[t] = "PENDING"
    BY <1>0, <1>2 DEF OnAssignTask, Admit, RecordTypes
  <2>3. Agree(status', inflight, reserved)
    BY <1>0, <2>1, <2>2, StatusAgrees DEF DispatchTypes
  <2>4. queue \cup {t} \subseteq Tasks /\ \A u \in queue \cup {t} : status'[u] = "PENDING"
    BY <1>0, <2>1, <2>2
  <2>5. Round(queue \cup {t}, inflight, reserved, backoff, lost, outbox)
    BY <1>2 DEF OnAssignTask
  <2>6. DispatchTypes' /\ Agree(status', inflight', reserved')
    BY <1>0, <2>3, <2>4, <2>5, RoundAgrees DEF DispatchTypes
  <2> QED  BY <2>6 DEF ReservationsAgree, Agree
<1>3. ASSUME NEW t \in Tasks, TaskTimeout(t) PROVE Goal
  <2>1. \A u \in Tasks \ {t} : status'[u] = status[u]
    BY <1>0, <1>3, OneStatusChanges DEF TaskTimeout
  <2> QED  BY <1>3, <2>1, ClearedAgrees DEF TaskTimeout
<1>4. ASSUME NEW r \in Robots, OnRobotState(r) PROVE Goal
  <2> DEFINE c == reports[r]
             looked == [t \in Tasks |->
               IF inflight[t] # NoDispatch /\ inflight[t].robot = r /\ inflight[t].stage = "late"
                 THEN [inflight[t] EXCEPT !.stage = "checked"] ELSE inflight[t]]
  <2>1. CASE c \in Tasks /\ Confirm(c, r)
    BY <2>1, StartedAgrees
  <2>2. CASE /\ inflight' = looked /\ UNCHANGED <<reserved, outbox>>
             /\ \/ UNCHANGED books
                \/ c \in Tasks /\ MayStartLate(c, r, r \in sent[c]) /\ StartTask(c, r)
    <3>1. \A t \in Tasks :
            /\ looked[t] \in Dispatches \cup {NoDispatch}
            /\ inflight[t] # NoDispatch <=> looked[t] # NoDispatch
            /\ inflight[t] # NoDispatch => looked[t].robot = inflight[t].robot
      <4> SUFFICES ASSUME NEW t \in Tasks, inflight[t] \in Dispatches
                   PROVE  /\ [inflight[t] EXCEPT !.stage = "checked"] \in Dispatches
                          /\ [inflight[t] EXCEPT !.stage = "checked"].robot = inflight[t].robot
        BY <1>0, DispatchFacts DEF DispatchTypes, Booking
      <4> QED  BY DEF Dispatches, Stages
    <3> HIDE DEF looked
    <3>2. looked \in Booking
      BY <3>1 DEF looked, Booking
    <3>3. Agree(status, looked, reserved)
      BY <1>0, <3>1, <3>2, StageAgrees DEF DispatchTypes
    <3>4. DispatchTypes'
      BY <1>0, <2>2, <3>2 DEF DispatchTypes
    <3>5. CASE UNCHANGED books
      BY <1>a, <2>2, <3>3, <3>4, <3>5 DEF books
    <3>6. CASE c \in Tasks /\ MayStartLate(c, r, r \in sent[c]) /\ StartTask(c, r)
      <4>1. \A u \in Tasks \ {c} : status'[u] = status[u]
        BY <1>0, <3>6, OneStatusChanges
      <4>2. looked[c] = NoDispatch
        BY <3>1, <3>6 DEF MayStartLate
      <4>3. Agree(status', looked, reserved)
        BY <1>0, <3>2, <3>3, <4>1, <4>2, StatusAgrees DEF DispatchTypes
      <4> QED  BY <2>2, <3>4, <4>3 DEF ReservationsAgree, Agree
    <3> QED  BY <2>2, <3>5, <3>6
  <2> QED  BY <1>4, <2>1, <2>2 DEF OnRobotState
<1>5. ASSUME NEW r \in Robots, OnTaskStatus(r) PROVE Goal
  <2> DEFINE m == Head(mail[r])
  <2>1. m.task \in Tasks
    <3>1. mail[r] \in Seq(Mails) /\ mail[r] # <<>>
      BY <1>5 DEF IInv, FTypeOK, OnTaskStatus
    <3>2. m \in Mails
      BY <3>1
    <3> QED  BY <3>2 DEF Mails
  <2> HIDE DEF m
  <2>2. CASE RobotStarted(m.task, r, r \in sent[m.task] \/ r = Pin[m.task])
    BY <2>1, <2>2, StartedAgrees
  <2>3. CASE Completed(m.task) /\ UNCHANGED dispatch
    <3>1. inflight[m.task] = NoDispatch
      BY <1>0, <2>1, <2>3 DEF Completed, Agree
    <3>2. \A u \in Tasks \ {m.task} : status'[u] = status[u]
      BY <1>0, <2>1, <2>3, OneStatusChanges
    <3> QED  BY <2>1, <2>3, <3>1, <3>2, UntouchedAgrees
  <2>4. CASE Clear(m.task) /\ FailTask(m.task, r)
    <3>1. \A u \in Tasks \ {m.task} : status'[u] = status[u]
      BY <1>0, <2>1, <2>4, OneStatusChanges
    <3> QED  BY <2>1, <2>4, <3>1, ClearedAgrees
  <2>5. CASE UNCHANGED <<books, dispatch>>
    BY <1>b, <2>5 DEF books
  <2> QED  BY <1>5, <2>2, <2>3, <2>4, <2>5 DEF OnTaskStatus, m, Completed
<1>6. ASSUME NEW r \in Robots, OnOutboxRelease(r) PROVE Goal
  <2> DEFINE t == Head(outbox[r])
             box == [outbox EXCEPT ![r] = Tail(@)]
             sending == [inflight EXCEPT ![t].call = calls[t] + 1]
  <2>1. t \in Tasks /\ box \in [Robots -> Seq(Tasks)]
    <3>1. outbox[r] \in Seq(Tasks) /\ outbox[r] # <<>> /\ outbox \in [Robots -> Seq(Tasks)]
      BY <1>0, <1>6 DEF OnOutboxRelease, DispatchTypes
    <3> QED  BY <3>1
  <2>2. UNCHANGED status
    BY <1>6 DEF OnOutboxRelease, books
  <2>3. CASE inflight[t] # NoDispatch /\ inflight' = sending /\ reserved' = reserved /\ outbox' = box
    <3>1. inflight[t] \in Dispatches /\ calls[t] + 1 \in Nat
      BY <1>0, <2>1, <2>3 DEF DispatchTypes, Booking
    <3>2. /\ [inflight[t] EXCEPT !.call = calls[t] + 1] \in Dispatches
          /\ [inflight[t] EXCEPT !.call = calls[t] + 1].robot = inflight[t].robot
      BY <3>1 DEF Dispatches
    <3>3. sending = [inflight EXCEPT ![t] = [inflight[t] EXCEPT !.call = calls[t] + 1]]
      OBVIOUS
    <3>4. sending \in Booking
      BY <1>0, <3>2, <3>3 DEF DispatchTypes, Booking
    <3>5. \A u \in Tasks : /\ inflight[u] # NoDispatch <=> sending[u] # NoDispatch
                           /\ inflight[u] # NoDispatch => sending[u].robot = inflight[u].robot
      BY <1>0, <2>1, <2>3, <3>2, <3>3, DispatchFacts DEF DispatchTypes, Booking
    <3> HIDE DEF sending, box
    <3>6. Agree(status, sending, reserved)
      BY <1>0, <3>4, <3>5, StageAgrees DEF DispatchTypes
    <3> QED  BY <1>0, <1>a, <2>1, <2>2, <2>3, <3>4, <3>6 DEF DispatchTypes
  <2>4. CASE Abort(t, inflight[t].robot, lost, box)
    <3> HIDE DEF t, box
    <3> QED  BY <1>a, <2>1, <2>2, <2>4, AbortAgrees
  <2>5. CASE UNCHANGED <<inflight, reserved>> /\ outbox' = box
    BY <1>0, <1>a, <2>1, <2>2, <2>5 DEF DispatchTypes
  <2> QED  BY <1>6, <2>3, <2>4, <2>5 DEF OnOutboxRelease
<1>7. ASSUME NEW r \in Robots, RobotLost(r) PROVE Goal
  <2>1. DispatchTypes' /\ Agree(status, inflight', reserved')
    <3>1. CASE reserved[r] # NoTask /\ Abort(reserved[r], r, lost \cup {r}, outbox)
      <4>1. reserved[r] \in Tasks
        BY <1>0, <3>1 DEF DispatchTypes, Reservation
      <4> QED  BY <1>0, <3>1, <4>1, AbortAgrees DEF DispatchTypes
    <3>2. CASE UNCHANGED dispatch
      BY <1>0, <3>2 DEF DispatchTypes, dispatch
    <3> QED  BY <1>7, <3>1, <3>2 DEF RobotLost
  <2>2. CASE \E t \in Active(r) : FailTask(t, r)
    <3>1. PICK t \in Tasks : status[t] = "IN_PROGRESS" /\ FailTask(t, r)
      BY <2>2 DEF Active
    <3>2. \A u \in Tasks \ {t} : status'[u] = status[u]
      BY <1>0, <3>1, OneStatusChanges
    <3>3. inflight'[t] = NoDispatch
      BY <2>1, <3>1 DEF Agree
    <3>4. Agree(status', inflight', reserved')
      BY <2>1, <3>2, <3>3, StatusAgrees DEF DispatchTypes
    <3> QED  BY <2>1, <3>4 DEF ReservationsAgree, Agree
  <2>3. CASE UNCHANGED books
    BY <1>a, <2>1, <2>3 DEF books
  <2> QED  BY <1>7, <2>2, <2>3 DEF RobotLost
<1>8. ASSUME NEW p \in responses, OnAssignResponse(p) PROVE Goal
  <2>1. p.task \in Tasks /\ p.robot \in Robots
    BY DEF IInv, FTypeOK, Answers
  <2>2. CASE Confirm(p.task, p.robot) \/ RobotStarted(p.task, p.robot, p.robot \in sent[p.task])
    BY <2>1, <2>2, StartedAgrees
  <2>3. CASE Abort(p.task, p.robot, lost, outbox) /\ UNCHANGED books
    <3>1. outbox \in [Robots -> Seq(Tasks)]
      BY <1>0 DEF DispatchTypes
    <3> QED  BY <1>a, <2>1, <2>3, <3>1, AbortAgrees DEF books
  <2>4. CASE UNCHANGED <<books, dispatch>>
    BY <1>b, <2>4 DEF books
  <2> QED  BY <1>8, <2>2, <2>3, <2>4 DEF OnAssignResponse
<1>9. ASSUME NEW inf \in Booking, Agree(status, inf, reserved), UNCHANGED books,
             \/ Round(queue, inf, reserved, backoff, lost, outbox)
             \/ inflight' = inf /\ UNCHANGED <<reserved, outbox>>
      PROVE  Goal
  <2>1. CASE Round(queue, inf, reserved, backoff, lost, outbox)
    <3>1. DispatchTypes' /\ Agree(status, inflight', reserved')
      BY <1>0, <1>9, <2>1, RoundAgrees DEF DispatchTypes
    <3> QED  BY <1>9, <1>a, <3>1 DEF books
  <2>2. CASE inflight' = inf /\ UNCHANGED <<reserved, outbox>>
    BY <1>0, <1>9, <1>a, <2>2 DEF DispatchTypes, books
  <2> QED  BY <1>9, <2>1, <2>2
<1>10. CASE OnBatchWindow
  BY <1>0, <1>9, <1>10 DEF OnBatchWindow, DispatchTypes
<1>11. CASE OnAllocationTimer
  <2>1. ASSUME NEW t \in Tasks, inflight[t] # NoDispatch,
               Abort(t, inflight[t].robot, lost, outbox), UNCHANGED books
        PROVE  Goal
    <3>1. outbox \in [Robots -> Seq(Tasks)]
      BY <1>0 DEF DispatchTypes
    <3> QED  BY <1>a, <2>1, <3>1, AbortAgrees DEF books
  <2>2. ASSUME NEW t \in Tasks, inflight[t] # NoDispatch, UNCHANGED books,
               TimedRound([inflight EXCEPT ![t].stage = "unconfirmed"])
        PROVE  Goal
    <3> DEFINE marked == [inflight EXCEPT ![t] = [inflight[t] EXCEPT !.stage = "unconfirmed"]]
    <3>1. /\ [inflight[t] EXCEPT !.stage = "unconfirmed"] \in Dispatches
          /\ [inflight[t] EXCEPT !.stage = "unconfirmed"].robot = inflight[t].robot
      <4>1. inflight[t] \in Dispatches
        BY <1>0, <2>2 DEF DispatchTypes, Booking
      <4> QED  BY <4>1 DEF Dispatches, Stages
    <3>2. marked \in Booking
      BY <1>0, <3>1 DEF DispatchTypes, Booking
    <3>3. \A u \in Tasks : /\ inflight[u] # NoDispatch <=> marked[u] # NoDispatch
                           /\ inflight[u] # NoDispatch => marked[u].robot = inflight[u].robot
      BY <1>0, <2>2, <3>1, DispatchFacts DEF DispatchTypes, Booking
    <3>4. TimedRound(marked)
      BY <2>2
    <3> HIDE DEF marked
    <3>5. Agree(status, marked, reserved)
      BY <1>0, <3>2, <3>3, StageAgrees DEF DispatchTypes
    <3> QED  BY <1>9, <2>2, <3>2, <3>4, <3>5 DEF TimedRound
  <2>3. CASE TimedRound(inflight) /\ UNCHANGED books
    BY <1>0, <1>9, <2>3 DEF TimedRound, DispatchTypes
  <2> QED  BY <1>11, <2>1, <2>2, <2>3 DEF OnAllocationTimer, Expired
<1>12. ASSUME NEW t \in Tasks, DeadlinePasses(t) PROVE Goal
  <2>1. inflight[t] \in Dispatches
    BY <1>0, <1>12 DEF DeadlinePasses, DispatchTypes, Booking
  <2>2. ASSUME NEW st \in Stages, inflight' = [inflight EXCEPT ![t].stage = st] PROVE Goal
    <3> DEFINE marked == [inflight EXCEPT ![t] = [inflight[t] EXCEPT !.stage = st]]
    <3>1. /\ [inflight[t] EXCEPT !.stage = st] \in Dispatches
          /\ [inflight[t] EXCEPT !.stage = st].robot = inflight[t].robot
      BY <2>1 DEF Dispatches
    <3>2. marked \in Booking
      BY <1>0, <3>1 DEF DispatchTypes, Booking
    <3>3. \A u \in Tasks : /\ inflight[u] # NoDispatch <=> marked[u] # NoDispatch
                           /\ inflight[u] # NoDispatch => marked[u].robot = inflight[u].robot
      BY <1>0, <2>1, <3>1, DispatchFacts DEF DispatchTypes, Booking
    <3>4. inflight' = marked
      BY <2>2
    <3> HIDE DEF marked
    <3>5. Agree(status, marked, reserved)
      BY <1>0, <3>2, <3>3, StageAgrees DEF DispatchTypes
    <3>6. UNCHANGED <<status, reserved, outbox>>
      BY <1>12 DEF DeadlinePasses, books
    <3> QED  BY <1>0, <1>a, <3>2, <3>4, <3>5, <3>6 DEF DispatchTypes
  <2> QED  BY <1>12, <2>2 DEF DeadlinePasses, Stages
<1>13. CASE UNCHANGED <<books, dispatch>>
  BY <1>b, <1>13 DEF books
<1>14. CASE Environment
  BY <1>12, <1>13, <1>14 DEF Environment, BackoffOver, GoesQuiet, Finish, Report, Crash, Take, Lose
<1>15. CASE UNCHANGED fvars
  BY <1>13, <1>15 DEF fvars
<1> QED
  BY <1>1, <1>2, <1>3, <1>4, <1>5, <1>6, <1>7, <1>8, <1>10, <1>11, <1>14, <1>15
  DEF FNext, Manager

-----------------------------------------------------------------------------
(* What is left of the type invariant: messages, robots and what the        *)
(* manager remembers of them.                                               *)
OtherTypes ==
  /\ sent \in [Tasks -> SUBSET Robots]
  /\ calls \in [Tasks -> Nat]
  /\ seen \in [Robots -> States \cup {Unseen}]
  /\ fresh \subseteq Robots /\ lost \subseteq Robots /\ backoff \subseteq Robots
  /\ window \in BOOLEAN
  /\ requests \subseteq Calls /\ responses \subseteq Answers
  /\ mail \in [Robots -> Seq(Mails)]
  /\ reports \in [Robots -> States \cup {Unseen}]
  /\ job \in [Robots -> Tasks \cup {NoTask}]
  /\ adapter \in [Robots -> Tasks \cup {NoTask}]
  /\ runs \in [Tasks -> Nat]

(* Every step keeps the type of messages and of memories.                   *)
LEMMA OthersKept ==
  ASSUME IInv, [FNext]_fvars
  PROVE  OtherTypes'
<1>0. OtherTypes /\ DispatchTypes /\ OwnerKnown
  BY TablesOfInvariant DEF IInv, FTypeOK, OtherTypes
<1>1. ASSUME NEW t \in Tasks, OnTaskRequest(t) \/ OnAssignTask(t) PROVE OtherTypes'
  BY <1>0, <1>1 DEF OnTaskRequest, OnAssignTask, OtherTypes, network, robot
<1>2. ASSUME NEW t \in Tasks, TaskTimeout(t) PROVE OtherTypes'
  BY <1>0, <1>2 DEF TaskTimeout, FailTask, OtherTypes, network, robot
<1>3. ASSUME NEW r \in Robots, OnRobotState(r) PROVE OtherTypes'
  BY <1>0, <1>3 DEF OnRobotState, OtherTypes, robot
<1>4. ASSUME NEW r \in Robots, OnTaskStatus(r) PROVE OtherTypes'
  <2>1. mail[r] \in Seq(Mails) /\ mail[r] # <<>>
    BY <1>0, <1>4 DEF OnTaskStatus, OtherTypes
  <2>2. mail' \in [Robots -> Seq(Mails)]
    BY <1>0, <1>4, <2>1 DEF OnTaskStatus, OtherTypes
  <2>3. sent' \in [Tasks -> SUBSET Robots]
    BY <1>0, <1>4 DEF OnTaskStatus, FailTask, OtherTypes
  <2> QED  BY <1>0, <1>4, <2>2, <2>3 DEF OnTaskStatus, OtherTypes, robot
<1>5. ASSUME NEW p \in responses, OnAssignResponse(p) PROVE OtherTypes'
  <2>1. p.robot \in Robots
    BY <1>0 DEF OtherTypes, Answers
  <2>2. backoff' \subseteq Robots
    BY <1>0, <1>5, <2>1 DEF OnAssignResponse, Abort, OtherTypes
  <2> QED  BY <1>0, <1>5, <2>2 DEF OnAssignResponse, OtherTypes, robot
<1>6. ASSUME NEW r \in Robots, OnOutboxRelease(r) PROVE OtherTypes'
  <2> DEFINE t == Head(outbox[r])
  <2>1. t \in Tasks
    BY <1>0, <1>6 DEF OnOutboxRelease, DispatchTypes
  <2> HIDE DEF t
  <2>2. inflight[t] # NoDispatch => inflight[t].robot \in Robots
    BY <1>0, <2>1, DispatchFacts DEF DispatchTypes, Booking
  <2>3. CASE /\ inflight[t] # NoDispatch
             /\ sent' = [sent EXCEPT ![t] = @ \cup {inflight[t].robot}]
             /\ calls' = [calls EXCEPT ![t] = @ + 1]
             /\ requests' = requests \cup
                  {[task |-> t, robot |-> inflight[t].robot, call |-> calls[t] + 1]}
             /\ UNCHANGED backoff
    <3>1. sent' \in [Tasks -> SUBSET Robots] /\ calls' \in [Tasks -> Nat]
      BY <1>0, <2>1, <2>2, <2>3 DEF OtherTypes
    <3>2. requests' \subseteq Calls
      BY <1>0, <2>1, <2>2, <2>3 DEF OtherTypes, Calls
    <3> QED  BY <1>0, <1>6, <2>3, <3>1, <3>2 DEF OnOutboxRelease, OtherTypes, robot
  <2>4. CASE inflight[t] # NoDispatch /\ backoff' = backoff \cup {inflight[t].robot}
             /\ UNCHANGED <<sent, calls, requests>>
    BY <1>0, <1>6, <2>2, <2>4 DEF OnOutboxRelease, OtherTypes, robot
  <2>5. CASE UNCHANGED <<backoff, sent, calls, requests>>
    BY <1>0, <1>6, <2>5 DEF OnOutboxRelease, OtherTypes, robot
  <2> QED  BY <1>6, <2>3, <2>4, <2>5 DEF OnOutboxRelease, Abort, t
<1>7. ASSUME NEW r \in Robots, RobotLost(r) PROVE OtherTypes'
  <2>1. backoff' \subseteq Robots
    BY <1>0, <1>7 DEF RobotLost, Abort, OtherTypes
  <2>2. sent' \in [Tasks -> SUBSET Robots]
    BY <1>0, <1>7 DEF RobotLost, FailTask, Active, OtherTypes
  <2> QED  BY <1>0, <1>7, <2>1, <2>2 DEF RobotLost, OtherTypes, network, robot
<1>8. CASE OnBatchWindow
  BY <1>0, <1>8 DEF OnBatchWindow, OtherTypes, network, robot
<1>9. CASE OnAllocationTimer
  <2>1. ASSUME NEW t \in Tasks, inflight[t] # NoDispatch PROVE inflight[t].robot \in Robots
    BY <1>0, <2>1, DispatchFacts DEF DispatchTypes, Booking
  <2>2. backoff \subseteq Robots
    BY <1>0 DEF OtherTypes
  <2>3. backoff' \subseteq Robots
    <3>1. CASE \E t \in Tasks : Expired(t) /\ Abort(t, inflight[t].robot, lost, outbox)
      <4>1. PICK t \in Tasks : inflight[t] # NoDispatch /\ backoff' = backoff \cup {inflight[t].robot}
        BY <3>1 DEF Expired, Abort
      <4> QED  BY <4>1, <2>1, <2>2
    <3>2. CASE UNCHANGED backoff
      BY <3>2, <2>2
    <3> QED  BY <1>9, <3>1, <3>2 DEF OnAllocationTimer
  <2> QED  BY <1>0, <1>9, <2>3 DEF OnAllocationTimer, OtherTypes, network, robot
<1>10. ASSUME NEW t \in Tasks, DeadlinePasses(t) PROVE OtherTypes'
  BY <1>0, <1>10 DEF DeadlinePasses, OtherTypes, network, robot
<1>11. ASSUME NEW r \in Robots, BackoffOver(r) \/ GoesQuiet(r) \/ Crash(r) PROVE OtherTypes'
  BY <1>0, <1>11 DEF BackoffOver, GoesQuiet, Crash, OtherTypes, network, robot
<1>12. ASSUME NEW r \in Robots, Report(r) PROVE OtherTypes'
  BY <1>0, <1>12 DEF Report, OtherTypes, robot, States
<1>13. ASSUME NEW r \in Robots, Finish(r) PROVE OtherTypes'
  <2>1. job[r] \in Tasks /\ mail[r] \in Seq(Mails)
    BY <1>0, <1>13 DEF Finish, OtherTypes
  <2>2. \A e \in {"COMPLETED", "FAILED"} :
          Append(mail[r], [task |-> job[r], status |-> e]) \in Seq(Mails)
    <3>1. \A e \in {"COMPLETED", "FAILED"} : [task |-> job[r], status |-> e] \in Mails
      BY <2>1 DEF Mails
    <3> QED  BY <2>1, <3>1
  <2>3. mail' \in [Robots -> Seq(Mails)]
    BY <1>0, <1>13, <2>2 DEF Finish, OtherTypes
  <2> QED  BY <1>0, <1>13, <2>3 DEF Finish, OtherTypes
<1>14. ASSUME NEW c \in requests, Take(c) PROVE OtherTypes'
  <2>1. c.task \in Tasks /\ c.robot \in Robots /\ c.call \in Nat
    BY <1>0 DEF OtherTypes, Calls
  <2>2. PICK ok \in BOOLEAN :
          /\ responses' = responses \cup
               {[task |-> c.task, robot |-> c.robot, call |-> c.call, ok |-> ok]}
          /\ IF ok
               THEN /\ job' = [job EXCEPT ![c.robot] = c.task]
                    /\ adapter' = [adapter EXCEPT ![c.robot] = c.task]
                    /\ mail' = [mail EXCEPT ![c.robot] =
                                  Append(@, [task |-> c.task, status |-> "IN_PROGRESS"])]
                    /\ runs' = [runs EXCEPT ![c.task] = @ + 1]
               ELSE UNCHANGED <<robot, mail, runs>>
    BY <1>14 DEF Take
  <2>3. responses' \subseteq Answers
    BY <1>0, <2>1, <2>2 DEF OtherTypes, Answers
  <2>4. mail' \in [Robots -> Seq(Mails)]
    <3>1. [task |-> c.task, status |-> "IN_PROGRESS"] \in Mails /\ mail[c.robot] \in Seq(Mails)
      BY <1>0, <2>1 DEF Mails, OtherTypes
    <3>2. Append(mail[c.robot], [task |-> c.task, status |-> "IN_PROGRESS"]) \in Seq(Mails)
      BY <3>1
    <3> QED  BY <1>0, <2>2, <3>2 DEF OtherTypes
  <2>5. /\ job' \in [Robots -> Tasks \cup {NoTask}]
        /\ adapter' \in [Robots -> Tasks \cup {NoTask}]
        /\ runs' \in [Tasks -> Nat]
    <3>0. /\ job \in [Robots -> Tasks \cup {NoTask}]
          /\ adapter \in [Robots -> Tasks \cup {NoTask}]
          /\ runs \in [Tasks -> Nat]
      BY <1>0 DEF OtherTypes
    <3>1. CASE ok
      <4>1. runs[c.task] + 1 \in Nat
        BY <2>1, <3>0
      <4> QED  BY <2>1, <2>2, <3>0, <3>1, <4>1
    <3>2. CASE ~ok
      BY <2>2, <3>0, <3>2 DEF robot
    <3> QED  BY <3>1, <3>2
  <2> QED  BY <1>0, <1>14, <2>3, <2>4, <2>5 DEF Take, OtherTypes
<1>15. CASE Lose
  BY <1>0, <1>15 DEF Lose, OtherTypes, robot
<1>16. CASE UNCHANGED fvars
  BY <1>0, <1>16 DEF fvars, OtherTypes, network, robot
<1> QED
  BY <1>1, <1>2, <1>3, <1>4, <1>5, <1>6, <1>7, <1>8, <1>9, <1>10, <1>11, <1>12, <1>13, <1>14,
     <1>15, <1>16 DEF FNext, Manager, Environment

-----------------------------------------------------------------------------
(* Theorems.                                                                *)

(* FTypeOK is the types of the records, of the tables of dispatches and of  *)
(* everything else.                                                         *)
LEMMA TypesTogether == FTypeOK <=> RecordTypes /\ DispatchTypes /\ OtherTypes
BY DEF FTypeOK, RecordTypes, DispatchTypes, OtherTypes, Booking, Reservation

(* The invariant holds at the start and is kept by every step.              *)
LEMMA Invariant == FSpec => []IInv
<1>1. FInit => IInv
  <2> SUFFICES ASSUME FInit PROVE IInv
    OBVIOUS
  <2>1. FTypeOK
    <3>1. \A S : <<>> \in Seq(S)
      OBVIOUS
    <3>2. outbox \in [Robots -> Seq(Tasks)] /\ mail \in [Robots -> Seq(Mails)]
      BY <3>1 DEF FInit
    <3>3. RecordTypes
      BY DEF FInit, RecordTypes
    <3>4. DispatchTypes
      BY <3>2 DEF FInit, DispatchTypes, Booking, Reservation
    <3>5. OtherTypes
      BY <3>2 DEF FInit, OtherTypes
    <3> QED  BY <3>3, <3>4, <3>5, TypesTogether
  <2> QED  BY <2>1 DEF FInit, IInv, QueueExact, OwnerKnown, ReservationsAgree
<1>2. IInv /\ [FNext]_fvars => IInv'
  <2> SUFFICES ASSUME IInv, [FNext]_fvars PROVE IInv'
    OBVIOUS
  <2>1. RecordTypes' /\ QueueExact' /\ OwnerKnown'
    BY TablesOfInvariant, EveryStepOfRecords, RecordsKept DEF IInv
  <2>2. DispatchTypes' /\ ReservationsAgree'
    BY DispatchesKept
  <2>3. OtherTypes'
    BY OthersKept
  <2>4. FTypeOK'
    <3>1. FTypeOK' <=> RecordTypes' /\ DispatchTypes' /\ OtherTypes'
      BY DEF FTypeOK, RecordTypes, DispatchTypes, OtherTypes, Booking, Reservation
    <3> QED  BY <2>1, <2>2, <2>3, <3>1
  <2> QED  BY <2>1, <2>2, <2>4 DEF IInv
<1> QED  BY <1>1, <1>2, PTL DEF FSpec

(* Records, dispatches, messages and memories keep their types for any      *)
(* number of tasks, robots, calls and retries.                              *)
THEOREM TypesCorrect == FSpec => []FTypeOK
BY Invariant, PTL DEF IInv

(* The scheduler holds the pending tasks and no others, however calls,      *)
(* answers, reports and timeouts interleave and whatever is lost: no started *)
(* task is dispatched again, no waiting one is forgotten by the queue.      *)
THEOREM QueueIsExact == FSpec => []QueueExact
BY Invariant, PTL DEF IInv

(* A dispatch has its robot's reservation and a reservation its dispatch,   *)
(* and only while the task is pending: no callback leaves a robot reserved  *)
(* for a task that went elsewhere.                                          *)
THEOREM ReservationsAlwaysAgree == FSpec => []ReservationsAgree
BY Invariant, PTL DEF IInv

(* The dispatcher implements the lifecycle: whatever the network does,      *)
(* every step changes the records as TaskStateMachine allows, or not at all.*)
THEOREM LifecycleImplemented == FSpec => LifecycleSpec
<1>1. FInit => Lifecycle!LInit
  BY DEF FInit, Lifecycle!LInit
<1>2. IInv /\ [FNext]_fvars => [Lifecycle!LNext]_(Lifecycle!lifecycle)
  <2> SUFFICES ASSUME IInv, [FNext]_fvars PROVE [Lifecycle!LNext]_(Lifecycle!lifecycle)
    OBVIOUS
  <2>1. RecordStep
    BY EveryStepOfRecords DEF IInv
  <2>2. CASE UNCHANGED books
    BY <2>2 DEF books, Lifecycle!lifecycle
  <2>3. ASSUME NEW t \in Tasks, Admit(t) PROVE Lifecycle!Add(t)
    BY <2>3 DEF Admit, Lifecycle!Add
  <2>4. ASSUME NEW t \in Tasks, Completed(t) PROVE Lifecycle!Complete(t)
    BY <2>4 DEF Completed, Lifecycle!Complete
  <2>5. ASSUME NEW t \in Tasks, NEW r \in Robots, Started(t, r) PROVE Lifecycle!Start(t, r)
    BY <2>5 DEF Started, StartTask, Lifecycle!Start
  <2>6. ASSUME NEW t \in Tasks, NEW r \in Robots, Failed(t, r) PROVE Lifecycle!Fail(t, r)
    BY <2>6 DEF Failed, FailTask, Lifecycle!Fail
  <2> QED
    BY <2>1, <2>2, <2>3, <2>4, <2>5, <2>6 DEF RecordStep, Lifecycle!LNext
<1> QED  BY <1>1, <1>2, Invariant, PTL DEF FSpec, LifecycleSpec, Lifecycle!LSpec

-----------------------------------------------------------------------------
(* Robots a task was requested for.                                         *)
Fits(t, r) == Pin[t] \in {NoRobot, r}
Fitting(inf) == \A t \in Tasks : inf[t] # NoDispatch => Fits(t, inf[t].robot)

\* Every robot that may yet start a task is one the task was requested for.
PinInv ==
  /\ Fitting(inflight)
  /\ \A t \in Tasks : \A r \in sent[t] : Fits(t, r)
  /\ \A c \in requests \cup responses : Fits(c.task, c.robot)
  /\ PinKept

(* A round books fitting robots only.                                       *)
LEMMA RoundFits ==
  ASSUME NEW q, NEW inf, NEW res, NEW back, NEW gone, NEW box,
         Round(q, inf, res, back, gone, box), Fitting(inf), fresh \subseteq Robots
  PROVE  Fitting(inflight')
<1> DEFINE waiting == {t \in q : inf[t] = NoDispatch /\ Called(t, box) < MaxCalls}
<1>1. PICK A \in Allocations(waiting, Candidates(res, back, gone)) :
        inflight' = [t \in Tasks |->
          IF \E r \in Robots : <<t, r>> \in A
            THEN [robot |-> CHOOSE r \in Robots : <<t, r>> \in A, call |-> 0, stage |-> "waiting"]
            ELSE inf[t]]
  BY DEF Round
<1>2. \A p \in A : Pin[p[1]] \in {NoRobot, p[2]}
  BY DEF Allocations
<1> SUFFICES ASSUME NEW t \in Tasks, inflight'[t] # NoDispatch
             PROVE  Fits(t, inflight'[t].robot)
  BY DEF Fitting
<1>3. CASE \E r \in Robots : <<t, r>> \in A
  <2> DEFINE first == CHOOSE r \in Robots : <<t, r>> \in A
  <2>1. <<t, first>> \in A
    BY <1>3
  <2>2. inflight'[t].robot = first
    BY <1>1, <1>3
  <2> HIDE DEF first
  <2>3. Pin[t] \in {NoRobot, first}
    BY <1>2, <2>1
  <2> QED BY <2>2, <2>3 DEF Fits
<1>4. CASE \A r \in Robots : <<t, r>> \notin A
  <2>1. inflight'[t] = inf[t]
    BY <1>1, <1>4
  <2> QED BY <1>4, <2>1 DEF Fitting
<1> QED BY <1>3, <1>4

(* Nothing but a start of a fitting robot puts a task in progress.          *)
LEMMA StartFits ==
  ASSUME FTypeOK, PinKept, NEW t \in Tasks, NEW r \in Robots, Fits(t, r), StartTask(t, r)
  PROVE  PinKept'
BY DEF StartTask, PinKept, FTypeOK, Fits

LEMMA FailFits ==
  ASSUME FTypeOK, PinKept, NEW t \in Tasks, NEW r, FailTask(t, r)
  PROVE  PinKept'
BY DEF FailTask, PinKept, FTypeOK

LEMMA ConfirmFits ==
  ASSUME FTypeOK, PinKept, Fitting(inflight), NEW t \in Tasks, NEW r \in Robots,
         Fits(t, r), Confirm(t, r)
  PROVE  PinKept' /\ Fitting(inflight')
<1>1. Fitting(inflight')
  BY DEF Confirm, Clear, Unbooked, Fitting, FTypeOK
<1>2. CASE StartTask(t, r)
  BY <1>1, <1>2, StartFits
<1>3. CASE UNCHANGED books
  BY <1>1, <1>3 DEF books, PinKept
<1> QED BY <1>2, <1>3 DEF Confirm

LEMMA StartedFits ==
  ASSUME FTypeOK, PinKept, Fitting(inflight), NEW t \in Tasks, NEW r \in Robots,
         NEW heard, heard => Fits(t, r), RobotStarted(t, r, heard)
  PROVE  PinKept' /\ Fitting(inflight')
<1>1. CASE inflight[t] # NoDispatch /\ inflight[t].robot = r /\ Confirm(t, r)
  <2>1. Fits(t, r)
    BY <1>1 DEF Fitting
  <2> QED BY <1>1, <2>1, ConfirmFits
<1>2. CASE MayStartLate(t, r, heard) /\ StartTask(t, r) /\ UNCHANGED dispatch
  <2>1. Fits(t, r)
    BY <1>2 DEF MayStartLate
  <2> QED BY <1>2, <2>1, StartFits DEF dispatch, Fitting
<1>3. CASE UNCHANGED <<books, dispatch>>
  BY <1>3 DEF books, dispatch, PinKept, Fitting
<1> QED BY <1>1, <1>2, <1>3 DEF RobotStarted

LEMMA AbortFits ==
  ASSUME FTypeOK, Fitting(inflight), NEW t \in Tasks, NEW r, NEW gone, NEW box,
         Abort(t, r, gone, box)
  PROVE  Fitting(inflight')
<1>1. Fitting(Unbooked(t))
  BY DEF Unbooked, Fitting, FTypeOK
<1> QED BY <1>1, RoundFits DEF Abort, FTypeOK

LEMMA PinSteps ==
  ASSUME IInv, PinInv, [FNext]_fvars
  PROVE  PinInv'
<1> USE DEF IInv
<1>0. /\ FTypeOK /\ fresh \subseteq Robots /\ inflight \in [Tasks -> Dispatches \cup {NoDispatch}]
      /\ PinKept /\ Fitting(inflight)
      /\ \A t \in Tasks : \A r \in sent[t] : Fits(t, r)
      /\ \A c \in requests \cup responses : Fits(c.task, c.robot)
      /\ sent \in [Tasks -> SUBSET Robots]
  BY DEF FTypeOK, PinInv
<1> DEFINE Goal == PinKept' /\ Fitting(inflight')
<1> DEFINE Quiet == UNCHANGED <<sent, requests, responses>>
<1>q. ASSUME Goal, Quiet PROVE PinInv'
  BY <1>0, <1>q DEF PinInv
<1>b. UNCHANGED books => PinKept'
  BY <1>0 DEF books, PinKept
<1>1. ASSUME NEW t \in Tasks, OnTaskRequest(t) \/ OnAssignTask(t) PROVE PinInv'
  <2>1. PinKept'
    BY <1>0, <1>1 DEF OnTaskRequest, OnAssignTask, Admit, PinKept, FTypeOK
  <2>2. Fitting(inflight')
    <3>1. CASE OnTaskRequest(t)
      BY <1>0, <3>1 DEF OnTaskRequest, dispatch, Fitting
    <3>2. CASE OnAssignTask(t)
      BY <1>0, <3>2, RoundFits DEF OnAssignTask
    <3> QED BY <1>1, <3>1, <3>2
  <2> QED BY <1>1, <1>q, <2>1, <2>2 DEF OnTaskRequest, OnAssignTask, network
<1>2. ASSUME NEW t \in Tasks, TaskTimeout(t) PROVE PinInv'
  <2>1. PinKept'
    BY <1>0, <1>2, FailFits DEF TaskTimeout
  <2>2. Fitting(inflight')
    BY <1>0, <1>2 DEF TaskTimeout, Clear, Unbooked, Fitting
  <2>3. \A u \in Tasks : \A r \in sent'[u] : Fits(u, r)
    BY <1>0, <1>2 DEF TaskTimeout, FailTask
  <2> QED BY <1>0, <1>2, <2>1, <2>2, <2>3 DEF TaskTimeout, network, PinInv
<1>3. ASSUME NEW r \in Robots, OnRobotState(r) PROVE PinInv'
  <2>1. CASE reports[r] \in Tasks /\ reserved[r] = reports[r] /\ Confirm(reports[r], r)
    <3>1. inflight[reports[r]] # NoDispatch /\ inflight[reports[r]].robot = r
      BY <2>1, DispatchFacts DEF ReservationsAgree
    <3>2. Fits(reports[r], r)
      BY <1>0, <2>1, <3>1 DEF Fitting
    <3>3. Goal
      BY <1>0, <2>1, <3>2, ConfirmFits
    <3> QED BY <1>3, <1>q, <3>3 DEF OnRobotState
  <2>2. ASSUME inflight' = [t \in Tasks |->
                  IF inflight[t] # NoDispatch /\ inflight[t].robot = r /\ inflight[t].stage = "late"
                    THEN [inflight[t] EXCEPT !.stage = "checked"] ELSE inflight[t]],
               IF reports[r] \in Tasks /\ MayStartLate(reports[r], r, r \in sent[reports[r]])
                 THEN StartTask(reports[r], r) ELSE UNCHANGED books
        PROVE  PinInv'
    <3>1. \A t \in Tasks : inflight[t] # NoDispatch =>
            [inflight[t] EXCEPT !.stage = "checked"].robot = inflight[t].robot
      BY <1>0 DEF Dispatches
    <3>2. \A t \in Tasks : inflight'[t] # NoDispatch =>
            inflight[t] # NoDispatch /\ inflight'[t].robot = inflight[t].robot
      BY <2>2, <3>1
    <3>3. Fitting(inflight')
      BY <1>0, <3>2 DEF Fitting
    <3>4. PinKept'
      <4>1. CASE reports[r] \in Tasks /\ MayStartLate(reports[r], r, r \in sent[reports[r]])
        <5>1. Fits(reports[r], r)
          BY <1>0, <4>1 DEF MayStartLate
        <5> QED BY <1>0, <2>2, <4>1, <5>1, StartFits
      <4>2. CASE UNCHANGED books
        BY <1>b, <4>2
      <4> QED BY <2>2, <4>1, <4>2
    <3> QED BY <1>3, <1>q, <3>3, <3>4 DEF OnRobotState
  <2> QED BY <1>3, <2>1, <2>2 DEF OnRobotState
<1>4. ASSUME NEW r \in Robots, OnTaskStatus(r) PROVE PinInv'
  <2> DEFINE m == Head(mail[r])
  <2> DEFINE t == m.task
  <2>1. t \in Tasks
    <3>1. mail[r] \in Seq(Mails) /\ mail[r] # <<>>
      BY <1>4 DEF FTypeOK, OnTaskStatus
    <3>2. m \in Mails
      BY <3>1
    <3> QED  BY <3>2 DEF Mails
  <2> HIDE DEF m
  <2>2. UNCHANGED <<requests, responses>>
    BY <1>4 DEF OnTaskStatus
  <2>3. CASE RobotStarted(t, r, r \in sent[t] \/ r = Pin[t]) /\ UNCHANGED sent
    <3>1. r \in sent[t] \/ r = Pin[t] => Fits(t, r)
      BY <1>0, <2>1 DEF Fits
    <3>2. Goal
      BY <1>0, <2>1, <2>3, <3>1, StartedFits
    <3> QED BY <1>q, <2>2, <2>3, <3>2
  <2>4. CASE /\ status[t] = "IN_PROGRESS" /\ status' = [status EXCEPT ![t] = "COMPLETED"]
             /\ sent' = [sent EXCEPT ![t] = {}]
             /\ UNCHANGED <<owner, failures, queue, dispatch>>
    <3>1. PinKept'
      BY <1>0, <2>1, <2>4 DEF PinKept, FTypeOK
    <3>2. Fitting(inflight')
      BY <1>0, <2>4 DEF dispatch, Fitting
    <3>3. \A u \in Tasks : \A q \in sent'[u] : Fits(u, q)
      BY <1>0, <2>4
    <3> QED BY <1>0, <2>2, <3>1, <3>2, <3>3 DEF PinInv
  <2>5. CASE Clear(t) /\ FailTask(t, r)
    <3>1. PinKept'
      BY <1>0, <2>1, <2>5, FailFits
    <3>2. Fitting(inflight')
      BY <1>0, <2>5 DEF Clear, Unbooked, Fitting
    <3>3. \A u \in Tasks : \A q \in sent'[u] : Fits(u, q)
      BY <1>0, <2>5 DEF FailTask
    <3> QED BY <1>0, <2>2, <3>1, <3>2, <3>3 DEF PinInv
  <2>6. CASE UNCHANGED <<books, dispatch, sent>>
    BY <1>0, <1>b, <1>q, <2>2, <2>6 DEF dispatch, Fitting
  <2> QED BY <1>4, <2>3, <2>4, <2>5, <2>6 DEF OnTaskStatus, m
<1>5. ASSUME NEW p \in responses, OnAssignResponse(p) PROVE PinInv'
  <2>1. p.task \in Tasks /\ p.robot \in Robots /\ Fits(p.task, p.robot)
    BY <1>0 DEF FTypeOK, Answers
  <2>2. Goal
    <3>1. CASE Confirm(p.task, p.robot)
      BY <1>0, <2>1, <3>1, ConfirmFits
    <3>2. CASE Abort(p.task, p.robot, lost, outbox) /\ UNCHANGED books
      BY <1>0, <1>b, <2>1, <3>2, AbortFits
    <3>3. CASE RobotStarted(p.task, p.robot, p.robot \in sent[p.task])
      BY <1>0, <2>1, <3>3, StartedFits
    <3>4. CASE UNCHANGED <<books, dispatch>>
      BY <1>0, <1>b, <3>4 DEF dispatch, Fitting
    <3> QED BY <1>5, <3>1, <3>2, <3>3, <3>4 DEF OnAssignResponse
  <2>3. responses' \subseteq responses /\ UNCHANGED <<sent, requests>>
    BY <1>5 DEF OnAssignResponse
  <2> QED BY <1>0, <2>2, <2>3 DEF PinInv
<1>6. ASSUME NEW r \in Robots, OnOutboxRelease(r) PROVE PinInv'
  <2> DEFINE t == Head(outbox[r])
  <2>1. t \in Tasks
    BY <1>0, <1>6 DEF OnOutboxRelease, FTypeOK
  <2> HIDE DEF t
  <2>2. PinKept' /\ UNCHANGED responses
    BY <1>6, <1>b DEF OnOutboxRelease
  <2>3. CASE /\ inflight[t] # NoDispatch
             /\ sent' = [sent EXCEPT ![t] = @ \cup {inflight[t].robot}]
             /\ inflight' = [inflight EXCEPT ![t].call = calls[t] + 1]
             /\ requests' = requests \cup
                  {[task |-> t, robot |-> inflight[t].robot, call |-> calls[t] + 1]}
    <3>1. Fits(t, inflight[t].robot)
      BY <1>0, <2>1, <2>3 DEF Fitting
    <3>2. \A u \in Tasks : \A q \in sent'[u] : Fits(u, q)
      BY <1>0, <2>1, <2>3, <3>1
    <3>3. \A c \in requests' : Fits(c.task, c.robot)
      BY <1>0, <2>3, <3>1
    <3>4. Fitting(inflight')
      <4>1. inflight[t] \in Dispatches
        BY <1>0, <2>1, <2>3
      <4>2. [inflight[t] EXCEPT !.call = calls[t] + 1].robot = inflight[t].robot
        BY <4>1 DEF Dispatches
      <4>3. \A u \in Tasks : inflight'[u] # NoDispatch =>
              inflight[u] # NoDispatch /\ inflight'[u].robot = inflight[u].robot
        BY <1>0, <2>1, <2>3, <4>2
      <4> QED BY <1>0, <4>3 DEF Fitting
    <3> QED BY <1>0, <2>2, <3>2, <3>3, <3>4 DEF PinInv
  <2>4. ASSUME Abort(t, inflight[t].robot, lost, [outbox EXCEPT ![r] = Tail(@)]),
               UNCHANGED <<sent, calls, requests>>
        PROVE  PinInv'
    BY <1>0, <1>q, <2>1, <2>2, <2>4, AbortFits
  <2>5. CASE UNCHANGED <<inflight, sent, requests>>
    BY <1>0, <1>q, <2>2, <2>5 DEF Fitting
  <2> QED BY <1>6, <2>3, <2>4, <2>5 DEF OnOutboxRelease, t
<1>7. ASSUME NEW r \in Robots, RobotLost(r) PROVE PinInv'
  <2>1. Fitting(inflight')
    <3>1. CASE reserved[r] # NoTask /\ Abort(reserved[r], r, lost \cup {r}, outbox)
      <4>1. reserved[r] \in Tasks
        BY <1>0, <3>1 DEF FTypeOK
      <4> QED BY <1>0, <3>1, <4>1, AbortFits
    <3>2. CASE UNCHANGED dispatch
      BY <1>0, <3>2 DEF dispatch, Fitting
    <3> QED BY <1>7, <3>1, <3>2 DEF RobotLost
  <2>2. PinKept' /\ \A u \in Tasks : \A q \in sent'[u] : Fits(u, q)
    <3>1. ASSUME NEW t \in Tasks, FailTask(t, r)
          PROVE  PinKept' /\ \A u \in Tasks : \A q \in sent'[u] : Fits(u, q)
      <4>1. \A u \in Tasks : \A q \in sent'[u] : Fits(u, q)
        BY <1>0, <3>1 DEF FailTask
      <4> QED BY <1>0, <3>1, <4>1, FailFits
    <3>2. CASE UNCHANGED <<books, sent>>
      BY <1>0, <1>b, <3>2
    <3> QED BY <1>7, <3>1, <3>2 DEF RobotLost, Active
  <2> QED BY <1>0, <1>7, <2>1, <2>2 DEF RobotLost, network, PinInv
<1>8. CASE OnBatchWindow
  <2>1. Fitting(inflight')
    BY <1>0, <1>8, RoundFits DEF OnBatchWindow
  <2> QED BY <1>8, <1>b, <1>q, <2>1 DEF OnBatchWindow, network
<1>r. ASSUME NEW inf, TimedRound(inf), Fitting(inf) PROVE Fitting(inflight')
  BY <1>0, <1>r, RoundFits DEF TimedRound
<1>m. ASSUME NEW t \in Tasks, inflight[t] # NoDispatch, NEW st
      PROVE  Fitting([inflight EXCEPT ![t].stage = st])
  <2>1. inflight[t] \in Dispatches
    BY <1>0, <1>m
  <2>2. [inflight[t] EXCEPT !.stage = st].robot = inflight[t].robot
    BY <2>1 DEF Dispatches
  <2> DEFINE marked == [inflight EXCEPT ![t].stage = st]
  <2>3. \A u \in Tasks : marked[u] # NoDispatch =>
          inflight[u] # NoDispatch /\ marked[u].robot = inflight[u].robot
    BY <1>0, <1>m, <2>2
  <2> HIDE DEF marked
  <2>4. Fitting(marked)
    BY <1>0, <2>3 DEF Fitting
  <2> QED BY <2>4 DEF marked
<1>9. CASE OnAllocationTimer
  <2>1. ASSUME NEW t \in Tasks, Abort(t, inflight[t].robot, lost, outbox)
        PROVE  Fitting(inflight')
    BY <1>0, <2>1, AbortFits
  <2>2. ASSUME NEW t \in Tasks, inflight[t] # NoDispatch,
               TimedRound([inflight EXCEPT ![t].stage = "unconfirmed"])
        PROVE  Fitting(inflight')
    BY <1>m, <1>r, <2>2
  <2>3. ASSUME TimedRound(inflight) PROVE Fitting(inflight')
    <3>1. CASE Round(queue, inflight, reserved, backoff, lost, outbox)
      BY <1>0, <3>1, RoundFits
    <3>2. CASE inflight' = inflight
      BY <1>0, <3>2 DEF Fitting
    <3> QED BY <2>3, <3>1, <3>2 DEF TimedRound
  <2>4. \/ \E t \in Tasks : Abort(t, inflight[t].robot, lost, outbox)
        \/ \E t \in Tasks : /\ inflight[t] # NoDispatch
                            /\ TimedRound([inflight EXCEPT ![t].stage = "unconfirmed"])
        \/ TimedRound(inflight)
    BY <1>9 DEF OnAllocationTimer, Expired
  <2>5. Fitting(inflight')
    <3>1. CASE \E t \in Tasks : Abort(t, inflight[t].robot, lost, outbox)
      BY <2>1, <3>1
    <3>2. CASE \E t \in Tasks : /\ inflight[t] # NoDispatch
                               /\ TimedRound([inflight EXCEPT ![t].stage = "unconfirmed"])
      BY <2>2, <3>2
    <3> QED BY <2>3, <2>4, <3>1, <3>2, Zenon
  <2> QED BY <1>9, <1>b, <1>q, <2>5 DEF OnAllocationTimer, network
<1>10. ASSUME NEW t \in Tasks, DeadlinePasses(t) PROVE PinInv'
  <2>1. PICK st \in {"overdue", "late"} :
          inflight[t] # NoDispatch /\ inflight' = [inflight EXCEPT ![t].stage = st]
    BY <1>10 DEF DeadlinePasses
  <2>2. Fitting([inflight EXCEPT ![t].stage = st])
    BY <1>m, <2>1
  <2>3. Fitting(inflight')
    BY <2>1, <2>2
  <2> QED BY <1>10, <1>b, <1>q, <2>3 DEF DeadlinePasses, network
<1>11. ASSUME UNCHANGED <<books, dispatch, sent>>,
              \A c \in requests' \cup responses' :
                \E d \in requests \cup responses : c.task = d.task /\ c.robot = d.robot
       PROVE  PinInv'
  <2>1. \A c \in requests' \cup responses' : Fits(c.task, c.robot)
    BY <1>0, <1>11
  <2> QED BY <1>0, <1>b, <1>11, <2>1 DEF dispatch, Fitting, PinInv
<1>12. ASSUME NEW c \in requests, Take(c) PROVE PinInv'
  <2>1. PICK ok \in BOOLEAN : responses' = responses \cup
          {[task |-> c.task, robot |-> c.robot, call |-> c.call, ok |-> ok]}
    BY <1>12 DEF Take
  <2>2. requests' \subseteq requests
    BY <1>12 DEF Take
  <2>3. UNCHANGED <<books, dispatch, sent>>
    BY <1>12 DEF Take
  <2> QED BY <1>11, <2>1, <2>2, <2>3
<1>13. CASE Lose
  <2>1. requests' \subseteq requests /\ responses' \subseteq responses
        /\ UNCHANGED <<books, dispatch, sent>>
    BY <1>13 DEF Lose
  <2> QED BY <1>11, <2>1
<1>14. ASSUME NEW r \in Robots,
              BackoffOver(r) \/ GoesQuiet(r) \/ Finish(r) \/ Report(r) \/ Crash(r)
       PROVE  PinInv'
  <2>1. UNCHANGED <<books, dispatch, sent>> /\ UNCHANGED <<requests, responses>>
    BY <1>14 DEF BackoffOver, GoesQuiet, Finish, Report, Crash, network
  <2> QED BY <1>11, <2>1
<1>15. CASE UNCHANGED fvars
  BY <1>11, <1>15 DEF fvars, network
<1> QED
  BY <1>1, <1>2, <1>3, <1>4, <1>5, <1>6, <1>7, <1>8, <1>9, <1>10, <1>12, <1>13, <1>14, <1>15
  DEF FNext, Manager, Environment

(* A task requested for one robot is never started on another, whatever is  *)
(* delayed, lost or late: only robots it was sent to can start it.          *)
THEOREM PinsAreKept == FSpec => []PinKept
<1>1. FInit => PinInv
  BY DEF FInit, PinInv, Fitting, PinKept
<1>2. PinInv => PinKept
  BY DEF PinInv
<1> QED BY <1>1, <1>2, Invariant, PinSteps, PTL DEF FSpec

-----------------------------------------------------------------------------
(* How often a task is carried out.                                         *)

\* The calls of t under way, and the executions of t that they and the past make.
Asked(t) == {c \in requests : c.task = t}
Spent(t) == runs[t] + Cardinality(Asked(t))

\* One more call of t would still be allowed.
Slack(t) == Spent(t) <= failures[t]

\* t waits for a call that has not been made.
Unsent(t) ==
  \/ status[t] = "unknown"
  \/ status[t] = "PENDING" /\ (inflight[t] = NoDispatch \/ inflight[t].call = 0)

Told(t, r) ==
  \E k \in DOMAIN mail[r] : mail[r][k] = [task |-> t, status |-> "IN_PROGRESS"]

CallOf(t) == [task |-> t, robot |-> inflight[t].robot, call |-> inflight[t].call]

Young(d) == d # NoDispatch /\ d.call = 0 => d.stage \in {"waiting", "overdue"}

\* A call that was made is on its way or has been taken, or it is known to
\* have come to nothing: by the time it is given up it is.
CallAccounted(t) ==
  /\ \/ CallOf(t) \in requests \/ Slack(t)
     \/ \E r \in Robots : r = inflight[t].robot /\ Told(t, r)
  /\ inflight[t].stage \in {"late", "checked"} => Slack(t)
  /\ \A p \in responses :
       p.task = t /\ p.call = inflight[t].call => p.ok \/ Slack(t)

CallInv(t) ==
  /\ Spent(t) <= failures[t] + 1
  /\ Unsent(t) => Slack(t)
  /\ Young(inflight[t])
  /\ inflight[t] # NoDispatch /\ inflight[t].call # 0 => CallAccounted(t)

CallsNumbered ==
  /\ IsFiniteSet(requests)
  /\ \A r \in Robots : r \in fresh \/ seen[r] = Unseen
  /\ \A c \in requests \cup responses : c.call \in 1..calls[c.task]

SingleInv == CallsNumbered /\ \A t \in Tasks : CallInv(t)

-----------------------------------------------------------------------------
(* Counting calls.                                                          *)

LEMMA SpentIsNumber ==
  ASSUME FTypeOK, IsFiniteSet(requests), NEW t \in Tasks
  PROVE  Spent(t) \in Nat /\ IsFiniteSet(Asked(t))
<1>1. IsFiniteSet(Asked(t)) /\ Cardinality(Asked(t)) \in Nat
  BY FS_Subset, FS_CardinalityType DEF Asked
<1> QED BY <1>1 DEF Spent, FTypeOK

(* Calls and executions as they were: the same is spent.                    *)
LEMMA SpentStays ==
  ASSUME NEW t \in Tasks, UNCHANGED <<requests, runs>>
  PROVE  Spent(t)' = Spent(t)
BY DEF Spent, Asked

(* A call of t more, and a call less.                                       *)
LEMMA SpentMore ==
  ASSUME FTypeOK, IsFiniteSet(requests), NEW t \in Tasks, NEW c, c.task = t, c \notin requests,
         requests' = requests \cup {c}, UNCHANGED runs
  PROVE  Spent(t)' = Spent(t) + 1
<1>1. Asked(t)' = Asked(t) \cup {c} /\ c \notin Asked(t)
  BY DEF Asked
<1>2. Cardinality(Asked(t)') = Cardinality(Asked(t)) + 1
  BY <1>1, SpentIsNumber, FS_AddElement
<1>3. runs[t] \in Nat /\ Cardinality(Asked(t)) \in Nat
  BY SpentIsNumber, FS_CardinalityType DEF FTypeOK
<1> QED BY <1>2, <1>3 DEF Spent

LEMMA AskedLess ==
  ASSUME FTypeOK, IsFiniteSet(requests), NEW c \in requests, requests' = requests \ {c}
  PROVE  /\ Cardinality(Asked(c.task)') = Cardinality(Asked(c.task)) - 1
         /\ Cardinality(Asked(c.task)) \in Nat
         /\ \A t \in Tasks \ {c.task} : Asked(t)' = Asked(t)
<1>1. Asked(c.task)' = Asked(c.task) \ {c} /\ c \in Asked(c.task)
  BY DEF Asked
<1>2. IsFiniteSet(Asked(c.task))
  BY FS_Subset DEF Asked
<1>3. Cardinality(Asked(c.task)') = Cardinality(Asked(c.task)) - 1
  BY <1>1, <1>2, FS_RemoveElement
<1>4. \A t \in Tasks \ {c.task} : Asked(t)' = Asked(t)
  BY DEF Asked
<1> QED BY <1>2, <1>3, <1>4, FS_CardinalityType

LEMMA ToldStays ==
  ASSUME UNCHANGED mail
  PROVE  \A t, r : Told(t, r) => Told(t, r)'
<1> SUFFICES ASSUME NEW t, NEW r, Told(t, r) PROVE Told(t, r)'
  OBVIOUS
<1> QED BY DEF Told

-----------------------------------------------------------------------------
(* How a step may treat the call of a task.                                 *)

(* It may leave all that counts for t alone.                                *)
LEMMA CallStays ==
  ASSUME NEW t \in Tasks, CallInv(t), Asked(t)' = Asked(t),
         runs'[t] = runs[t], failures'[t] = failures[t],
         status'[t] = status[t], inflight'[t] = inflight[t],
         \A r \in Robots :
           inflight[t] # NoDispatch /\ inflight[t].robot = r /\ Told(t, r) => Told(t, r)',
         \A p \in responses' : p.task = t => p \in responses
  PROVE  CallInv(t)'
<1>1. Spent(t)' = Spent(t) /\ (Slack(t)' <=> Slack(t)) /\ (Unsent(t)' <=> Unsent(t))
  BY DEF Spent, Slack, Unsent
<1>2. CallOf(t)' = CallOf(t)
  BY DEF CallOf
<1>3. CallOf(t) \in requests => CallOf(t)' \in requests'
  BY <1>2 DEF Asked, CallOf
<1>4. ASSUME inflight[t] # NoDispatch, CallAccounted(t) PROVE CallAccounted(t)'
  BY <1>1, <1>3, <1>4 DEF CallAccounted
<1> QED BY <1>1, <1>4 DEF CallInv, Young

(* It may leave t with room for one more call.                              *)
LEMMA CallSpare ==
  ASSUME NEW t \in Tasks, Slack(t)', Spent(t)' \in Nat, failures'[t] \in Nat, Young(inflight'[t])
  PROVE  CallInv(t)'
BY DEF CallInv, CallAccounted, Slack, Young

(* It may end the wait of t.                                                *)
LEMMA CallOver ==
  ASSUME NEW t \in Tasks, inflight'[t] = NoDispatch, status'[t] \notin {"unknown", "PENDING"},
         Spent(t)' <= failures'[t] + 1
  PROVE  CallInv(t)'
BY DEF CallInv, Unsent, Young

(* It may note how long the call of t has been out.                         *)
LEMMA CallStaged ==
  ASSUME NEW t \in Tasks, CallInv(t), UNCHANGED <<requests, runs, mail, responses>>,
         failures'[t] = failures[t], status'[t] = status[t],
         inflight[t] \in Dispatches, inflight[t].call # 0,
         NEW st \in Stages \ {"late", "checked"},
         inflight'[t] = [inflight[t] EXCEPT !.stage = st]
  PROVE  CallInv(t)'
<1>1. /\ inflight'[t].robot = inflight[t].robot /\ inflight'[t].call = inflight[t].call
      /\ inflight'[t].stage = st /\ inflight[t] # NoDispatch /\ inflight'[t] # NoDispatch
  BY DispatchAssumption DEF Dispatches
<1>2. Spent(t)' = Spent(t) /\ (Slack(t)' <=> Slack(t))
  BY DEF Spent, Asked, Slack
<1>3. CallOf(t)' = CallOf(t)
  BY <1>1 DEF CallOf
<1>r. \A r : Told(t, r) => Told(t, r)'
  BY ToldStays
<1>4. CallAccounted(t)'
  <2>1. CallAccounted(t)
    BY <1>1 DEF CallInv
  <2> QED BY <1>1, <1>2, <1>3, <1>r, <2>1 DEF CallAccounted
<1>5. Unsent(t)' => Unsent(t)
  BY <1>1 DEF Unsent
<1> QED BY <1>1, <1>2, <1>4, <1>5 DEF CallInv, Young

-----------------------------------------------------------------------------
(* What callbacks do to the calls.                                          *)

(* An allocation round leaves the dispatch of a task alone or makes its     *)
(* first one, on a robot that has nothing to do in the books.               *)
LEMMA RoundOfTask ==
  ASSUME NEW q, NEW inf, NEW res, NEW back, NEW gone, NEW box,
         Round(q, inf, res, back, gone, box), fresh \subseteq Robots, NEW t \in Tasks
  PROVE  \/ inflight'[t] = inf[t]
         \/ /\ t \in q /\ inf[t] = NoDispatch
            /\ \E r \in Robots \ back :
                 /\ Active(r) = {}
                 /\ inflight'[t] = [robot |-> r, call |-> 0, stage |-> "waiting"]
<1> DEFINE waiting == {u \in q : inf[u] = NoDispatch /\ Called(u, box) < MaxCalls}
<1>1. PICK A \in Allocations(waiting, Candidates(res, back, gone)) :
        inflight' = [u \in Tasks |->
          IF \E r \in Robots : <<u, r>> \in A
            THEN [robot |-> CHOOSE r \in Robots : <<u, r>> \in A,
                  call |-> 0, stage |-> "waiting"]
            ELSE inf[u]]
  BY DEF Round
<1>2. A \in SUBSET (waiting \X Candidates(res, back, gone))
  BY DEF Allocations
<1>3. CASE \E r \in Robots : <<t, r>> \in A
  <2> DEFINE first == CHOOSE r \in Robots : <<t, r>> \in A
  <2>1. first \in Robots /\ <<t, first>> \in A
    BY <1>3
  <2>2. inflight'[t] = [robot |-> first, call |-> 0, stage |-> "waiting"]
    BY <1>1, <1>3
  <2> HIDE DEF first
  <2>3. t \in q /\ inf[t] = NoDispatch /\ Active(first) = {} /\ first \notin back
    BY <1>2, <2>1 DEF Candidates
  <2> QED BY <2>1, <2>2, <2>3
<1>4. CASE ~\E r \in Robots : <<t, r>> \in A
  BY <1>1, <1>4
<1> QED BY <1>3, <1>4

\* Nothing is taken up, delivered or lost, but answers may be.
CallsUntouched ==
  UNCHANGED <<requests, runs, failures, mail>> /\ responses' \subseteq responses

LEMMA SlackStays ==
  ASSUME FTypeOK, CallsNumbered, CallsUntouched, NEW t \in Tasks
  PROVE  /\ (Slack(t)' <=> Slack(t)) /\ Asked(t)' = Asked(t)
         /\ Spent(t)' = Spent(t) /\ Spent(t)' \in Nat /\ failures'[t] \in Nat
<1>1. Spent(t)' = Spent(t) /\ Asked(t)' = Asked(t)
  BY DEF Spent, Asked, CallsUntouched
<1>2. Spent(t) \in Nat
  BY SpentIsNumber DEF CallsNumbered
<1> QED BY <1>1, <1>2 DEF Slack, CallsUntouched, FTypeOK

(* A callback that only books keeps the call of t accounted for, if it      *)
(* leaves t alone or knows that t has room for a call.                      *)
LEMMA BookedCalls ==
  ASSUME FTypeOK, CallsNumbered, CallsUntouched, NEW t \in Tasks, CallInv(t),
         \/ inflight'[t] = inflight[t] /\ status'[t] = status[t]
         \/ Slack(t) /\ Young(inflight'[t])
  PROVE  CallInv(t)'
<1>1. CASE inflight'[t] = inflight[t] /\ status'[t] = status[t]
  <2>1. \A r : Told(t, r) => Told(t, r)'
    BY ToldStays DEF CallsUntouched
  <2> QED BY <1>1, <2>1, SlackStays, CallStays DEF CallsUntouched
<1>2. CASE Slack(t) /\ Young(inflight'[t])
  BY <1>2, SlackStays, CallSpare
<1> QED BY <1>1, <1>2

LEMMA RoundCalls ==
  ASSUME FTypeOK, CallsNumbered, CallsUntouched, NEW t \in Tasks, CallInv(t),
         NEW q, NEW inf, NEW res, NEW back, NEW gone, NEW box,
         Round(q, inf, res, back, gone, box),
         t \in q => status[t] \in {"unknown", "PENDING"},
         inf[t] = inflight[t] \/ (Slack(t) /\ Young(inf[t])),
         status'[t] = status[t] \/ status[t] = "unknown"
  PROVE  CallInv(t)'
<1>1. fresh \subseteq Robots
  BY DEF FTypeOK
<1>2. CASE inflight'[t] = inf[t]
  <2>1. CASE inf[t] = inflight[t] /\ status'[t] = status[t]
    BY <1>2, <2>1, BookedCalls
  <2>2. CASE inf[t] = inflight[t] /\ status[t] = "unknown"
    BY <1>2, <2>2, BookedCalls DEF CallInv, Unsent
  <2>3. CASE Slack(t) /\ Young(inf[t])
    BY <1>2, <2>3, BookedCalls
  <2> QED BY <2>1, <2>2, <2>3
<1>3. ASSUME t \in q, inf[t] = NoDispatch, NEW r \in Robots,
             inflight'[t] = [robot |-> r, call |-> 0, stage |-> "waiting"]
      PROVE  CallInv(t)'
  <2>1. Slack(t)
    BY <1>3 DEF CallInv, Unsent
  <2> QED BY <1>3, <2>1, BookedCalls DEF Young
<1>4. \/ inflight'[t] = inf[t]
      \/ /\ t \in q /\ inf[t] = NoDispatch
         /\ \E r \in Robots :
              inflight'[t] = [robot |-> r, call |-> 0, stage |-> "waiting"]
  BY <1>1, RoundOfTask
<1> QED BY <1>2, <1>3, <1>4

LEMMA AbortCalls ==
  ASSUME IInv, SingleInv, CallsUntouched, UNCHANGED status,
         NEW t \in Tasks, Slack(t), NEW r, NEW gone, NEW box, Abort(t, r, gone, box)
  PROVE  \A u \in Tasks : CallInv(u)'
<1> SUFFICES ASSUME NEW u \in Tasks PROVE CallInv(u)'
  OBVIOUS
<1>1. FTypeOK /\ CallsNumbered /\ CallInv(u)
  BY DEF IInv, SingleInv
<1>2. Unbooked(t)[u] = inflight[u] \/ (Slack(u) /\ Young(Unbooked(t)[u]))
  BY <1>1 DEF Unbooked, FTypeOK, Young
<1>3. u \in queue => status[u] \in {"unknown", "PENDING"}
  BY TablesOfInvariant
<1>4. Round(queue, Unbooked(t), Unreserved(t), backoff \cup {r}, gone, box)
  BY DEF Abort
<1> HIDE DEF Unbooked
<1> QED BY <1>1, <1>2, <1>3, <1>4, RoundCalls

(* The others' calls stay as they are while one task starts, fails or ends. *)
LEMMA OtherCalls ==
  ASSUME NEW t \in Tasks, NEW u \in Tasks \ {t}, CallInv(u),
         UNCHANGED <<requests, runs>>, responses' \subseteq responses,
         failures'[u] = failures[u], status'[u] = status[u], inflight'[u] = inflight[u],
         \A r \in Robots : Told(u, r) => Told(u, r)'
  PROVE  CallInv(u)'
<1>1. Asked(u)' = Asked(u)
  BY DEF Asked
<1> QED BY <1>1, CallStays

LEMMA ConfirmCalls ==
  ASSUME IInv, SingleInv, NEW t \in Tasks, NEW r \in Robots, inflight[t] # NoDispatch,
         Confirm(t, r), UNCHANGED <<requests, runs>>, responses' \subseteq responses,
         \A u \in Tasks \ {t} : \A k \in Robots : Told(u, k) => Told(u, k)'
  PROVE  \A u \in Tasks : CallInv(u)'
<1>0. FTypeOK /\ status[t] = "PENDING"
  BY DEF IInv, ReservationsAgree
<1>1. StartTask(t, r) /\ inflight' = Unbooked(t)
  BY <1>0 DEF Confirm, Clear
<1>2. CallInv(t)'
  <2>1. inflight'[t] = NoDispatch /\ status'[t] = "IN_PROGRESS" /\ failures' = failures
    BY <1>0, <1>1 DEF StartTask, Unbooked, FTypeOK
  <2>2. Spent(t)' <= failures'[t] + 1
    BY <2>1, SpentStays DEF SingleInv, CallInv
  <2> QED BY <2>1, <2>2, CallOver
<1>3. ASSUME NEW u \in Tasks \ {t} PROVE CallInv(u)'
  <2>1. inflight'[u] = inflight[u] /\ status'[u] = status[u] /\ failures'[u] = failures[u]
    BY <1>0, <1>1 DEF StartTask, Unbooked, FTypeOK
  <2> QED BY <1>3, <2>1, OtherCalls DEF SingleInv
<1> QED BY <1>2, <1>3

LEMMA LateStartCalls ==
  ASSUME IInv, SingleInv, NEW t \in Tasks, NEW r \in Robots, inflight[t] = NoDispatch,
         StartTask(t, r), UNCHANGED <<requests, runs, inflight>>, responses' \subseteq responses,
         \A u \in Tasks \ {t} : \A k \in Robots : Told(u, k) => Told(u, k)'
  PROVE  \A u \in Tasks : CallInv(u)'
<1>0. FTypeOK
  BY DEF IInv
<1>2. CallInv(t)'
  <2>1. inflight'[t] = NoDispatch /\ status'[t] = "IN_PROGRESS" /\ failures' = failures
    BY <1>0 DEF StartTask, FTypeOK
  <2>2. Spent(t)' <= failures'[t] + 1
    BY <2>1, SpentStays DEF SingleInv, CallInv
  <2> QED BY <2>1, <2>2, CallOver
<1>3. ASSUME NEW u \in Tasks \ {t} PROVE CallInv(u)'
  <2>1. inflight'[u] = inflight[u] /\ status'[u] = status[u] /\ failures'[u] = failures[u]
    BY <1>0 DEF StartTask, FTypeOK
  <2> QED BY <1>3, <2>1, OtherCalls DEF SingleInv
<1> QED BY <1>2, <1>3

LEMMA StartedCalls ==
  ASSUME IInv, SingleInv, NEW t \in Tasks, NEW r \in Robots, NEW known,
         RobotStarted(t, r, known), UNCHANGED <<requests, runs>>, responses' \subseteq responses,
         \A u \in Tasks, k \in Robots : Told(u, k) => Told(u, k)' \/ (u = t /\ k = r)
  PROVE  \A u \in Tasks : CallInv(u)'
<1>0. \A u \in Tasks \ {t} : \A k \in Robots : Told(u, k) => Told(u, k)'
  OBVIOUS
<1>1. CASE inflight[t] # NoDispatch /\ Confirm(t, r)
  BY <1>0, <1>1, ConfirmCalls
<1>2. CASE MayStartLate(t, r, known) /\ StartTask(t, r) /\ UNCHANGED dispatch
  BY <1>0, <1>2, LateStartCalls DEF MayStartLate, dispatch
<1>3. CASE /\ ~(status[t] = "PENDING" /\ inflight[t] # NoDispatch /\ inflight[t].robot = r)
           /\ UNCHANGED <<books, dispatch>>
  <2> SUFFICES ASSUME NEW u \in Tasks PROVE CallInv(u)'
    OBVIOUS
  <2>1. inflight[t] # NoDispatch => inflight[t].robot # r
    BY <1>3 DEF IInv, ReservationsAgree
  <2>2. \A k \in Robots : inflight[u] # NoDispatch /\ inflight[u].robot = k /\ Told(u, k) => Told(u, k)'
    BY <2>1
  <2>3. Asked(u)' = Asked(u) /\ CallInv(u)
    BY DEF Asked, SingleInv
  <2> QED BY <1>3, <2>2, <2>3, CallStays DEF books, dispatch
<1> QED BY <1>1, <1>2, <1>3 DEF RobotStarted

LEMMA FailedCalls ==
  ASSUME IInv, SingleInv, NEW t \in Tasks, NEW r, Clear(t), FailTask(t, r),
         UNCHANGED <<requests, runs>>, responses' \subseteq responses,
         \A u : \A k \in Robots : Told(u, k) => Told(u, k)'
  PROVE  \A u \in Tasks : CallInv(u)'
<1>0. FTypeOK /\ inflight' = Unbooked(t)
  BY DEF IInv, Clear
<1>1. CallInv(t)'
  <2>1. inflight'[t] = NoDispatch /\ failures'[t] = failures[t] + 1 /\ failures[t] \in Nat
    BY <1>0 DEF FailTask, Unbooked, FTypeOK
  <2>2. Spent(t)' = Spent(t) /\ Spent(t) \in Nat /\ Spent(t) <= failures[t] + 1
    BY <1>0, SpentStays, SpentIsNumber DEF SingleInv, CallInv, CallsNumbered
  <2>3. Slack(t)'
    BY <2>1, <2>2 DEF Slack
  <2> QED BY <2>1, <2>2, <2>3, CallSpare DEF Young
<1>2. ASSUME NEW u \in Tasks \ {t} PROVE CallInv(u)'
  <2>1. inflight'[u] = inflight[u] /\ status'[u] = status[u] /\ failures'[u] = failures[u]
    BY <1>0 DEF FailTask, Unbooked, FTypeOK
  <2> QED BY <1>2, <2>1, OtherCalls DEF SingleInv
<1> QED BY <1>1, <1>2

(* A message taken from a robot's mail is all that is forgotten.            *)
LEMMA ToldAfterMail ==
  ASSUME FTypeOK, NEW r \in Robots, mail[r] # <<>>, mail' = [mail EXCEPT ![r] = Tail(@)]
  PROVE  /\ \A t : \A k \in Robots :
              Told(t, k) => \/ Told(t, k)'
                            \/ k = r /\ Head(mail[r]) = [task |-> t, status |-> "IN_PROGRESS"]
         /\ Head(mail[r]) \in Mails
<1>0. mail[r] \in Seq(Mails) /\ mail \in [Robots -> Seq(Mails)]
  BY DEF FTypeOK
<1>1. Head(mail[r]) \in Mails
  BY <1>0
<1>2. ASSUME NEW t, NEW k \in Robots, Told(t, k)
      PROVE  \/ Told(t, k)'
             \/ k = r /\ Head(mail[r]) = [task |-> t, status |-> "IN_PROGRESS"]
  <2>1. CASE k # r
    <3>1. mail'[k] = mail[k]
      BY <1>0, <2>1
    <3> QED BY <1>2, <3>1 DEF Told
  <2>2. CASE k = r
    <3>1. PICK i \in DOMAIN mail[r] : mail[r][i] = [task |-> t, status |-> "IN_PROGRESS"]
      BY <1>2, <2>2 DEF Told
    <3>2. CASE i = 1
      BY <1>0, <2>2, <3>1, <3>2
    <3>3. CASE i # 1
      <4>1. i \in 1..Len(mail[r]) /\ mail'[r] = Tail(mail[r])
        BY <1>0, <3>1
      <4>2. i - 1 \in DOMAIN mail'[r] /\ mail'[r][i - 1] = mail[r][i]
        BY <1>0, <3>3, <4>1
      <4> QED BY <2>2, <3>1, <4>2 DEF Told
    <3> QED BY <3>2, <3>3
  <2> QED BY <2>1, <2>2
<1> QED BY <1>1, <1>2

(* A message more: nothing is forgotten.                                    *)
LEMMA ToldAndMore ==
  ASSUME FTypeOK, NEW r \in Robots, NEW m \in Mails,
         mail' = [mail EXCEPT ![r] = Append(@, m)]
  PROVE  /\ \A t : \A k \in Robots : Told(t, k) => Told(t, k)'
         /\ \A t : m = [task |-> t, status |-> "IN_PROGRESS"] => Told(t, r)'
<1>0. mail[r] \in Seq(Mails) /\ mail \in [Robots -> Seq(Mails)]
  BY DEF FTypeOK
<1>1. ASSUME NEW t, NEW k \in Robots, Told(t, k) PROVE Told(t, k)'
  <2>1. CASE k # r
    <3>1. mail'[k] = mail[k]
      BY <1>0, <2>1
    <3> QED BY <1>1, <3>1 DEF Told
  <2>2. CASE k = r
    <3>1. PICK i \in DOMAIN mail[r] : mail[r][i] = [task |-> t, status |-> "IN_PROGRESS"]
      BY <1>1, <2>2 DEF Told
    <3>2. i \in 1..Len(mail[r]) /\ mail'[r] = Append(mail[r], m)
      BY <1>0, <3>1
    <3>3. i \in DOMAIN mail'[r] /\ mail'[r][i] = mail[r][i]
      BY <1>0, <3>2
    <3> QED BY <2>2, <3>1, <3>3 DEF Told
  <2> QED BY <2>1, <2>2
<1>2. ASSUME NEW t, m = [task |-> t, status |-> "IN_PROGRESS"] PROVE Told(t, r)'
  <2>1. mail'[r] = Append(mail[r], m)
    BY <1>0
  <2>2. Len(mail[r]) + 1 \in DOMAIN mail'[r] /\ mail'[r][Len(mail[r]) + 1] = m
    BY <1>0, <2>1
  <2> QED BY <1>2, <2>2 DEF Told
<1> QED BY <1>1, <1>2
-----------------------------------------------------------------------------
(* Steps.                                                                   *)

(* Calls keep their numbers and answers those of their calls; no robot goes *)
(* quiet.                                                                   *)
LEMMA NumbersKept ==
  ASSUME IInv, SingleInv, "quiet" \notin Faults, [FNext]_fvars
  PROVE  CallsNumbered'
<1>0. /\ FTypeOK /\ CallsNumbered
      /\ calls \in [Tasks -> Nat] /\ requests \subseteq Calls /\ responses \subseteq Answers
      /\ seen \in [Robots -> States \cup {Unseen}]
  BY DEF IInv, SingleInv, FTypeOK
<1>q. ASSUME UNCHANGED <<requests, calls>>, responses' \subseteq responses,
             UNCHANGED <<fresh, seen>>
      PROVE  CallsNumbered'
  BY <1>0, <1>q DEF CallsNumbered
<1>1. ASSUME NEW t \in Tasks, OnTaskRequest(t) \/ OnAssignTask(t) \/ TaskTimeout(t)
      PROVE  CallsNumbered'
  BY <1>1, <1>q DEF OnTaskRequest, OnAssignTask, TaskTimeout, network
<1>2. ASSUME NEW r \in Robots, OnRobotState(r) PROVE CallsNumbered'
  <2>1. UNCHANGED <<requests, calls, responses>>
        /\ seen' = [seen EXCEPT ![r] = reports[r]] /\ fresh' = fresh \cup {r}
    BY <1>2 DEF OnRobotState
  <2> QED BY <1>0, <2>1 DEF CallsNumbered
<1>3. ASSUME NEW r \in Robots, OnTaskStatus(r) PROVE CallsNumbered'
  BY <1>3, <1>q DEF OnTaskStatus
<1>4. ASSUME NEW r \in Robots, OnOutboxRelease(r) PROVE CallsNumbered'
  <2> DEFINE t == Head(outbox[r])
  <2>1. t \in Tasks
    BY <1>0, <1>4 DEF OnOutboxRelease, FTypeOK
  <2> HIDE DEF t
  <2>2. CASE /\ calls' = [calls EXCEPT ![t] = @ + 1]
             /\ requests' = requests \cup
                  {[task |-> t, robot |-> inflight[t].robot, call |-> calls[t] + 1]}
             /\ UNCHANGED <<responses, fresh, seen>>
    <3>1. IsFiniteSet(requests')
      BY <1>0, <2>2, FS_AddElement DEF CallsNumbered
    <3>2. calls[t] \in Nat /\ calls'[t] = calls[t] + 1
      BY <1>0, <2>1, <2>2
    <3>3. \A u \in Tasks : 1..calls[u] \subseteq 1..calls'[u]
      BY <1>0, <2>2
    <3>4. ASSUME NEW c \in requests' \cup responses' PROVE c.call \in 1..calls'[c.task]
      <4>1. CASE c \in requests \cup responses
        <5>1. c.task \in Tasks /\ c.call \in 1..calls[c.task]
          BY <1>0, <4>1 DEF CallsNumbered, Calls, Answers
        <5> QED BY <3>3, <5>1
      <4>2. CASE c = [task |-> t, robot |-> inflight[t].robot, call |-> calls[t] + 1]
        BY <3>2, <4>2
      <4> QED BY <2>2, <4>1, <4>2
    <3> QED BY <1>0, <2>2, <3>1, <3>4 DEF CallsNumbered
  <2>3. CASE UNCHANGED <<calls, requests, responses, fresh, seen>>
    BY <1>q, <2>3
  <2> QED BY <1>4, <2>2, <2>3 DEF OnOutboxRelease, t
<1>5. ASSUME NEW r \in Robots, RobotLost(r) PROVE CallsNumbered'
  BY <1>5, <1>q DEF RobotLost, network
<1>6. ASSUME NEW p \in responses, OnAssignResponse(p) PROVE CallsNumbered'
  BY <1>6, <1>q DEF OnAssignResponse
<1>7. CASE OnBatchWindow \/ OnAllocationTimer
  BY <1>7, <1>q DEF OnBatchWindow, OnAllocationTimer, network
<1>8. ASSUME NEW t \in Tasks, DeadlinePasses(t) PROVE CallsNumbered'
  BY <1>8, <1>q DEF DeadlinePasses, network
<1>9. ASSUME NEW r \in Robots,
             BackoffOver(r) \/ GoesQuiet(r) \/ Finish(r) \/ Report(r) \/ Crash(r)
      PROVE  CallsNumbered'
  BY <1>9, <1>q DEF BackoffOver, GoesQuiet, Finish, Report, Crash, network
<1>l. ASSUME NEW c \in requests, requests' = requests \ {c} PROVE IsFiniteSet(requests')
  BY <1>0, <1>l, FS_RemoveElement DEF CallsNumbered
<1>10. ASSUME NEW c \in requests, Take(c) PROVE CallsNumbered'
  <2>1. PICK ok \in BOOLEAN : responses' = responses \cup
          {[task |-> c.task, robot |-> c.robot, call |-> c.call, ok |-> ok]}
    BY <1>10 DEF Take
  <2>2. requests' = requests \ {c} /\ UNCHANGED <<calls, fresh, seen>>
    BY <1>10 DEF Take
  <2>3. IsFiniteSet(requests')
    BY <1>l, <2>2
  <2>4. \A d \in requests' \cup responses' : d.call \in 1..calls[d.task]
    BY <1>0, <2>1, <2>2 DEF CallsNumbered
  <2> QED BY <1>0, <2>2, <2>3, <2>4 DEF CallsNumbered
<1>11. CASE Lose
  <2>1. /\ UNCHANGED <<calls, fresh, seen>>
        /\ requests' \subseteq requests /\ responses' \subseteq responses
        /\ requests' = requests \/ \E c \in requests : requests' = requests \ {c}
    BY <1>11 DEF Lose
  <2>2. IsFiniteSet(requests')
    BY <1>0, <1>l, <2>1 DEF CallsNumbered
  <2> QED BY <1>0, <2>1, <2>2 DEF CallsNumbered
<1>12. CASE UNCHANGED fvars
  BY <1>12, <1>q DEF fvars, network
<1> QED
  BY <1>1, <1>2, <1>3, <1>4, <1>5, <1>6, <1>7, <1>8, <1>9, <1>10, <1>11, <1>12
  DEF FNext, Manager, Environment

(* The link delay of a call is over: the call is sent, or given up unsent.  *)
LEMMA ReleasedCalls ==
  ASSUME IInv, SingleInv, NEW r \in Robots, OnOutboxRelease(r)
  PROVE  \A u \in Tasks : CallInv(u)'
<1>0. FTypeOK /\ CallsNumbered /\ calls \in [Tasks -> Nat]
      /\ inflight \in [Tasks -> Dispatches \cup {NoDispatch}]
  BY DEF IInv, SingleInv, FTypeOK
<1>1. PICK t \in Tasks : t = Head(outbox[r])
  BY <1>0 DEF OnOutboxRelease, FTypeOK
<1>c. PICK c : c = [task |-> t, robot |-> inflight[t].robot, call |-> calls[t] + 1]
  OBVIOUS
<1>2. UNCHANGED <<runs, failures, mail, responses, status>>
  BY DEF OnOutboxRelease, books
<1>3. ASSUME inflight[t] # NoDispatch, inflight[t].call = 0 PROVE Slack(t) /\ status[t] = "PENDING"
  BY <1>1, <1>3 DEF IInv, ReservationsAgree, SingleInv, CallInv, Unsent
<1>4. CASE /\ inflight[t] # NoDispatch /\ inflight[t].call = 0
           /\ inflight' = [inflight EXCEPT ![t].call = calls[t] + 1]
           /\ requests' = requests \cup {c}
  <2>1. c \notin requests /\ \A p \in responses : p.task = t => p.call # calls[t] + 1
    BY <1>0, <1>1, <1>c DEF CallsNumbered
  <2>2. Spent(t)' = Spent(t) + 1 /\ Spent(t) \in Nat /\ failures[t] \in Nat
    BY <1>0, <1>1, <1>2, <1>4, <2>1, <1>c, SpentMore, SpentIsNumber DEF CallsNumbered, FTypeOK
  <2>3. Slack(t) /\ status[t] = "PENDING" /\ inflight[t].stage \in {"waiting", "overdue"}
    BY <1>1, <1>3, <1>4 DEF SingleInv, CallInv, Young
  <2>4. inflight[t] \in Dispatches
    BY <1>0, <1>1, <1>4
  <2>5. /\ inflight'[t].call = calls[t] + 1 /\ inflight'[t].robot = inflight[t].robot
        /\ inflight'[t].stage = inflight[t].stage /\ inflight'[t] # NoDispatch
    BY <1>0, <1>1, <1>4, <2>4, DispatchAssumption DEF Dispatches
  <2>6. CallOf(t)' = c
    BY <1>c, <2>5 DEF CallOf
  <2>7. CallAccounted(t)'
    BY <1>2, <1>4, <2>1, <2>3, <2>5, <2>6 DEF CallAccounted
  <2>8. CallInv(t)'
    <3>1. Spent(t)' <= failures'[t] + 1
      BY <1>2, <2>2, <2>3 DEF Slack
    <3>2. ~Unsent(t)' /\ Young(inflight'[t])
      BY <1>0, <1>1, <1>2, <2>3, <2>5 DEF Unsent, Young
    <3> QED BY <2>7, <3>1, <3>2 DEF CallInv
  <2>9. ASSUME NEW u \in Tasks \ {t} PROVE CallInv(u)'
    <3>1. Asked(u)' = Asked(u)
      BY <1>4, <1>c, <2>9 DEF Asked
    <3>2. inflight'[u] = inflight[u] /\ CallInv(u)
      BY <1>0, <1>4, <2>9 DEF SingleInv
    <3> QED BY <1>2, <2>9, <3>1, <3>2, CallStays, ToldStays
  <2> QED BY <2>8, <2>9
<1>5. ASSUME inflight[t] # NoDispatch, inflight[t].call = 0, UNCHANGED requests,
             Abort(t, inflight[t].robot, lost, [outbox EXCEPT ![r] = Tail(@)])
      PROVE  \A u \in Tasks : CallInv(u)'
  BY <1>1, <1>2, <1>3, <1>5, AbortCalls DEF CallsUntouched
<1>6. CASE UNCHANGED <<inflight, requests>>
  BY <1>0, <1>2, <1>6, BookedCalls DEF CallsUntouched, SingleInv
<1> QED BY <1>1, <1>c, <1>4, <1>5, <1>6 DEF OnOutboxRelease

(* The allocation timer gives up only calls that have come to nothing.      *)
LEMMA TimerCalls ==
  ASSUME IInv, SingleInv, OnAllocationTimer
  PROVE  \A u \in Tasks : CallInv(u)'
<1>0. FTypeOK /\ CallsNumbered /\ (\A u \in Tasks : CallInv(u))
      /\ inflight \in [Tasks -> Dispatches \cup {NoDispatch}]
  BY DEF IInv, SingleInv, FTypeOK
<1>1. CallsUntouched /\ UNCHANGED <<runs, failures, mail, requests, responses, status>>
  BY DEF OnAllocationTimer, books, network, CallsUntouched
<1>2. ASSUME NEW t \in Tasks, Expired(t), GivenUp(t), Abort(t, inflight[t].robot, lost, outbox)
      PROVE  \A u \in Tasks : CallInv(u)'
  <2>1. CASE inflight[t].stage = "overdue" /\ inflight[t].call = 0
    <3>1. status[t] = "PENDING"
      BY <1>2 DEF IInv, ReservationsAgree, Expired
    <3>2. Slack(t)
      BY <1>0, <2>1, <3>1 DEF CallInv, Unsent
    <3> QED BY <1>1, <1>2, <3>2, AbortCalls
  <2>2. CASE inflight[t].stage = "checked"
    <3>1. Slack(t)
      BY <1>0, <1>2, <2>2 DEF CallInv, Young, CallAccounted, Expired
    <3> QED BY <1>1, <1>2, <3>1, AbortCalls
  <2> QED BY <1>2, <2>1, <2>2 DEF GivenUp
<1>3. ASSUME NEW t \in Tasks, Expired(t), ~GivenUp(t), inflight[t].stage = "overdue",
             TimedRound([inflight EXCEPT ![t].stage = "unconfirmed"])
      PROVE  \A u \in Tasks : CallInv(u)'
  <2>m. PICK marked : marked = [inflight EXCEPT ![t].stage = "unconfirmed"]
    OBVIOUS
  <2>1. inflight[t] \in Dispatches /\ inflight[t].call # 0
    BY <1>0, <1>3 DEF Expired, GivenUp
  <2>2. marked[t] = [inflight[t] EXCEPT !.stage = "unconfirmed"]
        /\ \A u \in Tasks \ {t} : marked[u] = inflight[u]
    BY <1>0, <2>m
  <2>3. marked[t] # NoDispatch
    BY <2>1, <2>2, DispatchAssumption DEF Dispatches, Stages
  <2>t. TimedRound(marked)
    BY <1>3, <2>m
  <2>4. inflight'[t] = marked[t]
    <3>1. CASE Round(queue, marked, reserved, backoff, lost, outbox)
      <4>1. fresh \subseteq Robots
        BY <1>0 DEF FTypeOK
      <4> QED BY <2>3, <3>1, <4>1, RoundOfTask
    <3>2. CASE inflight' = marked
      BY <3>2
    <3> QED BY <2>t, <3>1, <3>2 DEF TimedRound
  <2>5. CallInv(t)'
    BY <1>0, <1>1, <2>1, <2>2, <2>4, CallStaged DEF Stages
  <2>6. ASSUME NEW u \in Tasks \ {t} PROVE CallInv(u)'
    <3>1. CASE Round(queue, marked, reserved, backoff, lost, outbox)
      <4>1. u \in queue => status[u] \in {"unknown", "PENDING"}
        BY TablesOfInvariant
      <4> QED BY <1>0, <1>1, <2>2, <2>6, <3>1, <4>1, RoundCalls
    <3>2. CASE inflight' = marked
      BY <1>0, <1>1, <2>2, <2>6, <3>2, BookedCalls
    <3> QED BY <2>t, <3>1, <3>2 DEF TimedRound
  <2> QED BY <2>5, <2>6
<1>4. ASSUME TimedRound(inflight), NEW u \in Tasks PROVE CallInv(u)'
  <2>1. CASE Round(queue, inflight, reserved, backoff, lost, outbox)
    <3>1. u \in queue => status[u] \in {"unknown", "PENDING"}
      BY TablesOfInvariant
    <3> QED BY <1>0, <1>1, <2>1, <3>1, RoundCalls
  <2>2. CASE inflight' = inflight
    BY <1>0, <1>1, <2>2, BookedCalls
  <2> QED BY <1>4, <2>1, <2>2 DEF TimedRound
<1> QED BY <1>2, <1>3, <1>4 DEF OnAllocationTimer

(* By the time a call is looked at again, a prompt link has brought it or   *)
(* lost it, and its robot's message has been read.                          *)
LEMMA DeadlineCalls ==
  ASSUME IInv, SingleInv, Prompt, NEW t \in Tasks, DeadlinePasses(t)
  PROVE  \A u \in Tasks : CallInv(u)'
<1>0. FTypeOK /\ CallsNumbered /\ (\A u \in Tasks : CallInv(u))
      /\ inflight \in [Tasks -> Dispatches \cup {NoDispatch}]
  BY DEF IInv, SingleInv, FTypeOK
<1>1. CallsUntouched /\ UNCHANGED <<runs, failures, mail, requests, responses, status>>
  BY DEF DeadlinePasses, books, network, CallsUntouched
<1>2. inflight[t] \in Dispatches /\ inflight[t] # NoDispatch /\ inflight[t].robot \in Robots
  BY <1>0 DEF DeadlinePasses, Dispatches
<1>3. CASE inflight[t].stage = "waiting" /\ inflight' = [inflight EXCEPT ![t].stage = "overdue"]
  <2>1. inflight'[t] = [inflight[t] EXCEPT !.stage = "overdue"]
        /\ "overdue" \in Stages \ {"late", "checked"}
    BY <1>0, <1>3 DEF Stages
  <2>2. ASSUME inflight[t].call # 0 PROVE CallInv(t)'
    BY <1>0, <1>1, <1>2, <2>1, <2>2, CallStaged
  <2>3. ASSUME inflight[t].call = 0 PROVE CallInv(t)'
    <3>1. status[t] = "PENDING"
      BY <1>2 DEF IInv, ReservationsAgree
    <3>2. Slack(t)
      BY <1>0, <2>3, <3>1 DEF CallInv, Unsent
    <3>3. inflight'[t].stage = "overdue"
      BY <1>2, <2>1 DEF Dispatches
    <3>4. Young(inflight'[t])
      BY <3>3 DEF Young
    <3> QED BY <1>0, <1>1, <3>2, <3>4, BookedCalls
  <2>4. CallInv(t)'
    BY <2>2, <2>3
  <2>5. ASSUME NEW u \in Tasks \ {t} PROVE CallInv(u)'
    <3>1. inflight'[u] = inflight[u]
      BY <1>0, <1>3
    <3> QED BY <1>0, <1>1, <3>1, BookedCalls
  <2> QED BY <2>4, <2>5
<1>4. CASE /\ inflight[t].stage = "unconfirmed" /\ inflight' = [inflight EXCEPT ![t].stage = "late"]
           /\ CallOf(t) \notin requests /\ mail[inflight[t].robot] = <<>>
  <2>1. inflight'[t] = [inflight[t] EXCEPT !.stage = "late"]
    BY <1>0, <1>4
  <2>2. inflight[t].call # 0
    BY <1>0, <1>2, <1>4 DEF CallInv, Young
  <2>3. ~Told(t, inflight[t].robot)
    BY <1>4 DEF Told
  <2>4. Slack(t)
    BY <1>0, <1>2, <1>4, <2>2, <2>3 DEF CallInv, CallAccounted
  <2>5. Young(inflight'[t])
    BY <1>2, <2>1, <2>2 DEF Young, Dispatches
  <2>6. ASSUME NEW u \in Tasks \ {t} PROVE CallInv(u)'
    <3>1. inflight'[u] = inflight[u]
      BY <1>0, <1>4
    <3> QED BY <1>0, <1>1, <3>1, BookedCalls
  <2> QED BY <1>0, <1>1, <2>4, <2>5, <2>6, BookedCalls
<1> QED BY <1>3, <1>4 DEF DeadlinePasses, CallOf

(* A call arrives: it is taken up, or refused and spent no longer.          *)
LEMMA TakenCalls ==
  ASSUME IInv, SingleInv, NEW c \in requests, Take(c)
  PROVE  \A u \in Tasks : CallInv(u)'
<1> DEFINE t == c.task
<1>0. FTypeOK /\ CallsNumbered /\ (\A u \in Tasks : CallInv(u)) /\ t \in Tasks /\ c \in Calls
  BY DEF IInv, SingleInv, FTypeOK, Calls
<1>1. UNCHANGED <<inflight, status, failures>> /\ requests' = requests \ {c}
  BY DEF Take, books, dispatch
<1>2. Cardinality(Asked(t)') = Cardinality(Asked(t)) - 1 /\ Cardinality(Asked(t)) \in Nat
      /\ \A u \in Tasks \ {t} : Asked(u)' = Asked(u)
  BY <1>0, <1>1, AskedLess DEF CallsNumbered
<1>3. PICK ok \in BOOLEAN :
        /\ responses' = responses \cup
             {[task |-> t, robot |-> c.robot, call |-> c.call, ok |-> ok]}
        /\ IF ok
             THEN /\ mail' = [mail EXCEPT ![c.robot] =
                                Append(@, [task |-> t, status |-> "IN_PROGRESS"])]
                  /\ runs' = [runs EXCEPT ![t] = @ + 1]
             ELSE UNCHANGED <<mail, runs>>
  BY DEF Take
<1> DEFINE m == [task |-> t, status |-> "IN_PROGRESS"]
<1>4. /\ \A u : \A k \in Robots : Told(u, k) => Told(u, k)'
      /\ ok => Told(t, c.robot)'
  <2>1. CASE ok
    <3>1. m \in Mails /\ c.robot \in Robots
      BY <1>0 DEF Mails, Calls
    <3>2. mail' = [mail EXCEPT ![c.robot] = Append(@, m)]
      BY <1>3, <2>1
    <3> HIDE DEF m
    <3>3. /\ \A u : \A k \in Robots : Told(u, k) => Told(u, k)'
          /\ \A u : m = [task |-> u, status |-> "IN_PROGRESS"] => Told(u, c.robot)'
      BY <1>0, <3>1, <3>2, ToldAndMore
    <3> QED BY <3>3 DEF m
  <2>2. CASE ~ok
    BY <1>3, <2>2, ToldStays
  <2> QED BY <2>1, <2>2
<1>5. runs \in [Tasks -> Nat] /\ failures \in [Tasks -> Nat]
  BY <1>0 DEF FTypeOK
<1> HIDE DEF t
<1>6. ASSUME NEW u \in Tasks \ {t} PROVE CallInv(u)'
  <2>1. runs'[u] = runs[u]
    BY <1>3, <1>5, <1>6
  <2>2. \A p \in responses' : p.task = u => p \in responses
    BY <1>3, <1>6
  <2> QED BY <1>0, <1>1, <1>2, <1>4, <2>1, <2>2, CallStays
<1>7. CASE ok
  <2>1. Spent(t)' = Spent(t)
    <3>1. runs'[t] = runs[t] + 1 /\ runs[t] \in Nat
      BY <1>0, <1>3, <1>5, <1>7
    <3> QED BY <1>2, <3>1 DEF Spent
  <2>2. (Slack(t)' <=> Slack(t)) /\ (Unsent(t)' <=> Unsent(t)) /\ CallOf(t)' = CallOf(t)
    BY <1>1, <2>1 DEF Slack, Unsent, CallOf
  <2>3. ASSUME CallAccounted(t) PROVE CallAccounted(t)'
    <3>1. \/ CallOf(t)' \in requests' \/ Slack(t)'
          \/ \E k \in Robots : k = inflight'[t].robot /\ Told(t, k)'
      <4>1. CASE CallOf(t) = c
        <5>1. c.robot = inflight[t].robot /\ c.robot \in Robots
          BY <1>0, <4>1 DEF CallOf, Calls
        <5> QED BY <1>1, <1>4, <1>7, <5>1
      <4>2. CASE CallOf(t) # c
        BY <1>1, <1>4, <2>2, <2>3, <4>2 DEF CallAccounted
      <4> QED BY <4>1, <4>2
    <3>2. \A p \in responses' : p.task = t /\ p.call = inflight'[t].call => p.ok \/ Slack(t)'
      BY <1>1, <1>3, <1>7, <2>2, <2>3 DEF CallAccounted
    <3>3. inflight'[t].stage \in {"late", "checked"} => Slack(t)'
      BY <1>1, <2>2, <2>3 DEF CallAccounted
    <3> QED BY <3>1, <3>2, <3>3 DEF CallAccounted
  <2>4. CallInv(t)'
    BY <1>0, <1>1, <2>1, <2>2, <2>3 DEF CallInv, Young
  <2> QED BY <1>6, <2>4
<1>8. CASE ~ok
  <2>1. Spent(t)' = Spent(t) - 1 /\ Spent(t)' \in Nat /\ Spent(t) \in Nat
    <3>1. runs'[t] = runs[t] /\ runs[t] \in Nat
      BY <1>0, <1>3, <1>5, <1>8
    <3>2. Cardinality(Asked(t)) # 0
      <4>1. IsFiniteSet(Asked(t)) /\ c \in Asked(t)
        BY <1>0, SpentIsNumber DEF CallsNumbered, Asked, t
      <4> QED BY <4>1, FS_EmptySet
    <3> QED BY <1>2, <3>1, <3>2 DEF Spent
  <2>2. Slack(t)' /\ failures'[t] \in Nat /\ Young(inflight'[t])
    BY <1>0, <1>1, <1>5, <2>1 DEF Slack, CallInv
  <2> QED BY <1>0, <1>6, <2>1, <2>2, CallSpare
<1> QED BY <1>7, <1>8

(* A call lost is not spent any longer; an answer lost changes nothing.     *)
LEMMA LostCalls ==
  ASSUME IInv, SingleInv, Lose
  PROVE  \A u \in Tasks : CallInv(u)'
<1>0. FTypeOK /\ CallsNumbered /\ (\A u \in Tasks : CallInv(u))
      /\ failures \in [Tasks -> Nat] /\ runs \in [Tasks -> Nat]
  BY DEF IInv, SingleInv, FTypeOK
<1>1. UNCHANGED <<inflight, status, failures, runs, mail>>
  BY DEF Lose, books, dispatch
<1>2. ASSUME NEW c \in requests, requests' = requests \ {c}, UNCHANGED responses
      PROVE  \A u \in Tasks : CallInv(u)'
  <2> DEFINE t == c.task
  <2>0. t \in Tasks
    BY <1>0 DEF FTypeOK, Calls
  <2>1. Cardinality(Asked(t)') = Cardinality(Asked(t)) - 1 /\ Cardinality(Asked(t)) \in Nat
        /\ \A u \in Tasks \ {t} : Asked(u)' = Asked(u)
    BY <1>0, <1>2, AskedLess DEF CallsNumbered
  <2>2. Cardinality(Asked(t)) # 0
    <3>1. IsFiniteSet(Asked(t)) /\ c \in Asked(t)
      BY <1>0, <2>0, SpentIsNumber DEF CallsNumbered, Asked
    <3> QED BY <3>1, FS_EmptySet
  <2> HIDE DEF t
  <2>3. Spent(t)' = Spent(t) - 1 /\ Spent(t)' \in Nat /\ Spent(t) \in Nat
    BY <1>0, <1>1, <2>0, <2>1, <2>2 DEF Spent
  <2>4. Slack(t)' /\ failures'[t] \in Nat /\ Young(inflight'[t])
    BY <1>0, <1>1, <2>0, <2>3 DEF Slack, CallInv
  <2>5. ASSUME NEW u \in Tasks \ {t} PROVE CallInv(u)'
    BY <1>0, <1>1, <1>2, <2>1, <2>5, CallStays, ToldStays
  <2> QED BY <2>0, <2>3, <2>4, <2>5, CallSpare
<1>3. CASE responses' \subseteq responses /\ UNCHANGED requests
  BY <1>0, <1>1, <1>3, BookedCalls DEF CallsUntouched
<1> QED BY <1>2, <1>3 DEF Lose

LEMMA CallsKept ==
  ASSUME IInv, SingleInv, Prompt, "quiet" \notin Faults, [FNext]_fvars
  PROVE  \A u \in Tasks : CallInv(u)'
<1> DEFINE Goal == \A u \in Tasks : CallInv(u)'
<1>0. FTypeOK /\ CallsNumbered /\ (\A u \in Tasks : CallInv(u))
      /\ status \in [Tasks -> {"unknown", "PENDING", "IN_PROGRESS", "COMPLETED", "FAILED"}]
      /\ inflight \in [Tasks -> Dispatches \cup {NoDispatch}]
  BY DEF IInv, SingleInv, FTypeOK
<1>1. ASSUME NEW t \in Tasks, Admit(t), CallsUntouched, inflight' = inflight PROVE Goal
  <2>1. CallInv(t)'
    BY <1>0, <1>1, BookedCalls DEF Admit, CallInv, Unsent
  <2>2. ASSUME NEW u \in Tasks \ {t} PROVE CallInv(u)'
    <3>1. status'[u] = status[u]
      BY <1>0, <1>1 DEF Admit
    <3> QED BY <1>0, <1>1, <2>2, <3>1, BookedCalls
  <2> QED BY <2>1, <2>2
<1>2. ASSUME NEW t \in Tasks, OnAssignTask(t) PROVE Goal
  <2>1. CallsUntouched /\ Admit(t)
        /\ Round(queue \cup {t}, inflight, reserved, backoff, lost, outbox)
    BY <1>2 DEF OnAssignTask, network, Admit, CallsUntouched
  <2>2. ASSUME NEW u \in Tasks PROVE CallInv(u)'
    <3>1. u \in queue \cup {t} => status[u] \in {"unknown", "PENDING"}
      BY <2>1, TablesOfInvariant DEF Admit
    <3>2. status'[u] = status[u] \/ status[u] = "unknown"
      BY <1>0, <2>1 DEF Admit
    <3> QED BY <1>0, <2>1, <3>1, <3>2, RoundCalls
  <2> QED BY <2>2
<1>3. ASSUME NEW t \in Tasks, TaskTimeout(t) PROVE Goal
  <2>1. Clear(t) /\ FailTask(t, owner[t]) /\ UNCHANGED <<requests, runs, mail, responses>>
    BY <1>3 DEF TaskTimeout, network
  <2> QED BY <2>1, ToldStays, FailedCalls
<1>4. ASSUME NEW r \in Robots, OnRobotState(r) PROVE Goal
  <2>1. PICK c : c = reports[r]
    OBVIOUS
  <2>3. UNCHANGED <<requests, runs, mail, responses>>
    BY <1>4 DEF OnRobotState
  <2>4. ASSUME c \in Tasks, reserved[r] = c, Confirm(c, r) PROVE Goal
    <3>1. inflight[c] # NoDispatch
      BY <2>4, DispatchFacts DEF IInv, ReservationsAgree
    <3> QED BY <2>3, <2>4, <3>1, ToldStays, ConfirmCalls
  <2>5. ASSUME inflight' = [t \in Tasks |->
                  IF inflight[t] # NoDispatch /\ inflight[t].robot = r /\ inflight[t].stage = "late"
                    THEN [inflight[t] EXCEPT !.stage = "checked"] ELSE inflight[t]],
               IF c \in Tasks /\ MayStartLate(c, r, r \in sent[c])
                 THEN StartTask(c, r) ELSE UNCHANGED books,
               NEW u \in Tasks
        PROVE  CallInv(u)'
    <3>0. CallsUntouched
      BY <2>3, <2>5 DEF CallsUntouched, StartTask, books
    <3>1. ASSUME inflight[u] # NoDispatch, inflight[u].stage = "late",
                 inflight'[u] = [inflight[u] EXCEPT !.stage = "checked"]
          PROVE  CallInv(u)'
      <4>1. inflight[u] \in Dispatches
        BY <1>0, <3>1
      <4>2. inflight[u].call # 0
        BY <1>0, <3>1 DEF CallInv, Young
      <4>3. Slack(u)
        BY <1>0, <3>1, <4>2 DEF CallInv, CallAccounted
      <4>4. inflight'[u].call # 0
        BY <3>1, <4>1, <4>2 DEF Dispatches
      <4> QED BY <1>0, <3>0, <4>3, <4>4, BookedCalls DEF Young
    <3>2. ASSUME inflight'[u] = inflight[u] PROVE CallInv(u)'
      <4>1. CASE c = u /\ inflight[u] = NoDispatch /\ StartTask(u, r)
        <5>1. inflight'[u] = NoDispatch /\ status'[u] = "IN_PROGRESS" /\ failures' = failures
          BY <1>0, <3>2, <4>1 DEF StartTask
        <5>2. Spent(u)' <= failures'[u] + 1
          BY <1>0, <2>3, <5>1, SpentStays DEF CallInv
        <5> QED BY <5>1, <5>2, CallOver
      <4>2. CASE status'[u] = status[u]
        BY <1>0, <3>0, <3>2, <4>2, BookedCalls
      <4> QED BY <1>0, <2>5, <4>1, <4>2 DEF StartTask, books, MayStartLate
    <3> QED BY <2>5, <3>1, <3>2
  <2> QED BY <1>4, <2>1, <2>4, <2>5 DEF OnRobotState
<1>5. ASSUME NEW r \in Robots, OnTaskStatus(r) PROVE Goal
  <2>1. /\ mail[r] # <<>> /\ mail' = [mail EXCEPT ![r] = Tail(@)]
        /\ UNCHANGED <<requests, responses, runs>>
    BY <1>5 DEF OnTaskStatus
  <2>2. PICK m \in Mails : m = Head(mail[r])
    BY <1>0, <2>1, ToldAfterMail
  <2>3. PICK t \in Tasks : t = m.task
    BY DEF Mails
  <2>4. \A u : \A k \in Robots :
          Told(u, k) => Told(u, k)' \/ (u = t /\ k = r /\ m.status = "IN_PROGRESS")
    <3>1. ASSUME NEW u, NEW k \in Robots, Told(u, k)
          PROVE  Told(u, k)' \/ (u = t /\ k = r /\ m.status = "IN_PROGRESS")
      <4>1. CASE k = r /\ m = [task |-> u, status |-> "IN_PROGRESS"]
        BY <2>3, <4>1
      <4> QED BY <1>0, <2>1, <2>2, <3>1, <4>1, ToldAfterMail
    <3> QED BY <3>1
  <2>5. ASSUME RobotStarted(t, r, r \in sent[t] \/ r = Pin[t]) PROVE Goal
    BY <2>1, <2>4, <2>5, StartedCalls
  <2>6. ASSUME m.status # "IN_PROGRESS", status[t] = "IN_PROGRESS",
               status' = [status EXCEPT ![t] = "COMPLETED"],
               UNCHANGED <<owner, failures, queue, dispatch>>
        PROVE  Goal
    <3>1. inflight' = inflight /\ failures' = failures /\ inflight[t] = NoDispatch
      BY <2>6 DEF dispatch, IInv, ReservationsAgree
    <3>2. CallInv(t)'
      <4>1. status'[t] = "COMPLETED"
        BY <1>0, <2>6
      <4>2. Spent(t)' <= failures'[t] + 1
        BY <1>0, <2>1, <3>1, SpentStays DEF CallInv
      <4> QED BY <3>1, <4>1, <4>2, CallOver
    <3>3. ASSUME NEW u \in Tasks \ {t} PROVE CallInv(u)'
      <4>1. status'[u] = status[u]
        BY <1>0, <2>6
      <4> QED BY <1>0, <2>1, <2>4, <2>6, <3>1, <3>3, <4>1, OtherCalls
    <3> QED BY <3>2, <3>3
  <2>7. ASSUME m.status # "IN_PROGRESS", Clear(t), FailTask(t, r) PROVE Goal
    BY <2>1, <2>4, <2>7, FailedCalls
  <2>8. ASSUME m.status # "IN_PROGRESS", UNCHANGED <<books, dispatch>>, NEW u \in Tasks
        PROVE  CallInv(u)'
    <3>1. UNCHANGED <<status, inflight, failures>> /\ Asked(u)' = Asked(u)
      BY <2>1, <2>8 DEF books, dispatch, Asked
    <3> QED BY <1>0, <2>1, <2>4, <2>8, <3>1, CallStays
  <2>9. m.status = "COMPLETED" \/ m.status = "FAILED" => m.status # "IN_PROGRESS"
    OBVIOUS
  <2> QED BY <1>5, <2>2, <2>3, <2>5, <2>6, <2>7, <2>8, <2>9 DEF OnTaskStatus
<1>6. ASSUME NEW p \in responses, OnAssignResponse(p) PROVE Goal
  <2>1. PICK t \in Tasks : t = p.task
    BY <1>0 DEF FTypeOK, Answers
  <2>2. PICK r \in Robots : r = p.robot
    BY <1>0 DEF FTypeOK, Answers
  <2>3. responses' \subseteq responses /\ UNCHANGED <<requests, runs, mail>>
    BY <1>6 DEF OnAssignResponse
  <2>4. ASSUME inflight[t] # NoDispatch, Confirm(t, r) PROVE Goal
    BY <2>3, <2>4, ToldStays, ConfirmCalls
  <2>5. ASSUME inflight[t] # NoDispatch, inflight[t].call = p.call, ~p.ok,
               Abort(t, r, lost, outbox), UNCHANGED books
        PROVE  Goal
    <3>1. p.call # 0
      BY <1>0, <2>1 DEF CallsNumbered, FTypeOK, Answers
    <3>2. Slack(t)
      BY <1>0, <2>1, <2>5, <3>1 DEF CallInv, CallAccounted
    <3>3. CallsUntouched /\ UNCHANGED status
      BY <2>3, <2>5 DEF CallsUntouched, books
    <3> QED BY <2>5, <3>2, <3>3, AbortCalls
  <2>6. ASSUME RobotStarted(t, r, r \in sent[t]) PROVE Goal
    BY <2>3, <2>6, ToldStays, StartedCalls
  <2>7. ASSUME UNCHANGED <<books, dispatch>> PROVE Goal
    BY <1>0, <2>3, <2>7, BookedCalls DEF CallsUntouched, books, dispatch
  <2> QED BY <1>6, <2>1, <2>2, <2>4, <2>5, <2>6, <2>7 DEF OnAssignResponse
<1>7. ASSUME NEW r \in Robots, RobotLost(r) PROVE Goal
  BY <1>0, <1>7 DEF RobotLost, CallsNumbered
<1>8. CASE OnBatchWindow
  <2>1. CallsUntouched /\ UNCHANGED status
        /\ Round(queue, inflight, reserved, backoff, lost, outbox)
    BY <1>8 DEF OnBatchWindow, network, books, CallsUntouched
  <2>2. ASSUME NEW u \in Tasks PROVE CallInv(u)'
    <3>1. u \in queue => status[u] \in {"unknown", "PENDING"}
      BY TablesOfInvariant
    <3> QED BY <1>0, <2>1, <3>1, RoundCalls
  <2> QED BY <2>2
<1>9. ASSUME UNCHANGED <<status, failures, inflight, requests, responses, runs>>,
             \A u : \A k \in Robots : Told(u, k) => Told(u, k)'
      PROVE  Goal
  <2>1. ASSUME NEW u \in Tasks PROVE CallInv(u)'
    <3>1. Asked(u)' = Asked(u)
      BY <1>9 DEF Asked
    <3> QED BY <1>0, <1>9, <3>1, CallStays
  <2> QED BY <2>1
<1>10. ASSUME NEW r \in Robots, BackoffOver(r) \/ GoesQuiet(r) \/ Report(r) \/ Crash(r)
       PROVE  Goal
  <2>1. UNCHANGED <<status, failures, inflight, requests, responses, runs, mail>>
    BY <1>10 DEF BackoffOver, GoesQuiet, Report, Crash, books, dispatch, network
  <2> QED BY <1>9, <2>1, ToldStays
<1>11. ASSUME NEW r \in Robots, Finish(r) PROVE Goal
  <2>1. PICK end \in {"COMPLETED", "FAILED"} :
          mail' = [mail EXCEPT ![r] = Append(@, [task |-> job[r], status |-> end])]
    BY <1>11 DEF Finish
  <2>2. PICK m : m = [task |-> job[r], status |-> end]
    OBVIOUS
  <2>3. m \in Mails
    BY <1>0, <1>11, <2>2 DEF Finish, FTypeOK, Mails
  <2>4. \A u : \A k \in Robots : Told(u, k) => Told(u, k)'
    BY <1>0, <2>1, <2>2, <2>3, ToldAndMore
  <2>5. UNCHANGED <<status, failures, inflight, requests, responses, runs>>
    BY <1>11 DEF Finish, books, dispatch
  <2> QED BY <1>9, <2>4, <2>5
<1>12. CASE UNCHANGED fvars
  <2>1. UNCHANGED <<status, failures, inflight, requests, responses, runs, mail>>
    BY <1>12 DEF fvars, books, dispatch, network
  <2> QED BY <1>9, <2>1, ToldStays
<1>13. ASSUME NEW t \in Tasks, OnTaskRequest(t) PROVE Goal
  <2>1. Admit(t) /\ CallsUntouched /\ inflight' = inflight
    BY <1>13 DEF OnTaskRequest, Admit, CallsUntouched, dispatch, network
  <2> QED BY <1>1, <2>1
<1> QED
  BY <1>2, <1>3, <1>4, <1>5, <1>6, <1>7, <1>8, <1>10, <1>11, <1>12, <1>13,
     ReleasedCalls, TimerCalls, DeadlineCalls, TakenCalls, LostCalls
  DEF FNext, Manager, Environment

LEMMA SingleInvariant ==
  ASSUME Prompt, "quiet" \notin Faults
  PROVE  FSpec => []SingleInv
<1>1. FInit => SingleInv
  <2> SUFFICES ASSUME FInit PROVE SingleInv
    OBVIOUS
  <2>1. CallsNumbered
    BY FS_EmptySet DEF FInit, CallsNumbered
  <2>2. ASSUME NEW t \in Tasks PROVE CallInv(t)
    <3>1. Asked(t) = {}
      BY DEF FInit, Asked
    <3>2. Spent(t) = 0 /\ failures[t] = 0 /\ inflight[t] = NoDispatch
      BY <3>1, FS_EmptySet DEF FInit, Spent
    <3> QED BY <3>2 DEF CallInv, Slack, Young
  <2> QED BY <2>1, <2>2 DEF SingleInv
<1>2. IInv /\ SingleInv /\ [FNext]_fvars => SingleInv'
  BY NumbersKept, CallsKept DEF SingleInv
<1> QED BY <1>1, <1>2, Invariant, PTL DEF FSpec

(* No task is carried out a second time unless a failure of it was booked,  *)
(* however many robots and tasks there are, however messages are delayed,   *)
(* reordered or lost and executors die: if a link delivers or loses what it *)
(* has within assign_reconcile_s, and the states of the robots keep coming. *)
THEOREM ExecutionIsSingle ==
  ASSUME Prompt, "quiet" \notin Faults
  PROVE  FSpec => []SingleExecution
<1>1. IInv /\ SingleInv => SingleExecution
  <2> SUFFICES ASSUME IInv, SingleInv, NEW t \in Tasks PROVE runs[t] <= 1 + failures[t]
    BY DEF SingleExecution
  <2>1. FTypeOK /\ IsFiniteSet(Asked(t)) /\ Spent(t) <= failures[t] + 1
    BY SpentIsNumber DEF IInv, SingleInv, CallsNumbered, CallInv
  <2>2. Cardinality(Asked(t)) \in Nat
    BY <2>1, FS_CardinalityType
  <2> QED BY <2>1, <2>2 DEF Spent, FTypeOK
<1> QED BY <1>1, SingleInvariant, Invariant, PTL

-----------------------------------------------------------------------------
(* One task per robot, when no attempt follows a failed one.                *)

Heard(t, r) == \E k \in DOMAIN mail[r] : mail[r][k].task = t

\* Something says that a robot took t up.
Taken(t) ==
  \/ \E r \in Robots : t \in {job[r], adapter[r], reports[r]} \/ Heard(t, r)
  \/ \E p \in responses : p.task = t /\ p.ok

Evidence == \A t \in Tasks : Taken(t) => runs[t] >= 1

FirstAttempt == \A t \in Tasks : status[t] \in {"unknown", "PENDING"} => failures[t] = 0

\* Whoever hears or answers the call of a dispatch is the dispatch's robot.
CallsKnown ==
  \A c \in requests \cup responses :
    inflight[c.task] # NoDispatch /\ inflight[c.task].call = c.call
      => inflight[c.task].robot = c.robot

\* A robot with a dispatch has nothing to do in the books, nobody two tasks.
Apart ==
  /\ \A t \in Tasks : inflight[t] # NoDispatch => Active(inflight[t].robot) = {}
  /\ \A r \in Robots : \A t, u \in Active(r) : t = u

PairInv == Evidence /\ FirstAttempt /\ CallsKnown /\ Apart

LEMMA HeardAfterMail ==
  ASSUME FTypeOK, NEW r \in Robots, mail[r] # <<>>, mail' = [mail EXCEPT ![r] = Tail(@)]
  PROVE  /\ \A t : \A k \in Robots : Heard(t, k)' => Heard(t, k)
         /\ Head(mail[r]) \in Mails /\ Heard(Head(mail[r]).task, r)
<1>0. mail[r] \in Seq(Mails) /\ mail \in [Robots -> Seq(Mails)]
  BY DEF FTypeOK
<1>1. Head(mail[r]) \in Mails /\ 1 \in DOMAIN mail[r] /\ mail[r][1] = Head(mail[r])
  BY <1>0
<1>2. ASSUME NEW t, NEW k \in Robots, Heard(t, k)' PROVE Heard(t, k)
  <2>1. CASE k # r
    <3>1. mail'[k] = mail[k]
      BY <1>0, <2>1
    <3> QED BY <1>2, <3>1 DEF Heard
  <2>2. CASE k = r
    <3>1. PICK i \in DOMAIN mail'[r] : mail'[r][i].task = t
      BY <1>2, <2>2 DEF Heard
    <3>2. i \in 1..(Len(mail[r]) - 1) /\ mail'[r] = Tail(mail[r])
      BY <1>0, <3>1
    <3>3. i + 1 \in DOMAIN mail[r] /\ mail'[r][i] = mail[r][i + 1]
      BY <1>0, <3>2
    <3> QED BY <2>2, <3>1, <3>3 DEF Heard
  <2> QED BY <2>1, <2>2
<1> QED BY <1>1, <1>2 DEF Heard

LEMMA HeardAndMore ==
  ASSUME FTypeOK, NEW r \in Robots, NEW m \in Mails,
         mail' = [mail EXCEPT ![r] = Append(@, m)],
         NEW t, NEW k \in Robots, Heard(t, k)'
  PROVE  Heard(t, k) \/ m.task = t
<1>0. mail[r] \in Seq(Mails) /\ mail \in [Robots -> Seq(Mails)]
  BY DEF FTypeOK
<1>1. CASE k # r
  <2>1. mail'[k] = mail[k]
    BY <1>0, <1>1
  <2> QED BY <2>1 DEF Heard
<1>2. CASE k = r
  <2>1. PICK i \in DOMAIN mail'[r] : mail'[r][i].task = t
    BY <1>2 DEF Heard
  <2>2. i \in 1..(Len(mail[r]) + 1) /\ mail'[r] = Append(mail[r], m)
    BY <1>0, <2>1
  <2>3. CASE i = Len(mail[r]) + 1
    BY <1>0, <2>1, <2>2, <2>3
  <2>4. CASE i \in 1..Len(mail[r])
    <3>1. i \in DOMAIN mail[r] /\ mail'[r][i] = mail[r][i]
      BY <1>0, <2>2, <2>4
    <3> QED BY <1>2, <2>1, <3>1 DEF Heard
  <2> QED BY <1>0, <2>2, <2>3, <2>4
<1> QED BY <1>1, <1>2

LEMMA HeardStays ==
  ASSUME UNCHANGED mail
  PROVE  \A t, r : Heard(t, r)' => Heard(t, r)
<1> SUFFICES ASSUME NEW t, NEW r, Heard(t, r)' PROVE Heard(t, r)
  OBVIOUS
<1> QED BY DEF Heard

(* Only a robot that takes a task up gives rise to a sign that it did.      *)
LEMMA EvidenceKept ==
  ASSUME IInv, Evidence, [FNext]_fvars
  PROVE  Evidence'
<1>0. /\ FTypeOK /\ runs \in [Tasks -> Nat] /\ mail \in [Robots -> Seq(Mails)]
      /\ requests \subseteq Calls /\ responses \subseteq Answers
      /\ job \in [Robots -> Tasks \cup {NoTask}] /\ adapter \in [Robots -> Tasks \cup {NoTask}]
      /\ reports \in [Robots -> States \cup {Unseen}]
  BY DEF IInv, FTypeOK
<1>n. NoTask \notin Tasks /\ Busy \notin Tasks /\ Unseen \notin Tasks
  BY ConstantsAssumption
<1>q. ASSUME UNCHANGED <<job, adapter, runs>>, responses' \subseteq responses,
             \A r \in Robots : reports'[r] \in {reports[r], Unseen},
             \A t : \A r \in Robots : Heard(t, r)' => Heard(t, r)
      PROVE  Evidence'
  BY <1>n, <1>q DEF Evidence, Taken
<1>k. ASSUME UNCHANGED <<job, adapter, runs, mail, reports>>, responses' \subseteq responses
      PROVE  Evidence'
  BY <1>k, <1>q, HeardStays
<1>1. ASSUME NEW t \in Tasks,
             OnTaskRequest(t) \/ OnAssignTask(t) \/ TaskTimeout(t) \/ DeadlinePasses(t)
      PROVE  Evidence'
  BY <1>1, <1>k DEF OnTaskRequest, OnAssignTask, TaskTimeout, DeadlinePasses, network, robot
<1>2. ASSUME NEW r \in Robots, OnRobotState(r) PROVE Evidence'
  <2>1. /\ UNCHANGED <<job, adapter, runs, mail, responses>>
        /\ reports' = [reports EXCEPT ![r] = Unseen]
    BY <1>2 DEF OnRobotState, robot
  <2>2. \A k \in Robots : reports'[k] \in {reports[k], Unseen}
    BY <1>0, <2>1
  <2> QED BY <1>q, <2>1, <2>2, HeardStays
<1>3. ASSUME NEW r \in Robots, OnTaskStatus(r) PROVE Evidence'
  <2>1. /\ UNCHANGED <<job, adapter, runs, reports, responses>>
        /\ mail[r] # <<>> /\ mail' = [mail EXCEPT ![r] = Tail(@)]
    BY <1>3 DEF OnTaskStatus, robot
  <2> QED BY <1>0, <1>q, <2>1, HeardAfterMail
<1>4. ASSUME NEW r \in Robots,
             OnOutboxRelease(r) \/ RobotLost(r) \/ BackoffOver(r) \/ GoesQuiet(r)
      PROVE  Evidence'
  BY <1>4, <1>k DEF OnOutboxRelease, RobotLost, BackoffOver, GoesQuiet, network, robot
<1>5. ASSUME NEW p \in responses, OnAssignResponse(p) PROVE Evidence'
  BY <1>5, <1>k DEF OnAssignResponse, robot
<1>6. CASE OnBatchWindow \/ OnAllocationTimer \/ Lose
  BY <1>6, <1>k DEF OnBatchWindow, OnAllocationTimer, Lose, network, robot
<1>7. ASSUME NEW r \in Robots, Finish(r) PROVE Evidence'
  <2>1. PICK end \in {"COMPLETED", "FAILED"} :
          mail' = [mail EXCEPT ![r] = Append(@, [task |-> job[r], status |-> end])]
    BY <1>7 DEF Finish
  <2>2. PICK m : m = [task |-> job[r], status |-> end]
    OBVIOUS
  <2>3. m \in Mails /\ m.task = job[r]
    BY <1>0, <1>7, <2>2 DEF Finish, Mails
  <2>4. \A t : \A k \in Robots : Heard(t, k)' => Heard(t, k) \/ t = job[r]
    BY <1>0, <2>1, <2>2, <2>3, HeardAndMore
  <2>5. /\ UNCHANGED <<runs, reports, responses>> /\ job' = [job EXCEPT ![r] = NoTask]
        /\ \A k \in Robots : adapter'[k] \in {adapter[k], NoTask}
    BY <1>0, <1>7 DEF Finish
  <2>6. \A k \in Robots : job'[k] \in {job[k], NoTask}
    BY <1>0, <2>5
  <2> QED BY <1>n, <2>4, <2>5, <2>6 DEF Evidence, Taken
<1>8. ASSUME NEW r \in Robots, Report(r) PROVE Evidence'
  <2>1. UNCHANGED <<runs, responses, job, adapter, mail>>
    BY <1>8 DEF Report, robot
  <2>2. \A k \in Robots : reports'[k] \in {reports[k], adapter[k], Busy}
    BY <1>0, <1>8 DEF Report
  <2> QED BY <1>n, <2>1, <2>2, HeardStays DEF Evidence, Taken
<1>9. ASSUME NEW r \in Robots, Crash(r) PROVE Evidence'
  <2>1. UNCHANGED <<runs, responses, adapter, mail, reports>>
    BY <1>9 DEF Crash, network
  <2>2. \A k \in Robots : job'[k] \in {job[k], NoTask}
    BY <1>0, <1>9 DEF Crash
  <2> QED BY <1>n, <2>1, <2>2, HeardStays DEF Evidence, Taken
<1>10. ASSUME NEW c \in requests, Take(c) PROVE Evidence'
  <2>1. PICK ok \in BOOLEAN :
          /\ responses' = responses \cup
               {[task |-> c.task, robot |-> c.robot, call |-> c.call, ok |-> ok]}
          /\ IF ok
               THEN /\ job' = [job EXCEPT ![c.robot] = c.task]
                    /\ adapter' = [adapter EXCEPT ![c.robot] = c.task]
                    /\ mail' = [mail EXCEPT ![c.robot] =
                                  Append(@, [task |-> c.task, status |-> "IN_PROGRESS"])]
                    /\ runs' = [runs EXCEPT ![c.task] = @ + 1]
               ELSE UNCHANGED <<robot, mail, runs>>
    BY <1>10 DEF Take
  <2>2. reports' = reports /\ c.task \in Tasks /\ c.robot \in Robots
    BY <1>0, <1>10 DEF Take, Calls
  <2>3. CASE ~ok
    <3>1. UNCHANGED <<job, adapter, mail, runs>>
      BY <2>1, <2>3 DEF robot
    <3>2. \A p \in responses' : p.ok => p \in responses
      BY <2>1, <2>3
    <3> QED BY <2>2, <3>1, <3>2, HeardStays DEF Evidence, Taken
  <2>4. CASE ok
    <3>1. PICK m : m = [task |-> c.task, status |-> "IN_PROGRESS"]
      OBVIOUS
    <3>2. m \in Mails /\ m.task = c.task
      BY <2>2, <3>1 DEF Mails
    <3>3. \A t : \A k \in Robots : Heard(t, k)' => Heard(t, k) \/ t = c.task
      BY <1>0, <2>1, <2>2, <2>4, <3>1, <3>2, HeardAndMore
    <3>4. \A k \in Robots : job'[k] \in {job[k], c.task} /\ adapter'[k] \in {adapter[k], c.task}
      BY <1>0, <2>1, <2>4
    <3>5. \A p \in responses' : p \in responses \/ p.task = c.task
      BY <2>1
    <3>6. runs'[c.task] >= 1 /\ \A t \in Tasks \ {c.task} : runs'[t] = runs[t]
      BY <1>0, <2>1, <2>2, <2>4
    <3>7. ASSUME NEW t \in Tasks \ {c.task}, Taken(t)' PROVE Taken(t)
      BY <2>2, <3>3, <3>4, <3>5, <3>7 DEF Taken
    <3> QED BY <3>6, <3>7 DEF Evidence
  <2> QED BY <2>3, <2>4
<1>11. CASE UNCHANGED fvars
  BY <1>11, <1>k DEF fvars, network, robot
<1> QED
  BY <1>1, <1>2, <1>3, <1>4, <1>5, <1>6, <1>7, <1>8, <1>9, <1>10, <1>11
  DEF FNext, Manager, Environment

(* A task that has not failed, waits and has no call was never taken up:    *)
(* nothing can start it late.                                               *)
LEMMA NoLateStart ==
  ASSUME IInv, SingleInv, PairInv, NEW t \in Tasks, Taken(t)
  PROVE  ~(status[t] = "PENDING" /\ inflight[t] = NoDispatch)
<1> SUFFICES ASSUME status[t] = "PENDING", inflight[t] = NoDispatch PROVE FALSE
  OBVIOUS
<1>1. Slack(t) /\ failures[t] = 0
  BY DEF SingleInv, CallInv, Unsent, PairInv, FirstAttempt
<1>2. runs[t] >= 1 /\ runs[t] \in Nat
  BY DEF PairInv, Evidence, IInv, FTypeOK
<1>3. Cardinality(Asked(t)) \in Nat
  BY SpentIsNumber, FS_CardinalityType DEF SingleInv, CallsNumbered, IInv
<1> QED BY <1>1, <1>2, <1>3 DEF Slack, Spent

\* What a step that sends no call may do to the dispatch of t.
DispatchStep(t) ==
  inflight'[t] # NoDispatch =>
    \/ /\ inflight[t] # NoDispatch
       /\ inflight'[t].robot = inflight[t].robot /\ inflight'[t].call = inflight[t].call
    \/ /\ inflight'[t].call = 0 /\ inflight'[t].robot \in Robots
       /\ Active(inflight'[t].robot) = {}

CallSent(t) ==
  /\ inflight[t] # NoDispatch
  /\ calls' = [calls EXCEPT ![t] = @ + 1]
  /\ inflight' = [inflight EXCEPT ![t].call = calls[t] + 1]
  /\ requests' = requests \cup
       {[task |-> t, robot |-> inflight[t].robot, call |-> calls[t] + 1]}
  /\ UNCHANGED responses

LEMMA RoundDispatches ==
  ASSUME FTypeOK, NEW q, NEW inf, NEW res, NEW back, NEW gone, NEW box,
         Round(q, inf, res, back, gone, box), NEW t \in Tasks,
         inf[t] # NoDispatch =>
           /\ inflight[t] # NoDispatch
           /\ inf[t].robot = inflight[t].robot /\ inf[t].call = inflight[t].call
  PROVE  DispatchStep(t)
<1>0. fresh \subseteq Robots
  BY DEF FTypeOK
<1>1. CASE inflight'[t] = inf[t]
  BY <1>1 DEF DispatchStep
<1>2. ASSUME NEW r \in Robots, Active(r) = {},
             inflight'[t] = [robot |-> r, call |-> 0, stage |-> "waiting"]
      PROVE  DispatchStep(t)
  <2>1. inflight'[t].robot = r /\ inflight'[t].call = 0
    BY <1>2
  <2> QED BY <1>2, <2>1 DEF DispatchStep
<1>3. \/ inflight'[t] = inf[t]
      \/ /\ t \in q /\ inf[t] = NoDispatch
         /\ \E r \in Robots \ back :
              /\ Active(r) = {}
              /\ inflight'[t] = [robot |-> r, call |-> 0, stage |-> "waiting"]
  BY <1>0, RoundOfTask
<1> QED BY <1>1, <1>2, <1>3

LEMMA AbortDispatches ==
  ASSUME FTypeOK, NEW t, NEW r, NEW gone, NEW box, Abort(t, r, gone, box), NEW u \in Tasks
  PROVE  DispatchStep(u)
<1>1. PICK inf : inf = Unbooked(t)
  OBVIOUS
<1>2. inf[u] = NoDispatch \/ inf[u] = inflight[u]
  BY <1>1 DEF Unbooked, FTypeOK
<1>3. Round(queue, inf, Unreserved(t), backoff \cup {r}, gone, box)
  BY <1>1 DEF Abort
<1> QED BY <1>2, <1>3, RoundDispatches

LEMMA ClearDispatches ==
  ASSUME FTypeOK, NEW t, Clear(t), NEW u \in Tasks
  PROVE  DispatchStep(u)
BY DEF Clear, Unbooked, DispatchStep, FTypeOK

LEMMA SameDispatches ==
  ASSUME UNCHANGED inflight, NEW u \in Tasks
  PROVE  DispatchStep(u)
BY DEF DispatchStep

LEMMA StagedDispatches ==
  ASSUME FTypeOK, NEW inf, NEW t \in Tasks, inflight[t] # NoDispatch, NEW st,
         inf = [inflight EXCEPT ![t].stage = st], NEW u \in Tasks, inf[u] # NoDispatch
  PROVE  /\ inflight[u] # NoDispatch
         /\ inf[u].robot = inflight[u].robot /\ inf[u].call = inflight[u].call
<1>1. inflight \in [Tasks -> Dispatches \cup {NoDispatch}] /\ inflight[t] \in Dispatches
  BY DEF FTypeOK
<1>2. CASE u # t
  BY <1>1, <1>2
<1>3. CASE u = t
  <2>1. inf[t] = [inflight[t] EXCEPT !.stage = st]
    BY <1>1
  <2> QED BY <1>1, <1>3, <2>1 DEF Dispatches
<1> QED BY <1>2, <1>3

LEMMA EveryStepOfDispatches ==
  ASSUME IInv, [FNext]_fvars
  PROVE  \/ \A u \in Tasks : DispatchStep(u)
         \/ \E t \in Tasks : CallSent(t) /\ UNCHANGED books
<1> DEFINE Goal == \A u \in Tasks : DispatchStep(u)
<1>0. FTypeOK /\ inflight \in [Tasks -> Dispatches \cup {NoDispatch}]
  BY DEF IInv, FTypeOK
<1>s. ASSUME NEW t \in Tasks, NEW r \in Robots, NEW known,
             Confirm(t, r) \/ RobotStarted(t, r, known)
      PROVE  Goal
  BY <1>0, <1>s, ClearDispatches, SameDispatches DEF Confirm, RobotStarted, dispatch
<1>1. ASSUME NEW t \in Tasks, OnTaskRequest(t) \/ OnAssignTask(t) PROVE Goal
  BY <1>0, <1>1, SameDispatches, RoundDispatches DEF OnTaskRequest, OnAssignTask, dispatch
<1>2. ASSUME NEW t \in Tasks, TaskTimeout(t) PROVE Goal
  BY <1>0, <1>2, ClearDispatches DEF TaskTimeout
<1>3. ASSUME NEW r \in Robots, OnRobotState(r) PROVE Goal
  <2>1. ASSUME reports[r] \in Tasks, Confirm(reports[r], r) PROVE Goal
    BY <1>s, <2>1
  <2>2. ASSUME inflight' = [t \in Tasks |->
                  IF inflight[t] # NoDispatch /\ inflight[t].robot = r /\ inflight[t].stage = "late"
                    THEN [inflight[t] EXCEPT !.stage = "checked"] ELSE inflight[t]],
               NEW u \in Tasks
        PROVE  DispatchStep(u)
    <3>1. CASE inflight'[u] = inflight[u]
      BY <3>1 DEF DispatchStep
    <3>2. CASE inflight[u] # NoDispatch /\ inflight'[u] = [inflight[u] EXCEPT !.stage = "checked"]
      <4>1. inflight[u] \in Dispatches
        BY <1>0, <3>2
      <4>2. inflight'[u].robot = inflight[u].robot /\ inflight'[u].call = inflight[u].call
        BY <3>2, <4>1 DEF Dispatches
      <4> QED BY <3>2, <4>2 DEF DispatchStep
    <3> QED BY <2>2, <3>1, <3>2
  <2> QED BY <1>3, <2>1, <2>2 DEF OnRobotState
<1>4. ASSUME NEW r \in Robots, OnTaskStatus(r) PROVE Goal
  <2>1. PICK t \in Tasks : t = Head(mail[r]).task
    BY <1>0, <1>4, HeardAfterMail DEF OnTaskStatus, Mails
  <2>2. ASSUME RobotStarted(t, r, r \in sent[t] \/ r = Pin[t]) PROVE Goal
    BY <1>s, <2>2
  <2>3. ASSUME Clear(t) PROVE Goal
    BY <1>0, <2>3, ClearDispatches
  <2>4. ASSUME UNCHANGED dispatch PROVE Goal
    BY <2>4, SameDispatches DEF dispatch
  <2> QED BY <1>4, <2>1, <2>2, <2>3, <2>4 DEF OnTaskStatus
<1>5. ASSUME NEW p \in responses, OnAssignResponse(p) PROVE Goal
  <2>1. p.task \in Tasks /\ p.robot \in Robots
    BY <1>0 DEF FTypeOK, Answers
  <2>2. ASSUME Abort(p.task, p.robot, lost, outbox) PROVE Goal
    BY <1>0, <2>2, AbortDispatches
  <2>3. ASSUME UNCHANGED dispatch PROVE Goal
    BY <2>3, SameDispatches DEF dispatch
  <2> QED BY <1>5, <1>s, <2>1, <2>2, <2>3 DEF OnAssignResponse
<1>6. ASSUME NEW r \in Robots, OnOutboxRelease(r)
      PROVE  Goal \/ \E t \in Tasks : CallSent(t) /\ UNCHANGED books
  <2>1. PICK t \in Tasks : t = Head(outbox[r])
    BY <1>0, <1>6 DEF OnOutboxRelease, FTypeOK
  <2>2. ASSUME Abort(t, inflight[t].robot, lost, [outbox EXCEPT ![r] = Tail(@)]) PROVE Goal
    BY <1>0, <2>2, AbortDispatches
  <2>3. ASSUME UNCHANGED inflight PROVE Goal
    BY <2>3, SameDispatches
  <2>4. CASE /\ inflight[t] # NoDispatch
             /\ calls' = [calls EXCEPT ![t] = @ + 1]
             /\ inflight' = [inflight EXCEPT ![t].call = calls[t] + 1]
             /\ requests' = requests \cup
                  {[task |-> t, robot |-> inflight[t].robot, call |-> calls[t] + 1]}
    BY <1>6, <2>4 DEF CallSent, OnOutboxRelease
  <2> QED BY <1>6, <2>1, <2>2, <2>3, <2>4 DEF OnOutboxRelease
<1>7. ASSUME NEW r \in Robots, RobotLost(r) PROVE Goal
  BY <1>0, <1>7, AbortDispatches, SameDispatches DEF RobotLost, dispatch
<1>8. CASE OnBatchWindow
  BY <1>0, <1>8, RoundDispatches DEF OnBatchWindow
<1>t. ASSUME NEW inf, TimedRound(inf),
             \A u \in Tasks : inf[u] # NoDispatch =>
               /\ inflight[u] # NoDispatch
               /\ inf[u].robot = inflight[u].robot /\ inf[u].call = inflight[u].call
      PROVE  Goal
  <2>1. CASE Round(queue, inf, reserved, backoff, lost, outbox)
    BY <1>0, <1>t, <2>1, RoundDispatches
  <2>2. CASE inflight' = inf
    BY <1>t, <2>2 DEF DispatchStep
  <2> QED BY <1>t, <2>1, <2>2 DEF TimedRound
<1>9. CASE OnAllocationTimer
  <2>1. ASSUME NEW t \in Tasks, Abort(t, inflight[t].robot, lost, outbox) PROVE Goal
    BY <1>0, <2>1, AbortDispatches
  <2>2. ASSUME NEW t \in Tasks, inflight[t] # NoDispatch,
               TimedRound([inflight EXCEPT ![t].stage = "unconfirmed"])
        PROVE  Goal
    <3>1. PICK inf : inf = [inflight EXCEPT ![t].stage = "unconfirmed"]
      OBVIOUS
    <3>2. TimedRound(inf)
      BY <2>2, <3>1
    <3> QED BY <1>0, <1>t, <2>2, <3>1, <3>2, StagedDispatches
  <2>3. ASSUME TimedRound(inflight) PROVE Goal
    BY <1>t, <2>3
  <2> QED BY <1>9, <2>1, <2>2, <2>3 DEF OnAllocationTimer, Expired
<1>10. ASSUME NEW t \in Tasks, DeadlinePasses(t) PROVE Goal
  <2>1. PICK st \in {"overdue", "late"} :
          inflight[t] # NoDispatch /\ inflight' = [inflight EXCEPT ![t].stage = st]
    BY <1>10 DEF DeadlinePasses
  <2>2. PICK inf : inf = [inflight EXCEPT ![t].stage = st]
    OBVIOUS
  <2>3. ASSUME NEW u \in Tasks PROVE DispatchStep(u)
    BY <1>0, <2>1, <2>2, StagedDispatches DEF DispatchStep
  <2> QED BY <2>3
<1>11. ASSUME UNCHANGED dispatch PROVE Goal
  BY <1>11, SameDispatches DEF dispatch
<1>12. CASE \/ \E r \in Robots : BackoffOver(r) \/ GoesQuiet(r) \/ Finish(r) \/ Report(r) \/ Crash(r)
            \/ \E c \in requests : Take(c)
            \/ Lose \/ UNCHANGED fvars
  BY <1>11, <1>12 DEF BackoffOver, GoesQuiet, Finish, Report, Crash, Take, Lose, fvars
<1> QED
  BY <1>1, <1>2, <1>3, <1>4, <1>5, <1>6, <1>7, <1>8, <1>9, <1>10, <1>12
  DEF FNext, Manager, Environment

(* Without a robot that is declared offline only the acceptance of a        *)
(* dispatch by its robot starts a task.                                     *)
LEMMA StartsDispatched ==
  ASSUME IInv, SingleInv, PairInv, [FNext]_fvars
  PROVE  \/ \A u \in Tasks : status'[u] = "IN_PROGRESS" =>
              status[u] = "IN_PROGRESS" /\ owner'[u] = owner[u]
         \/ \E t \in Tasks, r \in Robots :
              /\ inflight[t] # NoDispatch /\ inflight[t].robot = r /\ status[t] = "PENDING"
              /\ Clear(t) /\ StartTask(t, r)
<1> DEFINE Goal == \/ \A u \in Tasks : status'[u] = "IN_PROGRESS" =>
                        status[u] = "IN_PROGRESS" /\ owner'[u] = owner[u]
                   \/ \E t \in Tasks, r \in Robots :
                        /\ inflight[t] # NoDispatch /\ inflight[t].robot = r
                        /\ status[t] = "PENDING" /\ Clear(t) /\ StartTask(t, r)
<1>0. FTypeOK /\ RecordTypes /\ SingleInv
      /\ status \in [Tasks -> {"unknown", "PENDING", "IN_PROGRESS", "COMPLETED", "FAILED"}]
      /\ owner \in [Tasks -> Robots \cup {NoRobot}]
  BY TablesOfInvariant DEF IInv, FTypeOK
<1>b. ASSUME UNCHANGED books PROVE Goal
  BY <1>b DEF books
<1>a. ASSUME NEW t \in Tasks, Admit(t) PROVE Goal
  BY <1>0, <1>a DEF Admit
<1>f. ASSUME NEW t \in Tasks, NEW r, FailTask(t, r) PROVE Goal
  BY <1>0, <1>f DEF FailTask
<1>c. ASSUME NEW t \in Tasks, inflight[t] # NoDispatch, Confirm(t, inflight[t].robot) PROVE Goal
  <2>1. status[t] = "PENDING" /\ inflight[t].robot \in Robots
    BY <1>0, <1>c DEF IInv, ReservationsAgree, FTypeOK, Dispatches
  <2> QED BY <1>c, <2>1 DEF Confirm
<1>s. ASSUME NEW t \in Tasks, NEW r \in Robots, NEW known, RobotStarted(t, r, known), Taken(t)
      PROVE  Goal
  <2>1. ~MayStartLate(t, r, known)
    BY <1>s, NoLateStart DEF MayStartLate
  <2> QED BY <1>b, <1>c, <1>s, <2>1 DEF RobotStarted
<1>1. ASSUME NEW t \in Tasks, OnTaskRequest(t) \/ OnAssignTask(t) PROVE Goal
  BY <1>1, <1>a DEF OnTaskRequest, OnAssignTask
<1>2. ASSUME NEW t \in Tasks, TaskTimeout(t) PROVE Goal
  BY <1>2, <1>f DEF TaskTimeout
<1>3. ASSUME NEW r \in Robots, OnRobotState(r) PROVE Goal
  <2>1. ASSUME reports[r] \in Tasks, reserved[r] = reports[r], Confirm(reports[r], r) PROVE Goal
    <3>1. inflight[reports[r]] # NoDispatch /\ inflight[reports[r]].robot = r
      BY <2>1, DispatchFacts DEF IInv, ReservationsAgree
    <3> QED BY <1>c, <2>1, <3>1
  <2>2. ASSUME reports[r] \in Tasks PROVE ~MayStartLate(reports[r], r, r \in sent[reports[r]])
    <3>1. Taken(reports[r])
      BY <2>2 DEF Taken
    <3> QED BY <2>2, <3>1, NoLateStart DEF MayStartLate
  <2> QED BY <1>3, <1>b, <2>1, <2>2 DEF OnRobotState
<1>4. ASSUME NEW r \in Robots, OnTaskStatus(r) PROVE Goal
  <2>1. PICK t \in Tasks : t = Head(mail[r]).task
    BY <1>0, <1>4, HeardAfterMail DEF OnTaskStatus, Mails
  <2>2. Taken(t)
    BY <1>0, <1>4, <2>1, HeardAfterMail DEF OnTaskStatus, Taken
  <2>3. ASSUME RobotStarted(t, r, r \in sent[t] \/ r = Pin[t]) PROVE Goal
    BY <1>s, <2>2, <2>3
  <2>4. ASSUME status' = [status EXCEPT ![t] = "COMPLETED"], UNCHANGED owner PROVE Goal
    BY <1>0, <2>4
  <2>5. ASSUME FailTask(t, r) PROVE Goal
    BY <1>f, <2>5
  <2> QED BY <1>4, <1>b, <2>1, <2>3, <2>4, <2>5 DEF OnTaskStatus
<1>5. ASSUME NEW p \in responses, OnAssignResponse(p) PROVE Goal
  <2>1. p.task \in Tasks /\ p.robot \in Robots
    BY <1>0 DEF FTypeOK, Answers
  <2>2. ASSUME inflight[p.task] # NoDispatch, inflight[p.task].call = p.call,
               Confirm(p.task, p.robot)
        PROVE  Goal
    <3>1. inflight[p.task].robot = p.robot
      BY <2>2 DEF PairInv, CallsKnown
    <3> QED BY <1>c, <2>1, <2>2, <3>1
  <2>3. ASSUME p.ok, RobotStarted(p.task, p.robot, p.robot \in sent[p.task]) PROVE Goal
    <3>1. Taken(p.task)
      BY <2>3 DEF Taken
    <3> QED BY <1>s, <2>1, <2>3, <3>1
  <2> QED BY <1>5, <1>b, <2>2, <2>3 DEF OnAssignResponse
<1>6. ASSUME NEW r \in Robots, RobotLost(r) PROVE Goal
  BY <1>0, <1>6 DEF RobotLost, SingleInv, CallsNumbered
<1>7. CASE \/ \E r \in Robots : OnOutboxRelease(r) \/ BackoffOver(r) \/ GoesQuiet(r) \/ Finish(r)
                               \/ Report(r) \/ Crash(r)
           \/ \E t \in Tasks : DeadlinePasses(t)
           \/ \E c \in requests : Take(c)
           \/ OnBatchWindow \/ OnAllocationTimer \/ Lose \/ UNCHANGED fvars
  BY <1>7, <1>b DEF OnOutboxRelease, BackoffOver, GoesQuiet, Finish, Report, Crash,
     DeadlinePasses, Take, OnBatchWindow, OnAllocationTimer, Lose, fvars
<1> QED
  BY <1>1, <1>2, <1>3, <1>4, <1>5, <1>6, <1>7 DEF FNext, Manager, Environment

LEMMA ApartKept ==
  ASSUME IInv, SingleInv, PairInv, [FNext]_fvars
  PROVE  Apart'
<1>0. /\ FTypeOK /\ ReservationsAgree /\ Apart
      /\ inflight \in [Tasks -> Dispatches \cup {NoDispatch}]
      /\ status \in [Tasks -> {"unknown", "PENDING", "IN_PROGRESS", "COMPLETED", "FAILED"}]
      /\ owner \in [Tasks -> Robots \cup {NoRobot}]
      /\ \A t \in Tasks : inflight[t] # NoDispatch => inflight[t].robot \in Robots
  BY DispatchFacts DEF IInv, PairInv, FTypeOK
<1>d. \A t \in Tasks : inflight'[t] # NoDispatch =>
        \/ inflight[t] # NoDispatch /\ inflight'[t].robot = inflight[t].robot
        \/ Active(inflight'[t].robot) = {}
  <2>1. ASSUME NEW t \in Tasks, CallSent(t), NEW u \in Tasks, inflight'[u] # NoDispatch
        PROVE  inflight[u] # NoDispatch /\ inflight'[u].robot = inflight[u].robot
    <3>1. CASE u # t
      BY <1>0, <2>1, <3>1 DEF CallSent
    <3>2. CASE u = t
      <4>1. inflight[t] \in Dispatches /\ inflight'[t] = [inflight[t] EXCEPT !.call = calls[t] + 1]
        BY <1>0, <2>1 DEF CallSent
      <4> QED BY <2>1, <3>2, <4>1 DEF CallSent, Dispatches
    <3> QED BY <3>1, <3>2
  <2> QED BY <2>1, EveryStepOfDispatches DEF DispatchStep
<1>1. CASE \A u \in Tasks : status'[u] = "IN_PROGRESS" =>
              status[u] = "IN_PROGRESS" /\ owner'[u] = owner[u]
  <2>1. ASSUME NEW r PROVE Active(r)' \subseteq Active(r)
    BY <1>1 DEF Active
  <2>2. ASSUME NEW t \in Tasks, inflight'[t] # NoDispatch, NEW r, r = inflight'[t].robot
        PROVE  Active(r)' = {}
    <3>1. Active(r) = {}
      BY <1>0, <1>d, <2>2 DEF Apart
    <3> QED BY <2>1, <3>1
  <2>3. (\A t \in Tasks : inflight[t] # NoDispatch => Active(inflight[t].robot) = {})'
    BY <2>2
  <2>4. \A r \in Robots : \A t, u \in Active(r)' : t = u
    BY <1>0, <2>1 DEF Apart
  <2> QED BY <2>3, <2>4 DEF Apart
<1>2. ASSUME NEW t \in Tasks, NEW r \in Robots, inflight[t] # NoDispatch, inflight[t].robot = r,
             status[t] = "PENDING", Clear(t), StartTask(t, r)
      PROVE  Apart'
  <2>1. inflight' = Unbooked(t) /\ inflight'[t] = NoDispatch
    BY <1>0, <1>2 DEF Clear, Unbooked
  <2>2. Active(r) = {}
    BY <1>0, <1>2 DEF Apart
  <2>3. ASSUME NEW k, k # r PROVE Active(k)' = Active(k)
    BY <1>0, <1>2, <2>3 DEF Active, StartTask
  <2>4. Active(r)' = {t}
    BY <1>0, <1>2, <2>2 DEF Active, StartTask
  <2>5. ASSUME NEW u \in Tasks, inflight'[u] # NoDispatch, NEW k, k = inflight'[u].robot
        PROVE  Active(k)' = {}
    <3>1. u # t /\ inflight'[u] = inflight[u]
      BY <1>0, <2>1, <2>5 DEF Unbooked
    <3>2. k # r
      BY <1>0, <1>2, <2>5, <3>1 DEF ReservationsAgree
    <3>3. Active(k) = {}
      BY <1>0, <2>5, <3>1 DEF Apart
    <3> QED BY <2>3, <3>2, <3>3
  <2>6. (\A u \in Tasks : inflight[u] # NoDispatch => Active(inflight[u].robot) = {})'
    BY <2>5
  <2>7. \A k \in Robots : \A q, u \in Active(k)' : q = u
    BY <1>0, <2>3, <2>4 DEF Apart
  <2> QED BY <2>6, <2>7 DEF Apart
<1> QED BY <1>1, <1>2, StartsDispatched

LEMMA CallsKnownKept ==
  ASSUME IInv, SingleInv, PairInv, [FNext]_fvars
  PROVE  CallsKnown'
<1>0. /\ FTypeOK /\ CallsNumbered /\ CallsKnown
      /\ inflight \in [Tasks -> Dispatches \cup {NoDispatch}] /\ calls \in [Tasks -> Nat]
      /\ requests \subseteq Calls /\ responses \subseteq Answers
  BY DEF IInv, SingleInv, PairInv, FTypeOK
<1>t. \A c \in requests \cup responses : c.task \in Tasks /\ c.call \in 1..calls[c.task]
  BY <1>0 DEF Calls, Answers, CallsNumbered
<1>1. ASSUME NEW t \in Tasks, CallSent(t) PROVE CallsKnown'
  <2>1. inflight[t] \in Dispatches /\ inflight'[t] = [inflight[t] EXCEPT !.call = calls[t] + 1]
        /\ \A u \in Tasks \ {t} : inflight'[u] = inflight[u]
    BY <1>0, <1>1 DEF CallSent
  <2>2. inflight'[t].call = calls[t] + 1 /\ inflight'[t].robot = inflight[t].robot
    BY <2>1 DEF Dispatches
  <2>3. ASSUME NEW c \in requests \cup responses,
               inflight'[c.task] # NoDispatch, inflight'[c.task].call = c.call
        PROVE  inflight'[c.task].robot = c.robot
    <3>1. c.task # t
      BY <1>0, <1>t, <2>2, <2>3
    <3> QED BY <1>0, <1>t, <2>1, <2>3, <3>1 DEF CallsKnown
  <2>4. ASSUME NEW c, c = [task |-> t, robot |-> inflight[t].robot, call |-> calls[t] + 1]
        PROVE  inflight'[c.task].robot = c.robot
    BY <2>2, <2>4
  <2> QED BY <1>1, <2>3, <2>4 DEF CallsKnown, CallSent
<1>2. CASE \A u \in Tasks : DispatchStep(u)
  <2>1. ASSUME NEW c, NEW d \in requests \cup responses,
               c.task = d.task, c.robot = d.robot, c.call = d.call,
               inflight'[c.task] # NoDispatch, inflight'[c.task].call = c.call
        PROVE  inflight'[c.task].robot = c.robot
    <3>1. c.task \in Tasks /\ c.call # 0
      BY <1>0, <1>t, <2>1
    <3>2. inflight[c.task] # NoDispatch /\ inflight'[c.task].robot = inflight[c.task].robot
          /\ inflight'[c.task].call = inflight[c.task].call
      BY <1>2, <2>1, <3>1 DEF DispatchStep
    <3> QED BY <1>0, <2>1, <3>2 DEF CallsKnown
  <2>2. ASSUME \A c \in requests' \cup responses' : \E d \in requests \cup responses :
                 c.task = d.task /\ c.robot = d.robot /\ c.call = d.call
        PROVE  CallsKnown'
    BY <2>1, <2>2 DEF CallsKnown
  <2>3. ASSUME requests' \subseteq requests, responses' \subseteq responses PROVE CallsKnown'
    BY <2>2, <2>3
  <2>4. ASSUME NEW c \in requests, Take(c) PROVE CallsKnown'
    <3>1. PICK ok \in BOOLEAN : responses' = responses \cup
            {[task |-> c.task, robot |-> c.robot, call |-> c.call, ok |-> ok]}
      BY <2>4 DEF Take
    <3>2. requests' \subseteq requests
      BY <2>4 DEF Take
    <3> QED BY <2>2, <3>1, <3>2
  <2>5. ASSUME NEW r \in Robots, OnOutboxRelease(r) PROVE CallsKnown'
    <3>1. PICK t \in Tasks : t = Head(outbox[r])
      BY <1>0, <2>5 DEF OnOutboxRelease, FTypeOK
    <3>2. CASE /\ inflight[t] # NoDispatch
               /\ calls' = [calls EXCEPT ![t] = @ + 1]
               /\ inflight' = [inflight EXCEPT ![t].call = calls[t] + 1]
               /\ requests' = requests \cup
                    {[task |-> t, robot |-> inflight[t].robot, call |-> calls[t] + 1]}
      BY <1>1, <2>5, <3>2 DEF CallSent, OnOutboxRelease
    <3>3. CASE UNCHANGED requests
      BY <2>3, <2>5, <3>3 DEF OnOutboxRelease
    <3> QED BY <2>5, <3>1, <3>2, <3>3 DEF OnOutboxRelease
  <2>6. CASE \/ \E r \in Robots : \/ OnRobotState(r) \/ OnTaskStatus(r) \/ RobotLost(r)
                                 \/ BackoffOver(r) \/ GoesQuiet(r) \/ Finish(r) \/ Report(r)
                                 \/ Crash(r)
             \/ \E t \in Tasks : \/ OnTaskRequest(t) \/ OnAssignTask(t) \/ TaskTimeout(t)
                                \/ DeadlinePasses(t)
             \/ OnBatchWindow \/ OnAllocationTimer \/ Lose \/ UNCHANGED fvars
             \/ \E p \in responses : OnAssignResponse(p)
    <3>1. requests' \subseteq requests /\ responses' \subseteq responses
      BY <2>6 DEF OnRobotState, OnTaskStatus, RobotLost, BackoffOver, GoesQuiet, Finish, Report,
         Crash, OnTaskRequest, OnAssignTask, TaskTimeout, DeadlinePasses, OnBatchWindow,
         OnAllocationTimer, Lose, OnAssignResponse, fvars, network
    <3> QED BY <2>3, <3>1
  <2> QED BY <2>4, <2>5, <2>6 DEF FNext, Manager, Environment
<1> QED BY <1>1, <1>2, EveryStepOfDispatches

(* With no retries allowed a failed task waits no more.                     *)
LEMMA FirstAttemptKept ==
  ASSUME IInv, FirstAttempt, MaxRetries = 0, [FNext]_fvars
  PROVE  FirstAttempt'
<1>0. RecordTypes /\ RecordStep
  BY TablesOfInvariant, EveryStepOfRecords DEF IInv
<1>1. CASE UNCHANGED books
  BY <1>1 DEF books, FirstAttempt
<1>2. ASSUME NEW t \in Tasks, Admit(t) \/ Completed(t) PROVE FirstAttempt'
  BY <1>0, <1>2 DEF Admit, Completed, FirstAttempt, RecordTypes
<1>3. ASSUME NEW t \in Tasks, NEW r \in Robots, Started(t, r) PROVE FirstAttempt'
  BY <1>0, <1>3 DEF Started, StartTask, FirstAttempt, RecordTypes
<1>4. ASSUME NEW t \in Tasks, NEW r \in Robots, Failed(t, r) PROVE FirstAttempt'
  <2>1. failures[t] \in Nat
    BY <1>0 DEF RecordTypes
  <2>2. FailTask(t, r) /\ ~(failures[t] < 0)
    BY <1>4, <2>1 DEF Failed
  <2>3. status' = [status EXCEPT ![t] = "FAILED"] /\ failures' = [failures EXCEPT ![t] = @ + 1]
    BY <2>2 DEF FailTask
  <2> QED BY <1>0, <2>3 DEF FirstAttempt, RecordTypes
<1> QED BY <1>0, <1>1, <1>2, <1>3, <1>4 DEF RecordStep

(* The books never show a robot two tasks in progress, though messages are  *)
(* lost, delayed and reordered: if a link delivers or loses what it has     *)
(* within assign_reconcile_s, the states of the robots keep coming and no   *)
(* failed task is tried again.                                              *)
THEOREM OneTaskForEachRobot ==
  ASSUME Prompt, "quiet" \notin Faults, MaxRetries = 0
  PROVE  FSpec => []OneTaskPerRobot
<1>1. FInit => PairInv
  <2> SUFFICES ASSUME FInit PROVE PairInv
    OBVIOUS
  <2>1. Evidence
    BY ConstantsAssumption DEF FInit, Evidence, Taken, Heard
  <2>2. FirstAttempt /\ CallsKnown /\ Apart
    BY DEF FInit, FirstAttempt, CallsKnown, Apart, Active
  <2> QED BY <2>1, <2>2 DEF PairInv
<1>2. IInv /\ SingleInv /\ PairInv /\ [FNext]_fvars => PairInv'
  <2> SUFFICES ASSUME IInv, SingleInv, PairInv, [FNext]_fvars PROVE PairInv'
    OBVIOUS
  <2>1. Evidence' /\ FirstAttempt'
    BY EvidenceKept, FirstAttemptKept DEF PairInv
  <2> QED BY <2>1, ApartKept, CallsKnownKept DEF PairInv
<1>3. PairInv => OneTaskPerRobot
  <2> SUFFICES ASSUME PairInv, NEW r \in Robots PROVE Cardinality(Active(r)) <= 1
    BY DEF OneTaskPerRobot
  <2>1. CASE Active(r) = {}
    BY <2>1, FS_EmptySet
  <2>2. ASSUME NEW t \in Active(r) PROVE Cardinality(Active(r)) <= 1
    <3>1. Active(r) = {t}
      BY <2>2 DEF PairInv, Apart
    <3>2. Cardinality({t}) = 1
      BY FS_Singleton
    <3> QED BY <3>1, <3>2
  <2> QED BY <2>1, <2>2
<1> QED BY <1>1, <1>2, <1>3, SingleInvariant, Invariant, PTL DEF FSpec

-----------------------------------------------------------------------------
(* Bookings and their clocks.                                               *)

\* What a step that sends no call makes of the booking d of a task.
Advanced(d, e) ==
  /\ d # NoDispatch /\ e.robot = d.robot /\ e.call = d.call
  /\ e.stage = d.stage \/ <<d.stage, e.stage>> \in Onward
  /\ e.stage # d.stage /\ d.call = 0 => e.stage = "overdue"

Rebooked(d, e) ==
  /\ e.call = 0 /\ e.stage = "waiting"
  /\ d # NoDispatch => e.robot # d.robot

NextBooking(t) ==
  inflight'[t] # NoDispatch =>
    Advanced(inflight[t], inflight'[t]) \/ Rebooked(inflight[t], inflight'[t])

\* Calls are told apart by their numbers, and the number of a booking is
\* one of its own robot.
Numbered ==
  /\ \A c \in requests \cup responses : c.call \in 1..calls[c.task]
  /\ \A t \in Tasks :
       inflight[t] # NoDispatch => inflight[t].call <= calls[t] /\ Young(inflight[t])
  /\ \A c \in requests \cup responses :
       inflight[c.task] # NoDispatch /\ inflight[c.task].call = c.call =>
         c.robot = inflight[c.task].robot

LEMMA RoundBookings ==
  ASSUME FTypeOK, NEW q, NEW inf, NEW res, NEW back, NEW gone, NEW box,
         Round(q, inf, res, back, gone, box), NEW t \in Tasks,
         inf[t] # NoDispatch => Advanced(inflight[t], inf[t]),
         inf[t] = NoDispatch /\ inflight[t] # NoDispatch => inflight[t].robot \in back
  PROVE  NextBooking(t)
<1>0. fresh \subseteq Robots
  BY DEF FTypeOK
<1>1. CASE inflight'[t] = inf[t]
  BY <1>1 DEF NextBooking
<1>2. ASSUME NEW r \in Robots \ back, inf[t] = NoDispatch,
             inflight'[t] = [robot |-> r, call |-> 0, stage |-> "waiting"]
      PROVE  NextBooking(t)
  <2>1. inflight'[t].robot = r /\ inflight'[t].call = 0 /\ inflight'[t].stage = "waiting"
    BY <1>2
  <2> QED BY <1>2, <2>1 DEF NextBooking, Rebooked
<1>3. \/ inflight'[t] = inf[t]
      \/ /\ inf[t] = NoDispatch
         /\ \E r \in Robots \ back :
              inflight'[t] = [robot |-> r, call |-> 0, stage |-> "waiting"]
  BY <1>0, RoundOfTask
<1> QED BY <1>1, <1>2, <1>3

\* A booking is only given up for its own robot, which is then left out.
LEMMA AbortBookings ==
  ASSUME FTypeOK, NEW t \in Tasks, NEW r, NEW gone, NEW box, Abort(t, r, gone, box),
         inflight[t] # NoDispatch => inflight[t].robot = r, NEW u \in Tasks
  PROVE  NextBooking(u)
<1>1. PICK inf : inf = Unbooked(t)
  OBVIOUS
<1>2. IF u = t THEN inf[u] = NoDispatch ELSE inf[u] = inflight[u]
  BY <1>1 DEF Unbooked, FTypeOK
<1>3. Round(queue, inf, Unreserved(t), backoff \cup {r}, gone, box)
  BY <1>1 DEF Abort
<1>4. inf[u] # NoDispatch => Advanced(inflight[u], inf[u])
  BY <1>2 DEF Advanced
<1> QED BY <1>2, <1>3, <1>4, RoundBookings

LEMMA SameBookings ==
  ASSUME UNCHANGED inflight, NEW u \in Tasks
  PROVE  NextBooking(u)
BY DEF NextBooking, Advanced

LEMMA ClearBookings ==
  ASSUME FTypeOK, NEW t, Clear(t), NEW u \in Tasks
  PROVE  NextBooking(u)
BY DEF Clear, Unbooked, NextBooking, Advanced, FTypeOK

\* The stages of one booking, or of several, that follow each other.
LEMMA StagedBookings ==
  ASSUME FTypeOK, Numbered, NEW u \in Tasks, inflight[u] # NoDispatch, NEW st,
         <<inflight[u].stage, st>> \in Onward,
         inflight[u].call = 0 => st = "overdue"
  PROVE  LET e == [inflight[u] EXCEPT !.stage = st] IN Advanced(inflight[u], e)
<1>1. inflight[u] \in Dispatches
  BY DEF FTypeOK
<1>2. PICK e : e = [inflight[u] EXCEPT !.stage = st]
  OBVIOUS
<1>3. e.robot = inflight[u].robot /\ e.call = inflight[u].call /\ e.stage = st
  BY <1>1, <1>2 DEF Dispatches
<1> QED BY <1>2, <1>3 DEF Advanced

\* No new call: what is under way is a call that was, or the answer to it.
CallsStay ==
  /\ calls' = calls
  /\ \A c \in requests' \cup responses' : \E b \in requests \cup responses :
       b.task = c.task /\ b.robot = c.robot /\ b.call = c.call

LEMMA EveryStepOfCalls ==
  ASSUME FTypeOK, [FNext]_fvars
  PROVE  CallsStay \/ \E t \in Tasks : CallSent(t)
<1>1. CASE /\ UNCHANGED calls
           /\ requests' \subseteq requests /\ responses' \subseteq responses
  BY <1>1 DEF CallsStay
<1>2. ASSUME NEW c \in requests, Take(c) PROVE CallsStay
  <2>1. PICK p : /\ p.task = c.task /\ p.robot = c.robot /\ p.call = c.call
                 /\ responses' = responses \cup {p}
    <3>1. PICK ok \in BOOLEAN : responses' = responses \cup
            {[task |-> c.task, robot |-> c.robot, call |-> c.call, ok |-> ok]}
      BY <1>2 DEF Take
    <3>2. PICK p : p = [task |-> c.task, robot |-> c.robot, call |-> c.call, ok |-> ok]
      OBVIOUS
    <3>3. p.task = c.task /\ p.robot = c.robot /\ p.call = c.call
      BY <3>2
    <3> QED BY <3>1, <3>2, <3>3
  <2>2. UNCHANGED calls /\ requests' \subseteq requests
    BY <1>2 DEF Take
  <2> QED BY <2>1, <2>2 DEF CallsStay
<1>3. ASSUME NEW r \in Robots, OnOutboxRelease(r)
      PROVE  CallsStay \/ \E t \in Tasks : CallSent(t)
  <2>1. PICK t \in Tasks : t = Head(outbox[r])
    BY <1>3 DEF OnOutboxRelease, FTypeOK
  <2>2. CASE UNCHANGED <<calls, requests>>
    BY <1>1, <1>3, <2>2 DEF OnOutboxRelease
  <2>3. CASE CallSent(t)
    BY <2>3
  <2> QED BY <1>3, <2>1, <2>2, <2>3 DEF OnOutboxRelease, CallSent
<1>4. CASE Manager /\ ~\E r \in Robots : OnOutboxRelease(r)
  BY <1>1, <1>4
  DEF Manager, OnTaskRequest, OnAssignTask, TaskTimeout, OnRobotState, OnTaskStatus, RobotLost,
      OnAssignResponse, OnBatchWindow, OnAllocationTimer, network
<1>5. CASE Lose
  BY <1>1, <1>5 DEF Lose
<1>6. CASE \/ \E t \in Tasks : DeadlinePasses(t)
           \/ \E r \in Robots : BackoffOver(r) \/ GoesQuiet(r) \/ Finish(r) \/ Report(r) \/ Crash(r)
           \/ UNCHANGED fvars
  BY <1>1, <1>6
  DEF DeadlinePasses, BackoffOver, GoesQuiet, Finish, Report, Crash, fvars, network
<1> QED BY <1>2, <1>3, <1>4, <1>5, <1>6 DEF FNext, Manager, Environment

LEMMA EveryStepOfBookings ==
  ASSUME IInv, Numbered, [FNext]_fvars
  PROVE  \/ \A u \in Tasks : NextBooking(u)
         \/ \E t \in Tasks : inflight[t].call = 0 /\ CallSent(t)
<1> DEFINE Goal == \A u \in Tasks : NextBooking(u)
<1>0. FTypeOK /\ ReservationsAgree /\ inflight \in [Tasks -> Dispatches \cup {NoDispatch}]
  BY DEF IInv, FTypeOK
<1>y. \A u \in Tasks : inflight[u] # NoDispatch => Young(inflight[u])
  BY DEF Numbered
<1>s. ASSUME NEW t \in Tasks, NEW r \in Robots, NEW known,
             Confirm(t, r) \/ RobotStarted(t, r, known)
      PROVE  Goal
  BY <1>0, <1>s, ClearBookings, SameBookings DEF Confirm, RobotStarted, dispatch
<1>a. ASSUME NEW u \in Tasks PROVE inflight[u] # NoDispatch => Advanced(inflight[u], inflight[u])
  BY DEF Advanced
<1>1. ASSUME NEW t \in Tasks, OnTaskRequest(t) \/ OnAssignTask(t) PROVE Goal
  BY <1>0, <1>1, <1>a, SameBookings, RoundBookings DEF OnTaskRequest, OnAssignTask, dispatch
<1>2. ASSUME NEW t \in Tasks, TaskTimeout(t) PROVE Goal
  BY <1>0, <1>2, ClearBookings DEF TaskTimeout
<1>3. ASSUME NEW r \in Robots, OnRobotState(r) PROVE Goal
  <2>1. ASSUME reports[r] \in Tasks, Confirm(reports[r], r) PROVE Goal
    BY <1>s, <2>1
  <2>2. ASSUME inflight' = [t \in Tasks |->
                  IF inflight[t] # NoDispatch /\ inflight[t].robot = r /\ inflight[t].stage = "late"
                    THEN [inflight[t] EXCEPT !.stage = "checked"] ELSE inflight[t]],
               NEW u \in Tasks
        PROVE  NextBooking(u)
    <3>1. CASE inflight'[u] = inflight[u]
      BY <3>1, <1>a DEF NextBooking
    <3>2. CASE inflight[u] # NoDispatch /\ inflight[u].stage = "late"
               /\ inflight'[u] = [inflight[u] EXCEPT !.stage = "checked"]
      <4>1. <<inflight[u].stage, "checked">> \in Onward /\ inflight[u].call # 0
        BY <1>y, <3>2 DEF Onward, Young
      <4> QED BY <1>0, <3>2, <4>1, StagedBookings DEF NextBooking
    <3> QED BY <2>2, <3>1, <3>2
  <2> QED BY <1>3, <2>1, <2>2 DEF OnRobotState
<1>4. ASSUME NEW r \in Robots, OnTaskStatus(r) PROVE Goal
  <2>1. PICK t \in Tasks : t = Head(mail[r]).task
    BY <1>0, <1>4, HeardAfterMail DEF OnTaskStatus, Mails
  <2>2. ASSUME RobotStarted(t, r, r \in sent[t] \/ r = Pin[t]) PROVE Goal
    BY <1>s, <2>2
  <2>3. ASSUME Clear(t) PROVE Goal
    BY <1>0, <2>3, ClearBookings
  <2>4. ASSUME UNCHANGED dispatch PROVE Goal
    BY <2>4, SameBookings DEF dispatch
  <2> QED BY <1>4, <2>1, <2>2, <2>3, <2>4 DEF OnTaskStatus
<1>5. ASSUME NEW p \in responses, OnAssignResponse(p) PROVE Goal
  <2>1. p.task \in Tasks /\ p.robot \in Robots
    BY <1>0 DEF FTypeOK, Answers
  <2>2. ASSUME inflight[p.task] # NoDispatch, inflight[p.task].call = p.call,
               Abort(p.task, p.robot, lost, outbox)
        PROVE  Goal
    <3>1. inflight[p.task].robot = p.robot
      BY <2>2 DEF Numbered
    <3> QED BY <1>0, <2>1, <2>2, <3>1, AbortBookings
  <2>3. ASSUME UNCHANGED dispatch PROVE Goal
    BY <2>3, SameBookings DEF dispatch
  <2> QED BY <1>5, <1>s, <2>1, <2>2, <2>3 DEF OnAssignResponse
<1>6. ASSUME NEW r \in Robots, OnOutboxRelease(r)
      PROVE  Goal \/ \E t \in Tasks : inflight[t].call = 0 /\ CallSent(t)
  <2>1. PICK t \in Tasks : t = Head(outbox[r])
    BY <1>0, <1>6 DEF OnOutboxRelease, FTypeOK
  <2>2. ASSUME Abort(t, inflight[t].robot, lost, [outbox EXCEPT ![r] = Tail(@)]) PROVE Goal
    BY <1>0, <2>2, AbortBookings
  <2>3. ASSUME UNCHANGED inflight PROVE Goal
    BY <2>3, SameBookings
  <2>4. CASE inflight[t].call = 0 /\ CallSent(t)
    BY <2>4
  <2> QED BY <1>6, <2>1, <2>2, <2>3, <2>4 DEF OnOutboxRelease, CallSent
<1>7. ASSUME NEW r \in Robots, RobotLost(r) PROVE Goal
  <2>1. ASSUME reserved[r] # NoTask, Abort(reserved[r], r, lost \cup {r}, outbox) PROVE Goal
    <3>1. reserved[r] \in Tasks /\ inflight[reserved[r]].robot = r
      BY <1>0, <2>1 DEF FTypeOK, ReservationsAgree
    <3> QED BY <1>0, <2>1, <3>1, AbortBookings
  <2>2. ASSUME UNCHANGED dispatch PROVE Goal
    BY <2>2, SameBookings DEF dispatch
  <2> QED BY <1>7, <2>1, <2>2 DEF RobotLost
<1>8. CASE OnBatchWindow
  BY <1>0, <1>8, <1>a, RoundBookings DEF OnBatchWindow
<1>t. ASSUME NEW inf, TimedRound(inf), NEW u \in Tasks,
             inf[u] # NoDispatch => Advanced(inflight[u], inf[u]),
             inf[u] = NoDispatch => inflight[u] = NoDispatch
      PROVE  NextBooking(u)
  <2>1. CASE Round(queue, inf, reserved, backoff, lost, outbox)
    BY <1>0, <1>t, <2>1, RoundBookings
  <2>2. CASE inflight' = inf
    BY <1>t, <2>2 DEF NextBooking
  <2> QED BY <1>t, <2>1, <2>2 DEF TimedRound
<1>o. ASSUME NEW t \in Tasks, inflight[t] # NoDispatch, NEW st, NEW inf,
             <<inflight[t].stage, st>> \in Onward, inflight[t].call = 0 => st = "overdue",
             inf = [inflight EXCEPT ![t].stage = st], NEW u \in Tasks
      PROVE  /\ inf[u] # NoDispatch => Advanced(inflight[u], inf[u])
             /\ inf[u] = NoDispatch => inflight[u] = NoDispatch
  <2>1. CASE u # t
    <3>1. inf[u] = inflight[u]
      BY <1>0, <1>o, <2>1
    <3> QED BY <3>1, <1>a
  <2>2. CASE u = t
    <3>1. inf[u] = [inflight[u] EXCEPT !.stage = st]
      BY <1>0, <1>o, <2>2
    <3>2. inf[u] \in [robot: Robots, call: Nat, stage: Stages]
      BY <1>0, <1>o, <2>2, <3>1 DEF Dispatches, Onward, Stages
    <3>3. inf[u] # NoDispatch
      BY <3>2, DispatchAssumption DEF Dispatches
    <3> QED BY <1>0, <1>o, <2>2, <3>1, <3>3, StagedBookings
  <2> QED BY <2>1, <2>2
<1>9. CASE OnAllocationTimer
  <2>1. ASSUME NEW t \in Tasks, Abort(t, inflight[t].robot, lost, outbox) PROVE Goal
    BY <1>0, <2>1, AbortBookings
  <2>2. ASSUME NEW t \in Tasks, inflight[t] # NoDispatch, ~GivenUp(t),
               inflight[t].stage = "overdue",
               TimedRound([inflight EXCEPT ![t].stage = "unconfirmed"])
        PROVE  Goal
    <3>1. PICK inf : inf = [inflight EXCEPT ![t].stage = "unconfirmed"]
      OBVIOUS
    <3>2. TimedRound(inf)
      BY <2>2, <3>1
    <3>3. <<inflight[t].stage, "unconfirmed">> \in Onward /\ inflight[t].call # 0
      BY <2>2 DEF Onward, GivenUp
    <3>4. ASSUME NEW u \in Tasks
          PROVE  /\ inf[u] # NoDispatch => Advanced(inflight[u], inf[u])
                 /\ inf[u] = NoDispatch => inflight[u] = NoDispatch
      BY <1>o, <2>2, <3>1, <3>3
    <3> QED BY <1>t, <3>2, <3>4
  <2>3. ASSUME TimedRound(inflight) PROVE Goal
    BY <1>t, <1>a, <2>3
  <2> QED BY <1>9, <2>1, <2>2, <2>3 DEF OnAllocationTimer, Expired
<1>10. ASSUME NEW t \in Tasks, DeadlinePasses(t) PROVE Goal
  <2>1. PICK st \in {"overdue", "late"} :
          /\ inflight[t] # NoDispatch /\ inflight' = [inflight EXCEPT ![t].stage = st]
          /\ <<inflight[t].stage, st>> \in Onward
          /\ inflight[t].call = 0 => st = "overdue"
    BY <1>10, <1>y DEF DeadlinePasses, Onward, Young
  <2>2. ASSUME NEW u \in Tasks PROVE NextBooking(u)
    BY <1>o, <2>1 DEF NextBooking
  <2> QED BY <2>2
<1>11. ASSUME UNCHANGED dispatch PROVE Goal
  BY <1>11, SameBookings DEF dispatch
<1>12. CASE \/ \E r \in Robots : BackoffOver(r) \/ GoesQuiet(r) \/ Finish(r) \/ Report(r) \/ Crash(r)
            \/ \E c \in requests : Take(c)
            \/ Lose \/ UNCHANGED fvars
  BY <1>11, <1>12 DEF BackoffOver, GoesQuiet, Finish, Report, Crash, Take, Lose, fvars
<1> QED
  BY <1>1, <1>2, <1>3, <1>4, <1>5, <1>6, <1>7, <1>8, <1>9, <1>10, <1>12
  DEF FNext, Manager, Environment

LEMMA NumberedKept ==
  ASSUME IInv, Numbered, [FNext]_fvars
  PROVE  Numbered'
<1>0. FTypeOK /\ inflight \in [Tasks -> Dispatches \cup {NoDispatch}]
      /\ calls \in [Tasks -> Nat] /\ requests \subseteq Calls /\ responses \subseteq Answers
  BY DEF IInv, FTypeOK
<1>1. \A c \in requests \cup responses : c.task \in Tasks
  BY <1>0 DEF Calls, Answers
<1>2. ASSUME NEW t \in Tasks, CallSent(t) PROVE Numbered'
  <2>1. calls[t] \in Nat /\ inflight[t] \in Dispatches /\ inflight[t] # NoDispatch
    BY <1>0, <1>2 DEF CallSent
  <2>2. calls' = [calls EXCEPT ![t] = calls[t] + 1]
        /\ inflight' = [inflight EXCEPT ![t] = [inflight[t] EXCEPT !.call = calls[t] + 1]]
    BY <1>2 DEF CallSent
  <2>3. PICK d : d = [inflight[t] EXCEPT !.call = calls[t] + 1]
    OBVIOUS
  <2>4. d.call = calls[t] + 1 /\ d.robot = inflight[t].robot /\ d.call # 0
    BY <2>1, <2>3 DEF Dispatches
  <2>5. inflight'[t] = d /\ calls'[t] = calls[t] + 1
    BY <1>0, <2>2, <2>3
  <2>6. \A u \in Tasks \ {t} : inflight'[u] = inflight[u] /\ calls'[u] = calls[u]
    BY <1>0, <2>2
  <2>7. PICK new : /\ new.task = t /\ new.robot = inflight[t].robot /\ new.call = calls[t] + 1
                   /\ requests' \cup responses' = requests \cup responses \cup {new}
    <3>1. PICK new : new = [task |-> t, robot |-> inflight[t].robot, call |-> calls[t] + 1]
      OBVIOUS
    <3>2. new.task = t /\ new.robot = inflight[t].robot /\ new.call = calls[t] + 1
      BY <3>1
    <3> QED BY <1>2, <3>1, <3>2 DEF CallSent
  <2>8. ASSUME NEW c \in requests' \cup responses'
        PROVE  /\ c.call \in 1..calls'[c.task]
               /\ inflight'[c.task] # NoDispatch /\ inflight'[c.task].call = c.call =>
                    c.robot = inflight'[c.task].robot
    <3>1. CASE c = new
      BY <2>1, <2>4, <2>5, <2>7, <3>1
    <3>2. CASE c \in requests \cup responses /\ c.task # t
      BY <1>1, <2>6, <3>2 DEF Numbered
    <3>3. CASE c \in requests \cup responses /\ c.task = t
      <4>1. c.call \in 1..calls[t]
        BY <3>3 DEF Numbered
      <4> QED BY <2>1, <2>4, <2>5, <3>3, <4>1
    <3> QED BY <2>7, <3>1, <3>2, <3>3
  <2>9. ASSUME NEW u \in Tasks, inflight'[u] # NoDispatch
        PROVE  inflight'[u].call <= calls'[u] /\ Young(inflight'[u])
    <3>1. CASE u = t
      BY <2>1, <2>4, <2>5, <3>1 DEF Young
    <3>2. CASE u # t
      BY <2>6, <2>9, <3>2 DEF Numbered
    <3> QED BY <3>1, <3>2
  <2> QED BY <2>8, <2>9 DEF Numbered, Young
<1>3. CASE CallsStay /\ \A u \in Tasks : NextBooking(u)
  <2>1. ASSUME NEW u \in Tasks, inflight'[u] # NoDispatch
        PROVE  inflight'[u].call <= calls'[u] /\ Young(inflight'[u])
    <3>1. calls'[u] = calls[u] /\ calls[u] \in Nat
      BY <1>0, <1>3 DEF CallsStay
    <3>2. CASE Advanced(inflight[u], inflight'[u])
      BY <3>1, <3>2 DEF Advanced, Numbered, Young
    <3>3. CASE Rebooked(inflight[u], inflight'[u])
      BY <3>1, <3>3 DEF Rebooked, Young
    <3> QED BY <1>3, <2>1, <3>2, <3>3 DEF NextBooking
  <2>2. ASSUME NEW c \in requests' \cup responses'
        PROVE  /\ c.call \in 1..calls'[c.task]
               /\ inflight'[c.task] # NoDispatch /\ inflight'[c.task].call = c.call =>
                    c.robot = inflight'[c.task].robot
    <3>1. PICK b \in requests \cup responses :
            b.task = c.task /\ b.robot = c.robot /\ b.call = c.call
      BY <1>3 DEF CallsStay
    <3>2. c.task \in Tasks /\ c.call \in 1..calls[c.task]
      BY <1>1, <3>1 DEF Numbered
    <3>3. calls' = calls /\ c.call # 0
      BY <1>3, <3>2 DEF CallsStay
    <3>4. ASSUME inflight'[c.task] # NoDispatch, inflight'[c.task].call = c.call
          PROVE  c.robot = inflight'[c.task].robot
      <4>1. Advanced(inflight[c.task], inflight'[c.task])
        BY <1>3, <3>2, <3>3, <3>4 DEF NextBooking, Rebooked
      <4> QED BY <3>1, <3>4, <4>1 DEF Advanced, Numbered
    <3> QED BY <3>2, <3>3, <3>4
  <2> QED BY <2>1, <2>2 DEF Numbered, Young
<1> QED BY <1>0, <1>2, <1>3, EveryStepOfBookings, EveryStepOfCalls

LEMMA BookingsRunOn ==
  ASSUME IInv, Numbered, [FNext]_fvars, NEW t \in Tasks
  PROVE  RunsOn(t)
<1>0. inflight \in [Tasks -> Dispatches \cup {NoDispatch}] /\ calls \in [Tasks -> Nat]
  BY DEF IInv, FTypeOK
<1>1. CASE NextBooking(t)
  BY <1>1 DEF NextBooking, Advanced, Rebooked, RunsOn, SameBooking
<1>2. ASSUME NEW u \in Tasks, CallSent(u), inflight[u].call = 0 PROVE RunsOn(t)
  <2>1. CASE t # u
    BY <1>0, <1>2, <2>1 DEF CallSent, RunsOn
  <2>2. CASE t = u
    <3>1. inflight[t] \in Dispatches /\ Young(inflight[t])
      BY <1>0, <1>2, <2>2 DEF CallSent, Numbered
    <3>2. inflight'[t] = [inflight[t] EXCEPT !.call = calls[t] + 1] /\ calls'[t] = calls[t] + 1
      BY <1>0, <1>2, <2>2 DEF CallSent
    <3>3. inflight'[t].call = calls[t] + 1 /\ inflight'[t].stage = inflight[t].stage
      BY <3>1, <3>2 DEF Dispatches
    <3>4. inflight[t].stage \in {"waiting", "overdue"}
      BY <1>2, <2>2, <3>1 DEF Young, CallSent
    <3> QED BY <1>2, <2>2, <3>2, <3>3, <3>4 DEF RunsOn
  <2> QED BY <2>1, <2>2
<1> QED BY <1>1, <1>2, EveryStepOfBookings

(* A booking that stays only gets closer to its end: no round, late answer, *)
(* report or link delay starts its clock anew, and its one call is sent     *)
(* before it is in doubt, whatever the links and the robots do.             *)
THEOREM BookingsOnlyAge == FSpec => ClocksRunOn
<1>1. FInit => Numbered
  BY DEF FInit, Numbered
<1>2. IInv /\ Numbered /\ [FNext]_fvars => Numbered'
  BY NumberedKept
<1>3. IInv /\ Numbered /\ [FNext]_fvars => [\A t \in Tasks : RunsOn(t)]_fvars
  BY BookingsRunOn
<1> QED BY <1>1, <1>2, <1>3, Invariant, PTL DEF FSpec, ClocksRunOn

(* An answer that the manager takes for the answer to the call of a booking *)
(* came from the robot the task is booked with, however late answers of     *)
(* earlier calls arrive.                                                    *)
THEOREM AnswersOfTheBookedRobot == FSpec => []AnswersMatched
<1>1. FInit => Numbered
  BY DEF FInit, Numbered
<1>2. IInv /\ Numbered /\ [FNext]_fvars => Numbered'
  BY NumberedKept
<1>3. Numbered => AnswersMatched
  BY DEF Numbered, AnswersMatched
<1> QED BY <1>1, <1>2, <1>3, Invariant, PTL DEF FSpec

-----------------------------------------------------------------------------
(* Retries.                                                                 *)

LEMMA RetriesBoundedKept ==
  ASSUME IInv, RetriesBounded, [FNext]_fvars
  PROVE  RetriesBounded'
<1>0. RecordTypes /\ RecordStep
  BY TablesOfInvariant, EveryStepOfRecords DEF IInv
<1>1. CASE UNCHANGED books
  BY <1>1 DEF books, RetriesBounded
<1>2. ASSUME NEW t \in Tasks, Admit(t) \/ Completed(t) PROVE RetriesBounded'
  BY <1>0, <1>2 DEF Admit, Completed, RetriesBounded, RecordTypes
<1>3. ASSUME NEW t \in Tasks, NEW r \in Robots, Started(t, r) PROVE RetriesBounded'
  BY <1>0, <1>3 DEF Started, StartTask, RetriesBounded, RecordTypes
<1>4. ASSUME NEW t \in Tasks, NEW r \in Robots, Failed(t, r) PROVE RetriesBounded'
  <2>1. failures[t] \in Nat /\ failures[t] <= MaxRetries /\ MaxRetries \in Nat
    BY <1>0, <1>4, ConstantsAssumption DEF RecordTypes, Failed, RetriesBounded
  <2>2. failures' = [failures EXCEPT ![t] = @ + 1]
    BY <1>4 DEF Failed, FailTask
  <2>3. CASE failures[t] < MaxRetries /\ status' = [status EXCEPT ![t] = "PENDING"]
    BY <1>0, <2>1, <2>2, <2>3 DEF RecordTypes, RetriesBounded
  <2>4. CASE failures[t] = MaxRetries /\ status' = [status EXCEPT ![t] = "FAILED"]
    BY <1>0, <2>1, <2>2, <2>4 DEF RecordTypes, RetriesBounded
  <2> QED BY <1>4, <2>1, <2>3, <2>4 DEF Failed, FailTask
<1> QED BY <1>0, <1>1, <1>2, <1>3, <1>4 DEF RecordStep

(* A task fails max_retries times and once more at most, and then for good, *)
(* whatever fails it: its robot, its robot's silence or the time it takes.  *)
THEOREM RetriesAreBounded == FSpec => []RetriesBounded
<1>1. FInit => RetriesBounded
  BY ConstantsAssumption DEF FInit, RetriesBounded
<1>2. IInv /\ RetriesBounded /\ [FNext]_fvars => RetriesBounded'
  BY RetriesBoundedKept
<1> QED BY <1>1, <1>2, Invariant, PTL DEF FSpec
=============================================================================
