-------------------------- MODULE ZoneTokensProofs ---------------------------
(***************************************************************************)
(* Proofs about ZoneTokens, for any number of robots and zones: typing,    *)
(* the capacity of a zone, entry marks, tokens of known zones only, the    *)
(* bound on overtaking, the order of the waits and their causes, and that  *)
(* a cycle has exactly one outcome.                                        *)
(*                                                                         *)
(* One cycle writes the table of holders three times: after the returns,   *)
(* after the registrations and after the grants.  A lemma for each says    *)
(* that it keeps the capacity (Excl), and the theorems follow.             *)
(***************************************************************************)
EXTENDS ZoneTokens, FiniteSetTheorems, WellFoundedInduction, TLAPS

\* A table of holders, the capacity rule on it, and a usable queue record.
Table == [Zones -> [Robots -> Passing \cup {NotHeld}]]

Excl(h) ==
  \A z \in Zones, r, q \in Robots :
    r # q /\ Held(h, r, z) /\ Held(h, q, z) => Sharable(z, h[z][r], h[z][q])

QueueType ==
  [need: [Robots -> SUBSET Zones], older: SUBSET (Robots \X Robots), count: [Robots -> Nat]]

-----------------------------------------------------------------------------
(* Two directions that may share a zone may do so in either order.          *)
LEMMA SharableSymmetric ==
  ASSUME NEW z, NEW d, NEW e, Sharable(z, d, e)
  PROVE  Sharable(z, e, d)
BY DirectionsAssumption DEF Sharable

(* Views of an instance are views.                                          *)
LEMMA ViewsSeen ==
  ASSUME NEW v \in [Robots -> Views]
  PROVE  v \in [Robots -> ViewType]
BY ViewsAssumption

(* What an observation says of a direction and a rank is well typed.        *)
LEMMA ViewFacts ==
  ASSUME NEW v \in [Robots -> ViewType], NEW r \in Robots
  PROVE  /\ \A z \in Zones : v[r].dir[z] \in Passing /\ v[r].dir[z] # NotHeld
         /\ v[r].rank \in Int
         /\ v[r].occ \in SUBSET Zones /\ v[r].req \in SUBSET Zones
<1>1. v[r] \in ViewType  OBVIOUS
<1>2. NotHeld \notin Passing  BY DirectionsAssumption
<1> QED  BY <1>1, <1>2 DEF ViewType

(* The table after some pairs received their tokens, entry by entry.        *)
LEMMA WithTokensFacts ==
  ASSUME NEW h \in Table, NEW v \in [Robots -> ViewType], NEW pairs
  PROVE  /\ WithTokens(h, pairs, v) \in Table
         /\ \A z \in Zones, r \in Robots :
              /\ <<r, z>> \in pairs => WithTokens(h, pairs, v)[z][r] = v[r].dir[z]
              /\ <<r, z>> \notin pairs => WithTokens(h, pairs, v)[z][r] = h[z][r]
              /\ Held(WithTokens(h, pairs, v), r, z) <=> <<r, z>> \in pairs \/ Held(h, r, z)
<1>1. \A z \in Zones, r \in Robots :
        WithTokens(h, pairs, v)[z][r] = IF <<r, z>> \in pairs THEN v[r].dir[z] ELSE h[z][r]
  BY DEF WithTokens
<1>2. \A z \in Zones, r \in Robots :
        h[z][r] \in Passing \cup {NotHeld} /\ v[r].dir[z] \in Passing
  BY ViewFacts DEF Table
<1>3. WithTokens(h, pairs, v) \in Table
  BY <1>2 DEF WithTokens, Table
<1>4. \A z \in Zones, r \in Robots : v[r].dir[z] # NotHeld  BY ViewFacts
<1> QED  BY <1>1, <1>3, <1>4 DEF Held

(* Returning tokens only removes entries of the table.                      *)
LEMMA AfterReturnFacts ==
  ASSUME holders \in Table, NEW v
  PROVE  /\ AfterReturn(v) \in Table
         /\ \A z \in Zones, r \in Robots :
              /\ Held(AfterReturn(v), r, z) =>
                   Held(holders, r, z) /\ AfterReturn(v)[z][r] = holders[z][r]
              /\ <<r, z>> \notin Returned(v) => AfterReturn(v)[z][r] = holders[z][r]
<1>1. \A z \in Zones, r \in Robots :
        AfterReturn(v)[z][r] = IF <<r, z>> \in Returned(v) THEN NotHeld ELSE holders[z][r]
  BY DEF AfterReturn
<1>2. AfterReturn(v) \in Table
  BY DEF AfterReturn, Table
<1> QED  BY <1>1, <1>2 DEF Held

(* Returns keep the capacity.                                               *)
LEMMA AfterReturnExcl ==
  ASSUME holders \in Table, Excl(holders), NEW v
  PROVE  Excl(AfterReturn(v))
<1> SUFFICES ASSUME NEW z \in Zones, NEW r \in Robots, NEW q \in Robots, r # q,
                    Held(AfterReturn(v), r, z), Held(AfterReturn(v), q, z)
             PROVE  Sharable(z, AfterReturn(v)[z][r], AfterReturn(v)[z][q])
  BY DEF Excl
<1>1. Held(holders, r, z) /\ AfterReturn(v)[z][r] = holders[z][r]
  BY AfterReturnFacts
<1>2. Held(holders, q, z) /\ AfterReturn(v)[z][q] = holders[z][q]
  BY AfterReturnFacts
<1> QED  BY <1>1, <1>2 DEF Excl

(* Two robots in one zone after a registration: the one registered last was *)
(* compared with the other's token.                                         *)
LEMMA RegisteredLast ==
  ASSUME NEW h \in Table, NEW v \in [Robots -> ViewType],
         NEW reg \in SUBSET Intruders(h, v), IsRegistration(h, reg, v),
         NEW z \in Zones, NEW r \in Robots, NEW q \in Robots, r # q,
         <<r, z>> \in reg, Held(WithTokens(h, reg, v), q, z),
         <<q, z>> \notin reg \/ q < r
  PROVE  Sharable(z, WithTokens(h, reg, v)[z][q], WithTokens(h, reg, v)[z][r])
<1> DEFINE early == {p \in reg : p[1] < r}
<1> DEFINE h1 == WithTokens(h, early, v)
<1> DEFINE h2 == WithTokens(h, reg, v)
<1>1. h2[z][r] = v[r].dir[z]
  BY WithTokensFacts
<1>2. Compatible(h1, z, r, v[r].dir[z])
  BY DEF IsRegistration
<1>3. <<q, z>> \in early <=> <<q, z>> \in reg
  OBVIOUS
<1>4. h1[z][q] = h2[z][q]
  <2>1. CASE <<q, z>> \in reg
    BY <1>3, <2>1, WithTokensFacts
  <2>2. CASE <<q, z>> \notin reg
    BY <1>3, <2>2, WithTokensFacts
  <2> QED  BY <2>1, <2>2
<1>5. Held(h1, q, z)
  BY <1>4 DEF Held
<1> HIDE DEF early, h1, h2
<1>6. Sharable(z, h1[z][q], v[r].dir[z])
  BY <1>2, <1>5 DEF Compatible
<1> QED  BY <1>1, <1>4, <1>6 DEF h2

(* Registering the robots found inside keeps the capacity.                  *)
LEMMA RegistrationExcl ==
  ASSUME NEW h \in Table, Excl(h), NEW v \in [Robots -> ViewType],
         NEW reg \in SUBSET Intruders(h, v), IsRegistration(h, reg, v)
  PROVE  Excl(WithTokens(h, reg, v))
<1> DEFINE h2 == WithTokens(h, reg, v)
<1> SUFFICES ASSUME NEW z \in Zones, NEW r \in Robots, NEW q \in Robots, r # q,
                    Held(h2, r, z), Held(h2, q, z)
             PROVE  Sharable(z, h2[z][r], h2[z][q])
  BY DEF Excl
<1>1. CASE <<r, z>> \notin reg /\ <<q, z>> \notin reg
  <2>1. Held(h, r, z) /\ Held(h, q, z) /\ h2[z][r] = h[z][r] /\ h2[z][q] = h[z][q]
    BY <1>1, WithTokensFacts
  <2> QED  BY <2>1 DEF Excl
<1>2. CASE <<r, z>> \in reg /\ (<<q, z>> \notin reg \/ q < r)
  BY <1>2, RegisteredLast, SharableSymmetric
<1>3. CASE <<q, z>> \in reg /\ (<<r, z>> \notin reg \/ r < q)
  BY <1>3, RegisteredLast
<1>4. q < r \/ r < q
  BY RobotsAssumption
<1> QED  BY <1>1, <1>2, <1>3, <1>4

-----------------------------------------------------------------------------
(* The queue of a cycle: who needs what, and with which age and count.      *)
LEMMA QueueFacts ==
  ASSUME TypeOK, NEW h \in Table, NEW v \in [Robots -> ViewType]
  PROVE  /\ Queue(h, v) \in QueueType
         /\ \A r \in Robots : \A z \in Queue(h, v).need[r] :
              z \in Zones /\ z \in known /\ ~Held(h, r, z)
         /\ \A r \in Robots : Queue(h, v).count[r] \in {0, bypassed[r]}
<1> DEFINE need == Missing(h, v)
<1> DEFINE needy == {r \in Robots : need[r] # {}}
<1> DEFINE going == {r \in needy : waits[r] \cap v[r].req # {}}
<1>1. \A r \in Robots : need[r] = {z \in v[r].req \cap known : ~Held(h, r, z)}
  BY DEF Missing
<1>2. \A r \in Robots : v[r].req \in SUBSET Zones
  BY ViewFacts
<1>3. need \in [Robots -> SUBSET Zones]
  BY <1>2 DEF Missing
<1>4. Older(going, needy) \in SUBSET (Robots \X Robots)
  BY DEF Older, TypeOK
<1>5. \A r \in Robots : Carried(going, r) \in {0, bypassed[r]} /\ bypassed[r] \in Nat
  BY DEF Carried, TypeOK
<1>6. Queue(h, v) = [need |-> need, older |-> Older(going, needy),
                     count |-> [r \in Robots |-> Carried(going, r)]]
  BY DEF Queue
<1> HIDE DEF need, needy, going
<1>7. Queue(h, v) \in QueueType
  BY <1>3, <1>4, <1>5, <1>6 DEF QueueType
<1>8. \A r \in Robots : Queue(h, v).need[r] = need[r]
  BY <1>6
<1>9. \A r \in Robots : Queue(h, v).count[r] \in {0, bypassed[r]}
  BY <1>5, <1>6
<1> QED  BY <1>1, <1>2, <1>7, <1>8, <1>9

(* The pass serves the queue in an order that relates any two robots.       *)
LEMMA OrderTotal ==
  ASSUME NEW Q \in QueueType, NEW v \in [Robots -> ViewType],
         NEW r \in Needy(Q), NEW q \in Needy(Q), r # q
  PROVE  <<r, q>> \in Order(Q, v) \/ <<q, r>> \in Order(Q, v)
<1>1. r \in Robots /\ q \in Robots
  BY DEF Needy
<1>2. v[r].rank \in Int /\ v[q].rank \in Int /\ r \in Int /\ q \in Int
  BY <1>1, ViewFacts, RobotsAssumption
<1>3. Precedes(Q, v, r, q) \/ Precedes(Q, v, q, r)
  BY <1>2 DEF Precedes
<1> QED  BY <1>3 DEF Order

(* Two robots granted one zone in one pass: the later fitted the earlier.   *)
LEMMA GrantedLast ==
  ASSUME NEW h \in Table, NEW v \in [Robots -> ViewType], NEW Q \in QueueType,
         NEW G \in SUBSET Needy(Q), IsGrant(h, Q, G, Order(Q, v), v),
         NEW z \in Zones, NEW r \in Robots, NEW q \in Robots, r # q,
         <<r, z>> \in GrantPairs(Q, G),
         \/ <<q, z>> \in GrantPairs(Q, G) /\ <<q, r>> \in Order(Q, v)
         \/ <<q, z>> \notin GrantPairs(Q, G) /\ Held(h, q, z)
  PROVE  LET h2 == WithTokens(h, GrantPairs(Q, G), v) IN
         Sharable(z, h2[z][q], h2[z][r])
<1> DEFINE h2 == WithTokens(h, GrantPairs(Q, G), v)
<1>1. r \in G /\ z \in Q.need[r] /\ r \in Needy(Q)
  BY DEF GrantPairs
<1>2. Free(h, Q, G, Order(Q, v), v, r, z)
  BY <1>1 DEF IsGrant
<1>3. h2[z][r] = v[r].dir[z]
  BY WithTokensFacts
<1>4. CASE <<q, z>> \in GrantPairs(Q, G) /\ <<q, r>> \in Order(Q, v)
  <2>1. q \in ServedBefore(Q, G, Order(Q, v), r, z)
    BY <1>4 DEF ServedBefore, GrantPairs
  <2>2. h2[z][q] = v[q].dir[z]
    BY <1>4, WithTokensFacts
  <2> QED  BY <1>2, <1>3, <2>1, <2>2 DEF Free
<1>5. CASE <<q, z>> \notin GrantPairs(Q, G) /\ Held(h, q, z)
  <2>1. h2[z][q] = h[z][q]
    BY <1>5, WithTokensFacts
  <2>2. Compatible(h, z, r, v[r].dir[z])
    BY <1>2 DEF Free
  <2> QED  BY <1>3, <1>5, <2>1, <2>2 DEF Compatible
<1> QED  BY <1>4, <1>5

(* Granting keeps the capacity.                                             *)
LEMMA GrantExcl ==
  ASSUME NEW h \in Table, Excl(h), NEW v \in [Robots -> ViewType], NEW Q \in QueueType,
         NEW G \in SUBSET Needy(Q), IsGrant(h, Q, G, Order(Q, v), v)
  PROVE  Excl(WithTokens(h, GrantPairs(Q, G), v))
<1> DEFINE pairs == GrantPairs(Q, G)
<1> DEFINE h2 == WithTokens(h, pairs, v)
<1> SUFFICES ASSUME NEW z \in Zones, NEW r \in Robots, NEW q \in Robots, r # q,
                    Held(h2, r, z), Held(h2, q, z)
             PROVE  Sharable(z, h2[z][r], h2[z][q])
  BY DEF Excl
<1>1. CASE <<r, z>> \notin pairs /\ <<q, z>> \notin pairs
  <2>1. Held(h, r, z) /\ Held(h, q, z) /\ h2[z][r] = h[z][r] /\ h2[z][q] = h[z][q]
    BY <1>1, WithTokensFacts
  <2> QED  BY <2>1 DEF Excl
<1>2. CASE <<r, z>> \in pairs /\ <<q, z>> \notin pairs
  <2>1. Held(h, q, z)
    BY <1>2, WithTokensFacts
  <2>2. Sharable(z, h2[z][q], h2[z][r])
    BY <1>2, <2>1, GrantedLast
  <2> QED  BY <2>2, SharableSymmetric
<1>3. CASE <<r, z>> \notin pairs /\ <<q, z>> \in pairs
  <2>1. Held(h, r, z)
    BY <1>3, WithTokensFacts
  <2> QED  BY <1>3, <2>1, GrantedLast
<1>4. CASE <<r, z>> \in pairs /\ <<q, z>> \in pairs
  <2>1. r \in Needy(Q) /\ q \in Needy(Q)
    BY <1>4 DEF GrantPairs
  <2>2. CASE <<r, q>> \in Order(Q, v)
    BY <1>4, <2>2, GrantedLast
  <2>3. CASE <<q, r>> \in Order(Q, v)
    <3>1. Sharable(z, h2[z][q], h2[z][r])
      BY <1>4, <2>3, GrantedLast
    <3> QED  BY <3>1, SharableSymmetric
  <2> QED  BY <2>1, <2>2, <2>3, OrderTotal
<1> QED  BY <1>1, <1>2, <1>3, <1>4

-----------------------------------------------------------------------------
(* A cycle, taken apart: the registrations, the grants, and the typed table *)
(* and queue between them.                                                  *)
Registered(reg, v) == WithTokens(AfterReturn(v), reg, v)

CycleOf(reg, G, v) ==
  LET h == Registered(reg, v)
      Q == Queue(h, v)
  IN  /\ reg \in SUBSET Intruders(AfterReturn(v), v)
      /\ IsRegistration(AfterReturn(v), reg, v)
      /\ entered' = EnteredAfter(reg, v)
      /\ G \in SUBSET Needy(Q)
      /\ IsGrant(h, Q, G, Order(Q, v), v)
      /\ Settle(h, Q, G, Order(Q, v), v)
      /\ known' = known
      /\ AfterReturn(v) \in Table
      /\ h \in Table
      /\ Q \in QueueType

LEMMA UpdateTakenApart ==
  ASSUME TypeOK, NEW v \in [Robots -> ViewType], Update(v)
  PROVE  \E reg, G : CycleOf(reg, G, v)
<1> DEFINE back == AfterReturn(v)
<1>1. PICK reg \in SUBSET Intruders(back, v) :
        /\ IsRegistration(back, reg, v)
        /\ entered' = EnteredAfter(reg, v)
        /\ \E h \in {WithTokens(back, reg, v)} : \E Q \in {Queue(h, v)} :
             \E order \in {Order(Q, v)}, G \in SUBSET Needy(Q) :
               /\ IsGrant(h, Q, G, order, v)
               /\ Settle(h, Q, G, order, v)
  BY DEF Update
<1> DEFINE h == Registered(reg, v)
<1> DEFINE Q == Queue(h, v)
<1>2. PICK G \in SUBSET Needy(Q) :
        IsGrant(h, Q, G, Order(Q, v), v) /\ Settle(h, Q, G, Order(Q, v), v)
  BY <1>1 DEF Registered
<1>3. known' = known
  BY DEF Update
<1>4. holders \in Table
  BY DEF TypeOK, Table
<1>5. back \in Table
  BY <1>4, AfterReturnFacts
<1>6. h \in Table
  BY <1>5, WithTokensFacts DEF Registered
<1>7. Q \in QueueType
  BY <1>6, QueueFacts
<1> HIDE DEF back, h, Q
<1>8. CycleOf(reg, G, v)
  BY <1>1, <1>2, <1>3, <1>5, <1>6, <1>7 DEF CycleOf, back, h, Q
<1> QED  BY <1>8

(* Counting the robots of a set is counting with a natural number.          *)
LEMMA RobotCount ==
  ASSUME NEW S \in SUBSET Robots
  PROVE  IsFiniteSet(S) /\ Cardinality(S) \in Nat
BY RobotsAssumption, FS_Subset, FS_CardinalityType

(* A cycle keeps the types.                                                 *)
LEMMA UpdateType ==
  ASSUME TypeOK, NEW v \in [Robots -> ViewType], Update(v)
  PROVE  TypeOK'
<1>1. PICK reg, G : CycleOf(reg, G, v)
  BY UpdateTakenApart
<1> DEFINE h == Registered(reg, v)
<1> DEFINE Q == Queue(h, v)
<1> DEFINE refused == Needy(Q) \ G
<1>2. Settle(h, Q, G, Order(Q, v), v) /\ h \in Table /\ Q \in QueueType
  BY <1>1 DEF CycleOf
<1> HIDE DEF h, Q
<1>3. known' \subseteq Zones
  BY <1>1 DEF CycleOf, TypeOK
<1>4. holders' \in [Zones -> [Robots -> Passing \cup {NotHeld}]]
  <2>1. WithTokens(h, GrantPairs(Q, G), v) \in Table
    BY <1>2, WithTokensFacts
  <2> QED  BY <1>2, <2>1 DEF Settle, Table
<1>5. entered' \subseteq Robots \X Zones
  <2>1. entered' = EnteredAfter(reg, v) /\ reg \in SUBSET Intruders(AfterReturn(v), v)
    BY <1>1 DEF CycleOf
  <2>2. reg \subseteq Robots \X Zones
    BY <2>1 DEF Intruders, TypeOK
  <2> QED  BY <2>1, <2>2 DEF EnteredAfter, TypeOK
<1>6. waits' \in [Robots -> SUBSET Zones]
  <2>1. \A r \in Robots : v[r].req \in SUBSET Zones
    BY ViewFacts
  <2> QED  BY <1>2, <2>1 DEF Settle
<1>7. bypassed' \in [Robots -> Nat]
  <2>1. \A r \in Robots : Q.count[r] \in Nat
    BY <1>2 DEF QueueType
  <2>2. G \subseteq Robots
    BY <1>1 DEF CycleOf, Needy
  <2>3. \A r \in Robots : Overtakers(Q, G, r) \in SUBSET Robots
    BY <2>2 DEF Overtakers
  <2>4. \A r \in Robots : Cardinality(Overtakers(Q, G, r)) \in Nat
    BY <2>3, RobotCount
  <2>5. \A r \in Robots : Q.count[r] + Cardinality(Overtakers(Q, G, r)) \in Nat
    BY <2>1, <2>4
  <2> QED  BY <1>2, <2>5 DEF Settle
<1>8. before' \subseteq Robots \X Robots
  <2>1. Q.older \in SUBSET (Robots \X Robots)
    BY <1>2 DEF QueueType
  <2> QED  BY <1>2, <2>1 DEF Settle
<1>9. blockers' \in [Robots -> SUBSET Robots]
  <2>1. \A r \in Robots : BlockersOf(h, Q, G, Order(Q, v), v, r) \in SUBSET Robots
    <3>1. G \subseteq Robots /\ Needy(Q) \subseteq Robots
      BY <1>1 DEF CycleOf, Needy
    <3>2. \A r \in Robots : \A z \in Q.need[r] :
            /\ Reservers(Q, G, Order(Q, v), r, z) \subseteq Robots
            /\ ServedBefore(Q, G, Order(Q, v), r, z) \subseteq Robots
      BY <3>1 DEF Reservers, ServedBefore
    <3> QED  BY <3>2 DEF BlockersOf
  <2> QED  BY <1>2, <2>1 DEF Settle
<1> QED  BY <1>3, <1>4, <1>5, <1>6, <1>7, <1>8, <1>9 DEF TypeOK

(* Every step keeps the types.                                              *)
LEMMA TypeStep ==
  ASSUME TypeOK, [Next]_vars
  PROVE  TypeOK'
<1>1. ASSUME NEW v \in [Robots -> ViewType], Update(v)  PROVE TypeOK'
  BY <1>1, UpdateType
<1>2. ASSUME NEW r \in Robots, NEW zs \in SUBSET Zones, NEW d \in [Zones -> Passing],
             Reserve(r, zs, d)
      PROVE  TypeOK'
  <2>1. \A z \in Zones : d[z] \in Passing \cup {NotHeld}
    OBVIOUS
  <2>2. holders' \in [Zones -> [Robots -> Passing \cup {NotHeld}]]
    BY <1>2, <2>1 DEF Reserve, TypeOK
  <2> QED  BY <1>2, <2>2 DEF Reserve, TypeOK, waitVars
<1>3. ASSUME NEW r \in Robots, Forget(r)  PROVE TypeOK'
  BY <1>3 DEF Forget, TypeOK
<1>4. ASSUME NEW zs \in SUBSET Zones, SetZones(zs)  PROVE TypeOK'
  BY <1>4 DEF SetZones, TypeOK, waitVars
<1>5. CASE UNCHANGED vars
  BY <1>5 DEF vars, TypeOK
<1> QED  BY <1>1, <1>2, <1>3, <1>4, <1>5, ViewsSeen DEF Next

(* The variables always have their types, whatever the maps, the            *)
(* observations and the pocket reservations.                                *)
THEOREM TypeCorrect == Spec => []TypeOK
<1>1. Init => TypeOK
  BY DEF Init, TypeOK
<1>2. TypeOK /\ [Next]_vars => TypeOK'
  BY TypeStep
<1> QED  BY <1>1, <1>2, PTL DEF Spec

-----------------------------------------------------------------------------
(* A cycle keeps the capacity: each of its passes does.                     *)
LEMMA UpdateExcl ==
  ASSUME TypeOK, Exclusive, NEW v \in [Robots -> ViewType], Update(v)
  PROVE  Exclusive'
<1>1. PICK reg, G : CycleOf(reg, G, v)
  BY UpdateTakenApart
<1> DEFINE h == Registered(reg, v)
<1> DEFINE Q == Queue(h, v)
<1>2. Excl(AfterReturn(v))
  BY AfterReturnExcl DEF TypeOK, Table, Exclusive, Excl
<1>3. Excl(h)
  BY <1>1, <1>2, RegistrationExcl DEF CycleOf, Registered
<1>4. Excl(WithTokens(h, GrantPairs(Q, G), v))
  BY <1>1, <1>3, GrantExcl DEF CycleOf
<1>5. holders' = WithTokens(h, GrantPairs(Q, G), v)
  BY <1>1 DEF CycleOf, Settle
<1> HIDE DEF h, Q
<1> QED  BY <1>4, <1>5 DEF Excl, Exclusive

(* A pocket reservation keeps the capacity: it takes a zone only beside     *)
(* compatible holders.                                                      *)
LEMMA ReserveExcl ==
  ASSUME TypeOK, Exclusive, NEW r \in Robots, NEW zs \in SUBSET Zones,
         NEW d \in [Zones -> Passing], Reserve(r, zs, d)
  PROVE  Exclusive'
<1> DEFINE want == {z \in zs \cap known : ~Held(holders, r, z)}
<1>1. \A z \in want : Compatible(holders, z, r, d[z])
  BY DEF Reserve
<1>2. \A z \in Zones, q \in Robots :
        holders'[z][q] = IF z \in want /\ q = r THEN d[z] ELSE holders[z][q]
  BY DEF Reserve, TypeOK
<1> HIDE DEF want
<1> SUFFICES ASSUME NEW z \in Zones, NEW p \in Robots, NEW q \in Robots, p # q,
                    Held(holders', p, z), Held(holders', q, z)
             PROVE  Sharable(z, holders'[z][p], holders'[z][q])
  BY DEF Exclusive
<1>3. CASE z \notin want \/ (p # r /\ q # r)
  BY <1>2, <1>3 DEF Exclusive, Held
<1>4. CASE z \in want /\ q = r
  <2>1. Held(holders, p, z) /\ holders'[z][p] = holders[z][p] /\ holders'[z][q] = d[z]
    BY <1>2, <1>4 DEF Held
  <2> QED  BY <1>1, <1>4, <2>1 DEF Compatible
<1>5. CASE z \in want /\ p = r
  <2>1. Held(holders, q, z) /\ holders'[z][q] = holders[z][q] /\ holders'[z][p] = d[z]
    BY <1>2, <1>5 DEF Held
  <2>2. Sharable(z, holders'[z][q], holders'[z][p])
    BY <1>1, <1>5, <2>1 DEF Compatible
  <2> QED  BY <2>2, SharableSymmetric
<1> QED  BY <1>3, <1>4, <1>5

(* Two robots never hold one zone unless they may share it, for any mix of  *)
(* cycles, pocket reservations, departures and map changes.                 *)
THEOREM ExclusiveTokens == Spec => []Exclusive
<1>1. Init => Exclusive
  BY DEF Init, Exclusive, Held
<1>2. TypeOK /\ Exclusive /\ [Next]_vars => Exclusive'
  <2> SUFFICES ASSUME TypeOK, Exclusive, [Next]_vars  PROVE Exclusive'
    OBVIOUS
  <2>1. ASSUME NEW v \in [Robots -> ViewType], Update(v)  PROVE Exclusive'
    BY <2>1, UpdateExcl
  <2>2. ASSUME NEW r \in Robots, NEW zs \in SUBSET Zones, NEW d \in [Zones -> Passing],
               Reserve(r, zs, d)
        PROVE  Exclusive'
    BY <2>2, ReserveExcl
  <2>3. ASSUME NEW r \in Robots, Forget(r)  PROVE Exclusive'
    <3>1. \A z \in Zones, q \in Robots :
            holders'[z][q] = IF q = r THEN NotHeld ELSE holders[z][q]
      BY <2>3 DEF Forget, TypeOK
    <3> QED  BY <3>1 DEF Exclusive, Held
  <2>4. ASSUME NEW zs \in SUBSET Zones, SetZones(zs)  PROVE Exclusive'
    <3>1. \A z \in Zones, q \in Robots :
            holders'[z][q] = IF z \in zs THEN holders[z][q] ELSE NotHeld
      BY <2>4 DEF SetZones
    <3> QED  BY <3>1 DEF Exclusive, Held
  <2>5. CASE UNCHANGED vars
    BY <2>5 DEF vars, Exclusive, Held
  <2> QED  BY <2>1, <2>2, <2>3, <2>4, <2>5, ViewsSeen DEF Next
<1> QED  BY <1>1, <1>2, TypeCorrect, PTL DEF Spec

-----------------------------------------------------------------------------
(* What a cycle leaves in the table of holders.                             *)
LEMMA HeldAfterUpdate ==
  ASSUME TypeOK, NEW v \in [Robots -> ViewType], NEW reg, NEW G, CycleOf(reg, G, v),
         NEW z \in Zones, NEW r \in Robots
  PROVE  /\ Held(holders, r, z) /\ <<r, z>> \notin Returned(v) => Held(holders', r, z)
         /\ <<r, z>> \in reg => Held(holders', r, z)
         /\ Held(holders', r, z) => Held(holders, r, z) \/ z \in known
<1> DEFINE back == AfterReturn(v)
<1> DEFINE h == Registered(reg, v)
<1> DEFINE Q == Queue(h, v)
<1> DEFINE pairs == GrantPairs(Q, G)
<1>1. /\ holders' = WithTokens(h, pairs, v)
      /\ back \in Table /\ h \in Table /\ holders \in Table
      /\ reg \in SUBSET Intruders(back, v) /\ G \in SUBSET Needy(Q)
  BY DEF CycleOf, Settle, TypeOK, Table
<1>2. Held(holders', r, z) <=> <<r, z>> \in pairs \/ Held(h, r, z)
  BY <1>1, WithTokensFacts
<1>3. Held(h, r, z) <=> <<r, z>> \in reg \/ Held(back, r, z)
  BY <1>1, WithTokensFacts DEF Registered
<1>4. Held(back, r, z) => Held(holders, r, z)
  BY <1>1, AfterReturnFacts
<1>5. Held(holders, r, z) /\ <<r, z>> \notin Returned(v) => Held(back, r, z)
  BY <1>1, AfterReturnFacts DEF Held
<1>6. <<r, z>> \in reg => z \in known
  BY <1>1 DEF Intruders
<1>7. <<r, z>> \in pairs => z \in known
  BY <1>1, QueueFacts DEF GrantPairs, Needy
<1> QED  BY <1>2, <1>3, <1>4, <1>5, <1>6, <1>7

(* A cycle returns the mark with the token.                                 *)
LEMMA UpdateMarks ==
  ASSUME TypeOK, EnteredHeld, NEW v \in [Robots -> ViewType], Update(v),
         NEW r \in Robots, NEW z \in Zones, <<r, z>> \in entered'
  PROVE  Held(holders', r, z)
<1>1. PICK reg, G : CycleOf(reg, G, v)
  BY UpdateTakenApart
<1>2. \/ <<r, z>> \in entered \ Returned(v)
      \/ <<r, z>> \in reg
      \/ Held(holders, r, z) /\ z \in v[r].occ
  BY <1>1 DEF CycleOf, EnteredAfter
<1>3. z \in v[r].occ => <<r, z>> \notin Returned(v)
  BY DEF Returned
<1>4. <<r, z>> \in entered => Held(holders, r, z)
  BY DEF EnteredHeld
<1> QED  BY <1>1, <1>2, <1>3, <1>4, HeldAfterUpdate

(* An entry mark never outlives its token.                                  *)
THEOREM MarksHeld == Spec => []EnteredHeld
<1>1. Init => EnteredHeld
  BY DEF Init, EnteredHeld
<1>2. TypeOK /\ EnteredHeld /\ [Next]_vars => EnteredHeld'
  <2> SUFFICES ASSUME TypeOK, EnteredHeld, [Next]_vars,
                      NEW r \in Robots, NEW z \in Zones, <<r, z>> \in entered'
               PROVE  Held(holders', r, z)
    <3>1. TypeOK /\ [Next]_vars => entered' \subseteq Robots \X Zones
      BY TypeStep DEF TypeOK
    <3> QED  BY <3>1 DEF EnteredHeld
  <2>1. ASSUME NEW v \in [Robots -> ViewType], Update(v)  PROVE Held(holders', r, z)
    BY <2>1, UpdateMarks
  <2>2. ASSUME NEW q \in Robots, NEW zs \in SUBSET Zones, NEW d \in [Zones -> Passing],
               Reserve(q, zs, d)
        PROVE  Held(holders', r, z)
    <3>1. Held(holders, r, z)
      BY <2>2 DEF Reserve, EnteredHeld
    <3>2. d[z] # NotHeld
      BY DirectionsAssumption
    <3>3. holders'[z][r] = holders[z][r] \/ holders'[z][r] = d[z]
      BY <2>2 DEF Reserve, TypeOK
    <3> QED  BY <3>1, <3>2, <3>3 DEF Held
  <2>3. ASSUME NEW q \in Robots, Forget(q)  PROVE Held(holders', r, z)
    <3>1. r # q /\ Held(holders, r, z)
      BY <2>3 DEF Forget, EnteredHeld
    <3>2. holders'[z][r] = holders[z][r]
      BY <2>3, <3>1 DEF Forget, TypeOK
    <3> QED  BY <3>1, <3>2 DEF Held
  <2>4. ASSUME NEW zs \in SUBSET Zones, SetZones(zs)  PROVE Held(holders', r, z)
    BY <2>4 DEF SetZones, EnteredHeld, Held
  <2>5. CASE UNCHANGED vars
    BY <2>5 DEF vars, EnteredHeld, Held
  <2> QED  BY <2>1, <2>2, <2>3, <2>4, <2>5, ViewsSeen DEF Next
<1> QED  BY <1>1, <1>2, TypeCorrect, PTL DEF Spec

(* No token outlives its zone, and none is given for an unknown zone.       *)
THEOREM TokensOfKnownZones == Spec => []HeldKnown
<1>1. Init => HeldKnown
  BY DEF Init, HeldKnown, Held
<1>2. TypeOK /\ HeldKnown /\ [Next]_vars => HeldKnown'
  <2> SUFFICES ASSUME TypeOK, HeldKnown, [Next]_vars,
                      NEW r \in Robots, NEW z \in Zones, Held(holders', r, z)
               PROVE  z \in known'
    BY DEF HeldKnown
  <2>1. ASSUME NEW v \in [Robots -> ViewType], Update(v)  PROVE z \in known'
    <3>1. PICK reg, G : CycleOf(reg, G, v)
      BY <2>1, UpdateTakenApart
    <3>2. known' = known
      BY <3>1 DEF CycleOf
    <3> QED  BY <3>1, <3>2, HeldAfterUpdate DEF HeldKnown
  <2>2. ASSUME NEW q \in Robots, NEW zs \in SUBSET Zones, NEW d \in [Zones -> Passing],
               Reserve(q, zs, d)
        PROVE  z \in known'
    <3>1. z \in known \/ holders'[z] = holders[z]
      BY <2>2 DEF Reserve
    <3> QED  BY <2>2, <3>1 DEF Reserve, HeldKnown, Held
  <2>3. ASSUME NEW q \in Robots, Forget(q)  PROVE z \in known'
    <3>1. holders'[z][r] = NotHeld \/ holders'[z][r] = holders[z][r]
      BY <2>3 DEF Forget, TypeOK
    <3> QED  BY <2>3, <3>1 DEF Forget, HeldKnown, Held
  <2>4. ASSUME NEW zs \in SUBSET Zones, SetZones(zs)  PROVE z \in known'
    BY <2>4 DEF SetZones, Held
  <2>5. CASE UNCHANGED vars
    BY <2>5 DEF vars, HeldKnown, Held
  <2> QED  BY <2>1, <2>2, <2>3, <2>4, <2>5, ViewsSeen DEF Next
<1> QED  BY <1>1, <1>2, TypeCorrect, PTL DEF Spec

-----------------------------------------------------------------------------
(* Nobody overtakes a starving robot: whoever asks for one of its zones     *)
(* later finds it reserved.                                                 *)
LEMMA StarvingNotOvertaken ==
  ASSUME NEW h \in Table, NEW v \in [Robots -> ViewType], NEW Q \in QueueType,
         NEW G \in SUBSET Needy(Q), IsGrant(h, Q, G, Order(Q, v), v),
         NEW r \in Needy(Q) \ G, Starving(Q, r)
  PROVE  Overtakers(Q, G, r) = {}
<1> SUFFICES ASSUME NEW q \in G, NEW z \in Q.need[q] \cap Q.need[r], <<r, q>> \in Q.older
             PROVE  FALSE
  BY DEF Overtakers
<1>1. q \in Needy(Q)
  OBVIOUS
<1>2. Precedes(Q, v, r, q)
  BY DEF Precedes
<1>3. <<r, q>> \in Order(Q, v)
  BY <1>1, <1>2 DEF Order
<1>4. r \in Reservers(Q, G, Order(Q, v), q, z)
  BY <1>3 DEF Reservers
<1> QED  BY <1>1, <1>4 DEF IsGrant

(* A cycle overtakes a wait only until it starves.                          *)
LEMMA UpdateBypass ==
  ASSUME TypeOK, BypassBound, NEW v \in [Robots -> ViewType], Update(v)
  PROVE  BypassBound'
<1> SUFFICES ASSUME NEW r \in Robots
             PROVE  bypassed'[r] <= IF MaxBypass = 0 THEN 0
                                    ELSE MaxBypass - 1 + Cardinality(Robots \ {r})
  BY DEF BypassBound
<1> DEFINE bound == IF MaxBypass = 0 THEN 0
                    ELSE MaxBypass - 1 + Cardinality(Robots \ {r})
<1>0. Cardinality(Robots \ {r}) \in Nat /\ bound \in Nat /\ bypassed[r] <= bound
      /\ bypassed[r] \in Nat
  <2>1. Cardinality(Robots \ {r}) \in Nat
    BY RobotCount
  <2> QED  BY <2>1, MaxBypassAssumption DEF BypassBound, TypeOK
<1>1. PICK reg, G : CycleOf(reg, G, v)
  BY UpdateTakenApart
<1> DEFINE h == Registered(reg, v)
<1> DEFINE Q == Queue(h, v)
<1>2. /\ h \in Table /\ Q \in QueueType /\ G \in SUBSET Needy(Q)
      /\ IsGrant(h, Q, G, Order(Q, v), v) /\ Settle(h, Q, G, Order(Q, v), v)
  BY <1>1 DEF CycleOf
<1>3. Q.count[r] \in {0, bypassed[r]}
  BY <1>2, QueueFacts
<1> HIDE DEF h, Q
<1>4. bypassed'[r] = IF r \in Needy(Q) \ G
                       THEN Q.count[r] + Cardinality(Overtakers(Q, G, r)) ELSE 0
  BY <1>2 DEF Settle
<1>5. CASE r \notin Needy(Q) \ G
  BY <1>0, <1>4, <1>5
<1>6. CASE r \in Needy(Q) \ G /\ Starving(Q, r)
  <2>1. Overtakers(Q, G, r) = {}
    BY <1>2, <1>6, StarvingNotOvertaken
  <2>2. bypassed'[r] = Q.count[r]
    BY <1>0, <1>3, <1>4, <1>6, <2>1, FS_EmptySet
  <2> QED  BY <1>0, <1>3, <2>2
<1>7. CASE r \in Needy(Q) \ G /\ ~Starving(Q, r)
  <2>1. Overtakers(Q, G, r) \subseteq Robots \ {r}
    BY <1>2, <1>7 DEF Overtakers, Needy
  <2>2. Cardinality(Overtakers(Q, G, r)) <= Cardinality(Robots \ {r})
        /\ Cardinality(Overtakers(Q, G, r)) \in Nat
    BY <2>1, RobotCount, FS_Subset
  <2>3. Q.count[r] <= MaxBypass - 1 /\ MaxBypass # 0
    BY <1>0, <1>3, <1>7, MaxBypassAssumption DEF Starving
  <2>4. Q.count[r] + Cardinality(Overtakers(Q, G, r)) <= bound
    BY <1>0, <1>3, <2>2, <2>3, MaxBypassAssumption
  <2> QED  BY <1>4, <1>7, <2>4
<1> QED  BY <1>5, <1>6, <1>7

(* The count of overtakings of a wait stays below its bound, however many   *)
(* robots of higher priority keep coming.                                   *)
THEOREM BoundedOvertaking == Spec => []BypassBound
<1>1. Init => BypassBound
  <2>1. \A r \in Robots : Cardinality(Robots \ {r}) \in Nat
    BY RobotCount
  <2> QED  BY <2>1, MaxBypassAssumption DEF Init, BypassBound
<1>2. TypeOK /\ BypassBound /\ [Next]_vars => BypassBound'
  <2> SUFFICES ASSUME TypeOK, BypassBound, [Next]_vars, NEW r \in Robots
               PROVE  bypassed'[r] <= IF MaxBypass = 0 THEN 0
                                      ELSE MaxBypass - 1 + Cardinality(Robots \ {r})
    BY DEF BypassBound
  <2> DEFINE bound == IF MaxBypass = 0 THEN 0
                      ELSE MaxBypass - 1 + Cardinality(Robots \ {r})
  <2>0. Cardinality(Robots \ {r}) \in Nat /\ bound \in Nat /\ bypassed[r] <= bound
        /\ bypassed[r] \in Nat
    <3>1. Cardinality(Robots \ {r}) \in Nat
      BY RobotCount
    <3> QED  BY <3>1, MaxBypassAssumption DEF BypassBound, TypeOK
  <2>1. ASSUME NEW v \in [Robots -> ViewType], Update(v)  PROVE bypassed'[r] <= bound
    BY <2>1, UpdateBypass DEF BypassBound
  <2>2. ASSUME NEW q \in Robots, NEW zs \in SUBSET Zones, NEW d \in [Zones -> Passing],
               Reserve(q, zs, d)
        PROVE  bypassed'[r] <= bound
    BY <2>0, <2>2 DEF Reserve, waitVars
  <2>3. ASSUME NEW q \in Robots, Forget(q)  PROVE bypassed'[r] <= bound
    <3>1. bypassed'[r] = 0 \/ bypassed'[r] = bypassed[r]
      BY <2>3 DEF Forget, TypeOK
    <3> QED  BY <2>0, <3>1
  <2>4. ASSUME NEW zs \in SUBSET Zones, SetZones(zs)  PROVE bypassed'[r] <= bound
    BY <2>0, <2>4 DEF SetZones, waitVars
  <2>5. CASE UNCHANGED vars
    BY <2>0, <2>5 DEF vars
  <2> QED  BY <2>1, <2>2, <2>3, <2>4, <2>5, ViewsSeen DEF Next
<1> QED  BY <1>1, <1>2, TypeCorrect, PTL DEF Spec

-----------------------------------------------------------------------------
(* A cycle keeps the ages in order: who goes on waiting keeps its place, and*)
(* who begins to wait is younger.                                           *)
LEMMA UpdateAge ==
  ASSUME TypeOK, AgeOrder, NEW v \in [Robots -> ViewType], Update(v)
  PROVE  AgeOrder'
<1>1. PICK reg, G : CycleOf(reg, G, v)
  BY UpdateTakenApart
<1> DEFINE h == Registered(reg, v)
<1> DEFINE Q == Queue(h, v)
<1> DEFINE refused == Needy(Q) \ G
<1> DEFINE going == {r \in Needy(Q) : waits[r] \cap v[r].req # {}}
<1>2. /\ waits' = [r \in Robots |-> IF r \in refused THEN v[r].req ELSE {}]
      /\ before' = Q.older \cap (refused \X refused)
  BY <1>1 DEF CycleOf, Settle
<1>3. Q.older = (before \cap (going \X going)) \cup (going \X (Needy(Q) \ going))
  BY DEF Queue, Needy, Older
<1>4. \A r \in refused : r \in Robots /\ v[r].req # {}
  BY DEF Queue, Missing, Needy
<1>5. \A r \in going : r \in Robots /\ waits[r] # {}
  BY DEF Needy
<1> HIDE DEF h, Q, refused, going
<1>6. \A r \in Robots : waits'[r] # {} <=> r \in refused
  BY <1>2, <1>4
<1>7. refused \subseteq Needy(Q)
  BY DEF refused
<1>8. \A p \in before' : p[1] \in refused /\ p[2] \in refused /\ p = <<p[1], p[2]>>
  BY <1>2
<1>9. \A r, q : <<r, q>> \in Q.older <=>
        \/ r \in going /\ q \in going /\ <<r, q>> \in before
        \/ r \in going /\ q \in Needy(Q) \ going
  BY <1>3
<1>a. \A r, q : <<r, q>> \in before' <=> <<r, q>> \in Q.older /\ r \in refused /\ q \in refused
  BY <1>2
<1>b. \A p \in before' : waits'[p[1]] # {} /\ waits'[p[2]] # {}
  BY <1>4, <1>6, <1>8
<1>c. \A r, q : <<r, q>> \in before => <<q, r>> \notin before
  BY DEF AgeOrder
<1>d. \A r, q, o : <<r, q>> \in before /\ o \in going => <<r, o>> \in before \/ <<o, q>> \in before
  BY <1>5 DEF AgeOrder
<1>e. \A r, q : <<r, q>> \in before' => <<q, r>> \notin before'
  BY <1>9, <1>a, <1>c
<1>f. \A r, q, o : <<r, q>> \in before' /\ o \in refused => <<r, o>> \in before' \/ <<o, q>> \in before'
  BY <1>7, <1>9, <1>a, <1>d
<1> QED  BY <1>4, <1>6, <1>8, <1>b, <1>e, <1>f DEF AgeOrder

(* The order of the waits is one of times: strict, and a third wait is      *)
(* comparable to one of two that differ, for any views and map changes.     *)
THEOREM AgesOrdered == Spec => []AgeOrder
<1>1. Init => AgeOrder
  BY DEF Init, AgeOrder
<1>2. TypeOK /\ AgeOrder /\ [Next]_vars => AgeOrder'
  <2> SUFFICES ASSUME TypeOK, AgeOrder, [Next]_vars  PROVE AgeOrder'
    OBVIOUS
  <2>1. ASSUME NEW v \in [Robots -> ViewType], Update(v)  PROVE AgeOrder'
    BY <2>1, UpdateAge
  <2>2. ASSUME NEW q \in Robots, NEW zs \in SUBSET Zones, NEW d \in [Zones -> Passing],
               Reserve(q, zs, d)
        PROVE  AgeOrder'
    BY <2>2 DEF Reserve, waitVars, AgeOrder
  <2>3. ASSUME NEW q \in Robots, Forget(q)  PROVE AgeOrder'
    <3>1. /\ \A r \in Robots : waits'[r] = IF r = q THEN {} ELSE waits[r]
          /\ before' = {p \in before : q \notin {p[1], p[2]}}
          /\ \A p \in before : p[1] \in Robots /\ p[2] \in Robots /\ p = <<p[1], p[2]>>
      BY <2>3 DEF Forget, TypeOK
    <3> QED  BY <3>1 DEF AgeOrder
  <2>4. ASSUME NEW zs \in SUBSET Zones, SetZones(zs)  PROVE AgeOrder'
    BY <2>4 DEF SetZones, waitVars, AgeOrder
  <2>5. CASE UNCHANGED vars
    BY <2>5 DEF vars, AgeOrder
  <2> QED  BY <2>1, <2>2, <2>3, <2>4, <2>5, ViewsSeen DEF Next
<1> QED  BY <1>1, <1>2, TypeCorrect, PTL DEF Spec

-----------------------------------------------------------------------------
(* The queue of a cycle, and what becomes of the waits.                     *)

\* The robots of a queue whose wait goes on.
GoingOn(Q, v) == {r \in Needy(Q) : waits[r] \cap v[r].req # {}}

LEMMA CycleWaits ==
  ASSUME NEW v, NEW reg, NEW G, CycleOf(reg, G, v)
  PROVE  LET Q == Queue(Registered(reg, v), v)
             refused == Needy(Q) \ G
         IN  /\ G \subseteq Needy(Q) /\ Needy(Q) \subseteq Robots
             /\ before' = Q.older \cap (refused \X refused)
             /\ \A r, q : <<r, q>> \in Q.older <=>
                  \/ r \in GoingOn(Q, v) /\ q \in GoingOn(Q, v) /\ <<r, q>> \in before
                  \/ r \in GoingOn(Q, v) /\ q \in Needy(Q) \ GoingOn(Q, v)
             /\ \A r \in Robots :
                  /\ Q.count[r] = IF r \in GoingOn(Q, v) THEN bypassed[r] ELSE 0
                  /\ waits'[r] # {} <=> r \in refused
                  /\ waits'[r] = IF r \in refused THEN v[r].req ELSE {}
                  /\ bypassed'[r] = IF r \in refused
                       THEN Q.count[r] + Cardinality(Overtakers(Q, G, r)) ELSE 0
<1> DEFINE h == Registered(reg, v)
<1> DEFINE Q == Queue(h, v)
<1> DEFINE refused == Needy(Q) \ G
<1>1. G \subseteq Needy(Q) /\ Needy(Q) \subseteq Robots
  BY DEF CycleOf, Needy
<1>2. /\ before' = Q.older \cap (refused \X refused)
      /\ waits' = [r \in Robots |-> IF r \in refused THEN v[r].req ELSE {}]
      /\ bypassed' = [r \in Robots |-> IF r \in refused
           THEN Q.count[r] + Cardinality(Overtakers(Q, G, r)) ELSE 0]
  BY DEF CycleOf, Settle
<1>3. Q.older = (before \cap (GoingOn(Q, v) \X GoingOn(Q, v)))
              \cup (GoingOn(Q, v) \X (Needy(Q) \ GoingOn(Q, v)))
  BY DEF Queue, Needy, Older, GoingOn
<1>4. \A r \in Robots : Q.count[r] = IF r \in GoingOn(Q, v) THEN bypassed[r] ELSE 0
  BY DEF Queue, Needy, Carried, GoingOn
<1>5. \A r \in refused : v[r].req # {}
  BY DEF Queue, Missing, Needy
<1> HIDE DEF h, Q, refused
<1>6. \A r, q : <<r, q>> \in Q.older <=>
        \/ r \in GoingOn(Q, v) /\ q \in GoingOn(Q, v) /\ <<r, q>> \in before
        \/ r \in GoingOn(Q, v) /\ q \in Needy(Q) \ GoingOn(Q, v)
  BY <1>3
<1>7. \A r \in Robots :
        /\ waits'[r] # {} <=> r \in refused
        /\ waits'[r] = IF r \in refused THEN v[r].req ELSE {}
        /\ bypassed'[r] = IF r \in refused
             THEN Q.count[r] + Cardinality(Overtakers(Q, G, r)) ELSE 0
  BY <1>2, <1>5
<1> QED BY <1>1, <1>2, <1>4, <1>6, <1>7 DEF h, Q, refused

-----------------------------------------------------------------------------
(* The ages of a queue: one of two robots at most is older, and a third is  *)
(* younger than the older of them or older than the younger.                *)
Aged(Q) ==
  \A r, q \in Needy(Q) : <<r, q>> \in Q.older =>
    /\ <<q, r>> \notin Q.older
    /\ \A o \in Needy(Q) : <<r, o>> \in Q.older \/ <<o, q>> \in Q.older

LEMMA QueueAged ==
  ASSUME AgeOrder, NEW h, NEW v \in [Robots -> ViewType]
  PROVE  Aged(Queue(h, v))
<1> DEFINE Q == Queue(h, v)
<1> DEFINE going == GoingOn(Q, v)
<1>1. Q.older = (before \cap (going \X going)) \cup (going \X (Needy(Q) \ going))
  BY DEF Queue, Needy, Older, GoingOn
<1>2. \A r \in going : r \in Robots /\ waits[r] # {}
  BY DEF GoingOn, Needy
<1> HIDE DEF Q, going
<1>3. \A r, q : <<r, q>> \in Q.older <=>
        \/ r \in going /\ q \in going /\ <<r, q>> \in before
        \/ r \in going /\ q \in Needy(Q) \ going
  BY <1>1
<1>4. \A r, q : <<r, q>> \in before => <<q, r>> \notin before
  BY DEF AgeOrder
<1>5. \A r, q, o : <<r, q>> \in before /\ o \in going => <<r, o>> \in before \/ <<o, q>> \in before
  BY <1>2 DEF AgeOrder
<1>6. \A r, q : <<r, q>> \in Q.older => <<q, r>> \notin Q.older
  BY <1>3, <1>4
<1>7. \A r, q, o : <<r, q>> \in Q.older /\ o \in Needy(Q) =>
        <<r, o>> \in Q.older \/ <<o, q>> \in Q.older
  BY <1>3, <1>5
<1> QED BY <1>6, <1>7 DEF Aged, Q

\* A strict order on S.
Strict(S, order) ==
  /\ \A r \in S : <<r, r>> \notin order
  /\ \A r, q, o \in S : <<r, q>> \in order /\ <<q, o>> \in order => <<r, o>> \in order

(* The pass serves the robots in a strict order: starving before others,    *)
(* and either kind by a lexicographic order of age, rank and identifier.    *)
LEMMA OrderStrict ==
  ASSUME NEW Q, Aged(Q), NEW v \in [Robots -> ViewType]
  PROVE  Strict(Needy(Q), Order(Q, v))
<1> DEFINE order == Order(Q, v)
<1> DEFINE old(r, q) == <<r, q>> \in Q.older
<1> DEFINE by(r, q) ==
      IF Starving(Q, r)
      THEN old(r, q) \/ (~old(q, r) /\ (v[r].rank < v[q].rank \/ (v[r].rank = v[q].rank /\ r < q)))
      ELSE \/ v[r].rank < v[q].rank
           \/ v[r].rank = v[q].rank /\ (old(r, q) \/ (~old(q, r) /\ r < q))
<1>1. \A r \in Needy(Q) : r \in Int /\ v[r].rank \in Int
  <2>1. \A r \in Needy(Q) : r \in Robots
    BY DEF Needy
  <2>2. \A r \in Robots : v[r].rank \in Int
    BY ViewFacts
  <2> QED BY <2>1, <2>2, RobotsAssumption
<1>2. \A r, q \in Needy(Q) : <<r, q>> \in order <=>
        \/ Starving(Q, r) /\ ~Starving(Q, q)
        \/ (Starving(Q, r) <=> Starving(Q, q)) /\ by(r, q)
  BY DEF Order, Precedes
<1>3. ASSUME NEW r \in Needy(Q) PROVE ~by(r, r)
  <2>1. ~old(r, r)
    BY DEF Aged
  <2> HIDE DEF old
  <2> QED BY <1>1, <2>1
<1>4. ASSUME NEW r \in Needy(Q), NEW q \in Needy(Q), NEW o \in Needy(Q),
             Starving(Q, r) <=> Starving(Q, q), by(r, q), by(q, o)
      PROVE  by(r, o)
  <2>1. /\ r \in Int /\ q \in Int /\ o \in Int
        /\ v[r].rank \in Int /\ v[q].rank \in Int /\ v[o].rank \in Int
    BY <1>1
  <2>2. /\ old(r, q) => old(r, o) \/ old(o, q)
        /\ old(q, o) => old(q, r) \/ old(r, o)
        /\ old(o, r) => old(o, q) \/ old(q, r)
        /\ old(r, q) => ~old(q, r)
        /\ old(q, o) => ~old(o, q)
        /\ old(r, o) => ~old(o, r)
    BY DEF Aged
  <2> HIDE DEF old
  <2>3. CASE Starving(Q, r)
    BY <1>4, <2>1, <2>2, <2>3
  <2>4. CASE ~Starving(Q, r)
    BY <1>4, <2>1, <2>2, <2>4
  <2> QED BY <2>3, <2>4
<1> HIDE DEF by, order
<1>5. \A r \in Needy(Q) : <<r, r>> \notin order
  BY <1>2, <1>3
<1>6. \A r, q, o \in Needy(Q) : <<r, q>> \in order /\ <<q, o>> \in order => <<r, o>> \in order
  BY <1>2, <1>4
<1> QED BY <1>5, <1>6 DEF Strict, order

\* A strict order on a finite set has a first element.
LEMMA FirstOf ==
  ASSUME NEW T, T # {}, IsFiniteSet(T), NEW order,
         \A r \in T : <<r, r>> \notin order,
         \A r, q, o \in T : <<r, q>> \in order /\ <<q, o>> \in order => <<r, o>> \in order
  PROVE  \E r \in T : \A q \in T : <<q, r>> \notin order
<1> DEFINE pred(r) == {q \in T : <<q, r>> \in order}
<1> DEFINE counts == {Cardinality(pred(r)) : r \in T}
<1>1. \A r \in T : IsFiniteSet(pred(r)) /\ Cardinality(pred(r)) \in Nat
  BY FS_Subset, FS_CardinalityType
<1>2. counts \subseteq Nat /\ counts # {}
  <2>1. \A n \in counts : \E r \in T : n = Cardinality(pred(r))
    OBVIOUS
  <2>2. ASSUME NEW n \in counts PROVE n \in Nat
    <3>1. PICK r \in T : n = Cardinality(pred(r))
      BY <2>1
    <3>2. Cardinality(pred(r)) \in Nat
      BY <1>1
    <3> HIDE DEF pred
    <3> QED BY <3>1, <3>2
  <2>3. PICK r \in T : TRUE
    OBVIOUS
  <2>4. Cardinality(pred(r)) \in counts
    OBVIOUS
  <2> QED BY <2>2, <2>4
<1>3. \E n \in counts : \A m \in counts : ~(<<m, n>> \in OpToRel(<, Nat))
  BY <1>2, WFMin, NatLessThanWellFounded, Zenon
<1>4. PICK n \in counts : \A m \in counts : ~(<<m, n>> \in OpToRel(<, Nat))
  BY <1>3
<1>5. \A m \in counts : ~(m < n)
  BY <1>2, <1>4 DEF OpToRel
<1>6. PICK r \in T : n = Cardinality(pred(r))
  BY <1>4
<1>7. ASSUME NEW q \in T, <<q, r>> \in order PROVE FALSE
  <2>1. pred(q) \subseteq pred(r) /\ q \in pred(r) /\ q \notin pred(q)
    BY <1>7
  <2>2. pred(q) # pred(r)
    BY <2>1
  <2>3. Cardinality(pred(q)) < Cardinality(pred(r))
    <3>1. IsFiniteSet(pred(r)) /\ pred(q) \in SUBSET pred(r)
      BY <1>1, <2>1
    <3> HIDE DEF pred
    <3>2. /\ Cardinality(pred(q)) <= Cardinality(pred(r))
          /\ Cardinality(pred(q)) = Cardinality(pred(r)) => pred(q) = pred(r)
      BY <3>1, FS_Subset
    <3>3. Cardinality(pred(q)) \in Nat /\ Cardinality(pred(r)) \in Nat
      BY <1>1
    <3> QED BY <2>2, <3>2, <3>3
  <2>4. Cardinality(pred(q)) \in counts
    OBVIOUS
  <2> QED BY <1>5, <1>6, <2>3, <2>4
<1> QED BY <1>7

(* Every cause of a refused robot is a real one, and it has one.            *)
LEMMA CycleNames ==
  ASSUME TypeOK, AgeOrder, NEW v \in [Robots -> ViewType], NEW reg, NEW G, CycleOf(reg, G, v),
         NEW r \in Robots, waits'[r] # {}
  PROVE  /\ blockers'[r] # {}
         /\ \A b \in blockers'[r] :
              /\ b # r
              /\ \/ \E z \in waits'[r] : Held(holders', b, z)
                 \/ bypassed'[b] >= MaxBypass /\ waits'[b] \cap waits'[r] # {}
<1> DEFINE h == Registered(reg, v)
<1> DEFINE Q == Queue(h, v)
<1> DEFINE order == Order(Q, v)
<1> DEFINE refused == Needy(Q) \ G
<1> DEFINE starving == {q \in Needy(Q) : Starving(Q, q)}
<1> DEFINE owner(z) ==
      {q \in Reservers(Q, G, order, r, z) :
         \A o \in Reservers(Q, G, order, r, z) \ {q} : <<q, o>> \in order}
<1> DEFINE keepers(z) ==
      IF Free(h, Q, G, order, v, r, z) THEN {}
      ELSE {q \in Robots \ {r} : Held(h, q, z)} \cup ServedBefore(Q, G, order, r, z)
<1>1. /\ G \subseteq Needy(Q) /\ Needy(Q) \subseteq Robots
      /\ \A q \in Robots :
           /\ Q.count[q] = IF q \in GoingOn(Q, v) THEN bypassed[q] ELSE 0
           /\ waits'[q] # {} <=> q \in refused
           /\ waits'[q] = IF q \in refused THEN v[q].req ELSE {}
           /\ bypassed'[q] = IF q \in refused
                THEN Q.count[q] + Cardinality(Overtakers(Q, G, q)) ELSE 0
  BY CycleWaits
<1>2. /\ r \in refused /\ waits'[r] = v[r].req
      /\ blockers'[r] = UNION {owner(z) \cup keepers(z) : z \in Q.need[r]}
  <2>1. r \in refused /\ waits'[r] = v[r].req
    BY <1>1
  <2>2. blockers'[r] = BlockersOf(h, Q, G, order, v, r)
    BY <2>1 DEF CycleOf, Settle
  <2> QED BY <2>1, <2>2 DEF BlockersOf
<1>3. \A q \in Robots : Q.need[q] \subseteq v[q].req /\ Q.need[q] \subseteq Zones
  <2>1. \A q \in Robots : Q.need[q] = {z \in v[q].req \cap known : ~Held(h, q, z)}
    BY DEF Queue, Missing
  <2> QED BY <2>1 DEF TypeOK
<1>4. /\ h \in Table /\ Q \in QueueType /\ holders' = WithTokens(h, GrantPairs(Q, G), v)
      /\ IsGrant(h, Q, G, order, v)
  BY DEF CycleOf, Settle
<1>5. \A z \in Zones, q \in Robots :
        Held(holders', q, z) <=> Held(h, q, z) \/ (q \in G /\ z \in Q.need[q])
  <2>1. \A z \in Zones, q \in Robots :
          Held(holders', q, z) <=> <<q, z>> \in GrantPairs(Q, G) \/ Held(h, q, z)
    BY <1>4, WithTokensFacts
  <2> QED BY <2>1 DEF GrantPairs
<1>6. /\ \A q \in starving : <<q, q>> \notin order
      /\ \A q, o, p \in starving :
           <<q, o>> \in order /\ <<o, p>> \in order => <<q, p>> \in order
      /\ \A q, o \in starving : q # o => <<q, o>> \in order \/ <<o, q>> \in order
  <2>1. Strict(Needy(Q), order)
    BY QueueAged, OrderStrict
  <2>2. \A q, o \in Needy(Q) : q # o => <<q, o>> \in order \/ <<o, q>> \in order
    BY <1>4, OrderTotal
  <2> HIDE DEF Q, order
  <2> QED BY <2>1, <2>2 DEF Strict
<1>7. \A z : /\ Reservers(Q, G, order, r, z) \subseteq starving
             /\ \A q \in Reservers(Q, G, order, r, z) :
                  /\ q \in refused /\ q \in Robots /\ z \in Q.need[q]
                  /\ Starving(Q, q) /\ <<q, r>> \in order
  BY <1>1 DEF Reservers
<1>8. \A q \in Robots : Q.count[q] \in Nat /\ Cardinality(Overtakers(Q, G, q)) \in Nat
  <2>1. \A q \in Robots : Overtakers(Q, G, q) \in SUBSET Robots
    BY <1>1 DEF Overtakers
  <2> QED BY <1>1, <2>1, RobotCount DEF TypeOK
<1> HIDE DEF h, Q, order, refused, starving
<1>9. ASSUME NEW z \in Q.need[r], NEW b \in owner(z)
      PROVE  b # r /\ bypassed'[b] >= MaxBypass /\ waits'[b] \cap waits'[r] # {}
  <2>1. b \in refused /\ b \in Robots /\ z \in Q.need[b] /\ Starving(Q, b) /\ <<b, r>> \in order
    BY <1>7, <1>9
  <2>2. b \in starving
    BY <1>7, <1>9
  <2>3. b # r
    BY <1>6, <2>1, <2>2
  <2>4. bypassed'[b] >= MaxBypass
    BY <1>1, <1>8, <2>1, MaxBypassAssumption DEF Starving
  <2>5. z \in waits'[b] /\ z \in waits'[r]
    BY <1>1, <1>2, <1>3, <2>1
  <2> QED BY <2>3, <2>4, <2>5
<1>10. ASSUME NEW z \in Q.need[r], NEW b \in keepers(z)
       PROVE  b # r /\ z \in waits'[r] /\ Held(holders', b, z)
  <2>1. z \in waits'[r] /\ z \in Zones
    BY <1>2, <1>3
  <2>2. CASE b \in Robots \ {r} /\ Held(h, b, z)
    BY <1>5, <2>1, <2>2
  <2>3. CASE b \in ServedBefore(Q, G, order, r, z)
    <3>1. b \in G /\ z \in Q.need[b]
      BY <2>3 DEF ServedBefore
    <3> QED BY <1>1, <1>2, <1>5, <2>1, <3>1 DEF refused
  <2> QED BY <1>10, <2>2, <2>3
<1>11. \E z \in Q.need[r] : owner(z) \cup keepers(z) # {}
  <2>1. PICK z \in Q.need[r] :
          ~Free(h, Q, G, order, v, r, z) \/ Reservers(Q, G, order, r, z) # {}
    BY <1>1, <1>2, <1>4 DEF IsGrant, refused
  <2>2. CASE Reservers(Q, G, order, r, z) # {}
    <3> DEFINE T == Reservers(Q, G, order, r, z)
    <3>1. T \subseteq starving /\ T \in SUBSET Robots
      BY <1>7
    <3>2. IsFiniteSet(T)
      BY <3>1, RobotCount
    <3>3. PICK q \in T : \A o \in T : <<o, q>> \notin order
      <4>1. \A o \in T : <<o, o>> \notin order
        BY <1>6, <3>1
      <4>2. \A o, p, s \in T : <<o, p>> \in order /\ <<p, s>> \in order => <<o, s>> \in order
        BY <1>6, <3>1
      <4> HIDE DEF T
      <4>3. T # {}
        BY <2>2 DEF T
      <4> QED BY <3>2, <4>1, <4>2, <4>3, FirstOf
    <3>4. \A o \in T \ {q} : <<q, o>> \in order
      BY <1>6, <3>1, <3>3
    <3>5. q \in owner(z)
      BY <3>3, <3>4
    <3> QED BY <3>5
  <2>3. CASE ~Free(h, Q, G, order, v, r, z)
    <3>1. ~Compatible(h, z, r, v[r].dir[z]) \/ ServedBefore(Q, G, order, r, z) # {}
      BY <2>3 DEF Free
    <3>2. keepers(z) # {}
      BY <2>3, <3>1 DEF Compatible
    <3> QED BY <3>2
  <2> QED BY <2>1, <2>2, <2>3
<1>12. \A b \in blockers'[r] : \E z \in Q.need[r] : b \in owner(z) \/ b \in keepers(z)
  BY <1>2
<1>13. blockers'[r] # {}
  BY <1>2, <1>11
<1>14. ASSUME NEW b \in blockers'[r]
       PROVE  /\ b # r
              /\ \/ \E z \in waits'[r] : Held(holders', b, z)
                 \/ bypassed'[b] >= MaxBypass /\ waits'[b] \cap waits'[r] # {}
  <2>1. PICK z \in Q.need[r] : b \in owner(z) \/ b \in keepers(z)
    BY <1>12
  <2>2. CASE b \in owner(z)
    BY <1>9, <2>2
  <2>3. CASE b \in keepers(z)
    BY <1>10, <2>3
  <2> QED BY <2>1, <2>2, <2>3
<1> QED BY <1>13, <1>14

(* A cycle leaves every robot that it refuses with a cause, and only with   *)
(* causes that hold a wanted zone or starve for one, in every reachable     *)
(* state and for any observations: no robot is exempt that begins to wait,  *)
(* goes on waiting, or keeps the causes it had.                             *)
THEOREM CausesNamed == Spec => CyclesNameCauses
<1>1. ASSUME TypeOK, AgeOrder, NEW v \in [Robots -> Views], Update(v)
      PROVE  CausesTrue'
  <2>1. v \in [Robots -> ViewType]
    BY ViewsSeen, <1>1
  <2>2. PICK reg, G : CycleOf(reg, G, v)
    BY <1>1, <2>1, UpdateTakenApart
  <2> QED BY <1>1, <2>1, <2>2, CycleNames DEF CausesTrue
<1>2. TypeOK /\ AgeOrder /\ [Next]_vars =>
        [\A v \in [Robots -> Views] : Update(v) => CausesTrue']_vars
  BY <1>1
<1> QED BY <1>2, TypeCorrect, AgesOrdered, PTL DEF Spec, CyclesNameCauses
-----------------------------------------------------------------------------
\* A criterion that looks only at what comes before, and a set that a pass by
\* this criterion selects.
LooksBack(S, order, fits) ==
  \A r \in S : \A G, H \in SUBSET S :
    (\A q \in S : <<q, r>> \in order => (q \in G <=> q \in H))
      => (<<r, G>> \in fits <=> <<r, H>> \in fits)

Selects(S, fits, G) == \A r \in S : r \in G <=> <<r, G>> \in fits
SelectsOne(S, fits) == \E G \in SUBSET S : \A H \in SUBSET S : Selects(S, fits, H) <=> H = G

(* A greedy pass over a finite set in a strict order, in which each member  *)
(* is taken or not by what was taken before it, selects exactly one set.    *)
LEMMA GreedyPass ==
  ASSUME NEW S, IsFiniteSet(S), NEW order, Strict(S, order), NEW fits, LooksBack(S, order, fits)
  PROVE  SelectsOne(S, fits)
<1> USE DEF Strict, LooksBack
<1> DEFINE Pass(T, G) == \A r \in T : r \in G <=> <<r, G>> \in fits
<1> DEFINE Closed(T) == \A r \in T, q \in S : <<q, r>> \in order => q \in T
<1> DEFINE parts == {T \in SUBSET S : Closed(T) /\ \E G \in SUBSET T : Pass(T, G)}
<1> DEFINE bigger == {p \in parts \X parts : p[2] \subseteq p[1] /\ p[1] # p[2]}
<1>1. \E T \in parts : \A U \in parts : <<U, T>> \notin bigger
  <2>1. {} \in parts
    OBVIOUS
  <2>2. IsFiniteSet(parts)
    BY FS_SUBSET, FS_Subset
  <2>3. \A T \in parts : <<T, T>> \notin bigger
    OBVIOUS
  <2>4. \A T, U, W \in parts : <<T, U>> \in bigger /\ <<U, W>> \in bigger => <<T, W>> \in bigger
    OBVIOUS
  <2> HIDE DEF parts, bigger
  <2> QED BY <2>1, <2>2, <2>3, <2>4, FirstOf
<1>2. PICK T \in parts : \A U \in parts : <<U, T>> \notin bigger
  BY <1>1
<1>3. T \in SUBSET S /\ Closed(T)
  OBVIOUS
<1>4. PICK G \in SUBSET T : Pass(T, G)
  OBVIOUS
<1>5. T = S
  <2> SUFFICES ASSUME T # S PROVE FALSE
    OBVIOUS
  <2>1. \E r \in S \ T : \A q \in S \ T : <<q, r>> \notin order
    <3> DEFINE rest == S \ T
    <3>1. IsFiniteSet(rest) /\ rest # {}
      BY <1>3, FS_Difference
    <3>2. /\ \A r \in rest : <<r, r>> \notin order
          /\ \A r, q, o \in rest : <<r, q>> \in order /\ <<q, o>> \in order => <<r, o>> \in order
      OBVIOUS
    <3> HIDE DEF rest
    <3>3. \E r \in rest : \A q \in rest : <<q, r>> \notin order
      BY <3>1, <3>2, FirstOf
    <3> QED BY <3>3 DEF rest
  <2>2. PICK r \in S \ T : \A q \in S \ T : <<q, r>> \notin order
    BY <2>1
  <2> DEFINE T2 == T \cup {r}
  <2> DEFINE G2 == IF <<r, G>> \in fits THEN G \cup {r} ELSE G
  <2>3. T2 \in SUBSET S /\ Closed(T2) /\ G2 \in SUBSET T2
    BY <1>3, <2>2
  <2>4. \A q \in T2 : <<q, G2>> \in fits <=> <<q, G>> \in fits
    <3> SUFFICES ASSUME NEW q \in T2 PROVE <<q, G2>> \in fits <=> <<q, G>> \in fits
      OBVIOUS
    <3>1. <<r, q>> \notin order
      BY <1>3, <2>2
    <3>2. \A o \in S : <<o, q>> \in order => (o \in G2 <=> o \in G)
      BY <3>1
    <3>3. q \in S /\ G \in SUBSET S /\ G2 \in SUBSET S
      BY <1>3, <2>3
    <3> HIDE DEF G2, T2
    <3> QED BY <3>2, <3>3
  <2>5. Pass(T2, G2)
    <3>1. \A q \in T : q \in G2 <=> q \in G
      BY <2>2
    <3>2. r \in G2 <=> <<r, G>> \in fits
      BY <2>2
    <3> QED BY <1>4, <2>4, <3>1, <3>2
  <2>6. T2 \in parts /\ <<T2, T>> \in bigger
    BY <2>2, <2>3, <2>5
  <2> QED BY <1>2, <2>6
<1>6. ASSUME NEW H \in SUBSET S, Pass(S, H)
      PROVE  H = G
  <2> DEFINE differ == {r \in S : ~(r \in H <=> r \in G)}
  <2> SUFFICES ASSUME differ # {} PROVE FALSE
    BY <1>4
  <2>1. \E r \in differ : \A q \in differ : <<q, r>> \notin order
    <3>1. IsFiniteSet(differ)
      BY FS_Subset
    <3>2. /\ \A r \in differ : <<r, r>> \notin order
          /\ \A r, q, o \in differ : <<r, q>> \in order /\ <<q, o>> \in order => <<r, o>> \in order
      OBVIOUS
    <3> HIDE DEF differ
    <3> QED BY <3>1, <3>2, FirstOf
  <2>2. PICK r \in differ : \A q \in differ : <<q, r>> \notin order
    BY <2>1
  <2>3. \A q \in S : <<q, r>> \in order => (q \in G <=> q \in H)
    BY <2>2
  <2>4. <<r, G>> \in fits <=> <<r, H>> \in fits
    BY <1>3, <2>3
  <2> QED BY <1>4, <1>5, <1>6, <2>4
<1>7. G \in SUBSET S /\ Pass(S, G)
  BY <1>3, <1>4, <1>5
<1>8. \A H \in SUBSET S : Selects(S, fits, H) <=> H = G
  BY <1>6, <1>7 DEF Selects
<1> QED BY <1>7, <1>8 DEF SelectsOne

(* Registration: zone by zone a pass over the robots in their order.        *)
LEMMA OneRegistration ==
  ASSUME NEW h \in Table, NEW v \in [Robots -> ViewType]
  PROVE  \E reg \in SUBSET Intruders(h, v) : \A other \in SUBSET Intruders(h, v) :
           IsRegistration(h, other, v) <=> other = reg
<1> DEFINE found == Intruders(h, v)
<1> DEFINE before_r(reg, r) == {q \in reg : q[1] < r}
<1> DEFINE here(z) == {r \in Robots : <<r, z>> \in found}
<1> DEFINE lower == {p \in Robots \X Robots : p[1] < p[2]}
<1> DEFINE early(z, G, r) == {q \in G : q < r} \X {z}
<1> DEFINE fits(z) ==
      {p \in here(z) \X SUBSET here(z) :
         Compatible(WithTokens(h, early(z, p[2], p[1]), v), z, p[1], v[p[1]].dir[z])}
<1> DEFINE IsPass(z, G) == Selects(here(z), fits(z), G)
<1> DEFINE at(reg, z) == {r \in Robots : <<r, z>> \in reg}
<1>0. \A r \in Robots : r \in Int
  BY RobotsAssumption
<1>1. /\ \A p \in found : p[1] \in Robots /\ p[2] \in Zones /\ p = <<p[1], p[2]>>
      /\ \A z : here(z) \subseteq Robots
  <2>1. known \cap Zones \subseteq Zones
    OBVIOUS
  <2>2. \A p \in found : p[1] \in Robots /\ p[2] \in v[p[1]].occ /\ p = <<p[1], p[2]>>
    BY DEF Intruders
  <2>3. \A r \in Robots : v[r].occ \subseteq Zones
    BY ViewFacts
  <2> HIDE DEF found
  <2> QED BY <2>2, <2>3
<1>2. ASSUME NEW pairs, NEW more, NEW z \in Zones, NEW r \in Robots, NEW d,
             \A q \in Robots \ {r} : <<q, z>> \in pairs <=> <<q, z>> \in more
      PROVE  Compatible(WithTokens(h, pairs, v), z, r, d)
               <=> Compatible(WithTokens(h, more, v), z, r, d)
  <2>1. \A q \in Robots \ {r} : WithTokens(h, pairs, v)[z][q] = WithTokens(h, more, v)[z][q]
    BY <1>2 DEF WithTokens
  <2> QED BY <2>1 DEF Compatible, Held
<1>3. ASSUME NEW z \in Zones
      PROVE  \E G \in SUBSET here(z) : \A H \in SUBSET here(z) : IsPass(z, H) <=> H = G
  <2>1. IsFiniteSet(here(z))
    BY <1>1, RobotsAssumption, FS_Subset
  <2>2. /\ \A r \in here(z) : <<r, r>> \notin lower
        /\ \A r, q, o \in here(z) : <<r, q>> \in lower /\ <<q, o>> \in lower => <<r, o>> \in lower
    BY <1>0, <1>1
  <2>3. ASSUME NEW r \in here(z), NEW G \in SUBSET here(z), NEW H \in SUBSET here(z),
               \A q \in here(z) : <<q, r>> \in lower => (q \in G <=> q \in H)
        PROVE  <<r, G>> \in fits(z) <=> <<r, H>> \in fits(z)
    <3>1. r \in Robots /\ \A q \in Robots : q \in here(z) /\ q < r => (q \in G <=> q \in H)
      BY <1>1, <2>3
    <3>2. \A q \in Robots \ {r} : <<q, z>> \in early(z, G, r) <=> <<q, z>> \in early(z, H, r)
      BY <3>1
    <3> HIDE DEF early, here
    <3>3. Compatible(WithTokens(h, early(z, G, r), v), z, r, v[r].dir[z])
            <=> Compatible(WithTokens(h, early(z, H, r), v), z, r, v[r].dir[z])
      BY <1>2, <3>1, <3>2
    <3> QED BY <3>3
  <2> HIDE DEF here, lower, fits
  <2>4. Strict(here(z), lower)
    BY <2>2 DEF Strict
  <2>5. LooksBack(here(z), lower, fits(z))
    BY <2>3 DEF LooksBack
  <2>6. SelectsOne(here(z), fits(z))
    BY <2>1, <2>4, <2>5, GreedyPass
  <2> QED BY <2>6 DEF SelectsOne
<1>4. ASSUME NEW reg \in SUBSET found, NEW z \in Zones, NEW r \in here(z)
      PROVE  /\ at(reg, z) \in SUBSET here(z)
             /\ <<r, at(reg, z)>> \in fits(z) <=>
                  Compatible(WithTokens(h, before_r(reg, r), v), z, r, v[r].dir[z])
  <2>1. at(reg, z) \in SUBSET here(z) /\ r \in Robots
    OBVIOUS
  <2>2. \A q \in Robots \ {r} : <<q, z>> \in early(z, at(reg, z), r) <=> <<q, z>> \in before_r(reg, r)
    OBVIOUS
  <2> HIDE DEF early, here, at, before_r
  <2>3. Compatible(WithTokens(h, early(z, at(reg, z), r), v), z, r, v[r].dir[z])
          <=> Compatible(WithTokens(h, before_r(reg, r), v), z, r, v[r].dir[z])
    BY <1>2, <2>1, <2>2
  <2> QED BY <2>1, <2>3
<1>5. ASSUME NEW reg \in SUBSET found
      PROVE  IsRegistration(h, reg, v) <=> \A z \in Zones : IsPass(z, at(reg, z))
  <2>1. IsRegistration(h, reg, v) <=>
          \A p \in found : p \in reg <=>
            Compatible(WithTokens(h, before_r(reg, p[1]), v), p[2], p[1], v[p[1]].dir[p[2]])
    BY DEF IsRegistration
  <2>2. \A z \in Zones : \A r \in here(z) : r \in at(reg, z) <=> <<r, z>> \in reg
    OBVIOUS
  <2>3. \A z \in Zones : \A r \in here(z) : r \in Robots /\ <<r, z>> \in found
    OBVIOUS
  <2>4. \A p \in found : p[1] \in here(p[2])
    BY <1>1
  <2> HIDE DEF found, here, at, fits, before_r
  <2>5. ASSUME IsRegistration(h, reg, v), NEW z \in Zones, NEW r \in here(z)
        PROVE  r \in at(reg, z) <=> <<r, at(reg, z)>> \in fits(z)
    <3>1. <<r, z>> \in reg <=> Compatible(WithTokens(h, before_r(reg, r), v), z, r, v[r].dir[z])
      BY <2>1, <2>3, <2>5
    <3> QED BY <1>4, <2>2, <3>1
  <2>6. ASSUME \A z \in Zones : IsPass(z, at(reg, z)), NEW p \in found
        PROVE  p \in reg <=>
                 Compatible(WithTokens(h, before_r(reg, p[1]), v), p[2], p[1], v[p[1]].dir[p[2]])
    <3>1. p[2] \in Zones /\ p[1] \in here(p[2]) /\ p = <<p[1], p[2]>>
      BY <1>1, <2>4
    <3>2. p[1] \in at(reg, p[2]) <=> <<p[1], at(reg, p[2])>> \in fits(p[2])
      BY <2>6, <3>1 DEF Selects
    <3> QED BY <1>4, <2>2, <3>1, <3>2
  <2> QED BY <2>1, <2>5, <2>6 DEF Selects
<1> DEFINE chosen(z) ==
      CHOOSE G \in SUBSET here(z) : \A H \in SUBSET here(z) : IsPass(z, H) <=> H = G
<1> DEFINE reg == {p \in found : p[1] \in chosen(p[2])}
<1>6. \A z \in Zones : /\ chosen(z) \in SUBSET here(z)
                       /\ \A H \in SUBSET here(z) : IsPass(z, H) <=> H = chosen(z)
  <2> HIDE DEF IsPass, here
  <2> QED BY <1>3
<1>7. reg \in SUBSET found
  OBVIOUS
<1>8. \A z \in Zones : at(reg, z) = chosen(z)
  <2> SUFFICES ASSUME NEW z \in Zones PROVE at(reg, z) = chosen(z)
    OBVIOUS
  <2>1. chosen(z) \subseteq here(z)
    BY <1>6
  <2> HIDE DEF chosen, found
  <2> QED BY <2>1
<1>9. \A z \in Zones, other \in SUBSET found : at(other, z) \in SUBSET here(z)
  OBVIOUS
<1>10. \A other \in SUBSET found : (\A z \in Zones : at(other, z) = at(reg, z)) => other = reg
  <2> SUFFICES ASSUME NEW other \in SUBSET found, \A z \in Zones : at(other, z) = at(reg, z),
                      NEW p \in found
               PROVE  p \in other <=> p \in reg
    BY <1>7
  <2>1. p[1] \in Robots /\ p[2] \in Zones /\ p = <<p[1], p[2]>>
    BY <1>1
  <2>2. p[1] \in at(other, p[2]) <=> p[1] \in at(reg, p[2])
    BY <2>1
  <2> HIDE DEF reg, found
  <2> QED BY <2>1, <2>2
<1> HIDE DEF found, here, at, fits, chosen, reg, IsPass
<1>11. \A other \in SUBSET found : IsRegistration(h, other, v) <=> other = reg
  <2>1. ASSUME NEW other \in SUBSET found, IsRegistration(h, other, v)
        PROVE  other = reg
    <3>1. \A z \in Zones : at(other, z) = chosen(z)
      BY <1>5, <1>6, <1>9, <2>1
    <3> QED BY <1>8, <1>10, <3>1
  <2>2. \A z \in Zones : IsPass(z, at(reg, z))
    BY <1>6, <1>7, <1>8, <1>9
  <2> QED BY <1>5, <1>7, <2>1, <2>2
<1> QED BY <1>7, <1>11 DEF found

-----------------------------------------------------------------------------
(* The grant: a pass over the queue in that order.                          *)
LEMMA OneGrant ==
  ASSUME NEW h, NEW Q, Aged(Q), NEW v \in [Robots -> ViewType]
  PROVE  \E G \in SUBSET Needy(Q) : \A other \in SUBSET Needy(Q) :
           IsGrant(h, Q, other, Order(Q, v), v) <=> other = G
<1> DEFINE S == Needy(Q)
<1> DEFINE order == Order(Q, v)
<1> DEFINE served(G, r) ==
      \A z \in Q.need[r] : /\ Free(h, Q, G, order, v, r, z)
                           /\ Reservers(Q, G, order, r, z) = {}
<1> DEFINE fits == {p \in S \X SUBSET S : served(p[2], p[1])}
<1>1. IsFiniteSet(S) /\ Strict(S, order)
  <2>1. S \subseteq Robots
    BY DEF Needy
  <2> QED BY <2>1, RobotsAssumption, FS_Subset, OrderStrict
<1>2. ASSUME NEW r \in S, NEW G \in SUBSET S, NEW H \in SUBSET S,
             \A q \in S : <<q, r>> \in order => (q \in G <=> q \in H)
      PROVE  served(G, r) <=> served(H, r)
  <2> HIDE DEF S, order
  <2>1. \A z : ServedBefore(Q, G, order, r, z) = ServedBefore(Q, H, order, r, z)
    BY <1>2 DEF ServedBefore
  <2>2. \A z : Reservers(Q, G, order, r, z) = Reservers(Q, H, order, r, z)
    BY <1>2 DEF Reservers, S
  <2> QED BY <2>1, <2>2 DEF Free
<1> HIDE DEF served
<1>3. \A r \in S, G \in SUBSET S : <<r, G>> \in fits <=> served(G, r)
  OBVIOUS
<1>4. \A G \in SUBSET S : IsGrant(h, Q, G, order, v) <=> \A r \in S : r \in G <=> served(G, r)
  BY DEF IsGrant, served
<1> HIDE DEF S, order, fits
<1>5. LooksBack(S, order, fits)
  BY <1>2, <1>3 DEF LooksBack
<1>6. SelectsOne(S, fits)
  BY <1>1, <1>5, GreedyPass
<1>7. \A G \in SUBSET S : Selects(S, fits, G) <=> IsGrant(h, Q, G, order, v)
  BY <1>3, <1>4 DEF Selects
<1>8. \E G \in SUBSET S : \A other \in SUBSET S : IsGrant(h, Q, other, order, v) <=> other = G
  BY <1>6, <1>7 DEF SelectsOne
<1> QED BY <1>8 DEF S, order

(* Whatever the observations, the passes of the next cycle select one set   *)
(* of registrations and one of grants: the loops of `update' are what the   *)
(* model says of them, neither blocked nor left open.                       *)
THEOREM CyclesAreDetermined == Spec => []Determined
<1>1. TypeOK /\ AgeOrder => Determined
  <2> SUFFICES ASSUME TypeOK, AgeOrder, NEW v \in [Robots -> Views]
               PROVE  \E reg \in SUBSET Intruders(AfterReturn(v), v) :
                 /\ \A other \in SUBSET Intruders(AfterReturn(v), v) :
                      IsRegistration(AfterReturn(v), other, v) <=> other = reg
                 /\ \E G \in SUBSET Needy(Queue(WithTokens(AfterReturn(v), reg, v), v)) :
                      \A other \in SUBSET Needy(Queue(WithTokens(AfterReturn(v), reg, v), v)) :
                        IsGrant(WithTokens(AfterReturn(v), reg, v),
                                Queue(WithTokens(AfterReturn(v), reg, v), v), other,
                                Order(Queue(WithTokens(AfterReturn(v), reg, v), v), v), v)
                          <=> other = G
    BY DEF Determined
  <2> DEFINE back == AfterReturn(v)
  <2>1. v \in [Robots -> ViewType]
    BY ViewsSeen
  <2>2. back \in Table
    BY AfterReturnFacts DEF TypeOK, Table
  <2> HIDE DEF back
  <2>3. PICK reg \in SUBSET Intruders(back, v) : \A other \in SUBSET Intruders(back, v) :
          IsRegistration(back, other, v) <=> other = reg
    BY <2>1, <2>2, OneRegistration
  <2> DEFINE h == WithTokens(back, reg, v)
  <2> DEFINE Q == Queue(h, v)
  <2>4. Aged(Q)
    BY <2>1, QueueAged
  <2> HIDE DEF h, Q
  <2>5. \E G \in SUBSET Needy(Q) : \A other \in SUBSET Needy(Q) :
          IsGrant(h, Q, other, Order(Q, v), v) <=> other = G
    BY <2>1, <2>4, OneGrant
  <2> QED BY <2>3, <2>5 DEF back, h, Q
<1> QED BY <1>1, TypeCorrect, AgesOrdered, PTL

=============================================================================
