-------------------------- MODULE ZoneTrafficProofs --------------------------
(***************************************************************************)
(* Proofs about ZoneTraffic, for any robots, zones, chains, priorities and *)
(* MaxBypass: bodies apart, no deadlock of tokens alone, and the bound on  *)
(* overtaking.  What a cycle does to the tokens is taken from the lemmas   *)
(* of ZoneTokensProofs, for the views this module observes.                *)
(***************************************************************************)
EXTENDS ZoneTraffic, ZoneTokensProofs, SequenceTheorems

Observed == [r \in Robots |-> ViewOf(r)]

-----------------------------------------------------------------------------
(* The tokens of ZoneTokens under the views of this module.                 *)

\* Robots here have no direction through a zone, so nobody shares one.
Undirected == \A z \in Zones, r \in Robots : holders[z][r] \in {NoDirection, NotHeld}

TokenInv ==
  /\ TTypeOK /\ Exclusive /\ EnteredHeld /\ BypassBound
  /\ Undirected /\ known = Zones

LEMMA BodyAhead ==
  ASSUME TTypeOK, NEW r \in Robots
  PROVE  Body(r) \subseteq Ahead(r) /\ Ahead(r) \subseteq Zones
<1>1. route[r] \in Seq(Zones) /\ (inside[r] => route[r] # <<>>)
  BY DEF TTypeOK
<1>2. Ahead(r) \subseteq Zones
  BY <1>1 DEF Ahead
<1>3. inside[r] => Head(route[r]) = route[r][1] /\ 1 \in DOMAIN route[r]
  BY <1>1
<1> QED BY <1>2, <1>3 DEF Ahead, Body

LEMMA ObservedFacts ==
  ASSUME TTypeOK
  PROVE  /\ Observed \in [Robots -> ViewType]
         /\ \A r \in Robots :
              /\ Observed[r].dir = [z \in Zones |-> NoDirection]
              /\ r \in stale =>
                   Observed[r].occ = lastSeen[r] /\ Observed[r].req = {} /\ Observed[r].frozen
              /\ r \notin stale =>
                   /\ Observed[r].occ = Body(r) /\ Observed[r].upc = Ahead(r)
                   /\ Observed[r].req = Ahead(r) \ Body(r) /\ ~Observed[r].frozen
<1>1. ASSUME NEW r \in Robots PROVE ViewOf(r) \in ViewType
  <2>1. lastSeen[r] \in SUBSET Zones /\ Priority[r] \in Int
    BY PriorityAssumption DEF TTypeOK
  <2>2. Body(r) \in SUBSET Zones /\ Ahead(r) \in SUBSET Zones
    BY BodyAhead
  <2>3. [z \in Zones |-> NoDirection] \in [Zones -> Passing]
    BY DEF Passing
  <2> QED BY <2>1, <2>2, <2>3 DEF ViewOf, ViewType
<1> QED BY <1>1 DEF Observed, ViewOf

LEMMA OneHolder ==
  ASSUME Undirected, Exclusive, NEW z \in Zones, NEW r \in Robots, NEW q \in Robots,
         Held(holders, r, z), Held(holders, q, z)
  PROVE  r = q
<1> SUFFICES ASSUME r # q PROVE FALSE
  OBVIOUS
<1>1. holders[z][r] = NoDirection /\ holders[z][q] = NoDirection
  BY DEF Undirected, Held
<1>2. <<NoDirection, NoDirection>> \in Aligned
  BY <1>1 DEF Exclusive, Sharable
<1> QED BY <1>2, DirectionsAssumption

\* A cycle whose loops have been taken apart.
LEMMA CycleTakenApart ==
  ASSUME TokenInv, Cycle
  PROVE  \E reg, G : CycleOf(reg, G, Observed)
<1>1. TypeOK /\ Observed \in [Robots -> ViewType] /\ Update(Observed)
  BY ObservedFacts DEF TokenInv, TTypeOK, Cycle, Observed
<1> QED BY <1>1, UpdateTakenApart

\* What becomes of the table of holders.
LEMMA CycleHolders ==
  ASSUME TokenInv, Cycle, NEW reg, NEW G, CycleOf(reg, G, Observed)
  PROVE  LET h == Registered(reg, Observed)
             Q == Queue(h, Observed)
         IN  /\ G \subseteq Needy(Q)
             /\ \A r \in Robots :
                  /\ Q.need[r] = {z \in Observed[r].req : ~Held(h, r, z)}
                  /\ waits'[r] = IF r \in Needy(Q) \ G THEN Observed[r].req ELSE {}
             /\ \A z \in Zones, r \in Robots :
                  /\ Held(h, r, z) <=>
                       <<r, z>> \in reg \/ (Held(holders, r, z) /\ <<r, z>> \notin Returned(Observed))
                  /\ Held(holders', r, z) <=> Held(h, r, z) \/ (r \in G /\ z \in Q.need[r])
                  /\ <<r, z>> \in reg => z \in Observed[r].occ
                  /\ holders'[z][r] \in {NoDirection, NotHeld}
<1> DEFINE v == Observed
<1> DEFINE back == AfterReturn(v)
<1> DEFINE h == Registered(reg, v)
<1> DEFINE Q == Queue(h, v)
<1> DEFINE pairs == GrantPairs(Q, G)
<1>v. /\ v \in [Robots -> ViewType] /\ holders \in Table
      /\ \A r \in Robots : v[r].dir = [z \in Zones |-> NoDirection] /\ v[r].req \in SUBSET Zones
  BY ObservedFacts, ViewFacts DEF TokenInv, TTypeOK, TypeOK, Table
<1>1. /\ holders' = WithTokens(h, pairs, v)
      /\ back \in Table /\ h \in Table
      /\ reg \in SUBSET Intruders(back, v) /\ G \in SUBSET Needy(Q)
      /\ waits' = [r \in Robots |-> IF r \in Needy(Q) \ G THEN v[r].req ELSE {}]
  BY DEF CycleOf, Settle
<1>2. \A r \in Robots : Q.need[r] = {z \in v[r].req : ~Held(h, r, z)}
  BY <1>v DEF Queue, Missing, TokenInv
<1>3. \A z \in Zones, r \in Robots : <<r, z>> \in pairs <=> r \in G /\ z \in Q.need[r]
  BY DEF GrantPairs
<1>4. \A z \in Zones, r \in Robots : <<r, z>> \in reg => z \in v[r].occ
  BY <1>1 DEF Intruders
<1>5. \A z \in Zones, r \in Robots :
        back[z][r] = IF <<r, z>> \in Returned(v) THEN NotHeld ELSE holders[z][r]
  BY DEF AfterReturn
<1>d. \A z \in Zones, r \in Robots : v[r].dir[z] = NoDirection
  BY <1>v
<1>e. h = WithTokens(back, reg, v)
  BY DEF Registered
<1> HIDE DEF v, back, h, Q, pairs
<1>6. ASSUME NEW z \in Zones, NEW r \in Robots
      PROVE  /\ <<r, z>> \in reg => h[z][r] = NoDirection
             /\ <<r, z>> \notin reg => h[z][r] = back[z][r]
             /\ Held(h, r, z) <=> <<r, z>> \in reg \/ Held(back, r, z)
  <2>1. /\ <<r, z>> \in reg => h[z][r] = v[r].dir[z]
        /\ <<r, z>> \notin reg => h[z][r] = back[z][r]
        /\ Held(h, r, z) <=> <<r, z>> \in reg \/ Held(back, r, z)
    <3>1. back \in Table /\ v \in [Robots -> ViewType]
      BY <1>v, <1>1
    <3>2. /\ <<r, z>> \in reg => WithTokens(back, reg, v)[z][r] = v[r].dir[z]
          /\ <<r, z>> \notin reg => WithTokens(back, reg, v)[z][r] = back[z][r]
          /\ Held(WithTokens(back, reg, v), r, z) <=> <<r, z>> \in reg \/ Held(back, r, z)
      BY <3>1, WithTokensFacts, Zenon
    <3> QED BY <1>e, <3>2, Zenon
  <2> QED BY <1>d, <2>1
<1>7. ASSUME NEW z \in Zones, NEW r \in Robots
      PROVE  /\ <<r, z>> \in pairs => holders'[z][r] = NoDirection
             /\ <<r, z>> \notin pairs => holders'[z][r] = h[z][r]
             /\ Held(holders', r, z) <=> <<r, z>> \in pairs \/ Held(h, r, z)
  <2>1. /\ <<r, z>> \in pairs => holders'[z][r] = v[r].dir[z]
        /\ <<r, z>> \notin pairs => holders'[z][r] = h[z][r]
        /\ Held(holders', r, z) <=> <<r, z>> \in pairs \/ Held(h, r, z)
    <3>1. h \in Table /\ v \in [Robots -> ViewType] /\ holders' = WithTokens(h, pairs, v)
      BY <1>v, <1>1
    <3>2. /\ <<r, z>> \in pairs => WithTokens(h, pairs, v)[z][r] = v[r].dir[z]
          /\ <<r, z>> \notin pairs => WithTokens(h, pairs, v)[z][r] = h[z][r]
          /\ Held(WithTokens(h, pairs, v), r, z) <=> <<r, z>> \in pairs \/ Held(h, r, z)
      BY <3>1, WithTokensFacts, Zenon
    <3> QED BY <3>1, <3>2, Zenon
  <2> QED BY <1>d, <2>1
<1>8. ASSUME NEW z \in Zones, NEW r \in Robots
      PROVE  holders'[z][r] \in {NoDirection, NotHeld}
  <2>1. holders[z][r] \in {NoDirection, NotHeld}
    BY DEF TokenInv, Undirected
  <2>2. back[z][r] \in {NoDirection, NotHeld}
    BY <1>5, <2>1
  <2> QED BY <1>6, <1>7, <2>2
<1>9. \A z \in Zones, r \in Robots :
        Held(back, r, z) <=> Held(holders, r, z) /\ <<r, z>> \notin Returned(v)
  BY <1>5 DEF Held
<1>10. G \subseteq Needy(Q)
  BY <1>1
<1>11. \A r \in Robots : waits'[r] = IF r \in Needy(Q) \ G THEN v[r].req ELSE {}
  BY <1>1
<1>12. \A z \in Zones, r \in Robots :
        Held(h, r, z) <=>
          <<r, z>> \in reg \/ (Held(holders, r, z) /\ <<r, z>> \notin Returned(v))
  BY <1>6, <1>9
<1>13. \A z \in Zones, r \in Robots :
        Held(holders', r, z) <=> Held(h, r, z) \/ (r \in G /\ z \in Q.need[r])
  BY <1>3, <1>7
<1> QED BY <1>2, <1>4, <1>8, <1>10, <1>11, <1>12, <1>13 DEF v, h, Q

-----------------------------------------------------------------------------
(* Types and tokens are kept.                                               *)
LEMMA CycleTokens ==
  ASSUME TokenInv, Cycle
  PROVE  TokenInv'
<1>1. /\ TypeOK /\ AgeOrder /\ Exclusive /\ EnteredHeld /\ BypassBound
      /\ Observed \in [Robots -> ViewType] /\ Update(Observed)
  BY ObservedFacts DEF TokenInv, TTypeOK, Cycle, Observed
<1>2. TypeOK' /\ AgeOrder' /\ Exclusive' /\ BypassBound'
  BY <1>1, UpdateType, UpdateAge, UpdateExcl, UpdateBypass
<1>3. EnteredHeld'
  <2>1. \A r \in Robots, z \in Zones : <<r, z>> \in entered' => Held(holders', r, z)
    BY <1>1, UpdateMarks
  <2> QED BY <1>2, <2>1 DEF EnteredHeld, TypeOK
<1>4. Undirected' /\ known' = Zones
  <2>1. PICK reg, G : CycleOf(reg, G, Observed)
    BY CycleTakenApart
  <2>2. \A z \in Zones, r \in Robots : holders'[z][r] \in {NoDirection, NotHeld}
    BY <2>1, CycleHolders
  <2> QED BY <2>1, <2>2 DEF Undirected, CycleOf, TokenInv
<1>5. TTypeOK'
  <2>1. route' = route /\ inside' = inside /\ stale' = stale
    BY DEF Cycle, motion
  <2>2. command' \in [Robots -> {"new", "hold", "go"}]
    BY DEF Cycle
  <2>3. lastSeen' \in [Robots -> SUBSET Zones]
    <3>1. \A r \in Robots : lastSeen[r] \in SUBSET Zones /\ Body(r) \in SUBSET Zones
      BY BodyAhead DEF TokenInv, TTypeOK
    <3> QED BY <3>1 DEF Cycle
  <2>4. ahead' \in [Robots -> Nat]
    <3>1. \A r \in Robots : ahead[r] \in Nat /\ Cardinality(Grants(r)) \in Nat
      BY RobotCount DEF Grants, TokenInv, TTypeOK
    <3>2. \A r \in Robots :
            (IF waits[r] \cap waits'[r] # {} THEN ahead[r] ELSE 0) + Cardinality(Grants(r)) \in Nat
      BY <3>1
    <3> QED BY <3>2 DEF Cycle
  <2> QED BY <1>2, <2>1, <2>2, <2>3, <2>4 DEF TokenInv, TTypeOK
<1> QED BY <1>2, <1>3, <1>4, <1>5 DEF TokenInv

LEMMA MoveTokens ==
  ASSUME TokenInv, TTypeOK', UNCHANGED vars
  PROVE  TokenInv'
BY DEF TokenInv, vars, Exclusive, EnteredHeld, BypassBound, Undirected, Held

\* The rest of a route.
LEMMA TailFacts ==
  ASSUME NEW S, NEW s \in Seq(S), s # <<>>
  PROVE  /\ Tail(s) \in Seq(S)
         /\ DOMAIN Tail(s) = 1 .. (Len(s) - 1)
         /\ \A k \in DOMAIN Tail(s) : k + 1 \in DOMAIN s /\ Tail(s)[k] = s[k + 1]
         /\ Len(s) > 1 => Tail(s) # <<>> /\ 1 \in DOMAIN Tail(s) /\ Head(Tail(s)) = s[2]
         /\ Head(s) = s[1] /\ 1 \in DOMAIN s
<1>1. Tail(s) \in Seq(S) /\ DOMAIN Tail(s) = 1 .. (Len(s) - 1)
  OBVIOUS
<1>2. Len(s) \in Nat /\ DOMAIN s = 1 .. Len(s) /\ Head(s) = s[1] /\ 1 \in DOMAIN s
  OBVIOUS
<1>3. \A k \in 1 .. Len(Tail(s)) : Tail(s)[k] = s[k + 1]
  BY HeadTailProperties
<1>4. Len(Tail(s)) = Len(s) - 1
  BY HeadTailProperties
<1>5. \A k \in DOMAIN Tail(s) : k + 1 \in DOMAIN s /\ Tail(s)[k] = s[k + 1]
  BY <1>1, <1>2, <1>3, <1>4
<1>6. ASSUME Len(s) > 1 PROVE Tail(s) # <<>> /\ 1 \in DOMAIN Tail(s) /\ Head(Tail(s)) = s[2]
  <2>1. 1 \in DOMAIN Tail(s)
    BY <1>1, <1>2, <1>6
  <2>2. Tail(s)[1] = s[1 + 1]
    BY <1>5, <2>1
  <2>3. Tail(s) # <<>>
    <3>1. DOMAIN <<>> = {}
      OBVIOUS
    <3>2. \A e : e \in DOMAIN Tail(s) /\ DOMAIN <<>> = {} => Tail(s) # <<>>
      BY Zenon
    <3> QED BY <2>1, <3>1, <3>2, Zenon
  <2>4. Head(Tail(s)) = Tail(s)[1]
    BY <1>1, <2>3
  <2> QED BY <2>1, <2>2, <2>3, <2>4
<1> QED BY <1>1, <1>2, <1>5, <1>6

\* What a robot does with its route leaves it in a zone of it or outside.
RobotMoves(r) ==
  Approach(r) \/ Enter(r) \/ Leave(r) \/ TurnAway(r) \/ GoSilent(r) \/ SeenAgain(r)

LEMMA MoveTypes ==
  ASSUME TTypeOK, NEW r \in Robots, RobotMoves(r)
  PROVE  TTypeOK' /\ UNCHANGED vars
<1>t. /\ route \in [Robots -> Seq(Zones)] /\ inside \in [Robots -> BOOLEAN]
      /\ command \in [Robots -> {"new", "hold", "go"}] /\ stale \subseteq Robots
      /\ \A q \in Robots : inside[q] => route[q] # <<>>
  BY DEF TTypeOK
<1>1. UNCHANGED <<vars, lastSeen, ahead>>
  BY DEF RobotMoves, Approach, Enter, Leave, TurnAway, GoSilent, SeenAgain, motion
<1>2. TypeOK' /\ AgeOrder' /\ UNCHANGED vars
  BY <1>1 DEF TTypeOK, TypeOK, AgeOrder, vars
<1>3. CASE Approach(r)
  <2>1. PICK chain \in Chains[r] : route' = [route EXCEPT ![r] = chain]
    BY <1>3 DEF Approach
  <2>2. chain \in Seq(Zones) /\ chain # <<>>
    BY ChainsAssumption
  <2>3. /\ inside' = inside /\ stale' = stale
        /\ command' = [command EXCEPT ![r] = "new"]
    BY <1>3 DEF Approach
  <2> QED BY <1>t, <1>1, <1>2, <2>1, <2>2, <2>3 DEF TTypeOK
<1>4. CASE Enter(r)
  BY <1>t, <1>1, <1>2, <1>4 DEF TTypeOK, Enter
<1>5. CASE Leave(r)
  <2>1. /\ route' = [route EXCEPT ![r] = Tail(@)]
        /\ inside' = [inside EXCEPT ![r] = Len(route[r]) > 1]
        /\ command' = command /\ stale' = stale
    BY <1>5 DEF Leave
  <2>2. /\ Tail(route[r]) \in Seq(Zones)
        /\ Len(route[r]) > 1 => Tail(route[r]) # <<>>
    <3>1. route[r] \in Seq(Zones) /\ route[r] # <<>>
      BY <1>t, <1>5 DEF Leave
    <3> QED BY <3>1, TailFacts
  <2>3. route' \in [Robots -> Seq(Zones)] /\ inside' \in [Robots -> BOOLEAN]
    BY <1>t, <2>1, <2>2
  <2>4. ASSUME NEW q \in Robots, inside'[q] PROVE route'[q] # <<>>
    <3>1. CASE q = r
      BY <1>t, <2>1, <2>2, <2>4, <3>1
    <3>2. CASE q # r
      BY <1>t, <2>1, <2>4, <3>2
    <3> QED BY <3>1, <3>2
  <2> QED BY <1>t, <1>1, <1>2, <2>1, <2>3, <2>4 DEF TTypeOK
<1>6. CASE TurnAway(r)
  <2>1. /\ route' = [route EXCEPT ![r] = <<>>]
        /\ inside' = inside /\ command' = command /\ stale' = stale /\ ~inside[r]
    BY <1>6 DEF TurnAway
  <2> QED BY <1>t, <1>1, <1>2, <2>1 DEF TTypeOK
<1>7. CASE GoSilent(r) \/ SeenAgain(r)
  BY <1>t, <1>1, <1>2, <1>7 DEF TTypeOK, GoSilent, SeenAgain, motion
<1> QED BY <1>2, <1>3, <1>4, <1>5, <1>6, <1>7 DEF RobotMoves

LEMMA TokensInitially == TInit => TokenInv
<1> SUFFICES ASSUME TInit PROVE TokenInv
  OBVIOUS
<1>1. TypeOK /\ AgeOrder /\ Exclusive /\ EnteredHeld
  BY DEF TInit, Init, TypeOK, AgeOrder, Exclusive, EnteredHeld, Held
<1>2. BypassBound
  <2>1. \A r \in Robots : Cardinality(Robots \ {r}) \in Nat
    BY RobotCount
  <2> QED BY <2>1, MaxBypassAssumption DEF TInit, Init, BypassBound
<1>3. TTypeOK
  <2>1. \A r \in Robots : ~inside[r]
    BY DEF TInit
  <2>2. route \in [Robots -> Seq(Zones)] /\ inside \in [Robots -> BOOLEAN]
    BY DEF TInit
  <2> QED BY <1>1, <2>1, <2>2 DEF TInit, TTypeOK
<1> QED BY <1>1, <1>2, <1>3 DEF TInit, Init, TokenInv, Undirected

LEMMA TokenSteps == TokenInv /\ [TNext]_tvars => TokenInv'
<1> SUFFICES ASSUME TokenInv, [TNext]_tvars PROVE TokenInv'
  OBVIOUS
<1>1. CASE Cycle
  BY <1>1, CycleTokens
<1>2. ASSUME NEW r \in Robots, RobotMoves(r) PROVE TokenInv'
  BY <1>2, MoveTypes, MoveTokens DEF TokenInv
<1>3. CASE UNCHANGED tvars
  <2>1. TTypeOK' /\ UNCHANGED vars
    BY <1>3 DEF tvars, vars, motion, TokenInv, TTypeOK, TypeOK, AgeOrder
  <2> QED BY <2>1, MoveTokens
<1> QED BY <1>1, <1>2, <1>3 DEF TNext, RobotMoves

LEMMA TokenInvariance == TSpec => []TokenInv
BY TokensInitially, TokenSteps, PTL DEF TSpec

(* Tokens, waits, routes and commands keep their types, and the order of    *)
(* the waits is one of times.                                               *)
THEOREM TTypeCorrect == TSpec => []TTypeOK
<1>1. TokenInv => TTypeOK
  BY DEF TokenInv
<1> QED BY <1>1, TokenInvariance, PTL


(* The tokens under driving robots are those of ZoneTokens: a step either   *)
(* leaves them alone or is one call of `update' on observations a robot can *)
(* present, so what holds of its cycles holds here for any routes.          *)
TokenSpec == Init /\ [][\E v \in [Robots -> ViewType] : Update(v)]_vars

THEOREM TrafficImplementsTokens == TSpec => TokenSpec
<1> DEFINE TokenNext == \E v \in [Robots -> ViewType] : Update(v)
<1>1. TInit => Init
  BY DEF TInit
<1>2. TokenInv /\ [TNext]_tvars => [TokenNext]_vars
  <2> SUFFICES ASSUME TokenInv, [TNext]_tvars PROVE [TokenNext]_vars
    OBVIOUS
  <2>1. CASE Cycle
    <3>1. Observed \in [Robots -> ViewType] /\ Update(Observed)
      BY <2>1, ObservedFacts DEF TokenInv, Cycle, Observed
    <3> QED BY <3>1
  <2>2. ASSUME NEW r \in Robots, RobotMoves(r) PROVE UNCHANGED vars
    BY <2>2, MoveTypes DEF TokenInv
  <2>3. CASE UNCHANGED tvars
    BY <2>3 DEF tvars
  <2> HIDE DEF TokenNext
  <2> QED BY <2>1, <2>2, <2>3 DEF TNext, RobotMoves
<1> QED BY <1>1, <1>2, TokenInvariance, PTL DEF TSpec, TokenSpec

-----------------------------------------------------------------------------
(* Bodies and tokens.                                                       *)

\* A robot on the move has the tokens of all its chain, whatever the manager
\* still sees of it; one that holds still has that of the zone it stands in.
DriveInv ==
  \A r \in Robots :
    /\ r \in stale => command[r] = "go"
    /\ command[r] = "new" => ~inside[r]
    /\ command[r] = "go" => \A z \in Ahead(r) : Held(holders, r, z)
    /\ \A z \in Body(r) : Held(holders, r, z)

LEMMA CycleDrive ==
  ASSUME TokenInv, DriveInv, Cycle
  PROVE  DriveInv'
<1> SUFFICES ASSUME NEW r \in Robots
             PROVE  /\ r \in stale' => command'[r] = "go"
                    /\ command'[r] # "new"
                    /\ command'[r] = "go" => \A z \in Ahead(r)' : Held(holders', r, z)
                    /\ \A z \in Body(r)' : Held(holders', r, z)
  BY DEF DriveInv
<1>1. PICK reg, G : CycleOf(reg, G, Observed)
  BY CycleTakenApart
<1> DEFINE h == Registered(reg, Observed)
<1> DEFINE Q == Queue(h, Observed)
<1>2. /\ G \subseteq Needy(Q)
      /\ Q.need[r] = {z \in Observed[r].req : ~Held(h, r, z)}
      /\ waits'[r] = IF r \in Needy(Q) \ G THEN Observed[r].req ELSE {}
      /\ \A z \in Zones :
           /\ Held(h, r, z) <=>
                <<r, z>> \in reg \/ (Held(holders, r, z) /\ <<r, z>> \notin Returned(Observed))
           /\ Held(holders', r, z) <=> Held(h, r, z) \/ (r \in G /\ z \in Q.need[r])
  BY <1>1, CycleHolders
<1>3. Needy(Q) = {q \in Robots : Q.need[q] # {}}
  BY DEF Needy
<1>4. /\ r \in stale =>
           Observed[r].occ = lastSeen[r] /\ Observed[r].req = {} /\ Observed[r].frozen
      /\ r \notin stale => Observed[r].occ = Body(r) /\ Observed[r].req = Ahead(r) \ Body(r)
  BY ObservedFacts DEF TokenInv
<1>5. \A z \in Zones : <<r, z>> \in Returned(Observed) =>
        z \notin Observed[r].occ /\ ~Observed[r].frozen
  BY DEF Returned
<1>6. Ahead(r)' = Ahead(r) /\ Body(r)' = Body(r) /\ stale' = stale
  BY DEF Cycle, motion, Ahead, Body
<1>7. Body(r) \subseteq Ahead(r) /\ Ahead(r) \subseteq Zones
  BY BodyAhead DEF TokenInv
<1>8. command'[r] = IF waits'[r] # {} THEN "hold" ELSE "go"
  BY DEF Cycle
<1> HIDE DEF h, Q
<1>9. \A z \in Body(r) : Held(holders, r, z)
  BY DEF DriveInv
<1>10. \A z \in Body(r) : Held(holders', r, z)
  BY <1>2, <1>4, <1>5, <1>7, <1>9
<1>11. CASE r \in stale
  <2>1. waits'[r] = {} /\ command'[r] = "go"
    BY <1>2, <1>4, <1>8, <1>11
  <2>2. \A z \in Ahead(r) : Held(holders, r, z)
    BY <1>11 DEF DriveInv
  <2>3. \A z \in Ahead(r) : Held(holders', r, z)
    BY <1>2, <1>4, <1>5, <1>7, <1>11, <2>2
  <2> QED BY <1>6, <1>10, <2>1, <2>3
<1>12. CASE r \notin stale
  <2>1. ASSUME command'[r] = "go", NEW z \in Ahead(r) \ Body(r) PROVE Held(holders', r, z)
    <3>1. z \in Zones /\ z \in Observed[r].req
      BY <1>4, <1>7, <1>12
    <3>2. waits'[r] = {}
      BY <1>8, <2>1
    <3>3. r \notin Needy(Q) \ G
      BY <1>2, <3>1, <3>2
    <3>4. CASE r \in G
      BY <1>2, <3>1, <3>4
    <3>5. CASE r \notin Needy(Q)
      BY <1>2, <1>3, <3>1, <3>5
    <3> QED BY <3>3, <3>4, <3>5
  <2> QED BY <1>6, <1>8, <1>10, <1>12, <2>1
<1> QED BY <1>11, <1>12

LEMMA MoveDrive ==
  ASSUME Silence # "any", TokenInv, DriveInv, NEW r \in Robots, RobotMoves(r)
  PROVE  DriveInv'
<1>t. /\ route \in [Robots -> Seq(Zones)] /\ inside \in [Robots -> BOOLEAN]
      /\ command \in [Robots -> {"new", "hold", "go"}]
      /\ \A q \in Robots : inside[q] => route[q] # <<>>
  BY DEF TokenInv, TTypeOK
<1>h. holders' = holders
  BY MoveTypes DEF TokenInv, vars
<1> SUFFICES ASSUME NEW q \in Robots
             PROVE  /\ q \in stale' => command'[q] = "go"
                    /\ command'[q] = "new" => ~inside'[q]
                    /\ command'[q] = "go" => \A z \in Ahead(q)' : Held(holders, q, z)
                    /\ \A z \in Body(q)' : Held(holders, q, z)
  BY <1>h DEF DriveInv, Held
<1>d. /\ q \in stale => command[q] = "go"
      /\ command[q] = "new" => ~inside[q]
      /\ command[q] = "go" => \A z \in Ahead(q) : Held(holders, q, z)
      /\ \A z \in Body(q) : Held(holders, q, z)
  BY DEF DriveInv
<1>0. CASE q # r
  <2>1. /\ route'[q] = route[q] /\ inside'[q] = inside[q] /\ command'[q] = command[q]
        /\ q \in stale' <=> q \in stale
    BY <1>t, <1>0 DEF RobotMoves, Approach, Enter, Leave, TurnAway, GoSilent, SeenAgain, motion
  <2>2. Ahead(q)' = Ahead(q) /\ Body(q)' = Body(q)
    BY <2>1 DEF Ahead, Body
  <2> QED BY <1>d, <2>1, <2>2
<1>1. CASE q = r /\ Approach(r)
  <2>1. /\ command'[q] = "new" /\ ~inside'[q] /\ q \notin stale'
    BY <1>t, <1>1 DEF Approach
  <2>2. Body(q)' = {}
    BY <2>1 DEF Body
  <2> QED BY <2>1, <2>2
<1>2. CASE q = r /\ Enter(r)
  <2>1. /\ command[q] = "go" /\ route' = route /\ command' = command /\ stale' = stale
        /\ inside'[q] /\ route[q] # <<>>
    BY <1>t, <1>2 DEF Enter
  <2>2. Ahead(q)' = Ahead(q) /\ Body(q)' = {Head(route[q])}
    BY <2>1 DEF Ahead, Body
  <2>3. Head(route[q]) \in Ahead(q)
    <3>1. Head(route[q]) = route[q][1] /\ 1 \in DOMAIN route[q]
      BY <1>t, <2>1, TailFacts
    <3> QED BY <3>1 DEF Ahead
  <2> QED BY <1>d, <2>1, <2>2, <2>3
<1>3. CASE q = r /\ Leave(r)
  <2>1. /\ command[q] = "go" /\ command' = command /\ stale' = stale /\ route[q] # <<>>
        /\ route'[q] = Tail(route[q]) /\ inside'[q] = (Len(route[q]) > 1)
    BY <1>t, <1>3 DEF Leave
  <2>2. /\ \A k \in DOMAIN Tail(route[q]) :
             k + 1 \in DOMAIN route[q] /\ Tail(route[q])[k] = route[q][k + 1]
        /\ Len(route[q]) > 1 => 1 \in DOMAIN Tail(route[q]) /\ Head(Tail(route[q])) = route[q][2]
    BY <1>t, <2>1, TailFacts
  <2>3. \A k \in DOMAIN route'[q] : route'[q][k] \in Ahead(q)
    BY <2>1, <2>2 DEF Ahead
  <2>4. \A z \in Ahead(q)' : z \in Ahead(q)
    BY <2>3 DEF Ahead
  <2>5. \A z \in Body(q)' : z \in Ahead(q)
    <3>1. \A z \in Body(q)' : Len(route[q]) > 1 /\ z = Head(Tail(route[q]))
      BY <2>1 DEF Body
    <3>2. Len(route[q]) > 1 => 1 + 1 \in DOMAIN route[q] /\ Head(Tail(route[q])) = route[q][2]
      BY <2>2
    <3>3. Len(route[q]) > 1 => Head(Tail(route[q])) \in Ahead(q)
      BY <3>2 DEF Ahead
    <3> QED BY <3>1, <3>3
  <2> QED BY <1>d, <2>1, <2>4, <2>5
<1>4. CASE q = r /\ TurnAway(r)
  <2>1. /\ route'[q] = <<>> /\ ~inside'[q] /\ command' = command /\ stale' = stale
    BY <1>t, <1>4 DEF TurnAway
  <2>2. Ahead(q)' = {} /\ Body(q)' = {}
    BY <2>1 DEF Ahead, Body
  <2> QED BY <1>d, <2>1, <2>2
<1>5. CASE q = r /\ (GoSilent(r) \/ SeenAgain(r))
  <2>1. /\ command' = command /\ route' = route /\ inside' = inside
        /\ q \in stale' => command[q] = "go"
    BY <1>5, <1>d, SilenceAssumption DEF GoSilent, SeenAgain, motion
  <2>2. Ahead(q)' = Ahead(q) /\ Body(q)' = Body(q)
    BY <2>1 DEF Ahead, Body
  <2> QED BY <1>d, <2>1, <2>2
<1> QED BY <1>0, <1>1, <1>2, <1>3, <1>4, <1>5 DEF RobotMoves

LEMMA DriveInitially == TInit => DriveInv
BY DEF TInit, DriveInv, Ahead, Body

LEMMA DriveSteps ==
  ASSUME Silence # "any"
  PROVE  TokenInv /\ DriveInv /\ [TNext]_tvars => DriveInv'
<1> SUFFICES ASSUME TokenInv, DriveInv, [TNext]_tvars PROVE DriveInv'
  OBVIOUS
<1>1. CASE Cycle
  BY <1>1, CycleDrive
<1>2. ASSUME NEW r \in Robots, RobotMoves(r) PROVE DriveInv'
  BY <1>2, MoveDrive
<1>3. CASE UNCHANGED tvars
  BY <1>3 DEF tvars, vars, motion, DriveInv, Ahead, Body, Held
<1> QED BY <1>1, <1>2, <1>3 DEF TNext, RobotMoves

LEMMA DrivesApart == TokenInv /\ DriveInv => BodiesApart
<1> SUFFICES ASSUME TokenInv, DriveInv, NEW r \in Robots, NEW q \in Robots, r # q,
                    NEW z \in Body(r) \cap Body(q)
             PROVE  FALSE
  BY DEF BodiesApart
<1>1. z \in Zones
  BY BodyAhead DEF TokenInv
<1>2. Held(holders, r, z) /\ Held(holders, q, z)
  BY DEF DriveInv
<1> QED BY <1>1, <1>2, OneHolder DEF TokenInv

(* No two robots are ever in one zone, whatever chains they drive, as long  *)
(* as a robot whose observations stop was free to go.                       *)
THEOREM BodiesStayApart ==
  ASSUME Silence # "any"
  PROVE  TSpec => []BodiesApart
BY TokenInvariance, DriveInitially, DriveSteps, DrivesApart, PTL DEF TSpec

-----------------------------------------------------------------------------
(* The causes of waits.                                                     *)

\* A robot keeps the token of the zone it was last seen in until the next cycle.
SeenInv == \A r \in Robots : \A z \in lastSeen[r] : Held(holders, r, z)

LEMMA CycleSeen ==
  ASSUME TokenInv, DriveInv, SeenInv, Cycle, NEW reg, NEW G, CycleOf(reg, G, Observed),
         NEW q \in Robots, NEW z \in lastSeen'[q]
  PROVE  /\ z \in Zones /\ Held(Registered(reg, Observed), q, z)
         /\ Held(holders', q, z)
<1>1. lastSeen'[q] = IF q \in stale THEN lastSeen[q] ELSE Body(q)
  BY DEF Cycle
<1>2. z \in Observed[q].occ
  BY <1>1, ObservedFacts DEF TokenInv
<1>3. z \in Zones
  BY <1>1, BodyAhead DEF TokenInv, TTypeOK
<1>4. Held(holders, q, z)
  BY <1>1 DEF SeenInv, DriveInv
<1>5. <<q, z>> \notin Returned(Observed)
  BY <1>2 DEF Returned
<1> QED BY <1>3, <1>4, <1>5, CycleHolders

LEMMA CycleExplainsWaits ==
  ASSUME TokenInv, DriveInv, SeenInv, Cycle
  PROVE  SeenInv' /\ WaitExplained'
<1>1. PICK reg, G : CycleOf(reg, G, Observed)
  BY CycleTakenApart
<1> DEFINE h == Registered(reg, Observed)
<1> DEFINE Q == Queue(h, Observed)
<1> DEFINE order == Order(Q, Observed)
<1>2. \A q \in Robots : \A z \in lastSeen'[q] : z \in Zones /\ Held(h, q, z) /\ Held(holders', q, z)
  BY <1>1, CycleSeen
<1>3. SeenInv'
  BY <1>2 DEF SeenInv
<1>4. CausesTrue'
  <2>1. TypeOK /\ AgeOrder /\ Observed \in [Robots -> ViewType]
    BY ObservedFacts DEF TokenInv, TTypeOK
  <2> QED BY <1>1, <2>1, CycleNames DEF CausesTrue
<1>5. ASSUME NEW r \in Robots, NEW q \in Robots, r # q, NEW z \in waits'[r] \cap lastSeen'[q]
      PROVE  q \in blockers'[r]
  <2>1. z \in Zones /\ Held(h, q, z) /\ Held(holders', q, z)
    BY <1>2, <1>5
  <2>2. /\ Q.need[r] = {y \in Observed[r].req : ~Held(h, r, y)}
        /\ waits'[r] = IF r \in Needy(Q) \ G THEN Observed[r].req ELSE {}
        /\ Held(h, r, z) => Held(holders', r, z)
    BY <1>1, <2>1, CycleHolders
  <2>3. ~Held(holders', r, z)
    <3>1. Undirected' /\ Exclusive'
      BY CycleTokens DEF TokenInv
    <3>2. ASSUME Held(holders', r, z) PROVE FALSE
      <4>1. holders'[z][r] = NoDirection /\ holders'[z][q] = NoDirection
        BY <2>1, <3>1, <3>2 DEF Undirected, Held
      <4>2. Sharable(z, holders'[z][r], holders'[z][q])
        BY <1>5, <2>1, <3>1, <3>2 DEF Exclusive
      <4> QED BY <4>1, <4>2, DirectionsAssumption DEF Sharable
    <3> QED BY <3>2
  <2>4. r \in Needy(Q) \ G /\ z \in Q.need[r]
    BY <1>5, <2>2, <2>3
  <2>5. blockers'[r] = BlockersOf(h, Q, G, order, Observed, r)
    BY <1>1, <2>4 DEF CycleOf, Settle
  <2>6. ~Free(h, Q, G, order, Observed, r, z)
    <3>1. Observed[r].dir[z] = NoDirection
      BY <2>1, ObservedFacts DEF TokenInv
    <3>2. ~Sharable(z, h[z][q], Observed[r].dir[z])
      BY <3>1, DirectionsAssumption DEF Sharable
    <3>3. ~Compatible(h, z, r, Observed[r].dir[z])
      BY <1>5, <2>1, <3>2 DEF Compatible
    <3> QED BY <3>3 DEF Free
  <2> HIDE DEF h, Q, order
  <2> QED BY <1>5, <2>1, <2>4, <2>5, <2>6 DEF BlockersOf
<1> QED BY <1>3, <1>4, <1>5 DEF WaitExplained

LEMMA WaitSteps ==
  ASSUME Silence # "any"
  PROVE  TokenInv /\ DriveInv /\ SeenInv /\ WaitExplained /\ [TNext]_tvars
           => SeenInv' /\ WaitExplained'
<1> SUFFICES ASSUME TokenInv, DriveInv, SeenInv, WaitExplained, [TNext]_tvars
             PROVE  SeenInv' /\ WaitExplained'
  OBVIOUS
<1>1. CASE Cycle
  BY <1>1, CycleExplainsWaits
<1>2. CASE UNCHANGED <<vars, lastSeen>>
  <2>1. SeenInv'
    BY <1>2 DEF vars, SeenInv, Held
  <2>2. WaitExplained'
    BY <1>2 DEF vars, WaitExplained, CausesTrue, Held
  <2> QED BY <2>1, <2>2
<1>3. ASSUME NEW r \in Robots, RobotMoves(r) PROVE UNCHANGED <<vars, lastSeen>>
  BY <1>3 DEF RobotMoves, Approach, Enter, Leave, TurnAway, GoSilent, SeenAgain, motion
<1>4. CASE UNCHANGED tvars
  BY <1>2, <1>4 DEF tvars
<1> QED BY <1>1, <1>2, <1>3, <1>4 DEF TNext, RobotMoves

(* Whoever waits names a cause, every cause named is a true one, and nobody *)
(* seen in a zone that is waited for is left out, in every state and        *)
(* whatever chains are driven, as long as a robot whose observations stop   *)
(* was free to go.                                                          *)
THEOREM WaitsExplained ==
  ASSUME Silence # "any"
  PROVE  TSpec => []WaitExplained
<1>1. TInit => SeenInv /\ WaitExplained
  BY DEF TInit, Init, SeenInv, WaitExplained, CausesTrue
<1>2. TSpec => []DriveInv
  BY TokenInvariance, DriveInitially, DriveSteps, PTL DEF TSpec
<1> QED BY <1>1, <1>2, WaitSteps, TokenInvariance, PTL DEF TSpec

-----------------------------------------------------------------------------
(* How often a wait is overtaken.                                           *)

\* Robots that began to wait no later than r.
Peers(r) == {q \in Robots \ {r} : waits[q] # {} /\ <<r, q>> \notin before}

\* Every grant past r is either counted as an overtaking or went to a peer,
\* and each peer is served once before it could only come back behind r.
CountInv ==
  \A r \in Robots :
    IF waits[r] = {} THEN ahead[r] = 0
    ELSE ahead[r] + Cardinality(Peers(r)) <= bypassed[r] + Cardinality(Robots \ {r})

\* A new token for a zone r waits for was granted, and r does not hold it.
LEMMA GrantsGranted ==
  ASSUME TokenInv, TokenInv', Cycle, NEW reg, NEW G, CycleOf(reg, G, Observed),
         NEW r \in Robots, NEW q \in Grants(r)
  PROVE  LET Q == Queue(Registered(reg, Observed), Observed)
         IN  q \in G /\ q # r /\ Q.need[q] \cap Q.need[r] # {}
<1> DEFINE h == Registered(reg, Observed)
<1> DEFINE Q == Queue(h, Observed)
<1>1. PICK z \in waits'[r] \ ViewOf(q).occ : ~Held(holders, q, z) /\ Held(holders', q, z)
  BY DEF Grants
<1>2. q \in Robots /\ q # r
  BY DEF Grants
<1>3. z \in Zones
  BY DEF TokenInv, TTypeOK, TypeOK
<1>4. \A o \in Robots :
        /\ Q.need[o] = {y \in Observed[o].req : ~Held(h, o, y)}
        /\ waits'[o] = IF o \in Needy(Q) \ G THEN Observed[o].req ELSE {}
        /\ Held(h, o, z) <=>
             <<o, z>> \in reg \/ (Held(holders, o, z) /\ <<o, z>> \notin Returned(Observed))
        /\ Held(holders', o, z) <=> Held(h, o, z) \/ (o \in G /\ z \in Q.need[o])
        /\ <<o, z>> \in reg => z \in Observed[o].occ
  BY <1>3, CycleHolders
<1>5. Observed[q] = ViewOf(q)
  BY <1>2 DEF Observed
<1> HIDE DEF h, Q
<1>6. q \in G /\ z \in Q.need[q]
  BY <1>1, <1>2, <1>4, <1>5
<1>7. ~Held(h, r, z)
  <2> SUFFICES ASSUME Held(h, r, z) PROVE FALSE
    OBVIOUS
  <2>1. Held(holders', r, z) /\ Held(holders', q, z)
    BY <1>1, <1>4
  <2>2. Undirected' /\ Exclusive'
    BY DEF TokenInv
  <2>3. \A y \in Zones, a, b \in Robots :
          Held(holders, a, y) /\ Held(holders, b, y) /\ Undirected /\ Exclusive => a = b
    BY OneHolder
  <2>4. holders'[z][r] = NoDirection /\ holders'[z][q] = NoDirection
    BY <1>2, <1>3, <2>1, <2>2 DEF Undirected, Held
  <2>5. Sharable(z, holders'[z][r], holders'[z][q])
    BY <1>2, <1>3, <2>1, <2>2 DEF Exclusive
  <2>6. <<NoDirection, NoDirection>> \in Aligned
    BY <2>4, <2>5 DEF Sharable
  <2> QED BY <2>6, DirectionsAssumption
<1>8. z \in Q.need[r]
  BY <1>1, <1>4, <1>7
<1> QED BY <1>2, <1>6, <1>8 DEF h, Q

\* Disjoint parts of a set of robots count to no more than the set.
LEMMA DisjointCount ==
  ASSUME NEW A \in SUBSET Robots, NEW B \in SUBSET Robots, NEW C \in SUBSET Robots,
         A \cup B \subseteq C, A \cap B = {}
  PROVE  Cardinality(A) + Cardinality(B) <= Cardinality(C)
<1>1. /\ IsFiniteSet(A) /\ IsFiniteSet(B) /\ IsFiniteSet(C)
      /\ Cardinality(A) \in Nat /\ Cardinality(B) \in Nat /\ Cardinality(C) \in Nat
  BY RobotCount
<1>2. Cardinality(A \cup B) = Cardinality(A) + Cardinality(B) - Cardinality(A \cap B)
  BY <1>1, FS_Union
<1>3. Cardinality(A \cap B) = 0
  BY FS_EmptySet
<1>4. Cardinality(A \cup B) <= Cardinality(C)
  BY <1>1, FS_Subset
<1> QED BY <1>1, <1>2, <1>3, <1>4

LEMMA CycleCount ==
  ASSUME TokenInv, TokenInv', CountInv, Cycle
  PROVE  CountInv'
<1> SUFFICES ASSUME NEW r \in Robots
             PROVE  IF waits'[r] = {} THEN ahead'[r] = 0
                    ELSE ahead'[r] + Cardinality(Peers(r)')
                           <= bypassed'[r] + Cardinality(Robots \ {r})
  BY DEF CountInv
<1>1. PICK reg, G : CycleOf(reg, G, Observed)
  BY CycleTakenApart
<1> DEFINE Q == Queue(Registered(reg, Observed), Observed)
<1> DEFINE refused == Needy(Q) \ G
<1> DEFINE over == Overtakers(Q, G, r)
<1>2. /\ G \subseteq Needy(Q) /\ Needy(Q) \subseteq Robots
      /\ before' = Q.older \cap (refused \X refused)
      /\ \A a, b : <<a, b>> \in Q.older <=>
           \/ a \in GoingOn(Q, Observed) /\ b \in GoingOn(Q, Observed) /\ <<a, b>> \in before
           \/ a \in GoingOn(Q, Observed) /\ b \in Needy(Q) \ GoingOn(Q, Observed)
      /\ \A a \in Robots :
           /\ Q.count[a] = IF a \in GoingOn(Q, Observed) THEN bypassed[a] ELSE 0
           /\ waits'[a] # {} <=> a \in refused
           /\ waits'[a] = IF a \in refused THEN Observed[a].req ELSE {}
           /\ bypassed'[a] = IF a \in refused
                THEN Q.count[a] + Cardinality(Overtakers(Q, G, a)) ELSE 0
  BY <1>1, CycleWaits
<1>3. \A q \in Grants(r) : q \in G /\ q # r /\ Q.need[q] \cap Q.need[r] # {}
  BY <1>1, GrantsGranted
<1>4. \A q : q \in over <=> q \in G /\ Q.need[q] \cap Q.need[r] # {} /\ <<r, q>> \in Q.older
  BY DEF Overtakers
<1>5. \A q : q \in GoingOn(Q, Observed) => q \in Needy(Q) /\ waits[q] # {}
  BY DEF GoingOn
<1>6. r \in Needy(Q) => (r \in GoingOn(Q, Observed) <=> waits[r] \cap Observed[r].req # {})
  BY DEF GoingOn
<1>7. ahead'[r] = IF waits'[r] = {} THEN 0
                  ELSE (IF waits[r] \cap waits'[r] # {} THEN ahead[r] ELSE 0)
                       + Cardinality(Grants(r))
  BY DEF Cycle
<1> HIDE DEF Q, refused, over
<1>8. \A q : q \in Peers(r)' <=> q \in Robots \ {r} /\ q \in refused /\ <<r, q>> \notin before'
  BY <1>2 DEF Peers
<1>9. CASE r \notin refused
  BY <1>2, <1>7, <1>9
<1>10. CASE r \in refused
  <2> DEFINE others == Grants(r) \ over
  <2>1. over \subseteq G /\ refused \subseteq Robots /\ refused \cap G = {} /\ refused \subseteq Needy(Q)
    BY <1>2, <1>4 DEF refused
  <2>2. Peers(r)' \subseteq refused
    BY <1>8
  <2>3. Grants(r) \subseteq G /\ G \subseteq Robots /\ r \notin Grants(r)
    BY <1>2, <1>3
  <2>4. \A q \in others : <<r, q>> \notin Q.older /\ q \in Needy(Q) /\ q # r
    BY <1>2, <1>3, <1>4
  <2>5. \A q \in Peers(r)' : <<r, q>> \notin Q.older /\ q \in Needy(Q) /\ q # r
    BY <1>2, <1>8, <1>10, <2>1
  <2>6. others \cap Peers(r)' = {}
    BY <2>1, <2>2, <2>3
  <2>7. /\ over \in SUBSET Robots /\ others \in SUBSET Robots /\ Peers(r)' \in SUBSET Robots
        /\ Grants(r) \in SUBSET Robots /\ Peers(r) \in SUBSET Robots
    BY <2>1, <2>2, <2>3 DEF Peers
  <2>8. /\ Cardinality(over) \in Nat /\ Cardinality(others) \in Nat
        /\ Cardinality(Peers(r)') \in Nat /\ Cardinality(Peers(r)) \in Nat
        /\ Cardinality(Grants(r)) \in Nat /\ Cardinality(Robots \ {r}) \in Nat
    <3>1. \A S \in SUBSET Robots : Cardinality(S) \in Nat
      BY RobotCount
    <3> QED BY <2>7, <3>1
  <2>9. waits'[r] = Observed[r].req /\ waits'[r] # {}
    BY <1>2, <1>10
  <2>10. bypassed'[r] = Q.count[r] + Cardinality(over)
    BY <1>2, <1>10 DEF over
  <2>11. ahead[r] \in Nat /\ bypassed[r] \in Nat
    BY DEF TokenInv, TTypeOK, TypeOK
  <2> HIDE DEF others
  <2>12. CASE r \in GoingOn(Q, Observed)
    <3>1. ahead'[r] = ahead[r] + Cardinality(Grants(r))
      BY <1>6, <1>7, <1>10, <2>1, <2>9, <2>12
    <3>2. bypassed'[r] = bypassed[r] + Cardinality(over)
      BY <1>2, <2>10, <2>12
    <3>3. ahead[r] + Cardinality(Peers(r)) <= bypassed[r] + Cardinality(Robots \ {r})
      BY <1>5, <2>12 DEF CountInv
    <3>4. Cardinality(Grants(r)) <= Cardinality(over) + Cardinality(others)
      <4>1. IsFiniteSet(over) /\ IsFiniteSet(others)
        BY <2>7, RobotCount
      <4>2. /\ Cardinality(over \cup others)
                 = Cardinality(over) + Cardinality(others) - Cardinality(over \cap others)
            /\ IsFiniteSet(over \cup others)
        BY <4>1, FS_Union
      <4>3. Grants(r) \subseteq over \cup others /\ over \cap others = {}
        BY DEF others
      <4>4. Cardinality(over \cap others) = 0
        BY <4>3, FS_EmptySet
      <4>5. Cardinality(Grants(r)) <= Cardinality(over \cup others)
        BY <4>2, <4>3, FS_Subset
      <4> QED BY <2>8, <4>2, <4>4, <4>5
    <3>5. Cardinality(others) + Cardinality(Peers(r)') <= Cardinality(Peers(r))
      <4>1. \A q \in Needy(Q) : q # r /\ <<r, q>> \notin Q.older => q \in Peers(r)
        BY <1>2, <1>5, <2>12 DEF Peers
      <4>2. others \cup Peers(r)' \subseteq Peers(r)
        BY <2>4, <2>5, <4>1
      <4> QED BY <2>6, <2>7, <4>2, DisjointCount
    <3> QED BY <2>8, <2>9, <2>11, <3>1, <3>2, <3>3, <3>4, <3>5
  <2>13. CASE r \notin GoingOn(Q, Observed)
    <3>1. ahead'[r] = Cardinality(Grants(r))
      BY <1>6, <1>7, <1>10, <2>1, <2>8, <2>9, <2>13
    <3>2. bypassed'[r] \in Nat
      BY <1>2, <2>8, <2>10, <2>13
    <3>3. Cardinality(Grants(r)) + Cardinality(Peers(r)') <= Cardinality(Robots \ {r})
      <4>1. Grants(r) \cap Peers(r)' = {}
        BY <2>1, <2>2, <2>3
      <4>2. Grants(r) \cup Peers(r)' \subseteq Robots \ {r}
        BY <1>8, <2>3
      <4>3. Robots \ {r} \in SUBSET Robots
        OBVIOUS
      <4> QED BY <2>7, <4>1, <4>2, <4>3, DisjointCount
    <3> QED BY <2>8, <2>9, <3>1, <3>2, <3>3
  <2> QED BY <2>12, <2>13
<1> QED BY <1>9, <1>10

LEMMA CountSteps == TokenInv /\ TokenInv' /\ CountInv /\ [TNext]_tvars => CountInv'
<1> SUFFICES ASSUME TokenInv, TokenInv', CountInv, [TNext]_tvars PROVE CountInv'
  OBVIOUS
<1>1. CASE Cycle
  BY <1>1, CycleCount
<1>2. ASSUME UNCHANGED <<vars, ahead>> PROVE CountInv'
  BY <1>2 DEF vars, CountInv, Peers
<1>3. ASSUME NEW r \in Robots, RobotMoves(r) PROVE UNCHANGED <<vars, ahead>>
  BY <1>3 DEF RobotMoves, Approach, Enter, Leave, TurnAway, GoSilent, SeenAgain
<1>4. UNCHANGED tvars => UNCHANGED <<vars, ahead>>
  BY DEF tvars
<1> QED BY <1>1, <1>2, <1>3, <1>4 DEF TNext, RobotMoves

(* However many robots there are and however their priorities lie, a        *)
(* waiting robot sees at most this many grants of its zones to others.      *)
THEOREM OvertakingBounded == TSpec => []OvertakeBound
<1>1. TInit => CountInv
  BY DEF TInit, Init, CountInv
<1>2. TokenInv /\ CountInv => OvertakeBound
  <2> SUFFICES ASSUME TokenInv, CountInv, NEW r \in Robots
               PROVE  ahead[r] <= (IF MaxBypass = 0 THEN 0
                                   ELSE MaxBypass - 1 + Cardinality(Robots \ {r}))
                                  + Cardinality(Robots \ {r})
    BY DEF OvertakeBound
  <2>1. /\ Cardinality(Robots \ {r}) \in Nat /\ Cardinality(Peers(r)) \in Nat
        /\ ahead[r] \in Nat /\ bypassed[r] \in Nat
    BY RobotCount DEF TokenInv, TTypeOK, TypeOK, Peers
  <2>2. bypassed[r] <= IF MaxBypass = 0 THEN 0
                       ELSE MaxBypass - 1 + Cardinality(Robots \ {r})
    BY DEF TokenInv, BypassBound
  <2>3. \/ ahead[r] = 0
        \/ ahead[r] + Cardinality(Peers(r)) <= bypassed[r] + Cardinality(Robots \ {r})
    BY DEF CountInv
  <2> QED BY <2>1, <2>2, <2>3, MaxBypassAssumption
<1> QED BY <1>1, <1>2, CountSteps, TokenInvariance, PTL DEF TSpec

-----------------------------------------------------------------------------
(* All or nothing: a robot that waits for a chain holds nothing.            *)

EachOnce ==
  \A r \in Robots : \A chain \in Chains[r] : \A i, j \in DOMAIN chain :
    chain[i] = chain[j] => i = j

\* Tokens of zones ahead are unused while the robot is free to go, so that no
\* cycle takes them back; what a new chain finds held goes back in one cycle.
ChainInv ==
  \A r \in Robots :
    /\ command[r] = "hold" <=> waits[r] # {}
    /\ waits[r] # {} => \A z \in Zones : ~Held(holders, r, z)
    /\ command[r] = "new" => \A z \in Zones : Held(holders, r, z) => <<r, z>> \in entered
    /\ command[r] = "go" =>
         \A z \in Ahead(r) \ Body(r) : <<r, z>> \notin entered /\ z \notin lastSeen[r]
    /\ \A i, j \in DOMAIN route[r] : route[r][i] = route[r][j] => i = j

\* What a cycle knows of one robot.
LEMMA RobotInCycle ==
  ASSUME TokenInv, DriveInv, ChainInv, Cycle, NEW reg, NEW G, CycleOf(reg, G, Observed),
         NEW r \in Robots
  PROVE  LET h == Registered(reg, Observed)
             Q == Queue(h, Observed)
         IN  /\ r \in Needy(Q) \ G => \A z \in Zones : ~Held(h, r, z)
             /\ r \in stale \/ command[r] = "go" =>
                  r \notin Needy(Q) /\ \A z \in Ahead(r) \ Body(r) : <<r, z>> \notin entered'
             /\ r \notin stale /\ command[r] # "go" => \A z \in Zones : <<r, z>> \notin entered'
<1> DEFINE v == Observed
<1> DEFINE h == Registered(reg, v)
<1> DEFINE Q == Queue(h, v)
<1>1. /\ Q.need[r] = {z \in v[r].req : ~Held(h, r, z)}
      /\ \A z \in Zones :
           /\ Held(h, r, z) <=>
                <<r, z>> \in reg \/ (Held(holders, r, z) /\ <<r, z>> \notin Returned(v))
           /\ <<r, z>> \in reg => z \in v[r].occ
  BY CycleHolders
<1>2. r \in Needy(Q) => Q.need[r] # {}
  BY DEF Needy
<1>3. /\ r \in stale => v[r].occ = lastSeen[r] /\ v[r].req = {} /\ v[r].frozen
      /\ r \notin stale =>
           /\ v[r].occ = Body(r) /\ v[r].upc = Ahead(r)
           /\ v[r].req = Ahead(r) \ Body(r) /\ ~v[r].frozen
  BY ObservedFacts DEF TokenInv
<1>4. \A z \in Zones : <<r, z>> \in Returned(v) <=>
        /\ Held(holders, r, z) /\ z \notin v[r].occ /\ ~v[r].frozen
        /\ <<r, z>> \in entered \/ z \notin v[r].upc
  BY DEF Returned
<1>5. \A z \in Zones : <<r, z>> \in entered' <=>
        \/ <<r, z>> \in entered /\ <<r, z>> \notin Returned(v)
        \/ <<r, z>> \in reg
        \/ Held(holders, r, z) /\ z \in v[r].occ
  BY DEF CycleOf, EnteredAfter
<1>6. Body(r) \subseteq Ahead(r) /\ Ahead(r) \subseteq Zones
  BY BodyAhead DEF TokenInv
<1>7. /\ r \in stale => command[r] = "go"
      /\ command[r] = "new" => ~inside[r]
      /\ command[r] = "go" => \A z \in Ahead(r) : Held(holders, r, z)
      /\ \A z \in Body(r) : Held(holders, r, z)
  BY DEF DriveInv
<1>8. /\ command[r] = "hold" <=> waits[r] # {}
      /\ waits[r] # {} => \A z \in Zones : ~Held(holders, r, z)
      /\ command[r] = "new" => \A z \in Zones : Held(holders, r, z) => <<r, z>> \in entered
      /\ command[r] = "go" =>
           \A z \in Ahead(r) \ Body(r) : <<r, z>> \notin entered /\ z \notin lastSeen[r]
  BY DEF ChainInv
<1>9. command[r] \in {"new", "hold", "go"}
  BY DEF TokenInv, TTypeOK
<1>10. \A z \in Zones : <<r, z>> \in entered => Held(holders, r, z)
  BY DEF TokenInv, EnteredHeld
<1> HIDE DEF v, h, Q
<1>11. ASSUME r \in stale \/ command[r] = "go"
       PROVE  r \notin Needy(Q) /\ \A z \in Ahead(r) \ Body(r) : <<r, z>> \notin entered'
  <2>1. command[r] = "go"
    BY <1>7, <1>11
  <2>2. CASE r \in stale
    BY <1>1, <1>2, <1>3, <1>5, <1>6, <1>8, <2>1, <2>2
  <2>3. CASE r \notin stale
    <3>1. \A z \in Ahead(r) \ Body(r) : <<r, z>> \notin entered'
      BY <1>1, <1>3, <1>5, <1>6, <1>8, <2>1, <2>3
    <3>2. \A z \in Ahead(r) \ Body(r) : Held(h, r, z)
      BY <1>1, <1>3, <1>4, <1>6, <1>7, <1>8, <2>1, <2>3
    <3> QED BY <1>1, <1>2, <1>3, <2>3, <3>1, <3>2
  <2> QED BY <2>2, <2>3
<1>12. ASSUME r \notin stale, command[r] # "go"
       PROVE  \A z \in Zones : ~Held(h, r, z) /\ <<r, z>> \notin entered'
  <2>1. Body(r) = {}
    <3>1. CASE command[r] = "new"
      BY <1>7, <3>1 DEF Body
    <3>2. CASE command[r] = "hold"
      BY <1>6, <1>7, <1>8, <3>2
    <3> QED BY <1>9, <1>12, <3>1, <3>2
  <2>2. \A z \in Zones : Held(holders, r, z) => <<r, z>> \in entered
    BY <1>8, <1>9, <1>12
  <2>3. \A z \in Zones : Held(holders, r, z) => <<r, z>> \in Returned(v)
    BY <1>3, <1>4, <1>12, <2>1, <2>2
  <2> QED BY <1>1, <1>3, <1>5, <1>10, <1>12, <2>1, <2>3
<1>13. r \in Needy(Q) \ G => \A z \in Zones : ~Held(h, r, z)
  BY <1>11, <1>12
<1> QED BY <1>11, <1>12, <1>13 DEF v, h, Q

LEMMA CycleChain ==
  ASSUME TokenInv, DriveInv, ChainInv, Cycle
  PROVE  ChainInv'
<1> SUFFICES ASSUME NEW r \in Robots
    PROVE  /\ command'[r] = "hold" <=> waits'[r] # {}
           /\ waits'[r] # {} => \A z \in Zones : ~Held(holders', r, z)
           /\ command'[r] # "new"
           /\ command'[r] = "go" =>
                \A z \in Ahead(r)' \ Body(r)' : <<r, z>> \notin entered' /\ z \notin lastSeen'[r]
           /\ \A i, j \in DOMAIN route'[r] : route'[r][i] = route'[r][j] => i = j
  BY DEF ChainInv
<1>1. PICK reg, G : CycleOf(reg, G, Observed)
  BY CycleTakenApart
<1> DEFINE h == Registered(reg, Observed)
<1> DEFINE Q == Queue(h, Observed)
<1>2. /\ r \in Needy(Q) \ G => \A z \in Zones : ~Held(h, r, z)
      /\ r \in stale \/ command[r] = "go" =>
           r \notin Needy(Q) /\ \A z \in Ahead(r) \ Body(r) : <<r, z>> \notin entered'
      /\ r \notin stale /\ command[r] # "go" => \A z \in Zones : <<r, z>> \notin entered'
  BY <1>1, RobotInCycle
<1>3. /\ waits'[r] = IF r \in Needy(Q) \ G THEN Observed[r].req ELSE {}
      /\ \A z \in Zones : Held(holders', r, z) <=> Held(h, r, z) \/ (r \in G /\ z \in Q.need[r])
  BY <1>1, CycleHolders
<1>4. Ahead(r)' = Ahead(r) /\ Body(r)' = Body(r) /\ route' = route
  BY DEF Cycle, motion, Ahead, Body
<1>5. /\ command'[r] = IF waits'[r] # {} THEN "hold" ELSE "go"
      /\ lastSeen'[r] = IF r \in stale THEN lastSeen[r] ELSE Body(r)
  BY DEF Cycle
<1>6. Ahead(r) \subseteq Zones
  BY BodyAhead DEF TokenInv
<1>7. r \in stale => \A z \in Ahead(r) \ Body(r) : z \notin lastSeen[r]
  BY DEF ChainInv, DriveInv
<1>8. \A i, j \in DOMAIN route[r] : route[r][i] = route[r][j] => i = j
  BY DEF ChainInv
<1> HIDE DEF h, Q
<1>9. waits'[r] # {} => \A z \in Zones : ~Held(holders', r, z)
  BY <1>2, <1>3
<1>10. \A z \in Ahead(r) \ Body(r) : <<r, z>> \notin entered'
  BY <1>2, <1>6
<1>11. \A z \in Ahead(r) \ Body(r) : z \notin lastSeen'[r]
  BY <1>5, <1>7
<1> QED BY <1>4, <1>5, <1>8, <1>9, <1>10, <1>11

LEMMA MoveChain ==
  ASSUME EachOnce, TokenInv, ChainInv, NEW r \in Robots, RobotMoves(r)
  PROVE  ChainInv'
<1>t. /\ route \in [Robots -> Seq(Zones)] /\ inside \in [Robots -> BOOLEAN]
      /\ command \in [Robots -> {"new", "hold", "go"}]
      /\ \A q \in Robots : inside[q] => route[q] # <<>>
  BY DEF TokenInv, TTypeOK
<1>h. /\ holders' = holders /\ waits' = waits /\ entered' = entered
      /\ lastSeen' = lastSeen
  BY MoveTypes DEF TokenInv, vars, RobotMoves, Approach, Enter, Leave, TurnAway, GoSilent, SeenAgain
<1> SUFFICES ASSUME NEW q \in Robots
    PROVE  /\ command'[q] = "hold" <=> waits[q] # {}
           /\ command'[q] = "new" => \A z \in Zones : Held(holders, q, z) => <<q, z>> \in entered
           /\ command'[q] = "go" =>
                \A z \in Ahead(q)' \ Body(q)' : <<q, z>> \notin entered /\ z \notin lastSeen[q]
           /\ \A i, j \in DOMAIN route'[q] : route'[q][i] = route'[q][j] => i = j
  BY <1>h DEF ChainInv, Held
<1>d. /\ command[q] = "hold" <=> waits[q] # {}
      /\ command[q] = "new" => \A z \in Zones : Held(holders, q, z) => <<q, z>> \in entered
      /\ command[q] = "go" =>
           \A z \in Ahead(q) \ Body(q) : <<q, z>> \notin entered /\ z \notin lastSeen[q]
      /\ \A i, j \in DOMAIN route[q] : route[q][i] = route[q][j] => i = j
  BY DEF ChainInv
<1>0. CASE q # r \/ GoSilent(r) \/ SeenAgain(r)
  <2>1. route'[q] = route[q] /\ inside'[q] = inside[q] /\ command'[q] = command[q]
    BY <1>t, <1>0 DEF RobotMoves, Approach, Enter, Leave, TurnAway, GoSilent, SeenAgain, motion
  <2>2. Ahead(q)' = Ahead(q) /\ Body(q)' = Body(q)
    BY <2>1 DEF Ahead, Body
  <2> QED BY <1>d, <2>1, <2>2
<1>1. CASE q = r /\ Approach(r)
  <2>1. /\ command[q] = "go" /\ command'[q] = "new" /\ route'[q] \in Chains[q]
        /\ \A z \in Zones : Held(holders, q, z) => <<q, z>> \in entered
    BY <1>t, <1>1 DEF Approach
  <2>2. \A i, j \in DOMAIN route'[q] : route'[q][i] = route'[q][j] => i = j
    BY <2>1 DEF EachOnce
  <2> QED BY <1>d, <2>1, <2>2
<1>2. CASE q = r /\ Enter(r)
  <2>1. route' = route /\ command' = command /\ ~inside[q]
    BY <1>2 DEF Enter
  <2>2. Ahead(q)' = Ahead(q) /\ Body(q) = {}
    BY <2>1 DEF Ahead, Body
  <2> QED BY <1>d, <2>1, <2>2
<1>3. CASE q = r /\ Leave(r)
  <2>1. /\ command[q] = "go" /\ command' = command /\ route[q] # <<>> /\ inside[q]
        /\ route'[q] = Tail(route[q]) /\ inside'[q] = (Len(route[q]) > 1)
    BY <1>t, <1>3 DEF Leave
  <2>2. /\ \A k \in DOMAIN Tail(route[q]) :
             k + 1 \in DOMAIN route[q] /\ Tail(route[q])[k] = route[q][k + 1]
        /\ DOMAIN Tail(route[q]) = 1 .. (Len(route[q]) - 1)
        /\ Len(route[q]) > 1 => Head(Tail(route[q])) = route[q][2]
        /\ Head(route[q]) = route[q][1] /\ 1 \in DOMAIN route[q]
    BY <1>t, <2>1, TailFacts
  <2>3. \A i, j \in DOMAIN route'[q] : route'[q][i] = route'[q][j] => i = j
    <3>1. \A i, j \in DOMAIN route'[q] : route'[q][i] = route'[q][j] => i + 1 = j + 1
      BY <1>d, <2>1, <2>2
    <3>2. \A i \in DOMAIN route'[q] : i \in Int
      BY <2>1, <2>2
    <3> QED BY <3>1, <3>2
  <2>4. Body(q) = {route[q][1]}
    BY <2>1, <2>2 DEF Body
  <2>5. \A k \in DOMAIN route'[q] : route'[q][k] \in Ahead(q) \ Body(q)
    <3>1. \A k \in DOMAIN route'[q] : k \in Int /\ k >= 1 /\ k + 1 \in DOMAIN route[q]
            /\ route'[q][k] = route[q][k + 1]
      BY <2>1, <2>2
    <3>2. \A k \in DOMAIN route'[q] : route'[q][k] # route[q][1]
      BY <1>d, <2>2, <3>1
    <3>3. \A k \in DOMAIN route'[q] : route'[q][k] \in Ahead(q)
      BY <3>1 DEF Ahead
    <3> QED BY <2>4, <3>2, <3>3
  <2>6. \A z \in Ahead(q)' : z \in Ahead(q) \ Body(q)
    BY <2>5 DEF Ahead
  <2> QED BY <1>d, <2>1, <2>3, <2>6
<1>4. CASE q = r /\ TurnAway(r)
  <2>1. route'[q] = <<>> /\ command' = command
    BY <1>t, <1>4 DEF TurnAway
  <2>2. Ahead(q)' = {}
    BY <2>1 DEF Ahead
  <2> QED BY <1>d, <2>1, <2>2
<1> QED BY <1>0, <1>1, <1>2, <1>3, <1>4 DEF RobotMoves

-----------------------------------------------------------------------------
(* Whoever blocks a waiting robot and waits itself precedes it in the pass. *)
LEMMA CycleExplains ==
  ASSUME TokenInv, DriveInv, ChainInv, Cycle
  PROVE  NoTokenCycle'
<1>1. PICK reg, G : CycleOf(reg, G, Observed)
  BY CycleTakenApart
<1> DEFINE h == Registered(reg, Observed)
<1> DEFINE Q == Queue(h, Observed)
<1> DEFINE order == Order(Q, Observed)
<1> DEFINE refused == Needy(Q) \ G
<1> DEFINE starving == {r \in Needy(Q) : Starving(Q, r)}
<1>2. /\ G \subseteq Needy(Q) /\ Needy(Q) \subseteq Robots
      /\ \A r \in Robots : waits'[r] # {} <=> r \in refused
  BY <1>1, CycleWaits
<1>3. \A r \in refused : blockers'[r] = BlockersOf(h, Q, G, order, Observed, r)
  BY <1>1, <1>2 DEF CycleOf, Settle
<1>4. ASSUME NEW r \in refused, NEW q \in refused, q \in blockers'[r]
      PROVE  q \in starving /\ <<q, r>> \in order
  <2>1. q \in BlockersOf(h, Q, G, order, Observed, r)
    BY <1>3, <1>4
  <2>2. PICK z \in Q.need[r] :
          \/ q \in Reservers(Q, G, order, r, z)
          \/ Held(h, q, z)
          \/ q \in ServedBefore(Q, G, order, r, z)
    BY <2>1 DEF BlockersOf
  <2>3. z \in Zones
    <3>1. Q \in QueueType /\ r \in Robots
      BY <1>1, <1>2 DEF CycleOf
    <3> QED BY <3>1 DEF QueueType
  <2>4. ~Held(h, q, z)
    BY <1>1, <1>2, <2>3, RobotInCycle
  <2>5. q \notin ServedBefore(Q, G, order, r, z)
    BY DEF ServedBefore
  <2>6. q \in Reservers(Q, G, order, r, z)
    BY <2>2, <2>4, <2>5
  <2> QED BY <2>6 DEF Reservers
<1>5. /\ \A r \in starving : <<r, r>> \notin order
      /\ \A r, q, o \in starving :
           <<r, q>> \in order /\ <<q, o>> \in order => <<r, o>> \in order
  <2>1. Strict(Needy(Q), order)
    BY ObservedFacts, QueueAged, OrderStrict DEF TokenInv, TTypeOK
  <2> HIDE DEF Q, order
  <2> QED BY <2>1 DEF Strict
<1> HIDE DEF h, Q, order, starving
<1> SUFFICES ASSUME NEW S \in SUBSET {r \in Robots : waits'[r] # {}}, S # {}
             PROVE  \E r \in S : blockers'[r] \cap S = {}
  BY DEF NoTokenCycle
<1>6. S \subseteq refused /\ S \subseteq Robots
  BY <1>2
<1>7. CASE S \cap starving = {}
  BY <1>4, <1>6, <1>7
<1>8. CASE S \cap starving # {}
  <2>1. IsFiniteSet(S \cap starving)
    BY <1>6, RobotCount
  <2>2. PICK r \in S \cap starving : \A q \in S \cap starving : <<q, r>> \notin order
    BY <1>5, <1>8, <2>1, FirstOf
  <2> QED BY <1>4, <1>6, <2>2
<1> QED BY <1>7, <1>8

LEMMA ChainSteps ==
  ASSUME EachOnce, Silence # "any"
  PROVE  TokenInv /\ DriveInv /\ ChainInv /\ NoTokenCycle /\ [TNext]_tvars
           => ChainInv' /\ NoTokenCycle'
<1> SUFFICES ASSUME TokenInv, DriveInv, ChainInv, NoTokenCycle, [TNext]_tvars
             PROVE  ChainInv' /\ NoTokenCycle'
  OBVIOUS
<1>1. CASE Cycle
  BY <1>1, CycleChain, CycleExplains
<1>2. ASSUME NEW r \in Robots, RobotMoves(r) PROVE ChainInv' /\ NoTokenCycle'
  <2>1. waits' = waits /\ blockers' = blockers
    BY <1>2, MoveTypes DEF TokenInv, vars
  <2> QED BY <1>2, <2>1, MoveChain DEF NoTokenCycle
<1>3. CASE UNCHANGED tvars
  <2>1. /\ route' = route /\ inside' = inside /\ command' = command /\ holders' = holders
        /\ waits' = waits /\ blockers' = blockers /\ entered' = entered /\ lastSeen' = lastSeen
    BY <1>3 DEF tvars, vars, motion
  <2>2. \A r \in Robots : Ahead(r)' = Ahead(r) /\ Body(r)' = Body(r)
    BY <2>1 DEF Ahead, Body
  <2>3. ChainInv'
    BY <2>1, <2>2 DEF ChainInv, Held
  <2>4. NoTokenCycle'
    BY <2>1 DEF NoTokenCycle
  <2> QED BY <2>3, <2>4
<1> QED BY <1>1, <1>2, <1>3 DEF TNext, RobotMoves

(* Tokens alone never deadlock: among any robots that wait for tokens one   *)
(* has all its causes outside, if no chain crosses a zone twice and a robot *)
(* whose observations stop was free to go.                                  *)
THEOREM TokensNeverDeadlock ==
  ASSUME EachOnce, Silence # "any"
  PROVE  TSpec => []NoTokenCycle
<1>1. TInit => ChainInv /\ NoTokenCycle
  <2> SUFFICES ASSUME TInit PROVE ChainInv /\ NoTokenCycle
    OBVIOUS
  <2>1. \A r \in Robots : Ahead(r) = {}
    BY DEF TInit, Ahead
  <2>2. ChainInv
    BY <2>1 DEF TInit, Init, ChainInv, Held
  <2>3. NoTokenCycle
    BY DEF TInit, Init, NoTokenCycle
  <2> QED BY <2>2, <2>3
<1>2. TSpec => []DriveInv
  BY TokenInvariance, DriveInitially, DriveSteps, PTL DEF TSpec
<1> QED BY <1>1, <1>2, ChainSteps, TokenInvariance, PTL DEF TSpec
=============================================================================
