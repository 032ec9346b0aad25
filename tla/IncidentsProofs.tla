--------------------------- MODULE IncidentsProofs ---------------------------
(***************************************************************************)
(* Proofs about Incidents, for any robots, importance, pockets, situations *)
(* and times.                                                              *)
(***************************************************************************)
EXTENDS Incidents, FiniteSetTheorems, TLAPS

-----------------------------------------------------------------------------
(* The inductive invariant.                                                 *)

\* An incident of the robots S that deadlock.md 5 knows: its victims are of
\* S, and the strategy is carried out in one way.
Good(S, i) ==
  /\ i \in Incident
  /\ i.victims \in Seq(S) /\ i.at \in 1..Len(i.victims) /\ i.immobile \subseteq S
  /\ i.strategy = "YIELD" => i.pocket \in Pockets /\ ~i.mask
  /\ i.strategy = "ALT_PATH" => i.pocket = NoPocket /\ i.mask

AllGood == \A S \in DOMAIN incidents : Good(S, incidents[S])

\* A failed incident is over, and one that failed because a robot could not
\* move waits for nothing else.
FailedIsOver ==
  /\ DOMAIN incidents \cap DOMAIN cooldown = {}
  /\ \A S \in DOMAIN stuck : cooldown[S] = Never

\* What this cycle still has to do: step incidents that are open, open
\* cycles that meet neither an incident nor each other.
TodoSound ==
  /\ stage = "step" => todo \subseteq DOMAIN incidents
  /\ stage = "cycles" =>
       /\ \A S \in todo : S \cap Members = {} /\ S \notin DOMAIN cooldown
       /\ \A S, T \in todo : S # T => S \cap T = {}

\* Only an incident that this cycle has not stepped yet may be overdue.
AgeBound ==
  \A S \in DOMAIN incidents :
    \/ incidents[S].age <= DeadlockMax
    \/ stage = "step" /\ S \in todo /\ incidents[S].age <= DeadlockMax + 1

IInv ==
  ITypeOK /\ AllGood /\ IncidentsApart /\ FailedIsOver /\ TodoSound /\ AgeBound

-----------------------------------------------------------------------------
(* Sets of robots.                                                          *)
LEMMA GroupFacts ==
  ASSUME NEW S \in Groups
  PROVE  IsFiniteSet(S) /\ S \subseteq Robots /\ S # {}
<1>1. IsFiniteSet(S) /\ S \subseteq Robots /\ Cardinality(S) >= 2
  BY FS_Subset, RobotsAssumption DEF Groups
<1> QED BY <1>1, FS_EmptySet

LEMMA TwoAreAGroup ==
  ASSUME NEW S \in SUBSET Robots, NEW r \in S, NEW q \in S, r # q
  PROVE  S \in Groups
<1>1. IsFiniteSet(S) /\ Cardinality(S) \in Nat
  BY FS_Subset, FS_CardinalityType, RobotsAssumption
<1>2. IsFiniteSet(S \ {r}) /\ Cardinality(S \ {r}) = Cardinality(S) - 1
  BY <1>1, FS_RemoveElement
<1>3. Cardinality(S \ {r}) # 0 /\ Cardinality(S \ {r}) \in Nat
  BY <1>2, FS_EmptySet, FS_CardinalityType
<1> QED BY <1>1, <1>2, <1>3 DEF Groups

(* The order of the victims leaves none out: every place is taken.          *)
LEMMA VictimsInS ==
  ASSUME world \in Worlds, NEW S \in Groups
  PROVE  VictimsOf(S) \in Seq(S)
<1> DEFINE able == {r \in S : Mobile(r)}
           above(r) == {q \in able : Rank[q] > Rank[r]}
           n == Cardinality(able)
<1>1. IsFiniteSet(able) /\ n \in Nat /\ able \subseteq Robots /\ able \subseteq S
  BY GroupFacts, FS_Subset, FS_CardinalityType
<1>0. VictimsOf(S) = [k \in 1..n |-> CHOOSE r \in able : 1 + Cardinality(above(r)) = k]
  BY DEF VictimsOf
<1>a. \A r \in able : Rank[r] \in Nat
  BY <1>1, RankAssumption
<1>b. \A r \in able : above(r) \subseteq able \ {r}
  BY <1>a
<1>c. \A r, q \in able : Rank[q] > Rank[r] =>
        above(q) \subseteq above(r) /\ q \in above(r) /\ q \notin above(q)
  BY <1>a
<1> HIDE DEF above
<1>2. ASSUME NEW r \in able
      PROVE  /\ IsFiniteSet(above(r)) /\ Cardinality(above(r)) \in Nat
             /\ Cardinality(above(r)) <= n - 1
  <2>1. IsFiniteSet(able \ {r}) /\ Cardinality(able \ {r}) = n - 1
    BY <1>1, FS_RemoveElement
  <2>2. IsFiniteSet(above(r)) /\ Cardinality(above(r)) <= n - 1
    BY <1>b, <2>1, FS_Subset
  <2> QED BY <2>2, FS_CardinalityType
<1>3. ASSUME NEW r \in able, NEW q \in able, Rank[q] > Rank[r]
      PROVE  Cardinality(above(q)) < Cardinality(above(r))
  <2>1. above(q) \subseteq above(r) /\ above(q) # above(r)
    BY <1>3, <1>c
  <2>2. /\ IsFiniteSet(above(r))
        /\ Cardinality(above(r)) \in Nat /\ Cardinality(above(q)) \in Nat
    BY <1>2
  <2>3. /\ Cardinality(above(q)) <= Cardinality(above(r))
        /\ Cardinality(above(r)) = Cardinality(above(q)) => above(r) = above(q)
    BY <2>1, <2>2, FS_Subset
  <2> QED BY <2>1, <2>2, <2>3
<1> DEFINE f == [r \in able |-> 1 + Cardinality(above(r))]
<1>4. f \in Injection(able, 1..n)
  <2>1. f \in [able -> 1..n]
    BY <1>1, <1>2
  <2>2. ASSUME NEW r \in able, NEW q \in able, r # q
        PROVE  f[r] # f[q]
    <3>1. Rank[r] > Rank[q] \/ Rank[q] > Rank[r]
      BY <1>1, <2>2, RankAssumption
    <3>2. Cardinality(above(r)) \in Nat /\ Cardinality(above(q)) \in Nat
      BY <1>1, <1>2
    <3> QED BY <1>3, <3>1, <3>2
  <2> HIDE DEF f
  <2> QED BY <2>1, <2>2 DEF Injection, IsInjective
<1>5. f \in Surjection(able, 1..n)
  <2>1. IsFiniteSet(1..n) /\ Cardinality(1..n) = n
    BY <1>1, FS_Interval
  <2> HIDE DEF f
  <2> QED BY <1>1, <1>4, <2>1, FS_Injection
<1>6. ASSUME NEW k \in 1..n
      PROVE  \E r \in able : 1 + Cardinality(above(r)) = k
  <2>1. PICK r \in able : f[r] = k
    BY <1>5 DEF Surjection
  <2> QED BY <2>1
<1> HIDE DEF f
<1>7. ASSUME NEW k \in 1..n
      PROVE  (CHOOSE r \in able : 1 + Cardinality(above(r)) = k) \in S
  BY <1>1, <1>6
<1> HIDE DEF able, n
<1>8. VictimsOf(S) \in [1..n -> S]
  BY <1>0, <1>7
<1> QED BY <1>1, <1>8

LEMMA LeadsOut ==
  ASSUME NEW S, NEW edges, StronglyConnected(S, edges), NEW V, V \subseteq S, V # {}, V # S
  PROVE  \E e \in edges : e[1] \in V /\ e[2] \in S \ V
BY DEF StronglyConnected

(* Two components that meet are one: what they have in common leads from    *)
(* each of them into the other.                                             *)
LEMMA ComponentsDisjoint ==
  ASSUME NEW edges, NEW S \in Components(edges), NEW T \in Components(edges), S \cap T # {}
  PROVE  S = T
<1> DEFINE U == S \cup T
<1>1. /\ S \in Groups /\ T \in Groups
      /\ StronglyConnected(S, edges) /\ StronglyConnected(T, edges)
      /\ \A V \in Groups : StronglyConnected(V, edges) =>
           (S \subseteq V => V = S) /\ (T \subseteq V => V = T)
  BY DEF Components
<1>2. U \in Groups
  <2>1. IsFiniteSet(U) /\ U \subseteq Robots
    BY <1>1, GroupFacts, RobotsAssumption, FS_Subset
  <2>2. Cardinality(S) <= Cardinality(U) /\ Cardinality(U) \in Nat /\ Cardinality(S) \in Nat
    BY <1>1, <2>1, GroupFacts, FS_Subset, FS_CardinalityType
  <2> HIDE DEF U
  <2> QED BY <1>1, <2>1, <2>2 DEF Groups
<1>3. StronglyConnected(U, edges)
  <2> SUFFICES ASSUME NEW V, V \subseteq U, V # {}, V # U
               PROVE  \E e \in edges : e[1] \in V /\ e[2] \in U \ V
    BY DEF StronglyConnected
  <2>1. CASE V \cap S # {} /\ V \cap S # S
    <3> DEFINE W == V \cap S
    <3>1. W \subseteq S /\ W # {} /\ W # S
      BY <2>1
    <3> HIDE DEF W
    <3>2. PICK e \in edges : e[1] \in W /\ e[2] \in S \ W
      BY <1>1, <3>1, LeadsOut
    <3> QED BY <3>2 DEF W
  <2>2. CASE V \cap T # {} /\ V \cap T # T
    <3> DEFINE W == V \cap T
    <3>1. W \subseteq T /\ W # {} /\ W # T
      BY <2>2
    <3> HIDE DEF W
    <3>2. PICK e \in edges : e[1] \in W /\ e[2] \in T \ W
      BY <1>1, <3>1, LeadsOut
    <3> QED BY <3>2 DEF W
  <2>3. CASE (V \cap S = {} \/ V \cap S = S) /\ (V \cap T = {} \/ V \cap T = T)
    <3>2. (V \cap S = {} /\ V \cap T = {}) \/ (S \subseteq V /\ T \subseteq V)
      BY <2>3
    <3>3. CASE V \cap S = {} /\ V \cap T = {}
      <4>1. V = {}
        BY <3>3
      <4> QED BY <4>1
    <3>4. CASE S \subseteq V /\ T \subseteq V
      <4>1. V = U
        BY <3>4
      <4> QED BY <4>1
    <3> QED BY <3>2, <3>3, <3>4
  <2> QED BY <2>1, <2>2, <2>3
<1> QED BY <1>1, <1>2, <1>3

-----------------------------------------------------------------------------
(* What changes the incidents.                                              *)
LEMMA WithFacts ==
  ASSUME NEW f, NEW S, NEW v
  PROVE  /\ DOMAIN With(f, S, v) = DOMAIN f \cup {S}
         /\ With(f, S, v)[S] = v
         /\ \A T \in DOMAIN f \ {S} : With(f, S, v)[T] = f[T]
BY DEF With

LEMMA WithoutFacts ==
  ASSUME NEW f, NEW sets
  PROVE  /\ DOMAIN Without(f, sets) = DOMAIN f \ sets
         /\ \A T \in DOMAIN f \ sets : Without(f, sets)[T] = f[T]
BY DEF Without

LEMMA ClearType ==
  ASSUME NEW f, NEW S, NEW Values, f \in [Robots -> Values], 0 \in Values
  PROVE  Clear(f, S) \in [Robots -> Values]
BY DEF Clear

FreePocket(S, i) == i.pocket = NoPocket \/ i.pocket \notin Reserved(S)

(* An incident of robots that are in no other, with a pocket that is in no  *)
(* other, may go on or be new.                                              *)
LEMMA WithKeeps ==
  ASSUME DOMAIN incidents \subseteq Groups, AllGood, IncidentsApart,
         NEW S \in Groups, S \in DOMAIN incidents \/ S \cap Members = {},
         NEW j, Good(S, j), FreePocket(S, j), incidents' = With(incidents, S, j)
  PROVE  DOMAIN incidents' \subseteq Groups /\ AllGood' /\ IncidentsApart'
<1>1. /\ DOMAIN incidents' = DOMAIN incidents \cup {S} /\ incidents'[S] = j
      /\ \A T \in DOMAIN incidents \ {S} : incidents'[T] = incidents[T]
  BY DEF With
<1>2. AllGood'
  BY <1>1 DEF AllGood, Good
<1>3. \A T \in DOMAIN incidents : T # S => S \cap T = {}
  BY DEF IncidentsApart, Members
<1>4. \A T \in DOMAIN incidents :
        T # S /\ j.pocket # NoPocket => j.pocket # incidents[T].pocket
  BY DEF FreePocket, Reserved
<1>5. IncidentsApart'
  BY <1>1, <1>3, <1>4 DEF IncidentsApart
<1> QED BY <1>1, <1>2, <1>5

LEMMA WithoutKeeps ==
  ASSUME DOMAIN incidents \subseteq Groups, AllGood, IncidentsApart,
         NEW S, incidents' = Without(incidents, {S})
  PROVE  DOMAIN incidents' \subseteq Groups /\ AllGood' /\ IncidentsApart'
<1>1. /\ DOMAIN incidents' = DOMAIN incidents \ {S}
      /\ \A T \in DOMAIN incidents \ {S} : incidents'[T] = incidents[T]
  BY DEF Without
<1>2. AllGood'
  BY <1>1 DEF AllGood, Good
<1>3. IncidentsApart'
  <2>1. \A T \in DOMAIN incidents' : T \in DOMAIN incidents /\ incidents'[T] = incidents[T]
    BY <1>1
  <2> SUFFICES ASSUME NEW S1 \in DOMAIN incidents', NEW S2 \in DOMAIN incidents', S1 # S2
               PROVE  /\ S1 \cap S2 = {}
                      /\ incidents'[S1].pocket # NoPocket =>
                           incidents'[S1].pocket # incidents'[S2].pocket
    BY DEF IncidentsApart
  <2> QED BY <2>1 DEF IncidentsApart
<1> QED BY <1>1, <1>2, <1>3

(* The strategies of an incident's victims from the first one on.           *)
Startable(S, i) ==
  /\ i \in Incident /\ i.victims \in Seq(S) /\ i.immobile \subseteq S

LEMMA StartsGood ==
  ASSUME NEW S, NEW i, Startable(S, i), NEW first \in Nat \ {0}, NEW j \in Starts(S, i, first)
  PROVE  /\ Good(S, j) /\ FreePocket(S, j)
         /\ j.age = i.age /\ j.at >= first
<1>1. PICK k \in first..Len(i.victims) : j \in Yields(S, i, k) \cup Detours(i, k)
  BY DEF Starts
<1>2. /\ k \in 1..Len(i.victims) /\ Len(i.victims) \in Nat /\ k >= first
      /\ k \in Nat /\ i \in Incident
  BY <1>1 DEF Startable
<1>3. CASE j \in Yields(S, i, k)
  <2>1. PICK p \in Pockets \ Reserved(S) :
          j = [i EXCEPT !.at = k, !.strategy = "YIELD", !.pocket = p, !.mask = FALSE,
                        !.elapsed = 0]
    BY <1>3 DEF Yields
  <2>2. /\ j.at = k /\ j.strategy = "YIELD" /\ j.pocket = p /\ j.mask = FALSE
        /\ j.victims = i.victims /\ j.age = i.age /\ j.immobile = i.immobile
    BY <1>2, <2>1 DEF Incident
  <2>3. j \in Incident
    BY <1>2, <2>1 DEF Incident
  <2> QED BY <1>2, <2>1, <2>2, <2>3 DEF Good, FreePocket, Startable
<1>4. CASE j \in Detours(i, k)
  <2>1. j = [i EXCEPT !.at = k, !.strategy = "ALT_PATH", !.pocket = NoPocket, !.mask = TRUE,
                      !.elapsed = 0]
    BY <1>4 DEF Detours
  <2>2. /\ j.at = k /\ j.strategy = "ALT_PATH" /\ j.pocket = NoPocket /\ j.mask = TRUE
        /\ j.victims = i.victims /\ j.age = i.age /\ j.immobile = i.immobile
    BY <1>2, <2>1 DEF Incident
  <2>3. j \in Incident
    BY <1>2, <2>1 DEF Incident
  <2> QED BY <1>2, <2>2, <2>3 DEF Good, FreePocket, Startable
<1> QED BY <1>1, <1>3, <1>4

LEMMA StartsAltGood ==
  ASSUME NEW S, NEW i, Good(S, i), NEW j \in StartsAlt(S, i)
  PROVE  /\ Good(S, j) /\ FreePocket(S, j)
         /\ j.age = i.age /\ j.at >= i.at
         /\ j.at = i.at => j.strategy = "ALT_PATH"
<1>1. Startable(S, i) /\ i \in Incident /\ i.at \in Nat /\ i.at > 0
  BY DEF Good, Startable
<1>2. CASE j \in Starts(S, i, i.at + 1)
  <2>1. j.at >= i.at + 1 /\ j.age = i.age /\ Good(S, j) /\ FreePocket(S, j)
    BY <1>1, <1>2, StartsGood
  <2>2. j.at \in Int
    BY <2>1 DEF Good
  <2> QED BY <1>1, <2>1, <2>2
<1>3. CASE j \in Detours(i, i.at)
  <2>1. j = [i EXCEPT !.at = i.at, !.strategy = "ALT_PATH", !.pocket = NoPocket, !.mask = TRUE,
                      !.elapsed = 0]
    BY <1>3 DEF Detours
  <2>2. /\ j.at = i.at /\ j.strategy = "ALT_PATH" /\ j.pocket = NoPocket /\ j.mask = TRUE
        /\ j.victims = i.victims /\ j.age = i.age /\ j.immobile = i.immobile
    BY <1>1, <2>1 DEF Incident
  <2>3. j \in Incident
    BY <1>1, <2>1 DEF Incident
  <2> QED BY <1>1, <2>2, <2>3 DEF Good, FreePocket, Startable
<1> QED BY <1>2, <1>3 DEF StartsAlt

-----------------------------------------------------------------------------
(* What an incident's step or a new incident leaves.                        *)
Core ==
  /\ DOMAIN incidents \subseteq Groups
  /\ attempts \in [Robots -> Nat] /\ stall \in [Robots -> 0..StallAfter] /\ fruitless \in Nat
  /\ DOMAIN cooldown \subseteq Groups
  /\ \A S \in DOMAIN cooldown : cooldown[S] \in 1..Cooldown \cup {Never}
  /\ DOMAIN stuck \subseteq DOMAIN cooldown
  /\ \A S \in DOMAIN stuck : stuck[S] \in SUBSET S
  /\ AllGood /\ IncidentsApart /\ FailedIsOver

\* The incident of S alone is new, goes on or ends.
Changed(S) ==
  /\ DOMAIN incidents' \subseteq DOMAIN incidents \cup {S}
  /\ \A T \in DOMAIN incidents \ {S} : T \in DOMAIN incidents' /\ incidents'[T] = incidents[T]
  /\ DOMAIN cooldown \subseteq DOMAIN cooldown' /\ DOMAIN cooldown' \subseteq DOMAIN cooldown \cup {S}

\* From i to j on the ladder of victims and strategies.
Forward(i, j) ==
  /\ j.age = i.age /\ i.at <= j.at
  /\ i.at = j.at /\ i.strategy = "ALT_PATH" => j.strategy = "ALT_PATH"

LEMMA ResolveKeeps ==
  ASSUME Core, NEW S \in DOMAIN incidents, Resolve(S)
  PROVE  Core' /\ Changed(S) /\ S \notin DOMAIN incidents'
<1>1. /\ incidents' = Without(incidents, {S}) /\ stall' = Clear(stall, S)
      /\ attempts' = attempts /\ cooldown' = cooldown /\ stuck' = stuck /\ fruitless' = fruitless
  BY DEF Resolve
<1>2. /\ DOMAIN incidents' = DOMAIN incidents \ {S}
      /\ \A T \in DOMAIN incidents \ {S} : incidents'[T] = incidents[T]
  BY <1>1 DEF Without
<1>3. stall' \in [Robots -> 0..StallAfter]
  BY <1>1, BoundsAssumption DEF Core, Clear
<1>4. DOMAIN incidents' \subseteq Groups /\ AllGood' /\ IncidentsApart'
  BY <1>1, WithoutKeeps DEF Core
<1>5. FailedIsOver'
  BY <1>1, <1>2 DEF Core, FailedIsOver
<1> QED BY <1>1, <1>2, <1>3, <1>4, <1>5 DEF Core, Changed

LEMMA ContinueKeeps ==
  ASSUME Core, NEW S \in DOMAIN incidents, NEW j, Good(S, j), FreePocket(S, j),
         Forward(incidents[S], j), Continue(S, j)
  PROVE  Core' /\ Changed(S) /\ Forward(incidents[S], incidents'[S])
<1>1. /\ incidents' = With(incidents, S, j)
      /\ stall' = stall /\ attempts' = attempts /\ cooldown' = cooldown /\ stuck' = stuck
      /\ fruitless' = fruitless
  BY DEF Continue
<1>2. /\ DOMAIN incidents' = DOMAIN incidents /\ incidents'[S] = j
      /\ \A T \in DOMAIN incidents \ {S} : incidents'[T] = incidents[T]
  BY <1>1 DEF With
<1>3. DOMAIN incidents' \subseteq Groups /\ AllGood' /\ IncidentsApart'
  BY <1>1, WithKeeps DEF Core
<1>4. FailedIsOver'
  BY <1>1, <1>2 DEF Core, FailedIsOver
<1> QED BY <1>1, <1>2, <1>3, <1>4 DEF Core, Changed

LEMMA GiveUpKeeps ==
  ASSUME Core, NEW S \in Groups, S \notin DOMAIN cooldown, NEW immobile \in SUBSET S,
         GiveUp(S, immobile)
  PROVE  Core' /\ Changed(S) /\ S \notin DOMAIN incidents'
<1>1. /\ incidents' = Without(incidents, {S})
      /\ cooldown' = With(cooldown, S, CooldownOf(immobile))
      /\ stuck' = IF immobile = {} THEN stuck ELSE With(stuck, S, immobile)
      /\ attempts' = Clear(attempts, S) /\ stall' = Clear(stall, S) /\ fruitless' = 0
  BY DEF GiveUp
<1>2. /\ DOMAIN incidents' = DOMAIN incidents \ {S}
      /\ \A T \in DOMAIN incidents \ {S} : incidents'[T] = incidents[T]
  BY <1>1 DEF Without
<1>3. /\ DOMAIN cooldown' = DOMAIN cooldown \cup {S} /\ cooldown'[S] = CooldownOf(immobile)
      /\ \A T \in DOMAIN cooldown \ {S} : cooldown'[T] = cooldown[T]
  BY <1>1 DEF With
<1>4. /\ DOMAIN stuck' = DOMAIN stuck \cup (IF immobile = {} THEN {} ELSE {S})
      /\ immobile # {} => stuck'[S] = immobile
      /\ \A T \in DOMAIN stuck \ {S} : stuck'[T] = stuck[T]
  BY <1>1 DEF With
<1>5. CooldownOf(immobile) \in 1..Cooldown \cup {Never}
      /\ (immobile # {} => CooldownOf(immobile) = Never)
  BY BoundsAssumption DEF CooldownOf
<1>6. /\ stall' \in [Robots -> 0..StallAfter] /\ attempts' \in [Robots -> Nat]
      /\ fruitless' \in Nat
  BY <1>1, BoundsAssumption DEF Core, Clear
<1>7. DOMAIN incidents' \subseteq Groups /\ AllGood' /\ IncidentsApart'
  BY <1>1, WithoutKeeps DEF Core
<1>8. FailedIsOver'
  BY <1>2, <1>3, <1>4, <1>5 DEF Core, FailedIsOver
<1>9. /\ DOMAIN cooldown' \subseteq Groups
      /\ \A T \in DOMAIN cooldown' : cooldown'[T] \in 1..Cooldown \cup {Never}
  BY <1>3, <1>5 DEF Core
<1>10. /\ DOMAIN stuck' \subseteq DOMAIN cooldown'
       /\ \A T \in DOMAIN stuck' : stuck'[T] \in SUBSET T
  BY <1>3, <1>4 DEF Core
<1>11. Changed(S)
  BY <1>2, <1>3 DEF Changed
<1> QED BY <1>2, <1>6, <1>7, <1>8, <1>9, <1>10, <1>11 DEF Core

-----------------------------------------------------------------------------
(* One incident's step.                                                     *)
Steps(S) ==
  /\ Core' /\ Changed(S)
  /\ S \in DOMAIN incidents' => Forward(incidents[S], incidents'[S])

LEMMA GoOnKeeps ==
  ASSUME Core, NEW S \in DOMAIN incidents, NEW ways, NEW immobile \in SUBSET S,
         \A j \in ways : Good(S, j) /\ FreePocket(S, j) /\ Forward(incidents[S], j),
         GoOn(S, ways, immobile)
  PROVE  Steps(S)
<1>1. CASE \E j \in ways : Continue(S, j)
  BY <1>1, ContinueKeeps DEF Steps
<1>2. CASE GiveUp(S, immobile)
  <2>1. S \in Groups /\ S \notin DOMAIN cooldown
    BY DEF Core, FailedIsOver
  <2> QED BY <1>2, <2>1, GiveUpKeeps DEF Steps
<1> QED BY <1>1, <1>2 DEF GoOn

LEMMA OfIncidents ==
  ASSUME Core, NEW S \in DOMAIN incidents
  PROVE  /\ S \in Groups /\ Good(S, incidents[S]) /\ FreePocket(S, incidents[S])
         /\ incidents[S].immobile \in SUBSET S
<1>1. S \in Groups /\ Good(S, incidents[S])
  BY DEF Core, AllGood
<1>2. FreePocket(S, incidents[S])
  <2>1. \A T \in DOMAIN incidents \ {S} :
          incidents[S].pocket # NoPocket => incidents[S].pocket # incidents[T].pocket
    BY DEF Core, IncidentsApart
  <2> QED BY <2>1 DEF FreePocket, Reserved
<1> QED BY <1>1, <1>2 DEF Good

LEMMA StepYieldKeeps ==
  ASSUME Core, NEW S \in DOMAIN incidents, incidents[S].strategy = "YIELD",
         StepYield(S, incidents[S])
  PROVE  Steps(S)
<1> DEFINE i == incidents[S]
<1>1. Good(S, i) /\ i.immobile \in SUBSET S /\ i.at \in Nat
  BY OfIncidents DEF Good
<1>2. Resolve(S) \/ GoOn(S, StartsAlt(S, i), i.immobile) \/ UNCHANGED open
  BY DEF StepYield
<1>3. CASE Resolve(S)
  BY <1>3, ResolveKeeps DEF Steps
<1>4. CASE GoOn(S, StartsAlt(S, i), i.immobile)
  <2>1. \A j \in StartsAlt(S, i) : Good(S, j) /\ FreePocket(S, j) /\ Forward(i, j)
    <3> HIDE DEF i
    <3> QED BY <1>1, StartsAltGood DEF Forward, Good
  <2> QED BY <1>1, <1>4, <2>1, GoOnKeeps
<1>5. CASE UNCHANGED open
  <2>1. Core' /\ Changed(S) /\ incidents' = incidents
    BY <1>5 DEF open, Core, AllGood, IncidentsApart, FailedIsOver, Changed, Good
  <2> QED BY <1>1, <2>1 DEF Steps, Forward
<1> QED BY <1>2, <1>3, <1>4, <1>5

LEMMA StepAltKeeps ==
  ASSUME Core, NEW S \in DOMAIN incidents, incidents[S].strategy = "ALT_PATH",
         StepAlt(S, incidents[S])
  PROVE  Steps(S)
<1> DEFINE i == incidents[S]
<1>1. /\ Good(S, i) /\ FreePocket(S, i) /\ i.immobile \in SUBSET S /\ i \in Incident
      /\ i.at \in Nat /\ i.plans \in 0..2
  BY OfIncidents DEF Good, Incident
<1>2. PICK plans \in PlansSeen(i) :
        LET j == [i EXCEPT !.plans = plans]
        IN  \/ Resolve(S)
            \/ GoOn(S, Starts(S, j, j.at + 1), j.immobile)
            \/ Continue(S, [j EXCEPT !.elapsed = 0])
            \/ GiveUp(S, j.immobile)
            \/ Continue(S, j)
  BY DEF StepAlt
<1> DEFINE j == [i EXCEPT !.plans = plans]
<1> HIDE DEF i
<1>3. plans \in 0..2
  BY <1>1, <1>2 DEF PlansSeen
<1>4. /\ j \in Incident /\ j.at = i.at /\ j.strategy = i.strategy /\ j.pocket = i.pocket
      /\ j.mask = i.mask /\ j.victims = i.victims /\ j.age = i.age /\ j.immobile = i.immobile
  BY <1>1, <1>3 DEF Incident
<1> HIDE DEF j
<1>5. Good(S, j) /\ FreePocket(S, j) /\ Forward(i, j)
  BY <1>1, <1>4 DEF Good, FreePocket, Forward
<1>6. CASE Resolve(S)
  BY <1>6, ResolveKeeps DEF Steps
<1>7. CASE GoOn(S, Starts(S, j, j.at + 1), j.immobile)
  <2>1. Startable(S, j) /\ j.at + 1 \in Nat \ {0} /\ j.immobile \in SUBSET S
    BY <1>1, <1>4, <1>5 DEF Good, Startable
  <2>2. \A k \in Starts(S, j, j.at + 1) : Good(S, k) /\ FreePocket(S, k) /\ Forward(i, k)
    <3> SUFFICES ASSUME NEW k \in Starts(S, j, j.at + 1)
                 PROVE  Good(S, k) /\ FreePocket(S, k) /\ Forward(i, k)
      OBVIOUS
    <3>1. Good(S, k) /\ FreePocket(S, k) /\ k.age = j.age /\ k.at >= j.at + 1
      BY <2>1, StartsGood
    <3>2. k.at \in Int
      BY <3>1 DEF Good
    <3> QED BY <1>1, <1>4, <3>1, <3>2 DEF Forward
  <2> QED BY <1>7, <2>1, <2>2, GoOnKeeps DEF i
<1>8. CASE Continue(S, [j EXCEPT !.elapsed = 0])
  <2> DEFINE k == [j EXCEPT !.elapsed = 0]
  <2>1. /\ k \in Incident /\ k.at = j.at /\ k.strategy = j.strategy /\ k.pocket = j.pocket
        /\ k.mask = j.mask /\ k.victims = j.victims /\ k.age = j.age /\ k.immobile = j.immobile
    BY <1>4 DEF Incident
  <2>2. Continue(S, k)
    BY <1>8
  <2> HIDE DEF k
  <2>3. Good(S, k) /\ FreePocket(S, k) /\ Forward(i, k)
    BY <1>5, <2>1 DEF Good, FreePocket, Forward
  <2> QED BY <2>2, <2>3, ContinueKeeps DEF i, Steps
<1>9. CASE GiveUp(S, j.immobile)
  <2>1. S \in Groups /\ S \notin DOMAIN cooldown /\ j.immobile \in SUBSET S
    BY <1>1, <1>4 DEF Core, FailedIsOver
  <2> QED BY <1>9, <2>1, GiveUpKeeps DEF Steps
<1>10. CASE Continue(S, j)
  BY <1>5, <1>10, ContinueKeeps DEF i, Steps
<1> QED BY <1>2, <1>6, <1>7, <1>8, <1>9, <1>10 DEF j

(* An incident that is not overdue goes on or ends, one that is overdue     *)
(* ends.                                                                    *)
LEMMA IncidentSteps ==
  ASSUME Core, NEW S \in DOMAIN incidents, StepIncident(S)
  PROVE  /\ Steps(S)
         /\ Overdue(incidents[S]) => S \notin DOMAIN incidents'
<1> DEFINE i == incidents[S]
<1>1. S \in Groups /\ S \notin DOMAIN cooldown /\ i.immobile \in SUBSET S /\ Good(S, i)
  BY OfIncidents DEF Core, FailedIsOver
<1>2. CASE Overdue(i)
  <2>1. GiveUp(S, i.immobile)
    BY <1>2 DEF StepIncident
  <2> QED BY <1>1, <2>1, GiveUpKeeps DEF Steps
<1>3. CASE ~Overdue(i) /\ i.strategy = "YIELD"
  BY <1>3, StepYieldKeeps DEF StepIncident
<1>4. CASE ~Overdue(i) /\ i.strategy # "YIELD"
  <2>1. i.strategy = "ALT_PATH" /\ StepAlt(S, i)
    BY <1>1, <1>4 DEF StepIncident, Good, Incident
  <2> QED BY <1>4, <2>1, StepAltKeeps
<1> QED BY <1>2, <1>3, <1>4

(* A new incident of robots that are in none and in no cooldown.            *)
LEMMA OpenKeeps ==
  ASSUME Core, world \in Worlds, NEW S \in Groups, S \cap Members = {}, S \notin DOMAIN cooldown,
         Open(S)
  PROVE  /\ Core' /\ Changed(S) /\ S \notin DOMAIN incidents
         /\ S \in DOMAIN incidents' => incidents'[S].age = 0
<1> DEFINE immobile == {r \in S : ~Mobile(r)}
           new == [victims |-> VictimsOf(S), at |-> 1, strategy |-> "YIELD", pocket |-> NoPocket,
                   mask |-> FALSE, age |-> 0, elapsed |-> 0, immobile |-> immobile, plans |-> 0]
<1>1. S \subseteq Robots /\ S # {} /\ immobile \in SUBSET S
  BY GroupFacts
<1>2. S \notin DOMAIN incidents
  BY <1>1 DEF Members
<1>3. VictimsOf(S) \in Seq(S) /\ VictimsOf(S) \in Seq(Robots)
  BY <1>1, VictimsInS
<1> HIDE DEF immobile
<1>4. Startable(S, new) /\ new.age = 0
  BY <1>1, <1>3 DEF Startable, Incident
<1>5. \/ GiveUp(S, immobile)
      \/ /\ \E i \in Starts(S, new, 1) : incidents' = With(incidents, S, i)
         /\ attempts' = Counted(S) /\ fruitless' = fruitless + 1 /\ stall' = Clear(stall, S)
         /\ UNCHANGED <<cooldown, stuck>>
  BY DEF Open, immobile
<1> HIDE DEF new
<1>6. CASE GiveUp(S, immobile)
  BY <1>1, <1>2, <1>6, GiveUpKeeps
<1>7. CASE /\ \E i \in Starts(S, new, 1) : incidents' = With(incidents, S, i)
           /\ attempts' = Counted(S) /\ fruitless' = fruitless + 1 /\ stall' = Clear(stall, S)
           /\ UNCHANGED <<cooldown, stuck>>
  <2>1. PICK i \in Starts(S, new, 1) : incidents' = With(incidents, S, i)
    BY <1>7
  <2>2. Good(S, i) /\ FreePocket(S, i) /\ i.age = 0
    BY <1>4, StartsGood
  <2>3. /\ DOMAIN incidents' = DOMAIN incidents \cup {S} /\ incidents'[S] = i
        /\ \A T \in DOMAIN incidents \ {S} : incidents'[T] = incidents[T]
    BY <2>1 DEF With
  <2>4. DOMAIN incidents' \subseteq Groups /\ AllGood' /\ IncidentsApart'
    BY <2>1, <2>2, WithKeeps DEF Core
  <2>5. /\ stall' \in [Robots -> 0..StallAfter] /\ attempts' \in [Robots -> Nat]
        /\ fruitless' \in Nat
    BY <1>7, BoundsAssumption DEF Core, Clear, Counted
  <2>6. FailedIsOver'
    BY <1>7, <2>3 DEF Core, FailedIsOver
  <2> QED BY <1>2, <1>7, <2>2, <2>3, <2>4, <2>5, <2>6 DEF Core, Changed
<1> QED BY <1>5, <1>6, <1>7

-----------------------------------------------------------------------------
(* The steps of a cycle.                                                    *)
Rest ==
  /\ world \in Worlds
  /\ DOMAIN firstSeen \subseteq Groups
  /\ \A S \in DOMAIN firstSeen : firstSeen[S] \in 0..ConfirmAfter
  /\ reported \subseteq Groups
  /\ still \in [Robots -> 0..IdleBlock]
  /\ stage \in {"step", "cycles", "blocked", "livelock"}
  /\ todo \subseteq Groups /\ turn \in Nat

LEMMA IInvParts == IInv <=> Core /\ Rest /\ TodoSound /\ AgeBound
<1>1. IInv => Core /\ Rest /\ TodoSound /\ AgeBound
  BY DEF IInv, ITypeOK, Core, Rest
<1>2. Core /\ Rest /\ TodoSound /\ AgeBound => IInv
  <2> SUFFICES ASSUME Core, Rest, TodoSound, AgeBound
               PROVE  ITypeOK
    BY DEF IInv, Core
  <2>1. \A S \in DOMAIN incidents :
          incidents[S] \in Incident /\ incidents[S].at \in DOMAIN incidents[S].victims
    BY DEF Core, AllGood, Good
  <2> QED BY <2>1 DEF ITypeOK, Core, Rest
<1> QED BY <1>1, <1>2

LEMMA StepIncidentKeeps ==
  ASSUME IInv, NEW S \in Groups, StepIncident(S)
  PROVE  IInv'
<1>a. Core /\ Rest /\ TodoSound /\ AgeBound
  BY IInvParts
<1>b. /\ stage = "step" /\ S \in todo /\ todo' = todo \ {S}
      /\ world' = world /\ still' = still /\ firstSeen' = firstSeen /\ reported' = reported
      /\ stage' = stage /\ turn' = turn
  BY DEF StepIncident, seen, cycles
<1>1. S \in DOMAIN incidents
  BY <1>a, <1>b DEF TodoSound
<1>2. Core' /\ Changed(S) /\ (S \in DOMAIN incidents' => Forward(incidents[S], incidents'[S]))
  BY <1>a, <1>1, IncidentSteps DEF Steps
<1>3. S \in DOMAIN incidents' => incidents[S].age <= DeadlockMax
  <2>1. incidents[S].age \in Nat
    BY <1>a, <1>1 DEF Core, AllGood, Good, Incident
  <2> QED BY <1>a, <1>1, <2>1, IncidentSteps, BoundsAssumption DEF Overdue
<1>4. Rest'
  BY <1>a, <1>b DEF Rest
<1>5. TodoSound'
  BY <1>a, <1>b, <1>2 DEF TodoSound, Changed
<1>6. AgeBound'
  <2> SUFFICES ASSUME NEW T \in DOMAIN incidents'
               PROVE  \/ incidents'[T].age <= DeadlockMax
                      \/ stage' = "step" /\ T \in todo' /\ incidents'[T].age <= DeadlockMax + 1
    BY DEF AgeBound
  <2>1. CASE T = S
    BY <1>2, <1>3, <2>1 DEF Forward
  <2>2. CASE T # S
    <3>1. T \in DOMAIN incidents /\ incidents'[T] = incidents[T]
      BY <1>2, <2>2 DEF Changed
    <3> QED BY <1>a, <1>b, <2>2, <3>1 DEF AgeBound
  <2> QED BY <2>1, <2>2
<1> QED BY <1>2, <1>4, <1>5, <1>6, IInvParts, PTL

LEMMA OpenCycleKeeps ==
  ASSUME IInv, NEW S \in Groups, OpenCycle(S)
  PROVE  IInv' /\ S \notin DOMAIN cooldown /\ Changed(S) /\ S \notin DOMAIN incidents
<1>a. Core /\ Rest /\ TodoSound /\ AgeBound
  BY IInvParts
<1>b. /\ stage = "cycles" /\ S \in todo /\ Open(S) /\ todo' = todo \ {S}
      /\ world' = world /\ still' = still /\ firstSeen' = firstSeen /\ reported' = reported
      /\ stage' = stage /\ turn' = turn
  BY DEF OpenCycle, seen, cycles
<1>1. S \cap Members = {} /\ S \notin DOMAIN cooldown
  BY <1>a, <1>b DEF TodoSound
<1>2. /\ Core' /\ Changed(S) /\ S \notin DOMAIN incidents
      /\ S \in DOMAIN incidents' => incidents'[S].age = 0
  BY <1>a, <1>b, <1>1, OpenKeeps DEF Rest
<1>3. Rest'
  BY <1>a, <1>b DEF Rest
<1>4. TodoSound'
  <2> SUFFICES ASSUME NEW T \in todo'
               PROVE  /\ T \cap Members' = {} /\ T \notin DOMAIN cooldown'
                      /\ \A U \in todo' : T # U => T \cap U = {}
    BY <1>b DEF TodoSound
  <2>1. T \in todo /\ T # S /\ T \cap S = {} /\ T \cap Members = {} /\ T \notin DOMAIN cooldown
        /\ \A U \in todo : T # U => T \cap U = {}
    BY <1>a, <1>b DEF TodoSound
  <2>2. \A U \in DOMAIN incidents' : T \cap U = {}
    BY <1>2, <2>1 DEF Changed, Members
  <2> QED BY <1>b, <1>2, <2>1, <2>2 DEF Changed, Members
<1>5. AgeBound'
  BY <1>a, <1>b, <1>2, BoundsAssumption DEF AgeBound, Changed
<1> QED BY <1>1, <1>2, <1>3, <1>4, <1>5, IInvParts, PTL

(* The openers that look at the robots themselves.                          *)
LEMMA OpenElsewhereKeeps ==
  ASSUME IInv, NEW S \in Groups, S \cap Members = {}, S \notin DOMAIN cooldown, Open(S),
         stage \in {"blocked", "livelock"}, stage' = stage, UNCHANGED <<seen, cycles>>,
         todo' \subseteq Groups, turn' \in Nat
  PROVE  IInv' /\ Changed(S) /\ S \notin DOMAIN incidents
<1>a. Core /\ Rest /\ AgeBound
  BY IInvParts
<1>2. /\ Core' /\ Changed(S) /\ S \notin DOMAIN incidents
      /\ S \in DOMAIN incidents' => incidents'[S].age = 0
  BY <1>a, OpenKeeps DEF Rest
<1>3. Rest'
  BY <1>a DEF Rest, seen, cycles
<1>4. TodoSound'
  BY DEF TodoSound
<1>5. AgeBound'
  BY <1>a, <1>2, BoundsAssumption DEF AgeBound, Changed
<1> QED BY <1>2, <1>3, <1>4, <1>5, IInvParts, PTL

LEMMA BlockedIsAGroup ==
  ASSUME IInv, NEW r \in Robots, OpenBlocked(r)
  PROVE  {r} \cup BlockedBy(r) \in Groups /\ Open({r} \cup BlockedBy(r))
<1> DEFINE S == {r} \cup BlockedBy(r)
<1>1. Blocked(r) /\ Open(S)
  BY DEF OpenBlocked
<1>2. \A e \in world.waits : e \in Robots \X Robots \X Reasons /\ e[1] # e[2]
  BY WorldsAssumption DEF IInv, ITypeOK
<1>3. BlockedBy(r) \subseteq Robots \ {r}
  BY <1>2 DEF BlockedBy, Successors, Waits
<1>4. PICK q \in BlockedBy(r) : q # r
  BY <1>1, <1>3 DEF Blocked
<1>5. S \in SUBSET Robots /\ r \in S /\ q \in S
  BY <1>3
<1> HIDE DEF S
<1>6. S \in Groups
  BY <1>4, <1>5, TwoAreAGroup
<1> QED BY <1>1, <1>6 DEF S

LEMMA OpenBlockedKeeps ==
  ASSUME IInv, NEW r \in Robots, OpenBlocked(r)
  PROVE  /\ IInv'
         /\ \A S \in DOMAIN incidents' \ DOMAIN incidents : S \notin DOMAIN cooldown
         /\ \A S \in DOMAIN incidents : S \in DOMAIN incidents' /\ incidents'[S] = incidents[S]
         /\ DOMAIN cooldown \subseteq DOMAIN cooldown'
<1> DEFINE S == {r} \cup BlockedBy(r)
<1>a. Core /\ Rest
  BY IInvParts
<1>1. /\ stage = "blocked" /\ Blocked(r) /\ Open(S) /\ turn' = r
      /\ stage' = stage /\ todo' = todo /\ UNCHANGED <<seen, cycles>>
  BY DEF OpenBlocked
<1>2. S \in Groups
  BY BlockedIsAGroup
<1>3. S \cap Members = {} /\ S \notin DOMAIN cooldown
  BY <1>1 DEF Blocked, BlockedBy, InCooldown
<1>4. turn' \in Nat /\ todo' \subseteq Groups
  BY <1>a, <1>1, RobotsAssumption DEF Rest
<1> HIDE DEF S
<1>5. IInv' /\ Changed(S) /\ S \notin DOMAIN incidents
  BY <1>1, <1>2, <1>3, <1>4, OpenElsewhereKeeps
<1> QED BY <1>3, <1>5 DEF Changed

LEMMA OpenLivelockKeeps ==
  ASSUME IInv, NEW S \in Groups, OpenLivelock(S)
  PROVE  IInv' /\ S \notin DOMAIN cooldown /\ Changed(S) /\ S \notin DOMAIN incidents
<1>1. /\ stage = "livelock" /\ Open(S) /\ S \cap Members = {} /\ S \notin DOMAIN cooldown
      /\ todo' = todo \cup {S} /\ stage' = stage /\ turn' = turn /\ UNCHANGED <<seen, cycles>>
  BY DEF OpenLivelock, InCooldown
<1>2. todo' \subseteq Groups /\ turn' \in Nat
  BY <1>1 DEF IInv, ITypeOK
<1> QED BY <1>1, <1>2, OpenElsewhereKeeps

-----------------------------------------------------------------------------
(* A new cycle: everything is one cycle older, what is over is forgotten.   *)
Older(i) == [i EXCEPT !.age = @ + 1, !.elapsed = @ + 1]

LEMMA OlderGood ==
  ASSUME NEW S, NEW i, Good(S, i)
  PROVE  /\ Good(S, Older(i)) /\ Older(i).age = i.age + 1 /\ Older(i).at = i.at
         /\ Older(i).strategy = i.strategy /\ Older(i).pocket = i.pocket
<1> DEFINE j == Older(i)
<1>1. i \in Incident /\ i.age \in Nat /\ i.elapsed \in Nat
  BY DEF Good, Incident
<1>2. /\ j.age = i.age + 1 /\ j.at = i.at /\ j.strategy = i.strategy /\ j.pocket = i.pocket
      /\ j.mask = i.mask /\ j.victims = i.victims /\ j.immobile = i.immobile
  BY <1>1 DEF Incident, Older
<1>3. j \in Incident
  <2>1. \A a, b \in Nat : [i EXCEPT !.age = a, !.elapsed = b] \in Incident
    BY <1>1 DEF Incident
  <2>2. j = [i EXCEPT !.age = i.age + 1, !.elapsed = i.elapsed + 1]
    BY DEF Older
  <2>3. i.age + 1 \in Nat /\ i.elapsed + 1 \in Nat
    BY <1>1
  <2> QED BY <2>1, <2>2, <2>3
<1> HIDE DEF j
<1>4. Good(S, j)
  BY <1>2, <1>3 DEF Good
<1> QED BY <1>2, <1>4 DEF j

LEMMA ObserveKeeps ==
  ASSUME IInv, Observe
  PROVE  /\ IInv'
         /\ DOMAIN incidents' = DOMAIN incidents
         /\ \A S \in DOMAIN incidents : incidents'[S] = Older(incidents[S])
         /\ \A S \in DOMAIN stuck : S \notin DOMAIN cooldown' =>
              \E r \in stuck[S] : world'.view[r] \notin {"halted", "silent"}
<1> DEFINE free == {S \in DOMAIN stuck : \E r \in stuck[S] :
                      world'.view[r] \in {"gone", "driving", "parked", "working"}}
<1>a. Core /\ Rest /\ AgeBound
  BY IInvParts
<1>b. /\ stage = "livelock" /\ stage' = "step" /\ todo' = DOMAIN incidents /\ turn' = 0
      /\ world' \in Worlds /\ firstSeen' = firstSeen /\ reported' = reported /\ stall' = stall
      /\ incidents' = [S \in DOMAIN incidents |-> Older(incidents[S])]
      /\ stuck' = Without(stuck, free)
      /\ cooldown' = [S \in DOMAIN cooldown \ (Expired \cup free) |->
                        IF cooldown[S] = Never THEN Never ELSE cooldown[S] - 1]
  BY DEF Observe, cycles, Older
<1>c. PICK advanced \in SUBSET Robots :
        /\ attempts' = Clear(attempts, advanced)
        /\ fruitless' = IF advanced = {} THEN fruitless ELSE 0
        /\ still' = [r \in Robots |->
             IF world'.view[r] = "silent" THEN still[r]
             ELSE IF r \in world'.standing /\ world'.view[r] # "gone"
                    THEN Least(still[r] + 1, IdleBlock) ELSE 0]
  BY DEF Observe
<1> HIDE DEF free
<1>1. /\ DOMAIN incidents' = DOMAIN incidents
      /\ \A S \in DOMAIN incidents : incidents'[S] = Older(incidents[S])
  BY <1>b
<1>2. \A S \in DOMAIN incidents :
        /\ Good(S, incidents'[S]) /\ incidents'[S].age = incidents[S].age + 1
        /\ incidents'[S].pocket = incidents[S].pocket
  BY <1>a, <1>1, OlderGood DEF Core, AllGood
<1>3. AllGood' /\ IncidentsApart'
  BY <1>a, <1>1, <1>2 DEF Core, AllGood, Good, IncidentsApart
<1>4. \A S \in DOMAIN stuck : cooldown[S] = Never /\ S \in DOMAIN cooldown /\ S \notin Expired
  BY <1>a DEF Core, FailedIsOver, Expired, Never
<1>5. /\ DOMAIN cooldown' = DOMAIN cooldown \ (Expired \cup free)
      /\ \A S \in DOMAIN cooldown' :
           cooldown'[S] = IF cooldown[S] = Never THEN Never ELSE cooldown[S] - 1
      /\ DOMAIN stuck' = DOMAIN stuck \ free
      /\ \A S \in DOMAIN stuck' : stuck'[S] = stuck[S]
  BY <1>b DEF Without
<1>6. \A S \in DOMAIN cooldown' : cooldown'[S] \in 1..Cooldown \cup {Never}
  BY <1>a, <1>5, BoundsAssumption DEF Core, Expired, Never
<1>7. FailedIsOver' /\ DOMAIN stuck' \subseteq DOMAIN cooldown'
  BY <1>a, <1>1, <1>4, <1>5 DEF Core, FailedIsOver
<1>8. /\ attempts' \in [Robots -> Nat] /\ fruitless' \in Nat
      /\ still' \in [Robots -> 0..IdleBlock]
  BY <1>a, <1>c, BoundsAssumption DEF Core, Rest, Clear, Least
<1>9. Core'
  BY <1>a, <1>b, <1>1, <1>3, <1>5, <1>6, <1>7, <1>8 DEF Core
<1>10. Rest'
  BY <1>a, <1>b, <1>8 DEF Rest, Core
<1>11. TodoSound'
  BY <1>b, <1>1 DEF TodoSound
<1>12. AgeBound'
  <2>1. \A S \in DOMAIN incidents : incidents[S].age <= DeadlockMax /\ incidents[S].age \in Nat
    BY <1>a, <1>b DEF AgeBound, Core, AllGood, Good, Incident
  <2> QED BY <1>b, <1>1, <1>2, <2>1, BoundsAssumption DEF AgeBound
<1>13. ASSUME NEW S \in DOMAIN stuck, S \notin DOMAIN cooldown'
       PROVE  \E r \in stuck[S] : world'.view[r] \notin {"halted", "silent"}
  <2>1. S \in free
    BY <1>4, <1>5, <1>13
  <2> QED BY <2>1 DEF free
<1>14. IInv'
  BY <1>9, <1>10, <1>11, <1>12, IInvParts, PTL
<1> QED BY <1>1, <1>13, <1>14

(* The stages between which nothing happens to the incidents.               *)
LEMMA ConfirmKeeps ==
  ASSUME IInv, Confirm
  PROVE  IInv'
<1>a. Core /\ Rest /\ AgeBound
  BY IInvParts
<1>b. /\ stage = "step" /\ todo = {} /\ stage' = "cycles" /\ UNCHANGED open
      /\ world' = world /\ still' = still /\ turn' = turn
      /\ firstSeen' = [C \in Candidates |-> AgeOf(C)]
      /\ todo' \subseteq DOMAIN firstSeen' /\ reported' \subseteq reported \cup todo'
  BY DEF Confirm, seen
<1>1. DOMAIN firstSeen' = Candidates /\ Candidates \subseteq Groups
  BY <1>b DEF Candidates, Components
<1>2. \A C \in Candidates : AgeOf(C) \in 0..ConfirmAfter
  BY <1>a, BoundsAssumption DEF Rest, AgeOf, Least
<1>3. Core'
  BY <1>a, <1>b DEF open, Core, AllGood, Good, IncidentsApart, FailedIsOver
<1>4. Rest'
  BY <1>a, <1>b, <1>1, <1>2 DEF Rest
<1>5. TodoSound'
  <2>1. \A S \in Candidates : S \cap Members = {} /\ S \notin DOMAIN cooldown
    BY DEF Candidates, InCooldown
  <2>2. \A S, T \in Candidates : S # T => S \cap T = {}
    BY ComponentsDisjoint DEF Candidates
  <2> QED BY <1>b, <1>1, <2>1, <2>2 DEF TodoSound, open, Members
<1>6. AgeBound'
  BY <1>a, <1>b DEF AgeBound, open
<1> QED BY <1>3, <1>4, <1>5, <1>6, IInvParts, PTL

LEMMA WatchKeeps ==
  ASSUME IInv, Watch
  PROVE  IInv'
<1>a. Core /\ Rest /\ AgeBound
  BY IInvParts
<1>b. /\ stage = "cycles" /\ stage' = "blocked" /\ todo' = {}
      /\ UNCHANGED <<incidents, attempts, cooldown, stuck, fruitless, seen, cycles, turn>>
  BY DEF Watch
<1>1. stall' \in [Robots -> 0..StallAfter]
  BY <1>a, BoundsAssumption DEF Watch, Core, Least
<1>2. Core'
  BY <1>a, <1>b, <1>1 DEF Core, AllGood, Good, IncidentsApart, FailedIsOver
<1>3. Rest' /\ TodoSound' /\ AgeBound'
  BY <1>a, <1>b DEF Rest, TodoSound, AgeBound, seen, cycles
<1> QED BY <1>2, <1>3, IInvParts, PTL

LEMMA UnblockedKeeps ==
  ASSUME IInv, Unblocked
  PROVE  IInv'
<1>a. Core /\ Rest /\ AgeBound
  BY IInvParts
<1>b. /\ stage = "blocked" /\ stage' = "livelock" /\ todo' = {} /\ turn' = 0
      /\ UNCHANGED <<open, seen, cycles>>
  BY DEF Unblocked
<1>1. Core'
  BY <1>a, <1>b DEF Core, AllGood, Good, IncidentsApart, FailedIsOver, open
<1>2. Rest' /\ TodoSound' /\ AgeBound'
  BY <1>a, <1>b DEF Rest, TodoSound, AgeBound, open, seen, cycles
<1> QED BY <1>1, <1>2, IInvParts, PTL

-----------------------------------------------------------------------------
LEMMA IInitially == IInit => IInv
<1> SUFFICES ASSUME IInit
             PROVE  IInv
  OBVIOUS
<1>1. /\ DOMAIN incidents = {} /\ DOMAIN cooldown = {} /\ DOMAIN stuck = {}
      /\ DOMAIN firstSeen = {}
  BY DEF IInit
<1>2. ITypeOK
  BY <1>1, BoundsAssumption DEF IInit, ITypeOK
<1>3. AllGood /\ IncidentsApart /\ FailedIsOver /\ TodoSound /\ AgeBound
  BY <1>1 DEF IInit, AllGood, IncidentsApart, FailedIsOver, TodoSound, AgeBound
<1> QED BY <1>2, <1>3 DEF IInv

LEMMA ISteps == IInv /\ [INext]_ivars => IInv'
<1> SUFFICES ASSUME IInv, [INext]_ivars
             PROVE  IInv'
  OBVIOUS
<1>1. CASE Observe
  BY <1>1, ObserveKeeps
<1>2. CASE Confirm
  BY <1>2, ConfirmKeeps
<1>3. CASE Watch
  BY <1>3, WatchKeeps
<1>4. CASE Unblocked
  BY <1>4, UnblockedKeeps
<1>5. ASSUME NEW S \in Groups, StepIncident(S) \/ OpenCycle(S) \/ OpenLivelock(S)
      PROVE  IInv'
  BY <1>5, StepIncidentKeeps, OpenCycleKeeps, OpenLivelockKeeps
<1>6. ASSUME NEW r \in Robots, OpenBlocked(r)
      PROVE  IInv'
  BY <1>6, OpenBlockedKeeps
<1>7. CASE UNCHANGED ivars
  BY <1>7 DEF ivars, open, seen, cycles, IInv, ITypeOK, AllGood, Good, IncidentsApart,
             FailedIsOver, TodoSound, AgeBound, Members
<1> QED BY <1>1, <1>2, <1>3, <1>4, <1>5, <1>6, <1>7 DEF INext

(* The inductive invariant holds in every state of the incident manager.    *)
THEOREM IInvariance == ISpec => []IInv
BY IInitially, ISteps, PTL DEF ISpec

(* The state of the incident manager keeps its types.                       *)
THEOREM ITypeCorrect == ISpec => []ITypeOK
<1>1. IInv => ITypeOK
  BY DEF IInv
<1> QED BY <1>1, IInvariance, PTL

(* No robot is in two incidents and no pocket is promised twice, whichever  *)
(* of the three openers came first (IncidentManager.open, _start_yield).    *)
THEOREM IncidentsStayApart == ISpec => []IncidentsApart
<1>1. IInv => IncidentsApart
  BY DEF IInv
<1> QED BY <1>1, IInvariance, PTL

(* Every incident commands its victim, in one way: no incident is left      *)
(* without a strategy, whatever has failed before (_next_victim).           *)
THEOREM VictimIsCommanded == ISpec => []VictimCommanded
<1>1. IInv => VictimCommanded
  <2> SUFFICES ASSUME IInv, NEW S \in DOMAIN incidents
               PROVE  LET v == Victim(incidents[S])
                      IN  /\ v \in S
                          /\ Cardinality(CommandsFor(v)) = 1
                          /\ \A c \in CommandsFor(v) : c.mask = ~c.hold
    BY DEF VictimCommanded
  <2> DEFINE i == incidents[S]
             v == Victim(i)
             c == [hold |-> i.strategy = "YIELD", pose |-> i.pocket, mask |-> i.mask]
  <2>1. \A T \in DOMAIN incidents :
          Good(T, incidents[T]) /\ Victim(incidents[T]) \in T
    BY DEF IInv, AllGood, Good, Victim
  <2>2. \A T \in DOMAIN incidents : T # S => Victim(incidents[T]) # v
    BY <2>1 DEF IInv, IncidentsApart
  <2>3. i.strategy \in {"YIELD", "ALT_PATH"} /\ i.mask = (i.strategy # "YIELD")
    BY <2>1 DEF Good, Incident
  <2>4. /\ i.strategy = "YIELD" => i.pocket # NoPocket
        /\ i.strategy = "ALT_PATH" => i.mask
    BY <2>1, PocketAssumption DEF Good
  <2>5. CommandsFor(v) = {c}
    BY <2>2, <2>3, <2>4 DEF CommandsFor
  <2>6. Cardinality(CommandsFor(v)) = 1
    BY <2>5, FS_Singleton
  <2>7. c.mask = ~c.hold
    BY <2>3
  <2> HIDE DEF c
  <2>8. \A d \in CommandsFor(v) : d.mask = ~d.hold
    BY <2>5, <2>7
  <2> QED BY <2>1, <2>6, <2>8
<1> QED BY <1>1, IInvariance, PTL

-----------------------------------------------------------------------------
(* What no step may do.                                                     *)
LadderStep ==
  \A S \in DOMAIN incidents \cap DOMAIN incidents' :
    LET i == incidents[S]  j == incidents'[S]
    IN  /\ j.age <= DeadlockMax + 1
        /\ i.at <= j.at
        /\ i.at = j.at /\ i.strategy = "ALT_PATH" => j.strategy = "ALT_PATH"

FailureStep ==
  /\ \A S \in DOMAIN incidents' \ DOMAIN incidents : S \notin DOMAIN cooldown
  /\ \A S \in DOMAIN stuck :
       S \notin DOMAIN cooldown' =>
         \E r \in stuck[S] : world'.view[r] \notin {"halted", "silent"}

\* What the steps have in common.
Onward ==
  /\ \A S \in DOMAIN incidents \cap DOMAIN incidents' :
       /\ incidents[S].at <= incidents'[S].at
       /\ incidents[S].at = incidents'[S].at /\ incidents[S].strategy = "ALT_PATH"
            => incidents'[S].strategy = "ALT_PATH"
  /\ \A S \in DOMAIN incidents' \ DOMAIN incidents : S \notin DOMAIN cooldown
  /\ \A S \in DOMAIN stuck :
       S \notin DOMAIN cooldown' =>
         \E r \in stuck[S] : world'.view[r] \notin {"halted", "silent"}

LEMMA UnchangedIsOnward ==
  ASSUME IInv, \A S \in DOMAIN incidents \cap DOMAIN incidents' : incidents'[S] = incidents[S],
         \A S \in DOMAIN incidents' \ DOMAIN incidents : S \notin DOMAIN cooldown,
         DOMAIN cooldown \subseteq DOMAIN cooldown'
  PROVE  Onward
<1>1. DOMAIN stuck \subseteq DOMAIN cooldown
  BY DEF IInv, ITypeOK
<1>2. \A S \in DOMAIN incidents : incidents[S].at \in Int
  BY DEF IInv, ITypeOK, Incident
<1> QED BY <1>1, <1>2 DEF Onward

LEMMA StepsAreOnward == IInv /\ [INext]_ivars => Onward
<1> SUFFICES ASSUME IInv, [INext]_ivars
             PROVE  Onward
  OBVIOUS
<1>1. CASE Observe
  <2>1. /\ DOMAIN incidents' = DOMAIN incidents
        /\ \A S \in DOMAIN incidents : /\ incidents[S].at \in Int
                                       /\ incidents'[S].at = incidents[S].at
                                       /\ incidents'[S].strategy = incidents[S].strategy
    BY <1>1, ObserveKeeps, OlderGood DEF IInv, AllGood, Good
  <2> QED BY <1>1, <2>1, ObserveKeeps DEF Onward
<1>2. CASE Confirm \/ Watch \/ Unblocked \/ UNCHANGED ivars
  <2>1. incidents' = incidents /\ cooldown' = cooldown
    BY <1>2 DEF Confirm, Watch, Unblocked, ivars, open
  <2> QED BY <2>1, UnchangedIsOnward
<1>3. ASSUME NEW S \in Groups, StepIncident(S)
      PROVE  Onward
  <2>1. Core /\ S \in DOMAIN incidents
    BY <1>3, IInvParts DEF StepIncident, TodoSound
  <2>2. Changed(S) /\ (S \in DOMAIN incidents' => Forward(incidents[S], incidents'[S]))
    BY <1>3, <2>1, IncidentSteps DEF Steps
  <2>3. DOMAIN stuck \subseteq DOMAIN cooldown /\ DOMAIN cooldown \subseteq DOMAIN cooldown'
    BY <2>1, <2>2 DEF Core, Changed
  <2>4. DOMAIN incidents' \subseteq DOMAIN incidents
    BY <2>1, <2>2 DEF Changed
  <2>5. \A T \in DOMAIN incidents : incidents[T].at \in Int
    BY DEF IInv, ITypeOK, Incident
  <2> QED BY <2>2, <2>3, <2>4, <2>5 DEF Onward, Changed, Forward
<1>4. ASSUME NEW S \in Groups, OpenCycle(S) \/ OpenLivelock(S)
      PROVE  Onward
  <2>1. S \notin DOMAIN cooldown /\ Changed(S) /\ S \notin DOMAIN incidents
    BY <1>4, OpenCycleKeeps, OpenLivelockKeeps
  <2> QED BY <2>1, UnchangedIsOnward DEF Changed
<1>5. ASSUME NEW r \in Robots, OpenBlocked(r)
      PROVE  Onward
  BY <1>5, OpenBlockedKeeps, UnchangedIsOnward
<1> QED BY <1>1, <1>2, <1>3, <1>4, <1>5 DEF INext

(* An incident ends by deadlock_max_s, and until then its victims and       *)
(* strategies only go forward (_step_one, _next_victim, _start_alt).        *)
THEOREM LadderGoesForward == ISpec => LadderForward
<1>1. IInv /\ IInv' /\ [INext]_ivars => LadderStep
  <2> SUFFICES ASSUME IInv, IInv', [INext]_ivars
               PROVE  LadderStep
    OBVIOUS
  <2>1. Onward
    BY StepsAreOnward
  <2>2. \A S \in DOMAIN incidents' : incidents'[S].age <= DeadlockMax + 1
    <3>1. \A S \in DOMAIN incidents' : incidents'[S].age \in Nat
      BY DEF IInv, ITypeOK, Incident
    <3> QED BY <3>1, BoundsAssumption DEF IInv, AgeBound
  <2> QED BY <2>1, <2>2 DEF Onward, LadderStep
<1>2. ISpec => [][LadderStep]_ivars
  BY <1>1, IInvariance, PTL DEF ISpec
<1> QED BY <1>2 DEF LadderStep, LadderForward

(* Robots whose incident failed are left alone until the cooldown is over,  *)
(* and as long as those that could not move cannot (_unresolved, step).     *)
THEOREM FailuresAreRespected == ISpec => FailureRespected
<1>1. IInv /\ [INext]_ivars => FailureStep
  BY StepsAreOnward DEF Onward, FailureStep
<1>2. ISpec => [][FailureStep]_ivars
  BY <1>1, IInvariance, PTL DEF ISpec
<1> QED BY <1>2 DEF FailureStep, FailureRespected

-----------------------------------------------------------------------------
(* What the incidents without progress cost.  A robot with k attempts has   *)
(* the marks 1..k; an incident that is opened makes one mark for each of    *)
(* its robots, two at least, and nobody has more than MaxAttempts of them.  *)
MarksOf(f) == {m \in Robots \X (1..MaxAttempts) : m[2] <= f[m[1]]}

CountInv ==
  /\ \A r \in Robots : attempts[r] <= MaxAttempts
  /\ 2 * fruitless <= Cardinality(MarksOf(attempts))

LEMMA MarksBound ==
  ASSUME NEW f
  PROVE  /\ IsFiniteSet(MarksOf(f)) /\ Cardinality(MarksOf(f)) \in Nat
         /\ Cardinality(MarksOf(f)) <= MaxAttempts * Cardinality(Robots)
<1> DEFINE all == Robots \X (1..MaxAttempts)
<1>1. MaxAttempts \in Nat /\ Cardinality(Robots) \in Nat
  BY BoundsAssumption, RobotsAssumption, FS_CardinalityType
<1>2. IsFiniteSet(1..MaxAttempts) /\ Cardinality(1..MaxAttempts) = MaxAttempts
  BY <1>1, FS_Interval
<1>3. IsFiniteSet(all) /\ Cardinality(all) = Cardinality(Robots) * MaxAttempts
  BY <1>2, FS_Product, RobotsAssumption
<1>4. MarksOf(f) \subseteq all
  BY DEF MarksOf
<1> HIDE DEF all
<1>5. IsFiniteSet(MarksOf(f)) /\ Cardinality(MarksOf(f)) <= Cardinality(all)
  BY <1>3, <1>4, FS_Subset
<1>6. Cardinality(MarksOf(f)) \in Nat
  BY <1>5, FS_CardinalityType
<1>7. Cardinality(Robots) * MaxAttempts = MaxAttempts * Cardinality(Robots)
  BY <1>1
<1> QED BY <1>3, <1>5, <1>6, <1>7

(* An incident of the robots S costs each of them a mark.                   *)
LEMMA MarksGrow ==
  ASSUME NEW S \in Groups, attempts \in [Robots -> Nat],
         \A r \in S : Counted(S)[r] <= MaxAttempts
  PROVE  Cardinality(MarksOf(Counted(S))) >= Cardinality(MarksOf(attempts)) + 2
<1> DEFINE new == {<<r, attempts[r] + 1>> : r \in S}
           old == MarksOf(attempts)
           f == [r \in S |-> <<r, attempts[r] + 1>>]
<1>1. IsFiniteSet(S) /\ S \subseteq Robots /\ Cardinality(S) >= 2
  BY GroupFacts DEF Groups
<1>2. \A r \in S : Counted(S)[r] = attempts[r] + 1 /\ attempts[r] \in Nat
  BY <1>1 DEF Counted
<1>3. \A r \in Robots : attempts[r] <= Counted(S)[r] /\ Counted(S)[r] \in Nat
  BY DEF Counted
<1>4. new \subseteq MarksOf(Counted(S))
  BY <1>1, <1>2, BoundsAssumption DEF MarksOf
<1>5. old \subseteq MarksOf(Counted(S))
  BY <1>3 DEF MarksOf
<1>6. new \cap old = {}
  BY <1>1, <1>2 DEF MarksOf
<1>7. IsFiniteSet(new) /\ Cardinality(new) = Cardinality(S)
  <2>1. f \in [S -> new] /\ (\A r, q \in S : f[r] = f[q] => r = q)
        /\ \A m \in new : \E r \in S : f[r] = m
    OBVIOUS
  <2> HIDE DEF f, new
  <2>2. f \in Bijection(S, new)
    BY <2>1 DEF Bijection, Injection, Surjection, IsInjective
  <2>3. ExistsBijection(S, new)
    BY <2>2 DEF ExistsBijection
  <2> QED BY <1>1, <2>3, FS_Bijection
<1> HIDE DEF new, old, f
<1>8. IsFiniteSet(old) /\ Cardinality(old) \in Nat
  BY MarksBound DEF old
<1>9. IsFiniteSet(new \cup old) /\ Cardinality(new \cup old) = Cardinality(new) + Cardinality(old)
  <2>1. Cardinality(new) \in Nat
    BY <1>7, FS_CardinalityType
  <2>2. Cardinality(new \cap old) = 0
    BY <1>6, FS_EmptySet
  <2>3. /\ IsFiniteSet(new \cup old)
        /\ Cardinality(new \cup old) = Cardinality(new) + Cardinality(old) - Cardinality(new \cap old)
    BY <1>7, <1>8, FS_Union
  <2> QED BY <1>8, <2>1, <2>2, <2>3
<1>10. Cardinality(new \cup old) <= Cardinality(MarksOf(Counted(S)))
  BY <1>4, <1>5, MarksBound, FS_Subset
<1>11. /\ Cardinality(MarksOf(Counted(S))) \in Nat /\ Cardinality(new) \in Nat
       /\ Cardinality(S) \in Nat
  BY <1>1, <1>7, MarksBound, FS_CardinalityType
<1> QED BY <1>1, <1>7, <1>8, <1>9, <1>10, <1>11 DEF old

LEMMA ClearCounts ==
  ASSUME CountInv, attempts \in [Robots -> Nat], NEW S, attempts' = Clear(attempts, S),
         fruitless' = 0
  PROVE  CountInv'
<1>1. \A r \in Robots : attempts'[r] <= MaxAttempts
  BY BoundsAssumption DEF CountInv, Clear
<1>2. Cardinality(MarksOf(attempts')) \in Nat
  BY MarksBound
<1>3. 2 * fruitless' <= Cardinality(MarksOf(attempts'))
  BY <1>2
<1> QED BY <1>1, <1>3 DEF CountInv, MarksOf

LEMMA SameCounts ==
  ASSUME CountInv, attempts' = attempts, fruitless' = fruitless
  PROVE  CountInv'
BY DEF CountInv, MarksOf

LEMMA OpenCounts ==
  ASSUME CountInv, attempts \in [Robots -> Nat], fruitless \in Nat, NEW S \in Groups, Open(S)
  PROVE  CountInv'
<1> DEFINE immobile == {r \in S : ~Mobile(r)}
<1>1. \/ GiveUp(S, immobile)
      \/ /\ \A r \in S : Counted(S)[r] <= MaxAttempts
         /\ attempts' = Counted(S) /\ fruitless' = fruitless + 1
  BY DEF Open
<1> HIDE DEF immobile
<1>2. CASE GiveUp(S, immobile)
  BY <1>2, ClearCounts DEF GiveUp
<1>3. CASE /\ \A r \in S : Counted(S)[r] <= MaxAttempts
           /\ attempts' = Counted(S) /\ fruitless' = fruitless + 1
  <2>1. \A r \in Robots : attempts'[r] <= MaxAttempts
    <3>1. \A r \in Robots \ S : Counted(S)[r] = attempts[r]
      BY DEF Counted
    <3> QED BY <1>3, <3>1 DEF CountInv
  <2>2. Cardinality(MarksOf(attempts')) >= Cardinality(MarksOf(attempts)) + 2
    BY <1>3, MarksGrow
  <2>3. Cardinality(MarksOf(attempts')) \in Nat /\ Cardinality(MarksOf(attempts)) \in Nat
    BY MarksBound
  <2>4. 2 * fruitless' <= Cardinality(MarksOf(attempts'))
    BY <1>3, <2>2, <2>3 DEF CountInv
  <2> QED BY <2>1, <2>4 DEF CountInv, MarksOf
<1> QED BY <1>1, <1>2, <1>3

(* An incident that is stepped counts nothing: it goes on, is resolved, or  *)
(* fails and is reported.                                                   *)
LEMMA StepIncidentCounts ==
  ASSUME CountInv, attempts \in [Robots -> Nat], NEW S \in Groups, StepIncident(S)
  PROVE  CountInv'
<1> DEFINE i == incidents[S]
<1>1. \/ \E immobile : GiveUp(S, immobile)
      \/ attempts' = attempts /\ fruitless' = fruitless
  <2>1. CASE Overdue(i)
    BY <2>1 DEF StepIncident
  <2>2. CASE ~Overdue(i) /\ i.strategy = "YIELD"
    <3>1. StepYield(S, i)
      BY <2>2 DEF StepIncident
    <3> QED BY <3>1 DEF StepYield, GoOn, Continue, Resolve, open
  <2>3. CASE ~Overdue(i) /\ i.strategy # "YIELD"
    <3>1. StepAlt(S, i)
      BY <2>3 DEF StepIncident
    <3> QED BY <3>1 DEF StepAlt, GoOn, Continue, Resolve
  <2> QED BY <2>1, <2>2, <2>3
<1> QED BY <1>1, ClearCounts, SameCounts DEF GiveUp

LEMMA ObserveCounts ==
  ASSUME CountInv, attempts \in [Robots -> Nat], Observe
  PROVE  CountInv'
<1>1. PICK advanced \in SUBSET Robots :
        /\ attempts' = Clear(attempts, advanced)
        /\ fruitless' = IF advanced = {} THEN fruitless ELSE 0
  BY DEF Observe
<1>2. CASE advanced = {}
  <2>1. attempts' = attempts
    BY <1>1, <1>2 DEF Clear
  <2> QED BY <1>1, <1>2, <2>1, SameCounts
<1>3. CASE advanced # {}
  BY <1>1, <1>3, ClearCounts
<1> QED BY <1>2, <1>3

LEMMA StepsCount == IInv /\ CountInv /\ [INext]_ivars => CountInv'
<1> SUFFICES ASSUME IInv, CountInv, [INext]_ivars
             PROVE  CountInv'
  OBVIOUS
<1>a. attempts \in [Robots -> Nat] /\ fruitless \in Nat
  BY DEF IInv, ITypeOK
<1>1. CASE Observe
  BY <1>a, <1>1, ObserveCounts
<1>2. CASE Confirm \/ Watch \/ Unblocked
  BY <1>2, SameCounts DEF Confirm, Watch, Unblocked, open
<1>3. ASSUME NEW S \in Groups, StepIncident(S)
      PROVE  CountInv'
  BY <1>a, <1>3, StepIncidentCounts
<1>4. ASSUME NEW S \in Groups, OpenCycle(S) \/ OpenLivelock(S)
      PROVE  CountInv'
  BY <1>a, <1>4, OpenCounts DEF OpenCycle, OpenLivelock
<1>5. ASSUME NEW r \in Robots, OpenBlocked(r)
      PROVE  CountInv'
  <2>1. {r} \cup BlockedBy(r) \in Groups /\ Open({r} \cup BlockedBy(r))
    BY <1>5, BlockedIsAGroup
  <2> QED BY <1>a, <2>1, OpenCounts
<1>6. CASE UNCHANGED ivars
  BY <1>6, SameCounts DEF ivars, open
<1> QED BY <1>1, <1>2, <1>3, <1>4, <1>5, <1>6 DEF INext

(* deadlock.md 6 (2): as long as nobody gets ahead, the operator is told of *)
(* a failure within floor(max_attempts n / 2) + 1 incidents, whichever      *)
(* robots they are of and whoever opens them (IncidentManager.open counts   *)
(* an attempt for every robot of the incident, _unresolved forgets them).   *)
THEOREM FailureIsReported == ISpec => []FailureReported
<1>1. IInit => CountInv
  <2> SUFFICES ASSUME IInit
               PROVE  CountInv
    OBVIOUS
  <2>1. \A r \in Robots : attempts[r] <= MaxAttempts
    BY BoundsAssumption DEF IInit
  <2>2. 2 * fruitless = 0 /\ Cardinality(MarksOf(attempts)) \in Nat
    BY MarksBound DEF IInit
  <2> QED BY <2>1, <2>2 DEF CountInv
<1>2. ISpec => []CountInv
  BY <1>1, IInvariance, StepsCount, PTL DEF ISpec
<1>3. IInv /\ CountInv => FailureReported
  <2> SUFFICES ASSUME IInv, CountInv
               PROVE  FailureReported
    OBVIOUS
  <2>1. fruitless \in Nat /\ 2 * fruitless <= Cardinality(MarksOf(attempts))
    BY DEF IInv, ITypeOK, CountInv
  <2>2. /\ Cardinality(MarksOf(attempts)) \in Nat
        /\ Cardinality(MarksOf(attempts)) <= MaxAttempts * Cardinality(Robots)
    BY MarksBound
  <2>3. MaxAttempts * Cardinality(Robots) \in Nat
    BY BoundsAssumption, RobotsAssumption, FS_CardinalityType
  <2> QED BY <2>1, <2>2, <2>3 DEF FailureReported
<1> QED BY <1>2, <1>3, IInvariance, PTL
=============================================================================
