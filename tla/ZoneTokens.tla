----------------------------- MODULE ZoneTokens -----------------------------
(***************************************************************************)
(* The zone-entry tokens of the fleet's traffic manager                    *)
(* (amr_fleet/traffic_zones.py, class ZoneTokenManager).  Every zone has   *)
(* capacity one, except that a corridor may admit robots that cross it in  *)
(* the same direction.  Once per traffic cycle `update' returns tokens,    *)
(* registers robots found inside a zone without a token, and grants chains *)
(* of zones in a priority order that starving robots jump.                 *)
(*                                                                         *)
(* The loops of `update' are greedy passes in a fixed order.  Such a pass  *)
(* is modelled by the set it selects: the one set whose members are the    *)
(* robots that fit beside the holders and the members that come before     *)
(* them.  The time at which a robot began to wait is only ever compared    *)
(* with another robot's, so it is kept as the strict order `before'.       *)
(***************************************************************************)
EXTENDS Integers, FiniteSets

CONSTANTS
  Robots,         \* robot identifiers; their order is the code's string order
  Zones,          \* every zone id a map may bring
  SameDirection,  \* zone |-> may it be shared in one direction
  Directions,     \* unit vectors through a zone
  NoDirection,    \* the code's None: the crossing is too short to have one
  NotHeld,        \* no token
  Aligned,        \* pairs of directions whose cosine reaches same_direction_cos
  MaxBypass,      \* overtakings after which a waiting robot is starving
  Views           \* what a robot's observation can say of it in one cycle

Passing == Directions \cup {NoDirection}

ViewType == [occ: SUBSET Zones, upc: SUBSET Zones, req: SUBSET Zones,
             dir: [Zones -> Passing], rank: Int, frozen: BOOLEAN]

ASSUME RobotsAssumption == Robots \subseteq Int /\ IsFiniteSet(Robots)
ASSUME ZonesAssumption == SameDirection \in [Zones -> BOOLEAN]
ASSUME DirectionsAssumption ==
  /\ NoDirection \notin Directions
  /\ NotHeld \notin Passing
  /\ Aligned \subseteq Directions \X Directions
  /\ \A d, e \in Directions : <<d, e>> \in Aligned => <<e, d>> \in Aligned
ASSUME MaxBypassAssumption == MaxBypass \in Nat
ASSUME ViewsAssumption == Views \subseteq ViewType

VARIABLES
  known,      \* zones of the current map (keys of _same_dir)
  holders,    \* zone |-> robot |-> direction of its token, or NotHeld
  entered,    \* <<robot, zone>>: a holder that has been inside the zone
  waits,      \* robot |-> zones of the request it waits for ({}: no wait)
  bypassed,   \* robot |-> times its wait was overtaken
  before,     \* <<r, q>>: r began to wait strictly before q
  blockers    \* robot |-> whom the last cycle named as the cause of its wait

vars == <<known, holders, entered, waits, bypassed, before, blockers>>
waitVars == <<waits, bypassed, before, blockers>>

TypeOK ==
  /\ known \subseteq Zones
  /\ holders \in [Zones -> [Robots -> Passing \cup {NotHeld}]]
  /\ entered \subseteq Robots \X Zones
  /\ waits \in [Robots -> SUBSET Zones]
  /\ bypassed \in [Robots -> Nat]
  /\ before \subseteq Robots \X Robots
  /\ blockers \in [Robots -> SUBSET Robots]

Held(h, r, z) == h[z][r] # NotHeld

Init ==
  /\ known \in SUBSET Zones
  /\ holders = [z \in Zones |-> [r \in Robots |-> NotHeld]]
  /\ entered = {}
  /\ waits = [r \in Robots |-> {}]
  /\ bypassed = [r \in Robots |-> 0]
  /\ before = {}
  /\ blockers = [r \in Robots |-> {}]

-----------------------------------------------------------------------------
(* Shared helpers: a set of <<robot, zone>> pairs receives its tokens, and  *)
(* a robot fits a zone beside the tokens others hold there.                 *)

WithTokens(h, pairs, v) ==
  [z \in Zones |-> [r \in Robots |->
     IF <<r, z>> \in pairs THEN v[r].dir[z] ELSE h[z][r]]]

Sharable(z, d, e) == SameDirection[z] /\ <<d, e>> \in Aligned

(* Faulty variant: a shared corridor admits robots in any direction.        *)
CompatibleBothWays(h, z, r, d) ==
  SameDirection[z] \/ \A q \in Robots \ {r} : ~Held(h, q, z)

Compatible(h, z, r, d) ==
  \A q \in Robots \ {r} : Held(h, q, z) => Sharable(z, h[z][q], d)

(* 1) Tokens returned: the robot was inside and came out, or its path no    *)
(* longer crosses the zone.  A robot whose observation is stale keeps all.  *)
Returned(v) ==
  {p \in Robots \X Zones :
     LET r == p[1]  z == p[2] IN
       /\ Held(holders, r, z)
       /\ z \notin v[r].occ
       /\ ~v[r].frozen
       /\ p \in entered \/ z \notin v[r].upc}

AfterReturn(v) ==
  [z \in Zones |-> [r \in Robots |->
     IF <<r, z>> \in Returned(v) THEN NotHeld ELSE holders[z][r]]]

(* 2) Robots bodily inside a known zone without a token: each in robot      *)
(* order is registered as a holder when it fits, else stays unregistered.   *)
Intruders(h, v) ==
  {p \in Robots \X known : p[2] \in v[p[1]].occ /\ ~Held(h, p[1], p[2])}

IsRegistration(h, reg, v) ==
  \A p \in Intruders(h, v) :
    p \in reg <=>
      Compatible(WithTokens(h, {q \in reg : q[1] < p[1]}, v),
                 p[2], p[1], v[p[1]].dir[p[2]])

(* Faulty variant: the entry mark of a returned token is left behind.       *)
EnteredAfterReturnKept(reg, v) ==
  entered \cup reg \cup
    {p \in Robots \X Zones : Held(holders, p[1], p[2]) /\ p[2] \in v[p[1]].occ}

EnteredAfter(reg, v) ==
  (entered \ Returned(v)) \cup reg \cup
    {p \in Robots \X Zones : Held(holders, p[1], p[2]) /\ p[2] \in v[p[1]].occ}

(* 3) Requests: the zones still missing; a wait goes on while the request   *)
(* overlaps the one it began with, and keeps its age and its count.         *)
Missing(h, v) ==
  [r \in Robots |-> {z \in v[r].req \cap known : ~Held(h, r, z)}]

(* Faulty variant of Carried: the count of a wait is lost.                  *)
CarriedNothing(going, r) == 0

Carried(going, r) == IF r \in going THEN bypassed[r] ELSE 0

Older(going, needy) ==
  (before \cap (going \X going)) \cup (going \X (needy \ going))

Queue(h, v) ==
  LET need == Missing(h, v)
      needy == {r \in Robots : need[r] # {}}
      going == {r \in needy : waits[r] \cap v[r].req # {}}
  IN  [need |-> need,
       older |-> Older(going, needy),
       count |-> [r \in Robots |-> Carried(going, r)]]

Needy(Q) == {r \in Robots : Q.need[r] # {}}
Starving(Q, r) == Q.count[r] >= MaxBypass

(* 4) Grant order: starving robots first, oldest first; then by rank        *)
(* (priority, then deadline), by age, by identifier.                        *)
Precedes(Q, v, r, q) ==
  LET older == <<r, q>> \in Q.older
      younger == <<q, r>> \in Q.older
      ahead == v[r].rank < v[q].rank
      level == v[r].rank = v[q].rank
  IN  \/ Starving(Q, r) /\ ~Starving(Q, q)
      \/ /\ Starving(Q, r) /\ Starving(Q, q)
         /\ older \/ (~younger /\ (ahead \/ (level /\ r < q)))
      \/ /\ ~Starving(Q, r) /\ ~Starving(Q, q)
         /\ ahead \/ (level /\ (older \/ (~younger /\ r < q)))

Order(Q, v) == {p \in Needy(Q) \X Needy(Q) : Precedes(Q, v, p[1], p[2])}

GrantPairs(Q, G) == {p \in G \X Zones : p[2] \in Q.need[p[1]]}

(* Robots of G the pass served before r and that now hold z.                *)
ServedBefore(Q, G, order, r, z) ==
  {q \in G : <<q, r>> \in order /\ z \in Q.need[q]}

(* Faulty variant: nothing is reserved for a starving robot.                *)
ReserversNone(Q, G, order, r, z) == {}

(* Starving robots already refused in this pass keep their zones reserved.  *)
Reservers(Q, G, order, r, z) ==
  {q \in Needy(Q) \ G : /\ <<q, r>> \in order
                        /\ z \in Q.need[q]
                        /\ Starving(Q, q)}

(* Faulty variant: tokens given earlier in the same pass are overlooked.    *)
FreeAtStart(h, Q, G, order, v, r, z) == Compatible(h, z, r, v[r].dir[z])

Free(h, Q, G, order, v, r, z) ==
  /\ Compatible(h, z, r, v[r].dir[z])
  /\ \A q \in ServedBefore(Q, G, order, r, z) :
       Sharable(z, v[q].dir[z], v[r].dir[z])

IsGrant(h, Q, G, order, v) ==
  \A r \in Needy(Q) :
    r \in G <=> \A z \in Q.need[r] : /\ Free(h, Q, G, order, v, r, z)
                                    /\ Reservers(Q, G, order, r, z) = {}

(* Faulty variant: only holders are named.                                  *)
BlockersOfHolders(h, Q, G, order, v, r) ==
  UNION {IF Free(h, Q, G, order, v, r, z) THEN {}
         ELSE {q \in Robots \ {r} : Held(h, q, z)} : z \in Q.need[r]}

(* Whom a refused robot waits for: the first robot a zone is reserved for,  *)
(* and the holders of a zone it does not fit.                               *)
BlockersOf(h, Q, G, order, v, r) ==
  LET owner(z) ==
        {q \in Reservers(Q, G, order, r, z) :
           \A o \in Reservers(Q, G, order, r, z) \ {q} : <<q, o>> \in order}
      keepers(z) ==
        IF Free(h, Q, G, order, v, r, z) THEN {}
        ELSE {q \in Robots \ {r} : Held(h, q, z)} \cup ServedBefore(Q, G, order, r, z)
  IN  UNION {owner(z) \cup keepers(z) : z \in Q.need[r]}

(* 5) A refused robot counts every grant that overlaps its missing zones    *)
(* and went to a robot that began to wait strictly later.                   *)
Overtakers(Q, G, r) ==
  {q \in G : Q.need[q] \cap Q.need[r] # {} /\ <<r, q>> \in Q.older}

Settle(h, Q, G, order, v) ==
  LET refused == Needy(Q) \ G IN
  /\ holders' = WithTokens(h, GrantPairs(Q, G), v)
  /\ waits' = [r \in Robots |-> IF r \in refused THEN v[r].req ELSE {}]
  /\ bypassed' = [r \in Robots |->
       IF r \in refused THEN Q.count[r] + Cardinality(Overtakers(Q, G, r)) ELSE 0]
  /\ before' = Q.older \cap (refused \X refused)
  /\ blockers' = [r \in Robots |->
       IF r \in refused THEN BlockersOf(h, Q, G, order, v, r) ELSE {}]

(* One traffic cycle, as one call of update: return, register, queue, grant,*)
(* count.  The intermediate values are bound by \E over a singleton, which  *)
(* TLC evaluates once; the two sets the passes select are unique.           *)
Update(v) ==
  /\ \E back \in {AfterReturn(v)} : \E reg \in SUBSET Intruders(back, v) :
       /\ IsRegistration(back, reg, v)
       /\ entered' = EnteredAfter(reg, v)
       /\ \E h \in {WithTokens(back, reg, v)} : \E Q \in {Queue(h, v)} :
            \E order \in {Order(Q, v)}, G \in SUBSET Needy(Q) :
              /\ IsGrant(h, Q, G, order, v)
              /\ Settle(h, Q, G, order, v)
  /\ UNCHANGED known

(* A yielding robot's way to its pocket: all free zones at once or nothing, *)
(* past the queue of waiting robots.                                        *)
Reserve(r, zs, d) ==
  LET want == {z \in zs \cap known : ~Held(holders, r, z)} IN
  /\ \A z \in want : Compatible(holders, z, r, d[z])
  /\ holders' = [z \in Zones |->
       IF z \in want THEN [holders[z] EXCEPT ![r] = d[z]] ELSE holders[z]]
  /\ UNCHANGED <<known, entered, waitVars>>

(* A robot drops out of the observation list.                               *)
Forget(r) ==
  /\ holders' = [z \in Zones |-> [holders[z] EXCEPT ![r] = NotHeld]]
  /\ entered' = {p \in entered : p[1] # r}
  /\ waits' = [waits EXCEPT ![r] = {}]
  /\ bypassed' = [bypassed EXCEPT ![r] = 0]
  /\ before' = {p \in before : r \notin {p[1], p[2]}}
  /\ blockers' = [blockers EXCEPT ![r] = {}]
  /\ UNCHANGED known

(* A new map: tokens and entry marks of zones it no longer has are dropped. *)
SetZones(zs) ==
  /\ known' = zs
  /\ holders' = [z \in Zones |->
       IF z \in zs THEN holders[z] ELSE [r \in Robots |-> NotHeld]]
  /\ entered' = {p \in entered : p[2] \in zs}
  /\ UNCHANGED waitVars

Next ==
  \/ \E v \in [Robots -> Views] : Update(v)
  \/ \E r \in Robots, zs \in SUBSET Zones, d \in [Zones -> Passing] : Reserve(r, zs, d)
  \/ \E r \in Robots : Forget(r)
  \/ \E zs \in SUBSET Zones : SetZones(zs)

Spec == Init /\ [][Next]_vars

-----------------------------------------------------------------------------
(* Capacity: two robots hold one zone only if it is a shared corridor and   *)
(* their directions agree.  The hazard is a path (grant, registration of a  *)
(* robot already inside, pocket reservation) that skips the check.          *)
Exclusive ==
  \A z \in Zones, r, q \in Robots :
    r # q /\ Held(holders, r, z) /\ Held(holders, q, z) =>
      Sharable(z, holders[z][r], holders[z][q])

(* An entry mark never outlives its token: otherwise the next token of that *)
(* robot for that zone would be taken back before the robot gets in.        *)
EnteredHeld == \A p \in entered : Held(holders, p[1], p[2])

(* Tokens exist only for zones of the current map.                          *)
HeldKnown == \A z \in Zones, r \in Robots : Held(holders, r, z) => z \in known

(* What before has to be to stand for the times at which waits began: a     *)
(* strict weak order on the robots that wait.                               *)
AgeOrder ==
  /\ \A p \in before : waits[p[1]] # {} /\ waits[p[2]] # {}
  /\ \A p \in before : <<p[2], p[1]>> \notin before
  /\ \A p \in before, r \in Robots :
       waits[r] # {} => <<p[1], r>> \in before \/ <<r, p[2]>> \in before

(* No wait is overtaken without bound, whatever the priorities: the count   *)
(* can pass MaxBypass only by the robots served in the very cycle in which  *)
(* it reaches it.                                                           *)
BypassBound ==
  \A r \in Robots :
    bypassed[r] <= IF MaxBypass = 0 THEN 0
                   ELSE MaxBypass - 1 + Cardinality(Robots \ {r})

(* Every robot that waits names a cause, and no cause is a bystander: it    *)
(* holds a wanted zone, or it is a starving robot that waits for one too.   *)
CausesTrue ==
  \A r \in Robots : waits[r] # {} =>
    /\ blockers[r] # {}
    /\ \A b \in blockers[r] :
         /\ b # r
         /\ \/ \E z \in waits[r] : Held(holders, b, z)
            \/ bypassed[b] >= MaxBypass /\ waits[b] \cap waits[r] # {}

(* What `update' leaves of the wait-for graph has true edges, whatever was  *)
(* observed, reserved, forgotten or mapped anew before; between two cycles  *)
(* a forgotten robot or a new map may take a named cause away.              *)
CyclesNameCauses ==
  [][\A v \in [Robots -> Views] : Update(v) => CausesTrue']_vars

(* Whatever the observations say, the greedy passes of the next cycle have  *)
(* exactly one outcome: Update is never blocked and leaves nothing open,    *)
(* which the loops over sorted robots of `update' have by their form.       *)
Determined ==
  \A v \in [Robots -> Views] :
    LET back == AfterReturn(v) IN
    \E reg \in SUBSET Intruders(back, v) :
      /\ \A other \in SUBSET Intruders(back, v) :
           IsRegistration(back, other, v) <=> other = reg
      /\ LET h == WithTokens(back, reg, v)
             Q == Queue(h, v)
         IN  \E G \in SUBSET Needy(Q) : \A other \in SUBSET Needy(Q) :
               IsGrant(h, Q, other, Order(Q, v), v) <=> other = G
=============================================================================
