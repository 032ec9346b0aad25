---------------------------- MODULE MCZoneTokens ----------------------------
(***************************************************************************)
(* Instances of ZoneTokens.  Zone `x' is an intersection, zone `c' a       *)
(* one-lane corridor that robots may share in one direction.  A view is    *)
(* one of: nothing near, approaching a chain of zones, inside a zone with  *)
(* the next one still ahead, or a stale observation.                       *)
(***************************************************************************)
EXTENDS ZoneTokens

CONSTANTS x, c, east, west, noDir, notHeld

MCZones == {x, c}
MCSameDirection == [z \in MCZones |-> z = c]
MCDirections == {east, west}
MCAligned == {<<east, east>>, <<west, west>>}

View(occ, upc, req, d, rank, frozen) ==
  [occ |-> occ, upc |-> upc, req |-> req,
   dir |-> [z \in MCZones |-> IF z = c THEN d ELSE noDir],
   rank |-> rank, frozen |-> frozen]

Away == {View({}, {}, {}, noDir, 0, FALSE)}
Approaching(ranks) ==
  {View({}, s, s, d, k, FALSE) :
     s \in {{c}, {x, c}}, d \in MCDirections, k \in ranks}
Inside(ranks) ==
  {View({c}, {c}, {}, d, 0, FALSE) : d \in MCDirections \cup {noDir}} \cup
  {View({x}, {x, c}, {c}, east, k, FALSE) : k \in ranks} \cup
  {View({x, c}, {c}, {}, east, 0, FALSE)}
Stale ==
  {View(s, {}, {}, noDir, 0, f) : s \in {{}, {c}}, f \in BOOLEAN}

\* Two robots, every kind of view.
AllViews == Away \cup Approaching({0, 1}) \cup Inside({0}) \cup Stale
=============================================================================
