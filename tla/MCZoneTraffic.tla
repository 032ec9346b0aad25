--------------------------- MODULE MCZoneTraffic ----------------------------
(***************************************************************************)
(* Instances of ZoneTraffic: zones that nobody shares, chains that overlap *)
(* partly, robot 1 of the lowest priority.  A run begins with any traffic, *)
(* or with a flow past robot 1 in which everybody stays observed.          *)
(***************************************************************************)
EXTENDS ZoneTraffic

CONSTANTS x, c, noDir, notHeld

MCZones == {x, c}
MCSameDirection == [z \in MCZones |-> FALSE]
MCPriority == [r \in Robots |-> IF r = 1 THEN 1 ELSE 0]
\* Everybody may cross one zone, or both zones in either direction.
MCChains == [r \in Robots |-> {<<x>>, <<c>>, <<x, c>>, <<c, x>>}]
MCViews == {}

VARIABLE flow   \* of the two it is

\* Robot 1 needs both zones, the others keep crossing one each.
FlowChain == [r \in Robots |-> IF r = 1 THEN <<x, c>> ELSE IF r = 2 THEN <<x>> ELSE <<c>>]

MCInit == TInit /\ flow \in BOOLEAN
MCNext ==
  /\ TNext /\ UNCHANGED flow
  /\ flow => stale' = {} /\ \A r \in Robots : route[r] = <<>> => route'[r] \in {<<>>, FlowChain[r]}

\* TFairness, needed by the flow only.
MCSpec ==
  /\ MCInit /\ [][MCNext]_<<flow, tvars>>
  /\ WF_tvars(flow /\ Cycle)
  /\ \A r \in Robots : WF_tvars(flow /\ Enter(r)) /\ WF_tvars(flow /\ Leave(r))

\* The flow never keeps a robot waiting for ever.
MCServed == flow => Served
=============================================================================
