----------------------------- MODULE FleetProofs -----------------------------
(***************************************************************************)
(* Theorems about a fleet under the monitor, for any number of robots, any *)
(* routes, any geometry whose sweeps contain the footprints at both ends,  *)
(* and any configuration: it implements Traffic.  Each step of the fleet   *)
(* is a step of the engine or leaves it alone, so the engine's invariants  *)
(* are available; what is added is that the monitor's picture is true when *)
(* it decides, and that its decisions hold until the robots move.          *)
(***************************************************************************)
EXTENDS Fleet, GrantProofs

\* The monitor's picture of robots that have fallen silent is still true.
SilentAtGoal == \A r \in terminal : AtGoal(r) /\ store[r].node = node[r]

\* A call of decide is under way only during an exchange, on a true sighting.
SightingTrue ==
    /\ stage # "idle" => phase = "exchanging" /\ obs = Sighting(route, node, StaleRobots)
    /\ MonitorSeesAll

\* What a robot is about to do, and the ground it will need for it.
Intent(r) == IF Moves(r) THEN RESUME ELSE PAUSE
ClearToMove ==
    phase = "driving" => \A r \in Robots : Moves(r) =>
        \A q \in Robots \ {r} :
            Envelope(route, node, r, RESUME) \cap Envelope(route, node, q, Intent(q)) = {}

FleetInv ==
    /\ OverrideInv
    /\ FleetTypeOK
    /\ SilentAtGoal
    /\ SightingTrue
    /\ ClearToMove
    /\ phase = "driving" => clock < TickLimit

\* The node a robot stands at and the next one lie on its route.
LEMMA OnRoute ==
    ASSUME NEW rt \in Scenarios, NEW n \in Nodes(rt), NEW r \in Robots
    PROVE  /\ rt[r] \in Seq(Poses) /\ Len(rt[r]) \in Nat
           /\ n[r] \in 1..Len(rt[r])
           /\ Here(rt, n, r) \in Poses
           /\ Following(rt, n, r) \in Poses
<1>1. rt[r] \in Seq(Poses) /\ Len(rt[r]) \in Nat
  BY ScenarioAssumption
<1>2. n[r] \in 1..Len(rt[r])
  BY DEF Nodes
<1>3. Here(rt, n, r) \in Poses
  BY <1>1, <1>2 DEF Here
<1>4. Following(rt, n, r) \in Poses
  <2>1. CASE Goal(rt, n, r)
    BY <1>3, <2>1 DEF Following
  <2>2. CASE ~Goal(rt, n, r)
    <3>1. n[r] + 1 \in 1..Len(rt[r])
      BY <1>1, <1>2, <2>2 DEF Goal
    <3> QED
      BY <1>1, <2>2, <3>1 DEF Following
  <2> QED
    BY <2>1, <2>2
<1> QED
  BY <1>1, <1>2, <1>3, <1>4

\* Positions within everyone's route are nodes.
LEMMA IsNodes ==
    ASSUME NEW rt \in Scenarios, NEW n, DOMAIN n = Robots, n = [r \in Robots |-> n[r]],
           \A r \in Robots : n[r] \in 1..Len(rt[r])
    PROVE  n \in Nodes(rt)
BY DEF Nodes

\* At its goal a robot covers the same ground whatever it is told.
LEMMA EnvelopeAtGoal ==
    ASSUME NEW rt, NEW n, NEW r, Goal(rt, n, r), NEW v, NEW w
    PROVE  Envelope(rt, n, r, v) = Envelope(rt, n, r, w)
BY DEF Envelope, Following

\* Two envelopes that meet make an unsafe pair of the sighting.
LEMMA MeetingIsUnsafe ==
    ASSUME NEW rt, NEW n, NEW S, NEW i \in Robots, NEW j \in Robots, i # j,
           NEW v \in Actions, NEW w \in Actions,
           Envelope(rt, n, i, v) \cap Envelope(rt, n, j, w) # {}
    PROVE  NoGoodOf(i, v, j, w) \in Sighting(rt, n, S).unsafe
<1>1. <<i, j>> \in Pairs
  BY DEF Pairs
<1>2. <<v, w>> \in {b \in Actions \X Actions :
                      Envelope(rt, n, <<i, j>>[1], b[1])
                      \cap Envelope(rt, n, <<i, j>>[2], b[2]) # {}}
  OBVIOUS
<1>3. NoGoodOf(i, v, j, w) \in Conflicts(rt, n)
  <2> DEFINE F(p) == {NoGoodOf(p[1], a[1], p[2], a[2]) : a \in {b \in Actions \X Actions :
                        Envelope(rt, n, p[1], b[1]) \cap Envelope(rt, n, p[2], b[2]) # {}}}
  <2>1. NoGoodOf(i, v, j, w) \in F(<<i, j>>)
    BY <1>2
  <2>2. Conflicts(rt, n) = UNION {F(p) : p \in Pairs}
    BY DEF Conflicts
  <2> HIDE DEF F
  <2> QED
    BY <1>1, <2>1, <2>2
<1> QED
  BY <1>3 DEF Sighting

\* The engine may be called with whatever the fleet looks like.
LEMMA SightingObserved ==
    ASSUME NEW rt \in Scenarios, NEW n \in Nodes(rt), NEW S \in SUBSET Robots
    PROVE  Sighting(rt, n, S) \in Observations
BY SightingAssumption DEF Sightings
-----------------------------------------------------------------------------
\* At the start nobody moves and everyone is where the monitor thinks.
LEMMA FleetStart == FleetInit => FleetInv
<1> SUFFICES ASSUME FleetInit PROVE FleetInv
  OBVIOUS
<1>1. OverrideInv
  BY OverrideInit DEF FleetInit
<1>2. node \in Nodes(route)
  <2>1. \A r \in Robots : 1 \in 1..Len(route[r])
    <3> SUFFICES ASSUME NEW r \in Robots PROVE 1 \in 1..Len(route[r])
      OBVIOUS
    <3>1. route[r] \in Seq(Poses) /\ route[r] # <<>>
      BY ScenarioAssumption DEF FleetInit
    <3> QED
      BY <3>1
  <2> QED
    BY <2>1, IsNodes DEF FleetInit
<1>3. latest \in Assignment /\ \A r \in Robots : ~Moves(r)
  BY DEF FleetInit, AllPaused, Assignment, Actions, Moves, PAUSE, RESUME
<1>4. FleetTypeOK
  <2>1. TypeOK
    BY <1>1 DEF OverrideInv, TickInv
  <2>2. 0 \in 0..TickLimit
    BY ScenarioAssumption
  <2>3. store \in [Robots -> [node : Nat, at : 0..TickLimit]]
    BY <2>2 DEF FleetInit
  <2> QED
    BY <1>2, <1>3, <2>1, <2>2, <2>3 DEF FleetInit, FleetTypeOK
<1>5. clock < TickLimit
  BY ScenarioAssumption DEF FleetInit
<1> QED
  BY <1>1, <1>3, <1>4, <1>5 DEF FleetInit, Init, FleetInv, SilentAtGoal, SightingTrue,
                                MonitorSeesAll, ClearToMove

\* The robots move along their routes, and whoever falls silent has told its last node.
LEMMA DriveKeeps ==
    ASSUME FleetInv, Drive
    PROVE  FleetInv'
<1>1. OverrideInv'
  BY OverrideStep DEF FleetInv, Drive
<1>2. node \in Nodes(route) /\ route \in Scenarios /\ stage = "idle" /\ clock < TickLimit
  BY DEF FleetInv, FleetTypeOK, TypeOK, SightingTrue, Drive
<1>3. \A r \in Robots : node'[r] = (IF Moves(r) THEN node[r] + 1 ELSE node[r])
  BY DEF Drive, Advanced
<1>4. node' \in Nodes(route)
  <2>1. \A r \in Robots : node'[r] \in 1..Len(route[r])
    BY <1>2, <1>3, OnRoute DEF Moves, AtGoal, Goal
  <2> QED
    BY <1>2, <2>1, IsNodes DEF Drive, Advanced
<1>5. \A r \in terminal : AtGoal(r)' /\ store[r].node = node'[r]
  BY <1>3 DEF FleetInv, FleetTypeOK, SilentAtGoal, AtGoal, Goal, Moves, Drive
<1>6. \A r \in Robots : store'[r] = (IF Publishes(node', r) THEN [node |-> node'[r], at |-> clock']
                                    ELSE store[r])
  BY DEF Drive
<1>7. \A r \in Robots : store'[r].node = node'[r]
  <2> SUFFICES ASSUME NEW r \in Robots PROVE store'[r].node = node'[r]
    OBVIOUS
  <2>1. CASE Publishes(node', r)
    <3>1. store'[r] = [node |-> node'[r], at |-> clock']
      BY <1>6, <2>1, Zenon
    <3> QED
      BY <3>1
  <2>2. CASE ~Publishes(node', r)
    BY <1>5, <1>6, <2>2 DEF Publishes
  <2> QED
    BY <2>1, <2>2
<1>8. clock' \in 0..TickLimit
  BY <1>2, ScenarioAssumption DEF Drive, FleetInv, FleetTypeOK
<1>9. FleetTypeOK'
  <2>1. \A r \in Robots : store'[r] \in [node : Nat, at : 0..TickLimit]
    <3> SUFFICES ASSUME NEW r \in Robots PROVE store'[r] \in [node : Nat, at : 0..TickLimit]
      OBVIOUS
    <3>1. node'[r] \in Nat
      BY <1>2, <1>4, OnRoute
    <3>2. store[r] \in [node : Nat, at : 0..TickLimit]
      BY DEF FleetInv, FleetTypeOK
    <3>3. store'[r] \in {[node |-> node'[r], at |-> clock'], store[r]}
      BY <1>6, Zenon
    <3> QED
      BY <1>8, <3>1, <3>2, <3>3
  <2>2. store' \in [Robots -> [node : Nat, at : 0..TickLimit]]
    BY <2>1 DEF Drive
  <2>3. TypeOK'
    BY <1>1 DEF OverrideInv, TickInv
  <2>4. terminal' \subseteq Robots
    BY DEF Drive, FleetInv, FleetTypeOK
  <2>5. route' \in Scenarios /\ latest' \in Assignment /\ unresolved' \in BOOLEAN
        /\ phase' = "exchanging" /\ route' = route
    BY DEF Drive, FleetInv, FleetTypeOK
  <2> QED
    BY <1>4, <1>8, <2>2, <2>3, <2>4, <2>5 DEF FleetTypeOK
<1>10. SilentAtGoal'
  BY <1>5, <1>7, <1>9 DEF SilentAtGoal, AtGoal, Drive, FleetTypeOK
<1>11. SightingTrue'
  BY <1>2, <1>7 DEF SightingTrue, MonitorSeesAll, Drive, vars
<1> QED
  BY <1>1, <1>9, <1>10, <1>11 DEF FleetInv, ClearToMove, Drive

\* What is observed is where the robots stand.
LEMMA ObserveKeeps ==
    ASSUME FleetInv, Observe
    PROVE  FleetInv' /\ Next
<1> DEFINE seen == Sighting(route, [r \in Robots |-> store[r].node], StaleRobots)
<1>1. [r \in Robots |-> store[r].node] = node
  BY DEF Observe, FleetInv, FleetTypeOK, SightingTrue, MonitorSeesAll, Nodes
<1>2. seen = Sighting(route, node, StaleRobots) /\ Prepare(seen)
  BY <1>1 DEF Observe
<1>3. seen \in Observations
  BY <1>2, SightingObserved DEF FleetInv, FleetTypeOK, StaleRobots
<1>4. Next
  BY <1>2, <1>3 DEF Next
<1>5. OverrideInv'
  BY <1>4, OverrideStep DEF FleetInv
<1>6. stage' = "prepared" /\ obs' = seen /\ UNCHANGED fleetVars /\ phase = "exchanging"
  BY <1>2 DEF Prepare, Observe
<1>7. FleetTypeOK'
  BY <1>5, <1>6 DEF FleetInv, FleetTypeOK, OverrideInv, TickInv, fleetVars
<1>8. SightingTrue'
  BY <1>2, <1>6 DEF FleetInv, SightingTrue, MonitorSeesAll, StaleRobots, Sighting, fleetVars
<1> QED
  BY <1>4, <1>5, <1>6, <1>7, <1>8 DEF FleetInv, SilentAtGoal, AtGoal, ClearToMove, fleetVars

\* While decide works nothing moves.
LEMMA DecideKeeps ==
    ASSUME FleetInv, Decide
    PROVE  FleetInv' /\ Next
<1>1. Next
  BY DEF Decide, Next
<1>2. OverrideInv'
  BY <1>1, OverrideStep DEF FleetInv
<1>3. obs' = obs /\ stage # "idle" /\ UNCHANGED fleetVars
  BY DEF Decide, Solve, Preview, Validate
<1>4. FleetTypeOK'
  BY <1>2, <1>3 DEF FleetInv, FleetTypeOK, OverrideInv, TickInv, fleetVars
<1>5. SightingTrue'
  BY <1>3 DEF FleetInv, SightingTrue, MonitorSeesAll, StaleRobots, Sighting, fleetVars
<1> QED
  BY <1>1, <1>2, <1>3, <1>4, <1>5 DEF FleetInv, SilentAtGoal, AtGoal, ClearToMove, Moves, Intent,
                                       fleetVars

\* Nobody is told to move into ground that another robot is going to cover.
LEMMA DecidedClear ==
    ASSUME OverrideInv, FleetTypeOK, stage = "validated", obs = Sighting(route, node, StaleRobots),
           NEW r \in Robots, NEW q \in Robots \ {r}, decisions[r] = RESUME
    PROVE  /\ decisions[q] \in Actions
           /\ Envelope(route, node, r, RESUME) \cap Envelope(route, node, q, decisions[q]) = {}
<1>1. obs.present = Robots
  BY DEF Sighting
<1>2. decisions[q] \in Actions
  BY <1>1 DEF OverrideInv, TickInv, Decided
<1>3. ASSUME Envelope(route, node, r, RESUME) \cap Envelope(route, node, q, decisions[q]) # {}
      PROVE  FALSE
  <2> DEFINE g == NoGoodOf(r, RESUME, q, decisions[q])
  <2>1. g \in obs.unsafe
    BY <1>2, <1>3, MeetingIsUnsafe DEF Actions
  <2>2. Violated(g, decisions) /\ \E l \in g : l.robot = r
    BY DEF Violated, NoGoodOf
  <2>3. decisions[r] = PAUSE
    BY <2>1, <2>2 DEF OverrideInv, MoversSafe, Violations
  <2> QED
    BY <2>3 DEF PAUSE, RESUME
<1> QED
  BY <1>2, <1>3

\* The robots receive what was decided on where they stand.
LEMMA DeliverKeeps ==
    ASSUME FleetInv, Deliver
    PROVE  FleetInv' /\ Next
<1>1. Next /\ stage = "validated" /\ stage' = "idle"
  BY DEF Deliver, Next, Commit, Discard, Return
<1>2. OverrideInv'
  BY <1>1, OverrideStep DEF FleetInv
<1>3. OverrideInv /\ FleetTypeOK /\ obs = Sighting(route, node, StaleRobots)
  BY <1>1 DEF FleetInv, SightingTrue
<1>4. \A r \in Robots : decisions[r] \in Actions
  BY <1>1, <1>3 DEF OverrideInv, TickInv, Decided, Sighting
<1>5. FleetTypeOK'
  <2>1. latest' \in Assignment
    BY <1>3, <1>4 DEF Deliver, Received, FleetTypeOK, Assignment
  <2>2. TypeOK' /\ unresolved' \in BOOLEAN
    BY <1>2, <1>3 DEF OverrideInv, TickInv, TypeOK, Deliver, FleetTypeOK
  <2> QED
    BY <1>3, <2>1, <2>2 DEF Deliver, FleetTypeOK
<1>6. phase' = "driving" => clock' < TickLimit
  BY <1>3, ScenarioAssumption DEF Deliver, FleetTypeOK
<1>7. ASSUME NEW r \in Robots, Moves(r)', NEW q \in Robots \ {r}
      PROVE  Envelope(route, node, r, RESUME)' \cap Envelope(route, node, q, Intent(q))' = {}
  <2>1. decisions[r] = RESUME
    BY <1>7 DEF Moves, Deliver, Received, AtGoal, Goal
  <2>2. Envelope(route, node, r, RESUME) \cap Envelope(route, node, q, decisions[q]) = {}
    BY <1>1, <1>3, <2>1, DecidedClear
  <2>3. Envelope(route, node, q, decisions[q]) = Envelope(route, node, q, Intent(q)')
    <3>1. CASE AtGoal(q)
      BY <3>1, EnvelopeAtGoal DEF AtGoal
    <3>2. CASE ~AtGoal(q)
      BY <1>4, <3>2 DEF Intent, Moves, Deliver, Received, AtGoal, Goal, Actions
    <3> QED
      BY <3>1, <3>2
  <2>4. route' = route /\ node' = node
    BY DEF Deliver
  <2> QED
    BY <2>2, <2>3, <2>4 DEF Envelope, Here, Following, Goal
<1>8. ClearToMove'
  BY <1>7 DEF ClearToMove
<1>9. SilentAtGoal' /\ SightingTrue'
  BY <1>1 DEF FleetInv, SilentAtGoal, AtGoal, Goal, SightingTrue, MonitorSeesAll, Deliver
<1> QED
  BY <1>1, <1>2, <1>5, <1>6, <1>8, <1>9 DEF FleetInv

\* Every step of the fleet keeps the invariant.
LEMMA FleetStep == FleetInv /\ [FleetNext]_allVars => FleetInv'
<1> SUFFICES ASSUME FleetInv, [FleetNext]_allVars PROVE FleetInv'
  OBVIOUS
<1>1. CASE FleetNext
  BY <1>1, DriveKeeps, ObserveKeeps, DecideKeeps, DeliverKeeps DEF FleetNext
<1>2. CASE UNCHANGED allVars
  <2>1. OverrideInv'
    BY <1>2, OverrideStep DEF FleetInv, allVars
  <2> QED
    BY <1>2, <2>1 DEF allVars, vars, tickVars, fleetVars, FleetInv, FleetTypeOK, TypeOK, SilentAtGoal,
                      AtGoal, Goal, SightingTrue, StaleRobots, MonitorSeesAll, ClearToMove, Moves,
                      Intent
<1> QED
  BY <1>1, <1>2

\* The invariant holds throughout.
LEMMA FleetHolds == FleetSpec => []FleetInv
BY FleetStart, FleetStep, PTL DEF FleetSpec

\* Robots, store and monitor keep their types whatever the routes.
THEOREM FleetTypeCorrect == FleetSpec => []FleetTypeOK
<1>1. FleetInv => FleetTypeOK
  BY DEF FleetInv
<1> QED
  BY <1>1, FleetHolds, PTL

\* Robots may fall silent at their goal: when the monitor decides, what it last heard
\* of every robot is still where that robot stands.
THEOREM SeesAllTheorem == FleetSpec => []MonitorSeesAll
<1>1. FleetInv => MonitorSeesAll
  BY DEF FleetInv, SightingTrue
<1> QED
  BY <1>1, FleetHolds, PTL
-----------------------------------------------------------------------------
(* The refinement.  Only Drive moves robots, and each covers then exactly  *)
(* the envelope of what it intends to do.                                  *)

\* Robots stand on their routes.
LEMMA PlaceType ==
    ASSUME NEW rt \in Scenarios, NEW n \in Nodes(rt)
    PROVE  [r \in Robots |-> Here(rt, n, r)] \in [Robots -> Poses]
BY OnRoute

\* The ground covered during Drive is the envelope of the robot's intent.
LEMMA DriveCovers ==
    ASSUME FleetInv, Drive, NEW r \in Robots
    PROVE  /\ Swept(PlaceOf[r], PlaceOf'[r]) = Envelope(route, node, r, Intent(r))
           /\ PlaceOf'[r] # PlaceOf[r] => Moves(r)
<1>1. PlaceOf[r] = Here(route, node, r) /\ PlaceOf'[r] = Here(route, node', r)
  BY DEF PlaceOf, Drive
<1>2. node'[r] = (IF Moves(r) THEN node[r] + 1 ELSE node[r])
  BY DEF Drive, Advanced
<1>3. CASE Moves(r)
  BY <1>1, <1>2, <1>3 DEF Intent, Envelope, Following, Here, Moves, AtGoal, PAUSE, RESUME
<1>4. CASE ~Moves(r)
  BY <1>1, <1>2, <1>4 DEF Intent, Envelope, Here, PAUSE, RESUME
<1> QED
  BY <1>3, <1>4

\* Each step of the fleet is one of the traffic or leaves every robot where it is.
LEMMA StepImplements == FleetInv /\ FleetInv' /\ [FleetNext]_allVars => [Abstract!Move]_PlaceOf
<1> SUFFICES ASSUME FleetInv, FleetInv', [FleetNext]_allVars PROVE [Abstract!Move]_PlaceOf
  OBVIOUS
<1>1. CASE Drive
  <2>1. PlaceOf' \in [Robots -> Poses]
    BY PlaceType DEF FleetInv, PlaceOf, FleetTypeOK
  <2>2. ASSUME NEW r \in Robots, PlaceOf'[r] # PlaceOf[r], NEW q \in Robots \ {r}
        PROVE  Swept(PlaceOf[r], PlaceOf'[r]) \cap Swept(PlaceOf[q], PlaceOf'[q]) = {}
    <3>1. Moves(r)
      BY <1>1, <2>2, DriveCovers
    <3>2. Envelope(route, node, r, RESUME) \cap Envelope(route, node, q, Intent(q)) = {}
      BY <1>1, <3>1 DEF FleetInv, ClearToMove, Drive
    <3> QED
      BY <1>1, <3>1, <3>2, DriveCovers DEF Intent
  <2> QED
    BY <2>1, <2>2 DEF Abstract!Move, Abstract!Sweep
<1>2. CASE UNCHANGED <<route, node>>
  BY <1>2 DEF PlaceOf, Here
<1>3. Observe \/ Decide \/ Deliver \/ UNCHANGED allVars => UNCHANGED <<route, node>>
  BY DEF Observe, Decide, Deliver, allVars, fleetVars
<1> QED
  BY <1>1, <1>2, <1>3 DEF FleetNext

\* The monitored fleet implements traffic without collisions: a robot moves only
\* where nothing that another robot covers meanwhile, moving or standing, is touched.
THEOREM FleetImplements == FleetSpec => ImplementsTraffic
<1>1. FleetInit => Abstract!Init
  BY FleetStart, PlaceType DEF FleetInv, FleetTypeOK, PlaceOf, Abstract!Init
<1> QED
  BY <1>1, FleetHolds, StepImplements, PTL DEF FleetSpec, ImplementsTraffic, Abstract!Spec

\* Robots that stand clear of each other never come to overlap.
StayApart ==
    [][\A r, q \in Robots : r # q /\ Abstract!Apart(r, q) => Abstract!Apart(r, q)']_allVars

\* From any start, whoever is clear of another robot stays clear of it: this is what
\* the monitor is deployed for.
THEOREM NoCollision == FleetSpec => StayApart
<1>1. ASSUME FleetInv, FleetInv', [FleetNext]_allVars, NEW r \in Robots, NEW q \in Robots, r # q,
             Abstract!Apart(r, q)
      PROVE  Abstract!Apart(r, q)'
  <2>1. CASE PlaceOf' = PlaceOf
    BY <1>1, <2>1 DEF Abstract!Apart
  <2>2. CASE PlaceOf'[r] = PlaceOf[r] /\ PlaceOf'[q] = PlaceOf[q]
    BY <1>1, <2>2 DEF Abstract!Apart
  <2>3. CASE PlaceOf' # PlaceOf /\ (PlaceOf'[r] # PlaceOf[r] \/ PlaceOf'[q] # PlaceOf[q])
    <3>1. Swept(PlaceOf[r], PlaceOf'[r]) \cap Swept(PlaceOf[q], PlaceOf'[q]) = {}
      BY <1>1, <2>3, StepImplements DEF Abstract!Move, Abstract!Sweep
    <3>2. PlaceOf \in [Robots -> Poses] /\ PlaceOf' \in [Robots -> Poses]
      BY <1>1, PlaceType DEF FleetInv, PlaceOf, FleetTypeOK
    <3>3. /\ Swept(PlaceOf'[r], PlaceOf'[r]) \subseteq Swept(PlaceOf[r], PlaceOf'[r])
          /\ Swept(PlaceOf'[q], PlaceOf'[q]) \subseteq Swept(PlaceOf[q], PlaceOf'[q])
      BY <3>2, SweptAssumption
    <3> QED
      BY <3>1, <3>3 DEF Abstract!Apart
  <2> QED
    BY <2>1, <2>2, <2>3
<1>2. FleetInv /\ FleetInv' /\ [FleetNext]_allVars =>
        [\A r, q \in Robots : r # q /\ Abstract!Apart(r, q) => Abstract!Apart(r, q)']_allVars
  BY <1>1
<1> QED
  BY <1>2, FleetHolds, PTL DEF FleetSpec, StayApart
-----------------------------------------------------------------------------
(* No exchange is lost.  A robot short of its goal has reported before the *)
(* tick, so it is not an obstacle to itself; if it has no conflict it      *)
(* moves, and if it has one its component moves somebody or the alarm is   *)
(* raised.                                                                 *)

\* Whoever is short of its goal has just been heard.
EnRouteHeard == phase = "exchanging" => \A r \in Robots : ~AtGoal(r) => store[r].at = clock

ExchangeInv == FleetInv /\ GrantInv /\ IsolatedMoves /\ EnRouteHeard

LEMMA ExchangeStart == FleetInit => ExchangeInv
<1> SUFFICES ASSUME FleetInit PROVE ExchangeInv
  OBVIOUS
<1>1. ObstacleInv /\ stage = "idle" /\ phase = "driving"
  BY TickInit DEF FleetInit, Init, ObstacleInv, HardInv, UnavailablePaused, InTick
<1>2. GrantInv
  BY <1>1, GrantIdle
<1> QED
  BY <1>1, <1>2, FleetStart DEF ExchangeInv, IsolatedMoves, Decided, EnRouteHeard

\* A step of the fleet is a step of the engine or leaves it alone.
LEMMA FleetStepsEngine == FleetInv /\ [FleetNext]_allVars => [Next]_vars
<1>1. Drive \/ UNCHANGED allVars => UNCHANGED vars
  BY DEF Drive, allVars
<1> QED
  BY <1>1, ObserveKeeps, DecideKeeps, DeliverKeeps DEF FleetNext

LEMMA ExchangeStep == ExchangeInv /\ [FleetNext]_allVars => ExchangeInv'
<1> SUFFICES ASSUME ExchangeInv, [FleetNext]_allVars PROVE ExchangeInv'
  OBVIOUS
<1>1. FleetInv' /\ GrantInv' /\ IsolatedMoves'
  BY FleetStep, FleetStepsEngine, GrantStep, IsolatedStep
     DEF ExchangeInv, FleetInv, OverrideInv
<1>2. EnRouteHeard'
  <2>1. CASE Drive
    BY <2>1 DEF Drive, EnRouteHeard, Publishes, AtGoal, Goal
  <2>2. CASE Observe \/ Decide \/ UNCHANGED allVars
    <3>1. UNCHANGED fleetVars
      BY <2>2 DEF Observe, Decide, allVars
    <3> QED
      BY <3>1 DEF fleetVars, ExchangeInv, EnRouteHeard, AtGoal, Goal
  <2>3. CASE Deliver
    BY <2>3 DEF Deliver, EnRouteHeard
  <2> QED
    BY <2>1, <2>2, <2>3 DEF FleetNext
<1> QED
  BY <1>1, <1>2 DEF ExchangeInv

\* Somebody short of the goal is told to move, unless the alarm is raised or an
\* override stepped in.
LEMMA SomebodyMoves ==
    ASSUME ExchangeInv, stage = "validated", ~AllAtGoal, ~alarm, affected = {}
    PROVE  \E q \in Robots : decisions[q] = RESUME
<1>1. PICK r \in Robots : ~AtGoal(r)
  BY DEF AllAtGoal
<1>2. /\ obs = Sighting(route, node, StaleRobots) /\ phase = "exchanging"
      /\ FleetTypeOK /\ TickInv /\ InTick
  BY DEF ExchangeInv, FleetInv, SightingTrue, OverrideInv, InTick
<1>3. obs.present = Robots /\ r \notin obs.atGoal
  BY <1>1, <1>2 DEF Sighting, AtGoal
<1>4. r \notin obs.stale
  <2>1. store[r].at = clock /\ clock \in Int
    BY <1>1, <1>2 DEF ExchangeInv, EnRouteHeard, FleetTypeOK
  <2>2. r \notin StaleRobots
    BY <2>1, GrantConfigAssumption DEF StaleRobots
  <2> QED
    BY <1>2, <2>2 DEF Sighting
<1>5. CASE ~Relevant(obs, r)
  <2>1. decisions[r] = PolicyAction(r)
    BY <1>3, <1>5 DEF ExchangeInv, IsolatedMoves, Decided
  <2> QED
    BY <1>3, <1>4, <2>1 DEF PolicyAction, Unavailable
<1>6. CASE Relevant(obs, r)
  <2>1. r \in Conflicting /\ Progressive
    BY <1>3, <1>6 DEF Conflicting, ExchangeInv, GrantInv, ProgressMade
  <2>2. \E q \in ComponentOf(obs, r) : decisions[q] = RESUME
    BY <2>1 DEF Progressive
  <2>3. ComponentOf(obs, r) \in SUBSET Robots
    BY <1>2, <2>1, ConflictingPeers
  <2> QED
    BY <2>2, <2>3
<1> QED
  BY <1>5, <1>6

\* No exchange with the monitor is lost: it finds every robot at its goal, raises the
\* alarm or overrides somebody, or leaves a robot short of its goal with Resume.
THEOREM ExchangeTheorem == FleetSpec => EveryExchangeCounts
<1>1. ASSUME ExchangeInv, [FleetNext]_allVars, phase = "exchanging", phase' # "exchanging",
             ~AllAtGoal, ~alarm, affected = {}
      PROVE  \E r \in Robots : Moves(r)'
  <2>1. Deliver /\ stage = "validated"
    BY <1>1 DEF FleetNext, Drive, Observe, Decide, Deliver, fleetVars, allVars, Commit, Discard
  <2>2. PICK q \in Robots : decisions[q] = RESUME
    BY <1>1, <2>1, SomebodyMoves
  <2>3. q \notin Unavailable(obs)
    BY <1>1, <2>1, <2>2 DEF ExchangeInv, GrantInv, ObstacleInv, UnavailablePaused, PAUSE, RESUME
  <2>4. ~AtGoal(q)
    BY <1>1, <2>1, <2>3 DEF ExchangeInv, FleetInv, SightingTrue, Sighting, Unavailable, AtGoal
  <2>5. latest'[q] = RESUME /\ route' = route /\ node' = node
    BY <2>1, <2>2, <2>4 DEF Deliver, Received
  <2> QED
    BY <2>4, <2>5 DEF Moves, AtGoal, Goal
<1>2. ExchangeInv /\ [FleetNext]_allVars =>
        [phase = "exchanging" /\ phase' # "exchanging" =>
            \/ AllAtGoal
            \/ alarm \/ affected # {}
            \/ \E r \in Robots : Moves(r)']_allVars
  BY <1>1 DEF ExchangeInv, FleetInv, OverrideInv, TickInv, TypeOK
<1>3. FleetSpec => []ExchangeInv
  BY ExchangeStart, ExchangeStep, PTL DEF FleetSpec
<1> QED
  BY <1>2, <1>3, PTL DEF FleetSpec, EveryExchangeCounts
=============================================================================
