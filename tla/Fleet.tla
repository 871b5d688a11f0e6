-------------------------------- MODULE Fleet --------------------------------
(***************************************************************************)
(* A fleet under the monitor: the simulated robots (simulator/robot.py),   *)
(* driven by run_scenario over InMemorySimulatorTransport (scenario.py),   *)
(* composed with the decision engine.  The robots follow their routes; the *)
(* conflicts the engine is given are those of where they really are.       *)
(*                                                                         *)
(* A tick of the run: the robots apply their latest action and publish     *)
(* (Drive), the monitor observes (Observe) and decides (Engine's stages),  *)
(* the actions reach the robots (Deliver).  All of it is one coroutine.    *)
(***************************************************************************)
EXTENDS Engine, Sequences

CONSTANTS Poses,
          Swept(_, _), \* ground covered from a pose to the next; Swept(p, p): standing
          Scenarios,   \* the routes a run may start with: initial pose, then path
          TickLimit    \* max_ticks

ASSUME ScenarioAssumption ==
    /\ Scenarios \subseteq [Robots -> Seq(Poses) \ {<<>>}]
    /\ TickLimit \in Nat \ {0} /\ TickLimit <= MaxTick

\* resume_envelope is the convex hull of both footprints, or contains it.
ASSUME SweptAssumption ==
    \A p, q \in Poses : Swept(p, p) \cup Swept(q, q) \subseteq Swept(p, q)

VARIABLES
    route,       \* the scenario's path of each robot
    node,        \* how far the robot is on it
    latest,      \* latest_action
    terminal,    \* robots that have published at their goal
    store,       \* what the monitor last heard of each robot, and when
    clock,       \* ticks of the run
    phase,       \* where run_scenario is
    unresolved   \* an alarm other than that of a stale state was raised

fleetVars == <<route, node, latest, terminal, store, clock, phase, unresolved>>
allVars == <<vars, fleetVars>>

\* Envelopes of a robot of routes rt that stands at node n of its route.
Goal(rt, n, r) == n[r] = Len(rt[r])
Here(rt, n, r) == rt[r][n[r]]
Following(rt, n, r) == IF Goal(rt, n, r) THEN Here(rt, n, r) ELSE rt[r][n[r] + 1]
Envelope(rt, n, r, v) ==
    IF v = PAUSE THEN Swept(Here(rt, n, r), Here(rt, n, r))
    ELSE Swept(Here(rt, n, r), Following(rt, n, r))

\* build_conflict_model: the action pairs of two robots whose envelopes meet.
NoGoodOf(i, v, j, w) == {[robot |-> i, forbidden |-> v], [robot |-> j, forbidden |-> w]}

Pairs == {p \in Robots \X Robots : p[1] # p[2]}

Conflicts(rt, n) ==
    UNION {{NoGoodOf(p[1], a[1], p[2], a[2]) : a \in {b \in Actions \X Actions :
                Envelope(rt, n, p[1], b[1]) \cap Envelope(rt, n, p[2], b[2]) # {}}} :
           p \in Pairs}

\* What the monitor sees of robots at nodes n whose states are stale for S.
Sighting(rt, n, S) ==
    [present |-> Robots, stale |-> S, atGoal |-> {r \in Robots : Goal(rt, n, r)},
     noGoods |-> Conflicts(rt, n), unsafe |-> Conflicts(rt, n)]

Nodes(rt) ==
    {n \in [Robots -> UNION {1..Len(rt[r]) : r \in Robots}] :
        \A r \in Robots : n[r] \in 1..Len(rt[r])}

\* Whatever the robots get to and whoever falls silent, the engine may be called with.
Sightings ==
    UNION {{Sighting(rt, n, S) : n \in Nodes(rt), S \in SUBSET Robots} : rt \in Scenarios}

ASSUME SightingAssumption == Sightings \subseteq Observations

FleetTypeOK ==
    /\ TypeOK
    /\ route \in Scenarios
    /\ node \in Nodes(route)
    /\ latest \in Assignment
    /\ terminal \subseteq Robots
    /\ store \in [Robots -> [node : Nat, at : 0..TickLimit]]
    /\ clock \in 0..TickLimit
    /\ phase \in {"driving", "exchanging", "done"}
    /\ unresolved \in BOOLEAN

FleetInit ==
    /\ Init
    /\ route \in Scenarios
    /\ node = [r \in Robots |-> 1]
    /\ latest = AllPaused
    /\ terminal = {}
    /\ store = [r \in Robots |-> [node |-> 1, at |-> 0]]
    /\ clock = 0
    /\ phase = "driving"
    /\ unresolved = FALSE
-----------------------------------------------------------------------------
AtGoal(r) == Goal(route, node, r)
AllAtGoal == \A r \in Robots : AtGoal(r)

\* Mutant of Moves: the last action is applied beyond the goal.
MovesOn(r) == latest[r] = RESUME

Moves(r) == latest[r] = RESUME /\ ~AtGoal(r)

\* advance_for_tick, for every robot
Advanced == [r \in Robots |-> IF Moves(r) THEN node[r] + 1 ELSE node[r]]

\* Mutant of Publishes: a robot that has arrived has nothing more to say.
PublishesEnRoute(n, r) == ~Goal(route, n, r)

\* Mutant of Publishes: a robot that waits does not repeat itself.
PublishesMoves(n, r) == n[r] # node[r]

\* should_publish_state: while short of the goal, and once at it.
Publishes(n, r) == ~Goal(route, n, r) \/ r \notin terminal

\* The robots move; those that publish have their state stored before the tick.
Drive ==
    /\ phase = "driving"
    /\ clock' = clock + 1
    /\ node' = Advanced
    /\ store' = [r \in Robots |->
         IF Publishes(node', r) THEN [node |-> node'[r], at |-> clock'] ELSE store[r]]
    /\ terminal' = terminal \cup {r \in Robots : Goal(route, node', r)}
    /\ phase' = "exchanging"
    /\ UNCHANGED <<vars, route, latest, unresolved>>

StaleRobots == {r \in Robots : clock - store[r].at >= StaleTicks}

Observe ==
    /\ phase = "exchanging"
    /\ \E o \in {Sighting(route, [r \in Robots |-> store[r].node], StaleRobots)} : Prepare(o)
    /\ UNCHANGED fleetVars

Decide ==
    /\ Solve \/ Preview \/ Validate
    /\ UNCHANGED fleetVars

\* Mutant of Received: robots keep an action until they are told to move.
ReceivedResumes ==
    [r \in Robots |-> IF decisions[r] = RESUME THEN RESUME ELSE latest[r]]

\* Mutant of Received: the guard is the wrong way round.
ReceivedAtGoal == [r \in Robots |-> IF AtGoal(r) THEN decisions[r] ELSE latest[r]]

\* receive_action, for the robots that are not at their goal.
Received == [r \in Robots |-> IF AtGoal(r) THEN latest[r] ELSE decisions[r]]

\* The tick's actions arrive; the run ends at the last goal or the tick limit.
Deliver ==
    /\ Commit \/ Discard
    /\ latest' = Received
    /\ unresolved' = (unresolved \/ alarm \/ affected # {})
    /\ phase' = IF AllAtGoal \/ clock = TickLimit THEN "done" ELSE "driving"
    /\ UNCHANGED <<route, node, terminal, store, clock>>

FleetNext == Drive \/ Observe \/ Decide \/ Deliver

\* run_scenario awaits nothing that does not come: its next step is always taken.
FleetSpec == FleetInit /\ [][FleetNext]_allVars /\ WF_allVars(FleetNext)
-----------------------------------------------------------------------------
\* When the monitor decides it knows where every robot stands, also those that have
\* fallen silent at their goal and those whose state has gone stale.
MonitorSeesAll ==
    phase = "exchanging" => \A r \in Robots : store[r].node = node[r]

\* A robot is on the move only where the others leave it room: the run implements
\* traffic without collisions, whatever the routes, even from overlapping footprints.
PlaceOf == [r \in Robots |-> Here(route, node, r)]
Abstract == INSTANCE Traffic WITH Robots <- Robots, Poses <- Poses, Swept <- Swept,
                                  place <- PlaceOf
ImplementsTraffic == Abstract!Spec

\* No exchange is lost: it moves somebody, finds everybody arrived or raises the alarm.
EveryExchangeCounts ==
    [][phase = "exchanging" /\ phase' # "exchanging" =>
        \/ AllAtGoal
        \/ alarm \/ affected # {}
        \/ \E r \in Robots : Moves(r)']_allVars

\* A run with a tick for every node of the routes ends with every robot at its goal,
\* or has raised the alarm.
RunCompletes == <>(phase = "done" /\ (AllAtGoal \/ unresolved))
=============================================================================
