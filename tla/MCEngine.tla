------------------------------ MODULE MCEngine ------------------------------
(* Instances of Engine for TLC: the observations a tick may be called with. *)
EXTENDS Engine

\* An unsafe action pair of two robots, as a no-good.
NG(i, vi, j, vj) == {[robot |-> i, forbidden |-> vi], [robot |-> j, forbidden |-> vj]}

\* Geometries of one pair, weakest first: a crossing, i in j's way when either
\* moves, the pair that must not meet at all, overlapping footprints.
Crossing(i, j)   == {NG(i, RESUME, j, RESUME)}
Blocking(i, j)   == Crossing(i, j) \cup {NG(i, PAUSE, j, RESUME)}
Locked(i, j)     == Blocking(i, j) \cup {NG(i, RESUME, j, PAUSE)}
Overlapping(i, j) == Locked(i, j) \cup {NG(i, PAUSE, j, PAUSE)}

PairGeometries(i, j) ==
    {{}, Crossing(i, j), Blocking(i, j), Blocking(j, i), Locked(i, j), Overlapping(i, j)}

\* Snapshots: everyone present and moving, or one robot out of the ordinary.
Ordinary == [present |-> Robots, stale |-> {}, atGoal |-> {}]
Snapshots ==
    {Ordinary}
    \cup {[Ordinary EXCEPT !.present = Robots \ {r}] : r \in {1, 2}}
    \cup {[Ordinary EXCEPT !.stale = {r}] : r \in {1, 2}}
    \cup {[Ordinary EXCEPT !.atGoal = {r}] : r \in {1, 2}}

\* A robot at its goal has nowhere to go: both its envelopes are the footprint.
Stationary(r, unsafe) ==
    \A g \in unsafe : \A l \in g : l.robot = r =>
        \A v \in Actions : (g \ {l}) \cup {[l EXCEPT !.forbidden = v]} \in unsafe

Observe(s, noGoods, unsafe) ==
    [present |-> s.present, stale |-> s.stale, atGoal |-> s.atGoal,
     noGoods |-> noGoods, unsafe |-> unsafe]

Among(present, unsafe) == {g \in unsafe : RobotsOf(g) \subseteq present}

\* The default builder: the graph holds every unsafe pair of the robots present.
Seen(S, geometries) ==
    {o \in {Observe(s, Among(s.present, u), Among(s.present, u)) : s \in S, u \in geometries} :
        \A r \in o.atGoal : Stationary(r, o.unsafe)}

\* Two robots, every geometry, every combination of conditions.
PairSnapshots ==
    {s \in [present : SUBSET {1, 2}, stale : SUBSET {1, 2}, atGoal : SUBSET {1, 2}] :
        s.stale \cup s.atGoal \subseteq s.present}
PairObservations == Seen(PairSnapshots, PairGeometries(1, 2))

\* Three robots that cross in any pattern, or are blocked in a chain.
TripleGeometries ==
    {a \cup b \cup c : a \in {{}, Crossing(1, 2), Blocking(1, 2)},
                       b \in {{}, Crossing(2, 3), Blocking(3, 2)},
                       c \in {{}, Crossing(1, 3)}}
TripleObservations == Seen(Snapshots, TripleGeometries)

\* An injected builder that missed some pairs of what geometry forbids.
MissedObservations ==
    {Observe(Ordinary, n, u) : n \in {{}, Crossing(1, 2), Crossing(2, 3)},
                               u \in {Crossing(1, 2) \cup Crossing(2, 3) \cup c :
                                        c \in {{}, Blocking(1, 3), Overlapping(1, 3)}}}

FleetObservations == TripleObservations \cup MissedObservations

\* What may be observed: a pair of robots in any condition, or all three.
MCObservations == PairObservations \cup FleetObservations

CONSTANT PairTicks,  \* bound on the ticks of two robots
         FleetTicks  \* bound on the ticks of three

VARIABLE fleet  \* which of the two is under the engine

MCInit == Init /\ fleet \in BOOLEAN

MCPrepare ==
    \/ fleet /\ manager.tick < FleetTicks /\ \E o \in FleetObservations : Prepare(o)
    \/ ~fleet /\ manager.tick < PairTicks /\ \E o \in PairObservations : Prepare(o)

\* Past the bound on ticks the model stops on purpose; it must stop nowhere else.
AtBound ==
    /\ stage = "idle"
    /\ manager.tick = IF fleet THEN FleetTicks ELSE PairTicks
    /\ UNCHANGED vars

MCNext ==
    /\ MCPrepare \/ Solve \/ Preview \/ Validate \/ Commit \/ Discard \/ AtBound
    /\ UNCHANGED fleet

MCSpec == MCInit /\ [][MCNext]_<<vars, fleet>>
=============================================================================
