------------------------------- MODULE MCFleet -------------------------------
(* Runs of small fleets for TLC, on the points of a grid. *)
EXTENDS Fleet

MCPoses == (0..3) \X (0..2)

Between(a, b) == {x \in 0..3 : (a <= x /\ x <= b) \/ (b <= x /\ x <= a)}

\* The box around both poses: the hull of a footprint that slides along an axis.
MCSwept(p, q) == Between(p[1], q[1]) \X Between(p[2], q[2])

\* perpendicular_crossing.yaml, and a robot that follows through the junction.
Crossroads == << <<<<0, 1>>, <<2, 1>>>>, <<<<1, 0>>, <<1, 2>>>>, <<<<1, 2>>, <<2, 2>>, <<2, 0>>>> >>

\* low_priority_blocker.yaml: the robot in the junction must leave it first.
Blocker == << <<<<0, 1>>, <<1, 1>>, <<2, 1>>>>, <<<<1, 1>>, <<2, 1>>, <<3, 1>>>>, <<<<1, 0>>, <<1, 2>>>> >>

\* three_way.yaml: each robot's way leads over where the next one stands.
Roundabout == << <<<<0, 0>>, <<1, 0>>, <<1, 1>>>>, <<<<1, 0>>, <<1, 1>>, <<0, 1>>>>,
                 <<<<1, 1>>, <<0, 1>>, <<0, 0>>>> >>

\* Robot 1 arrives on the way of the others, falls silent and stays there.
Parked == << <<<<0, 1>>, <<1, 1>>>>, <<<<2, 1>>, <<2, 2>>, <<0, 2>>>>, <<<<3, 1>>, <<2, 1>>, <<0, 1>>>> >>

\* Head-on in a corridor, with a third robot that may come between them.
HeadOn == << <<<<0, 0>>, <<1, 0>>, <<2, 0>>, <<3, 0>>>>, <<<<3, 0>>, <<2, 0>>, <<1, 0>>, <<0, 0>>>>,
             <<<<1, 1>>, <<1, 0>>, <<1, 2>>>> >>

\* unresolvable.yaml, and a robot that is free to go.
Overlap == << <<<<0, 0>>, <<1, 0>>>>, <<<<0, 0>>, <<0, 1>>>>, <<<<1, 2>>, <<2, 2>>, <<3, 2>>>> >>

\* A convoy that crosses a slower robot's way and passes one that never moves.
Convoy == << <<<<1, 1>>, <<2, 1>>, <<2, 2>>, <<3, 2>>>>, <<<<0, 1>>, <<1, 1>>, <<2, 1>>>>, <<<<3, 0>>>> >>

MCScenarios == {Crossroads, Blocker, Roundabout, Parked, HeadOn, Overlap, Convoy}
=============================================================================
