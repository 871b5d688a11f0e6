---------------------------- MODULE MCEngineOrder ----------------------------
(* An instance of EngineOrder for TLC. *)
EXTENDS EngineOrder

\* The no-goods of the given action pairs of two robots.
Unsafe(i, j, pairs) ==
    {{[robot |-> i, forbidden |-> p[1]], [robot |-> j, forbidden |-> p[2]]} : p \in pairs}

\* 1 and 2 cross throughout, while the footprints of 3 and 4 overlap.
ElsewhereObservations ==
    LET unsafe == Unsafe(1, 2, {<<RESUME, RESUME>>}) \cup Unsafe(3, 4, Actions \X Actions)
    IN {[present |-> Robots, stale |-> {}, atGoal |-> {}, noGoods |-> unsafe, unsafe |-> unsafe]}
=============================================================================
