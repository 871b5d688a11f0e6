----------------------------- MODULE EngineOrder -----------------------------
(* Engine with the order of the last tick remembered: who moved before whom. *)
EXTENDS Engine

VARIABLE yields   \* <<i, j>>: the last call moved i and paused j, available
                  \* robots in conflict

orderVars == <<vars, yields>>

OrderInit == Init /\ yields = {}

OrderNext ==
    /\ Next
    /\ yields' =
        IF stage = "validated"
        THEN {p \in (obs.present \ Unavailable(obs)) \X (obs.present \ Unavailable(obs)) :
                /\ p[2] \in Adjacency(obs.noGoods, p[1])
                /\ decisions[p[1]] = RESUME
                /\ decisions[p[2]] = PAUSE}
        ELSE yields

OrderSpec == OrderInit /\ [][OrderNext]_orderVars

\* What the documentation promises of every tick (justification_of_approach.md,
\* 8.2): priority alone never reverses the order of two robots that stay in
\* conflict, as long as the first is fresh, can still move and was not released.
PriorityNeverReverses ==
    [][stage = "validated" => \A p \in yields :
        /\ {p[1], p[2]} \subseteq obs.present \ (Unavailable(obs) \cup affected)
        /\ p[2] \in Adjacency(obs.noGoods, p[1])
        /\ releases[p[1]] = "NONE"
        /\ SafeCompletion(obs, ComponentOf(obs, p[1]), {p[1]})
        => ~(decisions[p[1]] = PAUSE /\ decisions[p[2]] = RESUME)]_orderVars
=============================================================================
