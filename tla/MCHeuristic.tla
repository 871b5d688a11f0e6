----------------------------- MODULE MCHeuristic -----------------------------
(* Instances of Heuristic for TLC. *)
EXTENDS Heuristic

\* What an injected builder may produce: any unsafe action pairs at all.
ArbitraryNoGoods == SUBSET NoGood

\* What the default builder can produce: resume envelopes hold the footprint.
GeometricNoGoods == {N \in SUBSET NoGood : Monotone(N)}

\* Scores that rank the robots alike need no second look.
Ranks == {<<1, 1, 1>>, <<1, 1, 2>>, <<1, 2, 1>>, <<1, 2, 2>>, <<2, 1, 2>>}

\* The default builder's with every rank that two scores give, any others with the
\* ID order as rank.
MCInit ==
    /\ Init
    /\ score \in Ranks
    /\ (\A r \in Robots : score[r] = 1) \/ noGoods \in GeometricNoGoods

MCSpec == MCInit /\ [][Next]_vars /\ WF_vars(Next)
=============================================================================
