------------------------------ MODULE Conflicts ------------------------------
(***************************************************************************)
(* The conflict model of one tick (conflicts.py) and the independent       *)
(* validator of component decisions (optimiser.py).                        *)
(*                                                                         *)
(* Every unsafe action pair of two robots is a no-good: two literals, each *)
(* requiring one robot's binary action to differ from a forbidden value.   *)
(* Geometry is abstracted to the set of no-goods it yields; the order in   *)
(* which pairs, clauses and components are listed is not kept.             *)
(***************************************************************************)
EXTENDS Integers

CONSTANT Robots      \* robot IDs; their order as numbers is the ID order

ASSUME RobotsAssumption == Robots \subseteq Int

\* action_to_binary
PAUSE  == 0
RESUME == 1
Actions == {PAUSE, RESUME}

UNASSIGNED == -1
Partial == [Robots -> Actions \cup {UNASSIGNED}]     \* dict[str, int], maybe incomplete
Assignment == [Robots -> Actions]
-----------------------------------------------------------------------------
Literal == [robot : Robots, forbidden : Actions]

\* The no-goods two robots can contribute: pairs are of distinct robots.
NoGood == {g \in {{l, k} : l, k \in Literal} : \E l, k \in g : l.robot # k.robot}

Violated(noGood, a) == \A l \in noGood : a[l.robot] = l.forbidden

Satisfies(a, noGoods) == \A g \in noGoods : ~Violated(g, a)

\* `a` agrees with every assignment already made in `p`.
Extends(a, p) == \A r \in Robots : p[r] # UNASSIGNED => a[r] = p[r]

\* validate_component_decisions: the complete assignments it accepts.
Solutions(noGoods, hard) ==
    {a \in Assignment : Satisfies(a, noGoods) /\ Extends(a, hard)}

Progresses(a) == \E r \in Robots : a[r] = RESUME

AllPaused == [r \in Robots |-> PAUSE]
NoneAssigned == [r \in Robots |-> UNASSIGNED]
-----------------------------------------------------------------------------
RobotsOf(noGood) == {l.robot : l \in noGood}

\* An edge joins two robots exactly when some action pair of theirs is unsafe.
Adjacency(noGoods, r) == {q \in Robots \ {r} : \E g \in noGoods : RobotsOf(g) = {r, q}}

\* The connected component of r: what every neighbour-closed set around r holds.
Component(noGoods, r) ==
    {q \in Robots : \A S \in SUBSET Robots :
        (r \in S /\ \A s \in S : Adjacency(noGoods, s) \subseteq S) => q \in S}

\* Resume envelopes contain the Pause footprint (resume_envelope), so what is
\* unsafe against a paused robot is unsafe against the same robot moving.
Monotone(noGoods) ==
    \A g \in noGoods : \A l \in g :
        (g \ {l}) \cup {[l EXCEPT !.forbidden = RESUME]} \in noGoods

\* Mutant of ComponentNoGoods: only pairs of moving robots constrain.
MovingNoGoods(noGoods, C) ==
    {g \in noGoods : \A l \in g : l.robot \in C /\ l.forbidden = RESUME}

ComponentNoGoods(noGoods, C) == {g \in noGoods : RobotsOf(g) \subseteq C}
=============================================================================
