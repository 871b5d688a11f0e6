------------------------------ MODULE Priority ------------------------------
(***************************************************************************)
(* The integer scores of a component's robots (priority.py) and their      *)
(* encoding as one objective for CP-SAT (optimiser.py): moving one robot   *)
(* more counts for more than all secondary scores, and one point of those  *)
(* for more than the rank by robot ID.  The component is Robots.           *)
(***************************************************************************)
EXTENDS Conflicts, FiniteSetsExt

\* The priority_* settings and maximum_exact_component_size.
Settings ==
    [exactSize : Nat \ {0}, base : Nat, loaded : Nat, urgency : Nat, horizon : Nat \ {0}, battery : Nat,
     perTick : Nat, ageCap : Nat, grant : Nat, perConflict : Nat]

\* What a score depends on: `slack` is the deadline less now, `age` the waiting age.
Condition == [loaded : BOOLEAN, lowBattery : BOOLEAN, slack : Int, age : Nat, granted : BOOLEAN]

AtMost(x, limit) == IF x <= limit THEN x ELSE limit
AtLeast(x, limit) == IF x >= limit THEN x ELSE limit
-----------------------------------------------------------------------------
Size == Cardinality(Robots)

\* Mutant of MaximumPerRobot: the clearance bonus is left out of the bound.
MaximumWithoutClearance(c) ==
    c.base + c.loaded + c.urgency + c.battery + c.ageCap * c.perTick + c.grant

\* priority_bounds
MaximumPerRobot(c) ==
    c.base + c.loaded + c.urgency + c.battery + c.ageCap * c.perTick + c.grant
        + (Size - 1) * c.perConflict

ThroughputReward(c) == Size * MaximumPerRobot(c) + 1

\* deadline_urgency: nothing at the horizon, the maximum once the deadline is past.
Urgency(c, slack) ==
    (c.urgency * (c.horizon - AtMost(AtLeast(slack, 0), c.horizon))) \div c.horizon

\* clearance_opportunity_count: conflicts the robot can clear by moving alone.
ClearedAlone(N, r) ==
    {q \in Adjacency(N, r) :
        {[robot |-> r, forbidden |-> RESUME], [robot |-> q, forbidden |-> PAUSE]} \notin N}

Bonus(applies, amount) == IF applies THEN amount ELSE 0

\* score_robot_priority
Secondary(c, N, condition, r) ==
    LET s == condition[r]
    IN c.base + Bonus(s.loaded, c.loaded) + Urgency(c, s.slack)
         + Bonus(s.lowBattery, c.battery) + AtMost(s.age, c.ageCap) * c.perTick
         + Bonus(s.granted, c.grant) + Cardinality(ClearedAlone(N, r)) * c.perConflict

FinalScore(c, secondary, r) == ThroughputReward(c) + secondary[r]
-----------------------------------------------------------------------------
Sum(value, S) == MapThenSumSet(LAMBDA r : value[r], S)

\* build_objective_encoding
RankBonus == [r \in Robots |-> Cardinality({q \in Robots : r < q})]

\* One more than the sum of the rank bonuses, 0 .. Size - 1.
UtilityScale == (Size * (Size - 1)) \div 2 + 1

\* Mutant of Coefficients: the rank bonus is added to an unscaled utility.
UnscaledCoefficients(c, secondary) ==
    [r \in Robots |-> FinalScore(c, secondary, r) + RankBonus[r]]

Coefficients(c, secondary) ==
    [r \in Robots |-> FinalScore(c, secondary, r) * UtilityScale + RankBonus[r]]

\* The largest coefficient there may be, from the settings and the component alone.
MaximumCoefficient(c) ==
    (ThroughputReward(c) + MaximumPerRobot(c)) * UtilityScale + Size - 1

Resumed(a) == {r \in Robots : a[r] = RESUME}

ObjectiveValue(c, secondary, a) == Sum(Coefficients(c, secondary), Resumed(a))
=============================================================================
