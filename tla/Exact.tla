-------------------------------- MODULE Exact --------------------------------
(***************************************************************************)
(* One conflicting component on its way through _solve_components          *)
(* (engine.py): its robots are scored, CpSatComponentOptimiser.optimise    *)
(* (optimiser.py) is asked if the component is small enough, and where it  *)
(* has no answer the heuristic is.  CP-SAT is external: it answers about   *)
(* the model it is given, and may run out of time at any moment.  It       *)
(* rejects a model whose objective may overflow, and what it answers may   *)
(* be none of what optimise expects: then optimise raises.                 *)
(***************************************************************************)
EXTENDS Priority

CONSTANTS NoGoodSets,       \* no-goods of the components, all robots connected
          HardAssignments,  \* hard assignments they may come with
          Configs,          \* the settings
          Conditions,       \* conditions of a robot
          IntegerLimit,     \* _CP_SAT_INTEGER_LIMIT, for each coefficient
          SumLimit          \* the largest sum of coefficients CP-SAT accepts

ASSUME ExactAssumption ==
    /\ NoGoodSets \subseteq SUBSET NoGood /\ HardAssignments \subseteq Partial
    /\ Configs \subseteq Settings /\ Conditions \subseteq Condition
    /\ IsFiniteSet(Robots) /\ Robots \subseteq Int
    /\ {IntegerLimit, SumLimit} \subseteq Nat

VARIABLES
    noGoods, hard, config, condition,  \* what the component comes with
    pc,         \* "score", "exact", "heuristic", "done" or "raised"
    secondary,  \* secondary_score of each robot
    status,     \* solver_status, "NONE" when CP-SAT was not asked, "FAULTY" for
                \* an answer that optimise does not expect
    answer,     \* HeuristicResult
    decisions

inputs == <<noGoods, hard, config, condition>>
exactVars == <<inputs, pc, secondary, status, answer, decisions>>

Heuristic == INSTANCE ComponentSolver WITH
    Robots <- Robots, noGoods <- noGoods, hard <- hard, result <- answer

Init ==
    /\ noGoods \in NoGoodSets
    /\ hard \in HardAssignments
    /\ config \in Configs
    /\ condition \in [Robots -> Conditions]
    /\ pc = "score"
    /\ secondary = [r \in Robots |-> 0]
    /\ status = "NONE"
    /\ answer = Heuristic!Pending
    /\ decisions = NoneAssigned
-----------------------------------------------------------------------------
\* score_component_priorities, which raises when a score exceeds its bound.
Score ==
    /\ pc = "score"
    /\ secondary' = [r \in Robots |-> Secondary(config, noGoods, condition, r)]
    /\ pc' = IF \E r \in Robots : \/ secondary'[r] > MaximumPerRobot(config)
                                  \/ Cardinality(ClearedAlone(noGoods, r)) > Size - 1
             THEN "raised" ELSE "exact"
    /\ UNCHANGED <<inputs, status, answer, decisions>>

\* Mutant of ClauseHolds: the literals of the clause are not negated.
ClauseOfForbidden(g, a) == \E l \in g : a[l.robot] = l.forbidden

\* The clause add_bool_or is given for a no-good.
ClauseHolds(g, a) ==
    \E l \in g : IF l.forbidden = PAUSE THEN a[l.robot] = RESUME ELSE a[l.robot] = PAUSE

\* The assignments that satisfy the CP-SAT model.
ModelSolutions ==
    {a \in Assignment : (\A g \in noGoods : ClauseHolds(g, a)) /\ Extends(a, hard)}

\* An incumbent is adopted once validate_component_decisions has accepted it.
Adopt(a, verdict) ==
    /\ IF a \in Solutions(noGoods, hard)
       THEN decisions' = a /\ pc' = "done"
       ELSE UNCHANGED decisions /\ pc' = "raised"
    /\ status' = verdict

Small == Size <= config.exactSize

\* Every coefficient can be represented, and any objective made of them.
Encodable == \A r \in Robots : Coefficients(config, secondary)[r] <= IntegerLimit
Summable == Sum(Coefficients(config, secondary), Robots) <= SumLimit

\* CP-SAT is given a model.
Modelled == pc = "exact" /\ Small /\ Encodable

\* It accepts the model, and the solver gets to work.
Asked == Modelled /\ Summable

Raised(verdict) ==
    /\ pc' = "raised"
    /\ status' = verdict
    /\ UNCHANGED <<inputs, secondary, answer, decisions>>

\* Both solvers begin with build_objective_encoding, which raises; the exact one
\* only after it has found the component small and CP-SAT installed.
Unencodable ==
    /\ ~Encodable
    /\ (pc = "exact" /\ Small) \/ pc = "heuristic"
    /\ Raised(status)

\* The coefficients are checked one by one, their sum by CP-SAT only: MODEL_INVALID.
Rejected == Modelled /\ ~Summable /\ Raised("MODEL_INVALID")

\* An unknown status, an incumbent that the validator refuses, or a value, a bound or
\* a time that is not a number of the kind it should be.
Faulty == Asked /\ Raised("FAULTY")

Optimal ==
    /\ Asked
    /\ \E a \in ModelSolutions :
        /\ \A b \in ModelSolutions :
             ObjectiveValue(config, secondary, b) <= ObjectiveValue(config, secondary, a)
        /\ Adopt(a, "OPTIMAL")
    /\ UNCHANGED <<inputs, secondary, answer>>

Feasible ==
    /\ Asked
    /\ \E a \in ModelSolutions : Adopt(a, "FEASIBLE")
    /\ UNCHANGED <<inputs, secondary, answer>>

Delegate(verdict) ==
    /\ status' = verdict
    /\ pc' = "heuristic"
    /\ UNCHANGED <<inputs, secondary, answer, decisions>>

\* No incumbent in time, no solver installed, nothing to be found, or too large.
Unknown == Asked /\ Delegate("UNKNOWN")
Unavailable == pc = "exact" /\ Small /\ Delegate("UNAVAILABLE")
Infeasible == Asked /\ ModelSolutions = {} /\ Delegate("INFEASIBLE")
TooLarge == pc = "exact" /\ ~Small /\ Delegate("NONE")

\* Mutant of Fallback: without an exact answer the component pauses.
FallbackPauses ==
    /\ pc = "heuristic" /\ Encodable
    /\ decisions' = AllPaused
    /\ pc' = "done"
    /\ UNCHANGED <<inputs, secondary, status, answer>>

\* The heuristic's decisions, or Pause for everyone when it has none.
Fallback ==
    /\ pc = "heuristic" /\ Encodable
    /\ Heuristic!Answer
    /\ decisions' = IF answer' = Heuristic!Infeasible THEN AllPaused ELSE answer'.decisions
    /\ pc' = "done"
    /\ UNCHANGED <<config, condition, secondary, status>>

Next ==
    \/ Score \/ Unencodable \/ Rejected \/ Optimal \/ Feasible \/ Unknown \/ Infeasible
    \/ Faulty \/ Unavailable \/ TooLarge \/ Fallback

Spec == Init /\ [][Next]_exactVars
-----------------------------------------------------------------------------
\* What the settings are not checked for: that a component of this size cannot have an
\* objective that overflows.
SettingsFit ==
    /\ MaximumCoefficient(config) <= IntegerLimit
    /\ Size * MaximumCoefficient(config) <= SumLimit

\* Under settings that fit, only an answer that CP-SAT should not give makes optimise
\* raise.  Nothing the code's own parts produce does: scores stay within the bound that
\* the throughput reward rests on, coefficients and their sum within the solver's
\* integers, for both solvers, and what satisfies the CP-SAT model passes the validator.
NeverRaises == SettingsFit /\ pc = "raised" => status = "FAULTY"

\* The answer is what Engine relies on, whichever solver gave it: a valid assignment,
\* or Pause for everyone only when nothing satisfies the constraints.
SolvesComponent ==
    pc = "done" =>
        \/ decisions \in Solutions(noGoods, hard)
        \/ Solutions(noGoods, hard) = {} /\ decisions = AllPaused

\* One weighted sum orders the assignments as documented: first the number of robots
\* that move, then their secondary scores, then their rank.
Merit(a) ==
    <<Cardinality(Resumed(a)), Sum(secondary, Resumed(a)), Sum(RankBonus, Resumed(a))>>

Exceeds(m, n) ==
    \/ m[1] > n[1]
    \/ m[1] = n[1] /\ m[2] > n[2]
    \/ m[1] = n[1] /\ m[2] = n[2] /\ m[3] > n[3]

OptimumLexicographic ==
    pc = "done" /\ status = "OPTIMAL" =>
        \A b \in Solutions(noGoods, hard) : ~Exceeds(Merit(b), Merit(decisions))
=============================================================================
