--------------------------- MODULE ComponentSolver ---------------------------
(***************************************************************************)
(* What the caller of a component solver may rely on.  A solver is given   *)
(* the no-goods of a component and hard assignments, and answers once:     *)
(*  - a progressing assignment that satisfies both, or                     *)
(*  - all Pause, flagged as fail-safe, or                                  *)
(*  - infeasible, with no decisions.                                       *)
(* The last two are stated as strongly as the heuristic really earns them: *)
(* fail-safe only when no Resume is possible at all, infeasible only when  *)
(* nothing satisfies the constraints.                                      *)
(***************************************************************************)
EXTENDS Conflicts

VARIABLES noGoods,   \* the component's no-goods, fixed
          hard,      \* hard_assignments, fixed
          result     \* HeuristicResult, or Pending

vars == <<noGoods, hard, result>>

Pending    == [source |-> "NONE", decisions |-> NoneAssigned]
Infeasible == [source |-> "FAIL_SAFE", decisions |-> NoneAssigned]
FailSafe   == [source |-> "FAIL_SAFE", decisions |-> AllPaused]

Init ==
    /\ noGoods \subseteq NoGood
    /\ hard \in Partial
    /\ result = Pending

AnswerProgress ==
    \E a \in Solutions(noGoods, hard), s \in {"HEURISTIC", "REPAIR"} :
        /\ Progresses(a)
        /\ result' = [source |-> s, decisions |-> a]

AnswerFailSafe ==
    /\ Solutions(noGoods, hard) = {AllPaused}
    /\ result' = FailSafe

AnswerInfeasible ==
    /\ Solutions(noGoods, hard) = {}
    /\ result' = Infeasible

Answer ==
    /\ result = Pending
    /\ AnswerProgress \/ AnswerFailSafe \/ AnswerInfeasible
    /\ UNCHANGED <<noGoods, hard>>

\* Every call answers: one of the three answers is always possible.
Spec == Init /\ [][Answer]_vars /\ <>(result # Pending)
=============================================================================
