------------------------------ MODULE Heuristic ------------------------------
(***************************************************************************)
(* DeterministicComponentHeuristic.solve (heuristic.py) on one component:  *)
(* a greedy pass that tries Resume then Pause for the best ranked free     *)
(* robot, unit propagation after every guess, then one bounded repair pass *)
(* and the fail-safe.                                                      *)
(*                                                                         *)
(* One action is one propagation event or one branch of a pass.  The scan  *)
(* order of clauses inside _propagate and the order of repair candidates   *)
(* are left open: the properties hold for every order.                     *)
(***************************************************************************)
EXTENDS Conflicts, FiniteSets

CONSTANTS NoGoodSets,          \* the no-good sets a component may come with
          Scores,              \* final_score values, positive in the code
          MaxRepairCandidates  \* heuristic_maximum_repair_candidates

ASSUME ComponentAssumption == Robots # {}        \* solve rejects an empty component
ASSUME NoGoodSetsAssumption == NoGoodSets \subseteq SUBSET NoGood
ASSUME ScoresAssumption == Scores \subseteq Int
ASSUME CandidatesAssumption == MaxRepairCandidates \in Nat \ {0}

VARIABLES
    noGoods,     \* clauses: one two-literal clause per no-good of the component
    hard,        \* hard_actions as a partial assignment
    score,       \* priorities[r].final_score
    pc,          \* where solve is
    base,        \* the last assignment that propagation accepted
    trial,       \* the copy under propagation
    robot,       \* the robot the trial guesses about, 0 before the first
    candidates,  \* escape robots the repair pass has not tried
    result       \* HeuristicResult

inputs == <<noGoods, hard, score>>
vars == <<noGoods, hard, score, pc, base, trial, robot, candidates, result>>

Pending    == [source |-> "NONE", decisions |-> NoneAssigned]
Infeasible == [source |-> "FAIL_SAFE", decisions |-> NoneAssigned]
FailSafe   == [source |-> "FAIL_SAFE", decisions |-> AllPaused]

\* Steps of solve at which a trial is being propagated.
Propagating == {"GreedySeed", "GreedyResume", "GreedyPause",
                "RepairSeed", "RepairResume", "RepairPause"}
-----------------------------------------------------------------------------
Free(a) == {r \in Robots : a[r] = UNASSIGNED}

\* Every other literal of the clause is false and l's robot is unassigned.
Unit(g, l, a) ==
    /\ l \in g
    /\ a[l.robot] = UNASSIGNED
    /\ \A k \in g \ {l} : a[k.robot] = k.forbidden

Contradiction(a) == \E g \in noGoods : Violated(g, a)

\* Mutant of Settled: propagation stops before its fixed point.
SettledEarly(a) == ~Contradiction(a)

\* _propagate reached its fixed point without a contradiction.
Settled(a) ==
    \A g \in noGoods : ~Violated(g, a) /\ \A l \in g : ~Unit(g, l, a)

\* ranked_robots: higher coefficient first, the smaller ID on equal scores.
Before(r, q) == score[r] > score[q] \/ (score[r] = score[q] /\ r < q)
\* Mutant of FirstFree: robots taken in ID order, whatever they score.
FirstFreeById(a) == {r \in Free(a) : \A q \in Free(a) : r <= q}
FirstFree(a) == {r \in Free(a) : \A q \in Free(a) \ {r} : Before(r, q)}

Guess(a, r, action, next) ==
    /\ trial' = [a EXCEPT ![r] = action]
    /\ robot' = r
    /\ pc' = next
-----------------------------------------------------------------------------
Init ==
    /\ noGoods \in NoGoodSets
    /\ hard \in Partial
    /\ score \in [Robots -> Scores]
    /\ pc = "GreedySeed"
    /\ base = hard
    /\ trial = hard
    /\ robot = 0
    /\ candidates = {}
    /\ result = Pending

\* Mutant of Propagate: the forced value is the next one, not the other one.
PropagateNext ==
    /\ pc \in Propagating
    /\ \E g \in noGoods : \E l \in g :
        /\ Unit(g, l, trial)
        /\ trial' = [trial EXCEPT ![l.robot] = l.forbidden + 1]
    /\ UNCHANGED <<inputs, pc, base, robot, candidates, result>>

\* Mutant of Propagate: a unit clause assigns the very value it forbids.
PropagateForbidden ==
    /\ pc \in Propagating
    /\ \E g \in noGoods : \E l \in g :
        /\ Unit(g, l, trial)
        /\ trial' = [trial EXCEPT ![l.robot] = l.forbidden]
    /\ UNCHANGED <<inputs, pc, base, robot, candidates, result>>

\* One pass of _propagate over a unit clause: the free robot is forced.
Propagate ==
    /\ pc \in Propagating
    /\ \E g \in noGoods : \E l \in g :
        /\ Unit(g, l, trial)
        /\ trial' = [trial EXCEPT ![l.robot] = 1 - l.forbidden]
    /\ UNCHANGED <<inputs, pc, base, robot, candidates, result>>

\* The seed or a branch of the greedy pass survived propagation.
GreedyAccept ==
    /\ pc \in {"GreedySeed", "GreedyResume", "GreedyPause"}
    /\ Settled(trial)
    /\ base' = trial
    /\ pc' = "GreedySelect"
    /\ UNCHANGED <<inputs, trial, robot, candidates, result>>

GreedySelect ==
    /\ pc = "GreedySelect"
    /\ \E r \in FirstFree(base) : Guess(base, r, RESUME, "GreedyResume")
    /\ UNCHANGED <<inputs, base, candidates, result>>

\* Mutant of GreedyRejectResume: the Pause branch is never tried.
GreedyRejectRobot ==
    /\ pc = "GreedyResume"
    /\ Contradiction(trial)
    /\ base' = hard
    /\ trial' = hard
    /\ pc' = "RepairSeed"
    /\ UNCHANGED <<inputs, robot, candidates, result>>

GreedyRejectResume ==
    /\ pc = "GreedyResume"
    /\ Contradiction(trial)
    /\ Guess(base, robot, PAUSE, "GreedyPause")
    /\ UNCHANGED <<inputs, base, candidates, result>>

\* _repair_pass starts over from the hard assignments.
StartRepair ==
    /\ base' = hard
    /\ trial' = hard
    /\ pc' = "RepairSeed"

\* The greedy pass returned None: its seed, or both branches of a robot, failed.
GreedyFail ==
    /\ pc \in {"GreedySeed", "GreedyPause"}
    /\ Contradiction(trial)
    /\ StartRepair
    /\ UNCHANGED <<inputs, robot, candidates, result>>

Return(answer) == result' = answer /\ pc' = "Done"

\* A complete greedy assignment is returned only when it lets a robot move.
GreedyComplete ==
    /\ pc = "GreedySelect"
    /\ Free(base) = {}
    /\ IF Progresses(base)
       THEN /\ Return([source |-> "HEURISTIC", decisions |-> base])
            /\ UNCHANGED <<base, trial>>
       ELSE StartRepair /\ UNCHANGED result
    /\ UNCHANGED <<inputs, robot, candidates>>
-----------------------------------------------------------------------------
RepairSeedFail ==
    /\ pc = "RepairSeed"
    /\ Contradiction(trial)
    /\ pc' = "Fallback"
    /\ UNCHANGED <<inputs, base, trial, robot, candidates, result>>

\* The sort by clearance count and rank, cut to the configured maximum.
RepairSeedAccept ==
    /\ pc = "RepairSeed"
    /\ Settled(trial)
    /\ base' = trial
    /\ \E C \in SUBSET Robots :
        /\ \/ Cardinality(C) = MaxRepairCandidates
           \/ C = Robots /\ Cardinality(Robots) <= MaxRepairCandidates
        /\ candidates' = C
    /\ pc' = "RepairSelect"
    /\ UNCHANGED <<inputs, trial, robot, result>>

\* Mutant of RepairSelect: a candidate that was tried is not struck off.
RepairSelectAgain ==
    /\ pc = "RepairSelect"
    /\ \E r \in candidates :
        IF base[r] = PAUSE
        THEN UNCHANGED <<pc, trial, robot>>
        ELSE Guess(base, r, RESUME, "RepairResume")
    /\ UNCHANGED <<inputs, base, candidates, result>>

\* An escape robot already forced to Pause is skipped.
RepairSelect ==
    /\ pc = "RepairSelect"
    /\ \E r \in candidates :
        /\ candidates' = candidates \ {r}
        /\ IF base[r] = PAUSE
           THEN UNCHANGED <<pc, trial, robot>>
           ELSE Guess(base, r, RESUME, "RepairResume")
    /\ UNCHANGED <<inputs, base, result>>

\* Neither Resume for the escape robot nor Pause for a remaining one is retried.
RepairReject ==
    /\ pc \in {"RepairResume", "RepairPause"}
    /\ Contradiction(trial)
    /\ pc' = "RepairSelect"
    /\ UNCHANGED <<inputs, base, trial, robot, candidates, result>>

\* Pause the next unassigned robot in ID order; a complete trial is returned.
RepairExtend ==
    /\ pc \in {"RepairResume", "RepairPause"}
    /\ Settled(trial)
    /\ IF Free(trial) = {}
       THEN /\ Return([source |-> "REPAIR", decisions |-> trial])
            /\ UNCHANGED <<trial, robot>>
       ELSE /\ \E r \in Free(trial) :
                 /\ \A q \in Free(trial) : r <= q
                 /\ Guess(trial, r, PAUSE, "RepairPause")
            /\ UNCHANGED result
    /\ UNCHANGED <<inputs, base, candidates>>

RepairExhausted ==
    /\ pc = "RepairSelect"
    /\ candidates = {}
    /\ pc' = "Fallback"
    /\ UNCHANGED <<inputs, base, trial, robot, candidates, result>>

\* Mutant of Fallback: all Pause is answered without validating it.
FallbackUnchecked ==
    /\ pc = "Fallback"
    /\ Return(FailSafe)
    /\ UNCHANGED <<inputs, base, trial, robot, candidates>>

\* All Pause, provided no hard Resume and no no-good forbids it.
Fallback ==
    /\ pc = "Fallback"
    /\ IF AllPaused \in Solutions(noGoods, hard)
       THEN Return(FailSafe)
       ELSE Return(Infeasible)
    /\ UNCHANGED <<inputs, base, trial, robot, candidates>>
-----------------------------------------------------------------------------
Greedy == GreedyAccept \/ GreedySelect \/ GreedyRejectResume \/ GreedyFail \/ GreedyComplete
Repair == RepairSeedFail \/ RepairSeedAccept \/ RepairSelect \/ RepairReject
          \/ RepairExtend \/ RepairExhausted

Next == Propagate \/ Greedy \/ Repair \/ Fallback

\* solve is a terminating call of sequential code: it keeps taking steps.
Spec == Init /\ [][Next]_vars /\ WF_vars(Next)
-----------------------------------------------------------------------------
TypeOK ==
    /\ noGoods \in NoGoodSets
    /\ hard \in Partial
    /\ score \in [Robots -> Scores]
    /\ pc \in Propagating \cup {"GreedySelect", "RepairSelect", "Fallback", "Done"}
    /\ base \in Partial
    /\ trial \in Partial
    /\ robot \in Robots \cup {0}
    /\ candidates \subseteq Robots
    /\ result \in [source : {"NONE", "HEURISTIC", "REPAIR", "FAIL_SAFE"}, decisions : Partial]

\* Whatever solve returns as decisions passes the independent validator, and it
\* claims progress only for an assignment that lets some robot move.
ResultSound ==
    /\ result.source \in {"HEURISTIC", "REPAIR"} =>
           result.decisions \in Solutions(noGoods, hard) /\ Progresses(result.decisions)
    /\ result = FailSafe => AllPaused \in Solutions(noGoods, hard)

\* The search misses nothing, although it never backtracks past a guess: it
\* answers infeasible only when no assignment satisfies the constraints, and
\* the no-progress fail-safe only when Pause for all is the only one that does.
ResultComplete ==
    /\ result = Infeasible => Solutions(noGoods, hard) = {}
    /\ result = FailSafe => Solutions(noGoods, hard) \subseteq {AllPaused}

\* The escape-repair pass never supplies the answer: where the greedy pass finds
\* no progressing assignment there is none to find.
RepairNeverNeeded == result.source # "REPAIR"

\* Greedy answers are lexicographically best by rank: where another valid
\* assignment differs, it first differs by pausing a robot the answer moves.
RankRespected ==
    result.source = "HEURISTIC" =>
        \A s \in Solutions(noGoods, hard) \ {result.decisions} :
            \E r \in Robots :
                /\ s[r] = PAUSE /\ result.decisions[r] = RESUME
                /\ \A q \in Robots : Before(q, r) => s[q] = result.decisions[q]

\* Propagation only draws consequences: a valid assignment that extends what was
\* accepted and agrees with the current guess extends the whole trial.
TrialImplied ==
    pc \in {"GreedyResume", "GreedyPause"} =>
        \A s \in Solutions(noGoods, hard) :
            Extends(s, base) /\ s[robot] = trial[robot] => Extends(s, trial)

\* The heuristic keeps the promise its callers are built on, answer included.
Promise == INSTANCE ComponentSolver WITH
    Robots <- Robots, noGoods <- noGoods, hard <- hard, result <- result
Implements == Promise!Spec
=============================================================================
