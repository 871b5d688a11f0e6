--------------------------- MODULE HeuristicProofs ---------------------------
(***************************************************************************)
(* Proofs about Heuristic for every set of robots, no-goods and hard       *)
(* assignments.  The argument: every clause has two literals, so once      *)
(* propagation settles, each clause is satisfied or wholly unassigned, and *)
(* any solution can be grafted on the free robots (Graft).  A guess that   *)
(* propagation accepts therefore never loses the last solution.            *)
(***************************************************************************)
EXTENDS Heuristic, TLAPS

\* `a` where assigned, the total assignment `s` elsewhere.
Graft(a, s) == [r \in Robots |-> IF a[r] = UNASSIGNED THEN s[r] ELSE a[r]]

\* The valid assignments of this call.
Sol == Solutions(noGoods, hard)

GreedyLoop == {"GreedySelect", "GreedyResume", "GreedyPause"}
RepairLoop == {"RepairSelect", "RepairResume", "RepairPause"}
-----------------------------------------------------------------------------
\* Base keeps the hard assignments and, inside the passes, is settled.
BaseInv ==
    /\ Extends(base, hard)
    /\ Extends(trial, hard)
    /\ pc \in GreedyLoop \cup RepairLoop => Settled(base)

\* A seed holds only consequences of the hard assignments.
SeedInv == pc \in {"GreedySeed", "RepairSeed"} => \A s \in Sol : Extends(s, trial)

\* What a greedy guess stands for while its trial propagates.
GuessInv ==
    pc \in {"GreedyResume", "GreedyPause"} =>
        /\ robot \in Robots
        /\ base[robot] = UNASSIGNED
        /\ \A q \in Robots : Before(q, robot) => base[q] # UNASSIGNED
        /\ trial[robot] = (IF pc = "GreedyResume" THEN RESUME ELSE PAUSE)
        /\ Extends(trial, base)
        /\ \A s \in Sol : Extends(s, base) /\ s[robot] = trial[robot] => Extends(s, trial)

\* Resume has been refuted before Pause is tried.
RefutedInv ==
    pc = "GreedyPause" => \A s \in Sol : Extends(s, base) => s[robot] # RESUME

\* Solution s loses to a by rank: a moves a robot s pauses, all before it agreeing.
Outranks(a, s) ==
    \E r \in Robots :
        /\ a[r] = RESUME /\ s[r] = PAUSE
        /\ \A q \in Robots : Before(q, r) => a[q] # UNASSIGNED /\ s[q] = a[q]

RankInv ==
    pc \in GreedyLoop => \A s \in Sol : Extends(s, base) \/ Outranks(base, s)

\* The repair pass starts only when no valid assignment lets a robot move.
RepairInv ==
    /\ pc \in RepairLoop \cup {"RepairSeed", "Fallback"} => \A s \in Sol : ~Progresses(s)
    /\ pc \in {"RepairResume", "RepairPause"} => Progresses(trial)

ResultInv ==
    /\ pc # "Done" => result = Pending
    /\ pc = "Done" =>
        \/ /\ result = [source |-> "HEURISTIC", decisions |-> base]
           /\ base \in Sol
           /\ Progresses(base)
           /\ \A s \in Sol : s = base \/ Outranks(base, s)
        \/ result = FailSafe /\ Sol = {AllPaused}
        \/ result = Infeasible /\ Sol = {}

Inv == TypeOK /\ BaseInv /\ SeedInv /\ GuessInv /\ RefutedInv /\ RankInv /\ RepairInv /\ ResultInv
-----------------------------------------------------------------------------
\* A no-good is exactly two literals of distinct robots.
LEMMA TwoLiterals ==
    ASSUME NEW g \in NoGood
    PROVE  \E l, k \in Literal : g = {l, k} /\ l.robot # k.robot
<1>1. PICK l \in Literal, k \in Literal : g = {l, k}
  BY DEF NoGood
<1>2. PICK m \in g, n \in g : m.robot # n.robot
  BY DEF NoGood
<1>. QED  BY <1>1, <1>2

\* What the literals are made of, as the provers need it.
LEMMA LiteralFields ==
    ASSUME NEW l \in Literal
    PROVE  l.robot \in Robots /\ l.forbidden \in {0, 1}
BY DEF Literal, Actions, PAUSE, RESUME

\* Forcing the free robot of a unit clause loses no solution.
LEMMA ForceKeeps ==
    ASSUME TypeOK,
           NEW g \in noGoods, NEW l \in g, NEW a \in Partial, Unit(g, l, a),
           NEW s \in Sol, Extends(s, a)
    PROVE  Extends(s, [a EXCEPT ![l.robot] = 1 - l.forbidden])
<1>1. g \in NoGood /\ g \subseteq Literal
  BY NoGoodSetsAssumption DEF TypeOK, NoGood
<1>2. s \in Assignment /\ ~Violated(g, s)
  BY DEF Sol, Solutions, Satisfies
<1>3. ASSUME NEW k \in g \ {l}
      PROVE  s[k.robot] = k.forbidden
  BY <1>1, <1>3, LiteralFields DEF Unit, Extends, UNASSIGNED
<1>4. s[l.robot] # l.forbidden
  BY <1>2, <1>3 DEF Violated
<1>5. s[l.robot] = 1 - l.forbidden
  BY <1>1, <1>2, <1>4, LiteralFields DEF Assignment, Actions, PAUSE, RESUME
<1>. QED  BY <1>1, <1>5, LiteralFields DEF Extends, Partial

\* No solution extends an assignment that violates a clause.
LEMMA ContradictionExcludes ==
    ASSUME TypeOK, NEW a \in Partial, Contradiction(a), NEW s \in Sol
    PROVE  ~Extends(s, a)
<1>1. PICK g \in noGoods : Violated(g, a)
  BY DEF Contradiction
<1>2. g \subseteq Literal
  BY NoGoodSetsAssumption DEF TypeOK, NoGood
<1>3. ~Violated(g, s)
  BY DEF Sol, Solutions, Satisfies
<1>4. PICK l \in g : s[l.robot] # l.forbidden
  BY <1>3 DEF Violated
<1>5. a[l.robot] = l.forbidden /\ l.robot \in Robots /\ l.forbidden # UNASSIGNED
  BY <1>1, <1>2, LiteralFields DEF Violated, UNASSIGNED
<1>. QED  BY <1>4, <1>5 DEF Extends

\* The heart of completeness: a settled assignment can be completed by any solution.
LEMMA GraftSolves ==
    ASSUME TypeOK, NEW a \in Partial, Settled(a), Extends(a, hard), NEW s \in Sol
    PROVE  Graft(a, s) \in Sol /\ Extends(Graft(a, s), a)
<1>. DEFINE m == Graft(a, s)
<1>1. s \in Assignment /\ Extends(s, hard) /\ Satisfies(s, noGoods)
  BY DEF Sol, Solutions
<1>2. m \in Assignment
  BY <1>1 DEF Graft, Assignment, Partial, Actions, UNASSIGNED
<1>3. Extends(m, a)
  BY DEF Extends, Graft
<1>4. Extends(m, hard)
  BY <1>1 DEF Extends, Graft
<1>5. ASSUME NEW g \in noGoods, Violated(g, m)
      PROVE  FALSE
  <2>1. PICK l \in Literal, k \in Literal : g = {l, k} /\ l.robot # k.robot
    BY <1>5, TwoLiterals, NoGoodSetsAssumption DEF TypeOK
  <2>2. m[l.robot] = l.forbidden /\ m[k.robot] = k.forbidden
    BY <1>5, <2>1 DEF Violated
  <2>3. ~Violated(g, a) /\ ~Unit(g, l, a) /\ ~Unit(g, k, a) /\ ~Violated(g, s)
    BY <1>1, <1>5, <2>1 DEF Settled, Satisfies
  <2>4. l.robot \in Robots /\ k.robot \in Robots /\ l # k
    BY <2>1, LiteralFields
  <2>5. CASE a[l.robot] = UNASSIGNED /\ a[k.robot] = UNASSIGNED
    BY <2>1, <2>2, <2>3, <2>4, <2>5 DEF Graft, Violated
  <2>6. CASE a[l.robot] = UNASSIGNED /\ a[k.robot] # UNASSIGNED
    BY <2>1, <2>2, <2>3, <2>4, <2>6 DEF Graft, Unit
  <2>7. CASE a[l.robot] # UNASSIGNED /\ a[k.robot] = UNASSIGNED
    BY <2>1, <2>2, <2>3, <2>4, <2>7 DEF Graft, Unit
  <2>8. CASE a[l.robot] # UNASSIGNED /\ a[k.robot] # UNASSIGNED
    BY <2>1, <2>2, <2>3, <2>4, <2>8 DEF Graft, Violated
  <2>. QED  BY <2>5, <2>6, <2>7, <2>8
<1>6. Satisfies(m, noGoods)
  BY <1>5 DEF Satisfies
<1>. QED  BY <1>2, <1>3, <1>4, <1>6 DEF Sol, Solutions

\* A settled complete assignment that keeps the hard ones is a solution, and
\* the only one that extends it.
LEMMA CompleteSolves ==
    ASSUME TypeOK, NEW a \in Partial, Settled(a), Free(a) = {}, Extends(a, hard)
    PROVE  /\ a \in Sol
           /\ \A s \in Sol : Extends(s, a) => s = a
<1>1. \A r \in Robots : a[r] # UNASSIGNED
  BY DEF Free
<1>2. a \in Assignment
  BY <1>1 DEF Partial, Assignment, Actions, UNASSIGNED
<1>3. a \in Sol
  BY <1>2 DEF Sol, Solutions, Satisfies, Settled
<1>4. ASSUME NEW s \in Sol, Extends(s, a)
      PROVE  s = a
  BY <1>1, <1>2, <1>4 DEF Extends, Sol, Solutions, Assignment
<1>. QED  BY <1>3, <1>4
-----------------------------------------------------------------------------
\* solve never writes its inputs, so the solutions stay what they were.
LEMMA InputsFixed ==
    ASSUME [Next]_vars
    PROVE  UNCHANGED inputs /\ Sol' = Sol
<1>1. UNCHANGED inputs
  BY DEF vars, inputs, Next, Greedy, Repair, Propagate, GreedyAccept, GreedySelect,
         GreedyRejectResume, GreedyFail, GreedyComplete, RepairSeedFail, RepairSeedAccept,
         RepairSelect, RepairReject, RepairExtend, RepairExhausted, Fallback
<1>. QED  BY <1>1 DEF inputs, Sol

\* A guess keeps an assignment well typed.
LEMMA GuessType ==
    ASSUME NEW a \in Partial, NEW r \in Robots, NEW v \in Actions
    PROVE  [a EXCEPT ![r] = v] \in Partial
BY DEF Partial

\* The call starts well typed.
LEMMA TypeInit == Init => TypeOK
BY DEF Init, TypeOK, Propagating, Pending, NoneAssigned, Partial

\* Every step of solve keeps the types.
LEMMA TypeStep ==
    ASSUME TypeOK, [Next]_vars
    PROVE  TypeOK'
<1>. USE DEF TypeOK, inputs, Propagating
<1>1. CASE Propagate
  <2>1. PICK g \in noGoods : \E l \in g :
          trial' = [trial EXCEPT ![l.robot] = 1 - l.forbidden]
    BY <1>1 DEF Propagate
  <2>. PICK l \in g : trial' = [trial EXCEPT ![l.robot] = 1 - l.forbidden]
    BY <2>1
  <2>2. l.robot \in Robots /\ 1 - l.forbidden \in Actions
    BY LiteralFields, NoGoodSetsAssumption DEF NoGood, Actions, PAUSE, RESUME
  <2>3. trial' \in Partial
    BY <2>2, GuessType
  <2>. QED  BY <1>1, <2>3 DEF Propagate
<1>2. CASE GreedyAccept
  BY <1>2 DEF GreedyAccept
<1>3. CASE GreedySelect
  <2>1. PICK r \in FirstFree(base) : Guess(base, r, RESUME, "GreedyResume")
    BY <1>3 DEF GreedySelect
  <2>2. r \in Robots
    BY DEF FirstFree, Free
  <2>3. trial' \in Partial
    BY <2>1, <2>2, GuessType DEF Guess, Actions
  <2>. QED  BY <1>3, <2>1, <2>2, <2>3 DEF GreedySelect, Guess
<1>4. CASE GreedyRejectResume
  <2>1. trial' \in Partial
    <3>1. trial' = [base EXCEPT ![robot] = PAUSE]
      BY <1>4 DEF GreedyRejectResume, Guess
    <3>. QED  BY <3>1 DEF Partial, Actions
  <2>. QED  BY <1>4, <2>1 DEF GreedyRejectResume, Guess
<1>5. CASE GreedyFail
  BY <1>5 DEF GreedyFail, StartRepair
<1>6. CASE GreedyComplete
  BY <1>6 DEF GreedyComplete, StartRepair, Return
<1>7. CASE RepairSeedFail
  BY <1>7 DEF RepairSeedFail
<1>8. CASE RepairSeedAccept
  BY <1>8 DEF RepairSeedAccept
<1>9. CASE RepairSelect
  <2>1. PICK r \in candidates :
          /\ candidates' = candidates \ {r}
          /\ \/ UNCHANGED <<pc, trial, robot>>
             \/ Guess(base, r, RESUME, "RepairResume")
    BY <1>9 DEF RepairSelect
  <2>2. trial' \in Partial
    BY <2>1, GuessType DEF Guess, Actions
  <2>. QED  BY <1>9, <2>1, <2>2 DEF RepairSelect, Guess
<1>10. CASE RepairReject
  BY <1>10 DEF RepairReject
<1>11. CASE RepairExtend
  <2>1. CASE Free(trial) = {}
    BY <1>11, <2>1 DEF RepairExtend, Return
  <2>2. CASE Free(trial) # {}
    <3>1. PICK r \in Free(trial) : Guess(trial, r, PAUSE, "RepairPause")
      BY <1>11, <2>2 DEF RepairExtend
    <3>2. r \in Robots
      BY DEF Free
    <3>3. trial' \in Partial
      BY <3>1, <3>2, GuessType DEF Guess, Actions
    <3>. QED  BY <1>11, <2>2, <3>1, <3>2, <3>3 DEF RepairExtend, Guess
  <2>. QED  BY <2>1, <2>2
<1>12. CASE RepairExhausted
  BY <1>12 DEF RepairExhausted
<1>13. CASE Fallback
  BY <1>13 DEF Fallback, Return, FailSafe, Infeasible, AllPaused, NoneAssigned,
               Partial, Actions
<1>14. CASE UNCHANGED vars
  BY <1>14 DEF vars
<1>. QED
  BY <1>1, <1>2, <1>3, <1>4, <1>5, <1>6, <1>7, <1>8, <1>9, <1>10, <1>11, <1>12,
     <1>13, <1>14 DEF Next, Greedy, Repair

\* Every variable of a call of solve stays in its type.
THEOREM TypeCorrect == Spec => []TypeOK
<1>. QED  BY TypeInit, TypeStep, PTL DEF Spec
-----------------------------------------------------------------------------
\* Assigning a free robot extends an assignment.
LEMMA GuessExtends ==
    ASSUME NEW a \in Partial, NEW r \in Robots, a[r] = UNASSIGNED, NEW v \in Actions
    PROVE  /\ Extends([a EXCEPT ![r] = v], a)
           /\ [a EXCEPT ![r] = v][r] = v
           /\ \A p \in Partial : Extends(a, p) => Extends([a EXCEPT ![r] = v], p)
BY DEF Partial, Extends

\* Extension is transitive, on partial assignments and on solutions.
LEMMA ExtendsTransitive ==
    ASSUME NEW a, NEW b, NEW c, Extends(a, b), Extends(b, c)
    PROVE  Extends(a, c)
BY DEF Extends

\* A solution gives every robot an action.
LEMMA SolutionActs ==
    ASSUME NEW s \in Sol, NEW r \in Robots
    PROVE  s[r] \in {PAUSE, RESUME}
BY DEF Sol, Solutions, Assignment, Actions

\* The call starts with nothing guessed and nothing answered.
LEMMA InvInit == Init => Inv
<1>. SUFFICES ASSUME Init PROVE Inv
  OBVIOUS
<1>1. TypeOK
  BY TypeInit
<1>2. BaseInv
  BY DEF Init, BaseInv, Extends, GreedyLoop, RepairLoop
<1>3. SeedInv
  BY DEF Init, SeedInv, Sol, Solutions
<1>. QED
  BY <1>1, <1>2, <1>3 DEF Init, Inv, GuessInv, RefutedInv, RankInv, RepairInv, ResultInv,
     GreedyLoop, RepairLoop

\* Propagation inside any trial.
LEMMA PropagateStep == ASSUME Inv, Propagate PROVE Inv'
<1>. USE DEF Inv
<1>1. PICK g \in noGoods : \E l \in g :
        Unit(g, l, trial) /\ trial' = [trial EXCEPT ![l.robot] = 1 - l.forbidden]
  BY DEF Propagate
<1>2. PICK l \in g :
        Unit(g, l, trial) /\ trial' = [trial EXCEPT ![l.robot] = 1 - l.forbidden]
  BY <1>1
<1>3. /\ l.robot \in Robots /\ 1 - l.forbidden \in Actions
      /\ trial[l.robot] = UNASSIGNED
  BY <1>2, LiteralFields, NoGoodSetsAssumption
  DEF TypeOK, NoGood, Actions, PAUSE, RESUME, Unit
<1>4. trial \in Partial /\ hard \in Partial /\ base \in Partial
  BY DEF TypeOK
<1>5. /\ UNCHANGED <<noGoods, hard, score, pc, base, robot, candidates, result>>
      /\ Sol' = Sol
  BY DEF Propagate, inputs, Sol
<1>6. Extends(trial', trial)
  BY <1>2, <1>3, <1>4, GuessExtends
<1>7. ASSUME NEW s \in Sol, Extends(s, trial)
      PROVE  Extends(s, trial')
  BY <1>2, <1>4, <1>7, ForceKeeps
<1>8. TypeOK'
  BY TypeStep DEF Next
<1>9. BaseInv'
  BY <1>5, <1>6 DEF BaseInv, Extends, Settled, Unit, Violated
<1>10. SeedInv'
  BY <1>5, <1>7 DEF SeedInv
<1>11. GuessInv'
  <2>. SUFFICES ASSUME pc \in {"GreedyResume", "GreedyPause"} PROVE GuessInv'
    BY <1>5 DEF GuessInv
  <2>1. trial'[robot] = trial[robot]
    BY <1>6 DEF GuessInv, Extends, RESUME, PAUSE, UNASSIGNED
  <2>2. Extends(trial', base)
    BY <1>6, ExtendsTransitive DEF GuessInv
  <2>. QED  BY <1>5, <1>7, <2>1, <2>2 DEF GuessInv, Before
<1>12. RefutedInv' /\ RankInv' /\ ResultInv'
  BY <1>5 DEF RefutedInv, RankInv, ResultInv, Outranks, Before, Propagate, Propagating
<1>13. RepairInv'
  BY <1>5, <1>6 DEF RepairInv, Progresses, Extends, RESUME, UNASSIGNED
<1>. QED  BY <1>8, <1>9, <1>10, <1>11, <1>12, <1>13

\* Entering the repair pass, once no progressing solution is left.
LEMMA StartRepairStep ==
    ASSUME Inv, TypeOK', StartRepair, UNCHANGED <<inputs, result>>, result = Pending,
           \A s \in Sol : ~Progresses(s)
    PROVE  Inv'
<1>1. UNCHANGED <<noGoods, hard, score>> /\ Sol' = Sol
  BY DEF inputs, Sol
<1>2. BaseInv' /\ SeedInv'
  BY <1>1 DEF StartRepair, BaseInv, SeedInv, Extends, Sol, Solutions, GreedyLoop, RepairLoop
<1>3. RepairInv'
  BY <1>1 DEF StartRepair, RepairInv
<1>. QED
  BY <1>1, <1>2, <1>3 DEF Inv, StartRepair, GuessInv, RefutedInv, RankInv, ResultInv, GreedyLoop,
     Pending

\* What propagation accepted becomes the base, and still no solution is lost.
LEMMA GreedyAcceptStep == ASSUME Inv, GreedyAccept PROVE Inv'
<1>. USE DEF Inv
<1>1. /\ UNCHANGED <<noGoods, hard, score, trial, robot, candidates, result>>
      /\ base' = trial /\ pc' = "GreedySelect" /\ Settled(trial) /\ Sol' = Sol
      /\ trial \in Partial /\ base \in Partial
  BY DEF GreedyAccept, inputs, Sol, TypeOK
<1>2. TypeOK'
  BY TypeStep DEF Next, Greedy
<1>3. BaseInv'
  BY <1>1 DEF BaseInv, Settled, Unit, Violated, Extends
<1>4. RankInv'
  <2>. SUFFICES ASSUME NEW s \in Sol PROVE Extends(s, trial) \/ Outranks(trial, s)
    BY <1>1 DEF RankInv, Outranks, Before
  <2>1. CASE pc = "GreedySeed"
    BY <2>1 DEF SeedInv
  <2>2. CASE pc \in {"GreedyResume", "GreedyPause"}
    <3>1. /\ robot \in Robots /\ Extends(trial, base)
          /\ \A q \in Robots : Before(q, robot) => base[q] # UNASSIGNED
      BY <2>2 DEF GuessInv
    <3>2. CASE Outranks(base, s)
      BY <3>1, <3>2 DEF Outranks, Extends, RESUME, UNASSIGNED
    <3>3. CASE Extends(s, base) /\ s[robot] = trial[robot]
      BY <2>2, <3>3 DEF GuessInv
    <3>4. CASE Extends(s, base) /\ s[robot] # trial[robot]
      <4>1. pc = "GreedyResume" /\ trial[robot] = RESUME /\ s[robot] = PAUSE
        BY <2>2, <3>1, <3>4, SolutionActs DEF GuessInv, RefutedInv
      <4>2. \A q \in Robots : Before(q, robot) => trial[q] # UNASSIGNED /\ s[q] = trial[q]
        BY <3>1, <3>4 DEF Extends
      <4>. QED  BY <3>1, <4>1, <4>2 DEF Outranks
    <3>. QED  BY <2>2, <3>2, <3>3, <3>4 DEF RankInv, GreedyLoop
  <2>. QED  BY <2>1, <2>2 DEF GreedyAccept
<1>. QED
  BY <1>1, <1>2, <1>3, <1>4 DEF SeedInv, GuessInv, RefutedInv, RepairInv, ResultInv,
     GreedyAccept, RepairLoop, Pending

\* The guess starts: Resume for the best ranked free robot.
LEMMA GreedySelectStep == ASSUME Inv, GreedySelect PROVE Inv'
<1>. USE DEF Inv
<1>1. PICK r \in FirstFree(base) : Guess(base, r, RESUME, "GreedyResume")
  BY DEF GreedySelect
<1>2. /\ UNCHANGED <<noGoods, hard, score, base, candidates, result>> /\ Sol' = Sol
      /\ base \in Partial /\ hard \in Partial /\ score \in [Robots -> Int]
      /\ trial' = [base EXCEPT ![r] = RESUME] /\ robot' = r /\ pc' = "GreedyResume"
      /\ pc = "GreedySelect"
  BY <1>1, ScoresAssumption DEF GreedySelect, inputs, Sol, TypeOK, Guess
<1>3. r \in Robots /\ base[r] = UNASSIGNED
  BY DEF FirstFree, Free
<1>4. ASSUME NEW q \in Robots, Before(q, r)
      PROVE  base[q] # UNASSIGNED
  BY <1>2, <1>3, <1>4, RobotsAssumption DEF FirstFree, Free, Before
<1>5. trial'[r] = RESUME /\ Extends(trial', base) /\ Extends(trial', hard)
  BY <1>2, <1>3, GuessExtends DEF BaseInv, Actions
<1>6. ASSUME NEW s \in Sol, Extends(s, base), s[r] = RESUME
      PROVE  Extends(s, trial')
  BY <1>2, <1>3, <1>6 DEF Extends, Partial
<1>7. TypeOK'
  BY TypeStep DEF Next, Greedy
<1>8. BaseInv'
  BY <1>2, <1>5 DEF BaseInv, Settled, Unit, Violated, Extends, GreedyLoop
<1>9. GuessInv'
  BY <1>2, <1>3, <1>4, <1>5, <1>6 DEF GuessInv, Before, Extends
<1>10. RankInv'
  BY <1>2 DEF RankInv, Outranks, Before, GreedyLoop
<1>. QED
  BY <1>2, <1>7, <1>8, <1>9, <1>10 DEF SeedInv, RefutedInv, RepairInv, ResultInv, RepairLoop

\* The guess is refuted: no solution that extends base resumes the robot.
LEMMA GreedyRejectStep == ASSUME Inv, GreedyRejectResume PROVE Inv'
<1>. USE DEF Inv
<1>1. /\ UNCHANGED <<noGoods, hard, score, base, candidates, result>> /\ Sol' = Sol
      /\ base \in Partial /\ hard \in Partial /\ trial \in Partial
      /\ trial' = [base EXCEPT ![robot] = PAUSE] /\ robot' = robot /\ pc' = "GreedyPause"
      /\ pc = "GreedyResume"
  BY DEF GreedyRejectResume, inputs, Sol, TypeOK, Guess
<1>2. robot \in Robots /\ base[robot] = UNASSIGNED /\ trial[robot] = RESUME
  BY <1>1 DEF GuessInv
<1>3. ASSUME NEW s \in Sol, Extends(s, base)
      PROVE  s[robot] # RESUME
  BY <1>1, <1>2, <1>3, ContradictionExcludes DEF GuessInv, GreedyRejectResume
<1>4. trial'[robot] = PAUSE /\ Extends(trial', base) /\ Extends(trial', hard)
  BY <1>1, <1>2, GuessExtends DEF BaseInv, Actions
<1>5. ASSUME NEW s \in Sol, Extends(s, base), s[robot] = PAUSE
      PROVE  Extends(s, trial')
  BY <1>1, <1>2, <1>5 DEF Extends, Partial
<1>6. TypeOK'
  BY TypeStep DEF Next, Greedy
<1>7. BaseInv'
  BY <1>1, <1>4 DEF BaseInv, Settled, Unit, Violated, Extends, GreedyLoop
<1>8. GuessInv' /\ RefutedInv'
  BY <1>1, <1>2, <1>3, <1>4, <1>5 DEF GuessInv, RefutedInv, Before, Extends
<1>9. RankInv'
  BY <1>1 DEF RankInv, Outranks, Before, GreedyLoop
<1>. QED
  BY <1>1, <1>6, <1>7, <1>8, <1>9 DEF SeedInv, RepairInv, ResultInv, RepairLoop

\* The greedy pass fails only when there is no solution at all.
LEMMA GreedyFailStep == ASSUME Inv, GreedyFail PROVE Inv'
<1>. USE DEF Inv
<1>1. Sol = {}
  <2>. SUFFICES ASSUME NEW s \in Sol PROVE FALSE
    OBVIOUS
  <2>0. trial \in Partial /\ base \in Partial /\ Contradiction(trial)
    BY DEF TypeOK, GreedyFail
  <2>1. CASE pc = "GreedySeed"
    BY <2>0, <2>1, ContradictionExcludes DEF SeedInv
  <2>2. CASE pc = "GreedyPause"
    <3>1. Graft(base, s) \in Sol /\ Extends(Graft(base, s), base)
      BY <2>0, <2>2, GraftSolves DEF BaseInv, GreedyLoop
    <3>2. Graft(base, s)[robot] = PAUSE
      BY <2>2, <3>1, SolutionActs DEF RefutedInv, GuessInv
    <3>3. Extends(Graft(base, s), trial)
      BY <2>2, <3>1, <3>2 DEF GuessInv
    <3>. QED  BY <2>0, <3>1, <3>3, ContradictionExcludes
  <2>. QED  BY <2>1, <2>2 DEF GreedyFail
<1>2. TypeOK'
  BY TypeStep DEF Next, Greedy
<1>. QED  BY <1>1, <1>2, StartRepairStep DEF GreedyFail, ResultInv

\* A complete greedy assignment: returned, or the only solution and all Pause.
LEMMA GreedyCompleteStep == ASSUME Inv, GreedyComplete PROVE Inv'
<1>. USE DEF Inv
<1>0. TypeOK'
  BY TypeStep DEF Next, Greedy
<1>1. /\ base \in Sol
      /\ \A s \in Sol : s = base \/ Outranks(base, s)
  BY CompleteSolves DEF GreedyComplete, TypeOK, BaseInv, RankInv, GreedyLoop
<1>2. CASE Progresses(base)
  <2>1. /\ UNCHANGED <<noGoods, hard, score, base, trial, robot, candidates>> /\ Sol' = Sol
        /\ result' = [source |-> "HEURISTIC", decisions |-> base] /\ pc' = "Done"
    BY <1>2 DEF GreedyComplete, Return, inputs, Sol
  <2>2. BaseInv'
    BY <2>1 DEF BaseInv, Extends, GreedyLoop, RepairLoop
  <2>3. ResultInv'
    BY <1>1, <1>2, <2>1 DEF ResultInv, Outranks, Before, Progresses
  <2>. QED
    BY <1>0, <2>1, <2>2, <2>3 DEF SeedInv, GuessInv, RefutedInv, RankInv, RepairInv,
       GreedyLoop, RepairLoop
<1>3. CASE ~Progresses(base)
  <2>1. \A s \in Sol : ~Progresses(s)
    BY <1>1, <1>3 DEF Outranks, Progresses
  <2>. QED  BY <1>0, <1>3, <2>1, StartRepairStep DEF GreedyComplete, ResultInv
<1>. QED  BY <1>2, <1>3
-----------------------------------------------------------------------------
\* The repair pass: moving between candidates keeps base and the verdict.
LEMMA RepairSeedStep == ASSUME Inv, RepairSeedFail \/ RepairSeedAccept PROVE Inv'
<1>. USE DEF Inv
<1>1. TypeOK'
  BY TypeStep DEF Next, Repair
<1>2. /\ UNCHANGED <<noGoods, hard, score, trial, robot, result>> /\ Sol' = Sol
      /\ pc = "RepairSeed" /\ result = Pending
  BY DEF RepairSeedFail, RepairSeedAccept, inputs, Sol, ResultInv
<1>3. BaseInv'
  BY <1>2 DEF RepairSeedFail, RepairSeedAccept, BaseInv, Settled, Unit, Violated, Extends,
     GreedyLoop, RepairLoop
<1>4. RepairInv'
  BY <1>2 DEF RepairSeedFail, RepairSeedAccept, RepairInv, RepairLoop
<1>. QED
  BY <1>1, <1>2, <1>3, <1>4 DEF RepairSeedFail, RepairSeedAccept, SeedInv, GuessInv,
     RefutedInv, RankInv, ResultInv, GreedyLoop, Pending

\* Choosing the next escape robot keeps the invariant.
LEMMA RepairSelectStep == ASSUME Inv, RepairSelect PROVE Inv'
<1>. USE DEF Inv
<1>1. TypeOK'
  BY TypeStep DEF Next, Repair
<1>2. PICK r \in candidates :
        IF base[r] = PAUSE
        THEN UNCHANGED <<pc, trial, robot>>
        ELSE Guess(base, r, RESUME, "RepairResume")
  BY DEF RepairSelect
<1>3. /\ UNCHANGED <<noGoods, hard, score, base, result>> /\ Sol' = Sol
      /\ pc = "RepairSelect" /\ result = Pending
      /\ r \in Robots /\ base \in Partial /\ hard \in Partial
  BY DEF RepairSelect, inputs, Sol, ResultInv, TypeOK
<1>4. CASE base[r] = PAUSE
  BY <1>1, <1>2, <1>3, <1>4 DEF BaseInv, SeedInv, GuessInv, RefutedInv, RankInv, RepairInv,
     ResultInv, GreedyLoop, RepairLoop, Settled, Unit, Violated, Extends, Pending
<1>5. CASE base[r] # PAUSE
  <2>1. trial' = [base EXCEPT ![r] = RESUME] /\ pc' = "RepairResume" /\ trial'[r] = RESUME
    BY <1>2, <1>3, <1>5 DEF Guess, Partial
  <2>2. base[r] \in {RESUME, UNASSIGNED}
    BY <1>3, <1>5 DEF Partial, Actions
  <2>3. Extends(trial', hard)
    BY <1>3, <2>1, <2>2 DEF BaseInv, Extends, Partial
  <2>4. BaseInv'
    BY <1>3, <2>1, <2>3 DEF BaseInv, Settled, Unit, Violated, Extends, RepairLoop
  <2>5. RepairInv'
    BY <1>3, <2>1 DEF RepairInv, Progresses, RepairLoop
  <2>. QED
    BY <1>1, <1>3, <2>1, <2>4, <2>5 DEF SeedInv, GuessInv, RefutedInv, RankInv, ResultInv,
       GreedyLoop, Pending
<1>. QED  BY <1>4, <1>5

\* Giving up on an escape robot, or on the repair, keeps the invariant.
LEMMA RepairLeaveStep == ASSUME Inv, RepairReject \/ RepairExhausted PROVE Inv'
<1>. USE DEF Inv
<1>1. TypeOK'
  BY TypeStep DEF Next, Repair
<1>2. /\ UNCHANGED <<noGoods, hard, score, base, trial, robot, candidates, result>> /\ Sol' = Sol
      /\ pc \in RepairLoop /\ pc' \in {"RepairSelect", "Fallback"} /\ result = Pending
  BY DEF RepairReject, RepairExhausted, inputs, Sol, ResultInv, RepairLoop
<1>. QED
  BY <1>1, <1>2 DEF BaseInv, SeedInv, GuessInv, RefutedInv, RankInv, RepairInv,
     ResultInv, GreedyLoop, RepairLoop, Settled, Unit, Violated, Extends, Pending

\* A complete repair trial would be a progressing solution: there is none.
LEMMA RepairExtendStep == ASSUME Inv, RepairExtend PROVE Inv'
<1>. USE DEF Inv
<1>1. TypeOK'
  BY TypeStep DEF Next, Repair
<1>2. /\ UNCHANGED <<noGoods, hard, score, base, candidates>> /\ Sol' = Sol
      /\ pc \in {"RepairResume", "RepairPause"} /\ result = Pending
      /\ trial \in Partial /\ hard \in Partial /\ Settled(trial) /\ Extends(trial, hard)
      /\ Progresses(trial) /\ \A s \in Sol : ~Progresses(s)
  BY DEF RepairExtend, inputs, Sol, ResultInv, TypeOK, BaseInv, RepairInv, RepairLoop
<1>3. Free(trial) # {}
  BY <1>2, CompleteSolves
<1>4. PICK r \in Free(trial) : Guess(trial, r, PAUSE, "RepairPause")
  BY <1>3 DEF RepairExtend
<1>5. /\ r \in Robots /\ trial[r] = UNASSIGNED /\ result' = result
      /\ trial' = [trial EXCEPT ![r] = PAUSE] /\ pc' = "RepairPause"
  BY <1>3, <1>4 DEF RepairExtend, Free, Guess
<1>6. Extends(trial', trial) /\ Extends(trial', hard)
  BY <1>2, <1>5, GuessExtends DEF Actions
<1>7. BaseInv'
  BY <1>2, <1>5, <1>6 DEF BaseInv, Settled, Unit, Violated, Extends, RepairLoop
<1>8. RepairInv'
  BY <1>2, <1>5, <1>6 DEF RepairInv, Progresses, Extends, RESUME, UNASSIGNED
<1>. QED
  BY <1>1, <1>2, <1>5, <1>7, <1>8 DEF SeedInv, GuessInv, RefutedInv, RankInv, ResultInv,
     GreedyLoop, Pending

\* Without progressing solutions, all Pause is the only candidate left.
LEMMA FallbackStep == ASSUME Inv, Fallback PROVE Inv'
<1>. USE DEF Inv
<1>1. TypeOK'
  BY TypeStep DEF Next
<1>2. /\ UNCHANGED <<noGoods, hard, score, base, trial, robot, candidates>> /\ Sol' = Sol
      /\ pc = "Fallback" /\ pc' = "Done"
  BY DEF Fallback, Return, inputs, Sol
<1>3. ASSUME NEW s \in Sol
      PROVE  s = AllPaused
  BY <1>2, SolutionActs DEF RepairInv, Progresses, Sol, Solutions, Assignment, AllPaused
<1>4. \/ result' = FailSafe /\ Sol = {AllPaused}
      \/ result' = Infeasible /\ Sol = {}
  BY <1>3 DEF Fallback, Return, Sol
<1>5. ResultInv'
  BY <1>2, <1>4 DEF ResultInv, FailSafe, Infeasible
<1>6. BaseInv'
  BY <1>2 DEF BaseInv, Extends, GreedyLoop, RepairLoop
<1>. QED
  BY <1>1, <1>2, <1>5, <1>6 DEF SeedInv, GuessInv, RefutedInv, RankInv, RepairInv,
     GreedyLoop, RepairLoop

\* The invariant depends on the variables only.
LEMMA InvStutter == ASSUME Inv, UNCHANGED vars PROVE Inv'
BY DEF Inv, vars, TypeOK, BaseInv, SeedInv, GuessInv, RefutedInv, RankInv, RepairInv,
   ResultInv, Sol, Settled, Unit, Violated, Outranks, Before, Propagating, Extends,
   GreedyLoop, RepairLoop

\* Every step of solve keeps the invariant.
LEMMA InvStep == Inv /\ [Next]_vars => Inv'
BY PropagateStep, GreedyAcceptStep, GreedySelectStep, GreedyRejectStep, GreedyFailStep,
   GreedyCompleteStep, RepairSeedStep, RepairSelectStep, RepairLeaveStep, RepairExtendStep,
   FallbackStep, InvStutter
DEF Next, Greedy, Repair

\* The invariant holds in every reachable state.
LEMMA InvHolds == Spec => []Inv
BY InvInit, InvStep, PTL DEF Spec
-----------------------------------------------------------------------------
\* A component is not empty, so the two fail-safe answers differ.
LEMMA AnswersDiffer == FailSafe # Infeasible
<1>1. AllPaused # NoneAssigned
  BY ComponentAssumption DEF AllPaused, NoneAssigned, PAUSE, UNASSIGNED
<1>. QED  BY <1>1 DEF FailSafe, Infeasible

\* Every decision set solve returns passes the independent validator.
THEOREM Soundness == Spec => []ResultSound
<1>1. Inv => ResultSound
  BY AnswersDiffer DEF Inv, ResultInv, ResultSound, Sol, Pending, FailSafe, Infeasible
<1>. QED  BY <1>1, InvHolds, PTL

\* solve gives up only when there is nothing to find.
THEOREM Completeness == Spec => []ResultComplete
<1>1. Inv => ResultComplete
  BY AnswersDiffer DEF Inv, ResultInv, ResultComplete, Sol, Pending, FailSafe, Infeasible
<1>. QED  BY <1>1, InvHolds, PTL

\* The escape-repair pass never produces the answer.
THEOREM RepairIsRedundant == Spec => []RepairNeverNeeded
<1>1. Inv => RepairNeverNeeded
  BY DEF Inv, ResultInv, RepairNeverNeeded, Pending, FailSafe, Infeasible
<1>. QED  BY <1>1, InvHolds, PTL

\* Greedy answers are lexicographically best by rank.
THEOREM RankTheorem == Spec => []RankRespected
<1>1. Inv => RankRespected
  BY DEF Inv, ResultInv, RankRespected, Sol, Outranks, Pending, FailSafe, Infeasible
<1>. QED  BY <1>1, InvHolds, PTL

\* Propagation only draws consequences of the accepted base and the guess.
THEOREM PropagationSound == Spec => []TrialImplied
<1>1. Inv => TrialImplied
  BY DEF Inv, GuessInv, TrialImplied, Sol
<1>. QED  BY <1>1, InvHolds, PTL
-----------------------------------------------------------------------------
\* ComponentSolver reads the conflict model exactly as Heuristic does.
LEMMA SameReading ==
    /\ Promise!NoGood = NoGood
    /\ Promise!Partial = Partial
    /\ Promise!AllPaused = AllPaused
    /\ Promise!Pending = Pending
    /\ Promise!FailSafe = FailSafe
    /\ Promise!Infeasible = Infeasible
    /\ \A N, h : Promise!Solutions(N, h) = Solutions(N, h)
    /\ \A a : Promise!Progresses(a) <=> Progresses(a)
BY DEF Promise!NoGood, NoGood, Promise!Literal, Literal, Promise!Partial, Partial,
   Promise!Actions, Actions, Promise!PAUSE, PAUSE, Promise!RESUME, RESUME,
   Promise!UNASSIGNED, UNASSIGNED, Promise!AllPaused, AllPaused, Promise!NoneAssigned,
   NoneAssigned, Promise!Pending, Pending, Promise!FailSafe, FailSafe, Promise!Infeasible,
   Infeasible, Promise!Solutions, Solutions, Promise!Assignment, Assignment,
   Promise!Satisfies, Satisfies, Promise!Extends, Extends, Promise!Violated, Violated,
   Promise!Progresses, Progresses

\* The heuristic answers as ComponentSolver promises, once and never otherwise
\* (that it does answer is liveness, and left to TLC).
THEOREM KeepsPromise == Spec => Promise!Init /\ [][Promise!Answer]_(Promise!vars)
<1>1. Init => Promise!Init
  BY NoGoodSetsAssumption, SameReading DEF Init, Promise!Init
<1>2. ASSUME Inv, Inv', [Next]_vars
      PROVE  [Promise!Answer]_(Promise!vars)
  <2>1. UNCHANGED <<noGoods, hard>> /\ Sol' = Sol
    BY <1>2, InputsFixed DEF inputs
  <2>2. CASE result' = result
    BY <2>1, <2>2 DEF Promise!vars
  <2>3. CASE result' # result
    <3>1. pc # "Done"
      BY <1>2, <2>3 DEF vars, Next, Greedy, Repair, Propagating, Propagate, GreedyAccept,
         GreedySelect, GreedyRejectResume, GreedyFail, GreedyComplete, RepairSeedFail,
         RepairSeedAccept, RepairSelect, RepairReject, RepairExtend, RepairExhausted, Fallback
    <3>2. result = Promise!Pending
      BY <1>2, <3>1, SameReading DEF Inv, ResultInv
    <3>3. pc' = "Done"
      BY <1>2, <2>3, <3>1 DEF Inv, ResultInv
    <3>4. CASE result' = [source |-> "HEURISTIC", decisions |-> base'] /\ base' \in Sol
               /\ Progresses(base')
      <4>1. Promise!AnswerProgress
        BY <3>4, SameReading DEF Promise!AnswerProgress, Sol
      <4>. QED  BY <2>1, <3>2, <4>1 DEF Promise!Answer
    <3>5. CASE result' = FailSafe /\ Sol = {AllPaused}
      BY <2>1, <3>2, <3>5, SameReading DEF Promise!Answer, Promise!AnswerFailSafe, Sol
    <3>6. CASE result' = Infeasible /\ Sol = {}
      BY <2>1, <3>2, <3>6, SameReading DEF Promise!Answer, Promise!AnswerInfeasible, Sol
    <3>. QED
      BY <1>2, <2>1, <3>3, <3>4, <3>5, <3>6 DEF Inv, ResultInv, FailSafe, Infeasible
  <2>. QED  BY <2>2, <2>3
<1>. QED  BY <1>1, <1>2, InvHolds, PTL DEF Spec
=============================================================================
