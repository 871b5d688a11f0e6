----------------------------- MODULE ExactProofs -----------------------------
(***************************************************************************)
(* Theorems about the solution of one component, for any finite number of  *)
(* robots, any settings and any conditions: no check of the code fires on  *)
(* what the code itself computes, and the answer is the one Engine relies  *)
(* on.  What a sum over a set of robots is follows by induction over       *)
(* finite sets: of a smallest set for which a fact fails, any element can  *)
(* be taken away.                                                          *)
(***************************************************************************)
EXTENDS Exact, FiniteSetTheorems, WellFoundedInduction, TLAPS

\* Products of natural numbers grow with a factor.
LEMMA ProductGrows ==
    ASSUME NEW k \in Nat, NEW n \in Nat, k <= n, NEW x \in Nat
    PROVE  k * x \in Nat /\ k * x <= n * x
<1>1. PICK d \in Nat : n = k + d
  <2>1. n - k \in Nat /\ n = k + (n - k)
    OBVIOUS
  <2> QED
    BY <2>1
<1>2. n * x = k * x + d * x
  BY <1>1
<1>3. d * x \in Nat /\ k * x \in Nat
  BY <1>1
<1> QED
  BY <1>2, <1>3

-----------------------------------------------------------------------------
\* Among finite sets of which a fact fails there is a smallest one.
LEMMA SmallestExists ==
    ASSUME NEW S, IsFiniteSet(S), NEW Bad \in SUBSET (SUBSET S), Bad # {}
    PROVE  \E T \in Bad : \A U \in Bad : U \subseteq T => U = T
<1>1. IsWellFoundedOn(StrictSubsetOrdering(S), SUBSET S)
  BY FS_StrictSubsetOrderingWellFounded, FS_FiniteSubsetsOfFinite
<1>2. PICK T \in Bad : \A U \in Bad : <<U, T>> \notin StrictSubsetOrdering(S)
  BY <1>1, WFMin
<1>3. ASSUME NEW U \in Bad, U \subseteq T, U # T PROVE FALSE
  BY <1>2, <1>3 DEF StrictSubsetOrdering
<1> QED
  BY <1>3
-----------------------------------------------------------------------------
(* The sum is a fold, which is the value at S of a function that is given  *)
(* by its recursive equation.                                              *)

Some(s) == CHOOSE x \in s : TRUE
SumsOver(v, S, f) ==
    f = [s \in SUBSET S |-> IF s = {} THEN 0 ELSE v[Some(s)] + f[s \ {Some(s)}]]
Sums(v, S) == CHOOSE f : SumsOver(v, S, f)

LEMMA SumIsFold ==
    ASSUME NEW v, NEW S
    PROVE  Sum(v, S) = Sums(v, S)[S]
BY DEF Sum, MapThenSumSet, MapThenFoldSet, Sums, SumsOver, Some

\* The equation has one solution at most.
LEMMA SumsUnique ==
    ASSUME NEW v, NEW S, IsFiniteSet(S), NEW f, NEW g, SumsOver(v, S, f), SumsOver(v, S, g)
    PROVE  f = g
<1> DEFINE Bad == {s \in SUBSET S : f[s] # g[s]}
<1>1. Bad = {}
  <2>1. SUFFICES ASSUME Bad # {} PROVE FALSE
    OBVIOUS
  <2>2. PICK s \in Bad : \A u \in Bad : u \subseteq s => u = s
    <3>1. Bad \in SUBSET (SUBSET S)
      OBVIOUS
    <3> HIDE DEF Bad
    <3> QED
      BY <2>1, <3>1, SmallestExists
  <2>3. /\ f[s] = IF s = {} THEN 0 ELSE v[Some(s)] + f[s \ {Some(s)}]
        /\ g[s] = IF s = {} THEN 0 ELSE v[Some(s)] + g[s \ {Some(s)}]
    BY DEF SumsOver
  <2>4. s # {} /\ f[s \ {Some(s)}] # g[s \ {Some(s)}]
    BY <2>2, <2>3
  <2>5. Some(s) \in s
    BY <2>4 DEF Some
  <2> QED
    BY <2>2, <2>4, <2>5
<1>2. \A s \in SUBSET S : f[s] = g[s]
  BY <1>1
<1>3. f = [s \in SUBSET S |-> f[s]] /\ g = [s \in SUBSET S |-> g[s]]
  BY DEF SumsOver
<1> QED
  BY <1>2, <1>3

\* The sum unfolds: a smallest set where it does not has subsets for which it does, and
\* from their sums a solution of the equation is made.
LEMMA SumUnfolds ==
    ASSUME NEW v, NEW S, IsFiniteSet(S)
    PROVE  Sum(v, S) = IF S = {} THEN 0 ELSE v[Some(S)] + Sum(v, S \ {Some(S)})
<1> DEFINE Body(s) == IF s = {} THEN 0 ELSE v[Some(s)] + Sum(v, s \ {Some(s)})
           Bad == {s \in SUBSET S : Sum(v, s) # Body(s)}
<1>1. SUFFICES ASSUME Bad # {} PROVE FALSE
  OBVIOUS
<1>2. PICK T \in Bad : \A u \in Bad : u \subseteq T => u = T
  <2>1. Bad \in SUBSET (SUBSET S)
    OBVIOUS
  <2> HIDE DEF Bad
  <2> QED
    BY <1>1, <2>1, SmallestExists
<1>3. IsFiniteSet(T) /\ T \subseteq S
  BY FS_Subset
<1> DEFINE g == [s \in SUBSET T |-> Body(s)]
<1>4. SumsOver(v, T, g)
  <2>1. ASSUME NEW s \in SUBSET T, s # {}
        PROVE  g[s \ {Some(s)}] = Sum(v, s \ {Some(s)})
    <3>1. Some(s) \in s
      BY <2>1 DEF Some
    <3>2. s \ {Some(s)} \in SUBSET T /\ s \ {Some(s)} # T
      BY <3>1
    <3>3. s \ {Some(s)} \notin Bad
      BY <1>2, <3>2
    <3>4. Sum(v, s \ {Some(s)}) = Body(s \ {Some(s)})
      BY <1>3, <3>2, <3>3
    <3>5. g[s \ {Some(s)}] = Body(s \ {Some(s)})
      BY <3>2
    <3> QED
      BY <3>4, <3>5
  <2>2. \A s \in SUBSET T : Body(s) = IF s = {} THEN 0 ELSE v[Some(s)] + g[s \ {Some(s)}]
    <3>1. SUFFICES ASSUME NEW s \in SUBSET T
                   PROVE  Body(s) = IF s = {} THEN 0 ELSE v[Some(s)] + g[s \ {Some(s)}]
      OBVIOUS
    <3>2. CASE s = {}
      BY <3>2
    <3>3. CASE s # {}
      <4> HIDE DEF g
      <4> QED
        BY <2>1, <3>3
    <3> QED
      BY <3>2, <3>3
  <2> DEFINE h == [s \in SUBSET T |-> IF s = {} THEN 0 ELSE v[Some(s)] + g[s \ {Some(s)}]]
  <2>3. g = h
    BY <2>2
  <2> QED
    BY <2>3 DEF SumsOver
<1>5. SumsOver(v, T, Sums(v, T))
  <2> HIDE DEF g
  <2> QED
    BY <1>4 DEF Sums
<1>6. Sums(v, T) = g
  <2> HIDE DEF g
  <2> QED
    BY <1>3, <1>4, <1>5, SumsUnique
<1>7. Sum(v, T) = Body(T)
  BY <1>6, SumIsFold
<1> QED
  BY <1>2, <1>7
-----------------------------------------------------------------------------
(* What holds of a sum of numbers, whatever the order they are added in.   *)

LEMMA SumOfNone == ASSUME NEW v PROVE Sum(v, {}) = 0
BY SumUnfolds, FS_EmptySet

LEMMA SumType ==
    ASSUME NEW S, IsFiniteSet(S), NEW v, \A r \in S : v[r] \in Nat
    PROVE  Sum(v, S) \in Nat
<1> DEFINE Bad == {s \in SUBSET S : Sum(v, s) \notin Nat}
<1>1. SUFFICES ASSUME Bad # {} PROVE FALSE
  OBVIOUS
<1>2. PICK T \in Bad : \A u \in Bad : u \subseteq T => u = T
  <2>1. Bad \in SUBSET (SUBSET S)
    OBVIOUS
  <2> HIDE DEF Bad
  <2> QED
    BY <1>1, <2>1, SmallestExists
<1>3. Sum(v, T) = IF T = {} THEN 0 ELSE v[Some(T)] + Sum(v, T \ {Some(T)})
  BY SumUnfolds, FS_Subset
<1>4. T # {}
  BY <1>2, <1>3
<1>5. Some(T) \in T
  BY <1>4 DEF Some
<1>6. T \ {Some(T)} \notin Bad
  BY <1>2, <1>5
<1>7. Sum(v, T \ {Some(T)}) \in Nat /\ v[Some(T)] \in Nat
  BY <1>5, <1>6
<1> QED
  BY <1>2, <1>3, <1>4, <1>7

\* Any element can be taken out first.
LEMMA SumTakesOut ==
    ASSUME NEW S, IsFiniteSet(S), NEW v, \A r \in S : v[r] \in Nat, NEW x \in S
    PROVE  Sum(v, S) = v[x] + Sum(v, S \ {x})
<1> DEFINE Bad == {s \in SUBSET S : \E y \in s : Sum(v, s) # v[y] + Sum(v, s \ {y})}
<1>1. SUFFICES ASSUME Bad # {} PROVE FALSE
  OBVIOUS
<1>2. PICK T \in Bad : \A u \in Bad : u \subseteq T => u = T
  <2>1. Bad \in SUBSET (SUBSET S)
    OBVIOUS
  <2> HIDE DEF Bad
  <2> QED
    BY <1>1, <2>1, SmallestExists
<1>3. PICK y \in T : Sum(v, T) # v[y] + Sum(v, T \ {y})
  BY <1>2
<1> DEFINE c == Some(T)
<1>4. c \in T
  BY DEF Some
<1>5. Sum(v, T) = v[c] + Sum(v, T \ {c})
  BY SumUnfolds, FS_Subset
<1> HIDE DEF c
<1>6. c # y
  BY <1>3, <1>5
<1>7. T \ {c} \notin Bad /\ T \ {y} \notin Bad
  <2> SUFFICES ASSUME NEW z \in T PROVE T \ {z} \notin Bad
    BY <1>4
  <2>1. T \ {z} # T /\ T \ {z} \subseteq T
    OBVIOUS
  <2> HIDE DEF Bad
  <2> QED
    BY <1>2, <2>1
<1>8. Sum(v, T \ {c}) = v[y] + Sum(v, (T \ {c}) \ {y})
  BY <1>2, <1>4, <1>6, <1>7
<1>9. Sum(v, T \ {y}) = v[c] + Sum(v, (T \ {y}) \ {c})
  BY <1>2, <1>4, <1>6, <1>7
<1>10. (T \ {c}) \ {y} = (T \ {y}) \ {c}
  OBVIOUS
<1>11. Sum(v, (T \ {y}) \ {c}) \in Nat
  <2>1. (T \ {y}) \ {c} \in SUBSET S
    BY <1>2
  <2> QED
    BY <2>1, SumType, FS_Subset
<1>12. v[c] \in Nat /\ v[y] \in Nat
  BY <1>2, <1>3, <1>4
<1>13. \A i, j, k \in Nat : i + (j + k) = j + (i + k)
  OBVIOUS
<1>14. v[c] + (v[y] + Sum(v, (T \ {y}) \ {c})) = v[y] + (v[c] + Sum(v, (T \ {y}) \ {c}))
  BY <1>11, <1>12, <1>13
<1>15. Sum(v, T) = v[c] + (v[y] + Sum(v, (T \ {y}) \ {c}))
  BY <1>5, <1>8, <1>10
<1> QED
  BY <1>3, <1>9, <1>14, <1>15

LEMMA SumGrows ==
    ASSUME NEW S, IsFiniteSet(S), NEW v, \A r \in S : v[r] \in Nat, NEW A \in SUBSET S
    PROVE  Sum(v, A) <= Sum(v, S)
<1> DEFINE Bad == {s \in SUBSET S : A \subseteq s /\ ~(Sum(v, A) <= Sum(v, s))}
<1>1. SUFFICES ASSUME Bad # {} PROVE FALSE
  OBVIOUS
<1>2. PICK T \in Bad : \A u \in Bad : u \subseteq T => u = T
  <2>1. Bad \in SUBSET (SUBSET S)
    OBVIOUS
  <2> HIDE DEF Bad
  <2> QED
    BY <1>1, <2>1, SmallestExists
<1>3. \A s \in SUBSET S : Sum(v, s) \in Nat
  BY SumType, FS_Subset
<1>4. T # A
  BY <1>2, <1>3
<1>5. PICK x \in T : x \notin A
  BY <1>2, <1>4
<1>6. A \subseteq T \ {x} /\ T \ {x} \in SUBSET S /\ T \ {x} # T
  BY <1>2, <1>5
<1>7. Sum(v, A) <= Sum(v, T \ {x})
  BY <1>2, <1>6
<1>8. Sum(v, T) = v[x] + Sum(v, T \ {x})
  BY <1>2, SumTakesOut, FS_Subset
<1>9. v[x] \in Nat /\ Sum(v, T) \in Nat /\ Sum(v, T \ {x}) \in Nat /\ Sum(v, A) \in Nat
  BY <1>2, <1>3, <1>6
<1> QED
  BY <1>2, <1>7, <1>8, <1>9

\* Numbers of at most m sum to at most m for each of them.
LEMMA SumBounded ==
    ASSUME NEW S, IsFiniteSet(S), NEW v, NEW m \in Nat,
           \A r \in S : v[r] \in Nat /\ v[r] <= m
    PROVE  Sum(v, S) <= Cardinality(S) * m
<1> DEFINE Bad == {s \in SUBSET S : ~(Sum(v, s) <= Cardinality(s) * m)}
<1>1. SUFFICES ASSUME Bad # {} PROVE FALSE
  OBVIOUS
<1>2. PICK T \in Bad : \A u \in Bad : u \subseteq T => u = T
  <2>1. Bad \in SUBSET (SUBSET S)
    OBVIOUS
  <2> HIDE DEF Bad
  <2> QED
    BY <1>1, <2>1, SmallestExists
<1>3. T # {}
  <2>1. Sum(v, {}) = 0 /\ Cardinality({}) = 0 /\ 0 * m = 0
    BY SumOfNone, FS_EmptySet
  <2>2. Sum(v, {}) <= Cardinality({}) * m
    BY <2>1
  <2> QED
    BY <1>2, <2>2
<1>4. PICK x \in T : TRUE
  BY <1>3
<1>5. T \ {x} \in SUBSET S /\ T \ {x} # T /\ T \ {x} \subseteq T /\ IsFiniteSet(T)
      /\ IsFiniteSet(T \ {x})
  BY <1>2, FS_Subset
<1>6. Sum(v, T \ {x}) <= Cardinality(T \ {x}) * m
  BY <1>2, <1>5
<1>7. Sum(v, T) = v[x] + Sum(v, T \ {x})
  BY <1>2, <1>5, SumTakesOut
<1>8. /\ Cardinality(T \ {x}) = Cardinality(T) - 1
      /\ Cardinality(T) \in Nat /\ Cardinality(T \ {x}) \in Nat
  BY <1>5, FS_RemoveElement, FS_CardinalityType
<1>9. v[x] \in Nat /\ v[x] <= m /\ Sum(v, T) \in Nat /\ Sum(v, T \ {x}) \in Nat
  BY <1>2, <1>5, SumType
<1>10. Cardinality(T) * m = Cardinality(T \ {x}) * m + m
  BY <1>8
<1>11. Cardinality(T \ {x}) * m \in Nat
  BY <1>8, ProductGrows
<1> QED
  BY <1>2, <1>6, <1>7, <1>9, <1>10, <1>11
-----------------------------------------------------------------------------
\* Rounding a share of u down leaves at most u.
LEMMA ShareBounded ==
    ASSUME NEW u \in Nat, NEW h \in Nat \ {0}, NEW k \in Nat, k <= h
    PROVE  (u * k) \div h \in Nat /\ (u * k) \div h <= u
<1> DEFINE q == (u * k) \div h
<1>1. k * u \in Nat /\ k * u <= h * u
  BY ProductGrows
<1>2. q \in Int /\ h * q <= u * k /\ u * k < h * q + h
  BY <1>1
<1>3. q >= 0
  BY <1>1, <1>2
<1>4. q <= u
  BY <1>1, <1>2, <1>3
<1> QED
  BY <1>2, <1>3, <1>4

\* The urgency of a deadline lies between nothing and its maximum.
LEMMA UrgencyBounded ==
    ASSUME NEW c \in Settings, NEW slack \in Int
    PROVE  Urgency(c, slack) \in Nat /\ Urgency(c, slack) <= c.urgency
<1> DEFINE left == c.horizon - AtMost(AtLeast(slack, 0), c.horizon)
<1>1. c.urgency \in Nat /\ c.horizon \in Nat \ {0}
  BY DEF Settings
<1>2. left \in Nat /\ left <= c.horizon
  BY <1>1 DEF AtMost, AtLeast
<1>3. Urgency(c, slack) = (c.urgency * left) \div c.horizon
  BY DEF Urgency
<1> QED
  BY <1>1, <1>2, <1>3, ShareBounded

\* A robot clears at most the conflicts with all the others.
LEMMA ClearedBounded ==
    ASSUME NEW N, NEW r \in Robots
    PROVE  /\ Size \in Nat \ {0}
           /\ Cardinality(ClearedAlone(N, r)) \in Nat
           /\ Cardinality(ClearedAlone(N, r)) <= Size - 1
<1>1. IsFiniteSet(Robots) /\ IsFiniteSet(Robots \ {r})
  BY ExactAssumption, FS_RemoveElement
<1>2. Cardinality(Robots \ {r}) = Size - 1 /\ Size \in Nat /\ Cardinality(Robots \ {r}) \in Nat
  BY <1>1, FS_RemoveElement, FS_CardinalityType, ExactAssumption DEF Size
<1>3. ClearedAlone(N, r) \subseteq Robots \ {r}
  BY DEF ClearedAlone, Adjacency
<1>4. IsFiniteSet(ClearedAlone(N, r)) /\ Cardinality(ClearedAlone(N, r)) <= Size - 1
  BY <1>1, <1>2, <1>3, FS_Subset
<1>5. Cardinality(ClearedAlone(N, r)) \in Nat
  BY <1>4, FS_CardinalityType
<1> QED
  BY <1>2, <1>4, <1>5

\* priority_bounds bounds what score_robot_priority computes.
LEMMA SecondaryBounded ==
    ASSUME NEW c \in Settings, NEW N, NEW s \in [Robots -> Condition], NEW r \in Robots
    PROVE  Secondary(c, N, s, r) \in Nat /\ Secondary(c, N, s, r) <= MaximumPerRobot(c)
<1> DEFINE urgency == Urgency(c, s[r].slack)
           age == AtMost(s[r].age, c.ageCap)
           cleared == Cardinality(ClearedAlone(N, r))
<1>1. /\ c.base \in Nat /\ c.loaded \in Nat /\ c.urgency \in Nat /\ c.battery \in Nat
      /\ c.perTick \in Nat /\ c.ageCap \in Nat /\ c.grant \in Nat /\ c.perConflict \in Nat
  BY DEF Settings
<1>2. s[r].slack \in Int /\ s[r].age \in Nat
  BY DEF Condition
<1>3. urgency \in Nat /\ urgency <= c.urgency
  BY <1>2, UrgencyBounded
<1>4. age * c.perTick \in Nat /\ age * c.perTick <= c.ageCap * c.perTick
      /\ c.ageCap * c.perTick \in Nat
  <2>1. age \in Nat /\ age <= c.ageCap
    BY <1>1, <1>2 DEF AtMost
  <2> QED
    BY <1>1, <2>1, ProductGrows
<1>5. cleared * c.perConflict \in Nat /\ cleared * c.perConflict <= (Size - 1) * c.perConflict
      /\ (Size - 1) * c.perConflict \in Nat
  <2>1. Size - 1 \in Nat /\ cleared \in Nat /\ cleared <= Size - 1
    BY ClearedBounded
  <2> QED
    BY <1>1, <2>1, ProductGrows
<1>6. /\ Bonus(s[r].loaded, c.loaded) \in 0..c.loaded
      /\ Bonus(s[r].lowBattery, c.battery) \in 0..c.battery
      /\ Bonus(s[r].granted, c.grant) \in 0..c.grant
  BY <1>1 DEF Bonus
<1> HIDE DEF urgency, age, cleared
<1>7. Secondary(c, N, s, r) =
        c.base + Bonus(s[r].loaded, c.loaded) + urgency + Bonus(s[r].lowBattery, c.battery)
            + age * c.perTick + Bonus(s[r].granted, c.grant) + cleared * c.perConflict
  BY DEF Secondary, urgency, age, cleared
<1> DEFINE x == age * c.perTick
           X == c.ageCap * c.perTick
           y == cleared * c.perConflict
           Y == (Size - 1) * c.perConflict
<1>8. x \in Nat /\ X \in Nat /\ y \in Nat /\ Y \in Nat /\ x <= X /\ y <= Y
  BY <1>4, <1>5
<1>9. Secondary(c, N, s, r) =
        c.base + Bonus(s[r].loaded, c.loaded) + urgency + Bonus(s[r].lowBattery, c.battery)
            + x + Bonus(s[r].granted, c.grant) + y
  BY <1>7
<1>10. MaximumPerRobot(c) = c.base + c.loaded + c.urgency + c.battery + X + c.grant + Y
  BY DEF MaximumPerRobot
<1> HIDE DEF x, X, y, Y
<1> QED
  BY <1>1, <1>3, <1>6, <1>8, <1>9, <1>10
-----------------------------------------------------------------------------
(* The inputs do not change, and an answer once given is kept.             *)

ExactInv ==
    /\ noGoods \subseteq NoGood /\ hard \in Partial
    /\ config \in Settings /\ condition \in [Robots -> Condition]
    /\ pc \in {"exact", "heuristic"} => \A r \in Robots :
         secondary[r] \in Nat /\ secondary[r] <= MaximumPerRobot(config)
    /\ NeverRaises
    /\ SolvesComponent

\* A no-good and the clause made of it exclude the same assignments.
LEMMA ClauseExcludes ==
    ASSUME NEW g \in NoGood, NEW a \in Assignment
    PROVE  ClauseHolds(g, a) <=> ~Violated(g, a)
<1>1. \A l \in g : l.robot \in Robots /\ l.forbidden \in Actions
  BY DEF NoGood, Literal
<1>2. \A l \in g : a[l.robot] \in Actions
  BY <1>1 DEF Assignment
<1> QED
  BY <1>1, <1>2 DEF ClauseHolds, Violated, Actions, PAUSE, RESUME

\* The CP-SAT model has exactly the solutions that the validator accepts.
LEMMA ModelSound ==
    ASSUME noGoods \subseteq NoGood
    PROVE  ModelSolutions = Solutions(noGoods, hard)
BY ClauseExcludes DEF ModelSolutions, Solutions, Satisfies

\* What is adopted passed the validator, and it never raises.
LEMMA AdoptKeeps ==
    ASSUME ExactInv, UNCHANGED inputs, NEW a \in ModelSolutions, NEW verdict, Adopt(a, verdict)
    PROVE  ExactInv'
<1>1. a \in Solutions(noGoods, hard)
  BY ModelSound DEF ExactInv
<1>2. decisions' = a /\ pc' = "done"
  BY <1>1 DEF Adopt
<1> QED
  BY <1>1, <1>2 DEF ExactInv, inputs, NeverRaises, SolvesComponent

\* The heuristic's answer is a solution, or there is none.
LEMMA FallbackKeeps ==
    ASSUME ExactInv, Fallback
    PROVE  ExactInv'
<1>1. UNCHANGED inputs /\ pc' = "done"
  BY DEF Fallback, Heuristic!Answer, inputs
<1>2. decisions' = IF answer' = Heuristic!Infeasible THEN AllPaused ELSE answer'.decisions
  BY DEF Fallback
<1>3. CASE Heuristic!AnswerProgress
  <2>1. PICK a \in Solutions(noGoods, hard), s \in {"HEURISTIC", "REPAIR"} :
          answer' = [source |-> s, decisions |-> a]
    BY <1>3 DEF Heuristic!AnswerProgress, Heuristic!Solutions, Solutions, Heuristic!Assignment,
                Assignment, Heuristic!Satisfies, Satisfies, Heuristic!Extends, Extends,
                Heuristic!Violated, Violated, Heuristic!Actions, Actions, Heuristic!PAUSE, PAUSE,
                Heuristic!RESUME, RESUME, Heuristic!UNASSIGNED, UNASSIGNED
  <2>2. answer' # Heuristic!Infeasible
    <3>1. answer'.source \in {"HEURISTIC", "REPAIR"}
      BY <2>1
    <3>2. Heuristic!Infeasible.source = "FAIL_SAFE"
      BY DEF Heuristic!Infeasible
    <3> QED
      BY <3>1, <3>2
  <2>3. decisions' \in Solutions(noGoods, hard)
    BY <1>2, <2>1, <2>2
  <2> QED
    BY <1>1, <2>3 DEF ExactInv, inputs, NeverRaises, SolvesComponent
<1>4. CASE Heuristic!AnswerFailSafe
  <2>1. answer'.decisions = AllPaused /\ AllPaused \in Solutions(noGoods, hard)
    BY <1>4 DEF Heuristic!AnswerFailSafe, Heuristic!FailSafe, Heuristic!AllPaused, AllPaused,
                Heuristic!Solutions, Solutions, Heuristic!Assignment,
                Assignment, Heuristic!Satisfies, Satisfies, Heuristic!Extends, Extends,
                Heuristic!Violated, Violated, Heuristic!Actions, Actions, Heuristic!PAUSE, PAUSE,
                Heuristic!RESUME, RESUME, Heuristic!UNASSIGNED, UNASSIGNED
  <2>2. decisions' = AllPaused
    BY <1>2, <2>1
  <2> QED
    BY <1>1, <2>1, <2>2 DEF ExactInv, inputs, NeverRaises, SolvesComponent
<1>5. CASE Heuristic!AnswerInfeasible
  <2>1. answer' = Heuristic!Infeasible
    BY <1>5 DEF Heuristic!AnswerInfeasible
  <2>2. Solutions(noGoods, hard) = {}
    BY <1>5 DEF Heuristic!AnswerInfeasible, Heuristic!Solutions, Solutions, Heuristic!Assignment,
                Assignment, Heuristic!Satisfies, Satisfies, Heuristic!Extends, Extends,
                Heuristic!Violated, Violated, Heuristic!Actions, Actions, Heuristic!PAUSE, PAUSE,
                Heuristic!RESUME, RESUME, Heuristic!UNASSIGNED, UNASSIGNED
  <2> QED
    BY <1>1, <1>2, <2>1, <2>2 DEF ExactInv, inputs, NeverRaises, SolvesComponent
<1> QED
  BY <1>3, <1>4, <1>5 DEF Fallback, Heuristic!Answer

\* The rank of a robot is worth less than a unit of the scaled utility.
LEMMA RankBounded ==
    ASSUME NEW r \in Robots
    PROVE  /\ RankBonus[r] \in Nat /\ RankBonus[r] <= Size - 1
           /\ UtilityScale \in Nat
<1>1. IsFiniteSet(Robots) /\ IsFiniteSet(Robots \ {r}) /\ Cardinality(Robots \ {r}) = Size - 1
  BY ExactAssumption, FS_RemoveElement DEF Size
<1>2. {q \in Robots : r < q} \subseteq Robots \ {r}
  BY ExactAssumption
<1>3. /\ RankBonus[r] = Cardinality({q \in Robots : r < q})
      /\ RankBonus[r] <= Size - 1
  BY <1>1, <1>2, FS_Subset DEF RankBonus
<1>4. RankBonus[r] \in Nat
  BY <1>1, <1>2, <1>3, FS_Subset, FS_CardinalityType
<1>5. UtilityScale \in Nat
  <2>1. Size \in Nat /\ Size - 1 \in Nat
    BY ClearedBounded
  <2>2. Size * (Size - 1) \in Nat
    BY <2>1, ProductGrows
  <2> HIDE DEF Size
  <2>3. (Size * (Size - 1)) \div 2 \in Nat
    BY <2>2
  <2> QED
    BY <2>3 DEF UtilityScale
<1> QED
  BY <1>3, <1>4, <1>5

\* Scores within their bound make coefficients within theirs.
LEMMA CoefficientBounded ==
    ASSUME ExactInv, pc \in {"exact", "heuristic"}, NEW r \in Robots
    PROVE  /\ Coefficients(config, secondary)[r] \in Nat
           /\ MaximumCoefficient(config) \in Nat
           /\ Coefficients(config, secondary)[r] <= MaximumCoefficient(config)
<1> DEFINE m == MaximumPerRobot(config)
           f == FinalScore(config, secondary, r)
           F == ThroughputReward(config) + m
<1>1. secondary[r] \in Nat /\ secondary[r] <= m
  BY DEF ExactInv
<1>2. Size \in Nat \ {0}
  BY ClearedBounded
<1>3. m \in Nat
  <2>1. Size - 1 \in Nat
    BY ClearedBounded
  <2>2. config.ageCap * config.perTick \in Nat /\ (Size - 1) * config.perConflict \in Nat
    BY <2>1, ProductGrows DEF ExactInv, Settings
  <2> QED
    BY <2>2 DEF MaximumPerRobot, ExactInv, Settings
<1>4. ThroughputReward(config) \in Nat
  <2>1. Size * m \in Nat
    BY <1>2, <1>3, ProductGrows
  <2> QED
    BY <2>1 DEF ThroughputReward
<1>5. f \in Nat /\ F \in Nat /\ f <= F
  BY <1>1, <1>3, <1>4 DEF FinalScore
<1>6. f * UtilityScale \in Nat /\ f * UtilityScale <= F * UtilityScale /\ F * UtilityScale \in Nat
  BY <1>5, RankBounded, ProductGrows
<1>7. Coefficients(config, secondary)[r] = f * UtilityScale + RankBonus[r]
  BY DEF Coefficients
<1>8. MaximumCoefficient(config) = F * UtilityScale + Size - 1
  BY DEF MaximumCoefficient
<1> HIDE DEF f, F
<1> QED
  BY <1>2, <1>6, <1>7, <1>8, RankBounded

\* Under settings that fit, every coefficient does.
LEMMA FitEncodable ==
    ASSUME ExactInv, pc \in {"exact", "heuristic"}, SettingsFit
    PROVE  Encodable
<1>1. SUFFICES ASSUME NEW r \in Robots
               PROVE  Coefficients(config, secondary)[r] <= IntegerLimit
  BY DEF Encodable
<1> QED
  BY CoefficientBounded, ExactAssumption DEF SettingsFit

\* ... and so does their sum.
LEMMA FitSummable ==
    ASSUME ExactInv, pc \in {"exact", "heuristic"}, SettingsFit
    PROVE  Summable
<1> DEFINE w == Coefficients(config, secondary)
           m == MaximumCoefficient(config)
<1>1. CASE Robots = {}
  BY <1>1, SumOfNone, ExactAssumption DEF Summable
<1>2. CASE Robots # {}
  <2>1. m \in Nat /\ \A r \in Robots : w[r] \in Nat /\ w[r] <= m
    BY <1>2, CoefficientBounded
  <2> HIDE DEF w, m
  <2>2. Sum(w, Robots) \in Nat /\ Sum(w, Robots) <= Size * m
    BY <2>1, SumBounded, SumType, ExactAssumption DEF Size
  <2>3. Size * m \in Nat /\ Size * m <= SumLimit
    <3>1. Size \in Nat
      BY <1>2, ClearedBounded
    <3> QED
      BY <2>1, <3>1, ProductGrows DEF SettingsFit, m
  <2> QED
    BY <2>2, <2>3, ExactAssumption DEF Summable, w
<1> QED
  BY <1>1, <1>2

\* The encoding and the model are refused only under settings that do not fit.
LEMMA RefusalKeeps ==
    ASSUME ExactInv, Unencodable \/ Rejected
    PROVE  ExactInv'
<1>1. ~SettingsFit
  BY FitEncodable, FitSummable DEF Unencodable, Rejected, Modelled
<1>2. pc' = "raised" /\ UNCHANGED inputs
  BY DEF Unencodable, Rejected, Raised
<1>3. ~SettingsFit'
  BY <1>1, <1>2 DEF SettingsFit, inputs, MaximumCoefficient, ThroughputReward, MaximumPerRobot
<1> QED
  BY <1>2, <1>3 DEF ExactInv, NeverRaises, SolvesComponent, inputs

\* An answer that is none is recorded as the fault it is.
LEMMA FaultyKeeps ==
    ASSUME ExactInv, Faulty
    PROVE  ExactInv'
<1>1. pc' = "raised" /\ status' = "FAULTY" /\ UNCHANGED inputs
  BY DEF Faulty, Raised
<1> QED
  BY <1>1 DEF ExactInv, NeverRaises, SolvesComponent, inputs

\* Scoring stays within its bounds.
LEMMA ScoreKeeps ==
    ASSUME ExactInv, Score
    PROVE  ExactInv'
<1>1. \A r \in Robots : /\ secondary'[r] <= MaximumPerRobot(config)
                        /\ secondary'[r] \in Nat
                        /\ Cardinality(ClearedAlone(noGoods, r)) <= Size - 1
  BY SecondaryBounded, ClearedBounded DEF Score, ExactInv
<1>2. \A r \in Robots : Cardinality(ClearedAlone(noGoods, r)) \in Nat /\ Size \in Nat
  BY ClearedBounded
<1>3. MaximumPerRobot(config) \in Int \/ Robots = {}
  <2>1. ASSUME NEW r \in Robots PROVE Size \in Nat
    BY <1>2
  <2> QED
    BY <2>1 DEF MaximumPerRobot, ExactInv, Settings
<1>4. pc' # "raised"
  BY <1>1, <1>2, <1>3 DEF Score
<1> QED
  BY <1>1, <1>4 DEF ExactInv, NeverRaises, SolvesComponent, Score, inputs

\* Every step keeps the invariant.
LEMMA ExactStep == ExactInv /\ [Next]_exactVars => ExactInv'
<1> SUFFICES ASSUME ExactInv, [Next]_exactVars PROVE ExactInv'
  OBVIOUS
<1>1. CASE Optimal \/ Feasible
  BY <1>1, AdoptKeeps DEF Optimal, Feasible
<1>2. CASE Unknown \/ Unavailable \/ Infeasible \/ TooLarge
  <2>1. UNCHANGED <<inputs, secondary>> /\ pc = "exact" /\ pc' = "heuristic"
    BY <1>2 DEF Unknown, Unavailable, Infeasible, TooLarge, Delegate, Asked, Modelled
  <2> QED
    BY <2>1 DEF ExactInv, inputs, NeverRaises, SolvesComponent
<1>3. CASE UNCHANGED exactVars
  <2>1. SettingsFit' <=> SettingsFit
    BY <1>3 DEF exactVars, inputs, SettingsFit, MaximumCoefficient, ThroughputReward, MaximumPerRobot
  <2> QED
    BY <1>3, <2>1 DEF exactVars, inputs, ExactInv, NeverRaises, SolvesComponent
<1> QED
  BY <1>1, <1>2, <1>3, ScoreKeeps, RefusalKeeps, FaultyKeeps, FallbackKeeps DEF Next

\* The invariant holds throughout.
LEMMA ExactHolds == Spec => []ExactInv
<1>1. Init => ExactInv
  BY ExactAssumption DEF Init, ExactInv, NeverRaises, SolvesComponent
<1> QED
  BY <1>1, ExactStep, PTL DEF Spec

\* For any settings under which a component's objective cannot overflow: scores keep
\* within the bound from which the throughput reward is made, coefficients and their
\* sum within the solver's integers, and no solution of the CP-SAT model is refused.
\* Only an answer that CP-SAT should not give makes the solution of a component raise.
THEOREM NeverRaisesTheorem == Spec => []NeverRaises
<1>1. ExactInv => NeverRaises
  BY DEF ExactInv
<1> QED
  BY <1>1, ExactHolds, PTL

\* Whoever solves a component, the decisions are valid, or nobody moves and nothing
\* would have been valid: Solve of Engine assumes no less.
THEOREM SolvesTheorem == Spec => []SolvesComponent
<1>1. ExactInv => SolvesComponent
  BY DEF ExactInv
<1> QED
  BY <1>1, ExactHolds, PTL
=============================================================================
