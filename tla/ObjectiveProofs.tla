--------------------------- MODULE ObjectiveProofs ---------------------------
(***************************************************************************)
(* The theorem that CP-SAT's optimum is lexicographic, for any finite      *)
(* number of robots, any settings and any conditions: each of the three    *)
(* parts of the weighted sum is smaller than a unit of the one above it.   *)
(* The ranks sum to less than the utility scale, the secondary scores to   *)
(* less than the throughput reward.                                        *)
(***************************************************************************)
EXTENDS ExactProofs

LEMMA Distributes ==
    ASSUME NEW i \in Nat, NEW j \in Nat, NEW k \in Nat
    PROVE  /\ i * k \in Nat
           /\ (i + j) * k = i * k + j * k
           /\ k * (i + j) = k * i + k * j
  BY ProductGrows

\* The sum of the coefficients is the coefficient of the sums.
LEMMA SumOfCoefficients ==
    ASSUME NEW S, IsFiniteSet(S), NEW u, NEW b, NEW w, NEW t \in Nat, NEW k \in Nat,
           \A r \in S : u[r] \in Nat /\ b[r] \in Nat /\ w[r] = (t + u[r]) * k + b[r]
    PROVE  Sum(w, S) = (t * Cardinality(S) + Sum(u, S)) * k + Sum(b, S)
<1> DEFINE Total(s) == (t * Cardinality(s) + Sum(u, s)) * k + Sum(b, s)
           Bad == {s \in SUBSET S : Sum(w, s) # Total(s)}
<1>1. SUFFICES ASSUME Bad # {} PROVE FALSE
  OBVIOUS
<1>2. PICK T \in Bad : \A s \in Bad : s \subseteq T => s = T
  <2>1. Bad \in SUBSET (SUBSET S)
    OBVIOUS
  <2> HIDE DEF Bad
  <2> QED
    BY <1>1, <2>1, SmallestExists
<1>3. T # {}
  <2>1. t * 0 = 0 /\ (0 + 0) * k = 0
    OBVIOUS
  <2>2. Sum(w, {}) = Total({})
    BY <2>1, SumOfNone, FS_EmptySet
  <2> QED
    BY <1>2, <2>2
<1>4. PICK x \in T : TRUE
  BY <1>3
<1>5. T \ {x} \in SUBSET S /\ T \ {x} # T /\ T \ {x} \subseteq T /\ IsFiniteSet(T)
      /\ IsFiniteSet(T \ {x}) /\ x \in S
  BY <1>2, FS_Subset
<1>6. Sum(w, T \ {x}) = Total(T \ {x})
  <2>1. T \ {x} \notin Bad
    BY <1>2, <1>5
  <2> QED
    BY <1>5, <2>1
<1>7. \A r \in S : w[r] \in Nat
  <2>1. ASSUME NEW r \in S PROVE (t + u[r]) * k \in Nat
    BY Distributes
  <2> QED
    BY <2>1
<1>8. /\ Sum(u, T) = u[x] + Sum(u, T \ {x})
      /\ Sum(b, T) = b[x] + Sum(b, T \ {x})
      /\ Sum(w, T) = w[x] + Sum(w, T \ {x})
  BY <1>2, <1>5, <1>7, SumTakesOut
<1>9. /\ Cardinality(T) = Cardinality(T \ {x}) + 1
      /\ Cardinality(T \ {x}) \in Nat
  BY <1>5, FS_RemoveElement, FS_CardinalityType
<1>10. Sum(u, T \ {x}) \in Nat /\ Sum(b, T \ {x}) \in Nat
  BY <1>5, SumType
<1> DEFINE n == Cardinality(T \ {x})
           U == Sum(u, T \ {x})
           B == Sum(b, T \ {x})
<1>11. n \in Nat /\ U \in Nat /\ B \in Nat /\ u[x] \in Nat /\ b[x] \in Nat
  BY <1>5, <1>9, <1>10
<1>12. Sum(w, T) = (t + u[x]) * k + b[x] + ((t * n + U) * k + B)
  BY <1>5, <1>6, <1>8
<1>13. Total(T) = (t * (n + 1) + (u[x] + U)) * k + (b[x] + B)
  BY <1>8, <1>9
<1> HIDE DEF n, U, B, Total
<1>14. t * (n + 1) = t * n + t /\ t * n \in Nat
  <2>1. t * (n + 1) = t * n + t * 1 /\ t * n \in Nat
    BY <1>11, Distributes
  <2> QED
    BY <2>1
<1>15. t * (n + 1) + (u[x] + U) = (t + u[x]) + (t * n + U)
  BY <1>11, <1>14
<1>16. ((t + u[x]) + (t * n + U)) * k = (t + u[x]) * k + (t * n + U) * k
  <2>1. t + u[x] \in Nat /\ t * n + U \in Nat
    BY <1>11, <1>14
  <2> QED
    BY <2>1, Distributes
<1>17. (t + u[x]) * k \in Nat /\ (t * n + U) * k \in Nat
  <2>1. t + u[x] \in Nat /\ t * n + U \in Nat
    BY <1>11, <1>14
  <2> QED
    BY <2>1, Distributes
<1>18. Sum(w, T) = Total(T)
  <2> DEFINE P == (t + u[x]) * k
             Q == (t * n + U) * k
  <2>1. Sum(w, T) = P + b[x] + (Q + B) /\ Total(T) = (P + Q) + (b[x] + B)
    BY <1>12, <1>13, <1>15, <1>16
  <2>2. P \in Nat /\ Q \in Nat
    BY <1>17
  <2> HIDE DEF P, Q
  <2> QED
    BY <1>11, <2>1, <2>2
<1> QED
  BY <1>2, <1>18
-----------------------------------------------------------------------------
(* The ranks of the robots are the numbers below Size.                     *)

LEMMA SmallestRobot ==
    ASSUME NEW T \in SUBSET Robots, T # {}
    PROVE  \E x \in T : \A q \in T : x <= q
<1> DEFINE Bad == {s \in SUBSET Robots : s # {} /\ \A x \in s : \E q \in s : ~(x <= q)}
<1>1. SUFFICES ASSUME Bad # {} PROVE FALSE
  OBVIOUS
<1>2. PICK s \in Bad : \A u \in Bad : u \subseteq s => u = s
  <2>1. Bad \in SUBSET (SUBSET Robots)
    OBVIOUS
  <2>2. IsFiniteSet(Robots)
    BY ExactAssumption
  <2> HIDE DEF Bad
  <2> QED
    BY <1>1, <2>1, <2>2, SmallestExists
<1>3. s \subseteq Int
  BY <1>2, ExactAssumption
<1>4. PICK x \in s : TRUE
  BY <1>2
<1>5. s \ {x} # {}
  BY <1>2, <1>3, <1>4
<1>6. s \ {x} \notin Bad
  BY <1>2, <1>4
<1>7. PICK y \in s \ {x} : \A q \in s \ {x} : y <= q
  BY <1>2, <1>5, <1>6
<1>8. CASE x <= y
  BY <1>2, <1>3, <1>7, <1>8
<1>9. CASE y <= x
  BY <1>2, <1>3, <1>7, <1>9
<1> QED
  BY <1>3, <1>7, <1>8, <1>9

\* Without all that are ranked above them, the ranks of n robots are those below n.
LEMMA RanksOfUpper ==
    ASSUME NEW T \in SUBSET Robots, \A x \in T, q \in Robots : x < q => q \in T
    PROVE  2 * Sum(RankBonus, T) = Cardinality(T) * (Cardinality(T) - 1)
<1> DEFINE Upper(s) == \A x \in s, q \in Robots : x < q => q \in s
           Bad == {s \in SUBSET Robots :
                     Upper(s) /\ 2 * Sum(RankBonus, s) # Cardinality(s) * (Cardinality(s) - 1)}
<1>1. SUFFICES ASSUME Bad # {} PROVE FALSE
  OBVIOUS
<1>2. PICK s \in Bad : \A u \in Bad : u \subseteq s => u = s
  <2>1. Bad \in SUBSET (SUBSET Robots)
    OBVIOUS
  <2>2. IsFiniteSet(Robots)
    BY ExactAssumption
  <2> HIDE DEF Bad
  <2> QED
    BY <1>1, <2>1, <2>2, SmallestExists
<1>3. s # {}
  <2>1. 2 * Sum(RankBonus, {}) = Cardinality({}) * (Cardinality({}) - 1)
    BY SumOfNone, FS_EmptySet
  <2> QED
    BY <1>2, <2>1
<1>4. PICK x \in s : \A q \in s : x <= q
  BY <1>2, <1>3, SmallestRobot
<1>5. x \in Robots /\ s \subseteq Int /\ s \ {x} \in SUBSET Robots /\ s \ {x} # s
      /\ IsFiniteSet(s) /\ IsFiniteSet(s \ {x}) /\ x \in Int /\ Robots \subseteq Int
  BY <1>2, <1>4, FS_Subset, ExactAssumption
<1>6. Upper(s \ {x})
  BY <1>2, <1>4, <1>5
<1>7. 2 * Sum(RankBonus, s \ {x}) = Cardinality(s \ {x}) * (Cardinality(s \ {x}) - 1)
  BY <1>2, <1>5, <1>6
<1>8. {q \in Robots : x < q} = s \ {x}
  <2>1. \A q \in s : q # x => x < q
    BY <1>4, <1>5
  <2>2. \A q \in Robots : x < q => q \in s /\ q # x
    BY <1>2, <1>4, <1>5
  <2> QED
    BY <1>2, <2>1, <2>2
<1>9. RankBonus[x] = Cardinality(s \ {x})
  BY <1>5, <1>8 DEF RankBonus
<1>10. Sum(RankBonus, s) = RankBonus[x] + Sum(RankBonus, s \ {x})
  <2>1. \A r \in s : RankBonus[r] \in Nat
    BY <1>2, RankBounded
  <2> QED
    BY <1>4, <1>5, <2>1, SumTakesOut
<1> DEFINE n == Cardinality(s \ {x})
<1>11. n \in Nat /\ Cardinality(s) = n + 1
  BY <1>5, FS_RemoveElement, FS_CardinalityType
<1>12. Sum(RankBonus, s \ {x}) \in Nat
  <2>1. \A r \in s \ {x} : RankBonus[r] \in Nat
    BY <1>5, RankBounded
  <2> QED
    BY <1>5, <2>1, SumType
<1>13. 2 * Sum(RankBonus, s) = 2 * n + n * (n - 1)
  BY <1>7, <1>9, <1>10, <1>11, <1>12
<1> HIDE DEF n
<1>14. 2 * n + n * (n - 1) = (n + 1) * ((n + 1) - 1)
  BY <1>11
<1> QED
  BY <1>2, <1>11, <1>13, <1>14

\* All ranks together are worth less than one point of the utility.
LEMMA RanksBelowScale ==
    ASSUME NEW S \in SUBSET Robots
    PROVE  Sum(RankBonus, S) \in Nat /\ Sum(RankBonus, S) < UtilityScale
<1>1. IsFiniteSet(Robots) /\ IsFiniteSet(S) /\ Size \in Nat
  BY ExactAssumption, FS_Subset, FS_CardinalityType DEF Size
<1>2. \A r \in Robots : RankBonus[r] \in Nat
  BY RankBounded
<1>3. Sum(RankBonus, S) \in Nat /\ Sum(RankBonus, Robots) \in Nat
  BY <1>1, <1>2, SumType
<1>4. Sum(RankBonus, S) <= Sum(RankBonus, Robots)
  BY <1>1, <1>2, SumGrows
<1>5. 2 * Sum(RankBonus, Robots) = Size * (Size - 1)
  BY RanksOfUpper DEF Size
<1> HIDE DEF Size
<1>6. (Size * (Size - 1)) \div 2 = Sum(RankBonus, Robots)
  BY <1>3, <1>5
<1> QED
  BY <1>3, <1>4, <1>6 DEF UtilityScale

\* What the weights rest on: units of k above parts below k, units of t above parts
\* below t, so that the larger weighted sum is the larger in order.
LEMMA WeightsOrder ==
    ASSUME NEW t \in Nat, NEW k \in Nat,
           NEW m1 \in Nat, NEW m2 \in Nat, NEW m3 \in Nat, m2 < t, m3 < k,
           NEW n1 \in Nat, NEW n2 \in Nat, NEW n3 \in Nat, n2 < t, n3 < k,
           (t * m1 + m2) * k + m3 <= (t * n1 + n2) * k + n3
    PROVE  ~Exceeds(<<m1, m2, m3>>, <<n1, n2, n3>>)
<1>1. ASSUME NEW w \in Nat, NEW i \in Nat, NEW j \in Nat, j < i
      PROVE  w * j \in Nat /\ w * j + w <= w * i
  <2>1. PICK d \in Nat : i = j + 1 + d
    <3>1. i - j - 1 \in Nat /\ i = j + 1 + (i - j - 1)
      BY <1>1
    <3> QED
      BY <3>1
  <2>2. w * i = w * (j + 1) + w * d /\ w * (j + 1) = w * j + w * 1 /\ w * j \in Nat /\ w * d \in Nat
    BY <2>1, Distributes
  <2> QED
    BY <2>2
<1> DEFINE M == t * m1 + m2
           N == t * n1 + n2
<1>2. t * m1 \in Nat /\ t * n1 \in Nat /\ M \in Nat /\ N \in Nat
  BY Distributes
<1>3. M <= N
  <2>1. SUFFICES ASSUME N < M PROVE FALSE
    BY <1>2
  <2>2. k * N + k <= k * M /\ k * N \in Nat
    <3> HIDE DEF M, N
    <3> QED
      BY <1>1, <1>2, <2>1
  <2>3. k * M = M * k /\ k * N = N * k /\ k * M \in Nat
    <3> HIDE DEF M, N
    <3> QED
      BY <1>2, Distributes
  <2>4. M * k + m3 <= N * k + n3
    OBVIOUS
  <2> HIDE DEF M, N
  <2> QED
    BY <2>2, <2>3, <2>4
<1>4. ~(m1 > n1)
  <2>1. SUFFICES ASSUME n1 < m1 PROVE FALSE
    OBVIOUS
  <2>2. t * n1 + t <= t * m1
    BY <1>1, <2>1
  <2> QED
    BY <1>2, <1>3, <2>2
<1>5. m1 = n1 => m2 <= n2
  BY <1>2, <1>3
<1>6. m1 = n1 /\ m2 = n2 => m3 <= n3
  <2>1. M * k \in Nat
    BY <1>2, Distributes
  <2>2. SUFFICES ASSUME m1 = n1, m2 = n2 PROVE m3 <= n3
    OBVIOUS
  <2>3. M * k + m3 <= M * k + n3
    BY <2>2
  <2> HIDE DEF M
  <2> QED
    BY <2>1, <2>3
<1> QED
  BY <1>4, <1>5, <1>6 DEF Exceeds

\* The objective of an assignment, in the parts that its merit lists.
LEMMA ObjectiveOfMerit ==
    ASSUME NEW c \in Settings, NEW s, NEW a,
           \A r \in Robots : s[r] \in Nat /\ s[r] <= MaximumPerRobot(c)
    PROVE  LET S == Resumed(a)
               t == ThroughputReward(c)
           IN  /\ ObjectiveValue(c, s, a) =
                    (t * Cardinality(S) + Sum(s, S)) * UtilityScale + Sum(RankBonus, S)
               /\ t \in Nat /\ UtilityScale \in Nat
               /\ Cardinality(S) \in Nat
               /\ Sum(s, S) \in Nat /\ Sum(s, S) < t
               /\ Sum(RankBonus, S) \in Nat /\ Sum(RankBonus, S) < UtilityScale
<1> DEFINE S == Resumed(a)
           t == ThroughputReward(c)
           m == MaximumPerRobot(c)
<1>1. /\ IsFiniteSet(Robots) /\ S \in SUBSET Robots /\ IsFiniteSet(S)
      /\ Cardinality(S) \in Nat /\ Size \in Nat /\ Cardinality(S) <= Size
  BY ExactAssumption, FS_Subset, FS_CardinalityType DEF Resumed, Size
<1>2. Sum(RankBonus, S) \in Nat /\ Sum(RankBonus, S) < UtilityScale
  BY <1>1, RanksBelowScale
<1>3. UtilityScale \in Nat
  <2>1. Size = 0 \/ Size - 1 \in Nat
    BY <1>1
  <2>2. Size * (Size - 1) \in Nat
    BY <1>1, <2>1, ProductGrows
  <2> HIDE DEF Size
  <2>3. (Size * (Size - 1)) \div 2 \in Nat
    BY <2>2
  <2> QED
    BY <2>3 DEF UtilityScale
<1>4. t \in Nat /\ Size * m \in Nat /\ t = Size * m + 1 /\ (Robots # {} => m \in Nat)
  <2>1. m \in Int
    BY <1>1 DEF MaximumPerRobot, Settings
  <2>2. CASE Robots = {}
    <3>1. Size = 0
      BY <2>2, FS_EmptySet DEF Size
    <3> HIDE DEF m
    <3> QED
      BY <2>1, <2>2, <3>1 DEF ThroughputReward, m
  <2>3. CASE Robots # {}
    <3>1. Size - 1 \in Nat
      BY <2>3, ClearedBounded
    <3>2. c.ageCap * c.perTick \in Nat /\ (Size - 1) * c.perConflict \in Nat
      BY <3>1, ProductGrows DEF Settings
    <3>3. m \in Nat
      BY <3>2 DEF MaximumPerRobot, Settings
    <3>4. Size * m \in Nat
      BY <1>1, <3>3, ProductGrows
    <3> QED
      BY <3>3, <3>4 DEF ThroughputReward
  <2> QED
    BY <2>2, <2>3
<1>5. Sum(s, S) \in Nat /\ Sum(s, S) < t
  <2>1. Sum(s, S) \in Nat
    BY <1>1, SumType
  <2>2. CASE S = {}
    BY <1>4, <2>2, SumOfNone
  <2>3. CASE S # {}
    <3>1. m \in Nat
      BY <1>1, <1>4, <2>3
    <3>2. Sum(s, S) <= Cardinality(S) * m
      BY <1>1, <3>1, SumBounded
    <3>3. Cardinality(S) * m \in Nat /\ Cardinality(S) * m <= Size * m
      BY <1>1, <3>1, ProductGrows
    <3> HIDE DEF t, m, S, Size
    <3> QED
      BY <1>4, <2>1, <3>2, <3>3
  <2> QED
    BY <2>2, <2>3
<1>6. ObjectiveValue(c, s, a) = (t * Cardinality(S) + Sum(s, S)) * UtilityScale + Sum(RankBonus, S)
  <2> DEFINE w == Coefficients(c, s)
  <2>1. \A r \in S : s[r] \in Nat /\ RankBonus[r] \in Nat
                     /\ w[r] = (t + s[r]) * UtilityScale + RankBonus[r]
    BY <1>1, RankBounded DEF Coefficients, FinalScore
  <2>2. IsFiniteSet(S) /\ t \in Nat /\ UtilityScale \in Nat
    BY <1>1, <1>3, <1>4
  <2> HIDE DEF w, t, S
  <2>3. Sum(w, S) = (t * Cardinality(S) + Sum(s, S)) * UtilityScale + Sum(RankBonus, S)
    BY ONLY <2>1, <2>2, SumOfCoefficients
  <2> QED
    BY <2>3 DEF ObjectiveValue, w, S
<1> QED
  BY <1>1, <1>2, <1>3, <1>4, <1>5, <1>6
-----------------------------------------------------------------------------
(* An optimal answer was the largest of the objective when it was adopted, *)
(* and neither it nor what it was measured by changes after.               *)

OptimalInv ==
    /\ pc = "heuristic" => status # "OPTIMAL"
    /\ pc = "done" /\ status = "OPTIMAL" =>
         /\ \A r \in Robots : secondary[r] \in Nat /\ secondary[r] <= MaximumPerRobot(config)
         /\ \A b \in Solutions(noGoods, hard) :
              ObjectiveValue(config, secondary, b) <= ObjectiveValue(config, secondary, decisions)

LEMMA OptimalStep == ExactInv /\ OptimalInv /\ [Next]_exactVars => OptimalInv'
<1> SUFFICES ASSUME ExactInv, OptimalInv, [Next]_exactVars PROVE OptimalInv'
  OBVIOUS
<1>1. CASE Optimal
  <2>1. PICK a \in ModelSolutions :
          /\ \A b \in ModelSolutions :
               ObjectiveValue(config, secondary, b) <= ObjectiveValue(config, secondary, a)
          /\ Adopt(a, "OPTIMAL")
    BY <1>1 DEF Optimal
  <2>2. ModelSolutions = Solutions(noGoods, hard)
    BY ModelSound DEF ExactInv
  <2>3. decisions' = a /\ pc' = "done"
    BY <2>1, <2>2 DEF Adopt
  <2>4. UNCHANGED <<config, noGoods, hard, secondary>> /\ pc = "exact"
    BY <1>1 DEF Optimal, Asked, Modelled, inputs
  <2> QED
    BY <2>1, <2>2, <2>3, <2>4 DEF OptimalInv, ExactInv
<1>2. CASE Feasible
  <2>1. status' = "FEASIBLE" /\ pc' # "heuristic"
    BY <1>2 DEF Feasible, Adopt
  <2> QED
    BY <2>1 DEF OptimalInv
<1>3. CASE Unknown \/ Unavailable \/ Infeasible \/ TooLarge
  <2>1. status' # "OPTIMAL"
    BY <1>3 DEF Unknown, Unavailable, Infeasible, TooLarge, Delegate
  <2> QED
    BY <2>1 DEF OptimalInv
<1>4. CASE Score \/ Unencodable \/ Rejected \/ Faulty
  <2>1. pc' # "heuristic" /\ pc' # "done"
    BY <1>4 DEF Score, Unencodable, Rejected, Faulty, Raised
  <2> QED
    BY <2>1 DEF OptimalInv
<1>5. CASE Fallback
  <2>1. status' # "OPTIMAL" /\ pc' = "done"
    BY <1>5 DEF Fallback, OptimalInv
  <2> QED
    BY <2>1 DEF OptimalInv
<1>6. CASE UNCHANGED exactVars
  BY <1>6 DEF exactVars, inputs, OptimalInv
<1> QED
  BY <1>1, <1>2, <1>3, <1>4, <1>5, <1>6 DEF Next

LEMMA OptimalHolds == Spec => []OptimalInv
<1>1. Init => OptimalInv
  BY DEF Init, OptimalInv
<1> QED
  BY <1>1, OptimalStep, ExactHolds, PTL DEF Spec

\* An answer that CP-SAT calls optimal is first in throughput, then in secondary scores,
\* then in rank, among all valid decisions: the one weighted sum that the solver is
\* given never trades a robot's movement for scores, nor a score for ranks.
THEOREM OptimumTheorem == Spec => []OptimumLexicographic
<1>1. ExactInv /\ OptimalInv => OptimumLexicographic
  <2> SUFFICES ASSUME ExactInv, OptimalInv, pc = "done", status = "OPTIMAL",
                      NEW b \in Solutions(noGoods, hard)
               PROVE  ~Exceeds(Merit(b), Merit(decisions))
    BY DEF OptimumLexicographic
  <2>1. \A r \in Robots : secondary[r] \in Nat /\ secondary[r] <= MaximumPerRobot(config)
    BY DEF OptimalInv
  <2>2. ObjectiveValue(config, secondary, b) <= ObjectiveValue(config, secondary, decisions)
    BY DEF OptimalInv
  <2>3. config \in Settings
    BY DEF ExactInv
  <2> QED
    BY <2>1, <2>2, <2>3, ObjectiveOfMerit, WeightsOrder DEF Merit
<1> QED
  BY <1>1, ExactHolds, OptimalHolds, PTL
=============================================================================
