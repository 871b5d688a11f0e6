---------------------------- MODULE GrantProofs ----------------------------
(***************************************************************************)
(* Theorems about right of way in decide, for every finite fleet, every    *)
(* configuration and observation: grants never cost a component its        *)
(* progress, preview_tick never rejects a solution, after a commit the     *)
(* holders in conflict are the movers, and a grant is not pre-empted.  The *)
(* passes over the grants have one outcome each.                           *)
(*                                                                         *)
(* The argument.  The youngest grant that a component retains was accepted *)
(* together with all the older ones, so the retained grants of a component *)
(* can always move at once while its stale and arrived robots stand still. *)
(* Hence the component is solved under its grants and never sent to the    *)
(* fail-safe, its holders move, and the acquisition pass accepts everyone  *)
(* else who moves, because the decisions themselves show that it may.      *)
(***************************************************************************)
EXTENDS EngineProofs, FiniteSetTheorems, WellFoundedInduction

-----------------------------------------------------------------------------
(* Grants of a finite fleet have an order with a youngest.                 *)

LEMMA OlderOrders ==
    ASSUME NEW m \in Manager, NEW p \in Robots, NEW q \in Robots, NEW r \in Robots
    PROVE  /\ ~Older(m, p, p)
           /\ Older(m, p, q) /\ Older(m, q, r) => Older(m, p, r)
           /\ p # q => Older(m, p, q) \/ Older(m, q, p)
<1>1. m.grants[p].acquired \in Nat /\ m.grants[q].acquired \in Nat /\ m.grants[r].acquired \in Nat
  BY DEF Manager, Grant
<1>2. p \in Int /\ q \in Int /\ r \in Int
  BY RobotsAssumption
<1> QED
  BY <1>1, <1>2 DEF Older

\* A set of robots that is not empty has one that is younger than all the others: a
\* smallest counterexample would have one less any of its robots.
LEMMA YoungestExists ==
    ASSUME NEW m \in Manager, NEW S \in SUBSET Robots, S # {}
    PROVE  \E y \in S : \A q \in S \ {y} : Older(m, q, y)
<1> DEFINE Youngest(T, y) == y \in T /\ \A q \in T \ {y} : Older(m, q, y)
           Without == {T \in SUBSET Robots : T # {} /\ \A y \in T : ~Youngest(T, y)}
<1>1. SUFFICES Without = {}
  OBVIOUS
<1>2. SUFFICES ASSUME Without # {} PROVE FALSE
  OBVIOUS
<1>3. IsWellFoundedOn(StrictSubsetOrdering(Robots), FiniteSubsetsOf(Robots))
  BY FS_StrictSubsetOrderingWellFounded
<1>4. FiniteSubsetsOf(Robots) = SUBSET Robots
  BY FleetAssumption, FS_FiniteSubsetsOfFinite
<1>5. PICK T \in Without : \A U \in Without : <<U, T>> \notin StrictSubsetOrdering(Robots)
  <2>1. Without \subseteq SUBSET Robots
    OBVIOUS
  <2> HIDE DEF Without
  <2> QED
    BY <1>2, <1>3, <1>4, <2>1, WFMin
<1>6. PICK x \in T : x \in Robots
  BY <1>5
<1>7. CASE T = {x}
  BY <1>5, <1>7
<1>8. CASE T # {x}
  <2>1. T \ {x} \in SUBSET Robots /\ T \ {x} # {} /\ T \ {x} # T /\ T \ {x} \subseteq T
    BY <1>5, <1>6, <1>8
  <2>2. <<T \ {x}, T>> \in StrictSubsetOrdering(Robots)
    BY <1>5, <2>1 DEF StrictSubsetOrdering
  <2>3. T \ {x} \notin Without
    BY <1>5, <2>2
  <2>4. PICK y \in T \ {x} : Youngest(T \ {x}, y)
    BY <2>1, <2>3
  <2>5. y \in Robots /\ y # x
    BY <1>5, <2>4
  <2>6. CASE Older(m, x, y)
    <3>1. Youngest(T, y)
      BY <2>4, <2>6
    <3> QED
      BY <1>5, <3>1
  <2>7. CASE Older(m, y, x)
    <3>1. ASSUME NEW q \in T \ {x} PROVE Older(m, q, x)
      <4>1. q \in Robots /\ (q = y \/ Older(m, q, y))
        BY <1>5, <2>4
      <4> QED
        BY <1>6, <2>5, <2>7, <4>1, OlderOrders
    <3>2. Youngest(T, x)
      BY <1>6, <3>1
    <3> QED
      BY <1>5, <3>2
  <2> QED
    BY <1>6, <2>5, <2>6, <2>7, OlderOrders
<1> QED
  BY <1>7, <1>8
-----------------------------------------------------------------------------
(* Components.                                                             *)

\* A component is the component of each of its robots.
LEMMA ComponentShared ==
    ASSUME NEW N, NEW r \in Robots, NEW q \in Component(N, r)
    PROVE  Component(N, q) = Component(N, r)
<1> DEFINE S == {s \in Robots : Component(N, s) = Component(N, r)}
<1>1. ASSUME NEW s \in S, NEW t \in Adjacency(N, s) PROVE t \in S
  <2>1. t \in Robots /\ s \in Adjacency(N, t)
    BY DEF Adjacency
  <2>2. ASSUME NEW U \in SUBSET Robots, \A u \in U : Adjacency(N, u) \subseteq U
        PROVE  s \in U <=> t \in U
    BY <1>1, <2>1, <2>2
  <2>3. Component(N, s) = Component(N, t)
    BY <2>2 DEF Component
  <2> QED
    BY <2>1, <2>3
<1>2. r \in S /\ S \in SUBSET Robots
  OBVIOUS
<1>3. q \in S
  <2>1. \A s \in S : Adjacency(N, s) \subseteq S
    BY <1>1
  <2> HIDE DEF S
  <2> QED
    BY <1>2, <2>1 DEF Component
<1> QED
  BY <1>3

\* The component of a robot in conflict consists of robots of the snapshot in conflict.
LEMMA ComponentPeers ==
    ASSUME NEW o \in Observations, NEW r \in o.present, Relevant(o, r),
           NEW q \in ComponentOf(o, r)
    PROVE  /\ q \in Robots /\ q \in o.present /\ Relevant(o, q)
           /\ ComponentOf(o, q) = ComponentOf(o, r)
<1>1. o.present \subseteq Robots
  BY ObservationsAssumption DEF Observation
<1> DEFINE S == {s \in o.present : Relevant(o, s)}
<1>2. ASSUME NEW s \in S, NEW t \in Adjacency(o.noGoods, s) PROVE t \in S
  <2>1. PICK g \in o.noGoods : RobotsOf(g) = {s, t}
    BY DEF Adjacency
  <2>2. t \in RobotsOf(g)
    BY <2>1
  <2> QED
    BY <2>2, SameComponent
<1>3. q \in S
  <2>1. r \in S /\ S \in SUBSET Robots /\ \A s \in S : Adjacency(o.noGoods, s) \subseteq S
    BY <1>1, <1>2
  <2> HIDE DEF S
  <2> QED
    BY <2>1 DEF ComponentOf, Component
<1> QED
  BY <1>1, <1>3, ComponentShared DEF ComponentOf
-----------------------------------------------------------------------------
(* What the solvers' answers and the safety checks have in common.         *)

\* On component C the hard assignments h ask for no more than k.
Weaker(C, h, k) == \A q \in C : h[q] = UNASSIGNED \/ h[q] = k[q]

\* What satisfies k satisfies what asks for less.
LEMMA SolutionsWeaken ==
    ASSUME NEW o, NEW C \in SUBSET Robots, NEW h, NEW k, Weaker(C, h, k)
    PROVE  /\ ComponentSolutions(o, C, k) \subseteq ComponentSolutions(o, C, h)
           /\ ProgressSolutions(o, C, k) \subseteq ProgressSolutions(o, C, h)
<1>1. ComponentSolutions(o, C, k) \subseteq ComponentSolutions(o, C, h)
  BY DEF ComponentSolutions, Solutions, Extends, Weaker
<1> QED
  BY <1>1 DEF ProgressSolutions

\* The hard assignments with which a group is checked.
GroupHard(o, group) ==
    [r \in Robots |-> IF r \in group THEN RESUME
                      ELSE IF r \in Unavailable(o) THEN PAUSE ELSE UNASSIGNED]

\* A valid assignment of a component that moves the whole group is what the check of
\* the group looks for.
LEMMA CompletionShown ==
    ASSUME NEW o, NEW C \in SUBSET Robots, NEW h, NEW a \in ComponentSolutions(o, C, h),
           NEW group \in SUBSET C, group # {}, group \cap Unavailable(o) = {},
           \A q \in group : a[q] = RESUME,
           \A q \in C \cap Unavailable(o) : a[q] = PAUSE
    PROVE  SafeCompletion(o, C, group)
<1>1. a \in ComponentSolutions(o, C, GroupHard(o, group))
  BY DEF ComponentSolutions, Solutions, Extends, GroupHard
<1>2. a \in ProgressSolutions(o, C, GroupHard(o, group))
  BY <1>1 DEF ProgressSolutions
<1> QED
  BY <1>2 DEF SafeCompletion, GroupHard

\* Part of a group that may move may move.
LEMMA CompletionShrinks ==
    ASSUME NEW o, NEW C \in SUBSET Robots, NEW group, NEW part \in SUBSET group,
           SafeCompletion(o, C, group)
    PROVE  SafeCompletion(o, C, part)
<1>1. Weaker(C, GroupHard(o, part), GroupHard(o, group))
  BY DEF Weaker, GroupHard, SafeCompletion
<1>2. ProgressSolutions(o, C, GroupHard(o, part)) # {}
  BY <1>1, SolutionsWeaken DEF SafeCompletion, GroupHard
<1> QED
  BY <1>2 DEF SafeCompletion, GroupHard
-----------------------------------------------------------------------------
(* The inductive invariant, part by part.                                  *)

\* Whatever is acquired in this tick is acquired at a tick that counts as one.
TickAhead == InTick => provisional.tick = manager.tick + 1

\* The holders in conflict are the retained ones, and only they are made to move.
HeldHard ==
    InTick =>
        /\ hard \in [Robots -> {RESUME, UNASSIGNED}]
        /\ \A r \in Robots :
             hard[r] = RESUME <=> r \in Held(provisional) \cap obs.present /\ Relevant(obs, r)

\* The retained grants of a component can move at once, its obstacles standing still.
Granted(C) == \E q \in C : hard[q] # UNASSIGNED
HardSolvable ==
    InTick => \A r \in obs.present :
        Relevant(obs, r) /\ Granted(ComponentOf(obs, r)) =>
            ProgressSolutions(obs, ComponentOf(obs, r), ComponentHard) # {}

\* A holder of KeepsRightOfWay, as far as that is known when the tick is prepared.
Undisturbed(r) ==
    /\ r \in Held(manager) \cap (obs.present \ Unavailable(obs))
    /\ manager.tick + 1 - manager.grants[r].acquired < MaxHold
    /\ Relevant(obs, r)
    /\ LET C == ComponentOf(obs, r)
       IN SafeCompletion(obs, C,
            {q \in (Held(manager) \cap C) \ Unavailable(obs) : Older(manager, q, r)} \cup {r})

UndisturbedRetained ==
    InTick => \A r \in Robots : Undisturbed(r) =>
        /\ hard[r] = RESUME
        /\ provisional.grants[r].acquired = manager.grants[r].acquired

\* Components in which somebody moves, or is to move, carry a valid assignment.
Lively(C) == \E q \in C : RESUME \in {decisions[q], hard[q]}
Carries(C) == \E a \in ComponentSolutions(obs, C, ComponentHard) : \A q \in C : decisions[q] = a[q]
DecidedTogether ==
    Decided => \A r \in obs.present :
        /\ Relevant(obs, r)
        /\ stage = "validated" => r \notin affected
        /\ Lively(ComponentOf(obs, r))
        => Carries(ComponentOf(obs, r))

\* The override takes whole components.
OverrideWhole ==
    stage = "validated" => \A r \in affected :
        decisions[r] = PAUSE /\ ComponentOf(obs, r) \subseteq affected

\* ProgressOrAlarm, which an override that finds nothing at fault leaves true.
Conflicting == {r \in obs.present : Relevant(obs, r)}
Progressive ==
    /\ \A r \in Conflicting :
         CanProgress(r) <=> \E q \in ComponentOf(obs, r) : decisions[q] = RESUME
    /\ alarm <=> \E r \in Conflicting : ~CanProgress(r)
ProgressMade == stage = "previewed" \/ (stage = "validated" /\ affected = {}) => Progressive

GrantInv ==
    /\ ObstacleInv
    /\ TickAhead
    /\ HeldHard
    /\ HardSolvable
    /\ UndisturbedRetained
    /\ DecidedTogether
    /\ OverrideWhole
    /\ ProgressMade

\* Nothing is known between the calls.
LEMMA GrantIdle ==
    ASSUME ObstacleInv, stage = "idle"
    PROVE  GrantInv
BY DEF GrantInv, TickAhead, HeldHard, HardSolvable, UndisturbedRetained, DecidedTogether, OverrideWhole,
       ProgressMade, InTick, Decided
-----------------------------------------------------------------------------
(* Prepare.                                                                *)

\* The oldest-first pass leaves each component with grants that can move at once: the
\* youngest of them was accepted together with all the others.
LEMMA RetainedTogether ==
    ASSUME NEW m \in Manager, NEW o, NEW retained \in SUBSET Candidates(m, o),
           IsRetained(m, o, retained), NEW r \in Robots, retained \cap ComponentOf(o, r) # {}
    PROVE  SafeCompletion(o, ComponentOf(o, r), retained \cap ComponentOf(o, r))
<1> DEFINE group == retained \cap ComponentOf(o, r)
<1>1. group \in SUBSET Robots
  BY DEF Candidates, Held
<1>2. PICK y \in group : \A q \in group \ {y} : Older(m, q, y)
  BY <1>1, YoungestExists
<1>3. ComponentOf(o, y) = ComponentOf(o, r)
  BY <1>2, ComponentShared DEF ComponentOf
<1>4. RetainedBefore(m, o, retained, y) \cup {y} = group
  <2>1. ~Older(m, y, y)
    BY <1>1, <1>2, OlderOrders
  <2> QED
    BY <1>2, <1>3, <2>1 DEF RetainedBefore
<1>5. SafeCompletion(o, ComponentOf(o, y), RetainedBefore(m, o, retained, y) \cup {y})
  BY <1>2 DEF IsRetained
<1> QED
  BY <1>3, <1>4, <1>5

\* What a step of Prepare does, in terms of the manager it reconciles.
LEMMA PrepareFacts ==
    ASSUME ObstacleInv, NEW o \in Observations, Prepare(o)
    PROVE  \E R \in Manager, retained \in SUBSET Robots :
             /\ retained \subseteq Candidates(R, o)
             /\ R = Reconciled([manager EXCEPT !.tick = @ + 1], o)
             /\ IsRetained(R, o, retained)
             /\ provisional' = Release(R, Candidates(R, o) \ retained)
             /\ hard' = [r \in Robots |-> IF r \in retained THEN RESUME ELSE UNASSIGNED]
             /\ obs' = o /\ manager' = manager /\ stage' = "prepared"
             /\ retained \cap Unavailable(o) = {}
<1> DEFINE n == [manager EXCEPT !.tick = @ + 1]
           R == Reconciled(n, o)
<1>1. R \in Manager
  <2>1. n \in Manager
    BY DEF ObstacleInv, TickInv, TypeOK, Manager
  <2> QED
    BY <2>1, ReconciledType
<1>2. PICK retained \in SUBSET Candidates(R, o) :
        /\ IsRetained(R, o, retained)
        /\ provisional' = Release(R, Candidates(R, o) \ retained)
        /\ hard' = [r \in Robots |-> IF r \in retained THEN RESUME ELSE UNASSIGNED]
  BY DEF Prepare
<1>3. retained \cap Unavailable(o) = {} /\ retained \subseteq Robots
  BY <1>2 DEF IsRetained, SafeCompletion, Candidates, Held
<1>4. obs' = o /\ manager' = manager /\ stage' = "prepared"
  BY DEF Prepare
<1> QED
  BY <1>1, <1>2, <1>3, <1>4

LEMMA PrepareTick ==
    ASSUME ObstacleInv, NEW o \in Observations, Prepare(o)
    PROVE  TickAhead'
<1>1. PICK R \in Manager, retained \in SUBSET Robots :
        /\ R = Reconciled([manager EXCEPT !.tick = @ + 1], o)
        /\ provisional' = Release(R, Candidates(R, o) \ retained)
        /\ manager' = manager
  BY PrepareFacts
<1>2. /\ [manager EXCEPT !.tick = @ + 1] \in Manager
      /\ [manager EXCEPT !.tick = @ + 1].tick = manager.tick + 1
  BY DEF ObstacleInv, TickInv, TypeOK, Manager
<1>3. R.tick = manager.tick + 1
  BY <1>1, <1>2, ReconciledType
<1>4. provisional'.tick = R.tick
  BY <1>1 DEF Release, Manager
<1> QED
  BY <1>1, <1>3, <1>4 DEF TickAhead

LEMMA PrepareHeld ==
    ASSUME ObstacleInv, NEW o \in Observations, Prepare(o)
    PROVE  HeldHard'
<1>2. PICK R \in Manager, retained \in SUBSET Robots :
        /\ retained \subseteq Candidates(R, o)
        /\ provisional' = Release(R, Candidates(R, o) \ retained)
        /\ hard' = [r \in Robots |-> IF r \in retained THEN RESUME ELSE UNASSIGNED]
        /\ obs' = o
  BY PrepareFacts
<1>3. hard' \in [Robots -> {RESUME, UNASSIGNED}]
  BY <1>2
<1>4. ASSUME NEW r \in Robots
      PROVE  r \in Held(provisional') <=> r \in Held(R) \ (Candidates(R, o) \ retained)
  <2>1. provisional'.grants[r] = IF r \in Candidates(R, o) \ retained THEN NoGrant ELSE R.grants[r]
    BY <1>2 DEF Release, Manager
  <2> QED
    BY <2>1 DEF Held, NoGrant
<1>5. ASSUME NEW r \in Robots
      PROVE  hard'[r] = RESUME <=> r \in Held(provisional') \cap o.present /\ Relevant(o, r)
  <2>1. hard'[r] = RESUME <=> r \in retained
    BY <1>2 DEF RESUME, UNASSIGNED
  <2> QED
    BY <1>2, <1>4, <2>1 DEF Candidates
<1> QED
  BY <1>2, <1>3, <1>5 DEF HeldHard, Held

LEMMA PrepareSolvable ==
    ASSUME ObstacleInv, NEW o \in Observations, Prepare(o)
    PROVE  HardSolvable'
<1>1. PICK R \in Manager, retained \in SUBSET Robots :
        /\ retained \subseteq Candidates(R, o)
        /\ IsRetained(R, o, retained)
        /\ hard' = [r \in Robots |-> IF r \in retained THEN RESUME ELSE UNASSIGNED]
        /\ obs' = o /\ retained \cap Unavailable(o) = {}
  BY PrepareFacts
<1>2. ASSUME NEW r \in o.present, NEW q \in ComponentOf(o, r), hard'[q] # UNASSIGNED
      PROVE  ProgressSolutions(o, ComponentOf(o, r), ComponentHard') # {}
  <2> DEFINE C == ComponentOf(o, r)
  <2>1. r \in Robots /\ C \in SUBSET Robots
    BY ObservationsAssumption, ComponentMember DEF Observation, ComponentOf
  <2>2. q \in retained \cap C
    BY <1>1, <1>2, <2>1
  <2>3. SafeCompletion(o, C, retained \cap C)
    BY <1>1, <2>1, <2>2, RetainedTogether
  <2>4. ComponentHard' = [p \in Robots |-> IF p \in Unavailable(o) THEN PAUSE ELSE hard'[p]]
    BY <1>1 DEF ComponentHard, Unavailable
  <2>5. \A p \in C : ComponentHard'[p] = GroupHard(o, retained \cap C)[p]
    BY <1>1, <2>1, <2>4 DEF GroupHard
  <2>6. ProgressSolutions(o, C, GroupHard(o, retained \cap C)) \subseteq ProgressSolutions(o, C, ComponentHard')
    <3>1. Weaker(C, ComponentHard', GroupHard(o, retained \cap C))
      BY <2>5 DEF Weaker
    <3> HIDE DEF C
    <3> QED
      BY <2>1, <3>1, SolutionsWeaken
  <2> QED
    BY <2>3, <2>6 DEF SafeCompletion, GroupHard
<1> QED
  BY <1>1, <1>2 DEF HardSolvable, Granted

\* The lifecycle pass leaves an undisturbed grant and its acquisition tick alone, and
\* gives no robot a grant.
LEMMA ReconciledKeepsHolder ==
    ASSUME NEW m \in Manager, NEW o, NEW r \in Robots, r \in Held(Reconciled(m, o))
    PROVE  r \in Held(m) /\ Reconciled(m, o).grants[r].acquired = m.grants[r].acquired
<1> DEFINE R == Reconciled(m, o)
           gone == Lapsed(m, o) \cup Arrived(m, o) \cup Expired(m, o) \cup Cleared(m, o)
<1>1. R.grants[r] = IF r \in gone THEN NoGrant
                    ELSE IF r \in Refreshed(m, o) THEN Refresh(m, o, r) ELSE m.grants[r]
  BY DEF Reconciled, Manager
<1>2. R.grants[r].acquired > 0
  BY DEF Held
<1>3. m.grants[r] \in Grant
  BY DEF Manager
<1>4. Refresh(m, o, r).acquired = m.grants[r].acquired
  BY <1>3 DEF Refresh, Grant
<1> QED
  BY <1>1, <1>2, <1>4 DEF Held, NoGrant

LEMMA ReconciledKeepsUndisturbed ==
    ASSUME NEW m \in Manager, NEW o, NEW r \in Held(m) \cap (o.present \ Unavailable(o)),
           m.tick - m.grants[r].acquired < MaxHold, Relevant(o, r)
    PROVE  r \in Held(Reconciled(m, o))
<1> DEFINE R == Reconciled(m, o)
           gone == Lapsed(m, o) \cup Arrived(m, o) \cup Expired(m, o) \cup Cleared(m, o)
<1>1. r \in Robots /\ m.grants[r] \in Grant /\ m.tick \in Nat /\ m.grants[r].acquired > 0
  BY DEF Held, Manager
<1>2. R.grants[r] = IF r \in gone THEN NoGrant
                    ELSE IF r \in Refreshed(m, o) THEN Refresh(m, o, r) ELSE m.grants[r]
  BY <1>1 DEF Reconciled, Manager
<1>3. r \notin Expired(m, o)
  BY <1>1, GrantConfigAssumption DEF Expired, Grant
<1>4. r \notin gone
  BY <1>3 DEF Lapsed, Arrived, Cleared, Unavailable
<1>5. Refresh(m, o, r).acquired = m.grants[r].acquired
  BY <1>1 DEF Refresh, Grant
<1>6. R.grants[r].acquired > 0
  BY <1>1, <1>2, <1>4, <1>5
<1> QED
  BY <1>1, <1>6 DEF Held

LEMMA PrepareUndisturbed ==
    ASSUME ObstacleInv, NEW o \in Observations, Prepare(o)
    PROVE  UndisturbedRetained'
<1>1. PICK R \in Manager, retained \in SUBSET Robots :
        /\ retained \subseteq Candidates(R, o)
        /\ R = Reconciled([manager EXCEPT !.tick = @ + 1], o)
        /\ IsRetained(R, o, retained)
        /\ provisional' = Release(R, Candidates(R, o) \ retained)
        /\ hard' = [r \in Robots |-> IF r \in retained THEN RESUME ELSE UNASSIGNED]
        /\ obs' = o /\ manager' = manager
        /\ retained \cap Unavailable(o) = {}
  BY PrepareFacts
<1> DEFINE n == [manager EXCEPT !.tick = @ + 1]
<1>2. n \in Manager /\ n.tick = manager.tick + 1 /\ n.grants = manager.grants
  BY DEF ObstacleInv, TickInv, TypeOK, Manager
<1>3. Held(n) = Held(manager)
  BY <1>2 DEF Held
<1>0. R = Reconciled(n, o)
  BY <1>1
<1> HIDE DEF n
<1>4. SUFFICES ASSUME NEW r \in Robots, Undisturbed(r)'
               PROVE  hard'[r] = RESUME /\ provisional'.grants[r].acquired = manager.grants[r].acquired
  BY <1>1 DEF UndisturbedRetained
<1> DEFINE C == ComponentOf(o, r)
           older == {q \in (Held(manager) \cap C) \ Unavailable(o) : Older(manager, q, r)}
<1>5. /\ r \in Held(n) \cap (o.present \ Unavailable(o))
      /\ n.tick - n.grants[r].acquired < MaxHold
      /\ Relevant(o, r)
      /\ SafeCompletion(o, C, older \cup {r})
  <2>1. obs' = o /\ manager' = manager
    BY <1>1
  <2>2. /\ r \in Held(manager) \cap (o.present \ Unavailable(o))
        /\ manager.tick + 1 - manager.grants[r].acquired < MaxHold
        /\ Relevant(o, r)
        /\ SafeCompletion(o, C, older \cup {r})
    BY <1>4, <2>1 DEF Undisturbed
  <2> HIDE DEF C, older
  <2>3. n.tick - n.grants[r].acquired = manager.tick + 1 - manager.grants[r].acquired
    <3>1. manager.tick \in Nat /\ manager.grants[r].acquired \in Nat
      BY <1>4 DEF ObstacleInv, TickInv, TypeOK, Manager, Grant
    <3> QED
      BY <1>2, <3>1
  <2>4. r \in Held(n) \cap (o.present \ Unavailable(o))
    BY <1>3, <2>2
  <2> QED
    BY <2>2, <2>3, <2>4
<1>6. r \in Held(R) /\ r \in Candidates(R, o)
  BY <1>0, <1>2, <1>5, ReconciledKeepsUndisturbed DEF Candidates
<1>7. \A q \in Robots : q \in Held(R) =>
        q \in Held(manager) /\ R.grants[q].acquired = manager.grants[q].acquired
  BY <1>0, <1>2, <1>3, ReconciledKeepsHolder
<1>8. RetainedBefore(R, o, retained, r) \subseteq older
  <2>1. \A q \in retained : q \in Held(R)
    BY <1>1 DEF Candidates
  <2> QED
    BY <1>1, <1>6, <1>7, <2>1 DEF RetainedBefore, Older
<1>9. SafeCompletion(o, C, RetainedBefore(R, o, retained, r) \cup {r})
  <2>1. C \in SUBSET Robots
    BY <1>4, ComponentMember DEF ComponentOf
  <2>2. RetainedBefore(R, o, retained, r) \cup {r} \in SUBSET (older \cup {r})
    BY <1>8
  <2> HIDE DEF C, older
  <2> QED
    BY <1>5, <2>1, <2>2, CompletionShrinks
<1>10. r \in retained
  BY <1>1, <1>6, <1>9 DEF IsRetained
<1>11. provisional'.grants[r] = R.grants[r]
  BY <1>1, <1>10 DEF Release, Manager
<1> QED
  BY <1>1, <1>4, <1>6, <1>7, <1>10, <1>11

LEMMA PrepareKeepsGrants ==
    ASSUME GrantInv, NEW o \in Observations, Prepare(o)
    PROVE  GrantInv'
<1>1. ObstacleInv /\ ObstacleInv'
  BY ObstacleStep DEF GrantInv, Next
<1>2. stage' = "prepared"
  BY DEF Prepare
<1>3. TickAhead' /\ HeldHard' /\ HardSolvable' /\ UndisturbedRetained'
  BY <1>1, PrepareTick, PrepareHeld, PrepareSolvable, PrepareUndisturbed
<1> QED
  BY <1>1, <1>2, <1>3 DEF GrantInv, DecidedTogether, OverrideWhole, ProgressMade, Decided
-----------------------------------------------------------------------------
(* Solve, Preview and Validate.                                            *)

\* What the later calls of a tick leave alone stays true.
LEMMA GrantsStand ==
    ASSUME GrantInv, InTick, InTick', UNCHANGED <<manager, provisional, obs, hard>>
    PROVE  TickAhead' /\ HeldHard' /\ HardSolvable' /\ UndisturbedRetained'
<1>0. TickAhead'
  BY DEF GrantInv, TickAhead
<1>1. HeldHard'
  BY DEF GrantInv, HeldHard, Held
<1>2. HardSolvable'
  <2>1. ComponentHard' = ComponentHard
    BY DEF ComponentHard, Unavailable
  <2> QED
    BY <2>1 DEF GrantInv, HardSolvable, Granted
<1>3. UndisturbedRetained'
  <2>1. \A r \in Robots : Undisturbed(r)' <=> Undisturbed(r)
    BY DEF Undisturbed, Held, Older
  <2> QED
    BY <2>1 DEF GrantInv, UndisturbedRetained
<1> QED
  BY <1>0, <1>1, <1>2, <1>3

\* A robot in conflict during a tick, and its component.
LEMMA ConflictingPeers ==
    ASSUME TickInv, InTick, NEW r \in Conflicting
    PROVE  /\ r \in Robots /\ r \in ComponentOf(obs, r) /\ ComponentOf(obs, r) \in SUBSET Robots
           /\ \A q \in ComponentOf(obs, r) :
                q \in Conflicting /\ ComponentOf(obs, q) = ComponentOf(obs, r)
<1>1. obs \in Observations /\ r \in obs.present /\ Relevant(obs, r) /\ r \in Robots
  BY ObservationsAssumption DEF TickInv, Conflicting, Observation
<1> QED
  BY <1>1, ComponentPeers, ComponentMember DEF ComponentOf, Conflicting

\* Both overlay orders and the plain obstacles ask for less than the retained grants.
LEMMA HardOrders ==
    ASSUME ObstacleInv, InTick
    PROVE  /\ RepairHard = ComponentHard
           /\ \A C \in SUBSET Robots : /\ Weaker(C, hard, ComponentHard)
                                       /\ Weaker(C, UnavailableHard, ComponentHard)
                                       /\ ~Granted(C) => Weaker(C, ComponentHard, UnavailableHard)
BY DEF ObstacleInv, HardInv, RepairHard, ComponentHard, UnavailableHard, Weaker, Granted,
       PAUSE, UNASSIGNED

\* A valid assignment in which somebody moves shows that the component can progress.
LEMMA MoverProgresses ==
    ASSUME ObstacleInv, InTick, NEW r \in Conflicting,
           NEW a \in ComponentSolutions(obs, ComponentOf(obs, r), ComponentHard),
           NEW q \in ComponentOf(obs, r), a[q] = RESUME
    PROVE  CanProgress(r)
<1> DEFINE C == ComponentOf(obs, r)
<1>1. C \in SUBSET Robots
  BY ConflictingPeers DEF ObstacleInv
<1>2. a \in ComponentSolutions(obs, C, UnavailableHard)
  BY <1>1, HardOrders, SolutionsWeaken
<1> QED
  BY <1>2 DEF CanProgress, ProgressSolutions

\* The repair finds somebody to move exactly when someone could move without grants.
LEMMA RepairsFindProgress ==
    ASSUME GrantInv, InTick, NEW r \in Conflicting
    PROVE  Repairs(r) # {} <=> CanProgress(r)
<1> DEFINE C == ComponentOf(obs, r)
<1>0. ObstacleInv /\ C \in SUBSET Robots
  BY ConflictingPeers DEF GrantInv, ObstacleInv
<1>1. Repairs(r) = ProgressSolutions(obs, C, ComponentHard)
  BY <1>0, HardOrders DEF Repairs
<1>2. Repairs(r) \subseteq ProgressSolutions(obs, C, UnavailableHard)
  BY <1>0, <1>1, HardOrders, SolutionsWeaken
<1>3. CASE Granted(C)
  BY <1>1, <1>2, <1>3 DEF GrantInv, HardSolvable, Conflicting, CanProgress
<1>4. CASE ~Granted(C)
  <2>1. ProgressSolutions(obs, C, UnavailableHard) \subseteq ProgressSolutions(obs, C, ComponentHard)
    BY <1>0, <1>4, HardOrders, SolutionsWeaken
  <2> QED
    BY <1>1, <1>2, <2>1 DEF CanProgress
<1> QED
  BY <1>3, <1>4

LEMMA SolveKeepsGrants ==
    ASSUME GrantInv, Solve
    PROVE  GrantInv'
<1>0. ObstacleInv /\ ObstacleInv' /\ TickInv
  BY ObstacleStep DEF GrantInv, Next, ObstacleInv
<1>1. InTick /\ InTick' /\ stage' = "solved" /\ UNCHANGED <<manager, provisional, obs, hard>>
  BY DEF Solve, InTick
<1>2. PICK a \in Assignment :
        /\ \A r \in obs.present : Relevant(obs, r) /\ Solvable(r) =>
               a \in ComponentSolutions(obs, ComponentOf(obs, r), ComponentHard)
        /\ decisions' = [r \in Robots |->
               IF r \notin obs.present THEN UNASSIGNED
               ELSE IF ~Relevant(obs, r) THEN PolicyAction(r)
               ELSE IF Solvable(r) THEN a[r] ELSE PAUSE]
  BY DEF Solve
<1>3. ASSUME NEW r \in Conflicting,
             \E q \in ComponentOf(obs, r) : RESUME \in {decisions'[q], hard[q]}
      PROVE  /\ a \in ComponentSolutions(obs, ComponentOf(obs, r), ComponentHard)
             /\ \A q \in ComponentOf(obs, r) : decisions'[q] = a[q]
  <2> DEFINE C == ComponentOf(obs, r)
  <2>1. \A q \in C : q \in Robots /\ q \in obs.present /\ Relevant(obs, q) /\ ComponentOf(obs, q) = C
    BY <1>0, <1>1, ConflictingPeers DEF Conflicting
  <2>2. \A q \in C : Solvable(q) <=> Solvable(r)
    BY <2>1 DEF Solvable
  <2>3. Solvable(r)
    <3>1. SUFFICES ASSUME ~Solvable(r) PROVE FALSE
      OBVIOUS
    <3>2. \A q \in C : decisions'[q] = PAUSE
      BY <1>2, <2>1, <2>2, <3>1
    <3>3. Granted(C)
      BY <1>3, <3>2 DEF Granted, RESUME, PAUSE, UNASSIGNED
    <3>4. ProgressSolutions(obs, C, ComponentHard) # {}
      BY <1>1, <3>3 DEF GrantInv, HardSolvable, Conflicting
    <3> QED
      BY <3>1, <3>4 DEF ProgressSolutions, Solvable
  <2> QED
    BY <1>2, <2>1, <2>2, <2>3 DEF Conflicting
<1>4. DecidedTogether'
  <2>1. ComponentHard' = ComponentHard
    BY <1>1 DEF ComponentHard, Unavailable
  <2> QED
    BY <1>1, <1>3, <2>1 DEF DecidedTogether, Lively, Carries, Conflicting
<1> QED
  BY <1>0, <1>1, <1>4, GrantsStand DEF GrantInv, OverrideWhole, ProgressMade

\* Preview repairs the components in which everyone is paused, and no others.
LEMMA PreviewKeepsGrants ==
    ASSUME GrantInv, Preview
    PROVE  GrantInv'
<1>0. ObstacleInv /\ ObstacleInv' /\ TickInv
  BY ObstacleStep DEF GrantInv, Next, ObstacleInv
<1>1. /\ InTick /\ InTick' /\ stage = "solved" /\ stage' = "previewed"
      /\ UNCHANGED <<manager, provisional, obs, hard, affected>>
  BY DEF Preview, InTick
<1>2. PICK a \in Assignment :
        /\ \A r \in AllPausedRobots : Repairs(r) # {} => a \in Repairs(r)
        /\ decisions' = [r \in Robots |->
               IF r \in AllPausedRobots /\ Repairs(r) # {} THEN a[r] ELSE decisions[r]]
        /\ alarm' = (\E r \in AllPausedRobots : Repairs(r) = {})
  BY DEF Preview
<1> DEFINE C(r) == ComponentOf(obs, r)
           Mends(r) == r \in AllPausedRobots /\ Repairs(r) # {}
<1>3. ComponentHard' = ComponentHard /\ UnavailableHard' = UnavailableHard /\ Conflicting' = Conflicting
  BY <1>1 DEF ComponentHard, UnavailableHard, Unavailable, Conflicting
<1>4. \A r \in Conflicting : /\ r \in Robots /\ r \in C(r) /\ C(r) \in SUBSET Robots
                             /\ \A q \in C(r) : q \in Conflicting /\ C(q) = C(r)
  BY <1>0, <1>1, ConflictingPeers
<1>5. AllPausedRobots = {r \in Conflicting : \A q \in C(r) : decisions[q] = PAUSE}
  BY DEF AllPausedRobots, Conflicting
<1>6. \A r \in Conflicting : decisions[r] \in {PAUSE, RESUME}
  BY <1>0, <1>1 DEF TickInv, Decided, Conflicting, Actions
<1>7. ASSUME NEW r \in Conflicting, Mends(r)
      PROVE  /\ a \in ComponentSolutions(obs, C(r), ComponentHard)
             /\ \A q \in C(r) : decisions'[q] = a[q]
             /\ \E q \in C(r) : decisions'[q] = RESUME
  <2>1. \A q \in C(r) : q \in Robots /\ q \in AllPausedRobots /\ Repairs(q) = Repairs(r)
    BY <1>4, <1>5, <1>7 DEF Repairs
  <2>2. \A q \in C(r) : decisions'[q] = a[q]
    BY <1>2, <1>7, <2>1
  <2>3. a \in ProgressSolutions(obs, C(r), ComponentHard)
    BY <1>0, <1>1, <1>2, <1>7, HardOrders DEF Repairs
  <2> QED
    BY <2>2, <2>3 DEF ProgressSolutions
<1>8. ASSUME NEW r \in Conflicting, ~Mends(r)
      PROVE  \A q \in C(r) : decisions'[q] = decisions[q]
  <2>1. \A q \in C(r) : q \in Robots /\ (Mends(q) <=> Mends(r))
    BY <1>4, <1>5 DEF Repairs
  <2> QED
    BY <1>2, <1>8, <2>1
<1>9. ASSUME NEW r \in Conflicting,
             \E q \in C(r) : RESUME \in {decisions'[q], hard[q]}
      PROVE  \E b \in ComponentSolutions(obs, C(r), ComponentHard) :
                 \A q \in C(r) : decisions'[q] = b[q]
  <2>1. CASE Mends(r)
    BY <1>7, <2>1
  <2>2. CASE ~Mends(r)
    <3>1. Lively(C(r))
      BY <1>8, <1>9, <2>2 DEF Lively
    <3>2. Carries(C(r))
      BY <1>1, <3>1 DEF GrantInv, DecidedTogether, Decided, Conflicting
    <3> QED
      BY <1>8, <2>2, <3>2 DEF Carries
  <2> QED
    BY <2>1, <2>2
<1>10. DecidedTogether'
  BY <1>1, <1>3, <1>9 DEF DecidedTogether, Lively, Carries, Conflicting
<1>11. ASSUME NEW r \in Conflicting
       PROVE  CanProgress(r) <=> \E q \in C(r) : decisions'[q] = RESUME
  <2>1. ASSUME NEW q \in C(r), decisions'[q] = RESUME PROVE CanProgress(r)
    BY <1>0, <1>1, <1>9, <2>1, MoverProgresses
  <2>2. ASSUME CanProgress(r), ~Mends(r) PROVE \E q \in C(r) : decisions'[q] = RESUME
    <3>1. r \notin AllPausedRobots
      BY <1>1, <2>2, RepairsFindProgress
    <3>2. PICK q \in C(r) : decisions[q] # PAUSE
      BY <1>5, <3>1
    <3> QED
      BY <1>4, <1>6, <1>8, <2>2, <3>2
  <2> QED
    BY <1>7, <2>1, <2>2
<1>12. alarm' <=> \E r \in Conflicting : ~CanProgress(r)
  <2>1. ASSUME NEW r \in Conflicting, ~CanProgress(r) PROVE r \in AllPausedRobots
    <3>1. Repairs(r) = {}
      BY <1>1, <2>1, RepairsFindProgress
    <3>2. \A q \in C(r) : decisions'[q] = decisions[q] /\ decisions'[q] # RESUME
      BY <1>8, <1>11, <2>1, <3>1
    <3> QED
      BY <1>4, <1>5, <1>6, <3>2
  <2> QED
    BY <1>1, <1>2, <1>5, <2>1, RepairsFindProgress
<1>13. ProgressMade'
  <2>1. \A r \in Conflicting : CanProgress(r)' <=> CanProgress(r)
    BY <1>1, <1>3 DEF CanProgress
  <2> QED
    BY <1>1, <1>3, <1>11, <1>12, <2>1 DEF ProgressMade, Progressive
<1> QED
  BY <1>0, <1>1, <1>10, <1>13, GrantsStand DEF GrantInv, OverrideWhole

\* Validate pauses whole components, and leaves the others as they are.
LEMMA ValidateKeepsGrants ==
    ASSUME GrantInv, Validate
    PROVE  GrantInv'
<1>0. ObstacleInv /\ ObstacleInv' /\ TickInv
  BY ObstacleStep DEF GrantInv, Next, ObstacleInv
<1>1. /\ InTick /\ InTick' /\ stage = "previewed" /\ stage' = "validated"
      /\ UNCHANGED <<manager, provisional, obs, hard, alarm>>
  BY DEF Validate, InTick
<1>2. /\ affected' = UNION {ComponentOf(obs, r) :
                        r \in UNION {RobotsOf(g) : g \in Violations(decisions)}}
      /\ decisions' = [r \in Robots |-> IF r \in affected' THEN PAUSE ELSE decisions[r]]
  BY DEF Validate
<1>3. ComponentHard' = ComponentHard /\ UnavailableHard' = UnavailableHard /\ Conflicting' = Conflicting
  BY <1>1 DEF ComponentHard, UnavailableHard, Unavailable, Conflicting
<1>4. ASSUME NEW r \in affected'
      PROVE  r \in Robots /\ ComponentOf(obs, r) \subseteq affected'
  <2>1. PICK p \in UNION {RobotsOf(g) : g \in Violations(decisions)} : r \in ComponentOf(obs, p)
    BY <1>2
  <2>2. p \in Robots
    BY <1>0 DEF TickInv, TypeOK, Observation, Violations, NoGood, Literal, RobotsOf
  <2>3. ComponentOf(obs, r) = ComponentOf(obs, p) /\ r \in Robots
    BY <2>1, <2>2, ComponentShared, ComponentMember DEF ComponentOf
  <2> QED
    BY <1>2, <2>1, <2>3
<1>5. OverrideWhole'
  BY <1>1, <1>2, <1>4 DEF OverrideWhole
<1>6. ASSUME NEW r \in Conflicting, r \notin affected'
      PROVE  \A q \in ComponentOf(obs, r) : decisions'[q] = decisions[q]
  <2>1. \A q \in ComponentOf(obs, r) : q \in Robots /\ r \in ComponentOf(obs, q)
    BY <1>0, <1>1, ConflictingPeers
  <2>2. \A q \in ComponentOf(obs, r) : q \notin affected'
    BY <1>4, <1>6, <2>1
  <2> QED
    BY <1>2, <2>1, <2>2
<1>7. DecidedTogether'
  <2>1. ASSUME NEW r \in Conflicting, r \notin affected', Lively(ComponentOf(obs, r))'
        PROVE  Carries(ComponentOf(obs, r))'
    <3>1. Lively(ComponentOf(obs, r))
      BY <1>1, <1>6, <2>1 DEF Lively
    <3>2. Carries(ComponentOf(obs, r))
      BY <1>1, <3>1 DEF GrantInv, DecidedTogether, Decided, Conflicting
    <3> QED
      BY <1>1, <1>3, <1>6, <2>1, <3>2 DEF Carries
  <2> QED
    BY <1>1, <1>3, <2>1 DEF DecidedTogether, Conflicting
<1>8. ProgressMade'
  <2>1. SUFFICES ASSUME affected' = {} PROVE Progressive'
    BY <1>1 DEF ProgressMade
  <2>2. \A r \in Robots : decisions'[r] = decisions[r]
    BY <1>2, <2>1
  <2>3. \A r \in Conflicting : CanProgress(r)' <=> CanProgress(r)
    BY <1>1, <1>3 DEF CanProgress
  <2>4. \A r \in Conflicting : ComponentOf(obs, r) \subseteq Robots
    BY <1>0, <1>1, ConflictingPeers
  <2>5. Progressive
    BY <1>1 DEF GrantInv, ProgressMade
  <2> QED
    BY <1>1, <1>3, <2>2, <2>3, <2>4, <2>5 DEF Progressive
<1> QED
  BY <1>0, <1>1, <1>5, <1>7, <1>8, GrantsStand DEF GrantInv

\* Every step keeps what is known of the grants.
LEMMA GrantStep == GrantInv /\ [Next]_vars => GrantInv'
<1> SUFFICES ASSUME GrantInv, [Next]_vars PROVE GrantInv'
  OBVIOUS
<1>1. CASE \E o \in Observations : Prepare(o)
  BY <1>1, PrepareKeepsGrants
<1>2. CASE Solve
  BY <1>2, SolveKeepsGrants
<1>3. CASE Preview
  BY <1>3, PreviewKeepsGrants
<1>4. CASE Validate
  BY <1>4, ValidateKeepsGrants
<1>5. CASE Commit \/ Discard
  <2>1. stage' = "idle"
    BY <1>5 DEF Commit, Discard, Return
  <2>2. ObstacleInv'
    BY ObstacleStep DEF GrantInv
  <2> QED
    BY <2>1, <2>2 DEF GrantInv, TickAhead, HeldHard, HardSolvable, UndisturbedRetained, DecidedTogether,
                      OverrideWhole, ProgressMade, InTick, Decided
<1>6. CASE UNCHANGED vars
  <2>1. UNCHANGED <<stage, manager, provisional, obs, hard, decisions, affected, alarm>>
    BY <1>6 DEF vars, tickVars
  <2>2. ObstacleInv'
    BY ObstacleStep DEF GrantInv
  <2>3. CASE ~InTick
    <3>1. stage' = "idle"
      BY <2>1, <2>3 DEF InTick
    <3> QED
      BY <2>2, <3>1 DEF GrantInv, TickAhead, HeldHard, HardSolvable, UndisturbedRetained, DecidedTogether,
                        OverrideWhole, ProgressMade, InTick, Decided
  <2>4. CASE InTick
    <3>1. TickAhead' /\ HeldHard' /\ HardSolvable' /\ UndisturbedRetained'
      BY <2>1, <2>4, GrantsStand DEF InTick
    <3>2. ComponentHard' = ComponentHard /\ UnavailableHard' = UnavailableHard
          /\ Conflicting' = Conflicting
      BY <2>1 DEF ComponentHard, UnavailableHard, Unavailable, Conflicting
    <3>3. DecidedTogether'
      BY <2>1, <3>2 DEF GrantInv, DecidedTogether, Decided, Lively, Carries
    <3>4. OverrideWhole'
      BY <2>1 DEF GrantInv, OverrideWhole
    <3>5. ProgressMade'
      BY <2>1, <3>2 DEF GrantInv, ProgressMade, Progressive, CanProgress
    <3> QED
      BY <2>2, <3>1, <3>3, <3>4, <3>5 DEF GrantInv
  <2> QED
    BY <2>3, <2>4
<1> QED
  BY <1>1, <1>2, <1>3, <1>4, <1>5, <1>6 DEF Next

LEMMA GrantHolds == Spec => []GrantInv
<1>1. Init => GrantInv
  <2> SUFFICES ASSUME Init PROVE GrantInv
    OBVIOUS
  <2>1. ObstacleInv /\ stage = "idle"
    BY TickInit DEF Init, ObstacleInv, HardInv, UnavailablePaused, InTick
  <2> QED
    BY <2>1, GrantIdle
<1> QED
  BY <1>1, GrantStep, PTL DEF Spec

\* A robot without conflicts is told what the policy says, unless it was overridden.
IsolatedMoves ==
    Decided => \A r \in obs.present :
        ~Relevant(obs, r) /\ (stage = "validated" => r \notin affected) =>
            decisions[r] = PolicyAction(r)

LEMMA IsolatedStep == TickInv /\ IsolatedMoves /\ [Next]_vars => IsolatedMoves'
<1> SUFFICES ASSUME TickInv, IsolatedMoves, [Next]_vars PROVE IsolatedMoves'
  OBVIOUS
<1>0. obs.present \subseteq Robots
  BY DEF TickInv, TypeOK, Observation
<1>1. CASE Solve
  BY <1>0, <1>1 DEF Solve, IsolatedMoves, PolicyAction, Unavailable
<1>2. CASE Preview
  BY <1>0, <1>2 DEF Preview, IsolatedMoves, Decided, PolicyAction, Unavailable, AllPausedRobots
<1>3. CASE Validate
  BY <1>0, <1>3 DEF Validate, IsolatedMoves, Decided, PolicyAction, Unavailable
<1>4. CASE UNCHANGED vars
  BY <1>4 DEF vars, tickVars, IsolatedMoves, Decided, PolicyAction, Unavailable
<1>5. (\E o \in Observations : Prepare(o)) \/ Commit \/ Discard => ~Decided'
  BY DEF Prepare, Commit, Discard, Return, Decided
<1> QED
  BY <1>1, <1>2, <1>3, <1>4, <1>5 DEF Next, IsolatedMoves
-----------------------------------------------------------------------------
(* The theorems.                                                           *)

\* Grants never cost progress: a component in conflict moves somebody exactly when a
\* safe assignment could, and the alarm is raised exactly when some component cannot.
THEOREM ProgressTheorem == Spec => []ProgressOrAlarm
<1>1. GrantInv => ProgressOrAlarm
  BY DEF GrantInv, ProgressMade, Progressive, ProgressOrAlarm, Conflicting
<1> QED
  BY <1>1, GrantHolds, PTL

\* preview_tick's defensive checks never fire: what the solvers hand it satisfies the
\* no-goods and the retained grants of every component that moves or holds one.
THEOREM PreviewTheorem == Spec => []PreviewAccepts
<1>1. GrantInv => PreviewAccepts
  <2> SUFFICES ASSUME GrantInv, stage = "solved", NEW r \in obs.present, Relevant(obs, r),
                      \E q \in ComponentOf(obs, r) : RESUME \in {decisions[q], hard[q]}
               PROVE  \E a \in ComponentSolutions(obs, ComponentOf(obs, r), hard) :
                        \A q \in ComponentOf(obs, r) : decisions[q] = a[q]
    BY DEF PreviewAccepts
  <2>1. ObstacleInv /\ TickInv /\ InTick /\ r \in Conflicting
    BY DEF GrantInv, ObstacleInv, InTick, Conflicting
  <2>2. Carries(ComponentOf(obs, r))
    BY DEF GrantInv, DecidedTogether, Decided, Lively
  <2>3. ComponentOf(obs, r) \in SUBSET Robots
    BY <2>1, ConflictingPeers
  <2>4. ComponentSolutions(obs, ComponentOf(obs, r), ComponentHard)
          \subseteq ComponentSolutions(obs, ComponentOf(obs, r), hard)
    BY <2>1, <2>3, HardOrders, SolutionsWeaken
  <2> QED
    BY <2>2, <2>4 DEF Carries
<1> QED
  BY <1>1, GrantHolds, PTL

\* A retained grant whose robot was not overridden moves it.
LEMMA HolderMoves ==
    ASSUME GrantInv, stage = "validated", NEW r \in Conflicting \ affected, hard[r] = RESUME
    PROVE  decisions[r] = RESUME
<1> DEFINE C == ComponentOf(obs, r)
<1>1. ObstacleInv /\ TickInv /\ InTick
  BY DEF GrantInv, ObstacleInv, InTick
<1>2. r \in C /\ r \in Robots
  BY <1>1, ConflictingPeers
<1>3. Lively(C)
  BY <1>2 DEF Lively
<1>4. PICK a \in ComponentSolutions(obs, C, ComponentHard) : \A q \in C : decisions[q] = a[q]
  BY <1>3 DEF GrantInv, DecidedTogether, Decided, Conflicting, Carries
<1>5. ComponentHard[r] = RESUME
  BY <1>1, <1>2 DEF ObstacleInv, HardInv, ComponentHard, RESUME, UNASSIGNED
<1> QED
  BY <1>2, <1>4, <1>5, SolutionObeys DEF RESUME, UNASSIGNED

\* Whoever moves in conflict may be granted, together with any others that move.
LEMMA MoversMayHold ==
    ASSUME GrantInv, stage = "validated", NEW r \in Conflicting, decisions[r] = RESUME,
           NEW group \in SUBSET ComponentOf(obs, r), r \in group,
           \A q \in group : decisions[q] = RESUME
    PROVE  SafeCompletion(obs, ComponentOf(obs, r), group)
<1> DEFINE C == ComponentOf(obs, r)
<1>1. ObstacleInv /\ TickInv /\ InTick
  BY DEF GrantInv, ObstacleInv, InTick
<1>2. r \in C /\ C \in SUBSET Robots
  BY <1>1, ConflictingPeers
<1>3. r \notin affected
  BY DEF GrantInv, OverrideWhole, PAUSE, RESUME
<1>4. PICK a \in ComponentSolutions(obs, C, ComponentHard) : \A q \in C : decisions[q] = a[q]
  BY <1>2, <1>3 DEF GrantInv, DecidedTogether, Decided, Conflicting, Carries, Lively
<1>5. \A q \in Unavailable(obs) : decisions[q] = PAUSE
  BY DEF GrantInv, ObstacleInv, UnavailablePaused
<1>6. group \cap Unavailable(obs) = {}
  BY <1>5 DEF PAUSE, RESUME
<1> HIDE DEF C
<1> QED
  BY <1>2, <1>4, <1>5, <1>6, CompletionShown DEF C

\* What a commit makes of the grants.
LEMMA CommitFacts ==
    ASSUME GrantInv, Commit
    PROVE  \E V \in Manager, acquired \in SUBSET Robots :
             /\ acquired \subseteq Eligible(V, obs, decisions)
             /\ IsAcquired(V, obs, decisions, acquired)
             /\ Held(V) = Held(provisional) \ affected
             /\ Held(manager') = Held(V) \cup acquired
             /\ \A r \in Held(V) : manager'.grants[r] = provisional.grants[r]
<1> DEFINE V == Release(provisional, affected)
<1>1. provisional \in Manager /\ manager \in Manager /\ provisional.tick = manager.tick + 1
  BY DEF GrantInv, ObstacleInv, TickInv, TypeOK, TickAhead, InTick, Commit
<1>2. V \in Manager
  BY <1>1, ReleaseType
<1>3. PICK acquired \in SUBSET Eligible(V, obs, decisions) :
        /\ IsAcquired(V, obs, decisions, acquired)
        /\ manager' = UpdateFairness(Acquire(V, acquired), obs, decisions)
  BY DEF Commit
<1>4. \A r \in Robots : V.grants[r] = IF r \in affected THEN NoGrant ELSE provisional.grants[r]
  BY <1>1 DEF Release, Manager
<1>5. V.tick \in Nat /\ V.tick > 0
  <2>1. V.tick = provisional.tick
    BY <1>1 DEF Release, Manager
  <2>2. manager.tick \in Nat
    BY <1>1 DEF Manager
  <2> QED
    BY <1>1, <2>1, <2>2
<1> HIDE DEF V
<1>6. Held(V) = Held(provisional) \ affected
  BY <1>4 DEF Held, NoGrant
<1>7. acquired \subseteq Robots /\ acquired \cap Held(V) = {}
  <2>1. obs.present \subseteq Robots
    BY DEF GrantInv, ObstacleInv, TickInv, TypeOK, Observation
  <2> QED
    BY <1>3, <2>1 DEF Eligible
<1>8. Acquire(V, acquired) \in Manager
  BY <1>2, AcquireType
<1>9. \A r \in Robots : Acquire(V, acquired).grants[r] =
        IF r \in acquired THEN [acquired |-> V.tick, seen |-> V.tick, clearance |-> 0] ELSE V.grants[r]
  BY <1>2 DEF Acquire, Manager
<1>10. manager'.grants = Acquire(V, acquired).grants
  <2> DEFINE A == Acquire(V, acquired)
  <2>1. A \in Manager
    BY <1>8
  <2> HIDE DEF A
  <2>2. UpdateFairness(A, obs, decisions).grants = A.grants
    BY <2>1 DEF UpdateFairness, Manager
  <2> QED
    BY <1>3, <2>2 DEF A
<1>11. Held(manager') = Held(V) \cup acquired
  BY <1>5, <1>7, <1>9, <1>10 DEF Held
<1>12. \A r \in Held(V) : manager'.grants[r] = provisional.grants[r]
  BY <1>4, <1>6, <1>7, <1>9, <1>10 DEF Held
<1> QED
  BY <1>2, <1>3, <1>6, <1>7, <1>11, <1>12

\* A robot in conflict that may move together with the holders and with those granted
\* before it is granted, if it moves.
LEMMA CommitGrants ==
    ASSUME GrantInv, Commit, NEW r \in Conflicting
    PROVE  r \in Held(manager') <=> decisions[r] = RESUME
<1>1. ObstacleInv /\ TickInv /\ InTick /\ stage = "validated"
  BY DEF GrantInv, ObstacleInv, InTick, Commit
<1>2. PICK V \in Manager, acquired \in SUBSET Robots :
        /\ acquired \subseteq Eligible(V, obs, decisions)
        /\ IsAcquired(V, obs, decisions, acquired)
        /\ Held(V) = Held(provisional) \ affected
        /\ Held(manager') = Held(V) \cup acquired
  BY CommitFacts
<1>3. \A q \in Conflicting : q \in Held(V) => decisions[q] = RESUME
  <2>1. \A q \in Conflicting : q \in Held(provisional) => hard[q] = RESUME
    BY <1>1 DEF GrantInv, HeldHard, Conflicting, Held
  <2> QED
    BY <1>1, <1>2, <2>1, HolderMoves
<1>4. \A q \in acquired : decisions[q] = RESUME
  BY <1>2 DEF Eligible
<1>5. ASSUME decisions[r] = RESUME, r \notin Held(V) PROVE r \in acquired
  <2> DEFINE C == ComponentOf(obs, r)
             group == GroupAt(V, obs, acquired, r)
  <2>1. r \in Robots /\ r \in C /\ \A q \in C : q \in Conflicting
    BY <1>1, ConflictingPeers
  <2>2. group \subseteq C /\ r \in group /\ \A q \in group : decisions[q] = RESUME
    BY <1>3, <1>4, <1>5, <2>1 DEF GroupAt
  <2>3. SafeCompletion(obs, C, group)
    BY <1>1, <1>5, <2>2, MoversMayHold
  <2>4. r \notin Unavailable(obs)
    BY <1>1, <1>5 DEF ObstacleInv, UnavailablePaused, PAUSE, RESUME
  <2>5. r \in Eligible(V, obs, decisions)
    BY <1>5, <2>4 DEF Eligible, Conflicting
  <2> QED
    BY <1>2, <2>3, <2>5 DEF IsAcquired
<1> QED
  BY <1>2, <1>3, <1>4, <1>5

\* Only a commit changes the manager's tick.
LEMMA CommittingCommits ==
    ASSUME GrantInv, [Next]_vars, Committing
    PROVE  Commit
<1>1. (\E o \in Observations : Prepare(o)) \/ Solve \/ Preview \/ Validate \/ Discard
        \/ UNCHANGED vars => manager' = manager
  BY DEF Prepare, Solve, Preview, Validate, Discard, vars
<1> QED
  BY <1>1 DEF Next, Committing

\* After a committed tick the holders among the robots in conflict are exactly the
\* robots that were told to move.
THEOREM HoldersMoveTheorem == Spec => GrantsMatchMoves
<1>1. GrantInv /\ [Next]_vars =>
        [Committing => \A r \in obs.present : Relevant(obs, r) =>
            (r \in Held(manager') <=> decisions[r] = RESUME)]_vars
  BY CommittingCommits, CommitGrants DEF Conflicting
<1> QED
  BY <1>1, GrantHolds, PTL DEF Spec, GrantsMatchMoves

\* A holder that is fresh, short of its goal, inside its lease and still in conflict
\* keeps its grant, acquisition tick included, and moves, unless it was overridden or
\* cannot move together with the older grants still valid in its component.
THEOREM NonPreemptionTheorem == Spec => NonPreemption
<1>1. ASSUME GrantInv, Commit, NEW r \in Robots, KeepsRightOfWay(r)
      PROVE  /\ manager'.grants[r].acquired = manager.grants[r].acquired
             /\ decisions[r] = RESUME
  <2>1. Undisturbed(r) /\ r \in Conflicting /\ r \notin affected
    BY <1>1 DEF KeepsRightOfWay, Undisturbed, Conflicting
  <2>2. hard[r] = RESUME /\ provisional.grants[r].acquired = manager.grants[r].acquired
    BY <1>1, <2>1 DEF GrantInv, UndisturbedRetained, InTick, Commit
  <2>3. decisions[r] = RESUME
    BY <1>1, <2>1, <2>2, HolderMoves DEF Commit
  <2>4. r \in Held(provisional) \ affected
    BY <1>1, <2>1, <2>2 DEF GrantInv, HeldHard, InTick, Commit
  <2>5. manager'.grants[r] = provisional.grants[r]
    BY <1>1, <2>4, CommitFacts
  <2> QED
    BY <2>2, <2>3, <2>5
<1>2. GrantInv /\ [Next]_vars =>
        [Committing => \A r \in Robots : KeepsRightOfWay(r) =>
            /\ manager'.grants[r].acquired = manager.grants[r].acquired
            /\ decisions[r] = RESUME]_vars
  BY <1>1, CommittingCommits
<1> QED
  BY <1>2, GrantHolds, PTL DEF Spec, NonPreemption
-----------------------------------------------------------------------------
(* The passes over the grants, which the model states by the equation that *)
(* their result solves, have exactly one result; and the solutions of the  *)
(* components are parts of one assignment.  So neither Prepare nor Solve,  *)
(* Preview or Commit demands what does not exist.                          *)

\* T is the outcome of going through P, oldest first in m: `ok` holds the pairs of a
\* robot and the set chosen before it with which it is chosen.
Chosen(m, P, ok, T) == \A r \in P : r \in T <=> <<r, {q \in T : Older(m, q, r)}>> \in ok

\* The robots older than one of a set whose youngest member is another.
LEMMA WithoutYoungest ==
    ASSUME NEW m \in Manager, NEW P \in SUBSET Robots, NEW y \in P,
           \A q \in P \ {y} : Older(m, q, y), NEW ok, NEW T \in SUBSET P
    PROVE  /\ \A r \in P \ {y} : {q \in T : Older(m, q, r)} = {q \in T \ {y} : Older(m, q, r)}
           /\ {q \in T : Older(m, q, y)} = T \ {y}
           /\ Chosen(m, P, ok, T) <=>
                /\ Chosen(m, P \ {y}, ok, T \ {y})
                /\ y \in T <=> <<y, T \ {y}>> \in ok
<1>1. \A r \in P \ {y} : ~Older(m, y, r)
  <2> SUFFICES ASSUME NEW r \in P \ {y}, Older(m, y, r) PROVE FALSE
    OBVIOUS
  <2>1. Older(m, r, y) /\ y \in Robots /\ r \in Robots
    OBVIOUS
  <2>2. Older(m, y, y)
    BY <2>1, OlderOrders
  <2> QED
    BY <2>1, <2>2, OlderOrders
<1>2. ~Older(m, y, y)
  BY OlderOrders
<1>3. \A r \in P \ {y} : {q \in T : Older(m, q, r)} = {q \in T \ {y} : Older(m, q, r)}
  BY <1>1
<1>4. {q \in T : Older(m, q, y)} = T \ {y}
  BY <1>2
<1>5. Chosen(m, P \ {y}, ok, T \ {y}) <=>
        \A r \in P \ {y} : r \in T <=> <<r, {q \in T : Older(m, q, r)}>> \in ok
  BY <1>3 DEF Chosen
<1> QED
  BY <1>3, <1>4, <1>5 DEF Chosen

\* By induction over finite sets: the youngest is chosen, or not, after all the others.
LEMMA OneOutcome ==
    ASSUME NEW m \in Manager, NEW S \in SUBSET Robots, NEW ok
    PROVE  \E T \in SUBSET S : /\ Chosen(m, S, ok, T)
                               /\ \A U \in SUBSET S : Chosen(m, S, ok, U) => U = T
<1> DEFINE One(P) == \E T \in SUBSET P : /\ Chosen(m, P, ok, T)
                                         /\ \A U \in SUBSET P : Chosen(m, P, ok, U) => U = T
           Bad == {P \in SUBSET Robots : ~One(P)}
<1>1. SUFFICES Bad = {}
  OBVIOUS
<1>2. SUFFICES ASSUME Bad # {} PROVE FALSE
  OBVIOUS
<1>3. PICK P \in Bad : \A Q \in Bad : <<Q, P>> \notin StrictSubsetOrdering(Robots)
  <2>1. IsWellFoundedOn(StrictSubsetOrdering(Robots), SUBSET Robots)
    BY FleetAssumption, FS_StrictSubsetOrderingWellFounded, FS_FiniteSubsetsOfFinite
  <2>2. Bad \subseteq SUBSET Robots
    OBVIOUS
  <2> HIDE DEF Bad
  <2> QED
    BY <1>2, <2>1, <2>2, WFMin
<1>4. P \in SUBSET Robots /\ ~One(P)
  BY <1>3
<1>5. P # {}
  <2>1. Chosen(m, {}, ok, {}) /\ \A U \in SUBSET {} : U = {}
    BY DEF Chosen
  <2>2. One({})
    BY <2>1
  <2> HIDE DEF One
  <2> QED
    BY <1>4, <2>2
<1>6. PICK y \in P : \A q \in P \ {y} : Older(m, q, y)
  BY <1>4, <1>5, YoungestExists
<1>7. One(P \ {y})
  <2>1. <<P \ {y}, P>> \in StrictSubsetOrdering(Robots)
    BY <1>4 DEF StrictSubsetOrdering
  <2>2. P \ {y} \notin Bad /\ P \ {y} \in SUBSET Robots
    BY <1>3, <1>4, <2>1
  <2> HIDE DEF One
  <2> QED
    BY <2>2
<1>8. PICK T \in SUBSET (P \ {y}) :
        /\ Chosen(m, P \ {y}, ok, T)
        /\ \A U \in SUBSET (P \ {y}) : Chosen(m, P \ {y}, ok, U) => U = T
  BY <1>7
<1> DEFINE W == IF <<y, T>> \in ok THEN T \cup {y} ELSE T
<1>9. W \in SUBSET P /\ W \ {y} = T /\ (y \in W <=> <<y, T>> \in ok)
  OBVIOUS
<1>10. Chosen(m, P, ok, W)
  <2> HIDE DEF W
  <2> QED
    BY <1>4, <1>6, <1>8, <1>9, WithoutYoungest
<1>11. \A U \in SUBSET P : Chosen(m, P, ok, U) => U = W
  <2> SUFFICES ASSUME NEW U \in SUBSET P, Chosen(m, P, ok, U) PROVE U = W
    OBVIOUS
  <2>1. Chosen(m, P \ {y}, ok, U \ {y}) /\ (y \in U <=> <<y, U \ {y}>> \in ok)
    BY <1>4, <1>6, WithoutYoungest
  <2>2. U \ {y} = T
    BY <1>8, <2>1
  <2> QED
    BY <1>9, <2>1, <2>2
<1>12. One(P)
  <2> HIDE DEF W
  <2> QED
    BY <1>9, <1>10, <1>11
<1> QED
  BY <1>4, <1>12

\* _safe_relevant_grants has one outcome: for any manager and observation exactly one set
\* of candidates consists of those that fit the ones retained before them.
THEOREM RetainedTheorem ==
    ASSUME NEW m \in Manager, NEW o \in Observations
    PROVE  \E retained \in SUBSET Candidates(m, o) :
             /\ IsRetained(m, o, retained)
             /\ \A other \in SUBSET Candidates(m, o) :
                  IsRetained(m, o, other) => other = retained
<1> DEFINE ok == {p \in Robots \X SUBSET Robots :
                    SafeCompletion(o, ComponentOf(o, p[1]),
                                   (p[2] \cap ComponentOf(o, p[1])) \cup {p[1]})}
           S == Candidates(m, o)
<1>1. S \in SUBSET Robots
  BY DEF Candidates, Held
<1>2. ASSUME NEW T \in SUBSET S
      PROVE  IsRetained(m, o, T) <=> Chosen(m, S, ok, T)
  <2>1. ASSUME NEW r \in S
        PROVE  <<r, {q \in T : Older(m, q, r)}>> \in ok <=>
                 SafeCompletion(o, ComponentOf(o, r), RetainedBefore(m, o, T, r) \cup {r})
    <3>1. {q \in T : Older(m, q, r)} \cap ComponentOf(o, r) = RetainedBefore(m, o, T, r)
      BY DEF RetainedBefore
    <3>2. r \in Robots /\ {q \in T : Older(m, q, r)} \in SUBSET Robots
      BY <1>1
    <3> QED
      BY <3>1, <3>2
  <2> HIDE DEF ok, S
  <2> QED
    BY <2>1 DEF IsRetained, Chosen, S
<1> HIDE DEF ok, S
<1>3. PICK T \in SUBSET S : /\ Chosen(m, S, ok, T)
                            /\ \A U \in SUBSET S : Chosen(m, S, ok, U) => U = T
  BY <1>1, OneOutcome
<1> QED
  BY <1>2, <1>3 DEF S

\* _acquire_grants has one outcome as well: the order of IDs is that of grants which are
\* all of one age.
THEOREM AcquiredTheorem ==
    ASSUME NEW m \in Manager, NEW o \in Observations, NEW d \in Partial
    PROVE  \E acquired \in SUBSET Eligible(m, o, d) :
             /\ IsAcquired(m, o, d, acquired)
             /\ \A other \in SUBSET Eligible(m, o, d) :
                  IsAcquired(m, o, d, other) => other = acquired
<1> DEFINE ok == {p \in Robots \X SUBSET Robots :
                    SafeCompletion(o, ComponentOf(o, p[1]),
                                   ((Held(m) \cup p[2]) \cap ComponentOf(o, p[1])) \cup {p[1]})}
           S == Eligible(m, o, d)
           n == NewManager
<1>1. S \in SUBSET Robots
  BY ObservationsAssumption DEF Eligible, Observation
<1>2. n \in Manager
  BY DEF NewManager, Manager, NotWaiting, NoneAssigned, Partial, Grant, NoGrant
<1>3. \A q, r \in Robots : Older(n, q, r) <=> q < r
  BY DEF Older, NewManager, NoGrant
<1>4. ASSUME NEW T \in SUBSET S
      PROVE  IsAcquired(m, o, d, T) <=> Chosen(n, S, ok, T)
  <2>1. ASSUME NEW r \in S
        PROVE  <<r, {q \in T : Older(n, q, r)}>> \in ok <=>
                 SafeCompletion(o, ComponentOf(o, r), GroupAt(m, o, T, r))
    <3>1. r \in Robots /\ T \subseteq Robots
      BY <1>1
    <3>2. {q \in T : Older(n, q, r)} = {q \in T : q < r}
      BY <1>3, <3>1
    <3>3. ((Held(m) \cup {q \in T : q < r}) \cap ComponentOf(o, r)) \cup {r} = GroupAt(m, o, T, r)
      BY DEF GroupAt
    <3>4. {q \in T : q < r} \in SUBSET Robots
      BY <3>1
    <3> QED
      BY <3>1, <3>2, <3>3, <3>4
  <2> HIDE DEF ok, S, n
  <2> QED
    BY <2>1 DEF IsAcquired, Chosen, S
<1> HIDE DEF ok, S, n
<1>5. PICK T \in SUBSET S : /\ Chosen(n, S, ok, T)
                            /\ \A U \in SUBSET S : Chosen(n, S, ok, U) => U = T
  BY <1>1, <1>2, OneOutcome
<1> QED
  BY <1>4, <1>5 DEF S

\* Whether an assignment solves a component is decided by what it assigns there.
LEMMA SolutionsLocal ==
    ASSUME NEW o, NEW C \in SUBSET Robots, NEW h, NEW a \in Assignment, NEW b \in Assignment,
           \A q \in C : a[q] = b[q]
    PROVE  /\ a \in ComponentSolutions(o, C, h) => b \in ComponentSolutions(o, C, h)
           /\ a \in ProgressSolutions(o, C, h) => b \in ProgressSolutions(o, C, h)
<1>1. ASSUME a \in ComponentSolutions(o, C, h) PROVE b \in ComponentSolutions(o, C, h)
  <2> DEFINE k == [r \in Robots |-> IF r \in C THEN h[r] ELSE UNASSIGNED]
  <2>1. ASSUME NEW g \in ComponentNoGoods(o.noGoods, C) PROVE ~Violated(g, b)
    <3>1. RobotsOf(g) \subseteq C /\ ~Violated(g, a)
      BY <1>1 DEF ComponentNoGoods, ComponentSolutions, Solutions, Satisfies
    <3> QED
      BY <3>1, ViolatedCongruence
  <2>2. Extends(b, k)
    BY <1>1 DEF Extends, ComponentSolutions, Solutions
  <2> QED
    BY <2>1, <2>2 DEF ComponentSolutions, Solutions, Satisfies
<1> QED
  BY <1>1 DEF ProgressSolutions

\* The solutions of all components that have one are parts of one assignment, and so are
\* the repairs: components share no robot.
THEOREM SolutionsTogether ==
    ASSUME NEW o, NEW h
    PROVE  /\ \E a \in Assignment : \A r \in Robots :
                ComponentSolutions(o, ComponentOf(o, r), h) # {} =>
                    a \in ComponentSolutions(o, ComponentOf(o, r), h)
           /\ \E a \in Assignment : \A r \in Robots :
                ProgressSolutions(o, ComponentOf(o, r), h) # {} =>
                    a \in ProgressSolutions(o, ComponentOf(o, r), h)
<1> DEFINE Cs == SUBSET Robots
<1>1. ASSUME NEW f \in [Cs -> Assignment]
      PROVE  LET a == [r \in Robots |-> f[ComponentOf(o, r)][r]]
             IN  /\ a \in Assignment
                 /\ \A r \in Robots : /\ ComponentOf(o, r) \in Cs
                                      /\ \A q \in ComponentOf(o, r) : a[q] = f[ComponentOf(o, r)][q]
  <2>1. \A r \in Robots : ComponentOf(o, r) \in Cs
    BY DEF ComponentOf, Component
  <2>2. \A r \in Robots : f[ComponentOf(o, r)] \in Assignment
    BY <2>1
  <2>3. \A r \in Robots : \A q \in ComponentOf(o, r) : q \in Robots /\ ComponentOf(o, q) = ComponentOf(o, r)
    BY <2>1, ComponentShared DEF ComponentOf
  <2> QED
    BY <2>1, <2>2, <2>3 DEF Assignment
<1>2. AllPaused \in Assignment
  BY DEF AllPaused, Assignment, Actions
<1>3. \E a \in Assignment : \A r \in Robots :
          ComponentSolutions(o, ComponentOf(o, r), h) # {} =>
              a \in ComponentSolutions(o, ComponentOf(o, r), h)
  <2> DEFINE f == [C \in Cs |-> IF ComponentSolutions(o, C, h) # {}
                                THEN CHOOSE b \in ComponentSolutions(o, C, h) : TRUE
                                ELSE AllPaused]
             a == [r \in Robots |-> f[ComponentOf(o, r)][r]]
  <2>1. \A C \in Cs : ComponentSolutions(o, C, h) # {} => f[C] \in ComponentSolutions(o, C, h)
    OBVIOUS
  <2>2. f \in [Cs -> Assignment]
    BY <1>2, <2>1 DEF ComponentSolutions, Solutions
  <2> HIDE DEF f
  <2>3. a \in Assignment /\ \A r \in Robots :
          ComponentOf(o, r) \in Cs /\ \A q \in ComponentOf(o, r) : a[q] = f[ComponentOf(o, r)][q]
    BY <1>1, <2>2
  <2> HIDE DEF a
  <2>4. ASSUME NEW r \in Robots, ComponentSolutions(o, ComponentOf(o, r), h) # {}
        PROVE  a \in ComponentSolutions(o, ComponentOf(o, r), h)
    <3>1. f[ComponentOf(o, r)] \in ComponentSolutions(o, ComponentOf(o, r), h)
      BY <2>1, <2>3, <2>4
    <3>2. f[ComponentOf(o, r)] \in Assignment
      BY <2>2, <2>3
    <3> QED
      BY <2>3, <3>1, <3>2, SolutionsLocal
  <2> QED
    BY <2>3, <2>4
<1>4. \E a \in Assignment : \A r \in Robots :
          ProgressSolutions(o, ComponentOf(o, r), h) # {} =>
              a \in ProgressSolutions(o, ComponentOf(o, r), h)
  <2> DEFINE f == [C \in Cs |-> IF ProgressSolutions(o, C, h) # {}
                                THEN CHOOSE b \in ProgressSolutions(o, C, h) : TRUE
                                ELSE AllPaused]
             a == [r \in Robots |-> f[ComponentOf(o, r)][r]]
  <2>1. \A C \in Cs : ProgressSolutions(o, C, h) # {} => f[C] \in ProgressSolutions(o, C, h)
    OBVIOUS
  <2>2. f \in [Cs -> Assignment]
    BY <1>2, <2>1 DEF ProgressSolutions, ComponentSolutions, Solutions
  <2> HIDE DEF f
  <2>3. a \in Assignment /\ \A r \in Robots :
          ComponentOf(o, r) \in Cs /\ \A q \in ComponentOf(o, r) : a[q] = f[ComponentOf(o, r)][q]
    BY <1>1, <2>2
  <2> HIDE DEF a
  <2>4. ASSUME NEW r \in Robots, ProgressSolutions(o, ComponentOf(o, r), h) # {}
        PROVE  a \in ProgressSolutions(o, ComponentOf(o, r), h)
    <3>1. f[ComponentOf(o, r)] \in ProgressSolutions(o, ComponentOf(o, r), h)
      BY <2>1, <2>3, <2>4
    <3>2. f[ComponentOf(o, r)] \in Assignment
      BY <2>2, <2>3
    <3> QED
      BY <2>3, <3>1, <3>2, SolutionsLocal
  <2> QED
    BY <2>3, <2>4
<1> QED
  BY <1>3, <1>4
=============================================================================
