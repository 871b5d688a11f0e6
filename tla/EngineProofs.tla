---------------------------- MODULE EngineProofs ----------------------------
(***************************************************************************)
(* Theorems about decide, for every fleet, configuration and observation:  *)
(* types, leases, the obstacles that stay paused, and what the fleet-wide  *)
(* validation can still find wrong.                                        *)
(***************************************************************************)
EXTENDS Engine, TLAPS

-----------------------------------------------------------------------------
(* The grant manager's operators keep its type.                            *)

\* Dropping grants yields a manager of the same tick and memory.
LEMMA ReleaseType ==
    ASSUME NEW m \in Manager, NEW S
    PROVE  Release(m, S) \in Manager
BY DEF Release, Manager, Grant, NoGrant

\* The lifecycle pass yields a manager of the same tick.
LEMMA ReconciledType ==
    ASSUME NEW m \in Manager, NEW o
    PROVE  /\ Reconciled(m, o) \in Manager
           /\ Reconciled(m, o).tick = m.tick
<1>1. ASSUME NEW r \in Robots PROVE Refresh(m, o, r) \in Grant
  <2>1. m.grants[r] \in Grant /\ m.tick \in Nat
    BY DEF Manager
  <2>2. (IF Relevant(o, r) THEN 0 ELSE m.grants[r].clearance + 1) \in Nat
    BY <2>1 DEF Grant
  <2> QED
    BY <2>1, <2>2 DEF Refresh, Grant
<1>2. NoGrant \in Grant
  BY DEF NoGrant, Grant
<1> QED
  BY <1>1, <1>2 DEF Reconciled, Manager, Partial, UNASSIGNED, NotWaiting

\* New grants are grants of this tick.
LEMMA AcquireType ==
    ASSUME NEW m \in Manager, NEW S
    PROVE  Acquire(m, S) \in Manager
BY DEF Acquire, Manager, Grant

\* Waiting ages stay natural numbers, and what is remembered are decisions.
LEMMA FairnessType ==
    ASSUME NEW m \in Manager, NEW o, NEW d \in Partial
    PROVE  UpdateFairness(m, o, d) \in Manager
<1>1. WaitingCap \in Nat
  BY GrantConfigAssumption
<1>2. \A n \in Nat : CappedAge(n) \in Nat
  BY <1>1 DEF CappedAge
<1>3. \A r \in Robots : CappedAge(IF m.waiting[r] = NotWaiting THEN 0 ELSE m.waiting[r]) \in Nat
  BY <1>2 DEF Manager, NotWaiting
<1>4. [r \in Robots |-> IF r \notin o.present THEN NotWaiting
            ELSE IF d[r] = RESUME \/ r \in o.atGoal THEN 0
            ELSE CappedAge(IF m.waiting[r] = NotWaiting THEN 0 ELSE m.waiting[r])]
        \in [Robots -> Nat \cup {NotWaiting}]
  BY <1>3
<1>5. [r \in Robots |-> IF r \in o.present THEN d[r] ELSE UNASSIGNED] \in Partial
  BY DEF Partial, UNASSIGNED
<1> QED
  BY <1>4, <1>5 DEF UpdateFairness, Manager
-----------------------------------------------------------------------------
(* Type correctness, with what holds of the tick's data at each stage.     *)

InTick == stage # "idle"
Decided == stage \in {"solved", "previewed", "validated"}

\* The observation is a legal one, and it decides for exactly who is present.
TickInv ==
    /\ TypeOK
    /\ InTick => obs \in Observations
    /\ Decided => \A r \in obs.present : decisions[r] \in Actions

\* A component holds its own robot, and robots only.
LEMMA ComponentMember ==
    ASSUME NEW N, NEW r \in Robots
    PROVE  r \in Component(N, r) /\ Component(N, r) \subseteq Robots
BY DEF Component

\* A fresh engine is well typed.
LEMMA TickInit == Init => TickInv
<1> SUFFICES ASSUME Init PROVE TickInv
  OBVIOUS
<1>1. NewManager \in Manager
  BY DEF NewManager, Manager, NoneAssigned, Partial, UNASSIGNED, NotWaiting, NoGrant, Grant
<1>2. NoObservation \in Observation
  BY DEF NoObservation, Observation
<1>3. NoneAssigned \in Partial /\ NoReleases \in [Robots -> Reasons]
  BY DEF NoneAssigned, Partial, NoReleases, Reasons
<1> QED
  BY <1>1, <1>2, <1>3 DEF Init, TickInv, TypeOK, InTick, Decided

\* Ending a call resets the tick's data to well-typed values.
LEMMA ReturnType ==
    ASSUME Return
    PROVE  /\ stage' = "idle"
           /\ obs' \in Observation /\ hard' \in Partial /\ decisions' \in Partial
           /\ releases' \in [Robots -> Reasons] /\ affected' \subseteq Robots
           /\ alarm' \in BOOLEAN
BY DEF Return, NoObservation, Observation, NoneAssigned, Partial, NoReleases, Reasons

\* Preparing a tick keeps every type.
LEMMA PrepareType ==
    ASSUME TickInv, NEW o \in Observations, Prepare(o)
    PROVE  TickInv'
<1> DEFINE advanced == [manager EXCEPT !.tick = @ + 1]
           reconciled == Reconciled(advanced, o)
<1>1. advanced \in Manager
  BY DEF TickInv, TypeOK, Manager
<1>2. reconciled \in Manager
  BY <1>1, ReconciledType
<1>3. PICK retained \in SUBSET Candidates(reconciled, o) :
        LET dropped == Candidates(reconciled, o) \ retained
        IN /\ IsRetained(reconciled, o, retained)
           /\ provisional' = Release(reconciled, dropped)
           /\ hard' = [r \in Robots |-> IF r \in retained THEN RESUME ELSE UNASSIGNED]
           /\ releases' = [r \in Robots |->
                IF r \in dropped THEN MergeReason(reconciled, o, retained, r)
                ELSE LifecycleReason(advanced, o, r)]
  BY DEF Prepare
<1>4. provisional' \in Manager
  BY <1>2, <1>3, ReleaseType
<1>5. hard' \in Partial
  BY <1>3 DEF Partial, Actions, RESUME, PAUSE
<1>6. releases' \in [Robots -> Reasons]
  BY <1>3 DEF MergeReason, LifecycleReason, Reasons
<1>7. obs' \in Observations /\ obs' \in Observation
  BY ObservationsAssumption DEF Prepare
<1> QED
  BY <1>4, <1>5, <1>6, <1>7 DEF Prepare, TickInv, TypeOK, InTick, Decided

\* Solving decides for everyone present.
LEMMA SolveType ==
    ASSUME TickInv, Solve
    PROVE  TickInv'
<1>1. PICK a \in Assignment :
        decisions' = [r \in Robots |->
            IF r \notin obs.present THEN UNASSIGNED
            ELSE IF ~Relevant(obs, r) THEN PolicyAction(r)
            ELSE IF Solvable(r) THEN a[r] ELSE PAUSE]
  BY DEF Solve
<1>2. obs.present \subseteq Robots
  BY DEF TickInv, TypeOK, Observation
<1>3. \A r \in Robots : a[r] \in Actions /\ PolicyAction(r) \in Actions /\ PAUSE \in Actions
  BY DEF Assignment, PolicyAction, Actions
<1>4. decisions' \in Partial /\ \A r \in obs.present : decisions'[r] \in Actions
  BY <1>1, <1>2, <1>3 DEF Partial
<1> QED
  BY <1>4 DEF Solve, TickInv, TypeOK, InTick, Decided

\* Repairing keeps a decision for everyone present.
LEMMA PreviewType ==
    ASSUME TickInv, Preview
    PROVE  TickInv'
<1>1. PICK a \in Assignment :
        decisions' = [r \in Robots |->
            IF r \in AllPausedRobots /\ Repairs(r) # {} THEN a[r] ELSE decisions[r]]
  BY DEF Preview
<1>2. obs.present \subseteq Robots
  BY DEF TickInv, TypeOK, Observation
<1>3. \A r \in obs.present : decisions[r] \in Actions
  BY DEF Preview, TickInv, Decided
<1>4. decisions' \in Partial /\ \A r \in obs.present : decisions'[r] \in Actions
  BY <1>1, <1>2, <1>3 DEF TickInv, TypeOK, Partial, Assignment
<1>5. alarm' \in BOOLEAN
  BY DEF Preview
<1> QED
  BY <1>4, <1>5 DEF Preview, TickInv, TypeOK, InTick, Decided

\* The override only pauses.
LEMMA ValidateType ==
    ASSUME TickInv, Validate
    PROVE  TickInv'
<1>1. affected' \subseteq Robots
  BY DEF Validate, ComponentOf, Component
<1>2. obs.present \subseteq Robots
  BY DEF TickInv, TypeOK, Observation
<1>3. \A r \in obs.present : decisions[r] \in Actions
  BY DEF Validate, TickInv, Decided
<1>4. decisions' \in Partial /\ \A r \in obs.present : decisions'[r] \in Actions
  BY <1>2, <1>3 DEF Validate, TickInv, TypeOK, Partial, Actions
<1> QED
  BY <1>1, <1>4 DEF Validate, TickInv, TypeOK, InTick, Decided

\* The manager that is kept is well typed, whether the tick was committed or not.
LEMMA CommitType ==
    ASSUME TickInv, Commit
    PROVE  TickInv'
<1>1. Release(provisional, affected) \in Manager
  BY ReleaseType DEF TickInv, TypeOK
<1>2. manager' \in Manager
  BY <1>1, AcquireType, FairnessType DEF Commit, TickInv, TypeOK
<1>3. Return /\ provisional' = manager'
  BY DEF Commit
<1> QED
  BY <1>2, <1>3, ReturnType DEF TickInv, TypeOK, InTick, Decided

\* A discarded tick leaves the manager of before.
LEMMA DiscardType ==
    ASSUME TickInv, Discard
    PROVE  TickInv'
BY ReturnType DEF Discard, TickInv, TypeOK, InTick, Decided

\* Every step keeps TickInv.
LEMMA TickStep == TickInv /\ [Next]_vars => TickInv'
<1> SUFFICES ASSUME TickInv, [Next]_vars PROVE TickInv'
  OBVIOUS
<1>1. CASE \E o \in Observations : Prepare(o)
  BY <1>1, PrepareType
<1>2. CASE Solve
  BY <1>2, SolveType
<1>3. CASE Preview
  BY <1>3, PreviewType
<1>4. CASE Validate
  BY <1>4, ValidateType
<1>5. CASE Commit
  BY <1>5, CommitType
<1>6. CASE Discard
  BY <1>6, DiscardType
<1>7. CASE UNCHANGED vars
  BY <1>7 DEF vars, tickVars, TickInv, TypeOK, InTick, Decided
<1> QED
  BY <1>1, <1>2, <1>3, <1>4, <1>5, <1>6, <1>7 DEF Next

\* What the tick holds at each stage is well formed in every reachable state.
LEMMA TickHolds == Spec => []TickInv
BY TickInit, TickStep, PTL DEF Spec

\* decide and the grant manager keep their types, whatever is observed.
THEOREM TypeCorrect == Spec => []TypeOK
<1>1. TickInv => TypeOK
  BY DEF TickInv
<1> QED
  BY <1>1, TickHolds, PTL
-----------------------------------------------------------------------------
(* Leases.  A grant is refreshed only inside its lease, and a robot out of *)
(* sight keeps one only for less than the stale limit.                     *)

Lease == IF MaxHold = 0 THEN 1 ELSE MaxHold

Bounded(m, g) ==
    /\ g.acquired <= g.seen /\ g.seen <= m.tick
    /\ g.seen - g.acquired < Lease
    /\ m.tick - g.seen < StaleTicks

WithinLease(m) == \A r \in Held(m) : Bounded(m, m.grants[r])

LeaseInv == TickInv /\ WithinLease(manager) /\ WithinLease(provisional)

\* Nobody gains a grant by a release.
LEMMA ReleaseKeepsLease ==
    ASSUME NEW m \in Manager, NEW S, WithinLease(m)
    PROVE  WithinLease(Release(m, S))
<1> SUFFICES ASSUME NEW r \in Held(Release(m, S))
             PROVE  Bounded(Release(m, S), Release(m, S).grants[r])
  BY DEF WithinLease
<1>1. Release(m, S).tick = m.tick
  BY DEF Release, Manager
<1>2. Release(m, S).grants[r] = m.grants[r] /\ r \in Held(m)
  BY DEF Release, Held, NoGrant, Manager
<1> QED
  BY <1>1, <1>2 DEF WithinLease, Bounded

\* The lifecycle pass of the next tick leaves every grant inside its lease.
LEMMA ReconciledKeepsLease ==
    ASSUME NEW m \in Manager, NEW o, WithinLease(m)
    PROVE  WithinLease(Reconciled([m EXCEPT !.tick = @ + 1], o))
<1> DEFINE n == [m EXCEPT !.tick = @ + 1]
           R == Reconciled(n, o)
<1>1. n \in Manager /\ n.tick = m.tick + 1 /\ n.grants = m.grants /\ m.tick \in Nat
  BY DEF Manager
<1>2. R \in Manager /\ R.tick = n.tick
  BY <1>1, ReconciledType
<1> SUFFICES ASSUME NEW r \in Held(R) PROVE Bounded(R, R.grants[r])
  BY DEF WithinLease
<1>3. r \in Robots
  BY DEF Held
<1> DEFINE gone == Lapsed(n, o) \cup Arrived(n, o) \cup Expired(n, o) \cup Cleared(n, o)
<1>4. R.grants[r] = IF r \in gone THEN NoGrant
                    ELSE IF r \in Refreshed(n, o) THEN Refresh(n, o, r) ELSE n.grants[r]
  BY <1>1, <1>3 DEF Reconciled, Manager
<1>5. r \notin gone
  BY <1>4 DEF Held, NoGrant
<1> DEFINE g == n.grants[r]
<1>6. g \in Grant
  BY <1>1, <1>3 DEF Manager
<1>7. CASE r \in Refreshed(n, o)
  <2>1. R.grants[r] = Refresh(n, o, r)
    BY <1>4, <1>5, <1>7
  <2>2. Refresh(n, o, r).acquired = g.acquired /\ Refresh(n, o, r).seen = n.tick
    BY <1>6 DEF Refresh, Grant
  <2>3. r \in Held(m)
    BY <1>1, <1>7 DEF Refreshed, Held
  <2>4. ~(n.tick - g.acquired >= MaxHold)
    BY <1>5, <1>7 DEF Refreshed, Expired
  <2>5. g.acquired <= m.tick
    BY <1>1, <1>6, <2>3 DEF WithinLease, Bounded, Grant
  <2> QED
    BY <1>1, <1>2, <1>6, <2>1, <2>2, <2>4, <2>5, GrantConfigAssumption
       DEF Bounded, Lease, Grant
<1>8. CASE r \notin Refreshed(n, o)
  <2>1. R.grants[r] = g
    BY <1>4, <1>5, <1>8
  <2>2. r \in Held(n) /\ r \in Held(m)
    BY <1>1, <1>3, <2>1 DEF Held
  <2>3. r \notin o.present
    BY <1>5, <1>8, <2>2 DEF Refreshed, Lapsed, Arrived, Expired, Unavailable
  <2>4. ~(n.tick - g.seen >= StaleTicks)
    BY <1>5, <2>2, <2>3 DEF Lapsed
  <2>5. Bounded(m, g)
    BY <1>1, <2>2 DEF WithinLease
  <2> QED
    BY <1>1, <1>2, <1>6, <2>1, <2>4, <2>5, GrantConfigAssumption DEF Bounded, Grant, Lease
<1> QED
  BY <1>7, <1>8

\* A new grant starts a lease.
LEMMA AcquireKeepsLease ==
    ASSUME NEW m \in Manager, NEW S, WithinLease(m)
    PROVE  WithinLease(Acquire(m, S))
<1>1. Acquire(m, S).tick = m.tick /\ m.tick \in Nat
  BY DEF Acquire, Manager
<1> SUFFICES ASSUME NEW r \in Held(Acquire(m, S))
             PROVE  Bounded(Acquire(m, S), Acquire(m, S).grants[r])
  BY DEF WithinLease
<1>2. r \in Robots
  BY DEF Held
<1>3. Acquire(m, S).grants[r] = IF r \in S THEN [acquired |-> m.tick, seen |-> m.tick, clearance |-> 0]
                               ELSE m.grants[r]
  BY <1>2 DEF Acquire, Manager
<1>4. CASE r \in S
  BY <1>1, <1>3, <1>4, GrantConfigAssumption DEF Bounded, Lease
<1>5. CASE r \notin S
  BY <1>1, <1>2, <1>3, <1>5 DEF WithinLease, Held, Bounded
<1> QED
  BY <1>4, <1>5

\* Fairness memory does not touch grants.
LEMMA FairnessKeepsLease ==
    ASSUME NEW m \in Manager, NEW o, NEW d, WithinLease(m)
    PROVE  WithinLease(UpdateFairness(m, o, d))
<1>1. UpdateFairness(m, o, d).grants = m.grants /\ UpdateFairness(m, o, d).tick = m.tick
  BY DEF UpdateFairness, Manager
<1> QED
  BY <1>1 DEF WithinLease, Held, Bounded

\* Every step keeps both managers inside the leases.
LEMMA LeaseStep == LeaseInv /\ [Next]_vars => LeaseInv'
<1> SUFFICES ASSUME LeaseInv, [Next]_vars PROVE LeaseInv'
  OBVIOUS
<1>0. TickInv /\ TickInv'
  BY TickStep DEF LeaseInv
<1>1. manager \in Manager /\ provisional \in Manager
  BY <1>0 DEF TickInv, TypeOK
<1>2. WithinLease(manager) /\ WithinLease(provisional)
  BY DEF LeaseInv
<1>3. ASSUME NEW o \in Observations, Prepare(o) PROVE LeaseInv'
  <2> DEFINE n == [manager EXCEPT !.tick = @ + 1]
             R == Reconciled(n, o)
  <2>1. R \in Manager /\ WithinLease(R)
    <3>1. n \in Manager
      BY <1>1 DEF Manager
    <3> QED
      BY <1>1, <1>2, <3>1, ReconciledType, ReconciledKeepsLease
  <2>2. \E S : provisional' = Release(R, S)
    BY <1>3 DEF Prepare
  <2>3. WithinLease(provisional')
    BY <2>1, <2>2, ReleaseKeepsLease
  <2>4. UNCHANGED manager
    BY <1>3 DEF Prepare
  <2> QED
    BY <1>0, <1>2, <2>3, <2>4 DEF LeaseInv
<1>4. ASSUME Commit PROVE LeaseInv'
  <2> DEFINE V == Release(provisional, affected)
  <2>1. V \in Manager /\ WithinLease(V)
    BY <1>1, <1>2, ReleaseType, ReleaseKeepsLease
  <2>2. \E S : manager' = UpdateFairness(Acquire(V, S), obs, decisions)
    BY <1>4 DEF Commit
  <2>3. WithinLease(manager')
    BY <2>1, <2>2, AcquireType, AcquireKeepsLease, FairnessKeepsLease
  <2>4. provisional' = manager'
    BY <1>4 DEF Commit
  <2> QED
    BY <1>0, <2>3, <2>4 DEF LeaseInv
<1>5. CASE Discard
  BY <1>0, <1>2, <1>5 DEF Discard, LeaseInv
<1>6. CASE UNCHANGED <<manager, provisional>>
  BY <1>0, <1>2, <1>6 DEF LeaseInv
<1>7. Solve \/ Preview \/ Validate \/ UNCHANGED vars => UNCHANGED <<manager, provisional>>
  BY DEF Solve, Preview, Validate, vars, tickVars
<1> QED
  BY <1>3, <1>4, <1>5, <1>6, <1>7 DEF Next

\* No grant outlives its lease plus an absence shorter than the stale limit.
THEOREM LeaseTheorem == Spec => []LeaseBounded
<1>1. Init => LeaseInv
  <2> SUFFICES ASSUME Init PROVE LeaseInv
    OBVIOUS
  <2>1. Held(NewManager) = {}
    BY DEF Held, NewManager, NoGrant
  <2> QED
    BY <2>1, TickInit DEF Init, LeaseInv, WithinLease
<1>2. LeaseInv => LeaseBounded
  <2> SUFFICES ASSUME LeaseInv, NEW r \in Held(manager)
               PROVE  manager.tick - manager.grants[r].acquired < Lease + StaleTicks - 1
    BY DEF LeaseBounded, Lease
  <2>1. manager.grants[r] \in Grant /\ manager.tick \in Nat
    BY DEF LeaseInv, TickInv, TypeOK, Manager, Held
  <2>2. Bounded(manager, manager.grants[r])
    BY DEF LeaseInv, WithinLease
  <2> QED
    BY <2>1, <2>2, GrantConfigAssumption DEF Bounded, Grant, Lease
<1> QED
  BY <1>1, <1>2, LeaseStep, PTL DEF Spec
-----------------------------------------------------------------------------
(* The fleet-wide override.  Unsafety is monotone in motion, so pausing    *)
(* the components of every violating pair leaves only pairs that overlap   *)
(* where they stand.                                                       *)

\* Moving one robot of an unsafe pair, or both, never makes the pair safe.
LEMMA RaiseUnsafe ==
    ASSUME NEW N \in SUBSET NoGood, Monotone(N), NEW g \in N, NEW d,
           \A r \in RobotsOf(g) : d[r] \in Actions,
           \A l \in g : d[l.robot] = RESUME \/ d[l.robot] = l.forbidden
    PROVE  \E h \in N : Violated(h, d) /\ RobotsOf(h) = RobotsOf(g)
<1>1. PICK l, k \in Literal : g = {l, k} /\ l.robot # k.robot
  BY DEF NoGood
<1> DEFINE up(x) == [x EXCEPT !.forbidden = RESUME]
<1>2. up(l) \in Literal /\ up(k) \in Literal
      /\ up(l).robot = l.robot /\ up(k).robot = k.robot
      /\ up(l).forbidden = RESUME /\ up(k).forbidden = RESUME
  BY <1>1 DEF Literal, Actions
<1>3. {up(l), k} \in N
  <2>1. (g \ {l}) \cup {up(l)} = {up(l), k}
    BY <1>1
  <2> QED
    BY <1>1, <2>1 DEF Monotone
<1>4. {l, up(k)} \in N
  <2>1. (g \ {k}) \cup {up(k)} = {l, up(k)}
    BY <1>1
  <2> QED
    BY <1>1, <2>1 DEF Monotone
<1>5. {up(l), up(k)} \in N
  <2>1. up(l) # k
    BY <1>1, <1>2
  <2>2. ({up(l), k} \ {k}) \cup {up(k)} = {up(l), up(k)}
    BY <2>1
  <2> QED
    BY <1>3, <2>2 DEF Monotone
<1>6. \A x \in {l, up(l)}, y \in {k, up(k)} : RobotsOf({x, y}) = RobotsOf(g)
  <2>1. \A x, y : RobotsOf({x, y}) = {x.robot, y.robot}
    BY DEF RobotsOf
  <2>2. \A x \in {l, up(l)} : x.robot = l.robot
    BY <1>2
  <2>3. \A y \in {k, up(k)} : y.robot = k.robot
    BY <1>2
  <2> HIDE DEF up
  <2> QED
    BY <1>1, <2>1, <2>2, <2>3
<1> DEFINE L == IF d[l.robot] = l.forbidden THEN l ELSE up(l)
           K == IF d[k.robot] = k.forbidden THEN k ELSE up(k)
<1>7. {L, K} \in N /\ RobotsOf({L, K}) = RobotsOf(g)
  BY <1>1, <1>3, <1>4, <1>5, <1>6
<1>8. d[L.robot] = L.forbidden /\ d[K.robot] = K.forbidden
  BY <1>1, <1>2
<1>9. Violated({L, K}, d)
  <2> HIDE DEF L, K
  <2> QED
    BY <1>8 DEF Violated
<1> QED
  BY <1>7, <1>9

\* The override of decisions d: who it pauses, and what then is published.
OverriddenBy(o, d) ==
    UNION {ComponentOf(o, r) :
           r \in UNION {RobotsOf(g) : g \in {h \in o.unsafe : Violated(h, d)}}}
AfterOverride(o, d) == [r \in Robots |-> IF r \in OverriddenBy(o, d) THEN PAUSE ELSE d[r]]

\* Every robot of a violating pair is overridden.
LEMMA ViolatorsOverridden ==
    ASSUME NEW o \in Observation, NEW d, NEW g \in o.unsafe, Violated(g, d)
    PROVE  RobotsOf(g) \subseteq OverriddenBy(o, d)
<1> SUFFICES ASSUME NEW r \in RobotsOf(g) PROVE r \in OverriddenBy(o, d)
  OBVIOUS
<1>1. g \in NoGood
  BY DEF Observation
<1>2. r \in Robots
  BY <1>1 DEF NoGood, RobotsOf, Literal
<1>3. r \in ComponentOf(o, r)
  BY <1>2, ComponentMember DEF ComponentOf
<1> QED
  BY <1>3 DEF OverriddenBy

\* What an unsafe pair looks like before and after the override.
LEMMA OverriddenPair ==
    ASSUME NEW o \in Observations, NEW d \in Partial, \A r \in o.present : d[r] \in Actions,
           NEW g \in o.unsafe
    PROVE  /\ o \in Observation /\ Monotone(o.unsafe) /\ o.unsafe \in SUBSET NoGood
           /\ \A r \in RobotsOf(g) : d[r] \in Actions
           /\ \A r \in RobotsOf(g) :
                AfterOverride(o, d)[r] = IF r \in OverriddenBy(o, d) THEN PAUSE ELSE d[r]
           /\ \A l \in g : l.robot \in RobotsOf(g) /\ l.forbidden \in Actions
<1>1. o \in Observation /\ WellFormed(o) /\ Monotone(o.unsafe) /\ o.unsafe \in SUBSET NoGood
  BY ObservationsAssumption, GeometryAssumption DEF Observation
<1>2. RobotsOf(g) \subseteq o.present
  BY <1>1 DEF WellFormed
<1>3. o.present \subseteq Robots
  BY <1>1 DEF Observation
<1>4. \A l \in g : l.robot \in RobotsOf(g) /\ l.forbidden \in Actions
  BY <1>1 DEF NoGood, Literal, RobotsOf
<1> QED
  BY <1>1, <1>2, <1>3, <1>4 DEF AfterOverride

\* A pair unsafe after the override was, moved up, unsafe before: all of it is paused.
LEMMA OverrideStopsMovers ==
    ASSUME NEW o \in Observations, NEW d \in Partial, \A r \in o.present : d[r] \in Actions,
           NEW g \in o.unsafe, Violated(g, AfterOverride(o, d))
    PROVE  \A l \in g : l.forbidden = PAUSE /\ AfterOverride(o, d)[l.robot] = PAUSE
<1>1. \A l \in g : d[l.robot] = RESUME \/ d[l.robot] = l.forbidden
  BY OverriddenPair DEF Violated, Actions, PAUSE, RESUME
<1>2. PICK h \in o.unsafe : Violated(h, d) /\ RobotsOf(h) = RobotsOf(g)
  BY <1>1, OverriddenPair, RaiseUnsafe
<1>3. RobotsOf(g) \subseteq OverriddenBy(o, d)
  BY <1>2, OverriddenPair, ViolatorsOverridden
<1> QED
  BY <1>3, OverriddenPair DEF Violated

\* What remains unsafe after the override is exactly an overlap of footprints.
LEMMA OverrideLeavesOverlap ==
    ASSUME NEW o \in Observations, NEW d \in Partial, \A r \in o.present : d[r] \in Actions
    PROVE  (\E g \in o.unsafe : Violated(g, AfterOverride(o, d))) <=> FootprintsOverlap(o)
<1>1. ASSUME NEW g \in o.unsafe, Violated(g, AfterOverride(o, d))
      PROVE  FootprintsOverlap(o)
  BY <1>1, OverrideStopsMovers DEF FootprintsOverlap
<1>2. ASSUME NEW g \in o.unsafe, \A l \in g : l.forbidden = PAUSE
      PROVE  Violated(g, AfterOverride(o, d))
  <2>1. \A l \in g : d[l.robot] = RESUME \/ d[l.robot] = l.forbidden
    BY <1>2, OverriddenPair DEF Actions, PAUSE, RESUME
  <2>2. PICK h \in o.unsafe : Violated(h, d) /\ RobotsOf(h) = RobotsOf(g)
    BY <2>1, OverriddenPair, RaiseUnsafe
  <2>3. RobotsOf(g) \subseteq OverriddenBy(o, d)
    BY <2>2, OverriddenPair, ViolatorsOverridden
  <2> QED
    BY <1>2, <2>3, OverriddenPair DEF Violated
<1> QED
  BY <1>1, <1>2 DEF FootprintsOverlap

OverrideInv == TickInv /\ DiscardedOnlyByOverlap /\ MoversSafe

\* Before the first tick there is nothing to override.
LEMMA OverrideInit == Init => OverrideInv
BY TickInit DEF Init, OverrideInv, DiscardedOnlyByOverlap, MoversSafe

\* Every step keeps what is known of the override.
LEMMA OverrideStep == OverrideInv /\ [Next]_vars => OverrideInv'
<1> SUFFICES ASSUME OverrideInv, [Next]_vars PROVE OverrideInv'
  OBVIOUS
<1>0. TickInv /\ TickInv'
  BY TickStep DEF OverrideInv
<1>1. CASE Validate
  <2>1. obs \in Observations /\ decisions \in Partial
        /\ \A r \in obs.present : decisions[r] \in Actions
    BY <1>0, <1>1 DEF Validate, TickInv, TypeOK, InTick, Decided
  <2>2. affected' = OverriddenBy(obs, decisions)
    BY <1>1 DEF Validate, Violations, OverriddenBy
  <2>3. decisions' = AfterOverride(obs, decisions) /\ obs' = obs
    BY <1>1, <2>2 DEF Validate, AfterOverride
  <2>4. DiscardedOnlyByOverlap'
    BY <2>1, <2>3, OverrideLeavesOverlap DEF DiscardedOnlyByOverlap, Violations, FootprintsOverlap
  <2>5. MoversSafe'
    BY <2>1, <2>3, OverrideStopsMovers DEF MoversSafe, Violations
  <2> QED
    BY <1>0, <2>4, <2>5 DEF OverrideInv
<1>2. CASE UNCHANGED vars
  BY <1>0, <1>2 DEF vars, tickVars, OverrideInv, DiscardedOnlyByOverlap, MoversSafe, Violations,
                    FootprintsOverlap
<1>3. CASE stage' # "validated"
  BY <1>0, <1>3 DEF OverrideInv, DiscardedOnlyByOverlap, MoversSafe
<1>4. (\E o \in Observations : Prepare(o)) \/ Solve \/ Preview \/ Commit \/ Discard
        => stage' # "validated"
  BY DEF Prepare, Solve, Preview, Commit, Discard, Return
<1> QED
  BY <1>1, <1>2, <1>3, <1>4 DEF Next

\* The override leaves a violation exactly when footprints overlap where they
\* stand: a tick is discarded for no other reason.
THEOREM OverrideTheorem == Spec => []DiscardedOnlyByOverlap
<1>1. Init => OverrideInv
  BY OverrideInit
<1>2. OverrideInv => DiscardedOnlyByOverlap
  BY DEF OverrideInv
<1> QED
  BY <1>1, <1>2, OverrideStep, PTL DEF Spec

\* No decision that leaves decide, of a committed tick or a discarded one, moves a
\* robot that is in an unsafe pair, even when the conflict graph missed the pair.
THEOREM MoversTheorem == Spec => []MoversSafe
<1>1. OverrideInv => MoversSafe
  BY DEF OverrideInv
<1> QED
  BY <1>1, OverrideInit, OverrideStep, PTL DEF Spec
-----------------------------------------------------------------------------
(* Obstacles.  Grants are retained only for available robots, so the       *)
(* grant-first hard assignments of the repair still pause the others.      *)

HardInv == InTick => \A r \in Unavailable(obs) : hard[r] = UNASSIGNED

ObstacleInv == TickInv /\ HardInv /\ UnavailablePaused

\* A valid assignment of r's component gives r its hard action.
LEMMA SolutionObeys ==
    ASSUME NEW o, NEW r \in Robots, NEW h, NEW a \in ComponentSolutions(o, ComponentOf(o, r), h),
           h[r] # UNASSIGNED
    PROVE  a[r] = h[r]
<1>1. r \in ComponentOf(o, r)
  BY ComponentMember DEF ComponentOf
<1> QED
  BY <1>1 DEF ComponentSolutions, Solutions, Extends

\* Every step keeps stale and arrived robots paused.
LEMMA ObstacleStep == ObstacleInv /\ [Next]_vars => ObstacleInv'
<1> SUFFICES ASSUME ObstacleInv, [Next]_vars PROVE ObstacleInv'
  OBVIOUS
<1>0. TickInv /\ TickInv'
  BY TickStep DEF ObstacleInv
<1>1. InTick => /\ obs.present \subseteq Robots
                /\ Unavailable(obs) \subseteq obs.present
  BY <1>0, ObservationsAssumption DEF TickInv, Observation, WellFormed, Unavailable
<1>2. ASSUME NEW o \in Observations, Prepare(o) PROVE ObstacleInv'
  <2> DEFINE R == Reconciled([manager EXCEPT !.tick = @ + 1], o)
  <2>1. PICK retained \in SUBSET Candidates(R, o) :
          /\ IsRetained(R, o, retained)
          /\ hard' = [r \in Robots |-> IF r \in retained THEN RESUME ELSE UNASSIGNED]
    BY <1>2 DEF Prepare
  <2>2. \A r \in retained : r \notin Unavailable(o)
    BY <2>1 DEF IsRetained, SafeCompletion
  <2>3. Unavailable(o) \subseteq Robots
    BY ObservationsAssumption DEF Observation, Unavailable
  <2>4. obs' = o /\ stage' = "prepared"
    BY <1>2 DEF Prepare
  <2> QED
    BY <1>0, <2>1, <2>2, <2>3, <2>4 DEF ObstacleInv, HardInv, UnavailablePaused, Unavailable
<1>3. CASE Solve
  <2>1. PICK a \in Assignment :
          /\ \A r \in obs.present : Relevant(obs, r) /\ Solvable(r) =>
                 a \in ComponentSolutions(obs, ComponentOf(obs, r), ComponentHard)
          /\ decisions' = [r \in Robots |->
                 IF r \notin obs.present THEN UNASSIGNED
                 ELSE IF ~Relevant(obs, r) THEN PolicyAction(r)
                 ELSE IF Solvable(r) THEN a[r] ELSE PAUSE]
    BY <1>3 DEF Solve
  <2>2. ASSUME NEW r \in Unavailable(obs) PROVE decisions'[r] = PAUSE
    <3>1. r \in obs.present /\ r \in Robots
      BY <1>1, <1>3 DEF Solve, InTick
    <3>2. ComponentHard[r] = PAUSE /\ PAUSE # UNASSIGNED
      BY <3>1, <2>2 DEF ComponentHard, PAUSE, UNASSIGNED
    <3>3. Relevant(obs, r) /\ Solvable(r) => a[r] = PAUSE
      BY <2>1, <3>1, <3>2, SolutionObeys
    <3>4. PolicyAction(r) = PAUSE
      BY <2>2 DEF PolicyAction
    <3> QED
      BY <2>1, <3>1, <3>3, <3>4
  <2>3. UNCHANGED <<obs, hard>> /\ InTick /\ InTick' /\ stage' = "solved"
    BY <1>3 DEF Solve, InTick
  <2> QED
    BY <1>0, <2>2, <2>3 DEF ObstacleInv, HardInv, UnavailablePaused, Unavailable
<1>4. CASE Preview
  <2>1. PICK a \in Assignment :
          /\ \A r \in AllPausedRobots : Repairs(r) # {} => a \in Repairs(r)
          /\ decisions' = [r \in Robots |->
                 IF r \in AllPausedRobots /\ Repairs(r) # {} THEN a[r] ELSE decisions[r]]
    BY <1>4 DEF Preview
  <2>2. ASSUME NEW r \in Unavailable(obs) PROVE decisions'[r] = PAUSE
    <3>1. r \in obs.present /\ r \in Robots /\ hard[r] = UNASSIGNED /\ decisions[r] = PAUSE
      BY <1>1, <1>4 DEF Preview, InTick, ObstacleInv, HardInv, UnavailablePaused
    <3>2. RepairHard[r] = PAUSE /\ PAUSE # UNASSIGNED
      BY <3>1, <2>2 DEF RepairHard, PAUSE, UNASSIGNED
    <3>3. r \in AllPausedRobots /\ Repairs(r) # {} => a[r] = PAUSE
      BY <2>1, <3>1, <3>2, SolutionObeys DEF Repairs, ProgressSolutions
    <3> QED
      BY <2>1, <3>1, <3>3
  <2>3. UNCHANGED <<obs, hard>> /\ InTick /\ InTick' /\ stage' = "previewed"
    BY <1>4 DEF Preview, InTick
  <2> QED
    BY <1>0, <2>2, <2>3 DEF ObstacleInv, HardInv, UnavailablePaused, Unavailable
<1>5. CASE Validate
  <2>1. UNCHANGED <<obs, hard>> /\ InTick /\ InTick' /\ stage = "previewed"
    BY <1>5 DEF Validate, InTick
  <2>2. \A r \in Unavailable(obs) : r \in Robots /\ decisions[r] = PAUSE
    BY <1>1, <2>1 DEF ObstacleInv, UnavailablePaused
  <2>3. \A r \in Unavailable(obs) : decisions'[r] = PAUSE
    BY <1>5, <2>2 DEF Validate
  <2> QED
    BY <1>0, <2>1, <2>3 DEF ObstacleInv, HardInv, UnavailablePaused, Unavailable
<1>6. CASE stage' = "idle"
  BY <1>0, <1>6 DEF ObstacleInv, HardInv, UnavailablePaused, InTick
<1>7. Commit \/ Discard => stage' = "idle"
  BY DEF Commit, Discard, Return
<1>8. CASE UNCHANGED vars
  BY <1>0, <1>8 DEF vars, tickVars, ObstacleInv, HardInv, UnavailablePaused, InTick, Unavailable
<1> QED
  BY <1>2, <1>3, <1>4, <1>5, <1>6, <1>7, <1>8 DEF Next

\* From the solver to publication, a stale or arrived robot is told to Pause.
THEOREM ObstacleTheorem == Spec => []UnavailablePaused
<1>1. Init => ObstacleInv
  BY TickInit DEF Init, ObstacleInv, HardInv, UnavailablePaused, InTick
<1>2. ObstacleInv => UnavailablePaused
  BY DEF ObstacleInv
<1> QED
  BY <1>1, <1>2, ObstacleStep, PTL DEF Spec
-----------------------------------------------------------------------------
(* The solver and the fleet-wide validator agree on a complete graph.      *)

NoMoverAtFault ==
    stage \in {"solved", "previewed"} =>
        \A g \in obs.noGoods : Violated(g, decisions) => \A l \in g : decisions[l.robot] = PAUSE

NominalInv == TickInv /\ NoMoverAtFault

\* The robots of a no-good share their component, and are both in conflict.
LEMMA SameComponent ==
    ASSUME NEW o \in Observations, NEW g \in o.noGoods, NEW p \in RobotsOf(g), NEW q \in RobotsOf(g)
    PROVE  /\ p \in Robots /\ p \in o.present /\ Relevant(o, p)
           /\ ComponentOf(o, p) = ComponentOf(o, q)
           /\ RobotsOf(g) \subseteq ComponentOf(o, p)
<1>1. g \in NoGood /\ RobotsOf(g) \subseteq o.present
  BY ObservationsAssumption DEF Observation, WellFormed
<1>2. PICK l, k \in Literal : g = {l, k} /\ l.robot # k.robot
  BY <1>1 DEF NoGood
<1> DEFINE i == l.robot
           j == k.robot
<1>3. RobotsOf(g) = {i, j} /\ i \in Robots /\ j \in Robots /\ i # j
  BY <1>2 DEF RobotsOf, Literal
<1>4. j \in Adjacency(o.noGoods, i) /\ i \in Adjacency(o.noGoods, j)
  BY <1>3 DEF Adjacency
<1>5. ComponentOf(o, i) = ComponentOf(o, j)
  <2>1. ASSUME NEW S \in SUBSET Robots, \A s \in S : Adjacency(o.noGoods, s) \subseteq S
        PROVE  i \in S <=> j \in S
    BY <1>4, <2>1
  <2> QED
    BY <2>1 DEF ComponentOf, Component
<1>6. i \in ComponentOf(o, i) /\ j \in ComponentOf(o, j)
  BY <1>3, ComponentMember DEF ComponentOf
<1>7. Relevant(o, i) /\ Relevant(o, j)
  BY <1>4 DEF Relevant
<1>8. (p = i \/ p = j) /\ (q = i \/ q = j)
  BY <1>3
<1> QED
  BY <1>1, <1>3, <1>5, <1>6, <1>7, <1>8

\* A valid assignment of a component violates no no-good inside it.
LEMMA SolutionSatisfies ==
    ASSUME NEW o, NEW C, NEW h, NEW a \in ComponentSolutions(o, C, h),
           NEW g \in o.noGoods, RobotsOf(g) \subseteq C
    PROVE  ~Violated(g, a)
BY DEF ComponentSolutions, Solutions, Satisfies, ComponentNoGoods

\* Decisions that follow a valid assignment on a no-good's robots do not violate it.
LEMMA ViolatedCongruence ==
    ASSUME NEW g, NEW a, NEW d, \A r \in RobotsOf(g) : d[r] = a[r], Violated(g, d)
    PROVE  Violated(g, a)
BY DEF Violated, RobotsOf

\* Every step keeps movers out of violations.
LEMMA NominalStep == NominalInv /\ [Next]_vars => NominalInv'
<1> SUFFICES ASSUME NominalInv, [Next]_vars PROVE NominalInv'
  OBVIOUS
<1>0. TickInv /\ TickInv'
  BY TickStep DEF NominalInv
<1>1. CASE Solve
  <2>1. PICK a \in Assignment :
          /\ \A r \in obs.present : Relevant(obs, r) /\ Solvable(r) =>
                 a \in ComponentSolutions(obs, ComponentOf(obs, r), ComponentHard)
          /\ decisions' = [r \in Robots |->
                 IF r \notin obs.present THEN UNASSIGNED
                 ELSE IF ~Relevant(obs, r) THEN PolicyAction(r)
                 ELSE IF Solvable(r) THEN a[r] ELSE PAUSE]
    BY <1>1 DEF Solve
  <2>2. obs \in Observations
    BY <1>0, <1>1 DEF TickInv, InTick, Solve
  <2>3. ASSUME NEW g \in obs.noGoods, Violated(g, decisions'), NEW l \in g
        PROVE  decisions'[l.robot] = PAUSE
    <3> DEFINE p == l.robot
    <3>1. p \in RobotsOf(g)
      BY DEF RobotsOf
    <3>2. p \in Robots /\ p \in obs.present /\ Relevant(obs, p)
          /\ RobotsOf(g) \subseteq ComponentOf(obs, p)
      BY <2>2, <3>1, SameComponent
    <3>3. \A q \in RobotsOf(g) : /\ q \in Robots /\ q \in obs.present /\ Relevant(obs, q)
                                 /\ ComponentOf(obs, q) = ComponentOf(obs, p)
      BY <2>2, <3>1, SameComponent
    <3>4. ~Solvable(p)
      <4> SUFFICES ASSUME Solvable(p) PROVE FALSE
        OBVIOUS
      <4>1. \A q \in RobotsOf(g) : Solvable(q)
        BY <3>3 DEF Solvable
      <4>2. \A q \in RobotsOf(g) : decisions'[q] = a[q]
        BY <2>1, <3>3, <4>1
      <4>3. Violated(g, a)
        BY <2>3, <4>2, ViolatedCongruence
      <4>4. a \in ComponentSolutions(obs, ComponentOf(obs, p), ComponentHard)
        BY <2>1, <3>2
      <4> QED
        BY <3>2, <4>3, <4>4, SolutionSatisfies
    <3> QED
      BY <2>1, <3>2, <3>4
  <2>4. obs' = obs
    BY <1>1 DEF Solve
  <2> QED
    BY <1>0, <2>3, <2>4 DEF NominalInv, NoMoverAtFault, Violated
<1>2. CASE Preview
  <2>1. PICK a \in Assignment :
          /\ \A r \in AllPausedRobots : Repairs(r) # {} => a \in Repairs(r)
          /\ decisions' = [r \in Robots |->
                 IF r \in AllPausedRobots /\ Repairs(r) # {} THEN a[r] ELSE decisions[r]]
    BY <1>2 DEF Preview
  <2>2. obs \in Observations
    BY <1>0, <1>2 DEF TickInv, InTick, Preview
  <2>3. ASSUME NEW g \in obs.noGoods, Violated(g, decisions'), NEW l \in g
        PROVE  decisions'[l.robot] = PAUSE
    <3> DEFINE p == l.robot
    <3>1. p \in RobotsOf(g)
      BY DEF RobotsOf
    <3>2. p \in Robots /\ RobotsOf(g) \subseteq ComponentOf(obs, p)
      BY <2>2, <3>1, SameComponent
    <3>3. \A q \in RobotsOf(g) : /\ q \in Robots /\ q \in obs.present /\ Relevant(obs, q)
                                 /\ ComponentOf(obs, q) = ComponentOf(obs, p)
      BY <2>2, <3>1, SameComponent
    <3>4. \A q \in RobotsOf(g) : q \in AllPausedRobots <=> p \in AllPausedRobots
      BY <3>1, <3>3 DEF AllPausedRobots
    <3>5. \A q \in RobotsOf(g) : Repairs(q) = Repairs(p)
      BY <3>3 DEF Repairs
    <3>6. ~(p \in AllPausedRobots /\ Repairs(p) # {})
      <4> SUFFICES ASSUME p \in AllPausedRobots, Repairs(p) # {} PROVE FALSE
        OBVIOUS
      <4>1. \A q \in RobotsOf(g) : decisions'[q] = a[q]
        BY <2>1, <3>3, <3>4, <3>5
      <4>2. Violated(g, a)
        BY <2>3, <4>1, ViolatedCongruence
      <4>3. a \in ComponentSolutions(obs, ComponentOf(obs, p), RepairHard)
        BY <2>1 DEF Repairs, ProgressSolutions
      <4> QED
        BY <3>2, <4>2, <4>3, SolutionSatisfies
    <3>7. \A q \in RobotsOf(g) : decisions'[q] = decisions[q]
      BY <2>1, <3>3, <3>4, <3>5, <3>6
    <3>8. Violated(g, decisions)
      BY <2>3, <3>7, ViolatedCongruence
    <3> QED
      BY <1>2, <3>1, <3>7, <3>8 DEF NominalInv, NoMoverAtFault, Preview
  <2>4. obs' = obs
    BY <1>2 DEF Preview
  <2> QED
    BY <1>0, <2>3, <2>4 DEF NominalInv, NoMoverAtFault, Violated
<1>3. CASE stage' \notin {"solved", "previewed"}
  BY <1>0, <1>3 DEF NominalInv, NoMoverAtFault
<1>4. (\E o \in Observations : Prepare(o)) \/ Validate \/ Commit \/ Discard
        => stage' \notin {"solved", "previewed"}
  BY DEF Prepare, Validate, Commit, Discard, Return
<1>5. CASE UNCHANGED vars
  BY <1>0, <1>5 DEF vars, tickVars, NominalInv, NoMoverAtFault, Violated
<1> QED
  BY <1>1, <1>2, <1>3, <1>4, <1>5 DEF Next

\* On a complete conflict graph no mover is ever in a violating pair: the override
\* can only fire on robots that are all paused already.
THEOREM NominalTheorem == Spec => []NominalDecisionsSafe
<1>1. Init => NominalInv
  BY TickInit DEF Init, NominalInv, NoMoverAtFault
<1>2. NominalInv => NominalDecisionsSafe
  BY DEF NominalInv, NoMoverAtFault, NominalDecisionsSafe, Violations
<1> QED
  BY <1>1, <1>2, NominalStep, PTL DEF Spec
=============================================================================
