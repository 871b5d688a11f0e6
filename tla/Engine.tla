------------------------------- MODULE Engine -------------------------------
(***************************************************************************)
(* CollisionDecisionEngine.decide (engine.py) over the grant manager: one  *)
(* tick observes the fleet, prepares the grants of a clone, solves every   *)
(* component, repairs, validates fleet-wide and commits or discards the    *)
(* clone.  Each of those calls is one action; `stage` is where decide is.  *)
(***************************************************************************)
EXTENDS Grants, FiniteSets

CONSTANTS Observations,  \* the observations a tick may be called with
          MaxTick        \* bound on committed ticks, for model checking

ASSUME ObservationsAssumption == Observations \subseteq {o \in Observation : WellFormed(o)}
ASSUME MaxTickAssumption == MaxTick \in Nat
\* Snapshots and grants are dictionaries in memory.
ASSUME FleetAssumption == IsFiniteSet(Robots)
\* Envelopes come from resume_envelope and pause_envelope, whoever builds the graph.
ASSUME GeometryAssumption == \A o \in Observations : Monotone(o.unsafe)

VARIABLES
    stage,        \* "idle" between calls of decide
    manager,      \* self._grant_manager
    provisional,  \* the clone this tick works on
    obs,          \* the tick's snapshots and conflict model
    hard,         \* grant_preparation.hard_assignments
    releases,     \* pending releases: the reason per robot
    decisions,    \* proposed, then preview, then final decisions
    affected,     \* robots the fleet-wide validator overrode
    alarm         \* UNRESOLVABLE_WITH_PAUSE_RESUME

tickVars == <<provisional, obs, hard, releases, decisions, affected, alarm>>
vars == <<stage, manager, tickVars>>

NoObservation ==
    [present |-> {}, stale |-> {}, atGoal |-> {}, noGoods |-> {}, unsafe |-> {}]

NoReleases == [r \in Robots |-> "NONE"]

TypeOK ==
    /\ stage \in {"idle", "prepared", "solved", "previewed", "validated"}
    /\ manager \in Manager
    /\ provisional \in Manager
    /\ obs \in Observation
    /\ hard \in Partial
    /\ releases \in [Robots -> Reasons]
    /\ decisions \in Partial
    /\ affected \subseteq Robots
    /\ alarm \in BOOLEAN

Init ==
    /\ stage = "idle"
    /\ manager = NewManager
    /\ provisional = NewManager
    /\ obs = NoObservation
    /\ hard = NoneAssigned
    /\ releases = NoReleases
    /\ decisions = NoneAssigned
    /\ affected = {}
    /\ alarm = FALSE
-----------------------------------------------------------------------------
\* clone and prepare_tick: advance the tick, reconcile, retain what is safe.
Prepare(o) ==
    /\ stage = "idle"
    /\ manager.tick < MaxTick
    /\ LET advanced == [manager EXCEPT !.tick = @ + 1]
           reconciled == Reconciled(advanced, o)
       IN \E retained \in SUBSET Candidates(reconciled, o) :
            LET dropped == Candidates(reconciled, o) \ retained
            IN /\ IsRetained(reconciled, o, retained)
               /\ provisional' = Release(reconciled, dropped)
               /\ hard' = [r \in Robots |-> IF r \in retained THEN RESUME ELSE UNASSIGNED]
               /\ releases' = [r \in Robots |->
                    IF r \in dropped THEN MergeReason(reconciled, o, retained, r)
                    ELSE LifecycleReason(advanced, o, r)]
    /\ obs' = o
    /\ stage' = "prepared"
    /\ UNCHANGED <<manager, decisions, affected, alarm>>

\* Mutant of ComponentHard: the retained grants are not passed on.
ComponentHardUngranted ==
    [r \in Robots |-> IF r \in Unavailable(obs) THEN PAUSE ELSE UNASSIGNED]

\* _component_hard_assignments: the safety Pause wins over a retained grant.
ComponentHard ==
    [r \in Robots |-> IF r \in Unavailable(obs) THEN PAUSE ELSE hard[r]]

\* An isolated robot moves unless it is stale or has arrived.
PolicyAction(r) == IF r \in Unavailable(obs) THEN PAUSE ELSE RESUME

Solvable(r) == ComponentSolutions(obs, ComponentOf(obs, r), ComponentHard) # {}

\* _solve_components.  CP-SAT may return any validated incumbent and the heuristic
\* any solution, so the choice is left open; without one the component pauses.
Solve ==
    /\ stage = "prepared"
    /\ \E a \in Assignment :
        /\ \A r \in obs.present : Relevant(obs, r) /\ Solvable(r) =>
               a \in ComponentSolutions(obs, ComponentOf(obs, r), ComponentHard)
        /\ decisions' = [r \in Robots |->
               IF r \notin obs.present THEN UNASSIGNED
               ELSE IF ~Relevant(obs, r) THEN PolicyAction(r)
               ELSE IF Solvable(r) THEN a[r] ELSE PAUSE]
    /\ stage' = "solved"
    /\ UNCHANGED <<manager, provisional, obs, hard, releases, affected, alarm>>

\* Mutant of RepairHard: stale and arrived robots are not held still.
RepairHardGrantsOnly == hard

\* Hard assignments of the repair: here a retained grant wins.
RepairHard ==
    [r \in Robots |-> IF hard[r] # UNASSIGNED THEN hard[r]
                      ELSE IF r \in Unavailable(obs) THEN PAUSE ELSE UNASSIGNED]

Repairs(r) == ProgressSolutions(obs, ComponentOf(obs, r), RepairHard)

\* Robots of conflicting components in which everyone is paused.
AllPausedRobots ==
    {r \in obs.present : Relevant(obs, r) /\ \A q \in ComponentOf(obs, r) : decisions[q] = PAUSE}

\* preview_tick: an all-Pause component is repaired, or raises the alarm.
Preview ==
    /\ stage = "solved"
    /\ \E a \in Assignment :
        /\ \A r \in AllPausedRobots : Repairs(r) # {} => a \in Repairs(r)
        /\ decisions' = [r \in Robots |->
               IF r \in AllPausedRobots /\ Repairs(r) # {} THEN a[r] ELSE decisions[r]]
    /\ alarm' = (\E r \in AllPausedRobots : Repairs(r) = {})
    /\ stage' = "previewed"
    /\ UNCHANGED <<manager, provisional, obs, hard, releases, affected>>

Violations(d) == {g \in obs.unsafe : Violated(g, d)}

\* Mutant of Validate: only the first robot of a violating pair is paused.
ValidateFirstOfPair ==
    /\ stage = "previewed"
    /\ affected' = {r \in Robots : \E g \in Violations(decisions) :
                        r \in RobotsOf(g) /\ \A q \in RobotsOf(g) : r <= q}
    /\ decisions' = [r \in Robots |-> IF r \in affected' THEN PAUSE ELSE decisions[r]]
    /\ stage' = "validated"
    /\ UNCHANGED <<manager, provisional, obs, hard, releases, alarm>>

\* validate_global_safety, and Pause for the full components it finds at fault.
Validate ==
    /\ stage = "previewed"
    /\ affected' = UNION {ComponentOf(obs, r) : r \in UNION {RobotsOf(g) : g \in Violations(decisions)}}
    /\ decisions' = [r \in Robots |-> IF r \in affected' THEN PAUSE ELSE decisions[r]]
    /\ stage' = "validated"
    /\ UNCHANGED <<manager, provisional, obs, hard, releases, alarm>>

\* The call returns its decisions; nothing else of the tick outlives it.
Return ==
    /\ stage' = "idle"
    /\ obs' = NoObservation
    /\ hard' = NoneAssigned
    /\ releases' = NoReleases
    /\ decisions' = NoneAssigned
    /\ affected' = {}
    /\ alarm' = FALSE

\* Mutant of Commit: the overridden robots keep their grants.
CommitUnrevoked ==
    /\ stage = "validated"
    /\ Violations(decisions) = {}
    /\ \E acquired \in SUBSET Eligible(provisional, obs, decisions) :
        /\ IsAcquired(provisional, obs, decisions, acquired)
        /\ manager' = UpdateFairness(Acquire(provisional, acquired), obs, decisions)
    /\ provisional' = manager'
    /\ Return

\* revoke_for_safety and commit_tick; the clone becomes the manager.
Commit ==
    /\ stage = "validated"
    /\ Violations(decisions) = {}
    /\ LET revoked == Release(provisional, affected)
       IN \E acquired \in SUBSET Eligible(revoked, obs, decisions) :
            /\ IsAcquired(revoked, obs, decisions, acquired)
            /\ manager' = UpdateFairness(Acquire(revoked, acquired), obs, decisions)
    /\ provisional' = manager'
    /\ Return

\* Stationary envelopes intersect: nothing of this tick is kept but its decisions.
Discard ==
    /\ stage = "validated"
    /\ Violations(decisions) # {}
    /\ provisional' = manager
    /\ UNCHANGED manager
    /\ Return

Next ==
    \/ \E o \in Observations : Prepare(o)
    \/ Solve
    \/ Preview
    \/ Validate
    \/ Commit
    \/ Discard

Spec == Init /\ [][Next]_vars
-----------------------------------------------------------------------------
\* Two current footprints intersect: not even Pause for both is safe.
FootprintsOverlap(o) == \E g \in o.unsafe : \A l \in g : l.forbidden = PAUSE

\* After the override a violation is left exactly when footprints already overlap,
\* so a tick is discarded for that reason only and no other override is partial.
DiscardedOnlyByOverlap ==
    stage = "validated" => (Violations(decisions) # {} <=> FootprintsOverlap(obs))

\* Whatever leaves decide, committed or discarded, no robot that is told to move is in
\* an unsafe pair, even one that the conflict graph missed.
MoversSafe ==
    stage = "validated" => \A g \in Violations(decisions) : \A l \in g : decisions[l.robot] = PAUSE

\* Decisions chosen on a complete conflict graph never move a robot into anything:
\* the fleet-wide override can only fire on robots that are all paused already.
NominalDecisionsSafe ==
    stage = "previewed" /\ obs.noGoods = obs.unsafe =>
        \A g \in Violations(decisions) : \A l \in g : decisions[l.robot] = PAUSE

\* Grants never cost progress: a conflicting component moves somebody whenever any
\* safe assignment could, stale and arrived robots standing still, whatever grants
\* it holds; and the alarm is raised exactly when some component cannot.
UnavailableHard == [r \in Robots |-> IF r \in Unavailable(obs) THEN PAUSE ELSE UNASSIGNED]
CanProgress(r) == ProgressSolutions(obs, ComponentOf(obs, r), UnavailableHard) # {}

ProgressOrAlarm ==
    stage = "previewed" =>
        LET conflicting == {r \in obs.present : Relevant(obs, r)}
        IN /\ \A r \in conflicting :
                CanProgress(r) <=> \E q \in ComponentOf(obs, r) : decisions[q] = RESUME
           /\ alarm <=> \E r \in conflicting : ~CanProgress(r)

\* A stale or arrived robot is an obstacle: it is told to Pause, whatever it held.
UnavailablePaused ==
    stage \in {"solved", "previewed", "validated"} =>
        \A r \in Unavailable(obs) : decisions[r] = PAUSE

\* preview_tick raises unless a component that moves anyone satisfies its no-goods
\* and every retained grant: no tick is ever lost that way, and a component with a
\* retained grant is always solved, never sent to the fail-safe.
PreviewAccepts ==
    stage = "solved" =>
        \A r \in obs.present :
            LET C == ComponentOf(obs, r)
            IN Relevant(obs, r) /\ (\E q \in C : RESUME \in {decisions[q], hard[q]}) =>
                \E a \in ComponentSolutions(obs, C, hard) : \A q \in C : decisions[q] = a[q]

\* No grant outlives its lease by more than an absence the stale limit tolerates,
\* however often its robot leaves the snapshot and returns.
LeaseBounded ==
    \A r \in Held(manager) :
        manager.tick - manager.grants[r].acquired
            < (IF MaxHold = 0 THEN 1 ELSE MaxHold) + StaleTicks - 1

\* A tick that changes the manager is a committed one.
Committing == stage = "validated" /\ manager'.tick # manager.tick

\* After a committed tick the holders among the robots in conflict are exactly the
\* robots that were told to move: right of way and published action agree.
GrantsMatchMoves ==
    [][Committing => \A r \in obs.present : Relevant(obs, r) =>
        (r \in Held(manager') <=> decisions[r] = RESUME)]_vars

\* Non-pre-emption.  A holder that is fresh, short of its goal, inside its lease and
\* still in conflict keeps its grant and moves, unless it was overridden or cannot
\* move together with the older grants still valid in its component.
KeepsRightOfWay(r) ==
    /\ r \in Held(manager) \cap (obs.present \ (Unavailable(obs) \cup affected))
    /\ manager.tick + 1 - manager.grants[r].acquired < MaxHold
    /\ Relevant(obs, r)
    /\ LET C == ComponentOf(obs, r)
       IN SafeCompletion(obs, C,
            {q \in (Held(manager) \cap C) \ Unavailable(obs) : Older(manager, q, r)} \cup {r})

NonPreemption ==
    [][Committing => \A r \in Robots : KeepsRightOfWay(r) =>
        /\ manager'.grants[r].acquired = manager.grants[r].acquired
        /\ decisions[r] = RESUME]_vars
=============================================================================
