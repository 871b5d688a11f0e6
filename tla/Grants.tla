------------------------------- MODULE Grants -------------------------------
(***************************************************************************)
(* GrantManager (grants.py): the right-of-way grants, waiting ages and     *)
(* previous actions that persist from tick to tick.  A manager is a record *)
(* and every operation of the class is an operator on it, so that Engine   *)
(* can hold the persistent manager and its provisional clone side by side. *)
(*                                                                         *)
(* The heuristic that grants consult is replaced by what ComponentSolver   *)
(* promises of it: it finds a progressing assignment when there is one.    *)
(***************************************************************************)
EXTENDS Conflicts

CONSTANTS MaxHold,         \* grant_maximum_hold_ticks
          MinHold,         \* grant_minimum_hold_ticks
          ClearanceTicks,  \* grant_clearance_release_ticks
          StaleTicks,      \* _stale_tick_limit(): stale timeout in whole ticks
          WaitingCap       \* priority_waiting_age_cap_ticks

ASSUME GrantConfigAssumption ==
    /\ MaxHold \in Nat /\ MinHold \in Nat /\ MinHold <= MaxHold
    /\ ClearanceTicks \in Nat \ {0}
    /\ StaleTicks \in Nat \ {0}
    /\ WaitingCap \in Nat
-----------------------------------------------------------------------------
(* One tick's observation: who is in the snapshot and in what condition,   *)
(* the no-goods of the conflict model, and what geometry really makes      *)
(* unsafe (the same set, unless an injected builder missed something).     *)
Observation == [present : SUBSET Robots, stale : SUBSET Robots, atGoal : SUBSET Robots,
                noGoods : SUBSET NoGood, unsafe : SUBSET NoGood]

\* Conditions and conflicts are those of robots in the snapshot.
WellFormed(o) ==
    /\ o.stale \cup o.atGoal \subseteq o.present
    /\ \A g \in o.noGoods \cup o.unsafe : RobotsOf(g) \subseteq o.present

Unavailable(o) == o.stale \cup o.atGoal
Relevant(o, r) == Adjacency(o.noGoods, r) # {}
ComponentOf(o, r) == Component(o.noGoods, r)

\* Acquisition ticks are positive: a zero field stands for "no grant".
Grant == [acquired : Nat, seen : Nat, clearance : Nat]
NoGrant == [acquired |-> 0, seen |-> 0, clearance |-> 0]
NotWaiting == -1

Manager == [tick : Nat, waiting : [Robots -> Nat \cup {NotWaiting}],
            previous : Partial, grants : [Robots -> Grant]]

NewManager == [tick |-> 0, waiting |-> [r \in Robots |-> NotWaiting],
               previous |-> NoneAssigned, grants |-> [r \in Robots |-> NoGrant]]

Held(m) == {r \in Robots : m.grants[r].acquired > 0}

Reasons == {"NONE", "AT_GOAL", "STALE_OR_DISAPPEARED", "CONFLICT_CLEARED",
            "MAXIMUM_LEASE_FAULT_GUARD", "UNSAFE_GEOMETRY", "COMPONENT_MERGE_CONFLICT"}
-----------------------------------------------------------------------------
\* The valid assignments of component C under hard assignments h.
ComponentSolutions(o, C, h) ==
    Solutions(ComponentNoGoods(o.noGoods, C),
              [r \in Robots |-> IF r \in C THEN h[r] ELSE UNASSIGNED])

ProgressSolutions(o, C, h) ==
    {a \in ComponentSolutions(o, C, h) : \E r \in C : a[r] = RESUME}

\* _grant_group_has_safe_completion
SafeCompletion(o, C, group) ==
    /\ group \cap Unavailable(o) = {}
    /\ ProgressSolutions(o, C, [r \in Robots |->
           IF r \in group THEN RESUME
           ELSE IF r \in Unavailable(o) THEN PAUSE ELSE UNASSIGNED]) # {}
-----------------------------------------------------------------------------
(* _reconcile_lifecycle, for a manager whose tick has been advanced.  The  *)
(* sets are disjoint: each is a release, or the refresh of a grant kept.   *)
Lapsed(m, o) == {r \in Held(m) : r \in o.stale \/
                    (r \notin o.present /\ m.tick - m.grants[r].seen >= StaleTicks)}
Arrived(m, o) == Held(m) \cap (o.atGoal \ o.stale)
\* Mutant of Expired: the lease is counted from the last time the robot was seen.
ExpiredSinceSeen(m, o) == {r \in Held(m) \cap (o.present \ Unavailable(o)) :
                             m.tick - m.grants[r].seen >= MaxHold}
Expired(m, o) == {r \in Held(m) \cap (o.present \ Unavailable(o)) :
                    m.tick - m.grants[r].acquired >= MaxHold}
Refreshed(m, o) == (Held(m) \cap (o.present \ Unavailable(o))) \ Expired(m, o)
Cleared(m, o) == {r \in Refreshed(m, o) :
                    /\ ~Relevant(o, r)
                    /\ m.grants[r].clearance + 1 >= ClearanceTicks
                    /\ m.tick - m.grants[r].acquired >= MinHold}

\* Mutant of Refresh: clearance is counted down.
RefreshDown(m, o, r) ==
    [m.grants[r] EXCEPT !.seen = m.tick,
                        !.clearance = IF Relevant(o, r) THEN 0 ELSE @ - 1]

Refresh(m, o, r) ==
    [m.grants[r] EXCEPT !.seen = m.tick,
                        !.clearance = IF Relevant(o, r) THEN 0 ELSE @ + 1]

Reconciled(m, o) ==
    LET gone == Lapsed(m, o) \cup Arrived(m, o) \cup Expired(m, o) \cup Cleared(m, o)
    IN [m EXCEPT
        !.waiting = [r \in Robots |-> IF r \in o.present THEN @[r] ELSE NotWaiting],
        !.previous = [r \in Robots |-> IF r \in o.present THEN @[r] ELSE UNASSIGNED],
        !.grants = [r \in Robots |->
            IF r \in gone THEN NoGrant
            ELSE IF r \in Refreshed(m, o) THEN Refresh(m, o, r) ELSE @[r]]]

LifecycleReason(m, o, r) ==
    IF r \in Lapsed(m, o) THEN "STALE_OR_DISAPPEARED"
    ELSE IF r \in Arrived(m, o) THEN "AT_GOAL"
    ELSE IF r \in Expired(m, o) THEN "MAXIMUM_LEASE_FAULT_GUARD"
    ELSE IF r \in Cleared(m, o) THEN "CONFLICT_CLEARED" ELSE "NONE"
-----------------------------------------------------------------------------
Older(m, q, r) ==
    \/ m.grants[q].acquired < m.grants[r].acquired
    \/ m.grants[q].acquired = m.grants[r].acquired /\ q < r

Candidates(m, o) == {r \in Held(m) \cap o.present : Relevant(o, r)}

\* Mutant of RetainedBefore: each grant is checked on its own.
RetainedAlone(m, o, retained, r) == {}

\* Grants already retained when r's turn comes in its component.
RetainedBefore(m, o, retained, r) ==
    {q \in retained \cap ComponentOf(o, r) : Older(m, q, r)}

\* Mutant of IsRetained: a component keeps all of its grants or none.
IsRetainedTogether(m, o, retained) ==
    \A r \in Candidates(m, o) :
        r \in retained <=>
            SafeCompletion(o, ComponentOf(o, r), Candidates(m, o) \cap ComponentOf(o, r))

\* _safe_relevant_grants takes each component's candidates oldest first: the one
\* set in which a grant stays exactly when it fits those retained before it.
IsRetained(m, o, retained) ==
    \A r \in Candidates(m, o) :
        r \in retained <=>
            SafeCompletion(o, ComponentOf(o, r), RetainedBefore(m, o, retained, r) \cup {r})

MergeReason(m, o, retained, r) ==
    IF RetainedBefore(m, o, retained, r) # {}
    THEN "COMPONENT_MERGE_CONFLICT" ELSE "UNSAFE_GEOMETRY"

Release(m, S) ==
    [m EXCEPT !.grants = [r \in Robots |-> IF r \in S THEN NoGrant ELSE @[r]]]
-----------------------------------------------------------------------------
\* Robots _acquire_grants considers, and the group it checks when r's turn comes.
Eligible(m, o, d) ==
    {r \in o.present \ (Held(m) \cup Unavailable(o)) : d[r] = RESUME /\ Relevant(o, r)}

GroupAt(m, o, acquired, r) ==
    ((Held(m) \cup {q \in acquired : q < r}) \cap ComponentOf(o, r)) \cup {r}

\* _acquire_grants, in ID order.
IsAcquired(m, o, d, acquired) ==
    \A r \in Eligible(m, o, d) :
        r \in acquired <=> SafeCompletion(o, ComponentOf(o, r), GroupAt(m, o, acquired, r))

Acquire(m, S) ==
    [m EXCEPT !.grants = [r \in Robots |->
        IF r \in S THEN [acquired |-> m.tick, seen |-> m.tick, clearance |-> 0] ELSE @[r]]]

CappedAge(age) == IF age + 1 < WaitingCap THEN age + 1 ELSE WaitingCap

\* _update_fairness
UpdateFairness(m, o, d) ==
    [m EXCEPT
        !.waiting = [r \in Robots |->
            IF r \notin o.present THEN NotWaiting
            ELSE IF d[r] = RESUME \/ r \in o.atGoal THEN 0
            ELSE CappedAge(IF @[r] = NotWaiting THEN 0 ELSE @[r])],
        !.previous = [r \in Robots |-> IF r \in o.present THEN d[r] ELSE UNASSIGNED]]
=============================================================================
