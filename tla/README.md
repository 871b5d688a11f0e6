# Collision monitor: a TLA+ model

This directory models the collision monitor under `src/src/collision_monitor/`
in TLA+. TLC checks the modules on small instances; TLAPS proves the safety and
action properties for every value of the constants. `PROJECT.json` lists the components,
runs, mutants, source lines, hazards and theorems. Paths below are relative to
`src/src/collision_monitor/`.

## The program

A single Python process. Robots put their states into one durable RabbitMQ
queue; once per tick interval the process decides Pause or Resume for every
robot it knows and publishes one action to each robot's own queue.

| Part | State it keeps | Operations | What makes it correct |
|---|---|---|---|
| `geometry.py` | none | Pause and Resume envelopes, intersection | the Resume envelope contains the Pause envelope |
| `conflicts.py` | none (one immutable model per tick) | four-way compatibility of a pair, no-goods, components | two robots of a no-good share a component |
| `priority.py` | none | integer score per robot, its bounds | throughput is never traded for priority |
| `optimiser.py` | none | objective encoding, CP-SAT with a time limit, independent validator | one weighted sum keeps the documented order of goals; what is returned satisfies every no-good |
| `heuristic.py` | none (local search state) | propagate, greedy pass, escape repair, fail-safe | sound, complete, best by rank, always answers |
| `grants.py` | tick, grants, waiting ages, previous actions | clone, prepare, preview, revoke, commit | right of way bounded, not pre-empted, equal to the moves |
| `engine.py` | the committed grant manager | decide | safe or alarmed; progress when any is safe |
| `state_store.py` | newest state and receive time per robot | update, snapshot | never goes back; what is refused or late does not look fresh |
| `service.py` | tick sequence, run identity | ingest, settle, tick, publish with retry, run | nothing lost, identities unique, ends when it must |
| `transport/rabbitmq.py` | connection, two channels, lock, closed flag | connect, open, iterate, publish, close | one connection at a time; tasks do not take each other's channels; both recover; nothing is left open |
| `transport/in_memory.py` | queues | deliver, close | the end of iteration |
| `simulator/` | simulated robots, clock of the run | advance, publish, exchange a tick | no two robots sweep the same ground; the run ends with everybody at the goal, or alarmed |
| `config.py`, `models.py`, `logging_utils.py`, `__main__.py`, `simulator/cli.py` | values only | validation, formatting, start and stop | |

How they interact. `service` runs two asyncio tasks. `consume_states` takes a
delivery from the transport, stores it, then awaits its settlement.
`decision_loop` takes a snapshot of the store, calls `engine.decide`
synchronously, then awaits the publication of each action in turn. Both tasks
share one connection of the transport, which either may find lost and re-make.
`decide` clones the grant manager, lets the clone reconcile its grants with the
snapshot, solves each conflict component (CP-SAT, or the heuristic), lets the
clone repair components in which everybody pauses, validates the whole fleet, and
either makes the clone the new manager or drops it. The simulator closes the loop:
its robots apply the actions, and where they are then decides the next tick's
conflicts.

What is hard. The grant manager is a protocol over many ticks: robots leave,
return, get stale, arrive, and components merge and split while leases run. The
pieces overlay the same hard assignments in different orders. A tick can be
overridden, discarded or cut short. The heuristic searches without backtracking.
The optimiser folds three goals into one integer. The two tasks interleave at
every await, reconnect behind each other's back and are cancelled anywhere; the
broker redelivers and confirms ambiguously, and the process restarts with nothing
but its queues. The complete list, each at its line, is under `hazards` in
`PROJECT.json`.

## Modules

```
Conflicts             no-goods, components, valid assignments
 |-- ComponentSolver    what a solver of one component promises  <--+--+
 |-- Heuristic          the search of heuristic.py ----- implements-+  |
 |    |-- MCHeuristic, HeuristicProofs                                 |
 |-- Priority           scores and the objective's encoding            |
 |    |-- Exact         a component through both solvers -------- uses-+
 |         |-- MCExact, ExactProofs, ObjectiveProofs
 |-- Grants             operators on a grant manager (uses the promise)
 |    |-- Engine        decide, call by call
 |         |-- MCEngine, EngineProofs, GrantProofs
 |         |-- EngineOrder    who moved before whom, MCEngineOrder
 |         |-- Fleet          robots on routes under the engine ---- implements --> Traffic
 |              |-- MCFleet, FleetProofs
 |              |-- Demo      the same over a broker that loses actions, MCDemo
 |-- Service            the two tasks, store, queues, restart
      |-- ServiceProofs
RabbitTransport       connection, channels and locks under both tasks
 |-- RabbitProofs
```

* **Conflicts** (`conflicts.py`, validator of `optimiser.py`). A no-good is a set
  of two literals `[robot, forbidden]`. `Monotone` states what geometry gives:
  whatever is unsafe when a robot pauses is unsafe when it moves. Robots are
  numbers, and their order is the ID order.
* **ComponentSolver** is an abstract specification: one question (no-goods and
  hard assignments), one answer. Fail-safe is promised only when all-Pause is the
  only valid assignment, infeasible only when there is none.
* **Heuristic** (`heuristic.py`). `pc` is the place in `solve`; `base` is the
  assignment accepted so far, `trial` the copy being propagated. One `Propagate`
  step forces one literal, in any clause order; the code's fixed order is one of
  those. Scores are abstract and give the rank with ties broken by ID. The sort of
  escape candidates by clearance count is left open. The wrapper's defensive
  checks of its arguments are not modelled.
* **Priority** (`priority.py`, `build_objective_encoding`). Integer operators: the
  secondary score term by term (urgency with its floor division, clearance bonus
  per neighbour that the robot alone stops blocking), the bound on it, the
  throughput reward that exceeds the sum of all secondary scores, and the
  coefficients. The component is `Robots`.
* **Exact** (`engine.py` `_solve_components`, `optimiser.py`). `pc` is where the
  component is: scored, asked of CP-SAT, sent to the heuristic, done, or raised.
  CP-SAT is external: it may call an assignment optimal only when no model solution
  has a larger objective, feasible when it satisfies the model, and may give up at
  any moment. Where it leaves nothing the heuristic is ComponentSolver's answer.
  Every `raise` on the way is an action: a coefficient that does not fit, in either
  solver (`Unencodable`); a sum of coefficients that CP-SAT does not accept, the
  status MODEL_INVALID (`Rejected`); and an unknown status, an incumbent that the
  validator refuses or a metric that is no integer (`Faulty`), which nothing in the
  code excludes and the model therefore allows at any time. `SumLimit` stands for
  CP-SAT's own limit on a sum, `IntegerLimit` for the one the code checks.
* **Grants** (`grants.py`). A manager is a record `[tick, waiting, previous,
  grants]`, and each method is an operator on it, so that the persistent manager
  and the tick's clone can live side by side. Where the code asks the heuristic
  whether a group of grants has a safe completion, the model uses the promise of
  ComponentSolver, which Heuristic implements. Loops over robots in a fixed order
  (`_safe_relevant_grants`, `_acquire_grants`) are stated as the unique set the
  loop ends with (`IsRetained`, `IsAcquired`).
* **Engine** (`engine.py`). `Prepare`, `Solve`, `Preview`, `Validate`, then
  `Commit` or `Discard` are the calls of `decide` in order; `stage` is where it is.
  A tick's input is an observation: who is present, stale or at its goal, the
  no-goods of the conflict model (`noGoods`) and what geometry really forbids
  (`unsafe`). The two differ only when an injected builder missed a pair, the case
  the fleet-wide validation exists for. `Solve` may return any valid assignment:
  CP-SAT may stop at any incumbent (`SolvesComponent` of Exact is why nothing else
  comes back). Isolated robots follow the policy.
* **EngineOrder** adds a history variable to Engine: which robots the last tick
  moved while a conflicting one waited.
* **Traffic** is the abstract specification of the whole: robots stand at poses and
  any number moves at once, as long as what a moving robot sweeps is swept by
  nobody else, standing robots included. **Fleet** (`simulator/robot.py`,
  `run_scenario` and the in-memory transport of `simulator/scenario.py`) puts robots
  on routes under Engine: `Drive` applies the latest actions, advances and publishes,
  `Observe` hands the engine the conflicts of where the robots really are, `Deliver`
  ends the engine's tick and gives every robot its action. Geometry is the operator
  `Swept`; in the instance, boxes on a grid.
* **Demo** (`RabbitMQSimulatorTransport.exchange_tick`) is Fleet where a robot may
  time out waiting for the action of a tick and keeps the one before.
* **Service** (`state_store.py`, `service.py`, and what it uses of `transport/`).
  `consumer` and `loop` are the places of the two tasks; each action runs from one
  await to the next. `Receive` stores and suspends at the settlement; `StartTick`
  takes the snapshot, decides and builds the messages without suspending; one
  publication attempt is one step. `TickRaises` is an exception in `decide`, which
  ends `decision_loop`. `run()` ends step by step: `CancelTasks` when it is told to
  stop or has noticed a failed task; then each cancelled task runs once more and ends
  (`ConsumerCancelled`, `DecisionCancelled`: `CancelledError` is no `Exception`, so the
  retries do not catch it), with `pending` the tasks that have not run yet; then
  `Exit`, once `gather` has both. `Halt` is the end of the process, by `Exit` or
  `Crash`, after which an unsettled delivery is back in the queue and a publication
  in flight may or may not have arrived. The decision is any
  assignment that pauses the stale robots (`UnavailablePaused` of Engine, proved).
  `Faults` says which disturbances an instance includes.
* **RabbitTransport** (`transport/rabbitmq.py`). `pc[t]` is the await at which a task
  is suspended: waiting for the connection lock, connecting, sleeping between
  attempts with the lock held, opening its channel, using it, or resting before the
  consumer's loop goes round. `open` and `live` are the connections and channels the
  broker knows, whether or not the transport still does. `Connected` sets the
  connection and forgets both channels without looking at anything again, as the code
  does after its await. `Cancelled` raises at any await; `Close` runs in `__main__`
  after the tasks have been gathered (`orderly`) or, by another caller, without
  waiting for them. `close()` sets its flag and then awaits the closing of one channel
  after the other (`CloseChannel`), of the connection (`CloseConnection`), and forgets
  them (`Forget`); any of these awaits may raise (`CloseRaises`), and a call after that
  returns at once (`CloseAgain`). `closer` is where it is. Messages are left to Service; the channel locks are each taken by
  one task only and are left out.

## What the runs check

| Run | Instance | Properties | States |
|---|---|---|---|
| `Heuristic` | 3 robots, all 4096 no-good sets, all hard assignments, score ties on the monotone ones | `TypeOK`, `RankRespected`, `ResultSound`, `ResultComplete`, `RepairNeverNeeded`, `TrialImplied`, `Implements` | 1.6 million |
| `Exact` | 3 robots, every connected geometry, 5 settings, 3 conditions per robot, 4 hard assignments | `NeverRaises`, `SolvesComponent`, `OptimumLexicographic` | 913 thousand |
| `Engine` | 2 robots under 6 geometries and all conditions for 5 ticks; 3 in merging and splitting components, and with missed pairs, for 3 | `TypeOK`, `LeaseBounded`, `UnavailablePaused`, `DiscardedOnlyByOverlap`, `MoversSafe`, `ProgressOrAlarm`, `NominalDecisionsSafe`, `PreviewAccepts`, `GrantsMatchMoves`, `NonPreemption` | 101 thousand |
| `EngineOrder` | 4 robots: a crossing and an overlap elsewhere | `PriorityNeverReverses`, violated | |
| `Fleet` | 3 robots, 7 sets of routes on a 4 by 3 grid, 10 ticks | `FleetTypeOK`, `MonitorSeesAll`, `ImplementsTraffic`, `EveryExchangeCounts`, `RunCompletes` | 601 |
| `Demo` | 3 robots at a junction, any action lost | `OneNodePerResume`, violated | |
| `RabbitTransport` | both tasks, 3 losses of a connection or a channel | `TypeOK`, `OneConnection`, `ChannelKept`, `NothingLeftOpen`, `PublicationEnds`, `ConsumerResumes` | 103 thousand |
| `RabbitClose` | both tasks, no loss | `ClosedOnReturn`, violated | |
| `ServiceIntake` | 1 robot, 2 timestamps, queue of 2, 3 ticks, redelivery, failed settlement, crash | `QueueOrder`, `NewestStateKept`, `StateReuseBounded` | 791 thousand |
| `ServicePublish` | 2 robots, 2 attempts, 2 runs, ambiguous confirms, crash | `TypeOK`, `IdentityUnique`, `TraceTruthful` | 2.6 million |
| `ServiceLive` | 1 robot, 2 ticks, stop, close, failed settlement, failed decision, ambiguity, crash | `TickCompletes`, `FailureStops` | 300 thousand |
| `ServiceConsumer` | 1 robot | `ConsumesUntilClosed`, violated | |

What the less obvious ones say:

* `ResultComplete`, `RepairNeverNeeded`. Every no-good has two literals, so each
  guess that survives propagation leaves the untouched clauses as they were: a
  search without backtracking is complete for them. That the greedy pass never
  misses a progressing assignment makes the repair pass redundant: `REPAIR` is
  never the source of an answer of `solve`.
* `Implements`. The search with its internal state implements ComponentSolver,
  its termination included.
* `OptimumLexicographic`. An optimum of the one weighted sum is best first by the
  number of robots that move, then by their secondary scores, then by ID rank: the
  reward exceeds everything the scores can add up to, and the scale everything the
  ranks can.
* `NeverRaises`. Scores stay within the bound the reward is computed from, every
  coefficient within the largest one the settings allow, and what satisfies the
  CP-SAT clauses passes the independent validator. So what raises is CP-SAT itself,
  by an answer it should not give (`Faulty`), and nothing the code has computed. It
  holds under two conditions that the code does not check when it starts
  (`SettingsFit`): that the largest coefficient fits the solver's integers, and that as
  many of them as the component has robots fit into what CP-SAT accepts as a sum. The
  second is the stronger one, and is not checked later either: where only it fails,
  optimise raises although the heuristic could have answered.
* `SolvesComponent` is what Engine assumes of the solvers, for every mix of answers,
  time-outs and fallbacks.
* `LeaseBounded`. `grant_maximum_hold_ticks` is not the whole bound: while its
  robot is out of the snapshot a grant is aged by the stale limit only. The bound
  is the sum of both, less one.
* `ProgressOrAlarm`. In every conflicting component somebody moves whenever any
  safe assignment with the stale and arrived robots standing still lets somebody
  move, whatever grants are retained; otherwise, and only then, the alarm is set.
* `NominalDecisionsSafe`, `DiscardedOnlyByOverlap`, `MoversSafe`. On a complete
  conflict graph the fleet-wide override can only hit robots that are paused anyway.
  On an incomplete one it may pause movers, but what it leaves unsafe is exactly an
  overlap of current footprints, and no robot of such a pair is told to move, even
  in the ticks that are discarded and whose decisions are published all the same.
* `PreviewAccepts`. The validation inside `preview_tick` never raises, so no tick
  is lost there; a component with a retained grant is never sent to the fail-safe.
* `GrantsMatchMoves`, `NonPreemption`. After a committed tick, holders and movers
  among the robots in conflict are the same; and a valid grant that fits with the
  older ones of its component is kept, and moves, across merges and splits.
* `ImplementsTraffic`. The refinement of the composition: whatever the robots'
  routes, whoever moves under the engine sweeps ground that nobody else does.
  `MonitorSeesAll` is why it holds although robots fall silent at their goals: what
  the store says of them is still where they are.
* `EveryExchangeCounts`, `RunCompletes`. No tick passes without a move, an alarm or
  everybody at the goal, grants and waiting included, so a run with as many ticks as
  there are nodes ends with all robots at their goals or has raised the alarm.
* `OneConnection`, `ChannelKept`. Two tasks that both find the connection lost make
  one new connection; and what a task that reconnects resets never was an open
  channel of the other's. `NothingLeftOpen`: a task cancelled while it connects or
  opens a channel leaves nothing behind once `close()` has run to its end; of a
  `close()` that raises see the disagreements below. The three hold when
  the tasks have ended before `close()`, as in `__main__`. A caller that closes
  without waiting leaks the connection a suspended connect obtains afterwards
  (`rabbitmq.py:143` is not preceded by another look at the closed flag).
* `PublicationEnds`, `ConsumerResumes`. Nobody waits for ever behind the lock, and
  the consumer is back at its queue after any number of failures.
* `QueueOrder`, `IdentityUnique`. A robot that reads its queue in order never goes
  back to an earlier tick or to a decision on an older state; duplicates left by
  ambiguous confirms are equal; no identity is reused after a restart.
* `NewestStateKept`. Until the first end of the process the newest valid state of a
  robot is in the store or with the broker. After a restart it no longer holds: an
  acknowledged state is gone with the store.
* `StateReuseBounded`. After the last receipt that was accepted for it a robot moves
  in at most the stale timeout's number of ticks. It bounds receipts, not reports: a
  repeated or redelivered copy of the stored state is accepted and counts anew.
* `FailureStops`. Told to stop, or with one task failed, the process ends. A task that
  goes on after it was cancelled would keep `gather` waiting for ever; the mutant
  takes the cancellation for one more failed attempt.

Every property of a passing run has a mutant of the code's model (a dropped guard,
a swapped order, a missing release; the operators marked "Mutant of" in the modules)
under which TLC finds it violated.

Disagreements with the documentation, each shown by a run that finds the stated
property violated:

1. `EngineOrder`. `docs/justification_of_approach.md` 8.2: "Priority changes alone
   do not reverse the order." Any two overlapping footprints in the fleet keep all
   ticks from being committed (`engine.py:547`), so elsewhere a robot that was told
   to move holds no grant and may be told to pause for its rival one tick later.
2. `RabbitClose`. The docstring of `close()` says it closes "channels and the robust
   connection idempotently". It sets its flag before the awaits that do so
   (`transport/rabbitmq.py:309`): when one of them raises the rest is skipped, and
   called again it returns at once, with the connection still open.
3. `ServiceConsumer`. The docstring of `consume_states` says it consumes "until the
   adapter closes"; a settlement that raises ends it, and with it the process.
4. `Demo`. `docs/justification_of_approach.md` says of the simulator "after
   `Resume`, the simulator advances exactly one path node on the next step"; over the
   broker a robot that gets no fresh action in time applies its last one again
   (`simulator/scenario.py:290`), so one Resume may carry it over several nodes.

Without a run of its own: `docs/architecture.md` has a tick record its trace and then
publish, whereas `run_tick` publishes first, since the trace reports the outcome of the
publications. `EndTick` of Service follows the code.

### Bounds

Three robots are the least number with components that merge and split and with a
no-good that is implied by two others; the component algorithms are otherwise
uniform in the number of robots, and the proofs do not bound it.

In `Engine`, two robots run five ticks (`PairTicks`) so that with a lease of 3, a
minimum hold of 2 and a stale limit of 2 a grant can be acquired, refreshed, absent,
returned and expired; three run three (`FleetTicks`): acquire, merge, and the
decision after. `MaxTick` bounds the tick counter; the instance stops there and
nowhere else, and deadlock is checked. `ClearanceTicks` is 1 in all runs, so a grant
is released at the first clear tick past its minimum hold.

In `Exact` the conditions are those of a robot with no claim, with every claim and
with one; the settings are the defaults scaled down, one under which a single bonus
is worth everything, one whose component is too large for CP-SAT, one whose sum of
coefficients may not fit and one whose coefficients may not. `MCSumLimit` is three
times the largest coefficient of the first to the point and `MCIntegerLimit` that of the
fourth, so that an encoding that is off by one violates `NeverRaises`.

In `Fleet` `TickLimit` is 10: no set of routes takes more than eight moves, so a run in
which one robot moves per tick still ends. Four sets of routes are those of
`src/scenarios/` (crossing, blocker, three-way, unresolvable overlap) with a third
robot added; the others are a robot parked in the way, a head-on pair with a third
robot between, and a convoy. Only
the choice among equally valid decisions branches, hence the few states.

In `RabbitTransport` `MaxDrops` is 3: a loss for each task and one more while they
recover. In Service `MaxStamp`, `MaxQueue`, `MaxTick` and `MaxRun` bound timestamps,
the waiting states, the ticks of a run and the runs. Two timestamps give newer,
equal and older; two attempts a retry and a give-up; two runs a reused tick number.

Deadlock is not checked where the system may stop: in Service and RabbitTransport,
whose process may end; in `Heuristic` and `Exact`, which end with their answer; in
`Fleet`, whose run ends.

### Fairness

`Heuristic!Spec` and `FleetSpec` have weak fairness of their next-state relation:
`solve` is sequential code that keeps running, and `run_scenario` over the in-memory
transport is one coroutine that awaits nothing that does not come. `Service!FairSpec`
has weak fairness of each task's steps (the event loop runs every ready task), of
the broker's answers to a settlement or a publication, of time, of `run()` noticing
what it waits for, of a cancelled task running once more, and of the return of
`gather`. That each of these steps ends its task is not fairness but what the
actions do. Nothing is assumed of robots, signals, crashes or
restarts, and nothing about whether the broker's answers are good ones.

`RabbitTransport!Spec` says that awaits end, delays pass and a cancelled task runs
once more (weak fairness), and that a broker that is asked again and again to accept
a connection, or to open a channel, does so at some time (strong fairness of
`Connected` and `Opened`). The latter is what the reconnection loop is written for:
it has no bound, so while the broker cannot be reached a tick hangs in it, and no
liveness is claimed for that case. `Engine!Spec` and `Exact!Spec` have no fairness
and no liveness property; that `decide` is never stuck is the deadlock check of the
`Engine` run, and what its calls choose from is proved never to be empty
(`RetainedTheorem`, `AcquiredTheorem`, `SolutionsTogether`).

## What is proved

Eight modules of proofs, checked by TLAPS, for every value of the constants that
satisfies the named assumptions of the module proved about: the ranges the
configuration enforces, routes and observations of the right shape, and, where a
proof needs it, finitely many robots. Robots are integers, as in the code's sort keys.

**HeuristicProofs.** The inductive invariant `Inv` is needed because none of the result
properties is inductive: the final answer is right because of what is known of
`base` and `trial` on the way. `BaseInv`: an accepted assignment is settled and
extends the hard ones. `SeedInv`, `GuessInv`, `RefutedInv`: every solution that
agrees with the accepted assignment and the guess agrees with the trial, and Resume
is refuted before Pause is tried. `RankInv`: a solution that does not extend `base`
has already lost to it by rank. `RepairInv`: the repair starts only when no solution
progresses. The core lemma is `GraftSolves`: a settled assignment, completed by any
solution outside its domain, is a solution, which is where two literals per no-good
matter. From `Inv` follow `Soundness`, `Completeness`, `RepairIsRedundant`,
`RankTheorem`, `PropagationSound`, and `KeepsPromise`, the safety half of
`Implements`: every step is a step of ComponentSolver or a stutter.

**EngineProofs**, under `GeometryAssumption` (a pair that is unsafe with one robot
paused is unsafe with it moving). `TypeCorrect` rests on `TickInv` (types; inside a tick the
observation is a legal one and every present robot has an action). The others
strengthen it:

* `LeaseTheorem` by `LeaseInv`: the bound for the committed manager and for the
  clone, in terms of both ages of a grant, since an absent robot's acquisition age
  is bounded only through the time it was last seen (`ReconciledKeepsLease`).
* `OverrideTheorem` and `MoversTheorem` by `OverrideInv`. `RaiseUnsafe` uses
  monotonicity: a pair that is unsafe in its current stand is unsafe whatever the two
  do, so both its robots are overridden; hence `OverrideLeavesOverlap`, and no pair
  with a mover survives the override.
* `ObstacleTheorem` by `ObstacleInv`: no retained grant is that of a stale or
  arrived robot (`HardInv`), which makes the two overlay orders agree.
* `NominalTheorem` by `NominalInv`: a violated pair with a mover would lie in one
  component (`SameComponent`), whose solution satisfies its no-goods.

**GrantProofs**, under `FleetAssumption` as well (the fleet is finite). `ProgressTheorem`,
`PreviewTheorem`, `HoldersMoveTheorem` and `NonPreemptionTheorem` are about a tick as a
whole, from the reconciliation of the grants to the acquisition of new ones, and share
one invariant, `GrantInv`. The argument starts with the youngest of the grants that a
component retains: it was accepted together with all the older ones, so they can all
move at once while stale and arrived robots stand still (`RetainedTogether`,
`HardSolvable`). Hence a component with a retained grant is solved under its grants and
never sent to the fail-safe; what it then does is a valid assignment, after the repair
and after an override of other components too (`DecidedTogether`, `OverrideWhole`). At
the commit the holders in conflict are the retained ones (`HeldHard`), who move, and the
decisions themselves show the acquisition pass that everyone else who moves may have a
grant (`MoversMayHold`). For non-pre-emption, a holder that fits the grants older than
itself fits whatever subset of them is retained (`CompletionShrinks`,
`UndisturbedRetained`). `GrantInv` is needed because the properties speak of single stages
and the reasons lie stages before. Induction over the finite fleet is by a smallest
counterexample, from the well-foundedness of the subset order.

The same module proves that the model demands nothing that may not exist: the passes
`_safe_relevant_grants` and `_acquire_grants`, which `Prepare` and `Commit` state by the
equation their result solves, have exactly one result (`RetainedTheorem`,
`AcquiredTheorem`), and the solutions of separate components are parts of one
assignment, as `Solve` and `Preview` have it (`SolutionsTogether`).

**ExactProofs.** `NeverRaisesTheorem`, by `ExactInv`: each bonus lies within its weight
(`ShareBounded`, `UrgencyBounded`, `ClearedBounded`), so a robot's score is at most
`MaximumPerRobot`, the bound the throughput reward rests on (`SecondaryBounded`), and
no coefficient exceeds `MaximumCoefficient` (`CoefficientBounded`) and their sum at most
that times the size (`FitSummable`); under settings for which both fit, only an answer
of CP-SAT's own makes a check fire. `SolvesTheorem`: the CP-SAT model
has exactly the solutions the validator accepts (`ModelSound`), so whichever solver
answered, the answer is a valid assignment, or Pause for everyone when there is none.

The sum is a fold of the library, defined by CHOOSE; `SumUnfolds` shows that its
equation has a solution on every finite set, and from there on elements may be taken
out in any order (`SumTakesOut`) and sums are bounded (`SumBounded`).

**ObjectiveProofs.** `OptimumTheorem`: CP-SAT's optimum is lexicographic, for every
finite component and all settings. Sums of coefficients split
(`SumOfCoefficients`). The secondary
scores of all who move stay below the throughput reward, and the ranks, `0` to
`Size - 1`, sum to less than the utility scale (`RanksOfUpper`, `RanksBelowScale`), so
the order of the weighted sums is that of the parts (`WeightsOrder`). `OptimalInv` adds
that an answer called optimal had the largest objective among the valid ones and that
nothing it was measured by has changed since.

**FleetProofs**, under `ScenarioAssumption`, `SweptAssumption` (the ground of a move
contains the footprints at both its ends) and `SightingAssumption`. It reuses the
engine's invariants: every step of the fleet is a step of the engine or leaves it
alone. `FleetInv` adds that a call of `decide` sees the robots where they stand
(`SightingTrue`; with `SilentAtGoal`, since a robot that has published at its goal is
not heard again), and that once the decisions are out every robot that will move has
its ground to itself until it has moved (`ClearToMove`). The step that carries the
argument is `Deliver`: what the engine published satisfies `MoversSafe`, and a robot
whose action does not arrive stands still, which needs less ground than either
action. From it follow `SeesAllTheorem`; `FleetImplements`, the refinement: `FleetSpec`
implements `Traffic!Spec`, for any fleet, routes and geometry; and `NoCollision`.
`ExchangeTheorem` rests on the engine's progress: a robot short of its goal has been
heard this tick (`EnRouteHeard`), so it moves unless it is in conflict, and then its
component moves somebody or the alarm is raised (`SomebodyMoves`). Whether runs end, the
liveness that follows from it, is left to TLC.

**RabbitProofs.** `OneConnectionTheorem`, `ChannelKeptTheorem` and
`NothingLeftOpenTheorem` by `RabbitInv`, whose `Orderly` speaks of a transport that is
closed only after its tasks have ended: what is open is remembered
(`open \subseteq {connection}`), and while a task holds the lock nothing is open. Hence
a task that connects cannot leave a second connection behind, the channel in use is
the one remembered, and `close()`, when it gets to its end, has closed whatever there
was to close.
`RabbitTypeCorrect` is its first conjunct.

**ServiceProofs**, under `ServiceAssumption`. `ServiceTypeCorrect` by `ServiceInv`
(types, that a stopped process has no trace, and that there are messages only while
they are published).
`IdentityTheorem` and `QueueOrderTheorem` by `OrderInv`: what is queued is of no later
run, tick or state than the process has reached (`QueuedBehind`), and the messages
still to be published are of the present tick, one per robot, and what their robots
have queued is either that very message, after a lost confirmation, or an older
decision (`PendingAhead`). `TraceTheorem` by `TraceInv`: every message dealt with is
queued or counted as failed. `NewestStateTheorem` by `StoreInv`: a delivery that is
being settled is already stored, and in the first run the newest report is stored or
still waiting. `StateReuseTheorem` by `AgeInv`: a state has been used in at most as many
ticks as it has intervals of age, and one more if this interval's tick has started.

Every invariant and every action property of the passing runs is the statement of a
theorem. Model-checked only is liveness (`PublicationEnds`, `ConsumerResumes`,
`RunCompletes`, `TickCompletes`, `FailureStops` and the liveness half of `Implements`),
since TLAPS does not handle it under fairness.

## Not modelled

* **Geometry.** Polygons, buffers and floating point; the properties need only which
  envelopes meet and that they are monotone.
* **CP-SAT.** Its search is external: `Exact` lets it give any answer its status
  allows, and its limit on the sum of an objective's coefficients (roughly half of the
  64-bit range) is the constant `SumLimit`.
* **Conflict model.** The candidate generators, which only save work, and the order in
  which the component search visits robots.
* **Input and output.** Loading scenarios, pacing, summaries and the simulator's
  command line; message encoding; reading the environment; logging; the TCP health
  check.
* **Time.** Durations. A tick takes any number of intervals, and a delay any number of
  steps.

Six hazards in `PROJECT.json` have no property. The order in which waiting ages put
two robots (`grants.py:506`) and the repeated timestamp that refreshes a state
(`state_store.py:105`) contradict no promise that could be checked. A monitor that
has just started knows only the robots it has heard (`service.py:355`), which the
program's documents leave open. A tick that is published in part, because the process
ends or one publication is given up (`service.py:378`), leaves the robots with actions
of two ticks, and nothing is promised of the mixture. The last report of a robot may
be lost or refused over the broker (`simulator/scenario.py:273`), whereas the
composition delivers every report. A solver that uses its whole time limit delays
intake (`service.py:356`), which needs durations.

Two limits of the models matter to a reader. Engine's `decide` returns: of the
defensive checks inside it `PreviewAccepts` and `NeverRaises` say when those of the
preview and of the solvers raise, and the others are not modelled; Service only knows
that `decide` may raise, and what happens then. And `RabbitTransport` names a channel by the
task that opened it and the connection it belongs to, so a channel that is closed by a
protocol error while its connection stays up is not told from one that is open.

## Plan

In order:

1. **Components.** The breadth-first decomposition against `Component`.
2. **A larger engine instance**, with a clearance of more than one tick.
