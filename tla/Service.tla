------------------------------- MODULE Service -------------------------------
(***************************************************************************)
(* CollisionMonitorService (service.py) and its LatestStateStore between   *)
(* the broker's shared state queue and the per-robot action queues.        *)
(*                                                                         *)
(* Two asyncio tasks interleave at their awaits: consume_states, which     *)
(* stores a delivery and then settles it, and decision_loop, which decides *)
(* on a snapshot and then publishes one action per robot, with retries.    *)
(* run() watches both: told to stop, or when one of them fails, it cancels *)
(* them and waits for both to end.  The process may crash anywhere and is  *)
(* restarted; the queues are durable, the store and the counters are not.  *)
(*                                                                         *)
(* Time passes in tick intervals.  What the engine decides is left open,   *)
(* except that a stale robot is paused (Engine, UnavailablePaused).        *)
(***************************************************************************)
EXTENDS Conflicts, SequencesExt

CONSTANTS MaxAttempts,   \* publication_maximum_attempts
          StaleTicks,    \* stale_timeout_seconds in tick intervals
          Faults,        \* which disturbances the instance includes
          MaxStamp,      \* bound on source timestamps
          MaxQueue,      \* bound on the states waiting in the broker
          MaxTick,       \* bound on the ticks of a run
          MaxRun         \* bound on the runs of the process

ASSUME ServiceAssumption ==
    /\ MaxAttempts \in Nat \ {0}
    /\ StaleTicks \in Nat \ {0}
    /\ Faults \subseteq {"stop", "close", "crash", "redelivery", "settlement", "ambiguity",
                       "decision"}
    /\ {MaxStamp, MaxQueue, MaxTick, MaxRun} \subseteq Nat /\ MaxRun > 0
    /\ IsFiniteSet(Robots)

VARIABLES
    queue,      \* the broker's shared state queue
    sent,       \* newest valid timestamp each robot has handed to the broker
    actions,    \* the durable action queue of each robot
    run,        \* run_id: which execution of the process this is
    alive,      \* the process is running
    stopping,   \* stop_event
    closed,     \* the state adapter has been closed
    gathering,  \* run() has cancelled its tasks and waits for them to end
    pending,    \* the tasks that have not run since they were cancelled
    consumer,   \* where consume_states is
    delivery,   \* the delivery it has stored and not settled: at most one
    store,      \* LatestStateStore, by robot
    loop,       \* where decision_loop is
    due,        \* a tick interval has passed since the last tick started
    tick,       \* _tick_sequence
    messages,   \* the actions of this tick, in ID order
    done,       \* how many of them have a publication outcome
    attempt,    \* publication attempts at the next one, this one included
    failures,   \* robots whose publication was given up in this tick
    trace       \* the last trace logged by this run

brokerVars == <<queue, sent, actions>>
processVars == <<run, alive, stopping, closed, gathering, pending>>
consumerVars == <<consumer, delivery, store>>
loopVars == <<loop, due, tick, messages, done, attempt, failures, trace>>
vars == <<brokerVars, processVars, consumerVars, loopVars>>

CONSUMER == "consumer_task"
DECISION == "decision_task"

\* A payload that fails validation carries no usable timestamp.
INVALID == 0
State == [robot : Robots, stamp : 0..MaxStamp]

\* The newest state of a robot, its age and, for the properties, the number of
\* ticks already started when it was accepted.  A robot without one has stamp 0.
Stored == [stamp : 0..MaxStamp, age : 0..StaleTicks, heard : 0..MaxTick]
Unknown == [stamp |-> 0, age |-> 0, heard |-> 0]
Known == {r \in Robots : store[r].stamp > 0}

\* Mutant of Stale: only an age beyond the timeout counts.
StaleAfter(r) == store[r].age > StaleTicks

\* LatestStateStore.snapshot
Stale(r) == store[r].age >= StaleTicks

Message == [run : 1..MaxRun, tick : 1..MaxTick, robot : Robots,
            action : Actions, source : 1..MaxStamp]

ActionMessage(r, n, d) ==
    [run |-> run, tick |-> n, robot |-> r, action |-> d[r], source |-> store[r].stamp]

Trace == [tick : 0..MaxTick, robots : SUBSET Robots, failed : SUBSET Robots]
NoTrace == [tick |-> 0, robots |-> {}, failed |-> {}]

TypeOK ==
    /\ queue \in Seq(State) /\ Len(queue) <= MaxQueue + 1
    /\ sent \in [Robots -> 0..MaxStamp]
    /\ actions \in [Robots -> Seq(Message)]
    /\ run \in 1..MaxRun
    /\ {alive, stopping, closed, gathering, due} \subseteq BOOLEAN
    /\ pending \subseteq {CONSUMER, DECISION}
    /\ consumer \in {"receiving", "settling", "ended", "failed", "cancelled"}
    /\ delivery \in Seq(State) /\ Len(delivery) = (IF consumer = "settling" THEN 1 ELSE 0)
    /\ store \in [Robots -> Stored]
    /\ loop \in {"sleeping", "publishing", "ended", "failed", "cancelled"}
    /\ tick \in 0..MaxTick
    /\ messages \in Seq(Message)
    /\ done \in 0..Len(messages)
    /\ attempt \in 1..MaxAttempts
    /\ failures \subseteq Robots
    /\ trace \in Trace

Init ==
    /\ queue = <<>>
    /\ sent = [r \in Robots |-> 0]
    /\ actions = [r \in Robots |-> <<>>]
    /\ run = 1
    /\ alive = TRUE
    /\ stopping = FALSE
    /\ closed = FALSE
    /\ gathering = FALSE
    /\ pending = {}
    /\ consumer = "receiving"
    /\ delivery = <<>>
    /\ store = [r \in Robots |-> Unknown]
    /\ loop = "sleeping"
    /\ due = TRUE
    /\ tick = 0
    /\ messages = <<>>
    /\ done = 0
    /\ attempt = 1
    /\ failures = {}
    /\ trace = NoTrace
-----------------------------------------------------------------------------
(* The environment.                                                        *)

\* A robot reports: a newer state, a corrected or repeated one, a late one, garbage.
Send(s) ==
    /\ ~closed
    /\ Len(queue) < MaxQueue
    /\ queue' = Append(queue, s)
    /\ sent' = [sent EXCEPT ![s.robot] = IF s.stamp > @ THEN s.stamp ELSE @]
    /\ UNCHANGED <<actions, processVars, consumerVars, loopVars>>

\* One tick interval passes; ages count up to the stale timeout.
Elapse ==
    /\ alive
    /\ due' = TRUE
    /\ store' = [r \in Robots |->
         IF r \in Known /\ ~Stale(r) THEN [store[r] EXCEPT !.age = @ + 1] ELSE store[r]]
    /\ UNCHANGED <<brokerVars, processVars, consumer, delivery,
                   loop, tick, messages, done, attempt, failures, trace>>

\* SIGINT or SIGTERM.
RequestStop ==
    /\ alive /\ "stop" \in Faults
    /\ stopping' = TRUE
    /\ UNCHANGED <<brokerVars, run, alive, closed, gathering, pending, consumerVars, loopVars>>

\* InMemoryStateConsumer.close
Close ==
    /\ alive /\ "close" \in Faults
    /\ closed' = TRUE
    /\ UNCHANGED <<brokerVars, run, alive, stopping, gathering, pending, consumerVars, loopVars>>
-----------------------------------------------------------------------------
(* consume_states.                                                         *)

\* A task of a running process, unless it is to find that it has been cancelled.
Runs(t) == alive /\ t \notin pending

\* Mutant of Updated: the first state of a robot is never replaced.
UpdatedOnce(s) ==
    IF s.stamp = INVALID \/ s.robot \in Known THEN store
    ELSE [store EXCEPT ![s.robot] = [stamp |-> s.stamp, age |-> 0, heard |-> tick]]

\* Mutant of Updated: whatever arrives last replaces the stored state.
UpdatedAlways(s) ==
    IF s.stamp = INVALID THEN store
    ELSE [store EXCEPT ![s.robot] = [stamp |-> s.stamp, age |-> 0, heard |-> tick]]

\* LatestStateStore.update: an older state is refused and refreshes nothing.
Updated(s) ==
    IF s.stamp = INVALID \/ s.stamp < store[s.robot].stamp THEN store
    ELSE [store EXCEPT ![s.robot] = [stamp |-> s.stamp, age |-> 0, heard |-> tick]]

\* The adapter yields a delivery and ingest_payload runs without suspending.
Receive ==
    /\ Runs(CONSUMER) /\ consumer = "receiving" /\ queue # <<>>
    /\ store' = Updated(Head(queue))
    /\ delivery' = <<Head(queue)>>
    /\ queue' = Tail(queue)
    /\ consumer' = "settling"
    /\ UNCHANGED <<sent, actions, processVars, loopVars>>

\* acknowledge, or reject without requeue: either way the broker is told to forget
\* it.  The broker may never hear of it and deliver the state again.
Settle(heard) ==
    /\ Runs(CONSUMER) /\ consumer = "settling"
    /\ heard \/ "redelivery" \in Faults
    /\ queue' = IF heard THEN queue ELSE delivery \o queue
    /\ delivery' = <<>>
    /\ consumer' = "receiving"
    /\ UNCHANGED <<sent, actions, processVars, store, loopVars>>

\* The settlement raises.  Nothing in consume_states catches it: the task is over.
SettleRaises ==
    /\ Runs(CONSUMER) /\ consumer = "settling" /\ "settlement" \in Faults
    /\ queue' = delivery \o queue
    /\ delivery' = <<>>
    /\ consumer' = "failed"
    /\ UNCHANGED <<sent, actions, processVars, store, loopVars>>

\* A closed adapter ends the iteration once everything queued has been consumed.
ConsumerEnds ==
    /\ Runs(CONSUMER) /\ consumer = "receiving" /\ closed /\ queue = <<>>
    /\ consumer' = "ended"
    /\ UNCHANGED <<brokerVars, processVars, delivery, store, loopVars>>
-----------------------------------------------------------------------------
(* decision_loop and run_tick.                                             *)

\* A set of robots in ID order.
IdOrder(S) ==
    {ids \in [1..Cardinality(S) -> S] : \A i, j \in 1..Cardinality(S) : i < j => ids[i] < ids[j]}

\* Snapshot, decision and messages: no await between them, so one coherent view.
StartTick(d) ==
    /\ Runs(DECISION) /\ loop = "sleeping" /\ due /\ ~stopping
    /\ tick < MaxTick
    /\ \A r \in Known : Stale(r) => d[r] = PAUSE
    /\ \E ids \in IdOrder(Known) :
         messages' = [i \in 1..Cardinality(Known) |-> ActionMessage(ids[i], tick + 1, d)]
    /\ tick' = tick + 1
    /\ due' = FALSE
    /\ done' = 0
    /\ attempt' = 1
    /\ failures' = {}
    /\ loop' = "publishing"
    /\ UNCHANGED <<brokerVars, processVars, consumerVars, trace>>

\* decide raises, and nothing in run_tick or decision_loop catches it.
TickRaises ==
    /\ Runs(DECISION) /\ loop = "sleeping" /\ due /\ ~stopping
    /\ tick < MaxTick /\ "decision" \in Faults
    /\ tick' = tick + 1
    /\ due' = FALSE
    /\ loop' = "failed"
    /\ UNCHANGED <<brokerVars, processVars, consumerVars, messages, done, attempt, failures, trace>>

\* decision_loop, awake again, finds the stop event set.
LoopEnds ==
    /\ Runs(DECISION) /\ loop = "sleeping" /\ due /\ stopping
    /\ loop' = "ended"
    /\ UNCHANGED <<brokerVars, processVars, consumerVars, due, tick, messages, done, attempt,
                   failures, trace>>

Delivered(m) == [actions EXCEPT ![m.robot] = Append(@, m)]

Underway == loop = "publishing" /\ done < Len(messages)
Publishing == Runs(DECISION) /\ Underway
InFlight == messages[done + 1]

\* The outcome of one action is known: on to the next.
NextAction ==
    /\ done' = done + 1
    /\ attempt' = 1

\* publish_action returns: the broker has confirmed.
PublishConfirmed ==
    /\ Publishing
    /\ actions' = Delivered(InFlight)
    /\ NextAction
    /\ UNCHANGED <<queue, sent, processVars, consumerVars,
                   loop, due, tick, messages, failures, trace>>

PublishFrame == UNCHANGED <<queue, sent, processVars, consumerVars,
                            loop, due, tick, messages, trace>>

\* Mutant of PublishRaises: one attempt too many.
PublishRaisesLate(reached) ==
    /\ Publishing
    /\ actions' = IF reached THEN Delivered(InFlight) ELSE actions
    /\ \/ attempt <= MaxAttempts /\ attempt' = attempt + 1 /\ UNCHANGED <<done, failures>>
       \/ /\ attempt > MaxAttempts
          /\ failures' = failures \cup {InFlight.robot}
          /\ NextAction
    /\ PublishFrame

\* Mutant of PublishRaises: after the last attempt the count starts over.
PublishRaisesForever(reached) ==
    /\ Publishing
    /\ ~reached
    /\ attempt' = IF attempt < MaxAttempts THEN attempt + 1 ELSE 1
    /\ UNCHANGED <<actions, done, failures>>
    /\ PublishFrame

\* Mutant of PublishRaises: giving up is not reported.
PublishRaisesQuietly(reached) ==
    /\ Publishing
    /\ actions' = IF reached THEN Delivered(InFlight) ELSE actions
    /\ UNCHANGED failures
    /\ \/ attempt < MaxAttempts /\ attempt' = attempt + 1 /\ UNCHANGED done
       \/ attempt = MaxAttempts /\ NextAction
    /\ PublishFrame

\* publish_action raises, and the action may have reached the queue all the same.
PublishRaises(reached) ==
    /\ Publishing
    /\ actions' = IF reached THEN Delivered(InFlight) ELSE actions
    /\ \/ attempt < MaxAttempts /\ attempt' = attempt + 1 /\ UNCHANGED <<done, failures>>
       \/ /\ attempt = MaxAttempts
          /\ failures' = failures \cup {InFlight.robot}
          /\ NextAction
    /\ PublishFrame

\* The trace is built and logged once every publication has an outcome.  There is no
\* sleep after it when the stop event is set.
EndTick ==
    /\ Runs(DECISION) /\ loop = "publishing" /\ done = Len(messages)
    /\ trace' = [tick |-> tick, robots |-> {m.robot : m \in ToSet(messages)},
                 failed |-> failures]
    /\ loop' = IF stopping THEN "ended" ELSE "sleeping"
    /\ messages' = <<>>
    /\ done' = 0
    /\ UNCHANGED <<brokerVars, processVars, consumerVars,
                   due, tick, attempt, failures>>
-----------------------------------------------------------------------------
(* run() and the process.                                                  *)

\* The tasks that have not ended in one way or another.
Unfinished ==
    {t \in {CONSUMER, DECISION} :
        IF t = CONSUMER THEN consumer \in {"receiving", "settling"}
                        ELSE loop \in {"sleeping", "publishing"}}


\* run() is told to stop, or finds that one of its tasks has failed.
Noticed == stopping \/ consumer = "failed" \/ loop = "failed"

\* Its finally clause: every task that has not ended is cancelled, once.
CancelTasks ==
    /\ alive /\ ~gathering
    /\ Noticed
    /\ gathering' = TRUE
    /\ pending' = Unfinished
    /\ UNCHANGED <<brokerVars, run, alive, stopping, closed, consumerVars, loopVars>>

\* CancelledError ends consume_states at its await.  What is unsettled will go back to
\* the queue when the channel is closed.
ConsumerCancelled ==
    /\ alive /\ CONSUMER \in pending
    /\ pending' = pending \ {CONSUMER}
    /\ consumer' = "cancelled"
    /\ queue' = delivery \o queue
    /\ delivery' = <<>>
    /\ UNCHANGED <<sent, actions, run, alive, stopping, closed, gathering, store, loopVars>>

\* A publication that is abandoned may or may not have reached the broker.
Abandoned == UNCHANGED actions \/ (Underway /\ actions' = Delivered(InFlight))

\* Mutant of DecisionCancelled: the retries take it for one more failure.
DecisionCancelledCaught ==
    /\ alive /\ DECISION \in pending
    /\ pending' = pending \ {DECISION}
    /\ IF Underway /\ attempt < MaxAttempts
       THEN attempt' = attempt + 1 /\ UNCHANGED <<loop, messages, done>>
       ELSE loop' = "cancelled" /\ messages' = <<>> /\ done' = 0 /\ UNCHANGED attempt
    /\ Abandoned
    /\ UNCHANGED <<queue, sent, run, alive, stopping, closed, gathering, consumerVars, due, tick,
                   failures, trace>>

\* CancelledError ends decision_loop, be it between two ticks, in a publication or in
\* the delay before the next attempt: the retries catch Exception, which it is not.
DecisionCancelled ==
    /\ alive /\ DECISION \in pending
    /\ pending' = pending \ {DECISION}
    /\ loop' = "cancelled"
    /\ Abandoned
    /\ messages' = <<>>
    /\ done' = 0
    /\ UNCHANGED <<queue, sent, run, alive, stopping, closed, gathering, consumerVars, due, tick,
                   attempt, failures, trace>>

\* The process ends: its tasks are gone and an unsettled delivery goes back.
Halt ==
    /\ alive
    /\ alive' = FALSE
    /\ stopping' = FALSE
    /\ closed' = FALSE
    /\ gathering' = FALSE
    /\ pending' = {}
    /\ queue' = delivery \o queue
    /\ Abandoned
    /\ consumer' = "receiving"
    /\ delivery' = <<>>
    /\ store' = [r \in Robots |-> Unknown]
    /\ loop' = "sleeping"
    /\ due' = TRUE
    /\ tick' = 0
    /\ messages' = <<>>
    /\ done' = 0
    /\ attempt' = 1
    /\ failures' = {}
    /\ trace' = NoTrace
    /\ UNCHANGED <<sent, run>>

\* gather() returns when both tasks have ended: the transport is closed, the process ends.
Exit == gathering /\ Unfinished = {} /\ Halt

Crash == "crash" \in Faults /\ Halt

\* Mutant of Restart: the run identity survives the restart.
RestartSameRun ==
    /\ ~alive
    /\ alive' = TRUE
    /\ UNCHANGED <<brokerVars, run, stopping, closed, gathering, pending, consumerVars, loopVars>>

\* The container is started again, with a new run_id.
Restart ==
    /\ ~alive /\ run < MaxRun
    /\ alive' = TRUE
    /\ run' = run + 1
    /\ UNCHANGED <<brokerVars, stopping, closed, gathering, pending, consumerVars, loopVars>>

PublishStep ==
    \/ PublishConfirmed
    \/ \E reached \in {FALSE} \cup ({TRUE} \cap {"ambiguity" \in Faults}) : PublishRaises(reached)
SettleStep == (\E heard \in BOOLEAN : Settle(heard)) \/ SettleRaises
TickStep == \E d \in Assignment : StartTick(d)

Next ==
    \/ \E s \in State : Send(s)
    \/ Elapse
    \/ RequestStop
    \/ Close
    \/ Receive
    \/ SettleStep
    \/ ConsumerEnds
    \/ TickStep
    \/ TickRaises
    \/ LoopEnds
    \/ PublishStep
    \/ EndTick
    \/ CancelTasks
    \/ ConsumerCancelled
    \/ DecisionCancelled
    \/ Exit
    \/ Crash
    \/ Restart

Spec == Init /\ [][Next]_vars

\* The event loop runs every ready task, the broker answers every call, and time
\* passes.  Robots need not report, and nobody need crash, stop or restart.
Fairness ==
    /\ WF_vars(Elapse)
    /\ WF_vars(Receive)
    /\ WF_vars(SettleStep)
    /\ WF_vars(TickStep)
    /\ WF_vars(PublishStep)
    /\ WF_vars(EndTick)
    /\ WF_vars(CancelTasks)
    /\ WF_vars(ConsumerCancelled)
    /\ WF_vars(DecisionCancelled)
    /\ WF_vars(Exit)

FairSpec == Spec /\ Fairness
-----------------------------------------------------------------------------
\* Idempotency: run_id, robot and tick_id identify an action.  Copies that ambiguous
\* confirms leave in a queue are equal, and no restart reuses an identity.
IdentityUnique ==
    \A r \in Robots : \A i, j \in DOMAIN actions[r] :
        LET a == actions[r][i]
            b == actions[r][j]
        IN a.run = b.run /\ a.tick = b.tick => a = b

\* A robot that applies its queue in order never goes back: neither to an earlier
\* run or tick nor, within a run, to a decision taken on an older state of it.
QueueOrder ==
    \A r \in Robots : \A i, j \in DOMAIN actions[r] :
        LET a == actions[r][i]
            b == actions[r][j]
        IN i < j => \/ a.run < b.run
                    \/ a.run = b.run /\ a.tick <= b.tick /\ a.source <= b.source

\* The logged trace can be believed: a robot of the tick it does not report as
\* failed has the action of that tick in its queue.
TraceTruthful ==
    \A r \in trace.robots \ trace.failed : \E m \in ToSet(actions[r]) :
        m.run = run /\ m.tick = trace.tick

\* Until the process first ends, the newest state of every robot is stored or still
\* with the broker, whatever was redelivered, late, invalid or half settled.
NewestStateKept ==
    run = 1 /\ alive => \A r \in Robots :
        \/ sent[r] <= store[r].stamp
        \/ [robot |-> r, stamp |-> sent[r]] \in ToSet(delivery \o queue)

\* A robot moves in at most StaleTicks ticks after the last receipt that was accepted
\* for it, and is paused from then on.  A receipt that is refused, late or invalid,
\* extends nothing; one that is accepted counts anew, a repeated or redelivered copy of
\* the state that is stored included.
StateReuseBounded ==
    [][tick' = tick + 1 => \A m \in ToSet(messages') :
        m.action = RESUME => tick' - store[m.robot].heard <= StaleTicks]_vars

\* Every tick ends, however the broker answers: retries are bounded.
TickCompletes == loop = "publishing" ~> loop # "publishing"

\* When either task fails, or on a request to stop, the process ends: each task that is
\* still at work, consuming, publishing or waiting to try again, ends where it was
\* cancelled, and none goes on deciding on states that are no longer refreshed.
FailureStops == alive /\ Noticed ~> ~alive
-----------------------------------------------------------------------------
\* consume_states, by its docstring, consumes until the adapter closes.
ConsumesUntilClosed == alive /\ consumer \in {"ended", "failed"} => closed
=============================================================================
