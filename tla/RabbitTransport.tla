--------------------------- MODULE RabbitTransport ---------------------------
(***************************************************************************)
(* Connections and channels of RabbitMQTransport (transport/rabbitmq.py):  *)
(* one connection and two channels shared by the task that consumes states *)
(* and the one that publishes actions, both reconnecting on their own,     *)
(* until __main__ has cancelled them and closes the transport, or until a  *)
(* caller that does not wait for them (`~orderly`) does.                   *)
(*                                                                         *)
(* An action runs from one await to the next.  Messages, queues and delays *)
(* are left out.  A channel is named by its task and connection.  Each     *)
(* channel lock is taken by one task only and is not kept.  The broker and *)
(* aio_pika are external: Drop, and what an await may answer.              *)
(***************************************************************************)
EXTENDS Integers

CONSTANT MaxDrops   \* bound on connections and channels lost, for model checking

ASSUME DropsAssumption == MaxDrops \in Nat

CONSUMER == "consumer"
PUBLISHER == "publisher"
Tasks == {CONSUMER, PUBLISHER}
NONE == 0      \* no connection, no channel
FREE == "free"

VARIABLES
    connection,  \* self._connection
    channel,     \* self._consumer_channel, self._publisher_channel
    lock,        \* holder of self._connection_lock
    closed,      \* self._closed
    pc,          \* the await each task is suspended at
    local,       \* the connection it works on there
    open,        \* connections that are not closed, known or not
    live,        \* channels that are not closed
    made,        \* connections made so far
    orderly,     \* close() is called when both tasks have ended
    stopping,    \* run() is cancelling its tasks
    closer,      \* progress of close(): what it closes next, or how it ended
    doomed,      \* the channels it set out to close
    drops

taskVars == <<connection, channel, lock, pc, local>>
brokerVars == <<open, live, made, drops>>
stopVars == <<orderly, closed, stopping, closer, doomed>>
vars == <<taskVars, brokerVars, stopVars>>

\* "idle": between publications, or about to go round the consumer's loop;
\* "using": publishing, or iterating over the queue; "resting": the consumer's delay.
Points == {"idle", "waiting", "connecting", "sleeping", "opening", "using", "resting", "ended"}

\* The types, and whose task holds the lock: the one that is connecting.
TypeOK ==
    /\ made \in Nat
    /\ connection \in 0..made
    /\ channel \in [Tasks -> 0..made]
    /\ lock \in Tasks \cup {FREE}
    /\ orderly \in BOOLEAN /\ closed \in BOOLEAN /\ stopping \in BOOLEAN
    /\ pc \in [Tasks -> Points]
    /\ \A t \in Tasks : lock = t <=> pc[t] \in {"connecting", "sleeping"}
    /\ local \in [Tasks -> 0..made]
    /\ open \subseteq 1..made
    /\ live \subseteq Tasks \X open
    /\ closer \in Tasks \cup {"waiting", "connection", "forget", "done", "failed", "again"}
    /\ doomed \in [Tasks -> 0..made]
    /\ drops \in 0..MaxDrops

Init ==
    /\ connection = NONE
    /\ channel = [t \in Tasks |-> NONE]
    /\ lock = FREE
    /\ closed = FALSE
    /\ pc = [t \in Tasks |-> "idle"]
    /\ local = [t \in Tasks |-> NONE]
    /\ open = {}
    /\ live = {}
    /\ made = 0
    /\ orderly \in BOOLEAN
    /\ stopping = FALSE
    /\ closer = "waiting"
    /\ doomed = [t \in Tasks |-> NONE]
    /\ drops = 0
-----------------------------------------------------------------------------
Goto(t, point, c) ==
    /\ pc' = [pc EXCEPT ![t] = point]
    /\ local' = [local EXCEPT ![t] = c]

\* Mutant of Interrupted: nothing but a closed adapter should end the consumer.
InterruptedForGood ==
    Goto(CONSUMER, "ended", NONE) /\ UNCHANGED <<connection, channel>>

\* Mutant of Interrupted: the connection is forgotten whether it is closed or not.
InterruptedForgetting ==
    IF closed
    THEN Goto(CONSUMER, "ended", NONE) /\ UNCHANGED <<connection, channel>>
    ELSE /\ Goto(CONSUMER, "resting", NONE)
         /\ connection' = NONE
         /\ channel' = [t \in Tasks |-> NONE]

\* The except clause of receive_states: forget the channel, and a closed connection.
Interrupted ==
    IF closed
    THEN Goto(CONSUMER, "ended", NONE) /\ UNCHANGED <<connection, channel>>
    ELSE /\ Goto(CONSUMER, "resting", NONE)
         /\ IF connection # NONE /\ connection \notin open
            THEN connection' = NONE /\ channel' = [t \in Tasks |-> NONE]
            ELSE channel' = [channel EXCEPT ![CONSUMER] = NONE] /\ UNCHANGED connection

\* An exception ends the publication, and is caught by the consumer.
Raise(t) ==
    IF t = CONSUMER THEN Interrupted
    ELSE Goto(PUBLISHER, "idle", NONE) /\ UNCHANGED <<connection, channel>>

Usable(c) == c # NONE /\ c \in open

\* publish_action and the loop of receive_states, up to their first await: use the
\* task's channel, or the connection, or get in line for making one.
Start(t) ==
    /\ pc[t] = "idle"
    /\ ~(t = CONSUMER /\ closed)
    /\ \/ /\ <<t, channel[t]>> \in live
          /\ Goto(t, "using", channel[t])
          /\ UNCHANGED <<connection, channel, lock>>
       \/ /\ <<t, channel[t]>> \notin live
          /\ \/ closed /\ Raise(t) /\ UNCHANGED lock
             \/ /\ ~closed /\ Usable(connection)
                /\ Goto(t, "opening", connection)
                /\ UNCHANGED <<connection, channel, lock>>
             \/ /\ ~closed /\ ~Usable(connection) /\ lock = FREE
                /\ Goto(t, "connecting", NONE)
                /\ lock' = t
                /\ UNCHANGED <<connection, channel>>
             \/ /\ ~closed /\ ~Usable(connection) /\ lock # FREE
                /\ Goto(t, "waiting", NONE)
                /\ UNCHANGED <<connection, channel, lock>>
    /\ UNCHANGED <<brokerVars, stopVars>>

\* Mutant of Awake: the connection is not looked at again under the lock.
AwakeBlind(t) ==
    /\ pc[t] = "waiting" /\ lock = FREE
    /\ Goto(t, "connecting", NONE) /\ lock' = t
    /\ UNCHANGED <<connection, channel, brokerVars, stopVars>>

\* The lock is obtained: the other task may have connected meanwhile.
Awake(t) ==
    /\ pc[t] = "waiting" /\ lock = FREE
    /\ \/ /\ Usable(connection)
          /\ Goto(t, "opening", connection)
          /\ UNCHANGED <<connection, channel, lock>>
       \/ /\ ~Usable(connection) /\ ~closed
          /\ Goto(t, "connecting", NONE)
          /\ lock' = t
          /\ UNCHANGED <<connection, channel>>
       \/ /\ ~Usable(connection) /\ closed
          /\ Raise(t)
          /\ UNCHANGED lock
    /\ UNCHANGED <<brokerVars, stopVars>>

\* Mutant of Connected: the lock is kept.
ConnectedLocked(t) ==
    /\ pc[t] = "connecting"
    /\ made' = made + 1
    /\ open' = open \cup {made'}
    /\ connection' = made'
    /\ channel' = [u \in Tasks |-> NONE]
    /\ Goto(t, "opening", made')
    /\ UNCHANGED <<lock, live, drops, stopVars>>

\* Mutant of Connected: the connection is remembered with its first channel only.
ConnectedUnremembered(t) ==
    /\ pc[t] = "connecting"
    /\ made' = made + 1
    /\ open' = open \cup {made'}
    /\ channel' = [u \in Tasks |-> NONE]
    /\ lock' = FREE
    /\ Goto(t, "opening", made')
    /\ UNCHANGED <<connection, live, drops, stopVars>>

\* connect_factory returned, in time or after all: nothing is checked again.
Connected(t) ==
    /\ pc[t] = "connecting"
    /\ made' = made + 1
    /\ open' = open \cup {made'}
    /\ connection' = made'
    /\ channel' = [u \in Tasks |-> NONE]
    /\ lock' = FREE
    /\ Goto(t, "opening", made')
    /\ UNCHANGED <<live, drops, stopVars>>

\* connect_factory raised: the delay of _connect_with_backoff, with the lock held.
ConnectFails(t) ==
    /\ pc[t] = "connecting"
    /\ Goto(t, "sleeping", NONE)
    /\ UNCHANGED <<connection, channel, lock, brokerVars, stopVars>>

Slept(t) ==
    /\ pc[t] = "sleeping"
    /\ IF closed
       THEN Raise(t) /\ lock' = FREE
       ELSE Goto(t, "connecting", NONE) /\ UNCHANGED <<connection, channel, lock>>
    /\ UNCHANGED <<brokerVars, stopVars>>

\* The channel is open and, for the consumer, its queue declared and bound.
Opened(t) ==
    /\ pc[t] = "opening" /\ local[t] \in open
    /\ live' = live \cup {<<t, local[t]>>}
    /\ channel' = [channel EXCEPT ![t] = local[t]]
    /\ Goto(t, "using", local[t])
    /\ UNCHANGED <<connection, lock, open, made, drops, stopVars>>

\* Any await on a channel may raise, whether or not the channel survives it.
Fails(t) ==
    /\ pc[t] \in {"opening", "using"}
    /\ Raise(t)
    /\ UNCHANGED <<lock, brokerVars, stopVars>>

\* The publication is confirmed or refused; the iterator of the queue ends.
Finished(t) ==
    /\ pc[t] = "using" /\ <<t, local[t]>> \in live
    /\ Goto(t, "idle", NONE)
    /\ UNCHANGED <<connection, channel, lock, brokerVars, stopVars>>

\* An iteration may last for ever, but not on a channel that is gone.
Broken == <<CONSUMER, local[CONSUMER]>> \notin live /\ Fails(CONSUMER)

Rested ==
    /\ pc[CONSUMER] = "resting"
    /\ Goto(CONSUMER, "idle", NONE)
    /\ UNCHANGED <<connection, channel, lock, brokerVars, stopVars>>

\* The loop of receive_states ends.
Leave ==
    /\ pc[CONSUMER] = "idle" /\ closed
    /\ Goto(CONSUMER, "ended", NONE)
    /\ UNCHANGED <<connection, channel, lock, brokerVars, stopVars>>

Step(t) ==
    \/ Start(t) \/ Awake(t) \/ Connected(t) \/ ConnectFails(t) \/ Slept(t)
    \/ Opened(t) \/ Fails(t) \/ Finished(t)
-----------------------------------------------------------------------------
\* The broker closes a connection, with its channels, or a channel alone.
DropConnection(c) ==
    /\ drops < MaxDrops
    /\ c \in open
    /\ open' = open \ {c}
    /\ live' = {p \in live : p[2] # c}
    /\ drops' = drops + 1
    /\ UNCHANGED <<taskVars, made, stopVars>>

DropChannel(t) ==
    /\ drops < MaxDrops
    /\ \E p \in live : p[1] = t /\ live' = live \ {p}
    /\ drops' = drops + 1
    /\ UNCHANGED <<taskVars, open, made, stopVars>>

\* run() ends, for whatever reason.
Stop ==
    /\ ~stopping
    /\ stopping' = TRUE
    /\ UNCHANGED <<taskVars, brokerVars, orderly, closed, closer, doomed>>

\* CancelledError is raised at the await the task is suspended at.
Cancelled(t) ==
    /\ stopping /\ pc[t] # "ended"
    /\ Goto(t, "ended", NONE)
    /\ lock' = IF lock = t THEN FREE ELSE lock
    /\ UNCHANGED <<connection, channel, brokerVars, stopVars>>

\* close(), of which __main__ makes use once run() has gathered its tasks.
Close ==
    /\ closer = "waiting"
    /\ orderly => stopping /\ \A t \in Tasks : pc[t] = "ended"
    /\ closed' = TRUE
    /\ doomed' = channel
    /\ closer' = CONSUMER
    /\ UNCHANGED <<taskVars, brokerVars, orderly, stopping>>

\* One channel after the other, then the connection, each unless it is closed already.
CloseChannel(t) ==
    /\ closer = t
    /\ live' = live \ {<<t, doomed[t]>>}
    /\ closer' = IF t = CONSUMER THEN PUBLISHER ELSE "connection"
    /\ UNCHANGED <<taskVars, open, made, drops, orderly, closed, stopping, doomed>>

CloseConnection ==
    /\ closer = "connection"
    /\ open' = open \ {connection}
    /\ live' = {p \in live : p[2] # connection}
    /\ closer' = "forget"
    /\ UNCHANGED <<taskVars, made, drops, orderly, closed, stopping, doomed>>

Forget ==
    /\ closer = "forget"
    /\ connection' = NONE
    /\ channel' = [t \in Tasks |-> NONE]
    /\ closer' = "done"
    /\ UNCHANGED <<lock, pc, local, brokerVars, orderly, closed, stopping, doomed>>

\* Any of these awaits may raise, and close() with it: the rest stays as it is.
CloseRaises ==
    /\ \/ closer \in Tasks /\ <<closer, doomed[closer]>> \in live
       \/ closer = "connection" /\ connection \in open
    /\ closer' = "failed"
    /\ UNCHANGED <<taskVars, brokerVars, orderly, closed, stopping, doomed>>

\* Called again after that, close() finds the transport closed and returns at once.
CloseAgain ==
    /\ closer = "failed"
    /\ closer' = "again"
    /\ UNCHANGED <<taskVars, brokerVars, orderly, closed, stopping, doomed>>

Closing == (\E t \in Tasks : CloseChannel(t)) \/ CloseConnection \/ Forget \/ CloseRaises

Stopping == Stop \/ (\E t \in Tasks : Cancelled(t)) \/ Close \/ Closing \/ CloseAgain

Next ==
    \/ \E t \in Tasks : Step(t) \/ DropChannel(t)
    \/ Rested \/ Leave
    \/ \E c \in open : DropConnection(c)
    \/ Stopping

\* Awaits end, delays pass, and a broker asked again and again to accept a connection
\* and to open a channel does so in the end; a cancelled task is run once more.
Fairness ==
    /\ \A t \in Tasks :
        /\ WF_vars(Awake(t)) /\ WF_vars(Slept(t)) /\ WF_vars(Cancelled(t))
        /\ WF_vars(Connected(t) \/ ConnectFails(t)) /\ SF_vars(Connected(t))
        /\ WF_vars(Opened(t) \/ Fails(t)) /\ SF_vars(Opened(t))
    /\ WF_vars(Fails(PUBLISHER) \/ Finished(PUBLISHER))
    /\ WF_vars(Broken) /\ WF_vars(Start(CONSUMER)) /\ WF_vars(Rested) /\ WF_vars(Leave)
    /\ WF_vars(Close) /\ WF_vars(Closing)

Spec == Init /\ [][Next]_vars /\ Fairness
-----------------------------------------------------------------------------
\* Two tasks reconnect on their own and still never make two connections: one that is
\* open is the one the transport knows, so it is used by both and closed in the end.
OneConnection == orderly => open \subseteq {connection}

\* A task's open channel is not taken from it while it works on it: whatever the other
\* task resets belongs to a connection that is gone.
ChannelKept ==
    orderly => \A t \in Tasks :
        pc[t] = "using" /\ <<t, local[t]>> \in live => channel[t] = local[t]

\* When close() gets to its end nothing is left open, wherever the tasks were cancelled
\* before and whatever the broker dropped meanwhile.  Of a close() that raises only this
\* is certain: what it leaves open is known to the transport (OneConnection).
NothingLeftOpen == orderly /\ closer = "done" => open = {} /\ live = {}

\* A publication ends, confirmed or not, also when it waits for the consumer to connect
\* and when the transport is closed under it.
PublicationEnds == pc[PUBLISHER] # "idle" ~> pc[PUBLISHER] \in {"idle", "ended"}

\* Whatever fails, however often, the consumer is back at its queue in the end.
ConsumerResumes == []<>(pc[CONSUMER] = "using" \/ stopping \/ closed)
-----------------------------------------------------------------------------
\* close(), by its docstring, closes channels and connection idempotently: when a call
\* of it has returned they are closed, be it the first or one after a call that raised.
ClosedOnReturn == orderly /\ closer \in {"done", "again"} => open = {} /\ live = {}
=============================================================================
