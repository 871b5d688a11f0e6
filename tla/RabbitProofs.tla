---------------------------- MODULE RabbitProofs ----------------------------
(***************************************************************************)
(* Theorems about the connections of RabbitMQTransport, for any number of  *)
(* losses.  While a task holds the lock nothing is open, so what it makes  *)
(* is the only connection; and a connection that is open is remembered, so *)
(* neither task takes a channel from the other and close() finds it.  An   *)
(* await of close() may raise: then what is left open is still remembered. *)
(***************************************************************************)
EXTENDS RabbitTransport, TLAPS

\* What holds of a transport that is closed only after its tasks have ended.
Orderly ==
    /\ open \subseteq {connection}
    /\ lock # FREE => open = {}
    /\ \A t \in Tasks : pc[t] = "using" /\ <<t, local[t]>> \in live => channel[t] = local[t]
    /\ closed <=> closer # "waiting"
    /\ closed => \A t \in Tasks : pc[t] = "ended"
    /\ closer \in {"forget", "done"} => open = {}

RabbitInv == TypeOK /\ (orderly => Orderly)

\* A new transport has no connection.
LEMMA RabbitInit == Init => RabbitInv
<1> SUFFICES ASSUME Init PROVE RabbitInv
  OBVIOUS
<1>1. 0 \in 0..made /\ 0 \in 0..MaxDrops /\ made \in Nat
  BY DropsAssumption DEF Init
<1>2. /\ pc \in [Tasks -> Points]
      /\ \A t \in Tasks : lock = t <=> pc[t] \in {"connecting", "sleeping"}
  BY DEF Init, Points, FREE, Tasks, CONSUMER, PUBLISHER
<1>3. /\ connection \in 0..made /\ channel \in [Tasks -> 0..made] /\ local \in [Tasks -> 0..made]
      /\ doomed \in [Tasks -> 0..made] /\ drops \in 0..MaxDrops
  BY <1>1 DEF Init, NONE
<1>4. TypeOK
  BY <1>1, <1>2, <1>3 DEF Init, TypeOK
<1> QED
  BY <1>4 DEF Init, RabbitInv, Orderly

\* Moving on within the code keeps the types.
LEMMA GotoType ==
    ASSUME TypeOK, NEW t \in Tasks, NEW point \in Points, NEW c \in 0..made, Goto(t, point, c)
    PROVE  /\ pc' \in [Tasks -> Points] /\ local' \in [Tasks -> 0..made]
           /\ pc'[t] = point /\ local'[t] = c
           /\ \A u \in Tasks \ {t} : pc'[u] = pc[u] /\ local'[u] = local[u]
BY DEF Goto, TypeOK

\* An exception frees the task and forgets at most what is gone.
LEMMA RaiseEffect ==
    ASSUME TypeOK, NEW t \in Tasks, Raise(t)
    PROVE  /\ pc' \in [Tasks -> Points] /\ local' \in [Tasks -> 0..made]
           /\ pc'[t] \in {"ended", "resting", "idle"} /\ (closed => pc'[t] \in {"ended", "idle"})
           /\ \A u \in Tasks \ {t} : pc'[u] = pc[u] /\ local'[u] = local[u]
           /\ connection' \in 0..made /\ channel' \in [Tasks -> 0..made]
           /\ connection \in open => connection' = connection
           /\ connection \in open => \A u \in Tasks \ {t} : channel'[u] = channel[u]
           /\ connection' # connection => connection' = NONE
           /\ \/ \A u \in Tasks \ {t} : channel'[u] = channel[u]
              \/ connection \notin open
<1>1. NONE \in 0..made /\ {"ended", "resting", "idle"} \subseteq Points
  BY DEF TypeOK, NONE, Points
<1>2. CASE t = CONSUMER
  <2>1. CASE closed
    BY <1>1, <1>2, <2>1, GotoType DEF Raise, Interrupted, TypeOK
  <2>2. CASE ~closed
    <3>1. Goto(t, "resting", NONE)
      BY <1>2, <2>2 DEF Raise, Interrupted
    <3>2. /\ pc' \in [Tasks -> Points] /\ local' \in [Tasks -> 0..made]
          /\ pc'[t] = "resting"
          /\ \A u \in Tasks \ {t} : pc'[u] = pc[u] /\ local'[u] = local[u]
      BY <1>1, <3>1, GotoType
    <3>3. connection \in 0..made /\ channel \in [Tasks -> 0..made]
      BY DEF TypeOK
    <3>4. CASE connection # NONE /\ connection \notin open
      <4>1. connection' = NONE /\ channel' = [u \in Tasks |-> NONE]
        BY <1>2, <2>2, <3>4 DEF Raise, Interrupted
      <4> QED
        BY <1>1, <2>2, <3>2, <3>4, <4>1
    <3>5. CASE ~(connection # NONE /\ connection \notin open)
      <4>1. connection' = connection /\ channel' = [channel EXCEPT ![t] = NONE]
        BY <1>2, <2>2, <3>5 DEF Raise, Interrupted
      <4> QED
        BY <1>1, <2>2, <3>2, <3>3, <4>1
    <3> QED
      BY <3>4, <3>5
  <2> QED
    BY <2>1, <2>2
<1>3. CASE t # CONSUMER
  BY <1>1, <1>3, GotoType DEF Raise, TypeOK, Tasks
<1> QED
  BY <1>2, <1>3

\* The start of a publication or of a round of the consumer.
LEMMA StartStep ==
    ASSUME RabbitInv, NEW t \in Tasks, Start(t)
    PROVE  RabbitInv'
<1> USE DEF RabbitInv
<1>1. NONE \in 0..made /\ {"using", "opening", "connecting", "waiting"} \subseteq Points /\ FREE \notin Tasks
  BY DEF TypeOK, NONE, Points, Tasks, FREE, CONSUMER, PUBLISHER
<1>2. UNCHANGED <<made, open, live, drops, orderly, closed, stopping, closer, doomed>> /\ pc[t] = "idle"
  BY DEF Start, brokerVars, stopVars
<1>3. CASE /\ <<t, channel[t]>> \in live /\ Goto(t, "using", channel[t])
           /\ UNCHANGED <<connection, channel, lock>>
  <2>1. channel[t] \in 0..made
    BY DEF TypeOK
  <2>2. /\ pc' \in [Tasks -> Points] /\ local' \in [Tasks -> 0..made]
        /\ pc'[t] = "using" /\ local'[t] = channel[t]
        /\ \A u \in Tasks \ {t} : pc'[u] = pc[u] /\ local'[u] = local[u]
    BY <1>1, <1>3, <2>1, GotoType
  <2> QED
    BY <1>2, <1>3, <2>2 DEF TypeOK, Orderly
<1>4. CASE closed /\ Raise(t) /\ UNCHANGED lock
  BY <1>2, <1>4, RaiseEffect DEF TypeOK, Orderly
<1>5. CASE /\ ~closed /\ Usable(connection) /\ Goto(t, "opening", connection)
           /\ UNCHANGED <<connection, channel, lock>>
  <2>1. connection \in 0..made
    BY DEF TypeOK
  <2>2. /\ pc' \in [Tasks -> Points] /\ local' \in [Tasks -> 0..made]
        /\ pc'[t] = "opening"
        /\ \A u \in Tasks \ {t} : pc'[u] = pc[u] /\ local'[u] = local[u]
    BY <1>1, <1>5, <2>1, GotoType
  <2> QED
    BY <1>2, <1>5, <2>2 DEF TypeOK, Orderly
<1>6. CASE /\ ~closed /\ ~Usable(connection) /\ lock = FREE /\ Goto(t, "connecting", NONE)
           /\ lock' = t /\ UNCHANGED <<connection, channel>>
  <2>1. /\ pc' \in [Tasks -> Points] /\ local' \in [Tasks -> 0..made]
        /\ pc'[t] = "connecting"
        /\ \A u \in Tasks \ {t} : pc'[u] = pc[u] /\ local'[u] = local[u]
    BY <1>1, <1>6, GotoType
  <2>2. TypeOK'
    <3>1. \A u \in Tasks : lock' = u <=> pc'[u] \in {"connecting", "sleeping"}
      BY <1>1, <1>2, <1>6, <2>1 DEF TypeOK
    <3>2. lock' \in Tasks \cup {FREE}
      BY <1>6
    <3> QED
      BY <1>2, <1>6, <2>1, <3>1, <3>2 DEF TypeOK
  <2>3. orderly => open = {}
    BY <1>6 DEF Usable, TypeOK, Orderly, NONE
  <2> QED
    BY <1>2, <1>6, <2>1, <2>2, <2>3 DEF Orderly
<1>7. CASE /\ ~closed /\ ~Usable(connection) /\ lock # FREE /\ Goto(t, "waiting", NONE)
           /\ UNCHANGED <<connection, channel, lock>>
  <2>1. /\ pc' \in [Tasks -> Points] /\ local' \in [Tasks -> 0..made]
        /\ pc'[t] = "waiting"
        /\ \A u \in Tasks \ {t} : pc'[u] = pc[u] /\ local'[u] = local[u]
    BY <1>1, <1>7, GotoType
  <2> QED
    BY <1>2, <1>7, <2>1 DEF TypeOK, Orderly
<1> QED
  BY <1>3, <1>4, <1>5, <1>6, <1>7 DEF Start

\* The lock is obtained.
LEMMA AwakeStep ==
    ASSUME RabbitInv, NEW t \in Tasks, Awake(t)
    PROVE  RabbitInv'
<1> USE DEF RabbitInv
<1>1. NONE \in 0..made /\ {"opening", "connecting"} \subseteq Points /\ FREE \notin Tasks
  BY DEF TypeOK, NONE, Points, Tasks, FREE, CONSUMER, PUBLISHER
<1>2. /\ UNCHANGED <<made, open, live, drops, orderly, closed, stopping, closer, doomed>>
      /\ pc[t] = "waiting" /\ lock = FREE
  BY DEF Awake, brokerVars, stopVars
<1>3. CASE /\ Usable(connection) /\ Goto(t, "opening", connection)
           /\ UNCHANGED <<connection, channel, lock>>
  <2>1. connection \in 0..made
    BY DEF TypeOK
  <2>2. /\ pc' \in [Tasks -> Points] /\ local' \in [Tasks -> 0..made]
        /\ pc'[t] = "opening"
        /\ \A u \in Tasks \ {t} : pc'[u] = pc[u] /\ local'[u] = local[u]
    BY <1>1, <1>3, <2>1, GotoType
  <2> QED
    BY <1>2, <1>3, <2>2 DEF TypeOK, Orderly
<1>4. CASE /\ ~Usable(connection) /\ ~closed /\ Goto(t, "connecting", NONE)
           /\ lock' = t /\ UNCHANGED <<connection, channel>>
  <2>1. /\ pc' \in [Tasks -> Points] /\ local' \in [Tasks -> 0..made]
        /\ pc'[t] = "connecting"
        /\ \A u \in Tasks \ {t} : pc'[u] = pc[u] /\ local'[u] = local[u]
    BY <1>1, <1>4, GotoType
  <2>2. TypeOK'
    <3>1. \A u \in Tasks : lock' = u <=> pc'[u] \in {"connecting", "sleeping"}
      BY <1>1, <1>2, <1>4, <2>1 DEF TypeOK
    <3>2. lock' \in Tasks \cup {FREE}
      BY <1>4
    <3> QED
      BY <1>2, <1>4, <2>1, <3>1, <3>2 DEF TypeOK
  <2>3. orderly => open = {}
    BY <1>4 DEF Usable, TypeOK, Orderly, NONE
  <2> QED
    BY <1>2, <1>4, <2>1, <2>2, <2>3 DEF Orderly
<1>5. CASE ~Usable(connection) /\ closed /\ Raise(t) /\ UNCHANGED lock
  BY <1>2, <1>5, RaiseEffect DEF TypeOK, Orderly
<1> QED
  BY <1>3, <1>4, <1>5 DEF Awake

\* What the holder of the lock makes is the only connection.
LEMMA ConnectedStep ==
    ASSUME RabbitInv, NEW t \in Tasks, Connected(t)
    PROVE  RabbitInv'
<1> USE DEF RabbitInv
<1>1. /\ pc[t] = "connecting" /\ lock = t /\ t # FREE /\ made' = made + 1
      /\ UNCHANGED <<live, drops, orderly, closed, stopping, closer, doomed>>
  BY DEF Connected, stopVars, TypeOK, Tasks, FREE, CONSUMER, PUBLISHER
<1>2. /\ made' \in Nat /\ 0..made \subseteq 0..made' /\ made' \in 1..made' /\ NONE \in 0..made'
      /\ 1..made \subseteq 1..made'
  BY <1>1 DEF TypeOK, NONE
<1>3. /\ pc' = [pc EXCEPT ![t] = "opening"] /\ local' = [local EXCEPT ![t] = made']
      /\ lock' = FREE /\ connection' = made' /\ channel' = [u \in Tasks |-> NONE]
      /\ open' = open \cup {made'}
  BY DEF Connected, Goto
<1>4. TypeOK'
  <2>1. pc' \in [Tasks -> Points] /\ local' \in [Tasks -> 0..made'] /\ channel' \in [Tasks -> 0..made']
    BY <1>2, <1>3 DEF TypeOK, Points
  <2>2. \A u \in Tasks : lock' = u <=> pc'[u] \in {"connecting", "sleeping"}
    BY <1>1, <1>3 DEF TypeOK, Tasks, FREE, CONSUMER, PUBLISHER
  <2>3. open' \subseteq 1..made' /\ live' \subseteq Tasks \X open'
    BY <1>1, <1>2, <1>3 DEF TypeOK
  <2> QED
    BY <1>1, <1>2, <1>3, <2>1, <2>2, <2>3 DEF TypeOK
<1>5. ASSUME orderly PROVE Orderly'
  <2>1. open = {} /\ live = {} /\ ~closed /\ closer = "waiting"
    BY <1>1, <1>5 DEF Orderly, TypeOK
  <2> QED
    BY <1>1, <1>3, <2>1 DEF Orderly
<1> QED
  BY <1>1, <1>4, <1>5

\* A refused connection, and the delay after it: the lock is kept.
LEMMA ConnectFailsStep ==
    ASSUME RabbitInv, NEW t \in Tasks, ConnectFails(t)
    PROVE  RabbitInv'
<1> USE DEF RabbitInv
<1>1. NONE \in 0..made /\ "sleeping" \in Points
  BY DEF TypeOK, NONE, Points
<1>2. /\ pc[t] = "connecting" /\ Goto(t, "sleeping", NONE)
      /\ UNCHANGED <<connection, channel, lock, made, open, live, drops, orderly, closed, stopping, closer, doomed>>
  BY DEF ConnectFails, brokerVars, stopVars
<1>3. /\ pc' \in [Tasks -> Points] /\ local' \in [Tasks -> 0..made]
      /\ pc'[t] = "sleeping"
      /\ \A u \in Tasks \ {t} : pc'[u] = pc[u] /\ local'[u] = local[u]
  BY <1>1, <1>2, GotoType
<1> QED
  BY <1>2, <1>3 DEF TypeOK, Orderly

LEMMA SleptStep ==
    ASSUME RabbitInv, NEW t \in Tasks, Slept(t)
    PROVE  RabbitInv'
<1> USE DEF RabbitInv
<1>1. NONE \in 0..made /\ "connecting" \in Points /\ FREE \notin Tasks
  BY DEF TypeOK, NONE, Points, Tasks, FREE, CONSUMER, PUBLISHER
<1>2. /\ pc[t] = "sleeping" /\ lock = t
      /\ UNCHANGED <<made, open, live, drops, orderly, closed, stopping, closer, doomed>>
  BY DEF Slept, brokerVars, stopVars, TypeOK
<1>3. CASE closed /\ Raise(t) /\ lock' = FREE
  <2>1. TypeOK'
    <3>1. \A u \in Tasks : lock' = u <=> pc'[u] \in {"connecting", "sleeping"}
      BY <1>1, <1>2, <1>3, RaiseEffect DEF TypeOK
    <3>2. /\ pc' \in [Tasks -> Points] /\ local' \in [Tasks -> 0..made]
          /\ connection' \in 0..made /\ channel' \in [Tasks -> 0..made]
      BY <1>3, RaiseEffect
    <3> QED
      BY <1>2, <1>3, <3>1, <3>2 DEF TypeOK
  <2>2. ~orderly
    BY <1>2, <1>3 DEF Orderly
  <2> QED
    BY <1>2, <2>1, <2>2
<1>4. CASE ~closed /\ Goto(t, "connecting", NONE) /\ UNCHANGED <<connection, channel, lock>>
  <2>1. /\ pc' \in [Tasks -> Points] /\ local' \in [Tasks -> 0..made]
        /\ pc'[t] = "connecting"
        /\ \A u \in Tasks \ {t} : pc'[u] = pc[u] /\ local'[u] = local[u]
    BY <1>1, <1>4, GotoType
  <2> QED
    BY <1>2, <1>4, <2>1 DEF TypeOK, Orderly
<1> QED
  BY <1>3, <1>4 DEF Slept

\* A channel is opened on the connection that is remembered.
LEMMA OpenedStep ==
    ASSUME RabbitInv, NEW t \in Tasks, Opened(t)
    PROVE  RabbitInv'
<1> USE DEF RabbitInv
<1>1. "using" \in Points /\ local[t] \in 0..made /\ local[t] \in open /\ pc[t] = "opening"
  BY DEF TypeOK, Points, Opened
<1>2. UNCHANGED <<connection, lock, open, made, drops, orderly, closed, stopping, closer, doomed>>
  BY DEF Opened, stopVars
<1>3. Goto(t, "using", local[t])
  BY DEF Opened
<1>4. /\ pc' \in [Tasks -> Points] /\ local' \in [Tasks -> 0..made]
      /\ pc'[t] = "using" /\ local'[t] = local[t]
      /\ \A u \in Tasks \ {t} : pc'[u] = pc[u] /\ local'[u] = local[u]
  BY <1>1, <1>3, GotoType
<1>5. /\ live' = live \cup {<<t, local[t]>>}
      /\ channel' = [channel EXCEPT ![t] = local[t]]
  BY DEF Opened
<1>6. TypeOK'
  BY <1>1, <1>2, <1>4, <1>5 DEF TypeOK
<1>7. ASSUME orderly PROVE Orderly'
  BY <1>1, <1>2, <1>4, <1>5, <1>7 DEF Orderly, TypeOK
<1> QED
  BY <1>2, <1>6, <1>7

\* A failing await: what is open is not forgotten.
LEMMA FailsStep ==
    ASSUME RabbitInv, NEW t \in Tasks, Fails(t)
    PROVE  RabbitInv'
<1> USE DEF RabbitInv
<1>1. /\ pc[t] \in {"opening", "using"} /\ Raise(t)
      /\ UNCHANGED <<lock, made, open, live, drops, orderly, closed, stopping, closer, doomed>>
  BY DEF Fails, brokerVars, stopVars
<1>2. TypeOK'
  BY <1>1, RaiseEffect DEF TypeOK
<1>3. ASSUME orderly PROVE Orderly'
  <2>1. open # {} => connection \in open
    BY <1>3 DEF Orderly
  <2>2. open' \subseteq {connection'}
    BY <1>1, <1>3, <2>1, RaiseEffect DEF Orderly
  <2>3. ~closed
    BY <1>1, <1>3 DEF Orderly
  <2>4. ASSUME NEW u \in Tasks, pc'[u] = "using", <<u, local'[u]>> \in live PROVE channel'[u] = local'[u]
    <3>1. u # t /\ pc[u] = "using" /\ local'[u] = local[u]
      BY <1>1, <2>4, RaiseEffect
    <3>2. connection \in open
      BY <2>1, <2>4 DEF TypeOK
    <3> QED
      BY <1>1, <1>3, <2>4, <3>1, <3>2, RaiseEffect DEF Orderly
  <2> QED
    BY <1>1, <1>3, <2>2, <2>3, <2>4 DEF Orderly
<1> QED
  BY <1>1, <1>2, <1>3

\* A task moves on with nothing else changed.
LEMMA MoveOnStep ==
    ASSUME RabbitInv, NEW t \in Tasks, NEW point \in {"idle", "ended"},
           pc[t] \notin {"connecting", "sleeping"}, Goto(t, point, NONE), orderly /\ closed => point = "ended",
           UNCHANGED <<connection, channel, lock, brokerVars, stopVars>>
    PROVE  RabbitInv'
<1> USE DEF RabbitInv
<1>1. NONE \in 0..made /\ point \in Points
  BY DEF TypeOK, NONE, Points
<1>2. /\ pc' \in [Tasks -> Points] /\ local' \in [Tasks -> 0..made]
      /\ pc'[t] = point
      /\ \A u \in Tasks \ {t} : pc'[u] = pc[u] /\ local'[u] = local[u]
  BY <1>1, GotoType
<1> QED
  BY <1>2 DEF TypeOK, Orderly, brokerVars, stopVars

\* A task is cancelled wherever it is suspended, and leaves the lock.
LEMMA CancelledStep ==
    ASSUME RabbitInv, NEW t \in Tasks, Cancelled(t)
    PROVE  RabbitInv'
<1> USE DEF RabbitInv
<1>1. NONE \in 0..made /\ "ended" \in Points /\ FREE \notin Tasks
  BY DEF TypeOK, NONE, Points, Tasks, FREE, CONSUMER, PUBLISHER
<1>2. /\ Goto(t, "ended", NONE) /\ lock' = IF lock = t THEN FREE ELSE lock
      /\ UNCHANGED <<connection, channel, made, open, live, drops, orderly, closed, stopping, closer, doomed>>
  BY DEF Cancelled, brokerVars, stopVars
<1>3. /\ pc' \in [Tasks -> Points] /\ local' \in [Tasks -> 0..made]
      /\ pc'[t] = "ended"
      /\ \A u \in Tasks \ {t} : pc'[u] = pc[u] /\ local'[u] = local[u]
  BY <1>1, <1>2, GotoType
<1>4. TypeOK'
  <2>1. \A u \in Tasks : lock' = u <=> pc'[u] \in {"connecting", "sleeping"}
    BY <1>1, <1>2, <1>3 DEF TypeOK
  <2>2. lock' \in Tasks \cup {FREE}
    BY <1>2 DEF TypeOK
  <2> QED
    BY <1>2, <1>3, <2>1, <2>2 DEF TypeOK
<1> QED
  BY <1>1, <1>2, <1>3, <1>4 DEF Orderly

\* The broker takes a connection away: the channels it carried go with it.
LEMMA DropConnectionStep ==
    ASSUME RabbitInv, NEW c \in open, DropConnection(c)
    PROVE  RabbitInv'
<1> USE DEF RabbitInv
<1>1. UNCHANGED <<connection, channel, lock, pc, local, made, orderly, closed, stopping, closer, doomed>>
  BY DEF DropConnection, taskVars, stopVars
<1>2. /\ open' = open \ {c} /\ live' = {p \in live : p[2] # c}
      /\ drops < MaxDrops /\ drops' = drops + 1
  BY DEF DropConnection
<1>3. drops' \in 0..MaxDrops
  BY <1>2, DropsAssumption DEF TypeOK
<1>4. open' \subseteq open /\ live' \subseteq live /\ live' \subseteq Tasks \X open'
  BY <1>2 DEF TypeOK
<1>5. TypeOK'
  BY <1>1, <1>3, <1>4 DEF TypeOK
<1> QED
  BY <1>1, <1>4, <1>5 DEF Orderly

LEMMA DropChannelStep ==
    ASSUME RabbitInv, NEW t \in Tasks, DropChannel(t)
    PROVE  RabbitInv'
<1> USE DEF RabbitInv
<1>1. UNCHANGED <<connection, channel, lock, pc, local, made, open, orderly, closed, stopping, closer, doomed>>
  BY DEF DropChannel, taskVars, stopVars
<1>2. live' \subseteq live /\ drops < MaxDrops /\ drops' = drops + 1
  BY DEF DropChannel
<1>3. drops' \in 0..MaxDrops
  BY <1>2, DropsAssumption DEF TypeOK
<1>4. TypeOK'
  BY <1>1, <1>2, <1>3 DEF TypeOK
<1> QED
  BY <1>1, <1>2, <1>4 DEF Orderly

\* close() finds the one connection there may be.
LEMMA CloseStep ==
    ASSUME RabbitInv, Close \/ Closing \/ CloseAgain
    PROVE  RabbitInv'
<1> USE DEF RabbitInv
<1>1. CASE Close
  <2>1. UNCHANGED <<connection, channel, lock, pc, local, open, live, made, drops, orderly, stopping>>
    BY <1>1 DEF Close, taskVars, brokerVars
  <2>2. /\ closed' = TRUE /\ doomed' = channel
        /\ closer' \in Tasks /\ closer' \notin {"waiting", "forget", "done"}
        /\ orderly => \A t \in Tasks : pc[t] = "ended"
    BY <1>1 DEF Close, Tasks, CONSUMER
  <2>3. TypeOK'
    BY <2>1, <2>2 DEF TypeOK
  <2>4. ASSUME orderly PROVE Orderly'
    BY <2>1, <2>2, <2>4 DEF Orderly
  <2> QED
    BY <2>1, <2>3, <2>4
<1>2. ASSUME NEW t \in Tasks, CloseChannel(t) PROVE RabbitInv'
  <2>1. UNCHANGED <<connection, channel, lock, pc, local, open, made, drops, orderly, closed, stopping, doomed>>
    BY <1>2 DEF CloseChannel, taskVars
  <2>2. /\ live' \subseteq live /\ closer = t /\ closer' \in Tasks \cup {"connection"}
        /\ closer \notin {"waiting", "forget", "done"} /\ closer' \notin {"waiting", "forget", "done"}
    BY <1>2 DEF CloseChannel, Tasks, CONSUMER, PUBLISHER
  <2> QED
    BY <2>1, <2>2 DEF TypeOK, Orderly
<1>3. CASE CloseConnection
  <2>1. UNCHANGED <<connection, channel, lock, pc, local, made, drops, orderly, closed, stopping, doomed>>
    BY <1>3 DEF CloseConnection, taskVars
  <2>2. /\ open' = open \ {connection} /\ live' = {p \in live : p[2] # connection}
        /\ closer = "connection" /\ closer' = "forget"
    BY <1>3 DEF CloseConnection
  <2>3. open' \subseteq open /\ live' \subseteq live /\ live' \subseteq Tasks \X open'
    BY <2>2 DEF TypeOK
  <2>4. TypeOK'
    BY <2>1, <2>2, <2>3 DEF TypeOK
  <2>5. orderly => open' = {}
    BY <2>2 DEF Orderly
  <2> QED
    BY <2>1, <2>2, <2>3, <2>4, <2>5 DEF Orderly
<1>4. CASE Forget
  <2>1. /\ UNCHANGED <<lock, pc, local, open, live, made, drops, orderly, closed, stopping, doomed>>
        /\ connection' = 0 /\ channel' = [t \in Tasks |-> 0]
        /\ closer = "forget" /\ closer' = "done"
    BY <1>4 DEF Forget, brokerVars, NONE
  <2>2. TypeOK'
    BY <2>1 DEF TypeOK
  <2>3. ASSUME orderly PROVE Orderly'
    BY <2>1, <2>3 DEF Orderly, TypeOK
  <2> QED
    BY <2>1, <2>2, <2>3
<1>5. CASE CloseRaises \/ CloseAgain
  <2>1. UNCHANGED <<taskVars, brokerVars, orderly, closed, stopping, doomed>>
    BY <1>5 DEF CloseRaises, CloseAgain
  <2>2. closer # "waiting" /\ closer' \in {"failed", "again"}
    BY <1>5 DEF CloseRaises, CloseAgain, Tasks, CONSUMER, PUBLISHER
  <2> QED
    BY <2>1, <2>2 DEF taskVars, brokerVars, TypeOK, Orderly
<1> QED
  BY <1>1, <1>2, <1>3, <1>4, <1>5 DEF Closing

\* Every step preserves the invariant.
LEMMA RabbitStep == RabbitInv /\ [Next]_vars => RabbitInv'
<1> SUFFICES ASSUME RabbitInv, [Next]_vars PROVE RabbitInv'
  OBVIOUS
<1>1. ASSUME NEW t \in Tasks, Step(t) PROVE RabbitInv'
  <2>1. CASE Finished(t)
    <3>1. ~closed \/ ~orderly
      BY <2>1 DEF Finished, RabbitInv, Orderly
    <3>2. /\ pc[t] = "using" /\ Goto(t, "idle", NONE)
          /\ UNCHANGED <<connection, channel, lock, brokerVars, stopVars>>
      BY <2>1 DEF Finished
    <3> QED
      BY <3>1, <3>2, MoveOnStep
  <2> QED
    BY <1>1, <2>1, StartStep, AwakeStep, ConnectedStep, ConnectFailsStep, SleptStep, OpenedStep,
       FailsStep DEF Step
<1>2. CASE Rested
  <2>1. ~closed \/ ~orderly
    BY <1>2 DEF Rested, RabbitInv, Orderly, Tasks
  <2>2. /\ pc[CONSUMER] = "resting" /\ Goto(CONSUMER, "idle", NONE) /\ CONSUMER \in Tasks
        /\ UNCHANGED <<connection, channel, lock, brokerVars, stopVars>>
    BY <1>2 DEF Rested, Tasks
  <2> QED
    BY <2>1, <2>2, MoveOnStep
<1>3. CASE Leave
  <2>1. /\ pc[CONSUMER] = "idle" /\ Goto(CONSUMER, "ended", NONE) /\ CONSUMER \in Tasks
        /\ UNCHANGED <<connection, channel, lock, brokerVars, stopVars>>
    BY <1>3 DEF Leave, Tasks
  <2> QED
    BY <2>1, MoveOnStep
<1>4. CASE Stop
  BY <1>4 DEF Stop, taskVars, brokerVars, RabbitInv, TypeOK, Orderly
<1>5. CASE UNCHANGED vars
  BY <1>5 DEF vars, taskVars, brokerVars, stopVars, RabbitInv, TypeOK, Orderly
<1> QED
  BY <1>1, <1>2, <1>3, <1>4, <1>5, DropChannelStep, DropConnectionStep, CancelledStep, CloseStep
     DEF Next, Stopping

LEMMA RabbitInvariant == Spec => []RabbitInv
  BY RabbitInit, RabbitStep, PTL DEF Spec

\* The types, and the lock held by the task that connects and by nobody else.
THEOREM RabbitTypeCorrect == Spec => []TypeOK
<1>1. RabbitInv => TypeOK
  BY DEF RabbitInv
<1> QED
  BY <1>1, RabbitInvariant, PTL

\* Whatever is lost and whenever both tasks reconnect, no connection is forgotten open.
THEOREM OneConnectionTheorem == Spec => []OneConnection
<1>1. RabbitInv => OneConnection
  BY DEF RabbitInv, Orderly, OneConnection
<1> QED
  BY <1>1, RabbitInvariant, PTL

\* A task's open channel is never taken from it by the other task.
THEOREM ChannelKeptTheorem == Spec => []ChannelKept
<1>1. RabbitInv => ChannelKept
  BY DEF RabbitInv, Orderly, ChannelKept
<1> QED
  BY <1>1, RabbitInvariant, PTL

\* A close() that is called after the tasks have ended and does not raise leaves no
\* connection and no channel open.
THEOREM NothingLeftOpenTheorem == Spec => []NothingLeftOpen
<1>1. RabbitInv => NothingLeftOpen
  BY DEF RabbitInv, TypeOK, Orderly, NothingLeftOpen
<1> QED
  BY <1>1, RabbitInvariant, PTL
=============================================================================
