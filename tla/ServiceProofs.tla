---------------------------- MODULE ServiceProofs ----------------------------
(***************************************************************************)
(* Proofs about Service: for any robots and any bounds, what the action    *)
(* queues, the logged trace and the store promise.                         *)
(***************************************************************************)
EXTENDS Service, FiniteSetTheorems, SequenceTheorems, TLAPS

\* What holds of the types beyond TypeOK: a process that is down has nothing on its
\* mind, and a delivery that goes back to the queue still fits.
ServiceInv ==
    /\ TypeOK
    /\ ~alive => loop = "sleeping" /\ trace = NoTrace
    /\ loop # "publishing" => messages = <<>>
    /\ Len(delivery) + Len(queue) <= MaxQueue + 1

LEMMA BoundsTyped ==
    /\ MaxStamp \in Nat /\ MaxQueue \in Nat /\ MaxTick \in Nat /\ MaxRun \in Nat /\ MaxRun > 0
    /\ MaxAttempts \in Nat /\ MaxAttempts > 0 /\ StaleTicks \in Nat /\ StaleTicks > 0
BY ServiceAssumption

LEMMA UnknownTyped == Unknown \in Stored /\ NoTrace \in Trace
<1>1. 0 \in 0..MaxStamp /\ 0 \in 0..StaleTicks /\ 0 \in 0..MaxTick
  BY BoundsTyped
<1> QED
  BY <1>1 DEF Unknown, Stored, NoTrace, Trace

LEMMA ServiceInit == Init => ServiceInv
<1> SUFFICES ASSUME Init PROVE ServiceInv
  OBVIOUS
<1>1. 0 \in 0..MaxStamp /\ 0 \in 0..MaxTick /\ 1 \in 1..MaxRun /\ 1 \in 1..MaxAttempts
  BY BoundsTyped
<1>2. /\ queue \in Seq(State) /\ Len(queue) = 0 /\ delivery \in Seq(State) /\ Len(delivery) = 0
      /\ messages \in Seq(Message) /\ Len(messages) = 0 /\ <<>> \in Seq(Message)
  BY EmptySeq DEF Init
<1>3. /\ sent \in [Robots -> 0..MaxStamp] /\ actions \in [Robots -> Seq(Message)]
      /\ store \in [Robots -> Stored]
  BY <1>1, <1>2, UnknownTyped DEF Init
<1>4. /\ {alive, stopping, closed, gathering, due} \subseteq BOOLEAN /\ consumer = "receiving"
      /\ pending = {}
      /\ loop = "sleeping" /\ messages = <<>> /\ alive /\ trace = NoTrace
      /\ run \in 1..MaxRun /\ tick \in 0..MaxTick /\ attempt \in 1..MaxAttempts
      /\ done = 0 /\ failures \subseteq Robots
  BY <1>1 DEF Init
<1>5. TypeOK
  BY <1>2, <1>3, <1>4, BoundsTyped, UnknownTyped DEF TypeOK
<1> QED
  BY <1>2, <1>4, <1>5, BoundsTyped DEF ServiceInv

\* The broker's side: reports arrive.
LEMMA SendTypes ==
    ASSUME ServiceInv, NEW s \in State, Send(s)
    PROVE  ServiceInv'
<1>0. TypeOK
  BY DEF ServiceInv
<1>1. /\ UNCHANGED <<actions, run, alive, stopping, closed, gathering, pending>>
      /\ UNCHANGED <<consumer, delivery, store, loop, due, tick, messages, done, attempt, failures, trace>>
  BY DEF Send, processVars, consumerVars, loopVars
<1>2. /\ queue' = Append(queue, s) /\ Len(queue) < MaxQueue
      /\ sent' = [sent EXCEPT ![s.robot] = IF s.stamp > @ THEN s.stamp ELSE @]
  BY DEF Send
<1>3. /\ queue \in Seq(State) /\ delivery \in Seq(State) /\ Len(delivery) <= 1
  BY <1>0 DEF TypeOK
<1>4. /\ queue' \in Seq(State) /\ Len(queue') = Len(queue) + 1
      /\ Len(queue) \in Nat /\ Len(delivery) \in Nat
  BY <1>2, <1>3, AppendProperties, LenProperties
<1>5. Len(queue') <= MaxQueue + 1 /\ Len(delivery') + Len(queue') <= MaxQueue + 1
  BY <1>1, <1>2, <1>3, <1>4, BoundsTyped
<1>6. sent' \in [Robots -> 0..MaxStamp]
  BY <1>0, <1>2 DEF TypeOK, State
<1>7. TypeOK'
  BY <1>0, <1>1, <1>4, <1>5, <1>6 DEF TypeOK
<1> QED
  BY <1>1, <1>5, <1>7 DEF ServiceInv

\* A report never takes the store back, and otherwise records the tick it came in.
LEMMA UpdatedTypes ==
    ASSUME TypeOK, NEW s \in State
    PROVE  /\ Updated(s) \in [Robots -> Stored]
           /\ s.stamp <= Updated(s)[s.robot].stamp
           /\ \A r \in Robots :
                \/ Updated(s)[r] = store[r]
                \/ Updated(s)[r] = [stamp |-> s.stamp, age |-> 0, heard |-> tick]
           /\ \A r \in Robots : store[r].stamp <= Updated(s)[r].stamp
<1>1. s.robot \in Robots /\ s.stamp \in 0..MaxStamp /\ 0 \in 0..StaleTicks /\ tick \in 0..MaxTick
  BY BoundsTyped DEF State, TypeOK
<1> DEFINE new == [stamp |-> s.stamp, age |-> 0, heard |-> tick]
<1>2. new \in Stored /\ new.stamp = s.stamp
  BY <1>1 DEF Stored
<1>3. \A r \in Robots : store[r] \in Stored /\ store[r].stamp \in 0..MaxStamp
  BY DEF TypeOK, Stored
<1>4. store \in [Robots -> Stored]
  BY DEF TypeOK
<1> HIDE DEF new
<1>5. CASE s.stamp = INVALID \/ s.stamp < store[s.robot].stamp
  <2>1. Updated(s) = store
    BY <1>5 DEF Updated
  <2> QED
    BY <2>1, <1>1, <1>3, <1>4, <1>5, BoundsTyped DEF INVALID
<1>6. CASE ~(s.stamp = INVALID \/ s.stamp < store[s.robot].stamp)
  <2>1. Updated(s) = [store EXCEPT ![s.robot] = new]
    BY <1>6 DEF Updated, new
  <2>2. Updated(s) \in [Robots -> Stored] /\ Updated(s)[s.robot] = new
    BY <2>1, <1>1, <1>2, <1>4
  <2>3. \A r \in Robots : Updated(s)[r] = IF r = s.robot THEN new ELSE store[r]
    BY <2>1, <1>1, <1>4
  <2>4. store[s.robot].stamp <= s.stamp
    BY <1>1, <1>3, <1>6, BoundsTyped
  <2>5. \A r \in Robots : store[r].stamp <= Updated(s)[r].stamp
    <3> SUFFICES ASSUME NEW r \in Robots PROVE store[r].stamp <= Updated(s)[r].stamp
      OBVIOUS
    <3>1. CASE r = s.robot
      BY <3>1, <2>2, <2>4, <1>2
    <3>2. CASE r # s.robot
      BY <3>2, <2>3, <1>3, BoundsTyped
    <3> QED
      BY <3>1, <3>2
  <2>6. s.stamp <= Updated(s)[s.robot].stamp
    BY <2>2, <1>1, <1>2, BoundsTyped
  <2> QED
    BY <2>2, <2>3, <2>5, <2>6 DEF new
<1> QED
  BY <1>5, <1>6

\* consume_states.
LEMMA ConsumerTypes ==
    ASSUME ServiceInv, Receive \/ SettleStep \/ ConsumerEnds
    PROVE  ServiceInv'
<1>0. /\ TypeOK /\ queue \in Seq(State) /\ delivery \in Seq(State)
      /\ Len(queue) \in Nat /\ Len(delivery) \in Nat
      /\ Len(delivery) + Len(queue) <= MaxQueue + 1
      /\ Len(delivery) = (IF consumer = "settling" THEN 1 ELSE 0)
  BY LenProperties DEF ServiceInv, TypeOK
<1>1. CASE Receive
  <2>1. /\ UNCHANGED <<sent, actions, run, alive, stopping, closed, gathering, pending>>
        /\ UNCHANGED <<loop, due, tick, messages, done, attempt, failures, trace>>
    BY <1>1 DEF Receive, processVars, loopVars
  <2>2. /\ consumer = "receiving" /\ consumer' = "settling" /\ queue # <<>>
        /\ delivery' = <<Head(queue)>> /\ queue' = Tail(queue) /\ store' = Updated(Head(queue))
    BY <1>1 DEF Receive
  <2>3. /\ Head(queue) \in State /\ queue' \in Seq(State) /\ Len(queue') = Len(queue) - 1
    BY <2>2, <1>0, HeadTailProperties
  <2>4. delivery' \in Seq(State) /\ Len(delivery') = 1
    BY <2>2, <2>3
  <2>5. store' \in [Robots -> Stored]
    BY <2>2, <2>3, <1>0, UpdatedTypes
  <2>6. Len(queue') <= MaxQueue + 1 /\ Len(delivery') + Len(queue') <= MaxQueue + 1
    BY <2>2, <2>3, <2>4, <1>0, BoundsTyped
  <2>7. TypeOK'
    BY <2>1, <2>2, <2>3, <2>4, <2>5, <2>6, <1>0 DEF TypeOK
  <2> QED
    BY <2>1, <2>6, <2>7 DEF ServiceInv
<1>2. CASE SettleStep
  <2>1. /\ UNCHANGED <<sent, actions, run, alive, stopping, closed, gathering, pending, store>>
        /\ UNCHANGED <<loop, due, tick, messages, done, attempt, failures, trace>>
        /\ consumer = "settling" /\ consumer' \in {"receiving", "failed"} /\ delivery' = <<>>
        /\ queue' = queue \/ queue' = delivery \o queue
    BY <1>2 DEF SettleStep, Settle, SettleRaises, processVars, loopVars
  <2>2. /\ delivery \o queue \in Seq(State)
        /\ Len(delivery \o queue) = Len(delivery) + Len(queue)
    BY <1>0, ConcatProperties
  <2>3. queue' \in Seq(State) /\ Len(queue') <= MaxQueue + 1 /\ Len(queue') \in Nat
    <3>1. CASE queue' = queue
      BY <3>1, <1>0, BoundsTyped
    <3>2. CASE queue' = delivery \o queue
      BY <3>2, <2>2, <1>0, BoundsTyped
    <3> QED
      BY <2>1, <3>1, <3>2
  <2>4. delivery' \in Seq(State) /\ Len(delivery') = 0
    BY <2>1, EmptySeq
  <2>5. TypeOK'
    BY <2>1, <2>3, <2>4, <1>0 DEF TypeOK
  <2> QED
    BY <2>1, <2>3, <2>4, <2>5 DEF ServiceInv
<1>3. CASE ConsumerEnds
  <2>1. /\ UNCHANGED <<queue, sent, actions, run, alive, stopping, closed, gathering, pending>>
        /\ UNCHANGED <<delivery, store, loop, due, tick, messages, done, attempt, failures, trace>>
        /\ consumer = "receiving" /\ consumer' = "ended"
    BY <1>3 DEF ConsumerEnds, brokerVars, processVars, loopVars
  <2>2. TypeOK'
    BY <2>1, <1>0 DEF TypeOK
  <2> QED
    BY <2>1, <2>2 DEF ServiceInv
<1> QED
  BY <1>1, <1>2, <1>3

\* The tick's robots, in ID order and each once.
LEMMA IdOrderOf ==
    ASSUME NEW ids \in IdOrder(Known)
    PROVE  /\ Cardinality(Known) \in Nat
           /\ \A i \in 1..Cardinality(Known) : ids[i] \in Robots /\ store[ids[i]].stamp > 0
           /\ \A i, j \in 1..Cardinality(Known) : ids[i] = ids[j] => i = j
<1>1. Known \subseteq Robots /\ \A r \in Known : store[r].stamp > 0
  BY DEF Known
<1>2. Cardinality(Known) \in Nat
  BY <1>1, ServiceAssumption, FS_Subset, FS_CardinalityType
<1>3. /\ ids \in [1..Cardinality(Known) -> Known]
      /\ \A i, j \in 1..Cardinality(Known) : i < j => ids[i] < ids[j]
  BY DEF IdOrder
<1>4. \A i \in 1..Cardinality(Known) : ids[i] \in Known /\ ids[i] \in Int
  BY <1>1, <1>3, RobotsAssumption
<1>5. ASSUME NEW i \in 1..Cardinality(Known), NEW j \in 1..Cardinality(Known), ids[i] = ids[j]
      PROVE  i = j
  <2>1. ~(ids[i] < ids[j]) /\ ~(ids[j] < ids[i])
    BY <1>4, <1>5
  <2> QED
    BY <2>1, <1>2, <1>3
<1> QED
  BY <1>1, <1>2, <1>4, <1>5

\* What run_tick hands to the publications: one message per robot heard of, each with
\* this run, the new tick, the robot's decision and the timestamp it was decided on.
Drafted(d) ==
    \A i \in DOMAIN messages' :
        LET m == messages'[i]
        IN /\ m.robot \in Robots /\ store[m.robot].stamp > 0
           /\ m.run = run /\ m.tick = tick' /\ m.source = store[m.robot].stamp
           /\ m.action = d[m.robot]
           /\ \A j \in DOMAIN messages' : messages'[j].robot = m.robot => i = j

LEMMA TickDrafts ==
    ASSUME ServiceInv, NEW d \in Assignment, StartTick(d)
    PROVE  /\ messages' \in Seq(Message)
           /\ Drafted(d)
           /\ tick' = tick + 1 /\ tick' \in 1..MaxTick /\ tick \in Nat
<1>0. /\ TypeOK /\ run \in 1..MaxRun /\ tick \in 0..MaxTick
      /\ \A r \in Robots : store[r].stamp \in 0..MaxStamp
  BY DEF ServiceInv, TypeOK, Stored
<1>1. tick' = tick + 1 /\ tick' \in 1..MaxTick /\ tick \in Nat
  BY <1>0, BoundsTyped DEF StartTick
<1>2. PICK ids \in IdOrder(Known) :
        messages' = [i \in 1..Cardinality(Known) |-> ActionMessage(ids[i], tick + 1, d)]
  BY DEF StartTick
<1> DEFINE N == Cardinality(Known)
<1>3. /\ N \in Nat
      /\ \A i \in 1..N : ids[i] \in Robots /\ store[ids[i]].stamp > 0
      /\ \A i, j \in 1..N : ids[i] = ids[j] => i = j
  BY <1>2, IdOrderOf
<1> HIDE DEF N
<1>4. messages' = [i \in 1..N |-> ActionMessage(ids[i], tick + 1, d)]
  BY <1>2 DEF N
<1>5. \A i \in 1..N : ActionMessage(ids[i], tick + 1, d) =
        [run |-> run, tick |-> tick', robot |-> ids[i], action |-> d[ids[i]],
         source |-> store[ids[i]].stamp]
  BY <1>1 DEF ActionMessage
<1>6. ASSUME NEW i \in 1..N PROVE ActionMessage(ids[i], tick + 1, d) \in Message
  <2>1. store[ids[i]].stamp \in 1..MaxStamp /\ d[ids[i]] \in Actions
    BY <1>0, <1>3, BoundsTyped DEF Assignment
  <2>2. [run |-> run, tick |-> tick', robot |-> ids[i], action |-> d[ids[i]],
         source |-> store[ids[i]].stamp] \in Message
    BY <2>1, <1>0, <1>1, <1>3 DEF Message
  <2> QED
    BY <2>2, <1>5
<1>7. messages' \in [1..N -> Message]
  BY <1>4, <1>6
<1>8. messages' \in Seq(Message) /\ DOMAIN messages' = 1..N
  BY <1>3, <1>7
<1>9. Drafted(d)
  <2>1. \A i \in 1..N : messages'[i] =
          [run |-> run, tick |-> tick', robot |-> ids[i], action |-> d[ids[i]],
           source |-> store[ids[i]].stamp]
    BY <1>4, <1>5
  <2>2. \A i \in 1..N : /\ messages'[i].run = run /\ messages'[i].tick = tick'
                         /\ messages'[i].robot = ids[i] /\ messages'[i].action = d[ids[i]]
                         /\ messages'[i].source = store[ids[i]].stamp
    <3> TAKE i \in 1..N
    <3> DEFINE m == messages'[i]
    <3>1. m = [run |-> run, tick |-> tick', robot |-> ids[i], action |-> d[ids[i]],
               source |-> store[ids[i]].stamp]
      BY <2>1
    <3> HIDE DEF m
    <3>2. /\ m.run = run /\ m.tick = tick' /\ m.robot = ids[i] /\ m.action = d[ids[i]]
          /\ m.source = store[ids[i]].stamp
      BY <3>1
    <3> QED
      BY <3>2 DEF m
  <2> QED
    BY <2>2, <1>3, <1>8 DEF Drafted
<1> QED
  BY <1>1, <1>8, <1>9

\* run_tick and _publish_with_retry: what a publication's outcome may change.
Outcome ==
    /\ UNCHANGED <<queue, sent, run, alive, stopping, closed, gathering, pending, consumer, delivery, store,
                   loop, due, tick, messages, trace>>
    /\ alive /\ loop = "publishing" /\ done < Len(messages)
    /\ actions' = actions \/ actions' = Delivered(InFlight)
    /\ \/ done' = done /\ failures' = failures
       \/ done' = done + 1 /\ failures' = failures /\ actions' = Delivered(InFlight)
       \/ done' = done + 1 /\ failures' = failures \cup {InFlight.robot}
    /\ \/ attempt' = 1
       \/ attempt < MaxAttempts /\ attempt' = attempt + 1

LEMMA PublishOutcome ==
    ASSUME PublishStep
    PROVE  Outcome
<1>1. CASE PublishConfirmed
  <2>1. /\ UNCHANGED <<queue, sent, run, alive, stopping, closed, gathering, pending, consumer, delivery, store,
                       loop, due, tick, messages, trace>>
        /\ alive /\ loop = "publishing" /\ done < Len(messages)
        /\ actions' = Delivered(InFlight) /\ failures' = failures
        /\ done' = done + 1 /\ attempt' = 1
    BY <1>1 DEF PublishConfirmed, Publishing, Runs, Underway, NextAction, processVars, consumerVars
  <2> QED
    BY <2>1 DEF Outcome
<1>2. ASSUME NEW reached, PublishRaises(reached) PROVE Outcome
  <2>1. /\ UNCHANGED <<queue, sent, run, alive, stopping, closed, gathering, pending, consumer, delivery, store,
                       loop, due, tick, messages, trace>>
        /\ alive /\ loop = "publishing" /\ done < Len(messages)
        /\ actions' = actions \/ actions' = Delivered(InFlight)
    BY <1>2 DEF PublishRaises, PublishFrame, Publishing, Runs, Underway, processVars, consumerVars
  <2>2. \/ attempt < MaxAttempts /\ attempt' = attempt + 1 /\ done' = done /\ failures' = failures
        \/ failures' = failures \cup {InFlight.robot} /\ done' = done + 1 /\ attempt' = 1
    BY <1>2 DEF PublishRaises, NextAction
  <2> QED
    BY <2>1, <2>2 DEF Outcome
<1> QED
  BY <1>1, <1>2 DEF PublishStep

\* The next action of a tick that is not through.
LEMMA InFlightTyped ==
    ASSUME ServiceInv, done < Len(messages)
    PROVE  /\ done + 1 \in DOMAIN messages /\ InFlight = messages[done + 1]
           /\ InFlight \in Message /\ InFlight.robot \in Robots /\ done \in Nat
<1>1. messages \in Seq(Message) /\ Len(messages) \in Nat /\ done \in 0..Len(messages)
      /\ DOMAIN messages = 1..Len(messages)
  BY LenProperties DEF ServiceInv, TypeOK
<1>2. done + 1 \in 1..Len(messages) /\ done \in Nat
  BY <1>1
<1>3. messages[done + 1] \in Message
  BY <1>1, <1>2, ElementOfSeq
<1> QED
  BY <1>1, <1>2, <1>3 DEF InFlight, Message

\* A delivered action is the last of its robot's queue; everything else stays.
LEMMA DeliveredIs ==
    ASSUME actions \in [Robots -> Seq(Message)], NEW m \in Message
    PROVE  /\ Delivered(m) \in [Robots -> Seq(Message)]
           /\ \A r \in Robots \ {m.robot} : Delivered(m)[r] = actions[r]
           /\ Len(actions[m.robot]) \in Nat
           /\ DOMAIN actions[m.robot] = 1..Len(actions[m.robot])
           /\ DOMAIN Delivered(m)[m.robot] = 1..Len(actions[m.robot]) + 1
           /\ \A i \in DOMAIN actions[m.robot] : Delivered(m)[m.robot][i] = actions[m.robot][i]
           /\ Delivered(m)[m.robot][Len(actions[m.robot]) + 1] = m
<1>1. m.robot \in Robots
  BY DEF Message
<1> DEFINE q == actions[m.robot]
<1>2. q \in Seq(Message) /\ Len(q) \in Nat /\ DOMAIN q = 1..Len(q)
  BY <1>1, LenProperties
<1>3. /\ Append(q, m) \in Seq(Message) /\ Len(Append(q, m)) = Len(q) + 1
      /\ \A i \in 1..Len(q) : Append(q, m)[i] = q[i]
      /\ Append(q, m)[Len(q) + 1] = m
  BY <1>2, AppendProperties
<1>4. DOMAIN Append(q, m) = 1..Len(q) + 1
  BY <1>3, LenProperties
<1>5. Delivered(m) = [actions EXCEPT ![m.robot] = Append(q, m)]
  BY DEF Delivered
<1> HIDE DEF q
<1>6. Delivered(m)[m.robot] = Append(q, m) /\ \A r \in Robots \ {m.robot} : Delivered(m)[r] = actions[r]
  BY <1>1, <1>5
<1>7. Delivered(m) \in [Robots -> Seq(Message)]
  BY <1>3, <1>5
<1> QED
  BY <1>2, <1>3, <1>4, <1>6, <1>7 DEF q

LEMMA LoopTypes ==
    ASSUME ServiceInv, TickStep \/ TickRaises \/ LoopEnds \/ PublishStep \/ EndTick \/ Elapse
    PROVE  ServiceInv'
<1>0. /\ TypeOK /\ messages \in Seq(Message) /\ Len(messages) \in Nat /\ done \in 0..Len(messages)
      /\ actions \in [Robots -> Seq(Message)]
  BY LenProperties DEF ServiceInv, TypeOK
<1>1. ASSUME NEW d \in Assignment, StartTick(d) PROVE ServiceInv'
  <2>1. /\ UNCHANGED <<queue, sent, actions, run, alive, stopping, closed, gathering, pending>>
        /\ UNCHANGED <<consumer, delivery, store, trace>>
        /\ due' = FALSE /\ done' = 0 /\ attempt' = 1 /\ failures' = {} /\ loop' = "publishing"
        /\ alive
    BY <1>1 DEF StartTick, Runs, brokerVars, processVars, consumerVars
  <2>2. messages' \in Seq(Message) /\ Len(messages') \in Nat /\ tick' \in 0..MaxTick
    BY <1>1, TickDrafts, LenProperties
  <2>3. 1 \in 1..MaxAttempts /\ 0 \in 0..Len(messages')
    BY <2>2, BoundsTyped
  <2>4. TypeOK'
    BY <2>1, <2>2, <2>3, <1>0 DEF TypeOK
  <2> QED
    BY <2>1, <2>4 DEF ServiceInv
<1>2. CASE PublishStep
  <2>1. Outcome
    BY <1>2, PublishOutcome
  <2>2. /\ InFlight \in Message /\ InFlight.robot \in Robots
        /\ done + 1 \in DOMAIN messages /\ DOMAIN messages = 1..Len(messages)
    BY <2>1, <1>0, InFlightTyped, LenProperties DEF Outcome
  <2>3. actions' \in [Robots -> Seq(Message)]
    BY <2>1, <2>2, <1>0, DeliveredIs DEF Outcome
  <2>4. done' \in 0..Len(messages')
    BY <2>1, <2>2, <1>0 DEF Outcome
  <2>5. failures' \subseteq Robots
    BY <2>1, <2>2, <1>0 DEF Outcome, TypeOK
  <2>6. attempt' \in 1..MaxAttempts
    BY <2>1, <1>0, BoundsTyped DEF Outcome, TypeOK
  <2>7. /\ UNCHANGED <<queue, sent, run, alive, stopping, closed, gathering, pending>>
        /\ UNCHANGED <<consumer, delivery, store, loop, due, tick, messages, trace>>
    BY <2>1 DEF Outcome
  <2>8. TypeOK'
    BY <2>3, <2>4, <2>5, <2>6, <2>7, <1>0 DEF TypeOK
  <2> QED
    BY <2>7, <2>8 DEF ServiceInv
<1>3. CASE EndTick
  <2>1. /\ UNCHANGED <<queue, sent, actions, run, alive, stopping, closed, gathering, pending>>
        /\ UNCHANGED <<consumer, delivery, store, due, tick, attempt, failures>>
        /\ trace' = [tick |-> tick, robots |-> {m.robot : m \in ToSet(messages)}, failed |-> failures]
        /\ alive /\ loop' \in {"sleeping", "ended"} /\ messages' = <<>> /\ done' = 0
    BY <1>3 DEF EndTick, Runs, brokerVars, processVars, consumerVars
  <2>2. {m.robot : m \in ToSet(messages)} \subseteq Robots
    <3>1. \A i \in DOMAIN messages : messages[i] \in Message
      BY <1>0, ElementOfSeq, LenProperties
    <3> QED
      BY <3>1 DEF ToSet, Message
  <2>3. trace' \in Trace
    BY <2>1, <2>2, <1>0 DEF Trace, TypeOK
  <2>4. messages' \in Seq(Message) /\ Len(messages') = 0 /\ done' \in 0..Len(messages')
    BY <2>1, EmptySeq
  <2>5. TypeOK'
    BY <2>1, <2>3, <2>4, <1>0 DEF TypeOK
  <2> QED
    BY <2>1, <2>5 DEF ServiceInv
<1>4. CASE Elapse
  <2>1. /\ UNCHANGED <<queue, sent, actions, run, alive, stopping, closed, gathering, pending>>
        /\ UNCHANGED <<consumer, delivery, loop, tick, messages, done, attempt, failures, trace>>
        /\ alive /\ due' = TRUE
        /\ store' = [r \in Robots |->
             IF r \in Known /\ ~Stale(r) THEN [store[r] EXCEPT !.age = @ + 1] ELSE store[r]]
    BY <1>4 DEF Elapse, brokerVars, processVars
  <2>2. ASSUME NEW r \in Robots
        PROVE  (IF r \in Known /\ ~Stale(r) THEN [store[r] EXCEPT !.age = @ + 1] ELSE store[r])
               \in Stored
    <3>1. store[r] \in Stored /\ store[r].age \in 0..StaleTicks
      BY <1>0 DEF TypeOK, Stored
    <3>2. ~Stale(r) => store[r].age + 1 \in 0..StaleTicks
      BY <3>1, BoundsTyped DEF Stale
    <3> QED
      BY <3>1, <3>2 DEF Stored
  <2>3. store' \in [Robots -> Stored]
    BY <2>1, <2>2
  <2>4. TypeOK'
    BY <2>1, <2>3, <1>0 DEF TypeOK
  <2> QED
    BY <2>1, <2>4 DEF ServiceInv
<1>5. CASE TickRaises \/ LoopEnds
  <2>1. /\ UNCHANGED <<queue, sent, actions, run, alive, stopping, closed, gathering, pending>>
        /\ UNCHANGED <<consumer, delivery, store, messages, done, attempt, failures, trace>>
        /\ alive /\ loop = "sleeping" /\ loop' \in {"failed", "ended"}
        /\ due' = FALSE \/ due' = due
        /\ (tick < MaxTick /\ tick' = tick + 1) \/ tick' = tick
    BY <1>5 DEF TickRaises, LoopEnds, Runs, brokerVars, processVars, consumerVars
  <2>2. due' \in BOOLEAN /\ tick' \in 0..MaxTick
    <3>1. due \in BOOLEAN /\ tick \in 0..MaxTick
      BY <1>0 DEF TypeOK
    <3>2. due' \in BOOLEAN
      BY <2>1, <3>1, Zenon
    <3>3. tick' \in 0..MaxTick
      BY <2>1, <3>1, BoundsTyped, SMT
    <3> QED
      BY <3>2, <3>3
  <2>3. TypeOK'
    BY <2>1, <2>2, <1>0 DEF TypeOK
  <2> QED
    BY <2>1, <2>3 DEF ServiceInv
<1> QED
  BY <1>1, <1>2, <1>3, <1>4, <1>5 DEF TickStep

\* A delivery that is not settled goes back to the queue.
LEMMA ReturnedTypes ==
    ASSUME ServiceInv, queue' = delivery \o queue, delivery' = <<>>
    PROVE  /\ queue' \in Seq(State) /\ delivery' \in Seq(State) /\ Len(delivery') = 0
           /\ Len(queue') <= MaxQueue + 1 /\ Len(delivery') + Len(queue') <= MaxQueue + 1
<1>1. /\ queue \in Seq(State) /\ delivery \in Seq(State)
      /\ Len(queue) \in Nat /\ Len(delivery) \in Nat
      /\ Len(delivery) + Len(queue) <= MaxQueue + 1
  BY LenProperties DEF ServiceInv, TypeOK
<1>2. queue' \in Seq(State) /\ Len(queue') = Len(delivery) + Len(queue)
  BY <1>1, ConcatProperties
<1>3. delivery' \in Seq(State) /\ Len(delivery') = 0
  BY EmptySeq
<1> QED
  BY <1>1, <1>2, <1>3, BoundsTyped

\* What an abandoned publication leaves behind.
LEMMA AbandonedTypes ==
    ASSUME ServiceInv, Abandoned
    PROVE  /\ actions' \in [Robots -> Seq(Message)]
           /\ actions' = actions \/ (done < Len(messages) /\ actions' = Delivered(InFlight))
<1>0. actions \in [Robots -> Seq(Message)]
  BY DEF ServiceInv, TypeOK
<1>1. CASE actions' = actions
  BY <1>0, <1>1
<1>2. CASE Underway /\ actions' = Delivered(InFlight)
  BY <1>0, <1>2, InFlightTyped, DeliveredIs DEF Underway
<1> QED
  BY <1>1, <1>2 DEF Abandoned

\* run() and the process.
LEMMA ProcessTypes ==
    ASSUME ServiceInv,
           \/ RequestStop \/ Close \/ CancelTasks \/ ConsumerCancelled \/ DecisionCancelled
           \/ Exit \/ Crash \/ Restart \/ UNCHANGED vars
    PROVE  ServiceInv'
<1>0. /\ TypeOK /\ queue \in Seq(State) /\ delivery \in Seq(State)
      /\ messages \in Seq(Message) /\ pending \subseteq {CONSUMER, DECISION}
  BY DEF ServiceInv, TypeOK
<1>1. CASE RequestStop \/ Close \/ CancelTasks \/ UNCHANGED vars
  <2>1. /\ UNCHANGED <<queue, sent, actions, run, alive, consumer, delivery, store>>
        /\ UNCHANGED <<loop, due, tick, messages, done, attempt, failures, trace>>
        /\ stopping' \in {stopping, TRUE} /\ closed' \in {closed, TRUE}
        /\ gathering' \in {gathering, TRUE} /\ pending' \subseteq {CONSUMER, DECISION}
    BY <1>0, <1>1 DEF RequestStop, Close, CancelTasks, Unfinished, vars, brokerVars, processVars,
                      consumerVars, loopVars
  <2>2. TypeOK'
    BY <2>1, <1>0 DEF TypeOK
  <2> QED
    BY <2>1, <2>2 DEF ServiceInv
<1>2. CASE Halt
  <2>1. /\ alive' = FALSE /\ stopping' = FALSE /\ closed' = FALSE /\ due' = TRUE
        /\ gathering' = FALSE /\ pending' = {}
        /\ queue' = delivery \o queue /\ consumer' = "receiving" /\ delivery' = <<>>
        /\ loop' = "sleeping" /\ tick' = 0 /\ messages' = <<>> /\ done' = 0
        /\ attempt' = 1 /\ failures' = {} /\ trace' = NoTrace /\ UNCHANGED <<sent, run>>
        /\ store' = [r \in Robots |-> Unknown] /\ Abandoned
    BY <1>2 DEF Halt
  <2>2. /\ queue' \in Seq(State) /\ delivery' \in Seq(State) /\ Len(delivery') = 0
        /\ Len(queue') <= MaxQueue + 1 /\ Len(delivery') + Len(queue') <= MaxQueue + 1
    BY <2>1, ReturnedTypes
  <2>3. messages' \in Seq(Message) /\ Len(messages') = 0
    BY <2>1, EmptySeq
  <2>4. actions' \in [Robots -> Seq(Message)]
    BY <2>1, AbandonedTypes
  <2>5. store' \in [Robots -> Stored] /\ trace' \in Trace
    BY <2>1, UnknownTyped
  <2>6. 0 \in 0..MaxTick /\ 1 \in 1..MaxAttempts /\ done' \in 0..Len(messages')
    BY <2>1, <2>3, BoundsTyped
  <2>7. TypeOK'
    BY <2>1, <2>2, <2>3, <2>4, <2>5, <2>6, <1>0 DEF TypeOK
  <2> QED
    BY <2>1, <2>2, <2>7 DEF ServiceInv
<1>3. CASE Restart
  <2>1. /\ UNCHANGED <<queue, sent, actions, stopping, closed, gathering, pending>>
        /\ UNCHANGED <<consumer, delivery, store, loop, due, tick, messages, done, attempt, failures, trace>>
        /\ ~alive /\ alive' = TRUE /\ run < MaxRun /\ run' = run + 1
    BY <1>3 DEF Restart, brokerVars, consumerVars, loopVars
  <2>2. run' \in 1..MaxRun
    BY <2>1, <1>0, BoundsTyped DEF TypeOK
  <2>3. TypeOK'
    BY <2>1, <2>2, <1>0 DEF TypeOK
  <2> QED
    BY <2>1, <2>3 DEF ServiceInv
<1>4. CASE ConsumerCancelled
  <2>1. /\ UNCHANGED <<sent, actions, run, alive, stopping, closed, gathering, store>>
        /\ UNCHANGED <<loop, due, tick, messages, done, attempt, failures, trace>>
        /\ pending' \subseteq pending /\ consumer' = "cancelled"
        /\ queue' = delivery \o queue /\ delivery' = <<>>
    BY <1>4 DEF ConsumerCancelled, loopVars
  <2>2. /\ queue' \in Seq(State) /\ delivery' \in Seq(State) /\ Len(delivery') = 0
        /\ Len(queue') <= MaxQueue + 1 /\ Len(delivery') + Len(queue') <= MaxQueue + 1
    BY <2>1, ReturnedTypes
  <2>3. TypeOK'
    BY <2>1, <2>2, <1>0 DEF TypeOK
  <2> QED
    BY <2>1, <2>2, <2>3 DEF ServiceInv
<1>5. CASE DecisionCancelled
  <2>1. /\ UNCHANGED <<queue, sent, run, alive, stopping, closed, gathering>>
        /\ UNCHANGED <<consumer, delivery, store, due, tick, attempt, failures, trace>>
        /\ pending' \subseteq pending /\ alive /\ loop' = "cancelled" /\ Abandoned
        /\ messages' = <<>> /\ done' = 0
    BY <1>5 DEF DecisionCancelled, consumerVars
  <2>2. /\ messages' \in Seq(Message) /\ Len(messages') = 0 /\ done' \in 0..Len(messages')
        /\ actions' \in [Robots -> Seq(Message)]
    BY <2>1, EmptySeq, AbandonedTypes
  <2>3. TypeOK'
    BY <2>1, <2>2, <1>0 DEF TypeOK
  <2> QED
    BY <2>1, <2>3 DEF ServiceInv
<1> QED
  BY <1>1, <1>2, <1>3, <1>4, <1>5 DEF Exit, Crash

LEMMA ServiceStep == ServiceInv /\ [Next]_vars => ServiceInv'
<1> SUFFICES ASSUME ServiceInv, [Next]_vars PROVE ServiceInv'
  OBVIOUS
<1>1. ASSUME NEW s \in State, Send(s) PROVE ServiceInv'
  BY <1>1, SendTypes
<1>2. CASE Receive \/ SettleStep \/ ConsumerEnds
  BY <1>2, ConsumerTypes
<1>3. CASE TickStep \/ TickRaises \/ LoopEnds \/ PublishStep \/ EndTick \/ Elapse
  BY <1>3, LoopTypes
<1>4. CASE \/ RequestStop \/ Close \/ CancelTasks \/ ConsumerCancelled \/ DecisionCancelled
           \/ Exit \/ Crash \/ Restart \/ UNCHANGED vars
  BY <1>4, ProcessTypes
<1> QED
  BY <1>1, <1>2, <1>3, <1>4 DEF Next

\* Every variable keeps its type, in every run of the process.
THEOREM ServiceTypeCorrect == Spec => []TypeOK
<1>1. ServiceInv => TypeOK
  BY DEF ServiceInv
<1> QED
  BY <1>1, ServiceInit, ServiceStep, PTL DEF Spec
-----------------------------------------------------------------------------
(* The action queues.                                                      *)

\* What is queued is no newer than the process: in its own run, no later than its
\* tick and decided on no newer state than the one it stores.
QueuedBehind ==
    \A r \in Robots : \A i \in DOMAIN actions[r] :
        /\ actions[r][i].run <= run
        /\ alive /\ actions[r][i].run = run =>
             actions[r][i].tick <= tick /\ actions[r][i].source <= store[r].stamp

\* What is to be published belongs to this tick, one message per robot, and what its
\* robot has queued in this run is either that very message or an older decision.
PendingAhead ==
    \A i \in DOMAIN messages :
        /\ messages[i].robot \in Robots /\ messages[i].run = run /\ messages[i].tick = tick
        /\ messages[i].source <= store[messages[i].robot].stamp
        /\ \A j \in DOMAIN messages : messages[j].robot = messages[i].robot => i = j
        /\ \A k \in DOMAIN actions[messages[i].robot] :
             LET a == actions[messages[i].robot][k]
             IN a.run = run =>
                  a = messages[i] \/ (a.tick < tick /\ a.source <= messages[i].source)

OrderInv ==
    /\ QueuedBehind
    /\ PendingAhead
    /\ IdentityUnique
    /\ QueueOrder

\* The steps after which the tick stands where it stood and no robot's state is older.
Quiet ==
    /\ UNCHANGED <<actions, run, alive, tick, messages, done, failures, trace>>
    /\ \A r \in Robots : store[r].stamp <= store'[r].stamp

LEMMA QuietSteps ==
    ASSUME ServiceInv,
           \/ (\E s \in State : Send(s)) \/ Elapse \/ RequestStop \/ Close
           \/ Receive \/ SettleStep \/ ConsumerEnds \/ LoopEnds \/ CancelTasks
           \/ ConsumerCancelled \/ UNCHANGED vars
    PROVE  Quiet
<1>0. TypeOK /\ \A r \in Robots : store[r] \in Stored /\ store[r].stamp \in 0..MaxStamp
  BY DEF ServiceInv, TypeOK, Stored
<1>1. \A r \in Robots : store[r].stamp <= store[r].stamp
  BY <1>0, BoundsTyped
<1>2. CASE (\E s \in State : Send(s)) \/ RequestStop \/ Close \/ SettleStep \/ ConsumerEnds
           \/ LoopEnds \/ CancelTasks \/ ConsumerCancelled \/ UNCHANGED vars
  <2>1. /\ UNCHANGED <<actions, run, alive, tick, messages, done, failures, trace>>
        /\ UNCHANGED store
    BY <1>2 DEF Send, RequestStop, Close, SettleStep, Settle, SettleRaises, ConsumerEnds, LoopEnds,
                CancelTasks, ConsumerCancelled, vars, brokerVars, processVars, consumerVars, loopVars
  <2> QED
    BY <1>1, <2>1 DEF Quiet
<1>3. CASE Elapse
  <2>1. /\ UNCHANGED <<actions, run, alive, tick, messages, done, failures, trace>>
        /\ store' = [r \in Robots |->
             IF r \in Known /\ ~Stale(r) THEN [store[r] EXCEPT !.age = @ + 1] ELSE store[r]]
    BY <1>3 DEF Elapse, brokerVars, processVars
  <2>2. ASSUME NEW r \in Robots PROVE store'[r].stamp = store[r].stamp
    <3>1. store'[r] = IF r \in Known /\ ~Stale(r) THEN [store[r] EXCEPT !.age = @ + 1]
                                                  ELSE store[r]
      BY <2>1
    <3>2. [store[r] EXCEPT !.age = @ + 1].stamp = store[r].stamp
      BY <1>0 DEF Stored
    <3> QED
      BY <3>1, <3>2
  <2> QED
    BY <1>1, <2>1, <2>2 DEF Quiet
<1>4. CASE Receive
  <2>1. /\ UNCHANGED <<actions, run, alive, tick, messages, done, failures, trace>>
        /\ queue # <<>> /\ store' = Updated(Head(queue))
    BY <1>4 DEF Receive, processVars, loopVars
  <2>2. Head(queue) \in State
    BY <2>1, <1>0, HeadTailProperties DEF TypeOK
  <2> QED
    BY <2>1, <2>2, <1>0, UpdatedTypes DEF Quiet
<1> QED
  BY <1>2, <1>3, <1>4

\* What a queue or a message carries.
LEMMA QueueTyped ==
    ASSUME ServiceInv
    PROVE  /\ run \in Nat /\ tick \in Nat /\ actions \in [Robots -> Seq(Message)]
           /\ \A r \in Robots : store[r].stamp \in Nat
           /\ \A r \in Robots : \A i \in DOMAIN actions[r] :
                /\ actions[r][i] \in Message
                /\ actions[r][i].run \in Nat /\ actions[r][i].tick \in Nat
                /\ actions[r][i].source \in Nat
           /\ \A i \in DOMAIN messages :
                /\ messages[i] \in Message /\ messages[i].robot \in Robots
                /\ messages[i].source \in Nat
<1>1. \A m \in Message : /\ m.run \in Nat /\ m.tick \in Nat /\ m.source \in Nat
                         /\ m.robot \in Robots
  BY BoundsTyped DEF Message
<1>2. /\ run \in Nat /\ tick \in Nat /\ actions \in [Robots -> Seq(Message)]
      /\ messages \in Seq(Message) /\ \A r \in Robots : store[r].stamp \in Nat
  BY BoundsTyped DEF ServiceInv, TypeOK, Stored
<1>3. \A r \in Robots : \A i \in DOMAIN actions[r] : actions[r][i] \in Message
  BY <1>2, ElementOfSeq, LenProperties
<1>4. \A i \in DOMAIN messages : messages[i] \in Message
  BY <1>2, ElementOfSeq, LenProperties
<1> QED
  BY <1>1, <1>2, <1>3, <1>4

LEMMA OrderInit == Init => OrderInv
<1> SUFFICES ASSUME Init PROVE OrderInv
  OBVIOUS
<1>1. /\ \A r \in Robots : actions[r] = <<>>
      /\ messages = <<>>
  BY DEF Init
<1>2. DOMAIN <<>> = {}
  BY EmptySeq
<1> QED
  BY <1>1, <1>2 DEF OrderInv, QueuedBehind, PendingAhead, IdentityUnique, QueueOrder

\* After a publication reached the broker, the queues hold what they held and, last
\* in its robot's queue, the action published.
LEMMA QueuesAfter ==
    ASSUME ServiceInv, done < Len(messages), actions' = Delivered(InFlight),
           NEW r \in Robots
    PROVE  /\ Len(actions[r]) \in Nat /\ DOMAIN actions[r] = 1..Len(actions[r])
           /\ \A i \in DOMAIN actions[r] : i \in DOMAIN actions'[r] /\ actions'[r][i] = actions[r][i]
           /\ \A i \in DOMAIN actions'[r] \ DOMAIN actions[r] :
                /\ r = InFlight.robot /\ i = Len(actions[r]) + 1 /\ actions'[r][i] = InFlight
           /\ r = InFlight.robot => \E i \in DOMAIN actions'[r] : actions'[r][i] = InFlight
<1>1. InFlight \in Message /\ actions \in [Robots -> Seq(Message)]
  BY InFlightTyped DEF ServiceInv, TypeOK
<1>2. Len(actions[r]) \in Nat /\ DOMAIN actions[r] = 1..Len(actions[r])
  BY <1>1, LenProperties
<1> DEFINE n == Len(actions[r])
<1>3. CASE r = InFlight.robot
  <2>1. /\ DOMAIN actions'[r] = 1..n + 1 /\ actions'[r][n + 1] = InFlight
        /\ \A i \in 1..n : actions'[r][i] = actions[r][i]
    BY <1>1, <1>2, <1>3, DeliveredIs
  <2>2. 1..n \subseteq 1..n + 1 /\ \A i \in (1..n + 1) \ (1..n) : i = n + 1
    BY <1>2
  <2>3. n + 1 \in 1..n + 1
    BY <1>2
  <2> HIDE DEF n
  <2>4. DOMAIN actions[r] = 1..n
    BY <1>2 DEF n
  <2> QED
    BY <1>2, <1>3, <2>1, <2>2, <2>3, <2>4 DEF n
<1>4. CASE r # InFlight.robot
  <2>1. actions'[r] = actions[r]
    BY <1>1, <1>4, DeliveredIs
  <2> QED
    BY <1>2, <1>4, <2>1
<1> QED
  BY <1>3, <1>4

LEMMA DeliveryOrdered ==
    ASSUME ServiceInv, OrderInv, done < Len(messages), actions' = Delivered(InFlight),
           run' = run, alive
    PROVE  IdentityUnique' /\ QueueOrder' /\ \A r \in Robots : \A i \in DOMAIN actions'[r] :
             actions'[r][i].run <= run
<1> DEFINE m == InFlight
           q(r) == actions[r]
<1>1. /\ done + 1 \in DOMAIN messages /\ m = messages[done + 1] /\ m \in Message
      /\ m.robot \in Robots /\ m.run = run /\ m.tick = tick
      /\ m.source <= store[m.robot].stamp
  BY InFlightTyped DEF OrderInv, PendingAhead
<1>2. \A k \in DOMAIN q(m.robot) : q(m.robot)[k].run = run =>
        q(m.robot)[k] = m \/ (q(m.robot)[k].tick < tick /\ q(m.robot)[k].source <= m.source)
  BY <1>1 DEF OrderInv, PendingAhead
<1>3. \A r \in Robots : \A i \in DOMAIN q(r) :
        /\ q(r)[i].run \in Nat /\ q(r)[i].tick \in Nat /\ q(r)[i].source \in Nat
        /\ q(r)[i].run <= run
  BY QueueTyped DEF OrderInv, QueuedBehind
<1>4. run \in Nat /\ tick \in Nat /\ m.source \in Nat
  BY <1>1, QueueTyped
<1>5. \A r \in Robots :
        /\ Len(q(r)) \in Nat /\ DOMAIN q(r) = 1..Len(q(r))
        /\ \A i \in DOMAIN q(r) : actions'[r][i] = q(r)[i]
        /\ \A i \in DOMAIN actions'[r] \ DOMAIN q(r) :
             r = m.robot /\ i = Len(q(r)) + 1 /\ actions'[r][i] = m
  BY QueuesAfter
<1> HIDE DEF m
<1>6. ASSUME NEW r \in Robots, NEW i \in DOMAIN actions'[r], NEW j \in DOMAIN actions'[r],
             actions'[r][i].run = actions'[r][j].run, actions'[r][i].tick = actions'[r][j].tick
      PROVE  actions'[r][i] = actions'[r][j]
  <2>1. CASE i \in DOMAIN q(r) /\ j \in DOMAIN q(r)
    BY <1>5, <1>6, <2>1 DEF OrderInv, IdentityUnique
  <2>2. CASE i \in DOMAIN q(r) /\ j \notin DOMAIN q(r)
    <3>1. r = m.robot /\ actions'[r][j] = m /\ actions'[r][i] = q(r)[i]
      BY <1>5, <2>2
    <3>2. q(r)[i].run = run /\ q(r)[i].tick = tick
      BY <3>1, <1>1, <1>6
    <3> QED
      BY <3>1, <3>2, <1>2, <1>4, <2>2
  <2>3. CASE i \notin DOMAIN q(r) /\ j \in DOMAIN q(r)
    <3>1. r = m.robot /\ actions'[r][i] = m /\ actions'[r][j] = q(r)[j]
      BY <1>5, <2>3
    <3>2. q(r)[j].run = run /\ q(r)[j].tick = tick
      BY <3>1, <1>1, <1>6
    <3> QED
      BY <3>1, <3>2, <1>2, <1>4, <2>3
  <2>4. CASE i \notin DOMAIN q(r) /\ j \notin DOMAIN q(r)
    BY <1>5, <2>4
  <2> QED
    BY <2>1, <2>2, <2>3, <2>4
<1>7. ASSUME NEW r \in Robots, NEW i \in DOMAIN actions'[r], NEW j \in DOMAIN actions'[r], i < j
      PROVE  \/ actions'[r][i].run < actions'[r][j].run
             \/ /\ actions'[r][i].run = actions'[r][j].run
                /\ actions'[r][i].tick <= actions'[r][j].tick
                /\ actions'[r][i].source <= actions'[r][j].source
  <2>1. CASE i \in DOMAIN q(r) /\ j \in DOMAIN q(r)
    BY <1>5, <1>7, <2>1 DEF OrderInv, QueueOrder
  <2>2. CASE i \in DOMAIN q(r) /\ j \notin DOMAIN q(r)
    <3>1. r = m.robot /\ actions'[r][j] = m /\ actions'[r][i] = q(r)[i]
      BY <1>5, <2>2
    <3>2. CASE q(r)[i].run = run
      <4>1. q(r)[i] = m \/ (q(r)[i].tick < tick /\ q(r)[i].source <= m.source)
        BY <3>1, <3>2, <1>2, <2>2
      <4>2. m.run = run /\ m.tick = tick /\ q(r)[i].tick \in Nat
        BY <1>1, <1>3, <2>2
      <4>3. q(r)[i].tick <= m.tick /\ q(r)[i].source <= m.source
        BY <4>1, <4>2, <1>4
      <4> QED
        BY <4>2, <4>3, <3>1, <3>2
    <3>3. CASE q(r)[i].run # run
      BY <3>1, <3>3, <1>1, <1>3, <1>4, <2>2
    <3> QED
      BY <3>2, <3>3
  <2>3. CASE i \notin DOMAIN q(r)
    <3>1. i = Len(q(r)) + 1 /\ (j \in DOMAIN q(r) \/ j = Len(q(r)) + 1) /\ Len(q(r)) \in Nat
          /\ DOMAIN q(r) = 1..Len(q(r))
      BY <1>5, <2>3
    <3> HIDE DEF q
    <3>2. j \in 1..Len(q(r)) \/ j = Len(q(r)) + 1
      BY <3>1
    <3>3. ~(i < j)
      BY <3>1, <3>2
    <3> QED
      BY <3>3, <1>7
  <2> QED
    BY <2>1, <2>2, <2>3
<1>8. \A r \in Robots : \A i \in DOMAIN actions'[r] : actions'[r][i].run <= run
  BY <1>1, <1>3, <1>4, <1>5
<1> QED
  BY <1>6, <1>7, <1>8 DEF IdentityUnique, QueueOrder

LEMMA OrderQuiet ==
    ASSUME ServiceInv, ServiceInv', OrderInv, Quiet
    PROVE  OrderInv'
<1>1. /\ UNCHANGED <<actions, run, alive, tick, messages>>
      /\ \A r \in Robots : store[r].stamp <= store'[r].stamp
  BY DEF Quiet
<1>2. \A r \in Robots : store[r].stamp \in Nat /\ store'[r].stamp \in Nat
  <2>1. store \in [Robots -> Stored] /\ store' \in [Robots -> Stored]
    BY DEF ServiceInv, TypeOK
  <2> QED
    BY <2>1, BoundsTyped DEF Stored
<1>3. /\ \A r \in Robots : \A i \in DOMAIN actions[r] : actions[r][i].source \in Nat
      /\ \A i \in DOMAIN messages : messages[i].robot \in Robots /\ messages[i].source \in Nat
  BY QueueTyped
<1>4. QueuedBehind'
  <2>1. ASSUME NEW r \in Robots, NEW i \in DOMAIN actions[r], alive, actions[r][i].run = run
        PROVE  actions[r][i].source <= store'[r].stamp
    <3>1. actions[r][i].source <= store[r].stamp
      BY <2>1 DEF OrderInv, QueuedBehind
    <3> QED
      BY <3>1, <1>1, <1>2, <1>3
  <2> QED
    BY <2>1, <1>1 DEF OrderInv, QueuedBehind
<1>5. PendingAhead'
  <2>1. ASSUME NEW i \in DOMAIN messages
        PROVE  messages[i].source <= store'[messages[i].robot].stamp
    <3>1. messages[i].source <= store[messages[i].robot].stamp
      BY DEF OrderInv, PendingAhead
    <3> QED
      BY <3>1, <1>1, <1>2, <1>3
  <2> QED
    BY <2>1, <1>1 DEF OrderInv, PendingAhead
<1> QED
  BY <1>1, <1>4, <1>5 DEF OrderInv, IdentityUnique, QueueOrder

LEMMA OrderStartTick ==
    ASSUME ServiceInv, OrderInv, NEW d \in Assignment, StartTick(d)
    PROVE  OrderInv'
<1>1. /\ messages' \in Seq(Message) /\ Drafted(d) /\ tick' = tick + 1 /\ tick \in Nat
  BY TickDrafts
<1>2. /\ alive /\ UNCHANGED <<actions, run, alive, store>>
  BY DEF StartTick, Runs, brokerVars, processVars, consumerVars
<1>3. /\ \A r \in Robots : store[r].stamp \in Nat
      /\ \A r \in Robots : \A i \in DOMAIN actions[r] :
           actions[r][i].tick \in Nat /\ actions[r][i].source \in Nat
  BY QueueTyped
<1>4. \A r \in Robots : \A i \in DOMAIN actions[r] :
        /\ actions[r][i].run <= run
        /\ actions[r][i].run = run => actions[r][i].tick < tick' /\ actions[r][i].source <= store[r].stamp
  BY <1>1, <1>2, <1>3 DEF OrderInv, QueuedBehind
<1>5. QueuedBehind'
  BY <1>1, <1>2, <1>3, <1>4 DEF QueuedBehind
<1>6. PendingAhead'
  <2>1. ASSUME NEW i \in DOMAIN messages'
        PROVE  /\ messages'[i].robot \in Robots
               /\ messages'[i].run = run' /\ messages'[i].tick = tick'
               /\ messages'[i].source = store'[messages'[i].robot].stamp
               /\ \A j \in DOMAIN messages' : messages'[j].robot = messages'[i].robot => i = j
    BY <1>1, <1>2, <2>1 DEF Drafted
  <2> QED
    BY <2>1, <1>2, <1>3, <1>4 DEF PendingAhead
<1> QED
  BY <1>2, <1>5, <1>6 DEF OrderInv, IdentityUnique, QueueOrder

LEMMA OrderPublish ==
    ASSUME ServiceInv, OrderInv, Outcome
    PROVE  OrderInv'
<1>1. /\ UNCHANGED <<run, alive, tick, messages, store>> /\ alive /\ done < Len(messages)
  BY DEF Outcome
<1>2. CASE actions' = actions
  BY <1>1, <1>2 DEF OrderInv, QueuedBehind, PendingAhead, IdentityUnique, QueueOrder
<1>3. CASE actions' = Delivered(InFlight)
  <2> DEFINE m == InFlight
             k == done + 1
  <2>1. IdentityUnique' /\ QueueOrder'
    BY <1>1, <1>3, DeliveryOrdered
  <2>2. /\ k \in DOMAIN messages /\ m = messages[k] /\ m.robot \in Robots /\ m.run = run
        /\ m.tick = tick /\ m.source <= store[m.robot].stamp
    BY <1>1, InFlightTyped DEF OrderInv, PendingAhead
  <2>3. \A r \in Robots : \A i \in DOMAIN actions'[r] :
          \/ i \in DOMAIN actions[r] /\ actions'[r][i] = actions[r][i]
          \/ r = m.robot /\ actions'[r][i] = m
    BY <1>1, <1>3, QueuesAfter
  <2>4. run \in Nat /\ tick \in Nat
    BY QueueTyped
  <2> HIDE DEF m, k
  <2>5. QueuedBehind'
    BY <2>2, <2>3, <2>4, <1>1 DEF OrderInv, QueuedBehind
  <2>6. ASSUME NEW i \in DOMAIN messages,
               NEW j \in DOMAIN actions'[messages[i].robot],
               actions'[messages[i].robot][j].run = run
        PROVE  LET a == actions'[messages[i].robot][j]
               IN a = messages[i] \/ (a.tick < tick /\ a.source <= messages[i].source)
    <3>1. messages[i].robot \in Robots
      BY DEF OrderInv, PendingAhead
    <3>2. CASE /\ j \in DOMAIN actions[messages[i].robot]
               /\ actions'[messages[i].robot][j] = actions[messages[i].robot][j]
      BY <2>6, <3>2 DEF OrderInv, PendingAhead
    <3>3. CASE messages[i].robot = m.robot /\ actions'[messages[i].robot][j] = m
      <4>1. i = k
        BY <2>2, <3>3 DEF OrderInv, PendingAhead
      <4> QED
        BY <4>1, <3>3, <2>2
    <3> QED
      BY <2>3, <3>1, <3>2, <3>3
  <2>7. PendingAhead'
    BY <2>6, <1>1 DEF OrderInv, PendingAhead
  <2> QED
    BY <2>1, <2>5, <2>7 DEF OrderInv
<1> QED
  BY <1>2, <1>3 DEF Outcome

LEMMA OrderEndTick ==
    ASSUME ServiceInv, OrderInv, EndTick
    PROVE  OrderInv'
<1>1. UNCHANGED <<actions, run, alive, tick, store>> /\ messages' = <<>>
  BY DEF EndTick, brokerVars, processVars, consumerVars
<1>2. DOMAIN messages' = {}
  BY <1>1, EmptySeq
<1> QED
  BY <1>1, <1>2 DEF OrderInv, QueuedBehind, PendingAhead, IdentityUnique, QueueOrder

\* decide raises: a tick without messages.
LEMMA OrderTickRaises ==
    ASSUME ServiceInv, OrderInv, TickRaises
    PROVE  OrderInv'
<1>1. /\ UNCHANGED <<actions, run, alive, store, messages>> /\ tick' = tick + 1
      /\ loop = "sleeping"
  BY DEF TickRaises, brokerVars, processVars, consumerVars
<1>2. messages' = <<>> /\ DOMAIN <<>> = {}
  BY <1>1, EmptySeq DEF ServiceInv
<1>3. tick \in Nat /\ \A r \in Robots : \A i \in DOMAIN actions[r] : actions[r][i].tick \in Nat
  BY QueueTyped
<1>4. QueuedBehind'
  BY <1>1, <1>3 DEF OrderInv, QueuedBehind
<1> QED
  BY <1>1, <1>2, <1>4 DEF OrderInv, PendingAhead, IdentityUnique, QueueOrder

\* A tick is given up, together with the process or before it.
LEMMA OrderGivenUp ==
    ASSUME ServiceInv, OrderInv, Halt \/ DecisionCancelled
    PROVE  OrderInv'
<1>1. /\ alive /\ run' = run /\ messages' = <<>> /\ Abandoned
      /\ ~alive' \/ UNCHANGED <<alive, tick, store>>
  BY DEF Halt, DecisionCancelled, consumerVars
<1>2. DOMAIN messages' = {}
  BY <1>1, EmptySeq
<1>3. actions' = actions \/ (done < Len(messages) /\ actions' = Delivered(InFlight))
  BY <1>1, AbandonedTypes
<1>4. /\ IdentityUnique' /\ QueueOrder'
      /\ \A r \in Robots : \A i \in DOMAIN actions'[r] : actions'[r][i].run <= run
  <2>1. CASE actions' = actions
    BY <2>1 DEF OrderInv, QueuedBehind, IdentityUnique, QueueOrder
  <2>2. CASE done < Len(messages) /\ actions' = Delivered(InFlight)
    BY <2>2, <1>1, DeliveryOrdered
  <2> QED
    BY <1>3, <2>1, <2>2
<1>5. QueuedBehind'
  <2>1. CASE ~alive'
    BY <2>1, <1>1, <1>4 DEF QueuedBehind
  <2>2. CASE UNCHANGED <<alive, tick, store>>
    <3>1. CASE actions' = actions
      BY <2>2, <3>1, <1>1 DEF OrderInv, QueuedBehind
    <3>2. CASE done < Len(messages) /\ actions' = Delivered(InFlight)
      <4>1. \A r \in Robots : \A i \in DOMAIN actions'[r] :
              \/ i \in DOMAIN actions[r] /\ actions'[r][i] = actions[r][i]
              \/ r = InFlight.robot /\ actions'[r][i] = InFlight
        BY <3>2, QueuesAfter
      <4>2. InFlight.tick = tick /\ InFlight.source <= store[InFlight.robot].stamp /\ tick \in Nat
        BY <3>2, InFlightTyped, QueueTyped DEF OrderInv, PendingAhead
      <4> QED
        BY <2>2, <4>1, <4>2, <1>1, <1>4 DEF OrderInv, QueuedBehind
    <3> QED
      BY <1>3, <3>1, <3>2
  <2> QED
    BY <1>1, <2>1, <2>2
<1> QED
  BY <1>2, <1>4, <1>5 DEF OrderInv, PendingAhead

LEMMA OrderRestart ==
    ASSUME ServiceInv, OrderInv, Restart
    PROVE  OrderInv'
<1>1. UNCHANGED <<actions, messages, loop>> /\ ~alive /\ run' = run + 1
  BY DEF Restart, brokerVars, loopVars
<1>2. messages' = <<>> /\ DOMAIN <<>> = {}
  BY <1>1, EmptySeq DEF ServiceInv
<1>3. run \in Nat /\ \A r \in Robots : \A i \in DOMAIN actions[r] : actions[r][i].run \in Nat
  BY QueueTyped
<1>4. QueuedBehind'
  BY <1>1, <1>3 DEF OrderInv, QueuedBehind
<1> QED
  BY <1>1, <1>2, <1>4 DEF OrderInv, PendingAhead, IdentityUnique, QueueOrder

LEMMA OrderStep == ServiceInv /\ OrderInv /\ [Next]_vars => OrderInv'
<1> SUFFICES ASSUME ServiceInv, OrderInv, [Next]_vars PROVE OrderInv'
  OBVIOUS
<1>1. CASE \/ (\E s \in State : Send(s)) \/ Elapse \/ RequestStop \/ Close
           \/ Receive \/ SettleStep \/ ConsumerEnds \/ LoopEnds \/ CancelTasks
           \/ ConsumerCancelled \/ UNCHANGED vars
  BY <1>1, QuietSteps, ServiceStep, OrderQuiet
<1>2. CASE TickStep
  BY <1>2, OrderStartTick DEF TickStep
<1>3. CASE PublishStep
  BY <1>3, PublishOutcome, OrderPublish
<1>4. CASE EndTick
  BY <1>4, OrderEndTick
<1>5. CASE Halt \/ DecisionCancelled
  BY <1>5, OrderGivenUp
<1>6. CASE Restart
  BY <1>6, OrderRestart
<1>7. CASE TickRaises
  BY <1>7, OrderTickRaises
<1> QED
  BY <1>1, <1>2, <1>3, <1>4, <1>5, <1>6, <1>7 DEF Next, Exit, Crash

\* However publications fail, are retried or are confirmed late, and however often the
\* process is restarted: run_id, robot and tick_id identify one action.
THEOREM IdentityTheorem == Spec => []IdentityUnique
<1>1. OrderInv => IdentityUnique
  BY DEF OrderInv
<1> QED
  BY <1>1, ServiceInit, ServiceStep, OrderInit, OrderStep, PTL DEF Spec

\* A robot that applies its queue in order is never sent back to an earlier run, an
\* earlier tick or a decision on an older state.
THEOREM QueueOrderTheorem == Spec => []QueueOrder
<1>1. OrderInv => QueueOrder
  BY DEF OrderInv
<1> QED
  BY <1>1, ServiceInit, ServiceStep, OrderInit, OrderStep, PTL DEF Spec
-----------------------------------------------------------------------------
(* The logged trace.                                                       *)

\* A publication with an outcome is in its robot's queue or counted as failed.
Accounted(i) ==
    \/ messages[i].robot \in failures
    \/ \E k \in DOMAIN actions[messages[i].robot] : actions[messages[i].robot][k] = messages[i]

TraceInv ==
    /\ \A i \in 1..done : Accounted(i)
    /\ TraceTruthful

\* TraceTruthful, read through the positions of a queue.
LEMMA TraceTruthfulIs ==
    TraceTruthful <=>
        \A r \in trace.robots \ trace.failed : \E k \in DOMAIN actions[r] :
            actions[r][k].run = run /\ actions[r][k].tick = trace.tick
BY DEF TraceTruthful, ToSet

\* No step takes an action out of a queue.
LEMMA QueuesGrow ==
    ASSUME ServiceInv,
           actions' = actions \/ (done < Len(messages) /\ actions' = Delivered(InFlight)),
           NEW r \in Robots, NEW k \in DOMAIN actions[r]
    PROVE  k \in DOMAIN actions'[r] /\ actions'[r][k] = actions[r][k]
BY QueuesAfter

LEMMA TraceStands ==
    ASSUME ServiceInv, TraceInv, UNCHANGED <<run, trace>>,
           actions' = actions \/ (done < Len(messages) /\ actions' = Delivered(InFlight))
    PROVE  TraceTruthful'
<1>1. trace.robots \subseteq Robots
  BY DEF ServiceInv, TypeOK, Trace
<1>2. ASSUME NEW r \in trace.robots \ trace.failed
      PROVE  \E k \in DOMAIN actions'[r] :
               actions'[r][k].run = run /\ actions'[r][k].tick = trace.tick
  <2>1. PICK k \in DOMAIN actions[r] : actions[r][k].run = run /\ actions[r][k].tick = trace.tick
    BY TraceTruthfulIs DEF TraceInv
  <2>2. k \in DOMAIN actions'[r] /\ actions'[r][k] = actions[r][k]
    BY <1>1, QueuesGrow
  <2> QED
    BY <2>1, <2>2
<1> QED
  BY <1>2 DEF TraceTruthful, ToSet

LEMMA NoTraceTruthful == trace = NoTrace => TraceTruthful
BY DEF TraceTruthful, NoTrace

LEMMA TraceInit == Init => TraceInv
<1> SUFFICES ASSUME Init PROVE TraceInv
  OBVIOUS
<1>1. done = 0 /\ trace = NoTrace
  BY DEF Init
<1>2. 1..done = {}
  BY <1>1
<1> QED
  BY <1>1, <1>2, NoTraceTruthful DEF TraceInv

\* One more outcome.
LEMMA Extended ==
    ASSUME done \in Nat
    PROVE  \A i \in 1..done + 1 : i \in 1..done \/ i = done + 1
OBVIOUS

\* The trace is true of what was published, tick by tick.
LEMMA TraceStep == ServiceInv /\ OrderInv /\ TraceInv /\ [Next]_vars => TraceInv'
<1> SUFFICES ASSUME ServiceInv, OrderInv, TraceInv, [Next]_vars PROVE TraceInv'
  OBVIOUS
<1>0. /\ done \in 0..Len(messages) /\ Len(messages) \in Nat /\ DOMAIN messages = 1..Len(messages)
      /\ \A i \in 1..done : i \in DOMAIN messages /\ messages[i].robot \in Robots
  <2>1. done \in 0..Len(messages) /\ Len(messages) \in Nat /\ DOMAIN messages = 1..Len(messages)
    BY LenProperties DEF ServiceInv, TypeOK
  <2>2. \A i \in 1..done : i \in 1..Len(messages)
    BY <2>1
  <2> QED
    BY <2>1, <2>2, QueueTyped
<1>1. CASE Quiet
  BY <1>1 DEF Quiet, TraceInv, Accounted, TraceTruthful
<1>2. ASSUME NEW d \in Assignment, StartTick(d) PROVE TraceInv'
  <2>1. done' = 0 /\ UNCHANGED <<actions, run, trace>>
    BY <1>2 DEF StartTick, brokerVars, processVars
  <2>2. 1..done' = {}
    BY <2>1
  <2> QED
    BY <2>1, <2>2, TraceStands DEF TraceInv
<1>3. CASE Outcome
  <2>1. /\ UNCHANGED <<run, trace, messages>> /\ done < Len(messages)
        /\ actions' = actions \/ actions' = Delivered(InFlight)
        /\ failures \subseteq failures'
        /\ \/ done' = done
           \/ /\ done' = done + 1
              /\ actions' = Delivered(InFlight) \/ InFlight.robot \in failures'
    BY <1>3 DEF Outcome
  <2>2. TraceTruthful'
    BY <2>1, TraceStands
  <2>3. ASSUME NEW i \in 1..done PROVE Accounted(i)'
    <3>1. Accounted(i) /\ messages[i].robot \in Robots
      BY <1>0 DEF TraceInv
    <3>2. CASE messages[i].robot \in failures
      BY <3>2, <2>1 DEF Accounted
    <3>3. CASE \E k \in DOMAIN actions[messages[i].robot] :
                 actions[messages[i].robot][k] = messages[i]
      <4>1. PICK k \in DOMAIN actions[messages[i].robot] :
                   actions[messages[i].robot][k] = messages[i]
        BY <3>3
      <4>2. k \in DOMAIN actions'[messages[i].robot]
            /\ actions'[messages[i].robot][k] = messages[i]
        BY <2>1, <3>1, <4>1, QueuesGrow
      <4> QED
        BY <4>2, <2>1 DEF Accounted
    <3> QED
      BY <3>1, <3>2, <3>3 DEF Accounted
  <2>4. CASE done' = done
    BY <2>2, <2>3, <2>4 DEF TraceInv
  <2>5. CASE /\ done' = done + 1
             /\ actions' = Delivered(InFlight) \/ InFlight.robot \in failures'
    <3>1. InFlight = messages[done + 1] /\ InFlight.robot \in Robots
      BY <2>1, InFlightTyped
    <3>2. CASE actions' = Delivered(InFlight)
      <4>1. \E k \in DOMAIN actions'[InFlight.robot] : actions'[InFlight.robot][k] = InFlight
        BY <2>1, <3>1, <3>2, QueuesAfter
      <4> QED
        BY <4>1, <3>1, <2>1, <2>2, <2>3, <2>5, <1>0, Extended DEF Accounted, TraceInv
    <3>3. CASE InFlight.robot \in failures'
      BY <3>1, <3>3, <2>1, <2>2, <2>3, <2>5, <1>0, Extended DEF Accounted, TraceInv
    <3> QED
      BY <2>5, <3>2, <3>3
  <2> QED
    BY <2>1, <2>4, <2>5
<1>4. CASE EndTick
  <2>1. /\ done = Len(messages) /\ done' = 0 /\ messages' = <<>>
        /\ UNCHANGED <<actions, run, tick, failures>>
        /\ trace' = [tick |-> tick, robots |-> {m.robot : m \in ToSet(messages)},
                     failed |-> failures]
    BY <1>4 DEF EndTick, brokerVars, processVars
  <2>2. ASSUME NEW r \in trace'.robots \ trace'.failed
        PROVE  \E k \in DOMAIN actions'[r] :
                 actions'[r][k].run = run' /\ actions'[r][k].tick = trace'.tick
    <3>1. trace'.robots = {m.robot : m \in ToSet(messages)} /\ trace'.failed = failures
          /\ trace'.tick = tick
      BY <2>1
    <3>2. PICK i \in DOMAIN messages : messages[i].robot = r
      BY <3>1 DEF ToSet
    <3>3. Accounted(i) /\ r \notin failures
      BY <3>1, <3>2, <2>1, <1>0 DEF TraceInv
    <3>4. PICK k \in DOMAIN actions[r] : actions[r][k] = messages[i]
      BY <3>2, <3>3 DEF Accounted
    <3>5. messages[i].run = run /\ messages[i].tick = tick
      BY <3>2 DEF OrderInv, PendingAhead
    <3> QED
      BY <3>1, <3>4, <3>5, <2>1
  <2>3. TraceTruthful'
    BY <2>2 DEF TraceTruthful, ToSet
  <2>4. 1..done' = {}
    BY <2>1
  <2> QED
    BY <2>3, <2>4 DEF TraceInv
<1>5. CASE Halt
  <2>1. done' = 0 /\ trace' = NoTrace
    BY <1>5 DEF Halt
  <2>2. 1..done' = {} /\ TraceTruthful'
    BY <2>1 DEF TraceTruthful, NoTrace
  <2> QED
    BY <2>2 DEF TraceInv
<1>6. CASE Restart
  <2>1. ~alive /\ UNCHANGED <<trace, messages, done, loop>>
    BY <1>6 DEF Restart, loopVars
  <2>2. trace' = NoTrace /\ messages' = <<>> /\ done' = 0
    <3>1. trace = NoTrace /\ messages = <<>>
      BY <2>1 DEF ServiceInv
    <3>2. Len(messages) = 0
      BY <3>1, EmptySeq
    <3>3. done = 0
      BY <3>2, <1>0
    <3> QED
      BY <2>1, <3>1, <3>3
  <2>3. 1..done' = {} /\ TraceTruthful'
    BY <2>2 DEF TraceTruthful, NoTrace
  <2> QED
    BY <2>3 DEF TraceInv
<1>7. CASE \/ (\E s \in State : Send(s)) \/ Elapse \/ RequestStop \/ Close
           \/ Receive \/ SettleStep \/ ConsumerEnds \/ LoopEnds \/ CancelTasks
           \/ ConsumerCancelled \/ UNCHANGED vars
  BY <1>1, <1>7, QuietSteps
<1>8. CASE TickStep
  BY <1>2, <1>8 DEF TickStep
<1>9. CASE PublishStep
  BY <1>3, <1>9, PublishOutcome
<1>10. CASE TickRaises
  <2>1. UNCHANGED <<actions, run, messages, done, failures, trace>>
    BY <1>10 DEF TickRaises, brokerVars, processVars
  <2> QED
    BY <2>1 DEF TraceInv, Accounted, TraceTruthful
<1>11. CASE DecisionCancelled
  <2>1. /\ UNCHANGED <<run, trace>> /\ done' = 0 /\ Abandoned
    BY <1>11 DEF DecisionCancelled
  <2>2. 1..done' = {} /\ TraceTruthful'
    BY <2>1, AbandonedTypes, TraceStands
  <2> QED
    BY <2>2 DEF TraceInv
<1> QED
  BY <1>4, <1>5, <1>6, <1>7, <1>8, <1>9, <1>10, <1>11 DEF Next, Exit, Crash

\* A robot the trace lists without a failure has that tick's action in its queue.
THEOREM TraceTheorem == Spec => []TraceTruthful
<1>1. TraceInv => TraceTruthful
  BY DEF TraceInv
<1> QED
  BY <1>1, ServiceInit, ServiceStep, OrderInit, OrderStep, TraceInit, TraceStep, PTL DEF Spec
-----------------------------------------------------------------------------
(* The store.                                                              *)

LEMMA InConcatenation ==
    ASSUME NEW S, NEW s \in Seq(S), NEW t \in Seq(S)
    PROVE  ToSet(s \o t) = ToSet(s) \cup ToSet(t)
<1> DEFINE m == Len(s)
           n == Len(t)
           c == s \o t
<1>1. /\ m \in Nat /\ n \in Nat /\ DOMAIN s = 1..m /\ DOMAIN t = 1..n
      /\ c \in Seq(S) /\ Len(c) = m + n
      /\ \A i \in 1..m + n : c[i] = IF i <= m THEN s[i] ELSE t[i - m]
  BY LenProperties, ConcatProperties
<1>2. DOMAIN c = 1..m + n
  BY <1>1, LenProperties
<1> HIDE DEF m, n, c
<1>3. ASSUME NEW i \in 1..m + n PROVE c[i] \in ToSet(s) \cup ToSet(t)
  <2>1. CASE i <= m
    <3>1. i \in 1..m /\ c[i] = s[i]
      BY <1>1, <2>1
    <3> QED
      BY <1>1, <3>1 DEF ToSet
  <2>2. CASE ~(i <= m)
    <3>1. i - m \in 1..n
      BY <1>1, <2>2
    <3> QED
      BY <1>1, <2>2, <3>1 DEF ToSet
  <2> QED
    BY <2>1, <2>2
<1>4. ASSUME NEW i \in 1..m PROVE \E k \in 1..m + n : c[k] = s[i]
  <2>1. i \in 1..m + n /\ i <= m
    BY <1>1
  <2> QED
    BY <1>1, <2>1
<1>5. ASSUME NEW i \in 1..n PROVE \E k \in 1..m + n : c[k] = t[i]
  <2>1. m + i \in 1..m + n /\ ~(m + i <= m) /\ (m + i) - m = i
    BY <1>1
  <2>2. c[m + i] = t[i]
    BY <1>1, <2>1
  <2> QED
    BY <2>1, <2>2
<1>6. ToSet(s \o t) = {c[k] : k \in 1..m + n} /\ ToSet(s) = {s[k] : k \in 1..m}
      /\ ToSet(t) = {t[k] : k \in 1..n}
  BY <1>1, <1>2 DEF ToSet, c
<1> QED
  BY <1>3, <1>4, <1>5, <1>6

LEMMA InAppend ==
    ASSUME NEW S, NEW s \in Seq(S), NEW e \in S
    PROVE  ToSet(s) \subseteq ToSet(Append(s, e)) /\ e \in ToSet(Append(s, e))
<1>1. /\ DOMAIN s = 1..Len(s) /\ Len(s) \in Nat /\ Append(s, e) \in Seq(S)
      /\ Len(Append(s, e)) = Len(s) + 1
      /\ \A i \in 1..Len(s) : Append(s, e)[i] = s[i]
      /\ Append(s, e)[Len(s) + 1] = e
  BY LenProperties, AppendProperties
<1>2. DOMAIN Append(s, e) = 1..Len(s) + 1
  BY <1>1, LenProperties
<1>3. 1..Len(s) \subseteq 1..Len(s) + 1 /\ Len(s) + 1 \in 1..Len(s) + 1
  BY <1>1
<1> QED
  BY <1>1, <1>2, <1>3 DEF ToSet

LEMMA InTail ==
    ASSUME NEW S, NEW s \in Seq(S), s # <<>>
    PROVE  ToSet(s) \subseteq {Head(s)} \cup ToSet(Tail(s))
<1> DEFINE n == Len(s)
<1>1. /\ DOMAIN s = 1..n /\ n \in Nat /\ Tail(s) \in Seq(S) /\ Len(Tail(s)) = n - 1
      /\ \A i \in 1..n - 1 : Tail(s)[i] = s[i + 1]
  BY LenProperties, HeadTailProperties
<1>2. DOMAIN Tail(s) = 1..n - 1
  BY <1>1, LenProperties
<1>3. Head(s) = s[1]
  OBVIOUS
<1> HIDE DEF n
<1>4. ASSUME NEW i \in 1..n PROVE s[i] \in {Head(s)} \cup ToSet(Tail(s))
  <2>1. CASE i = 1
    BY <1>3, <2>1
  <2>2. CASE i # 1
    <3>1. i - 1 \in 1..n - 1 /\ (i - 1) + 1 = i
      BY <1>1, <2>2
    <3> QED
      BY <1>1, <1>2, <3>1 DEF ToSet
  <2> QED
    BY <2>1, <2>2
<1> QED
  BY <1>1, <1>4 DEF ToSet

\* A delivery that is being settled has been stored, and the newest state is not lost.
StoreInv ==
    /\ \A s \in ToSet(delivery) : s.stamp <= store[s.robot].stamp
    /\ run = 1 /\ alive => \A r \in Robots :
         \/ sent[r] <= store[r].stamp
         \/ [robot |-> r, stamp |-> sent[r]] \in ToSet(delivery) \cup ToSet(queue)

LEMMA StoreInvImplies == ServiceInv /\ StoreInv => NewestStateKept
<1> SUFFICES ASSUME ServiceInv, StoreInv PROVE NewestStateKept
  OBVIOUS
<1>1. delivery \in Seq(State) /\ queue \in Seq(State)
  BY DEF ServiceInv, TypeOK
<1>2. ToSet(delivery \o queue) = ToSet(delivery) \cup ToSet(queue)
  BY <1>1, InConcatenation
<1> QED
  BY <1>2 DEF StoreInv, NewestStateKept

LEMMA NothingIn == ToSet(<<>>) = {}
<1>1. DOMAIN <<>> = {}
  BY EmptySeq
<1> QED
  BY <1>1 DEF ToSet

LEMMA StoreInit == Init => StoreInv
<1> SUFFICES ASSUME Init PROVE StoreInv
  OBVIOUS
<1>1. /\ delivery = <<>>
      /\ \A r \in Robots : sent[r] = 0 /\ store[r].stamp = 0
  BY DEF Init, Unknown
<1> QED
  BY <1>1, NothingIn DEF StoreInv

LEMMA StoreStep == ServiceInv /\ StoreInv /\ [Next]_vars => StoreInv'
<1> SUFFICES ASSUME ServiceInv, StoreInv, [Next]_vars PROVE StoreInv'
  OBVIOUS
<1>0. /\ TypeOK /\ queue \in Seq(State) /\ delivery \in Seq(State)
      /\ \A r \in Robots : store[r].stamp \in Nat /\ sent[r] \in Nat
      /\ \A s \in State : s.robot \in Robots /\ s.stamp \in Nat
      /\ run \in Nat /\ run >= 1
  <2>1. TypeOK /\ store \in [Robots -> Stored]
    BY DEF ServiceInv, TypeOK
  <2>2. queue \in Seq(State) /\ delivery \in Seq(State) /\ sent \in [Robots -> 0..MaxStamp]
        /\ run \in 1..MaxRun
    BY <2>1 DEF TypeOK
  <2>3. \A r \in Robots : store[r].stamp \in Nat /\ sent[r] \in Nat
    BY <2>1, <2>2, BoundsTyped DEF Stored
  <2>4. \A s \in State : s.robot \in Robots /\ s.stamp \in Nat
    BY BoundsTyped DEF State
  <2> QED
    BY <2>1, <2>2, <2>3, <2>4, BoundsTyped
<1>1. ASSUME NEW s \in State, Send(s) PROVE StoreInv'
  <2>1. /\ UNCHANGED <<run, alive, delivery, store>> /\ queue' = Append(queue, s)
        /\ sent' = [sent EXCEPT ![s.robot] = IF s.stamp > @ THEN s.stamp ELSE @]
    BY <1>1 DEF Send, processVars, consumerVars
  <2>2. ToSet(queue) \subseteq ToSet(queue') /\ s \in ToSet(queue')
    BY <2>1, <1>0, InAppend
  <2>3. ASSUME NEW r \in Robots, sent'[r] # sent[r]
        PROVE  s = [robot |-> r, stamp |-> sent'[r]]
    <3>1. sent \in [Robots -> 0..MaxStamp] /\ s \in [robot : Robots, stamp : 0..MaxStamp]
      BY <1>0 DEF TypeOK, State
    <3>2. r = s.robot /\ sent'[r] = s.stamp
      BY <2>1, <2>3, <3>1
    <3> QED
      BY <3>1, <3>2
  <2>4. ASSUME NEW r \in Robots, run = 1, alive
        PROVE  \/ sent'[r] <= store[r].stamp
               \/ [robot |-> r, stamp |-> sent'[r]] \in ToSet(delivery) \cup ToSet(queue')
    <3>1. CASE sent'[r] = sent[r]
      BY <3>1, <2>2, <2>4 DEF StoreInv
    <3>2. CASE sent'[r] # sent[r]
      BY <3>2, <2>2, <2>3
    <3> QED
      BY <3>1, <3>2
  <2> QED
    BY <2>1, <2>4 DEF StoreInv
<1>2. CASE Receive
  <2>1. /\ UNCHANGED <<sent, run, alive>> /\ queue # <<>> /\ consumer = "receiving"
        /\ store' = Updated(Head(queue)) /\ delivery' = <<Head(queue)>> /\ queue' = Tail(queue)
    BY <1>2 DEF Receive, processVars
  <2>2. Head(queue) \in State
    BY <2>1, <1>0, HeadTailProperties
  <2>3. ToSet(delivery') = {Head(queue)}
    BY <2>1 DEF ToSet
  <2>4. ToSet(delivery) = {}
    <3>1. Len(delivery) = 0 /\ DOMAIN delivery = 1..Len(delivery)
      BY <1>0, <2>1, LenProperties DEF TypeOK
    <3>2. DOMAIN delivery = {}
      BY <3>1
    <3> QED
      BY <3>2 DEF ToSet
  <2>5. ToSet(queue) \subseteq ToSet(delivery') \cup ToSet(queue')
    BY <2>1, <2>3, <1>0, InTail
  <2>6. /\ Head(queue).stamp <= store'[Head(queue).robot].stamp
        /\ \A r \in Robots : store[r].stamp <= store'[r].stamp
        /\ store' \in [Robots -> Stored]
    BY <2>1, <2>2, <1>0, UpdatedTypes
  <2>7. \A r \in Robots : store'[r].stamp \in Nat
    BY <2>6, BoundsTyped DEF Stored
  <2>8. ASSUME NEW r \in Robots, run = 1, alive
        PROVE  \/ sent[r] <= store'[r].stamp
               \/ [robot |-> r, stamp |-> sent[r]] \in ToSet(delivery') \cup ToSet(queue')
    <3>1. CASE sent[r] <= store[r].stamp
      BY <3>1, <2>6, <2>7, <1>0
    <3>2. CASE [robot |-> r, stamp |-> sent[r]] \in ToSet(delivery) \cup ToSet(queue)
      BY <3>2, <2>4, <2>5
    <3> QED
      BY <2>8, <3>1, <3>2 DEF StoreInv
  <2> QED
    BY <2>1, <2>3, <2>6, <2>8 DEF StoreInv
<1>3. CASE SettleStep \/ ConsumerCancelled
  <2>1. /\ UNCHANGED <<sent, run, alive, store>> /\ delivery' = <<>>
        /\ queue' = queue \/ queue' = delivery \o queue
    BY <1>3 DEF SettleStep, Settle, SettleRaises, ConsumerCancelled, processVars
  <2>2. ToSet(delivery \o queue) = ToSet(delivery) \cup ToSet(queue)
    BY <1>0, InConcatenation
  <2>3. ToSet(queue) \subseteq ToSet(queue') /\ ToSet(delivery') = {}
    BY <2>1, <2>2, NothingIn
  <2>4. ASSUME NEW r \in Robots, run = 1, alive
        PROVE  \/ sent[r] <= store[r].stamp
               \/ [robot |-> r, stamp |-> sent[r]] \in ToSet(queue')
    <3>1. CASE [robot |-> r, stamp |-> sent[r]] \in ToSet(delivery)
      BY <3>1 DEF StoreInv
    <3> QED
      BY <2>3, <2>4, <3>1 DEF StoreInv
  <2> QED
    BY <2>1, <2>3, <2>4 DEF StoreInv
<1>4. CASE Elapse
  <2>1. UNCHANGED <<queue, sent, delivery, run, alive>>
    BY <1>4 DEF Elapse, brokerVars, processVars
  <2>2. \A r \in Robots : store[r].stamp <= store'[r].stamp
    BY <1>4, QuietSteps DEF Quiet
  <2>3. \A r \in Robots : store'[r].stamp \in Nat
    <3>1. store' \in [Robots -> Stored]
      BY ServiceStep DEF ServiceInv, TypeOK
    <3> QED
      BY <3>1, BoundsTyped DEF Stored
  <2>4. \A s \in ToSet(delivery) : s \in State
    BY <1>0, ElementOfSeq, LenProperties DEF ToSet
  <2>5. \A s \in ToSet(delivery) : s.stamp <= store'[s.robot].stamp
    BY <2>2, <2>3, <2>4, <1>0 DEF StoreInv
  <2>6. ASSUME NEW r \in Robots, run = 1, alive
        PROVE  \/ sent[r] <= store'[r].stamp
               \/ [robot |-> r, stamp |-> sent[r]] \in ToSet(delivery) \cup ToSet(queue)
    BY <2>2, <2>3, <2>6, <1>0 DEF StoreInv
  <2> QED
    BY <2>1, <2>5, <2>6 DEF StoreInv
<1>5. CASE \/ RequestStop \/ Close \/ ConsumerEnds \/ TickStep \/ TickRaises \/ LoopEnds
           \/ EndTick \/ CancelTasks \/ DecisionCancelled \/ UNCHANGED vars
  <2>1. UNCHANGED <<queue, sent, delivery, store, run, alive>>
    BY <1>5 DEF RequestStop, Close, ConsumerEnds, TickStep, StartTick, TickRaises, LoopEnds,
                EndTick, CancelTasks, DecisionCancelled, vars, brokerVars, processVars,
                consumerVars
  <2> QED
    BY <2>1 DEF StoreInv
<1>6. CASE PublishStep
  <2>1. UNCHANGED <<queue, sent, delivery, store, run, alive>>
    BY <1>6, PublishOutcome DEF Outcome
  <2> QED
    BY <2>1 DEF StoreInv
<1>7. CASE Halt
  <2>1. ~alive' /\ delivery' = <<>>
    BY <1>7 DEF Halt
  <2> QED
    BY <2>1, NothingIn DEF StoreInv
<1>8. CASE Restart
  <2>1. UNCHANGED <<delivery, store>> /\ run' = run + 1
    BY <1>8 DEF Restart, consumerVars
  <2>2. run' # 1
    BY <2>1, <1>0
  <2> QED
    BY <2>1, <2>2 DEF StoreInv
<1> QED
  BY <1>1, <1>2, <1>3, <1>4, <1>5, <1>6, <1>7, <1>8 DEF Next, Exit, Crash

\* As long as the process lives, the newest state a robot sent is stored or still with
\* the broker, whatever is redelivered, late, invalid or half settled.
THEOREM NewestStateTheorem == Spec => []NewestStateKept
BY ServiceInit, ServiceStep, StoreInit, StoreStep, StoreInvImplies, PTL DEF Spec

\* The ticks started since a state was accepted are covered by its age.
AgeInv ==
    \A r \in Known : store[r].age < StaleTicks =>
        tick - store[r].heard <= store[r].age + (IF due THEN 0 ELSE 1)

LEMMA AgeInit == Init => AgeInv
<1> SUFFICES ASSUME Init PROVE AgeInv
  OBVIOUS
<1>1. \A r \in Robots : store[r].stamp = 0
  BY DEF Init, Unknown
<1> QED
  BY <1>1 DEF AgeInv, Known

LEMMA AgeStep == ServiceInv /\ AgeInv /\ [Next]_vars => AgeInv'
<1> SUFFICES ASSUME ServiceInv, AgeInv, [Next]_vars PROVE AgeInv'
  OBVIOUS
<1>0. /\ TypeOK /\ tick \in Nat /\ due \in BOOLEAN
      /\ \A r \in Robots : /\ store[r] \in Stored /\ store[r].age \in Nat
                           /\ store[r].heard \in Nat /\ store[r].stamp \in Nat
  <2>1. TypeOK /\ store \in [Robots -> Stored]
    BY DEF ServiceInv, TypeOK
  <2> QED
    BY <2>1, BoundsTyped DEF TypeOK, Stored
<1>1. CASE Elapse
  <2>1. /\ due' = TRUE /\ tick' = tick
        /\ store' = [r \in Robots |->
             IF r \in Known /\ ~Stale(r) THEN [store[r] EXCEPT !.age = @ + 1] ELSE store[r]]
    BY <1>1 DEF Elapse
  <2>2. ASSUME NEW r \in Robots, store'[r].stamp > 0, store'[r].age < StaleTicks
        PROVE  tick' - store'[r].heard <= store'[r].age + (IF due' THEN 0 ELSE 1)
    <3>1. CASE r \in Known /\ ~Stale(r)
      <4>1. /\ store'[r].age = store[r].age + 1 /\ store'[r].heard = store[r].heard
        BY <2>1, <3>1, <1>0 DEF Stored
      <4>2. store[r].age < StaleTicks
        BY <3>1, <1>0, BoundsTyped DEF Stale
      <4>3. tick - store[r].heard <= store[r].age + (IF due THEN 0 ELSE 1)
        BY <3>1, <4>2 DEF AgeInv
      <4>4. tick - store[r].heard <= store[r].age + 1
        BY <4>3, <1>0
      <4> QED
        BY <4>1, <4>4, <2>1, <1>0
    <3>2. CASE ~(r \in Known /\ ~Stale(r))
      <4>1. store'[r] = store[r]
        BY <2>1, <3>2
      <4>2. r \in Known /\ ~Stale(r)
        BY <2>2, <4>1, <1>0, BoundsTyped DEF Known, Stale
      <4> QED
        BY <4>2, <3>2
    <3> QED
      BY <3>1, <3>2
  <2>3. \A r \in Known' : r \in Robots /\ store'[r].stamp > 0
    BY DEF Known
  <2> QED
    BY <2>1, <2>2, <2>3 DEF AgeInv
<1>2. CASE Receive
  <2>1. /\ UNCHANGED <<tick, due>> /\ store' = Updated(Head(queue)) /\ queue # <<>>
    BY <1>2 DEF Receive, loopVars
  <2>2. Head(queue) \in State
    BY <2>1, <1>0, HeadTailProperties DEF TypeOK
  <2>3. ASSUME NEW r \in Robots, store'[r].stamp > 0, store'[r].age < StaleTicks
        PROVE  tick - store'[r].heard <= store'[r].age + (IF due THEN 0 ELSE 1)
    <3>1. CASE store'[r] = store[r]
      BY <3>1, <2>3 DEF AgeInv, Known
    <3>2. CASE store'[r] = [stamp |-> Head(queue).stamp, age |-> 0, heard |-> tick]
      <4>1. store'[r].age = 0 /\ store'[r].heard = tick
        BY <3>2
      <4> QED
        BY <4>1, <1>0
    <3> QED
      BY <2>1, <2>2, <3>1, <3>2, <1>0, UpdatedTypes
  <2>4. \A r \in Known' : r \in Robots /\ store'[r].stamp > 0
    BY DEF Known
  <2> QED
    BY <2>1, <2>3, <2>4 DEF AgeInv
<1>3. CASE TickStep \/ TickRaises
  <2>1. due /\ due' = FALSE /\ tick' = tick + 1 /\ store' = store
    BY <1>3 DEF TickStep, StartTick, TickRaises, consumerVars
  <2>2. ASSUME NEW r \in Known, store[r].age < StaleTicks
        PROVE  tick' - store'[r].heard <= store'[r].age + (IF due' THEN 0 ELSE 1)
    <3>1. tick - store[r].heard <= store[r].age + 0 /\ r \in Robots
      BY <2>1, <2>2 DEF AgeInv, Known
    <3>2. tick + 1 - store[r].heard <= store[r].age + 1
      BY <3>1, <1>0
    <3> DEFINE slack == IF due' THEN 0 ELSE 1
    <3>3. slack = 1
      BY <2>1
    <3>4. /\ tick' = tick + 1
          /\ store'[r].heard = store[r].heard /\ store'[r].age = store[r].age
      BY <2>1
    <3> HIDE DEF slack
    <3>5. tick' - store'[r].heard <= store'[r].age + slack
      BY <3>1, <3>2, <3>3, <3>4, <1>0
    <3> QED
      BY <3>5 DEF slack
  <2>3. Known' = Known
    BY <2>1 DEF Known
  <2> QED
    BY <2>1, <2>2, <2>3 DEF AgeInv
<1>4. CASE \/ (\E s \in State : Send(s)) \/ RequestStop \/ Close \/ SettleStep \/ ConsumerEnds
           \/ LoopEnds \/ EndTick \/ CancelTasks \/ ConsumerCancelled \/ DecisionCancelled
           \/ Restart \/ UNCHANGED vars
  <2>1. UNCHANGED <<tick, due, store>>
    BY <1>4 DEF Send, RequestStop, Close, SettleStep, Settle, SettleRaises, ConsumerEnds, LoopEnds,
                EndTick, CancelTasks, ConsumerCancelled, DecisionCancelled, Restart, vars, brokerVars, consumerVars, loopVars
  <2> QED
    BY <2>1 DEF AgeInv, Known
<1>5. CASE PublishStep
  <2>1. UNCHANGED <<tick, due, store>>
    BY <1>5, PublishOutcome DEF Outcome
  <2> QED
    BY <2>1 DEF AgeInv, Known
<1>6. CASE Halt
  <2>1. \A r \in Robots : store'[r].stamp = 0
    BY <1>6 DEF Halt, Unknown
  <2> QED
    BY <2>1 DEF AgeInv, Known
<1> QED
  BY <1>1, <1>2, <1>3, <1>4, <1>5, <1>6 DEF Next, Exit, Crash

LEMMA ReuseStep ==
    ASSUME ServiceInv, AgeInv, [Next]_vars, tick' = tick + 1, NEW m \in ToSet(messages'),
           m.action = RESUME
    PROVE  tick' - store[m.robot].heard <= StaleTicks
<1>1. tick \in Nat /\ \A r \in Robots : store[r].age \in Nat /\ store[r].heard \in Nat
  <2>1. TypeOK /\ store \in [Robots -> Stored]
    BY DEF ServiceInv, TypeOK
  <2> QED
    BY <2>1, BoundsTyped DEF TypeOK, Stored
<1>2. PICK d \in Assignment : StartTick(d)
  <2>1. CASE Quiet
    BY <1>1, <2>1 DEF Quiet
  <2>2. CASE EndTick \/ Restart \/ Outcome \/ DecisionCancelled
    BY <1>1, <2>2 DEF EndTick, Restart, Outcome, DecisionCancelled, loopVars
  <2>3. CASE Halt
    BY <1>1, <2>3 DEF Halt
  <2>4. ~TickRaises
    <3>1. TickRaises => messages' = <<>>
      BY DEF TickRaises, ServiceInv
    <3> QED
      BY <3>1, NothingIn
  <2> QED
    BY <2>1, <2>2, <2>3, <2>4, QuietSteps, PublishOutcome DEF Next, Exit, Crash, TickStep
<1>3. PICK i \in DOMAIN messages' : messages'[i] = m
  BY DEF ToSet
<1>4. m.robot \in Robots /\ store[m.robot].stamp > 0 /\ m.action = d[m.robot]
  BY <1>2, <1>3, TickDrafts DEF Drafted
<1>5. m.robot \in Known /\ d[m.robot] # PAUSE
  BY <1>4 DEF Known, RESUME, PAUSE
<1>6. due /\ ~Stale(m.robot)
  BY <1>2, <1>5 DEF StartTick
<1>7. store[m.robot].age < StaleTicks
  BY <1>1, <1>4, <1>6, BoundsTyped DEF Stale
<1>8. tick - store[m.robot].heard <= store[m.robot].age + 0
  BY <1>5, <1>6, <1>7 DEF AgeInv
<1> QED
  BY <1>1, <1>4, <1>7, <1>8, BoundsTyped

\* A robot moves in at most StaleTicks ticks after the last receipt that was accepted for
\* it, a redelivered copy of the state that is stored included.
THEOREM StateReuseTheorem == Spec => StateReuseBounded
<1>1. ServiceInv /\ AgeInv /\ [Next]_vars =>
        [tick' = tick + 1 => \A m \in ToSet(messages') :
            m.action = RESUME => tick' - store[m.robot].heard <= StaleTicks]_vars
  BY ReuseStep
<1> QED
  BY <1>1, ServiceInit, ServiceStep, AgeInit, AgeStep, PTL DEF Spec, StateReuseBounded
=============================================================================
