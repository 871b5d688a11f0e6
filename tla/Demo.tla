--------------------------------- MODULE Demo ---------------------------------
(***************************************************************************)
(* The run of Fleet over RabbitMQSimulatorTransport (scenario.py): states  *)
(* and actions cross the broker, and a robot waits a limited time for an   *)
(* action on its newest state.  When none comes, be it late or given up by *)
(* the monitor after its last attempt, the robot is left with the action   *)
(* of an earlier tick.                                                     *)
(***************************************************************************)
EXTENDS Fleet

VARIABLE resumes   \* SimulatedRobot.resumes: how often each robot was told to move

demoVars == <<allVars, resumes>>

DemoInit == FleetInit /\ resumes = [r \in Robots |-> 0]

\* _receive_fresh_action has an action for the robots H, and timed out for the others.
DeliverTo(H) ==
    /\ Commit \/ Discard
    /\ latest' = [r \in Robots |-> IF r \in H THEN Received[r] ELSE latest[r]]
    /\ resumes' = [r \in Robots |->
         IF r \in H /\ ~AtGoal(r) /\ decisions[r] = RESUME THEN resumes[r] + 1 ELSE resumes[r]]
    /\ unresolved' = (unresolved \/ alarm \/ affected # {})
    /\ phase' = IF AllAtGoal \/ clock = TickLimit THEN "done" ELSE "driving"
    /\ UNCHANGED <<route, node, terminal, store, clock>>

DemoNext ==
    \/ (Drive \/ Observe \/ Decide) /\ UNCHANGED resumes
    \/ \E H \in SUBSET Robots : DeliverTo(H)

DemoSpec == DemoInit /\ [][DemoNext]_demoVars
-----------------------------------------------------------------------------
\* Every node a robot has advanced was authorised by a Resume of its own, as in the
\* documented one node per Resume.
OneNodePerResume == \A r \in Robots : node[r] - 1 <= resumes[r]
=============================================================================
