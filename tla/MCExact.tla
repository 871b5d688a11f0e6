------------------------------- MODULE MCExact -------------------------------
(* Instances of Exact for TLC: components of three robots. *)
EXTENDS Exact

\* Connected components of any geometry with the Pause footprint in the envelopes.
MCNoGoodSets ==
    {N \in SUBSET NoGood : Monotone(N) /\ \A r \in Robots : Component(N, r) = Robots}

\* Nothing decided yet, an obstacle, a retained grant, or one of each.
MCHardAssignments ==
    {NoneAssigned, [NoneAssigned EXCEPT ![1] = PAUSE], [NoneAssigned EXCEPT ![2] = RESUME],
     [NoneAssigned EXCEPT ![1] = RESUME, ![3] = PAUSE]}

\* The defaults, scaled down; settings under which one bonus is worth everything; a
\* component that is too large for CP-SAT; a sum of coefficients that may be; and a
\* coefficient that may be.
Scaled == [exactSize |-> 3, base |-> 1, loaded |-> 2, urgency |-> 10, horizon |-> 3,
           battery |-> 1, perTick |-> 1, ageCap |-> 2, grant |-> 5, perConflict |-> 2]
OnlyClearance == [exactSize |-> 3, base |-> 0, loaded |-> 0, urgency |-> 0, horizon |-> 1,
                  battery |-> 0, perTick |-> 0, ageCap |-> 0, grant |-> 0, perConflict |-> 9]
MCConfigs ==
    {Scaled, OnlyClearance, [Scaled EXCEPT !.exactSize = 2],
     [Scaled EXCEPT !.urgency = 11], [Scaled EXCEPT !.urgency = 12]}

\* To the point: under Scaled the sum just fits, with one more for the urgency the
\* coefficient does, with two more neither.
MCSumLimit == 3 * 406
MCIntegerLimit == 422

\* A robot with no claim, one with every claim, one that is short of charge.
MCConditions ==
    {[loaded |-> FALSE, lowBattery |-> FALSE, slack |-> 9, age |-> 0, granted |-> FALSE],
     [loaded |-> TRUE, lowBattery |-> TRUE, slack |-> -1, age |-> 9, granted |-> TRUE],
     [loaded |-> FALSE, lowBattery |-> TRUE, slack |-> 4, age |-> 0, granted |-> FALSE]}
=============================================================================
