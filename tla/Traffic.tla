------------------------------- MODULE Traffic -------------------------------
(***************************************************************************)
(* What the whole system is for: robots stand at poses, and from one tick  *)
(* to the next any number of them moves at once, provided that whatever a  *)
(* moving robot sweeps is swept by nobody else, standing robots included.  *)
(* Routes, priorities and grants are left out: who moves is left open.     *)
(***************************************************************************)
EXTENDS Integers

CONSTANTS Robots,
          Poses,
          Swept(_, _)   \* the ground covered from a pose to the next; Swept(p, p): standing

VARIABLE place

Init == place \in [Robots -> Poses]

Sweep(r) == Swept(place[r], place'[r])

Move ==
    /\ place' \in [Robots -> Poses]
    /\ \A r \in Robots : place'[r] # place[r] =>
        \A q \in Robots \ {r} : Sweep(r) \cap Sweep(q) = {}

Spec == Init /\ [][Move]_place

\* Two robots that stand clear of each other.
Apart(r, q) == Swept(place[r], place[r]) \cap Swept(place[q], place[q]) = {}
=============================================================================
