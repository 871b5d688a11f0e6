-------------------------------- MODULE MCDemo --------------------------------
(* A run of the demonstration for TLC. *)
EXTENDS Demo, MCFleet

MCDemoScenarios == {Crossroads}
=============================================================================
