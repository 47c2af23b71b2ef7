---------------------------- MODULE MCHoldStalls ----------------------------
(* Instances of HoldStalls for TLC. *)
EXTENDS MCHoldServer, HoldStalls
=============================================================================
