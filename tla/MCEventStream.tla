---------------------------- MODULE MCEventStream ----------------------------
(***************************************************************************)
(* The instances of EventStream that TLC explores.                         *)
(***************************************************************************)
EXTENDS EventStream, TLC
=============================================================================
