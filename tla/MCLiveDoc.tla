----------------------------- MODULE MCLiveDoc -----------------------------
(***************************************************************************)
(* The instances of LiveDoc that TLC explores.                             *)
(***************************************************************************)
EXTENDS LiveDoc, TLC

Sessions == Permutations(Session)
=============================================================================
