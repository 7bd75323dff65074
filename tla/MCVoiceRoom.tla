----------------------------- MODULE MCVoiceRoom -----------------------------
(***************************************************************************)
(* The instances of VoiceRoom that TLC explores.                           *)
(***************************************************************************)
EXTENDS VoiceRoom, TLC

Conns == Permutations(Conn)
=============================================================================
