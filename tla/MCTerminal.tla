----------------------------- MODULE MCTerminal -----------------------------
(***************************************************************************)
(* The instance of Terminal in which TLC looks at the audit log.           *)
(***************************************************************************)
EXTENDS Terminal, TLC

Symmetry == Permutations(Req) \cup Permutations(Member)
=============================================================================
