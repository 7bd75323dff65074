------------------------------ MODULE KeyPages ------------------------------
(***************************************************************************)
(* Listing the keys of the plugin's KV store page by page (KV.ListKeys).   *)
(* The store orders the keys and answers with an offset and a limit, so a  *)
(* page is computed from the keys there are when it is asked for: a key    *)
(* deleted from an earlier page moves the later ones forward, past the     *)
(* reader.  Keys are numbers here, in the order of their names.            *)
(***************************************************************************)
EXTENDS Naturals, FiniteSets

CONSTANT PageSize    \* 200 in the code

ASSUME PageSizeOK == PageSize \in Nat \ {0}

\* The place of a key among those there are, from 0.
Place(k, keys) == Cardinality({j \in keys : j < k})

\* Page n of the keys; it is empty when n is past the end.
Page(n, keys) ==
    {k \in keys : Place(k, keys) >= n * PageSize
               /\ Place(k, keys) < (n + 1) * PageSize}
=============================================================================
