---------------------------- MODULE MCImports ----------------------------
(***************************************************************************)
(* A small instance of Imports for TLC: one peer, truthful or lying.       *)
(***************************************************************************)
EXTENDS Imports, TLC

CONSTANTS peer, a, b, k1, k2, m1, r1, r2

\* Nothing tells one receipt from another.
Receipts == Permutations(Receipt)
=============================================================================
