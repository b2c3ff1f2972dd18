---------------------------- MODULE MCConnection ----------------------------
(***************************************************************************)
(* Connection for TLC.                                                     *)
(***************************************************************************)
EXTENDS Connection, TLC

Symmetry == Permutations(Requests)
=============================================================================
