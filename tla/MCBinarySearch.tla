--------------------------- MODULE MCBinarySearch ---------------------------
(***************************************************************************)
(* An instance of BinarySearch for TLC; every range, start, tolerance and  *)
(* first block within the bounds is an initial state.                      *)
(***************************************************************************)
EXTENDS BinarySearch
=============================================================================
