------------------------ MODULE MCLiteServerDiscover ------------------------
(***************************************************************************)
(* Instances of LiteServerDiscover for TLC.                                *)
(***************************************************************************)
EXTENDS LiteServerDiscover

\* Every config in which an id has at most one address.
WellFormed == {c \in SUBSET LiteServer : \A x, y \in c : x.id = y.id => x = y}
=============================================================================
