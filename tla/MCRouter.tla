------------------------------ MODULE MCRouter ------------------------------
(***************************************************************************)
(* Instances of Router for TLC.                                            *)
(***************************************************************************)
EXTENDS Router, TLC

\* The clients are interchangeable when none of them is reliable.
Symmetry == Permutations(Clients)

\* GetMasterchainInfo, and queries by seqno: logical times and messages are left
\* to the smaller instance.
FewKinds == route.kind \in {"info", "seqno"}
=============================================================================
