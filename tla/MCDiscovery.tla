---------------------------- MODULE MCDiscovery -----------------------------
(***************************************************************************)
(* Instances of Discovery for TLC.                                         *)
(***************************************************************************)
EXTENDS Discovery

CONSTANTS A, B

\* The masterchain alone.
NoShards(n) == <<>>

\* Shard A is replaced by B at block 2 and comes back at block 3: its actor
\* is aborted and spawned again.
Reshard(n) == IF n = 2 THEN <<[shard |-> B, seqno |-> n]>>
              ELSE <<[shard |-> A, seqno |-> n]>>

\* Shard A splits at block 2, for good.
Split(n) == IF n < 2 THEN <<[shard |-> A, seqno |-> n]>>
            ELSE <<[shard |-> A, seqno |-> n], [shard |-> B, seqno |-> n]>>
=============================================================================
