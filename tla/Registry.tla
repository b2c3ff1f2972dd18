------------------------------ MODULE Registry ------------------------------
(***************************************************************************)
(* The per-liteserver registry of shard bounds, as a value: a function     *)
(* from shard ids to bounds, None for a shard that has no entry.  The code *)
(* keeps the set of shards of a chain in a second map, which every upsert  *)
(* fills before it touches the bounds; a shard of that set without bounds  *)
(* contributes nothing to contains(), so the set is represented by the     *)
(* shards that have bounds.                                                *)
(***************************************************************************)
EXTENDS ShardBounds

CONSTANTS Master,   \* the shard id of the masterchain
          Shards    \* the shard ids of the workchain

ASSUME MasterAssumption == Master \notin Shards

ShardIds == Shards \cup {Master}

Empty == [s \in ShardIds |-> None]

upsert_left(reg, s, h) ==
    [reg EXCEPT ![s] = IF @ = None THEN from_left(h) ELSE left_replace(@, h)]

upsert_right(reg, s, h) ==
    [reg EXCEPT ![s] = IF @ = None THEN from_right(h) ELSE right_replace(@, h)]

upsert_right_end(reg, s, n) ==
    [reg EXCEPT ![s] = IF @ = None THEN from_right_seqno(n)
                       ELSE right_seqno_replace(@, n)]

right_next(reg, s) == IF reg[s] = None THEN None ELSE right_next_seqno(reg[s])

get_last_seqno(reg, s) ==
    IF reg[s] = None \/ reg[s].right = None THEN None ELSE reg[s].right.seqno

left_defined(reg, s) == reg[s] # None /\ reg[s].left # None

\* contains() for a Seqno criterion.
contains_block(reg, s, n, not_available) ==
    reg[s] # None /\ contains_seqno(reg[s], n, not_available)

\* contains() for a LogicalTime criterion; covering is the set of the
\* chain's shards whose prefix the account's address starts with.
contains_time(reg, covering, lt, not_available) ==
    \E s \in covering : reg[s] # None /\ contains_lt(reg[s], lt, not_available)
=============================================================================
