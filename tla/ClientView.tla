----------------------------- MODULE ClientView -----------------------------
(***************************************************************************)
(* What one RoutedClient promises about the masterchain, as the Router     *)
(* sees it: the block its interval starts with, the block it ends with,    *)
(* the block it has heard of, and the block it hands out as the last one   *)
(* (0 stands for "not known yet").  Discovery implements it.               *)
(***************************************************************************)
EXTENDS ShardBounds

View == [left : Nat, right : Nat, end : Nat, published : Nat]

\* A client that has just been created.
Unknown == [left |-> 0, right |-> 0, end |-> 0, published |-> 0]

\* The server reports its last block, which may be older than before.
Announced(v, max) == {[v EXCEPT !.end = n] : n \in 1..max}

\* Mutant: one block beyond the announced one is fetched.
Extended_past_end(v) ==
    IF v.right <= v.end /\ v.published = v.right /\ v.end # 0
    THEN {[v EXCEPT !.right = IF @ = 0 THEN v.end ELSE @ + 1]}
    ELSE {}

\* The next block is fetched, once the one before has been published.
Extended(v) ==
    IF v.right < v.end /\ v.published = v.right
    THEN {[v EXCEPT !.right = IF @ = 0 THEN v.end ELSE @ + 1]}
    ELSE {}

Published(v) == {[v EXCEPT !.published = v.right]}

\* The first block is found among the published ones, never going back.
Trimmed(v) == {[v EXCEPT !.left = n] : n \in {m \in 1..v.published : v.left <= m}}

Steps(v, max) == Announced(v, max) \cup Extended(v) \cup Published(v) \cup Trimmed(v)

\* The registry entry a view stands for.
BoundsOf(v) == [left        |-> IF v.left = 0 THEN None ELSE HeaderOf(v.left),
                right       |-> IF v.right = 0 THEN None ELSE HeaderOf(v.right),
                right_seqno |-> IF v.end = 0 THEN None ELSE v.end]
=============================================================================
