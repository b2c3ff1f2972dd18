---------------------------- MODULE ShardBounds ----------------------------
(***************************************************************************)
(* What a liteserver client knows about one shard: the header of the       *)
(* first block it can serve (left), the header of the last block it can    *)
(* serve (right) and the seqno of the last block it has heard of           *)
(* (right_seqno).  Each of the three is an Option in the code; an absent   *)
(* value is None here.  A block header is reduced to its seqno and its     *)
(* logical-time interval.                                                  *)
(***************************************************************************)
EXTENDS Integers

CONSTANT None

Header == [seqno : Nat, start_lt : Int, end_lt : Int]

Bounds == [left        : Header \cup {None},
           right       : Header \cup {None},
           right_seqno : Nat \cup {None}]

ASSUME NoneAssumption == /\ None \notin Int
                         /\ None \notin Header
                         /\ None \notin Bounds

\* The header of the block with seqno n: block n spans (10n-9)..10n in
\* logical time, so consecutive blocks never overlap.
HeaderOf(n) == [seqno |-> n, start_lt |-> 10 * n - 9, end_lt |-> 10 * n]

from_left(h) == [left |-> h, right |-> None, right_seqno |-> None]

from_right(h) == [left |-> None, right |-> h, right_seqno |-> h.seqno]

from_right_seqno(n) == [left |-> None, right |-> None, right_seqno |-> n]

left_replace(b, h) == [b EXCEPT !.left = h]

\* The announced seqno is left as it was, even when h is newer.
right_replace(b, h) == [b EXCEPT !.right = h]

\* Unconditional: a smaller announcement overwrites a larger one.
right_seqno_replace(b, n) == [b EXCEPT !.right_seqno = n]

\* Mutants: one block too far; straight to the announced block.
right_next_seqno_past_end(b) ==
    IF b.right_seqno = None THEN None
    ELSE IF b.right = None THEN b.right_seqno
    ELSE IF b.right.seqno <= b.right_seqno THEN b.right.seqno + 1
    ELSE None

right_next_seqno_jumps(b) ==
    IF b.right_seqno = None THEN None
    ELSE IF b.right = None THEN b.right_seqno
    ELSE IF b.right.seqno < b.right_seqno THEN b.right_seqno
    ELSE None

\* The next block to fetch, or None when the right edge has caught up with
\* the announcement (or nothing has been announced).
right_next_seqno(b) ==
    IF b.right_seqno = None THEN None
    ELSE IF b.right = None THEN b.right_seqno
    ELSE IF b.right.seqno < b.right_seqno THEN b.right.seqno + 1
    ELSE None

\* Mutant: the last block is left out.
contains_seqno_open(b, n, not_available) ==
    /\ b.left # None
    /\ b.right # None
    /\ b.left.seqno <= n
    /\ n < IF not_available /\ b.right_seqno # None
           THEN b.right_seqno
           ELSE b.right.seqno

\* With not_available set the question is "is the block announced?", without
\* it "can the block be served?".
contains_seqno(b, n, not_available) ==
    /\ b.left # None
    /\ b.right # None
    /\ b.left.seqno <= n
    /\ n <= IF not_available /\ b.right_seqno # None
            THEN b.right_seqno
            ELSE b.right.seqno

contains_lt(b, lt, not_available) ==
    /\ b.left # None
    /\ b.right # None
    /\ b.left.start_lt <= lt
    /\ lt <= IF not_available
             THEN b.right.end_lt + (b.right.end_lt - b.right.start_lt)
             ELSE b.right.end_lt
=============================================================================
