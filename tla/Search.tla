------------------------------- MODULE Search -------------------------------
(***************************************************************************)
(* What a search for the first kept block promises its caller, with the    *)
(* blocks being pruned and requests failing while it runs: an outcome is   *)
(* reached once; a block that is reported lies in the range asked for and  *)
(* was kept when the search began or later; and the search reports no      *)
(* block only for a reason.                                                *)
(***************************************************************************)
EXTENDS Integers

CONSTANTS MaxPoint,  \* bound: seqnos are at most MaxPoint
          MaxFaults  \* bound: requests that fail for no modelled reason

VARIABLES lo, hi,    \* the range asked for
          first,     \* the first block the server keeps
          floor,     \* the first block it kept when the search began
          faults,
          outcome    \* a seqno, or one of the other outcomes

svars == <<lo, hi, first, floor, faults, outcome>>

Init == /\ lo \in 0..MaxPoint
        /\ hi \in 0..MaxPoint
        /\ first \in 1..MaxPoint + 1
        /\ floor = first
        /\ faults = 0
        /\ outcome = [kind |-> "running", point |-> 0]

Prune == /\ first <= MaxPoint
         /\ first' = first + 1
         /\ UNCHANGED <<lo, hi, floor, faults, outcome>>

\* A request fails; the search goes on, or ends because of it.
Fault == /\ faults < MaxFaults
         /\ faults' = faults + 1
         /\ outcome.kind = "running"
         /\ outcome' \in {outcome, [kind |-> "failed", point |-> 0]}
         /\ UNCHANGED <<lo, hi, first, floor>>

Found == /\ outcome.kind = "running"
         /\ \E n \in lo..hi : /\ floor <= n
                              /\ outcome' = [kind |-> "found", point |-> n]
         /\ \/ UNCHANGED faults
            \/ faults < MaxFaults /\ faults' = faults + 1
         /\ UNCHANGED <<lo, hi, first, floor>>

Failed == /\ outcome.kind = "running"
          /\ hi < lo \/ hi < first \/ floor < first \/ faults > 0
          /\ outcome' = [kind |-> "failed", point |-> 0]
          /\ UNCHANGED <<lo, hi, first, floor, faults>>

Next == Prune \/ Fault \/ Found \/ Failed

Spec == Init /\ [][Next]_svars
=============================================================================
