---------------------------- MODULE BinarySearch ----------------------------
(***************************************************************************)
(* BinarySearch::find: the search for the first block at which a probe     *)
(* succeeds, run against a server that prunes blocks meanwhile and whose   *)
(* requests may fail.  A probe (BlockAvailability::probe: look the block   *)
(* up, get its shards, get all the headers) succeeds when every request    *)
(* does; since pruning only ever removes blocks, it is the state at its    *)
(* last request that counts, and the probe is one step.                    *)
(***************************************************************************)
EXTENDS Integers

CONSTANTS None,
          MaxPoint,    \* bound: seqnos are at most MaxPoint
          MaxFaults,   \* bound: requests that fail for no modelled reason
          Tolerances   \* the values given to with_tolerance

ASSUME SearchAssumption == /\ None \notin Int
                           /\ MaxPoint \in Nat
                           /\ MaxFaults \in Nat
                           /\ Tolerances \subseteq Nat

\* Bound: probes are counted up to here, which is more than FewHops allows.
MaxHops == MaxPoint + 2

VARIABLES lo, hi, start, tolerance,  \* from, to, starting_at, with_tolerance
          first, floor, faults,      \* the server; floor as in Search
          pc, lhs, rhs, cur, best, hops, outcome

args == <<lo, hi, start, tolerance>>
locals == <<lhs, rhs, cur, best>>
vars == <<args, first, floor, faults, pc, locals, hops, outcome>>

Running == [kind |-> "running", point |-> 0]
Failed == [kind |-> "failed", point |-> 0]
Found(n) == [kind |-> "found", point |-> n]

TypeOK ==
    /\ lo \in 0..MaxPoint /\ hi \in 0..MaxPoint
    /\ start \in -1..MaxPoint + 1 \cup {None}
    /\ tolerance \in Tolerances
    /\ first \in 1..MaxPoint + 1 /\ floor \in 1..first
    /\ faults \in 0..MaxFaults
    /\ pc \in {"bounds", "probe", "done"}
    /\ lhs \in Nat /\ rhs \in Nat /\ cur \in Nat
    /\ best \in Nat \cup {None}
    /\ hops \in Nat
    /\ outcome \in [kind : {"running", "failed", "found"}, point : Nat]

Init ==
    /\ lo \in 0..MaxPoint /\ hi \in 0..MaxPoint
    /\ start \in -1..MaxPoint + 1 \cup {None}
    /\ tolerance \in Tolerances
    /\ first \in 1..MaxPoint + 1 /\ floor = first
    /\ faults = 0
    /\ pc = "bounds"
    /\ lhs = 0 /\ rhs = 0 /\ cur = 0
    /\ best = None
    /\ hops = 0
    /\ outcome = Running

\* Mutants: rounded up; a linear scan.
midpoint_up(a, b) == (a + b + 1) \div 2
midpoint_linear(a, b) == a

midpoint(a, b) == (a + b) \div 2

\* Mutants: no lower bound; no upper bound.
clamp_above(x, a, b) == IF x > b THEN b ELSE x
clamp_below(x, a, b) == IF x < a THEN a ELSE x

clamp(x, a, b) == IF x < a THEN a ELSE IF x > b THEN b ELSE x

Prune == /\ first <= MaxPoint
         /\ first' = first + 1
         /\ UNCHANGED <<args, floor, faults, pc, locals, hops, outcome>>

\* Mutant: an empty range is searched.
Begin_empty ==
    /\ pc = "bounds"
    /\ lhs' = lo /\ rhs' = hi
    /\ pc' = "probe" /\ outcome' = outcome
    /\ cur' = clamp(IF start = None THEN midpoint(lo, hi) ELSE start, lo, hi)
    /\ UNCHANGED <<args, first, floor, faults, best, hops>>

\* The bounds are resolved and the first point is chosen; an empty range is
\* an error.
Begin ==
    /\ pc = "bounds"
    /\ lhs' = lo /\ rhs' = hi
    /\ IF lo > hi
       THEN pc' = "done" /\ outcome' = Failed /\ cur' = cur
       ELSE /\ pc' = "probe" /\ outcome' = outcome
            /\ cur' = clamp(IF start = None THEN midpoint(lo, hi) ELSE start, lo, hi)
    /\ UNCHANGED <<args, first, floor, faults, best, hops>>

\* The upper bound has to be asked for (no to()), and that request fails.
BoundsFail ==
    /\ pc = "bounds"
    /\ faults < MaxFaults /\ faults' = faults + 1
    /\ pc' = "done" /\ outcome' = Failed
    /\ UNCHANGED <<args, first, floor, locals, hops>>

\* Mutant: the best point is preferred to the last one.
Conclude_best_first(ok, point, c) ==
    /\ pc' = "done"
    /\ outcome' = IF best # None /\ best - c <= tolerance THEN Found(best)
                  ELSE IF ok THEN Found(point)
                  ELSE Failed

\* After the loop: the result of the last probe, else the best one if it is
\* close enough to where the search converged (c).
Conclude(ok, point, c) ==
    /\ pc' = "done"
    /\ outcome' = IF ok THEN Found(point)
                  ELSE IF best # None /\ best - c <= tolerance THEN Found(best)
                  ELSE Failed

\* Mutant: the first success is kept instead of the last.
keep_best_first(ok) == IF ok /\ best = None THEN cur ELSE best

\* The success the loop remembers after a probe at cur.
keep_best(ok) == IF ok THEN cur ELSE best

\* One turn of the loop, given the answer of the probe at cur.
Turn(ok) ==
    LET l == IF ok THEN lhs ELSE cur + 1
        r == IF ok THEN cur ELSE rhs
        c == midpoint(l, r)
    IN /\ pc = "probe"
       /\ hops' = IF hops < MaxHops THEN hops + 1 ELSE hops
       /\ IF lhs >= rhs
          THEN Conclude(ok, cur, cur) /\ UNCHANGED locals
          ELSE /\ lhs' = l /\ rhs' = r /\ cur' = c
               /\ IF c = 0
                  THEN Conclude(ok, cur, c) /\ UNCHANGED best
                  ELSE /\ best' = keep_best(ok)
                       /\ UNCHANGED <<pc, outcome>>
       /\ UNCHANGED <<args, first, floor>>

ProbeOk == first <= cur /\ Turn(TRUE) /\ UNCHANGED faults

ProbeMiss == cur < first /\ Turn(FALSE) /\ UNCHANGED faults

ProbeFault == faults < MaxFaults /\ faults' = faults + 1 /\ Turn(FALSE)

Next == Prune \/ Begin \/ BoundsFail \/ ProbeOk \/ ProbeMiss \/ ProbeFault

Spec == Init /\ [][Next]_vars

\* find() is awaited by a running task and every probe ends.
FairSpec == Spec /\ WF_vars(Begin \/ ProbeOk \/ ProbeMiss \/ ProbeFault)

-----------------------------------------------------------------------------
\* With a probe that is monotonic, as find() assumes (no block pruned, no
\* request failed during the search), the result is the first block of the
\* range that is kept, and there is none only if the range holds no such block.
FindsFirst ==
    pc = "done" /\ faults = 0 /\ first = floor /\ lo <= hi =>
        outcome = IF hi < first THEN Failed
                  ELSE Found(IF lo < first THEN first ELSE lo)

\* Whatever is pruned or fails meanwhile, a result lies in the range and is a
\* block that was kept when the search began, or one pruned since.
FoundWasKept ==
    outcome.kind = "found" => outcome.point \in lo..hi /\ floor <= outcome.point

\* The search converges on its best point: when the last probe fails, the
\* distance find() compares with the tolerance is 0, so that the tolerance
\* given to with_tolerance never decides.
ConvergesOnBest == pc = "probe" /\ lhs >= rhs /\ best # None => best = cur

\* The number of probes is logarithmic in the size of the range, wherever
\* the search starts.
FewHops == pc # "bounds" /\ hops > 2 => 2 ^ (hops - 3) < hi - lo + 1

\* find() returns.
Terminates == <>(pc = "done")

\* find() keeps the promise FirstBlockDiscoverActor relies on.
Promise == INSTANCE Search

RefinesSearch == Promise!Spec
=============================================================================
