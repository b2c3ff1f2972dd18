------------------------- MODULE BinarySearchProofs -------------------------
(***************************************************************************)
(* Proofs about BinarySearch: what it finds, that it converges on its best *)
(* point, and that it implements Search.                                   *)
(***************************************************************************)
EXTENDS BinarySearch, TLAPS

\* The loop invariant, in three parts.  Shape: where cur and best are
\* relative to the interval; lhs passes rhs only if the search started at hi
\* and the probe failed there.
Shape ==
    pc = "probe" =>
        /\ lo <= lhs /\ rhs <= hi
        /\ lhs <= rhs + 1
        /\ lo <= cur /\ cur <= rhs
        /\ lhs <= rhs => lhs <= cur
        /\ lhs >= rhs => cur = rhs
        /\ lhs > rhs => best = None
        /\ best # None => best = rhs /\ floor <= best
        /\ best # None /\ lhs < rhs => cur < rhs

\* Undisturbed: as long as no block was pruned and no request failed,
\* everything left of lhs is gone and the best point, if any, is kept.
Undisturbed ==
    pc = "probe" /\ faults = 0 /\ first = floor =>
        /\ lo < lhs => lhs <= first
        /\ best # None => first <= rhs
        /\ best = None => rhs = hi

Phase == /\ pc # "done" => outcome = Running
         /\ pc = "done" => outcome.kind # "running"
         /\ pc = "bounds" => best = None

SInv == TypeOK /\ Phase /\ Shape /\ Undisturbed /\ FindsFirst /\ FoundWasKept

\* midpoint lies between its arguments, below the larger one if they differ.
LEMMA Midpoint ==
    ASSUME NEW a \in Nat, NEW b \in Nat
    PROVE  /\ midpoint(a, b) \in Nat
           /\ a <= b => a <= midpoint(a, b) /\ midpoint(a, b) <= b
           /\ a < b => midpoint(a, b) < b
           /\ a = b + 1 => midpoint(a, b) = b
           /\ midpoint(a, b) = 0 => a + b <= 1
  BY DEF midpoint

\* Before the search starts the invariant holds.
LEMMA SearchInit == Init => SInv
  BY SearchAssumption
  DEF Init, SInv, TypeOK, Phase, Shape, Undisturbed, FindsFirst, FoundWasKept,
      Running, Failed, Found

\* Begin, whichever starting point is given, establishes the loop invariant.
LEMMA BeginInv == ASSUME SInv, Begin PROVE SInv'
  <1> USE SearchAssumption DEF SInv
  <1>0. /\ lo \in Nat /\ hi \in Nat /\ start \in Int \cup {None}
        /\ best = None /\ outcome = Running /\ pc = "bounds"
        /\ UNCHANGED <<lo, hi, start, tolerance, first, floor, faults, best, hops>>
        /\ lhs' = lo /\ rhs' = hi
    BY DEF TypeOK, Phase, Begin, args
  <1>1. CASE lo > hi
    <2>1. pc' = "done" /\ outcome' = Failed /\ cur' = cur
      BY <1>1 DEF Begin
    <2>2. QED
      BY <1>0, <1>1, <2>1
      DEF TypeOK, Phase, Shape, Undisturbed, FindsFirst, FoundWasKept, Failed
  <1>2. CASE lo <= hi
    <2> DEFINE p == IF start = None THEN midpoint(lo, hi) ELSE start
    <2>1. pc' = "probe" /\ outcome' = outcome /\ cur' = clamp(p, lo, hi)
      BY <1>0, <1>2 DEF Begin
    <2>2. p \in Int
      BY <1>0, Midpoint
    <2>3. cur' \in Nat /\ lo <= cur' /\ cur' <= hi
      BY <1>0, <1>2, <2>1, <2>2 DEF clamp
    <2>4. QED
      BY <1>0, <1>2, <2>1, <2>3
      DEF TypeOK, Phase, Shape, Undisturbed, FindsFirst, FoundWasKept, Running
  <1>3. QED BY <1>0, <1>1, <1>2

\* What a turn of the loop does, apart from the probe's own guard.
LEMMA TurnFacts ==
    ASSUME SInv, NEW ok \in BOOLEAN, Turn(ok)
    PROVE  /\ pc = "probe" /\ hops' \in Nat
           /\ UNCHANGED <<lo, hi, start, tolerance, first, floor>>
           /\ lhs >= rhs => Conclude(ok, cur, cur) /\ UNCHANGED <<lhs, rhs, cur, best>>
           /\ lhs < rhs =>
                LET l == IF ok THEN lhs ELSE cur + 1
                    r == IF ok THEN cur ELSE rhs
                IN /\ lhs' = l /\ rhs' = r /\ cur' = midpoint(l, r)
                   /\ midpoint(l, r) = 0 => Conclude(ok, cur, 0) /\ best' = best
                   /\ midpoint(l, r) # 0 => /\ best' = IF ok THEN cur ELSE best
                                            /\ UNCHANGED <<pc, outcome>>
  BY DEF Turn, keep_best, args, locals, SInv, TypeOK

\* A probe that succeeds.
LEMMA ProbeOkInv == ASSUME SInv, ProbeOk PROVE SInv'
  <1> USE SearchAssumption DEF SInv
  <1>t. Turn(TRUE)
    BY Zenon DEF ProbeOk
  <1>0. /\ lo \in Nat /\ hi \in Nat /\ first \in Nat /\ floor \in Nat /\ hops \in Nat
        /\ lhs \in Nat /\ rhs \in Nat /\ cur \in Nat
        /\ 1 <= first /\ floor <= first /\ first <= cur /\ faults' = faults
        /\ pc = "probe"
    <2>1. first <= cur /\ faults' = faults
      BY DEF ProbeOk
    <2>2. pc = "probe"
      BY <1>t, TurnFacts, Zenon
    <2>3. QED BY <2>1, <2>2 DEF TypeOK
  <1>a. /\ UNCHANGED <<lo, hi, start, tolerance, first, floor>> /\ hops' \in Nat
    BY <1>t, TurnFacts, Zenon
  <1>s. /\ lo <= lhs /\ rhs <= hi /\ lhs <= rhs + 1 /\ lo <= cur /\ cur <= rhs
        /\ lhs <= rhs => lhs <= cur
        /\ lhs >= rhs => cur = rhs
    BY <1>0 DEF Shape
  <1>1. CASE lhs >= rhs
    <2>1. pc' = "done" /\ outcome' = Found(cur) /\ UNCHANGED <<lhs, rhs, cur, best>>
      BY <1>0, <1>1, <1>t, TurnFacts, Zenon DEF Conclude
    <2>2. FoundWasKept'
      BY <1>0, <1>a, <1>s, <2>1 DEF FoundWasKept, Found
    <2>3. FindsFirst'
      BY <1>0, <1>a, <1>s, <1>1, <2>1 DEF FindsFirst, Undisturbed, Found
    <2>4. QED
      BY <1>0, <1>a, <2>1, <2>2, <2>3 DEF TypeOK, Phase, Shape, Undisturbed, Found
  <1>2. CASE lhs < rhs
    <2> DEFINE c == midpoint(lhs, cur)
    <2>1. c \in Nat /\ lhs <= c /\ c <= cur /\ (lhs < cur => c < cur)
          /\ (c = 0 => lhs + cur <= 1)
      BY <1>0, <1>s, <1>2, Midpoint
    <2>2. lhs' = lhs /\ rhs' = cur /\ cur' = c
      BY <1>0, <1>2, <1>t, TurnFacts, Zenon
    <2>3. CASE c = 0
      <3>1. pc' = "done" /\ outcome' = Found(cur) /\ best' = best
        BY <1>0, <1>2, <2>3, <1>t, TurnFacts, Zenon DEF Conclude
      <3>2. cur = 1 /\ first = 1 /\ lo = 0
        BY <1>0, <1>s, <2>1, <2>3
      <3>3. FoundWasKept' /\ FindsFirst'
        BY <1>0, <1>a, <1>s, <3>1, <3>2 DEF FoundWasKept, FindsFirst, Found
      <3>4. QED
        BY <1>0, <1>a, <2>1, <2>2, <3>1, <3>3 DEF TypeOK, Phase, Shape, Undisturbed, Found
    <2>4. CASE c # 0
      <3>1. best' = cur /\ pc' = "probe" /\ outcome' = Running
        BY <1>0, <1>2, <2>4, <1>t, TurnFacts, Zenon DEF Phase
      <3>2. cur # None
        BY <1>0
      <3>3. Shape'
        BY <1>0, <1>a, <1>s, <1>2, <2>1, <2>2, <3>1, <3>2 DEF Shape
      <3>4. Undisturbed'
        BY <1>0, <1>a, <1>s, <2>1, <2>2, <3>1, <3>2 DEF Undisturbed
      <3>5. QED
        BY <1>0, <1>a, <2>1, <2>2, <3>1, <3>3, <3>4
        DEF TypeOK, Phase, FindsFirst, FoundWasKept, Running
    <2>5. QED BY <2>3, <2>4
  <1>3. QED BY <1>0, <1>1, <1>2

\* A probe that fails, because the block is gone or for another reason.
LEMMA ProbeFailInv ==
    ASSUME SInv, Turn(FALSE), faults' \in 0..MaxFaults,
           \/ cur < first /\ faults' = faults
           \/ faults' > 0
    PROVE  SInv'
  <1> USE SearchAssumption DEF SInv
  <1>0. /\ lo \in Nat /\ hi \in Nat /\ first \in Nat /\ floor \in Nat /\ hops \in Nat
        /\ lhs \in Nat /\ rhs \in Nat /\ cur \in Nat /\ best \in Nat \cup {None}
        /\ 1 <= first /\ floor <= first /\ pc = "probe"
    <2>1. pc = "probe"
      BY TurnFacts, Zenon
    <2>2. QED BY <2>1 DEF TypeOK
  <1>a. /\ UNCHANGED <<lo, hi, start, tolerance, first, floor>> /\ hops' \in Nat
    BY TurnFacts, Zenon
  <1>s. /\ lo <= lhs /\ rhs <= hi /\ lhs <= rhs + 1 /\ lo <= cur /\ cur <= rhs
        /\ lhs <= rhs => lhs <= cur
        /\ lhs >= rhs => cur = rhs
        /\ lhs > rhs => best = None
        /\ best # None => best = rhs /\ floor <= best
        /\ best # None /\ lhs < rhs => cur < rhs
    BY <1>0 DEF Shape
  <1>u. faults' = 0 /\ first = floor =>
            /\ cur < first /\ faults = 0
            /\ lo < lhs => lhs <= first
            /\ best # None => first <= rhs
            /\ best = None => rhs = hi
    BY <1>0 DEF Undisturbed, TypeOK
  <1>1. CASE lhs >= rhs
    <2>1. /\ pc' = "done" /\ UNCHANGED <<lhs, rhs, cur, best>>
          /\ \/ outcome' = Failed
             \/ best # None /\ outcome' = Found(best)
      BY <1>1, TurnFacts, Zenon DEF Conclude
    <2>2. FoundWasKept'
      BY <1>0, <1>a, <1>s, <2>1 DEF FoundWasKept, Found, Failed
    <2>3. FindsFirst'
      BY <1>0, <1>a, <1>s, <1>u, <1>1, <2>1 DEF FindsFirst, Found
    <2>4. QED
      BY <1>0, <1>a, <2>1, <2>2, <2>3
      DEF TypeOK, Phase, Shape, Undisturbed, Found, Failed
  <1>2. CASE lhs < rhs
    <2> DEFINE c == midpoint(cur + 1, rhs)
    <2>1. /\ c \in Nat
          /\ cur < rhs => cur + 1 <= c /\ c <= rhs
          /\ cur + 1 < rhs => c < rhs
          /\ cur = rhs => c = rhs
      <3>1. cur + 1 \in Nat
        BY <1>0
      <3>2. /\ c \in Nat
            /\ cur + 1 <= rhs => cur + 1 <= c /\ c <= rhs
            /\ cur + 1 < rhs => c < rhs
            /\ cur + 1 = rhs + 1 => c = rhs
        BY <1>0, <3>1, Midpoint, Zenon
      <3>3. QED BY <1>0, <3>2
    <2>2. c # 0
      BY <1>0, <1>s, <1>2, <2>1
    <2>3. /\ lhs' = cur + 1 /\ rhs' = rhs /\ cur' = c
          /\ best' = best /\ pc' = "probe" /\ outcome' = Running
      BY <1>0, <1>2, <2>2, TurnFacts, Zenon DEF Phase
    <2>4. Shape'
      BY <1>0, <1>a, <1>s, <1>2, <2>1, <2>3 DEF Shape
    <2>5. Undisturbed'
      BY <1>0, <1>a, <1>s, <1>u, <2>3 DEF Undisturbed
    <2>6. QED
      BY <1>0, <1>a, <2>1, <2>3, <2>4, <2>5
      DEF TypeOK, Phase, FindsFirst, FoundWasKept, Running
  <1>3. QED BY <1>0, <1>1, <1>2

\* Every step preserves the invariant.
LEMMA SearchNext == SInv /\ [Next]_vars => SInv'
  <1> SUFFICES ASSUME SInv, [Next]_vars PROVE SInv'
    OBVIOUS
  <1> USE SearchAssumption
  <1>1. CASE UNCHANGED vars
    BY <1>1
    DEF SInv, TypeOK, Phase, Shape, Undisturbed, FindsFirst, FoundWasKept,
        vars, args, locals
  <1>2. CASE Prune
    <2>1. first' # floor'
      BY <1>2 DEF Prune, SInv, TypeOK
    <2>2. QED
      BY <1>2, <2>1
      DEF SInv, TypeOK, Phase, Shape, Undisturbed, FindsFirst, FoundWasKept,
          Prune, args, locals
  <1>3. CASE BoundsFail
    <2>1. faults' # 0 /\ faults' \in 0..MaxFaults
      BY <1>3 DEF BoundsFail, SInv, TypeOK
    <2>2. QED
      BY <1>3, <2>1
      DEF SInv, TypeOK, Phase, Shape, Undisturbed, FindsFirst, FoundWasKept,
          BoundsFail, args, locals, Failed
  <1>4. CASE ProbeMiss
    <2>1. cur < first /\ faults' = faults /\ Turn(FALSE) /\ faults' \in 0..MaxFaults
      BY <1>4, Zenon DEF ProbeMiss, SInv, TypeOK
    <2>2. QED BY <2>1, ProbeFailInv
  <1>5. CASE ProbeFault
    <2>1. faults' > 0 /\ faults' \in 0..MaxFaults
      BY <1>5 DEF ProbeFault, SInv, TypeOK
    <2>2. Turn(FALSE)
      BY <1>5, Zenon DEF ProbeFault
    <2>3. QED BY <2>1, <2>2, ProbeFailInv
  <1>6. QED
    BY <1>1, <1>2, <1>3, <1>4, <1>5, BeginInv, ProbeOkInv DEF Next

\* The invariant holds throughout every search.
THEOREM SearchInvariant == Spec => []SInv
  BY SearchInit, SearchNext, PTL DEF Spec

\* Left undisturbed, find() returns the first kept block of the range.
THEOREM FindsTheFirst == Spec => []FindsFirst
  <1>1. SInv => FindsFirst
    BY DEF SInv
  <1>2. QED BY <1>1, SearchInvariant, PTL

\* Whatever happens meanwhile, a result is a block of the range that was
\* kept when the search began.
THEOREM FoundIsKept == Spec => []FoundWasKept
  <1>1. SInv => FoundWasKept
    BY DEF SInv
  <1>2. QED BY <1>1, SearchInvariant, PTL

\* The search converges on its best point.
THEOREM ConvergesOnTheBest == Spec => []ConvergesOnBest
  <1>1. SInv => ConvergesOnBest
    BY DEF SInv, Shape, ConvergesOnBest, TypeOK
  <1>2. QED BY <1>1, SearchInvariant, PTL

\* find() implements Search.
THEOREM ImplementsSearch == Spec => RefinesSearch
  <1>1. Init => Promise!Init
    BY DEF Init, Promise!Init, Running
  <1>2. SInv /\ SInv' /\ [Next]_vars => [Promise!Next]_(Promise!svars)
    <2> SUFFICES ASSUME SInv, SInv', [Next]_vars
                 PROVE  Promise!Next \/ UNCHANGED Promise!svars
      OBVIOUS
    <2> USE DEF Promise!svars, Promise!Next
    <2>1. CASE UNCHANGED vars
      BY <2>1 DEF vars, args
    <2>2. CASE Prune
      BY <2>2 DEF Prune, Promise!Prune, args
    <2>3. CASE Begin
      <3>1. CASE lo > hi
        <4>1. outcome = Running /\ outcome' = Failed
          BY <2>3, <3>1 DEF Begin, SInv, Phase
        <4>2. Promise!Failed
          BY <2>3, <3>1, <4>1 DEF Begin, args, Promise!Failed, Running, Failed, SInv, TypeOK
        <4>3. QED BY <4>2
      <3>2. CASE ~(lo > hi)
        BY <2>3, <3>2 DEF Begin, args
      <3>3. QED BY <3>1, <3>2
    <2>4. CASE BoundsFail
      <3>1. outcome = Running /\ outcome' = Failed
        BY <2>4 DEF BoundsFail, SInv, Phase
      <3>2. Promise!Fault
        BY <2>4, <3>1 DEF BoundsFail, args, Promise!Fault, Running, Failed
      <3>3. QED BY <3>2
    <2>5. ASSUME NEW ok \in BOOLEAN, Turn(ok)
          PROVE  /\ outcome = Running
                 /\ UNCHANGED <<lo, hi, first, floor>>
                 /\ \/ outcome' = outcome
                    \/ outcome' = Failed /\ ~ok /\ pc' = "done"
                    \/ \E n \in lo..hi : floor <= n /\ outcome' = Found(n)
      <3>1. /\ pc = "probe" /\ outcome = Running
            /\ UNCHANGED <<lo, hi, first, floor>>
            /\ \/ outcome' = outcome
               \/ Conclude(ok, cur, cur)
               \/ Conclude(ok, cur, 0)
        BY <2>5, TurnFacts DEF SInv, Phase, TypeOK
      <3>2. CASE outcome' = outcome
        BY <3>1, <3>2
      <3>3. CASE Conclude(ok, cur, cur) \/ Conclude(ok, cur, 0)
        <4>1. /\ pc' = "done"
              /\ \/ outcome' = Failed /\ ~ok
                 \/ \E n : outcome' = Found(n)
          BY <3>3 DEF Conclude
        <4>2. CASE outcome' = Failed /\ ~ok
          BY <3>1, <4>1, <4>2
        <4>3. CASE \E n : outcome' = Found(n)
          <5>1. PICK n : outcome' = Found(n)
            BY <4>3
          <5>2. n \in lo..hi /\ floor <= n
            BY <3>1, <5>1 DEF SInv, FoundWasKept, Found
          <5>3. QED BY <3>1, <5>1, <5>2
        <4>4. QED BY <4>1, <4>2, <4>3
      <3>4. QED BY <3>1, <3>2, <3>3
    <2>6. CASE ProbeOk \/ ProbeMiss
      <3>1. PICK ok \in BOOLEAN : Turn(ok)
        BY <2>6, Zenon DEF ProbeOk, ProbeMiss
      <3>2. faults' = faults
        BY <2>6, Zenon DEF ProbeOk, ProbeMiss
      <3>3. CASE outcome' = outcome
        BY <2>5, <3>1, <3>2, <3>3
      <3>4. CASE outcome' = Failed /\ pc' = "done"
        <4>1. hi < lo \/ hi < first \/ floor < first \/ faults > 0
          BY <2>5, <3>1, <3>2, <3>4, SearchAssumption
          DEF SInv, TypeOK, FindsFirst, Failed, Found
        <4>2. Promise!Failed
          BY <2>5, <3>1, <3>2, <3>4, <4>1 DEF Promise!Failed, Running, Failed
        <4>3. QED BY <4>2
      <3>5. CASE \E n \in lo..hi : floor <= n /\ outcome' = Found(n)
        <4>1. Promise!Found
          BY <2>5, <3>1, <3>2, <3>5 DEF Promise!Found, Running, Found
        <4>2. QED BY <4>1
      <3>6. QED BY <2>5, <3>1, <3>3, <3>4, <3>5
    <2>7. CASE ProbeFault
      <3>1. faults < MaxFaults /\ faults' = faults + 1
        BY <2>7 DEF ProbeFault
      <3>t. Turn(FALSE)
        BY <2>7, Zenon DEF ProbeFault
      <3>u. /\ outcome = Running
            /\ UNCHANGED <<lo, hi, first, floor>>
            /\ \/ outcome' = outcome
               \/ outcome' = Failed
               \/ \E n \in lo..hi : floor <= n /\ outcome' = Found(n)
        BY <2>5, <3>t, Zenon
      <3>2. CASE outcome' = outcome \/ outcome' = Failed
        <4>1. Promise!Fault
          BY <3>u, <3>1, <3>2 DEF Promise!Fault, Running, Failed
        <4>2. QED BY <4>1
      <3>3. CASE \E n \in lo..hi : floor <= n /\ outcome' = Found(n)
        <4>1. Promise!Found
          BY <3>u, <3>1, <3>3 DEF Promise!Found, Running, Found
        <4>2. QED BY <4>1
      <3>4. QED BY <3>u, <3>2, <3>3
    <2>8. QED
      BY <2>1, <2>2, <2>3, <2>4, <2>6, <2>7 DEF Next
  <1>3. QED
    BY <1>1, <1>2, SearchInvariant, PTL DEF Spec, RefinesSearch, Promise!Spec
=============================================================================
