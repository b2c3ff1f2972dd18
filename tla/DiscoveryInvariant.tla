------------------------- MODULE DiscoveryInvariant -------------------------
(***************************************************************************)
(* The other actors of Discovery keep its inductive invariant.             *)
(***************************************************************************)
EXTENDS DiscoveryLastBlock

\* The list that FirstBlockDiscoverActor applies starts with the master
\* block, and holds no other.
LEMMA EntriesOfFacts ==
    ASSUME NEW n \in 1..MaxSeqno
    PROVE  /\ EntriesOf(n) \in Seq(Entry)
           /\ Len(EntriesOf(n)) >= 1
           /\ EntriesOf(n)[1].shard = Master
           /\ \A i \in 1..Len(EntriesOf(n)) :
                 EntriesOf(n)[i].shard = Master => EntriesOf(n)[i].seqno = n
  <1> DEFINE e == [shard |-> Master, seqno |-> n]
             t == ShardsOf(n)
  <1>1. t \in Seq(BlockId) /\ n \in Nat
    BY ShardsOfAssumption, BoundsAssumption
  <1>2. e \in Entry /\ <<e>> \in Seq(Entry) /\ Len(<<e>>) = 1 /\ <<e>>[1] = e
    BY <1>1 DEF Entry, ShardIds
  <1>3. t \in Seq(Entry)
    <2>1. BlockId \subseteq Entry
      BY DEF BlockId, Entry, ShardIds
    <2>2. QED BY <1>1, <2>1
  <1>4. EntriesOf(n) = <<e>> \o t
    BY DEF EntriesOf
  <1>5. EntriesOf(n) \in Seq(Entry) /\ Len(EntriesOf(n)) = 1 + Len(t)
    BY <1>2, <1>3, <1>4
  <1>6. EntriesOf(n)[1] = e
    BY <1>2, <1>3, <1>4
  <1>7. ASSUME NEW i \in 1..Len(EntriesOf(n)), EntriesOf(n)[i].shard = Master
        PROVE  EntriesOf(n)[i].seqno = n
    <2>1. CASE i = 1
      BY <1>6, <2>1
    <2>2. CASE i # 1
      <3>1. i - 1 \in 1..Len(t) /\ i \in Nat /\ Len(t) \in Nat
        BY <1>3, <1>5, <2>2
      <3>2. (<<e>> \o t)[i] = t[i - 1]
        BY <1>2, <1>3, <3>1, <2>2
      <3>3. EntriesOf(n)[i] = t[i - 1]
        BY <1>4, <3>2
      <3>4. t[i - 1] \in BlockId
        BY <1>1, <3>1
      <3>5. QED BY <1>7, <3>3, <3>4, MasterAssumption DEF BlockId
    <2>3. QED BY <2>1, <2>2
  <1>8. Len(t) \in Nat
    BY <1>1
  <1>9. QED BY <1>5, <1>6, <1>7, <1>8

\* The left end of another shard leaves the master entry as it is.
LEMMA UpsertLeftShard ==
    ASSUME NEW reg \in RegistryType, NEW s \in ShardIds, s # Master, NEW n \in Nat
    PROVE  upsert_left(reg, s, HeaderOf(n))[Master] = reg[Master]
  <1>1. Master \in ShardIds \ {s}
    BY DEF ShardIds
  <1>2. QED BY <1>1, UpsertLeft, HeaderOfType

\* Applying any header of the list leaves the left edge at the block found.
LEMMA ApplySetsLeft ==
    ASSUME Inv, FbApply
    PROVE  LeftDefined' /\ master'.left.seqno = fb.found
  <1> DEFINE e == Head(fb.headers)
  <1>1. registry \in RegistryType /\ Master \in ShardIds /\ fb.headers \in Seq(Entry)
    BY DEF Inv, TypeOK, RegistryType, ShardIds, FbState
  <1>2. /\ fb.pc = "apply" /\ Len(fb.headers) >= 1 /\ Len(fb.headers) \in Nat
        /\ registry' = upsert_left(registry, e.shard, HeaderOf(e.seqno))
    BY <1>1 DEF Inv, LeftInv, FbApply
  <1>3. e = fb.headers[1] /\ 1 \in 1..Len(fb.headers)
    BY <1>2
  <1>4. e \in Entry
    BY <1>1, <1>3
  <1>5. CASE e.shard = Master
    <2>1. e.seqno = fb.found /\ e.seqno \in Nat
      <3>1. e.seqno = fb.found
        BY <1>2, <1>3, <1>5 DEF Inv, LeftInv, OneMaster
      <3>2. QED BY <1>4, <3>1 DEF Entry
    <2>2. QED
      BY <1>1, <1>2, <1>5, <2>1, UpsertLeft, HeaderOfType, NoneAssumption
      DEF master, LeftDefined
  <1>6. CASE e.shard # Master
    <2>1. e.shard \in ShardIds /\ e.seqno \in Nat
      BY <1>4 DEF Entry
    <2>2. master' = master
      BY <1>1, <1>2, <1>6, <2>1, UpsertLeftShard DEF master
    <2>3. LeftDefined /\ master.left.seqno = fb.found
      BY <1>2, <1>3, <1>6 DEF Inv, LeftInv
    <2>4. QED BY <2>2, <2>3 DEF LeftDefined
  <1>7. QED BY <1>5, <1>6

\* The steps of FirstBlockDiscoverActor preserve Inv.
LEMMA FbInv == ASSUME Inv, Fb PROVE Inv'
  <1> USE DEF Inv
  <1>0. /\ registry \in RegistryType /\ fb \in FbState /\ Master \in ShardIds
        /\ first \in Nat
        /\ watch # None => watch.last \in Nat
    BY DEF TypeOK, RegistryType, ShardIds, Info
  <1>1. CASE FbWake
    <2>1. fb' = FbIdle("tick", fb.current) /\ fb.current = None /\ watch # None
      BY <1>1 DEF FbWake, LeftInv
    <2>2. fb' \in FbState /\ fb'.pc = "tick" /\ fb'.current = None
      BY <2>1 DEF FbIdle, FbState
    <2>3. UNCHANGED <<head, first, faults, registry, watch, lb, bsq, chans, zombies>>
      BY <1>1 DEF FbWake, fbOthers, server
    <2>4. TypeOK'
      BY <2>2, <2>3 DEF TypeOK
    <2>5. LeftInv'
      BY <1>1, <2>1, <2>2, <2>3 DEF LeftInv, LeftDefined, master, FbWake
    <2>6. QED BY <2>3, <2>4, <2>5, RightInvFrame
  <1>2. CASE FbTick
    <2>1. UNCHANGED <<head, first, faults, registry, watch, lb, bsq, chans, zombies>>
      BY <1>2 DEF FbTick, fbOthers, server
    <2>2. watch # None /\ watch.last >= 1
      BY <1>2, BoundsAssumption DEF FbTick, LeftInv, RightInv
    <2>3. CASE fb.current = None
      <3>1. fb' = FbSearchFrom([fb EXCEPT !.start = watch.last], 1)
        BY <1>2, <2>3 DEF FbTick
      <3>2. /\ fb' \in FbState /\ fb'.pc = "search" /\ fb'.current = None
            /\ fb'.start = watch.last /\ fb'.lhs = 1
        BY <1>0, <2>2, <2>3, <3>1, Zenon DEF FbSearchFrom, FbState
      <3>3. TypeOK'
        BY <2>1, <3>2 DEF TypeOK
      <3>4. LeftInv'
        BY <1>0, <1>2, <2>1, <2>2, <2>3, <3>2 DEF LeftInv, LeftDefined, master, FbTick
      <3>5. QED BY <2>1, <3>3, <3>4, RightInvFrame
    <2>4. CASE fb.current # None
      <3>1. fb' = [[fb EXCEPT !.start = watch.last] EXCEPT !.pc = "check"]
        BY <1>2, <2>4 DEF FbTick
      <3>2. /\ fb' \in FbState /\ fb'.pc = "check" /\ fb'.current = fb.current
            /\ fb'.start = watch.last
        BY <1>0, <2>2, <3>1, Zenon DEF FbState
      <3>3. TypeOK'
        BY <2>1, <3>2 DEF TypeOK
      <3>4. LeftInv'
        BY <1>0, <1>2, <2>1, <2>2, <2>4, <3>2 DEF LeftInv, LeftDefined, master, FbTick
      <3>5. QED BY <2>1, <3>3, <3>4, RightInvFrame
    <2>5. QED BY <2>3, <2>4
  <1>3. CASE FbCheckOk \/ FbNotFound
    <2>1. /\ fb' = FbIdle("tick", fb.current)
          /\ fb.pc \in {"check", "search"}
          /\ UNCHANGED <<head, first, registry, watch, lb, bsq, chans, zombies>>
      BY <1>3 DEF FbCheckOk, FbNotFound, fbOthers, server
    <2>2. fb' \in FbState /\ fb'.pc = "tick" /\ fb'.current = fb.current
      BY <1>0, <2>1 DEF FbIdle, FbState
    <2>3. faults' \in 0..MaxFaults
      BY <1>3, BoundsAssumption DEF FbCheckOk, FbNotFound, Fault, TypeOK
    <2>4. TypeOK'
      BY <2>1, <2>2, <2>3 DEF TypeOK
    <2>5. LeftInv'
      BY <2>1, <2>2 DEF LeftInv, LeftDefined, master
    <2>6. QED BY <2>1, <2>4, <2>5, RightInvFrame
  <1>4. CASE FbCheckFail
    <2>1. /\ fb' = FbSearchFrom(fb, fb.current)
          /\ fb.pc = "check"
          /\ UNCHANGED <<head, first, registry, watch, lb, bsq, chans, zombies>>
      BY <1>4 DEF FbCheckFail, fbOthers, server
    <2>2. fb.current \in Nat
      BY <1>0, <2>1 DEF LeftInv, FbState
    <2>3. /\ fb' \in FbState /\ fb'.pc = "search" /\ fb'.current = fb.current
          /\ fb'.start = fb.start /\ fb'.lhs = fb.current
      BY <1>0, <2>1, <2>2, Zenon DEF FbSearchFrom, FbState
    <2>4. faults' \in 0..MaxFaults
      BY <1>4, BoundsAssumption DEF FbCheckFail, Refused, Fault, TypeOK
    <2>5. TypeOK'
      BY <2>1, <2>3, <2>4 DEF TypeOK
    <2>6. LeftInv'
      BY <1>0, <2>1, <2>2, <2>3, SMTT(30) DEF LeftInv, LeftDefined, master, FbState
    <2>7. QED BY <2>1, <2>5, <2>6, RightInvFrame
  <1>5. CASE FbFound
    <2>1. PICK n \in fb.lhs .. fb.start :
             fb' = [fb EXCEPT !.pc = "apply", !.found = n, !.headers = EntriesOf(n)]
      BY <1>5, Zenon DEF FbFound
    <2>2. /\ fb.pc = "search"
          /\ UNCHANGED <<head, first, faults, registry, watch, lb, bsq, chans, zombies>>
      BY <1>5 DEF FbFound, fbOthers, server
    <2>3. fb.lhs \in Nat /\ fb.start \in Nat /\ fb.lhs >= 1
      BY <1>0, <2>2 DEF FbState, LeftInv
    <2>4. n \in Nat /\ n <= fb.start /\ fb.lhs <= n /\ n \in 1..MaxSeqno
      BY <1>0, <2>2, <2>3, BoundsAssumption DEF LeftInv, RightInv
    <2>5. /\ fb' \in FbState /\ fb'.pc = "apply" /\ fb'.found = n
          /\ fb'.headers = EntriesOf(n) /\ fb'.start = fb.start
          /\ fb'.current = fb.current
      BY <1>0, <2>1, <2>4, EntriesOfFacts, Zenon DEF FbState
    <2>6. TypeOK'
      BY <2>2, <2>5 DEF TypeOK
    <2>7. LeftDefined => master.left.seqno <= n
      BY <2>2, <2>3, <2>4, <1>0 DEF LeftInv, FbState
    <2>8. OneMaster' /\ Len(fb'.headers) >= 1 /\ fb'.headers[1].shard = Master
      BY <2>4, <2>5, EntriesOfFacts DEF OneMaster
    <2>9. LeftInv'
      BY <2>2, <2>3, <2>4, <2>5, <2>7, <2>8 DEF LeftInv, LeftDefined, master
    <2>10. QED BY <2>2, <2>6, <2>9, RightInvFrame
  <1>6. CASE FbApply
    <2> DEFINE e == Head(fb.headers)
    <2>1. /\ fb.pc = "apply"
          /\ registry' = upsert_left(registry, e.shard, HeaderOf(e.seqno))
          /\ UNCHANGED <<head, first, faults, watch, lb, bsq, chans, zombies>>
      BY <1>6 DEF FbApply, fbOthers, server
    <2>2. /\ fb.headers \in Seq(Entry) /\ Len(fb.headers) \in Nat /\ Len(fb.headers) >= 1
          /\ fb.found \in Nat /\ fb.start \in Nat /\ fb.found <= fb.start
      BY <1>0, <2>1 DEF FbState, LeftInv
    <2>3. /\ e = fb.headers[1] /\ e \in Entry
          /\ e.shard \in ShardIds /\ e.seqno \in Nat
          /\ e.shard = Master => e.seqno = fb.found
      <3>1. e = fb.headers[1] /\ 1 \in 1..Len(fb.headers)
        BY <2>2
      <3>2. e \in Entry
        BY <2>2, <3>1
      <3>3. e.shard = Master => e.seqno = fb.found
        BY <2>1, <3>1 DEF LeftInv, OneMaster
      <3>4. QED BY <3>1, <3>2, <3>3 DEF Entry
    <2>4. watch # None /\ RightDefined /\ fb.found <= watch.last
      BY <1>0, <2>1, <2>2, SMTT(30) DEF LeftInv, RightInv
    <2>5. registry' \in RegistryType
      BY <1>0, <2>1, <2>3, UpsertLeft, HeaderOfType
    <2>6. /\ master' # None
          /\ master'.right = master.right
          /\ master'.right_seqno = master.right_seqno
      <3>1. CASE e.shard = Master
        BY <1>0, <2>1, <2>3, <2>4, <3>1, UpsertLeft, HeaderOfType, SMTT(30) DEF master, RightDefined
      <3>2. CASE e.shard # Master
        <4>1. master' = master
          BY <1>0, <2>1, <2>3, <3>2, UpsertLeftShard DEF master
        <4>2. QED BY <2>4, <4>1 DEF RightDefined
      <3>3. QED BY <3>1, <3>2
    <2>7. LeftDefined' /\ master'.left.seqno = fb.found
      BY <1>6, ApplySetsLeft
    <2>8. RightInv'
      BY <2>1, <2>4, <2>6, Zenon DEF RightInv, RightDefined, master, right_next, right_next_seqno
    <2>9. fb' \in FbState /\ LeftInv'
      <3>1. CASE Len(fb.headers) = 1
        <4>1. fb' = FbIdle("tick", fb.found)
          BY <1>6, <3>1 DEF FbApply
        <4>2. fb' \in FbState /\ fb'.pc = "tick" /\ fb'.current = fb.found
          BY <2>2, <4>1 DEF FbIdle, FbState
        <4>3. fb'.current # None
          BY <2>2, <4>2, NoneAssumption
        <4>4. QED
          BY <2>1, <2>2, <2>4, <2>7, <4>2, <4>3, Zenon DEF LeftInv
      <3>2. CASE Len(fb.headers) # 1
        <4>1. fb' = [fb EXCEPT !.headers = Tail(fb.headers)]
          BY <1>6, <3>2 DEF FbApply
        <4>2. /\ Tail(fb.headers) \in Seq(Entry)
              /\ Len(Tail(fb.headers)) = Len(fb.headers) - 1
              /\ \A i \in 1..Len(Tail(fb.headers)) :
                    Tail(fb.headers)[i] = fb.headers[i + 1]
          BY <2>2
        <4>3. /\ fb' \in FbState /\ fb'.pc = "apply" /\ fb'.found = fb.found
              /\ fb'.start = fb.start /\ fb'.headers = Tail(fb.headers)
              /\ fb'.current = fb.current
          BY <1>0, <2>1, <4>1, <4>2, Zenon DEF FbState
        <4>4. OneMaster'
          <5>1. SUFFICES ASSUME NEW i \in 1..Len(fb'.headers)
                         PROVE  fb'.headers[i].shard = Master
                                   => fb'.headers[i].seqno = fb'.found
            BY DEF OneMaster
          <5>2. i + 1 \in 1..Len(fb.headers) /\ fb'.headers[i] = fb.headers[i + 1]
            BY <2>2, <4>2, <4>3
          <5>3. QED BY <2>1, <4>3, <5>2 DEF LeftInv, OneMaster
        <4>5. Len(fb'.headers) >= 1
          <5>1. \A k \in Nat : k >= 1 /\ k # 1 => k - 1 >= 1
            OBVIOUS
          <5>2. Len(fb.headers) - 1 >= 1
            BY <2>2, <3>2, <5>1, Zenon
          <5>3. QED BY <4>2, <4>3, <5>2
        <4>6. /\ fb'.start <= watch'.last /\ 1 <= fb'.found /\ fb'.found <= fb'.start
              /\ watch' # None
              /\ fb'.current # None => fb'.current >= 1
          BY <2>1, <2>2, <2>4, <4>3 DEF LeftInv
        <4>7. master'.left.seqno <= watch'.last /\ master'.left.seqno <= fb'.found
          BY <1>0, <2>1, <2>2, <2>4, <2>7, <4>3
        <4>8. QED
          BY <2>7, <4>3, <4>4, <4>5, <4>6, <4>7 DEF LeftInv
      <3>3. QED BY <3>1, <3>2
    <2>10. TypeOK'
      BY <2>1, <2>5, <2>9 DEF TypeOK, RegistryType
    <2>11. QED BY <2>8, <2>9, <2>10
  <1>7. QED
    BY <1>1, <1>2, <1>3, <1>4, <1>5, <1>6 DEF Fb

\* BlockShardsActor and the shard actors never touch the master entry.
LEMMA ShardStepFrame ==
    ASSUME Inv, registry' \in RegistryType, master' = master,
           UNCHANGED <<head, first, watch, lb, fb>>, faults' \in 0..MaxFaults,
           bsq' \in Seq(1..MaxSeqno), chans' \in [Shards -> Seq(Nat) \cup {None}],
           zombies' \subseteq BlockId
    PROVE  Inv'
  <1> USE DEF Inv
  <1>1. TypeOK'
    BY DEF TypeOK, RegistryType
  <1>2. RightInv'
    BY DEF RightInv, RightDefined, master, right_next
  <1>3. LeftInv'
    BY DEF LeftInv, OneMaster, LeftDefined
  <1>4. QED BY <1>1, <1>2, <1>3

\* An upsert of a workchain shard leaves the master entry as it is.
LEMMA UpsertRightShard ==
    ASSUME NEW reg \in RegistryType, NEW s \in Shards, NEW n \in Nat
    PROVE  LET new == upsert_right(reg, s, HeaderOf(n)) IN
           new \in RegistryType /\ new[Master] = reg[Master]
  <1>1. s \in ShardIds /\ Master \in ShardIds \ {s}
    BY MasterAssumption DEF ShardIds
  <1>2. QED BY <1>1, UpsertRight, HeaderOfType

\* The steps of BlockShardsActor preserve Inv.
LEMMA BsInv == ASSUME Inv, Bs PROVE Inv'
  <1>0. /\ registry \in RegistryType /\ Master \in ShardIds
        /\ bsq \in Seq(1..MaxSeqno) /\ faults \in 0..MaxFaults
        /\ chans \in [Shards -> Seq(Nat) \cup {None}] /\ zombies \subseteq BlockId
    BY DEF Inv, TypeOK, RegistryType, ShardIds
  <1>1. CASE BsShards
    <2> DEFINE m == Head(bsq)
               Of(s) == {b \in BlocksOf(m) : b.shard = s}
               seqno(s) == (CHOOSE b \in Of(s) : TRUE).seqno
    <2>1. /\ registry' = [s \in ShardIds |->
                IF s = Master \/ Of(s) = {} THEN registry[s]
                ELSE upsert_right_end(registry, s, seqno(s))[s]]
          /\ chans' = [s \in Shards |->
                IF Of(s) = {} THEN None
                ELSE IF chans[s] = None THEN <<seqno(s)>>
                ELSE Append(chans[s], seqno(s))]
          /\ zombies' = zombies \cup
                {[shard |-> s, seqno |-> Head(chans[s])] :
                    s \in {r \in Shards : /\ Of(r) = {}
                                          /\ chans[r] # None
                                          /\ chans[r] # <<>>}}
          /\ bsq # <<>>
          /\ bsq' = Tail(bsq)
          /\ UNCHANGED <<head, first, watch, lb, fb, faults>>
      BY <1>1 DEF BsShards, bsOthers, server, ShardEnds, Inboxes, BlockOf, seqno_of
    <2>2. m \in 1..MaxSeqno /\ bsq' \in Seq(1..MaxSeqno)
      <3>1. bsq # <<>> /\ bsq' = Tail(bsq)
        BY <2>1
      <3>2. Head(bsq) \in 1..MaxSeqno
        BY <1>0, <3>1, HeadTailProperties, Zenon
      <3>3. Tail(bsq) \in Seq(1..MaxSeqno)
        BY <1>0, <3>1
      <3>4. QED BY <3>1, <3>2, <3>3
    <2>3. \A b \in BlocksOf(m) : b \in BlockId
      BY <2>2, ShardsOfAssumption DEF BlocksOf
    <2>4. \A s : Of(s) # {} => seqno(s) \in Nat
      <3>1. TAKE s
      <3>2. HAVE Of(s) # {}
      <3>3. (CHOOSE b \in Of(s) : TRUE) \in Of(s)
        BY <3>2
      <3>4. QED BY <2>3, <3>3 DEF BlockId
    <2>5. registry' \in RegistryType
      <3>1. ASSUME NEW s \in ShardIds, ~(s = Master \/ Of(s) = {})
            PROVE  upsert_right_end(registry, s, seqno(s))[s] \in Bounds \cup {None}
        <4>1. seqno(s) \in Nat
          BY <2>4, <3>1
        <4>2. upsert_right_end(registry, s, seqno(s)) \in RegistryType
          BY <1>0, <4>1, UpsertRightEnd, Zenon
        <4>3. QED BY <4>2 DEF RegistryType
      <3>2. \A s \in ShardIds : registry[s] \in Bounds \cup {None}
        BY <1>0 DEF RegistryType
      <3>3. QED BY <2>1, <3>1, <3>2 DEF RegistryType
    <2>6. master' = master
      BY <1>0, <2>1 DEF master
    <2>7. chans' \in [Shards -> Seq(Nat) \cup {None}]
      <3>1. ASSUME NEW s \in Shards, Of(s) # {}, chans[s] # None
            PROVE  Append(chans[s], seqno(s)) \in Seq(Nat)
        <4>1. seqno(s) \in Nat /\ chans[s] \in Seq(Nat)
          BY <1>0, <2>4, <3>1
        <4>2. QED BY <4>1
      <3>2. ASSUME NEW s \in Shards, Of(s) # {}
            PROVE  <<seqno(s)>> \in Seq(Nat)
        BY <2>4, <3>2
      <3>3. QED BY <2>1, <3>1, <3>2
    <2>8. zombies' \subseteq BlockId
      <3>1. ASSUME NEW s \in Shards, chans[s] # None, chans[s] # <<>>
            PROVE  [shard |-> s, seqno |-> Head(chans[s])] \in BlockId
        <4>1. chans[s] \in Seq(Nat)
          BY <1>0, <3>1
        <4>2. Head(chans[s]) \in Nat
          BY <3>1, <4>1
        <4>3. QED BY <4>2 DEF BlockId
      <3>2. QED BY <1>0, <2>1, <3>1
    <2>9. QED
      BY <1>0, <2>1, <2>2, <2>5, <2>6, <2>7, <2>8, ShardStepFrame
  <1>2. CASE BsSkip
    <2>1. /\ bsq' = Tail(bsq) /\ bsq # <<>>
          /\ UNCHANGED <<head, first, watch, lb, fb, registry, chans, zombies>>
      BY <1>2 DEF BsSkip, bsOthers, server
    <2>2. faults' \in 0..MaxFaults
      BY <1>0, <1>2, BoundsAssumption DEF BsSkip, Refused, Fault
    <2>3. bsq' \in Seq(1..MaxSeqno) /\ master' = master
      BY <1>0, <2>1 DEF master
    <2>4. QED
      BY <1>0, <2>1, <2>2, <2>3, ShardStepFrame
  <1>3. QED
    BY <1>1, <1>2 DEF Bs

\* The steps of a shard's actor, and the last step of an aborted one,
\* preserve Inv.
LEMMA ShInv ==
    ASSUME Inv, (\E s \in Shards : Sh(s)) \/ (\E z \in zombies : ShAborted(z))
    PROVE  Inv'
  <1>0. /\ registry \in RegistryType
        /\ bsq \in Seq(1..MaxSeqno) /\ faults \in 0..MaxFaults
        /\ chans \in [Shards -> Seq(Nat) \cup {None}] /\ zombies \subseteq BlockId
    BY DEF Inv, TypeOK, RegistryType
  <1>1. ASSUME NEW s \in Shards, Sh(s)
        PROVE  Inv'
    <2>1. /\ chans[s] # None /\ chans[s] # <<>>
          /\ chans' = [chans EXCEPT ![s] = Tail(chans[s])]
          /\ UNCHANGED <<head, first, watch, lb, fb, bsq, zombies>>
      BY <1>1 DEF Sh, ShHeader, ShSkip, bsOthers, server
    <2>2. chans[s] \in Seq(Nat)
      BY <1>0, <2>1
    <2>3. Head(chans[s]) \in Nat /\ Tail(chans[s]) \in Seq(Nat)
      BY <2>1, <2>2, HeadTailProperties
    <2>4. chans' \in [Shards -> Seq(Nat) \cup {None}]
      BY <1>0, <2>1, <2>3
    <2>5. faults' \in 0..MaxFaults
      BY <1>0, <1>1, BoundsAssumption DEF Sh, ShHeader, ShSkip, Fault
    <2>6. registry' \in RegistryType /\ master' = master
      <3>1. \/ registry' = registry
            \/ registry' = upsert_right(registry, s, HeaderOf(Head(chans[s])))
        BY <1>1 DEF Sh, ShHeader, ShSkip
      <3>2. QED BY <1>0, <2>3, <3>1, UpsertRightShard, Zenon DEF master
    <2>7. QED
      BY <1>0, <2>1, <2>4, <2>5, <2>6, ShardStepFrame
  <1>2. ASSUME NEW z \in zombies, ShAborted(z)
        PROVE  Inv'
    <2>1. /\ zombies' = zombies \ {z}
          /\ registry' \in {registry, upsert_right(registry, z.shard, HeaderOf(z.seqno))}
          /\ UNCHANGED <<head, first, watch, lb, fb, faults, bsq, chans>>
      BY <1>2 DEF ShAborted, bsOthers, server
    <2>2. z.shard \in Shards /\ z.seqno \in Nat
      BY <1>0 DEF BlockId
    <2>3. registry' \in RegistryType /\ master' = master
      BY <1>0, <2>1, <2>2, UpsertRightShard, Zenon DEF master
    <2>4. zombies' \subseteq BlockId
      BY <1>0, <2>1
    <2>5. QED
      BY <1>0, <2>1, <2>3, <2>4, ShardStepFrame
  <1>3. QED
    BY <1>1, <1>2

\* Every step, or stuttering, preserves Inv.
LEMMA NextInv == Inv /\ [Next]_vars => Inv'
  <1> SUFFICES ASSUME Inv, [Next]_vars PROVE Inv'
    OBVIOUS
  <1>1. CASE UNCHANGED vars
    <2>1. TypeOK'
      BY <1>1 DEF Inv, TypeOK, vars
    <2>2. QED
      BY <1>1, <2>1, RightInvFrame, LeftInvFrame DEF Inv, vars
  <1>2. QED
    BY <1>1, ServerInv, LbInv, FbInv, BsInv, ShInv DEF Next

\* Inv holds in every state of every behaviour.
THEOREM Invariance == Spec => []Inv
  BY InitInv, NextInv, PTL DEF Spec
=============================================================================
