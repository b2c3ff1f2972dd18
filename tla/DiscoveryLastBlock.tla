------------------------- MODULE DiscoveryLastBlock -------------------------
(***************************************************************************)
(* The inductive invariant of Discovery, what the operations of the        *)
(* registry change and keep, and that the server and                       *)
(* LastBlockDiscoverActor keep the invariant.                              *)
(***************************************************************************)
EXTENDS Discovery, SequenceTheorems, TLAPS

master == registry[Master]

RightDefined == master # None /\ master.right # None

LeftDefined == master # None /\ master.left # None

\* The right edge, the published block and where LastBlockDiscoverActor is.
\* Between LbLookup and LbPublish the edge is one ahead; otherwise the two
\* agree, and a pending lookup is always the one right_next() asks for.
RightInv ==
    /\ lb.pc = "tick" => lb.seqno = 0
    /\ lb.pc # "tick" => lb.info # None
    /\ lb.pc \in {"lookup", "publish"} => lb.last_block >= 1
    /\ lb.pc = "lookup" => lb.seqno = right_next(registry, Master) /\ lb.seqno >= 1
    /\ lb.pc = "publish" => /\ RightDefined
                            /\ master.right.seqno = lb.seqno
                            /\ watch # None => watch.last + 1 = lb.seqno
    /\ lb.pc # "publish" => (RightDefined <=> watch # None)
    /\ lb.pc # "publish" /\ watch # None => watch.last = master.right.seqno
    /\ RightDefined => master.right.seqno >= 1
    /\ master # None /\ master.right_seqno # None => master.right_seqno \in 1..MaxSeqno
    /\ watch # None => watch.last \in 1..MaxSeqno

\* The only master block in the list being applied is the one found.
OneMaster == \A i \in 1..Len(fb.headers) :
                fb.headers[i].shard = Master => fb.headers[i].seqno = fb.found

\* Everything FirstBlockDiscoverActor holds is at or below the block that
\* was published when its pass began, and the left edge is the block it
\* remembers, except while a newly found list of headers is being applied.
LeftInv ==
    /\ fb.pc # "wait" => watch # None
    /\ fb.pc = "wait" => fb.current = None
    /\ fb.pc \in {"check", "search", "apply"} => fb.start <= watch.last
    /\ fb.pc = "check" => fb.current # None /\ fb.current <= fb.start
    /\ fb.pc = "search" => 1 <= fb.lhs /\ fb.lhs <= fb.start
    /\ fb.current # None => fb.current >= 1
    /\ fb.pc = "search" /\ fb.current # None => fb.current <= fb.lhs
    /\ fb.pc # "apply" => (LeftDefined <=> fb.current # None)
    /\ fb.pc # "apply" /\ LeftDefined => master.left.seqno = fb.current
    /\ LeftDefined => watch # None /\ master.left.seqno <= watch.last
    /\ fb.pc = "apply" =>
          /\ 1 <= fb.found /\ fb.found <= fb.start
          /\ Len(fb.headers) >= 1
          /\ OneMaster
          /\ LeftDefined => master.left.seqno <= fb.found
          /\ \/ fb.headers[1].shard = Master
             \/ LeftDefined /\ master.left.seqno = fb.found

Inv == TypeOK /\ RightInv /\ LeftInv

-----------------------------------------------------------------------------
(* What the registry operations do to a well-typed registry. *)

RegistryType == [ShardIds -> Bounds \cup {None}]

\* upsert_left sets the left end of one shard and keeps everything else.
LEMMA UpsertLeft ==
    ASSUME NEW reg \in RegistryType, NEW s \in ShardIds, NEW h \in Header
    PROVE  LET new == upsert_left(reg, s, h) IN
           /\ new \in RegistryType
           /\ \A t \in ShardIds \ {s} : new[t] = reg[t]
           /\ new[s] # None
           /\ new[s].left = h
           /\ reg[s] = None => new[s].right = None /\ new[s].right_seqno = None
           /\ reg[s] # None => /\ new[s].right = reg[s].right
                               /\ new[s].right_seqno = reg[s].right_seqno
  <1> DEFINE b == IF reg[s] = None THEN from_left(h) ELSE left_replace(reg[s], h)
  <1>1. b \in Bounds /\ b # None
    <2>1. CASE reg[s] = None
      BY <2>1, NoneAssumption DEF from_left, Bounds, RegistryType
    <2>2. CASE reg[s] # None
      <3>1. reg[s] \in Bounds
        BY <2>2 DEF RegistryType
      <3>2. QED BY <2>2, <3>1, NoneAssumption DEF left_replace, Bounds
    <2>3. QED BY <2>1, <2>2
  <1>2. upsert_left(reg, s, h) = [reg EXCEPT ![s] = b]
    BY DEF upsert_left
  <1>3. /\ b.left = h
        /\ reg[s] = None => b.right = None /\ b.right_seqno = None
        /\ reg[s] # None => b.right = reg[s].right /\ b.right_seqno = reg[s].right_seqno
    <2>1. CASE reg[s] = None
      BY <2>1 DEF from_left
    <2>2. CASE reg[s] # None
      <3>1. reg[s] \in Bounds
        BY <2>2 DEF RegistryType
      <3>2. QED BY <2>2, <3>1 DEF left_replace, Bounds
    <2>3. QED BY <2>1, <2>2
  <1>4. QED
    BY <1>1, <1>2, <1>3 DEF RegistryType

\* upsert_right sets the right end of one shard; only a shard seen for the
\* first time also gets an announced end.
LEMMA UpsertRight ==
    ASSUME NEW reg \in RegistryType, NEW s \in ShardIds, NEW h \in Header
    PROVE  LET new == upsert_right(reg, s, h) IN
           /\ new \in RegistryType
           /\ \A t \in ShardIds \ {s} : new[t] = reg[t]
           /\ new[s] # None
           /\ new[s].right = h
           /\ reg[s] = None => new[s].left = None /\ new[s].right_seqno = h.seqno
           /\ reg[s] # None => /\ new[s].left = reg[s].left
                               /\ new[s].right_seqno = reg[s].right_seqno
  <1> DEFINE b == IF reg[s] = None THEN from_right(h) ELSE right_replace(reg[s], h)
  <1>1. b \in Bounds /\ b # None
    <2>1. CASE reg[s] = None
      <3>1. h.seqno \in Nat
        BY DEF Header
      <3>2. QED BY <2>1, <3>1, NoneAssumption DEF from_right, Bounds
    <2>2. CASE reg[s] # None
      <3>1. reg[s] \in Bounds
        BY <2>2 DEF RegistryType
      <3>2. QED BY <2>2, <3>1, NoneAssumption DEF right_replace, Bounds
    <2>3. QED BY <2>1, <2>2
  <1>2. upsert_right(reg, s, h) = [reg EXCEPT ![s] = b]
    BY DEF upsert_right
  <1>3. /\ b.right = h
        /\ reg[s] = None => b.left = None /\ b.right_seqno = h.seqno
        /\ reg[s] # None => b.left = reg[s].left /\ b.right_seqno = reg[s].right_seqno
    <2>1. CASE reg[s] = None
      BY <2>1 DEF from_right
    <2>2. CASE reg[s] # None
      <3>1. reg[s] \in Bounds
        BY <2>2 DEF RegistryType
      <3>2. QED BY <2>2, <3>1 DEF right_replace, Bounds
    <2>3. QED BY <2>1, <2>2
  <1>4. QED
    BY <1>1, <1>2, <1>3 DEF RegistryType

\* upsert_right_end sets the announced end of one shard and no header.
LEMMA UpsertRightEnd ==
    ASSUME NEW reg \in RegistryType, NEW s \in ShardIds, NEW n \in Nat
    PROVE  LET new == upsert_right_end(reg, s, n) IN
           /\ new \in RegistryType
           /\ \A t \in ShardIds \ {s} : new[t] = reg[t]
           /\ new[s] # None
           /\ new[s].right_seqno = n
           /\ reg[s] = None => new[s].left = None /\ new[s].right = None
           /\ reg[s] # None => new[s].left = reg[s].left /\ new[s].right = reg[s].right
  <1> DEFINE b == IF reg[s] = None THEN from_right_seqno(n)
                  ELSE right_seqno_replace(reg[s], n)
  <1>1. b \in Bounds /\ b # None
    <2>1. CASE reg[s] = None
      BY <2>1, NoneAssumption DEF from_right_seqno, Bounds
    <2>2. CASE reg[s] # None
      <3>1. reg[s] \in Bounds
        BY <2>2 DEF RegistryType
      <3>2. QED BY <2>2, <3>1, NoneAssumption DEF right_seqno_replace, Bounds
    <2>3. QED BY <2>1, <2>2
  <1>2. upsert_right_end(reg, s, n) = [reg EXCEPT ![s] = b]
    BY DEF upsert_right_end
  <1>3. /\ b.right_seqno = n
        /\ reg[s] = None => b.left = None /\ b.right = None
        /\ reg[s] # None => b.left = reg[s].left /\ b.right = reg[s].right
    <2>1. CASE reg[s] = None
      BY <2>1 DEF from_right_seqno
    <2>2. CASE reg[s] # None
      <3>1. reg[s] \in Bounds
        BY <2>2 DEF RegistryType
      <3>2. QED BY <2>2, <3>1 DEF right_seqno_replace, Bounds
    <2>3. QED BY <2>1, <2>2
  <1>4. QED
    BY <1>1, <1>2, <1>3 DEF RegistryType

\* The header of any block is a header.
LEMMA HeaderOfType == ASSUME NEW n \in Nat PROVE HeaderOf(n) \in Header /\ HeaderOf(n).seqno = n
  BY DEF HeaderOf, Header

-----------------------------------------------------------------------------
(* Inv is inductive: one lemma per actor, one step per action. *)

\* The initial state, where nothing is known, satisfies Inv.
LEMMA InitInv == Init => Inv
  <1> SUFFICES ASSUME Init PROVE Inv
    OBVIOUS
  <1> USE DEF Init, LbIdle, FbIdle, Empty
  <1>1. master = None
    BY DEF master, ShardIds
  <1>2. TypeOK
    <2>1. registry \in [ShardIds -> Bounds \cup {None}]
      OBVIOUS
    <2>2. lb \in LbState
      BY BoundsAssumption DEF LbState
    <2>3. fb \in FbState
      BY DEF FbState
    <2>4. QED BY <2>1, <2>2, <2>3, BoundsAssumption DEF TypeOK
  <1>3. RightInv
    BY <1>1 DEF RightInv, RightDefined
  <1>4. LeftInv
    BY <1>1 DEF LeftInv, LeftDefined
  <1>5. QED BY <1>2, <1>3, <1>4 DEF Inv

\* RightInv speaks of the registry's master entry, watch and lb only.
LEMMA RightInvFrame ==
    ASSUME RightInv, UNCHANGED <<registry, watch, lb>>
    PROVE  RightInv'
  BY DEF RightInv, RightDefined, master, right_next

\* LeftInv speaks of the registry's master entry, watch and fb only.
LEMMA LeftInvFrame ==
    ASSUME LeftInv, UNCHANGED <<registry, watch, fb>>
    PROVE  LeftInv'
  BY DEF LeftInv, LeftDefined, OneMaster, master

\* Growing and pruning change nothing the client holds.
LEMMA ServerInv == ASSUME Inv, Grow \/ Prune PROVE Inv'
  <1>1. TypeOK'
    <2>1. CASE Grow
      BY <2>1, BoundsAssumption DEF Inv, TypeOK, Grow
    <2>2. CASE Prune
      BY <2>2, BoundsAssumption DEF Inv, TypeOK, Prune
    <2>3. QED BY <2>1, <2>2
  <1>2. UNCHANGED <<registry, watch, lb, fb>>
    BY DEF Grow, Prune
  <1>3. QED
    BY <1>1, <1>2, RightInvFrame, LeftInvFrame DEF Inv

\* A MasterchainInfo is a value, not an absent one.
LEMMA NoneNotInfo == ASSUME NEW i \in Info PROVE i # None
  BY InfoAssumption

\* The result of LbLoop: the end of the pass, or a lookup of right_next's.
LEMMA LbLoopFacts ==
    ASSUME NEW reg \in RegistryType, NEW l \in LbState, l.info # None,
           reg[Master] # None => \/ reg[Master].right_seqno = None
                                 \/ reg[Master].right_seqno \in 1..MaxSeqno
    PROVE  LET new == LbLoop(reg, l) IN
           /\ new \in LbState
           /\ \/ new.pc = "tick" /\ new.seqno = 0
              \/ /\ new.pc = "lookup"
                 /\ new.info # None
                 /\ new.last_block = l.last_block
                 /\ new.seqno = right_next(reg, Master)
                 /\ new.seqno >= 1
  <1> DEFINE n == right_next(reg, Master)
  <1>1. CASE n = None
    BY <1>1, BoundsAssumption DEF LbLoop, LbIdle, LbState
  <1>2. CASE n # None
    <2>1. reg[Master] \in Bounds /\ n = right_next_seqno(reg[Master])
      BY <1>2 DEF right_next, RegistryType, ShardIds
    <2>2. n \in 1..MaxSeqno
      BY <1>2, <2>1, NoneAssumption, BoundsAssumption
      DEF right_next, right_next_seqno, Bounds, Header
    <2>3. LbLoop(reg, l) = [l EXCEPT !.pc = "lookup", !.seqno = n]
      BY <1>2 DEF LbLoop
    <2>4. n >= 1 /\ n \in 0..MaxSeqno
      BY <2>2, BoundsAssumption
    <2>5. QED
      BY <2>3, <2>4, Zenon DEF LbState
  <1>3. QED BY <1>1, <1>2

\* The steps of LastBlockDiscoverActor preserve Inv.
LEMMA LbInv == ASSUME Inv, Lb PROVE Inv'
  <1> USE DEF Inv
  <1>0. registry \in RegistryType /\ lb \in LbState /\ Master \in ShardIds
    BY DEF TypeOK, RegistryType, ShardIds
  <1>1. CASE LbInfo
    <2>1. PICK n \in Reported :
             LET info == [last |-> n, root |-> n] IN
             lb' = IF lb.current = info THEN lb
                   ELSE [lb EXCEPT !.pc = "sync", !.info = info]
      BY <1>1, Zenon DEF LbInfo
    <2>2. n \in Nat /\ [last |-> n, root |-> n] \in Info
      BY DEF Reported, Info, TypeOK
    <2>3. [last |-> n, root |-> n] # None
      BY <2>2, NoneNotInfo
    <2>4. lb' \in LbState /\ (lb' = lb \/ (lb'.pc = "sync" /\ lb'.info # None))
      BY <1>0, <2>1, <2>2, <2>3, Zenon DEF LbState
    <2>5. TypeOK'
      BY <1>1, <2>4 DEF TypeOK, LbInfo, lbOthers, server
    <2>6. RightInv'
      BY <1>1, <2>4, Zenon DEF RightInv, RightDefined, master, right_next, LbInfo, lbOthers, server
    <2>7. LeftInv'
      BY <1>1, LeftInvFrame DEF LbInfo, lbOthers
    <2>8. QED BY <2>5, <2>6, <2>7
  <1>2. CASE LbSync
    <2>1. PICK n \in Reported :
             /\ registry' = upsert_right_end(registry, Master, n)
             /\ lb' = LbLoop(registry', [lb EXCEPT !.last_block = n])
      BY <1>2 DEF LbSync
    <2>2. n \in 1..MaxSeqno /\ n \in Nat
      BY <2>1, BoundsAssumption DEF Reported, TypeOK
    <2>3. /\ registry' \in RegistryType
          /\ master' # None
          /\ master'.right_seqno = n
          /\ master = None => master'.left = None /\ master'.right = None
          /\ master # None => master'.left = master.left /\ master'.right = master.right
      BY <1>0, <2>1, <2>2, UpsertRightEnd DEF master
    <2>4. /\ [lb EXCEPT !.last_block = n] \in LbState
          /\ [lb EXCEPT !.last_block = n].info # None
          /\ [lb EXCEPT !.last_block = n].last_block = n
      BY <1>0, <1>2, <2>2 DEF LbState, RightInv, LbSync
    <2>5. /\ lb' \in LbState
          /\ \/ lb'.pc = "tick" /\ lb'.seqno = 0
             \/ /\ lb'.pc = "lookup"
                /\ lb'.info # None
                /\ lb'.last_block = n
                /\ lb'.seqno = right_next(registry', Master)
                /\ lb'.seqno >= 1
      BY <2>1, <2>2, <2>3, <2>4, LbLoopFacts, Zenon DEF master
    <2>6. (RightDefined' <=> RightDefined) /\ (LeftDefined' <=> LeftDefined)
      BY <2>3 DEF RightDefined, LeftDefined
    <2>7. UNCHANGED <<head, first, faults, watch, fb, bsq, chans, zombies>>
      BY <1>2 DEF LbSync, lbOthers, server
    <2>8. TypeOK'
      BY <2>3, <2>5, <2>7 DEF TypeOK, RegistryType
    <2>9. RightInv'
      BY <1>2, <2>2, <2>3, <2>5, <2>6, <2>7 DEF RightInv, RightDefined, LbSync
    <2>10. LeftInv'
      BY <2>3, <2>6, <2>7 DEF LeftInv, OneMaster, LeftDefined
    <2>11. QED BY <2>8, <2>9, <2>10
  <1>3. CASE LbLookup
    <2>1. /\ lb.seqno \in Nat /\ lb.seqno >= 1
          /\ lb.info # None
          /\ lb.seqno = right_next(registry, Master)
      BY <1>0, <1>3, BoundsAssumption DEF LbState, RightInv, LbLookup
    <2>2. /\ master # None
          /\ master \in Bounds
          /\ lb.seqno = right_next_seqno(master)
      BY <1>0, <2>1, NoneAssumption DEF master, right_next, RegistryType
    <2>3. /\ registry' \in RegistryType
          /\ master' # None
          /\ master'.right = HeaderOf(lb.seqno)
          /\ HeaderOf(lb.seqno) # None
          /\ master'.right.seqno = lb.seqno
          /\ master'.left = master.left
          /\ master'.right_seqno = master.right_seqno
      BY <1>0, <1>3, <2>1, <2>2, UpsertRight, HeaderOfType, NoneAssumption
      DEF master, LbLookup
    <2>4. /\ lb' \in LbState
          /\ lb'.pc = "publish"
          /\ lb'.seqno = lb.seqno
          /\ lb'.info = lb.info
          /\ lb'.last_block = lb.last_block
      BY <1>0, <1>3 DEF LbState, LbLookup
    <2>5. RightDefined => master.right.seqno + 1 = lb.seqno
      BY <2>1, <2>2, NoneAssumption DEF RightDefined, right_next_seqno, Bounds, Header
    <2>6. bsq' \in Seq(1..MaxSeqno)
      <3>1. lb.last_block \in 1..MaxSeqno
        BY <1>0, <1>3, BoundsAssumption DEF LbLookup, RightInv, LbState
      <3>2. QED BY <1>3, <3>1 DEF LbLookup, TypeOK
    <2>7. UNCHANGED <<head, first, faults, watch, fb, chans, zombies>>
      BY <1>3 DEF LbLookup, lbOthers, server
    <2>8. TypeOK'
      BY <2>3, <2>4, <2>6, <2>7 DEF TypeOK, RegistryType
    <2>9. RightInv'
      <3>1. watch # None => watch.last + 1 = lb.seqno
        BY <1>3, <2>5 DEF RightInv, LbLookup
      <3>2. RightDefined'
        BY <2>3 DEF RightDefined
      <3>3. QED
        BY <1>3, <2>1, <2>2, <2>3, <2>4, <2>7, <3>1, <3>2 DEF RightInv, LbLookup
    <2>10. LeftInv'
      <3>1. LeftDefined' <=> LeftDefined
        BY <2>2, <2>3 DEF LeftDefined
      <3>2. QED BY <2>3, <2>7, <3>1 DEF LeftInv, OneMaster
    <2>11. QED BY <2>8, <2>9, <2>10
  <1>4. CASE LbPublish
    <2> DEFINE info == [lb.info EXCEPT !.last = lb.seqno]
               l == [lb EXCEPT !.info = info]
    <2>1. /\ lb.info \in Info /\ lb.seqno \in Nat
          /\ RightDefined /\ master.right.seqno = lb.seqno
          /\ watch # None => watch.last + 1 = lb.seqno
      BY <1>0, <1>4, BoundsAssumption DEF LbState, RightInv, LbPublish
    <2>2. info \in Info /\ info # None /\ info.last = lb.seqno
      BY <2>1, InfoAssumption DEF Info
    <2>3. l \in LbState /\ l.info # None
      BY <1>0, <2>2 DEF LbState
    <2>4. master # None => \/ master.right_seqno = None
                           \/ master.right_seqno \in 1..MaxSeqno
      BY DEF RightInv
    <2>5. watch' = info /\ lb' = LbLoop(registry, l)
      BY <1>4 DEF LbPublish
    <2>6. /\ lb' \in LbState
          /\ \/ lb'.pc = "tick" /\ lb'.seqno = 0
             \/ /\ lb'.pc = "lookup"
                /\ lb'.info # None
                /\ lb'.last_block = l.last_block
                /\ lb'.seqno = right_next(registry, Master)
                /\ lb'.seqno >= 1
      BY <1>0, <2>3, <2>4, <2>5, LbLoopFacts, Zenon DEF master
    <2>7. UNCHANGED <<head, first, faults, registry, fb, bsq, chans, zombies>>
      BY <1>4 DEF LbPublish, lbOthers, server
    <2>8. TypeOK'
      BY <2>2, <2>5, <2>6, <2>7 DEF TypeOK
    <2>9. RightDefined' /\ master' = master
      BY <2>1, <2>7 DEF RightDefined, master
    <2>10. RightInv'
      BY <1>0, <1>4, <2>1, <2>2, <2>3, <2>5, <2>6, <2>7, <2>9
      DEF RightInv, LbPublish, LbState
    <2>11. LeftInv'
      <3>1. LeftDefined' <=> LeftDefined
        BY <2>9 DEF LeftDefined
      <3>2. watch' # None /\ (watch # None => watch.last <= watch'.last)
        BY <2>1, <2>2, <2>5 DEF TypeOK, Info
      <3>3. watch # None => watch.last \in Nat
        BY DEF TypeOK, Info
      <3>4. watch'.last \in Nat
        BY <2>2, <2>5 DEF Info
      <3>5. fb.start \in Nat /\ (LeftDefined => master.left.seqno \in Nat)
        BY <1>0 DEF TypeOK, FbState, LeftDefined, master, RegistryType, Bounds, Header
      <3>6. QED
        BY <2>7, <2>9, <3>1, <3>2, <3>3, <3>4, <3>5 DEF LeftInv, OneMaster
    <2>12. QED BY <2>8, <2>10, <2>11
  <1>5. CASE LbFail
    <2>1. /\ lb' = LbIdle(lb.current)
          /\ UNCHANGED <<head, first, registry, watch, fb, bsq, chans, zombies>>
      BY <1>5 DEF LbFail, lbOthers, server
    <2>2. lb' \in LbState /\ lb'.pc = "tick" /\ lb'.seqno = 0
      BY <1>0, <2>1, BoundsAssumption DEF LbIdle, LbState
    <2>3. faults' \in 0..MaxFaults
      BY <1>5, BoundsAssumption DEF LbFail, Refused, Fault, TypeOK
    <2>4. TypeOK'
      BY <2>1, <2>2, <2>3 DEF TypeOK
    <2>5. RightInv'
      BY <1>5, <2>1, <2>2 DEF RightInv, RightDefined, master, right_next, LbFail
    <2>6. LeftInv'
      BY <2>1, LeftInvFrame
    <2>7. QED BY <2>4, <2>5, <2>6
  <1>6. QED
    BY <1>1, <1>2, <1>3, <1>4, <1>5 DEF Lb
=============================================================================
