-------------------------- MODULE DiscoveryProofs ---------------------------
(***************************************************************************)
(* Proofs about Discovery: the type invariant, the safety properties of    *)
(* the masterchain edges, what no step does to them, and the refinement of *)
(* ClientView.                                                             *)
(***************************************************************************)
EXTENDS DiscoveryInvariant

(* The properties. *)

\* Every variable keeps its type.
THEOREM TypeCorrect == Spec => []TypeOK
  <1>1. Inv => TypeOK
    BY DEF Inv
  <1>2. QED BY <1>1, Invariance, PTL

\* A ready client hands out a master block that it also contains, for any
\* length of chain, any lag of the server's answers and any number of faults.
THEOREM PublishedIsRoutable == Spec => []PublishedRoutable
  <1>1. Inv => PublishedRoutable
    <2> SUFFICES ASSUME Inv, edges_defined PROVE contains(Master, watch.last)
      BY DEF PublishedRoutable
    <2>1. watch # None /\ LeftDefined
      BY DEF edges_defined, left_defined, LeftDefined, master
    <2>2. RightDefined /\ watch.last \in Nat
      BY <2>1 DEF Inv, RightInv, TypeOK, Info
    <2>3. master.left.seqno <= watch.last
      BY <2>1 DEF Inv, LeftInv
    <2>4. watch.last <= master.right.seqno
      <3>1. master \in Bounds
        BY <2>1, NoneAssumption DEF Inv, TypeOK, master, ShardIds, LeftDefined
      <3>2. master.right.seqno \in Nat
        BY <2>2, <3>1 DEF Bounds, Header, RightDefined
      <3>3. CASE lb.pc = "publish"
        BY <2>1, <2>2, <3>2, <3>3 DEF Inv, RightInv
      <3>4. CASE lb.pc # "publish"
        BY <2>1, <2>2, <3>2, <3>4 DEF Inv, RightInv
      <3>5. QED BY <3>3, <3>4
    <2>5. QED
      BY <2>1, <2>2, <2>3, <2>4
      DEF contains, contains_block, contains_seqno, LeftDefined, RightDefined, master
  <1>2. QED BY <1>1, Invariance, PTL

\* The right edge is the published block or the one after it.
THEOREM RightIsPublishedOrNext == Spec => []PublishedFollowsRight
  <1>1. Inv => PublishedFollowsRight
    <2> SUFFICES ASSUME Inv, watch # None
                 PROVE  RightEdge \in {watch.last, watch.last + 1}
      BY DEF PublishedFollowsRight
    <2>1. RightDefined
      BY DEF Inv, RightInv
    <2>2. master \in Bounds
      BY <2>1, NoneAssumption DEF Inv, TypeOK, master, ShardIds, RightDefined
    <2>3. master.right.seqno \in Nat
      BY <2>1, <2>2 DEF Bounds, Header, RightDefined
    <2>4. RightEdge = master.right.seqno
      BY <2>1, <2>3, NoneAssumption DEF RightEdge, get_last_seqno, RightDefined, master
    <2>5. QED BY <2>4 DEF Inv, RightInv
  <1>2. QED BY <1>1, Invariance, PTL

\* The search for the first block is never given an empty range.
THEOREM SearchRangeIsNonEmpty == Spec => []SearchRangeNonEmpty
  <1>1. Inv => SearchRangeNonEmpty
    BY DEF Inv, LeftInv, SearchRangeNonEmpty
  <1>2. QED BY <1>1, Invariance, PTL

-----------------------------------------------------------------------------
(* What no step does to the edges of the masterchain. *)

\* Only LbLookup moves the right edge and only FbApply the left one.
LEMMA EdgesStep ==
    ASSUME Inv, [Next]_vars
    PROVE  /\ LbLookup \/ RightEdge' = RightEdge
           /\ FbApply \/ (LeftDefined =>
                 LeftDefined' /\ master'.left.seqno = master.left.seqno)
           /\ LbPublish \/ watch' = watch
  <1>0. registry \in RegistryType /\ Master \in ShardIds
    BY DEF Inv, TypeOK, RegistryType, ShardIds
  <1> DEFINE Same == /\ RightEdge' = RightEdge
                     /\ LeftDefined => /\ LeftDefined'
                                       /\ master'.left.seqno = master.left.seqno
  <1>a. ASSUME master' = master PROVE Same
    BY <1>a DEF RightEdge, get_last_seqno, LeftDefined, master
  <1>1. CASE UNCHANGED vars \/ Grow \/ Prune \/ LbInfo \/ LbPublish \/ LbFail
             \/ FbWake \/ FbTick \/ FbCheckOk \/ FbCheckFail \/ FbFound \/ FbNotFound
             \/ BsSkip
    <2>1. master' = master
      BY Zenon, <1>1 DEF vars, Grow, Prune, LbInfo, LbPublish, LbFail, FbWake, FbTick,
         FbCheckOk, FbCheckFail, FbFound, FbNotFound, BsSkip, master
    <2>2. LbPublish \/ watch' = watch
      BY Zenon, <1>1 DEF vars, Grow, Prune, LbInfo, LbFail, FbWake, FbTick,
         FbCheckOk, FbCheckFail, FbFound, FbNotFound, BsSkip, fbOthers, bsOthers
    <2>3. QED BY <1>a, <2>1, <2>2
  <1>2. CASE LbSync
    <2>1. PICK n \in Reported : registry' = upsert_right_end(registry, Master, n)
      BY <1>2 DEF LbSync
    <2>2. n \in Nat
      BY DEF Reported, Inv, TypeOK
    <2>3. /\ master' # None
          /\ master = None => master'.left = None /\ master'.right = None
          /\ master # None => master'.left = master.left /\ master'.right = master.right
      BY <1>0, <2>1, <2>2, UpsertRightEnd DEF master
    <2>4. Same
      BY <2>3 DEF RightEdge, get_last_seqno, LeftDefined, master
    <2>5. QED BY <1>2, <2>4 DEF LbSync
  <1>3. CASE LbLookup
    <2>1. /\ lb.seqno \in Nat
          /\ registry' = upsert_right(registry, Master, HeaderOf(lb.seqno))
          /\ watch' = watch
      BY <1>3, BoundsAssumption DEF LbLookup, Inv, TypeOK, LbState
    <2>2. /\ master' # None
          /\ master # None => master'.left = master.left
      BY <1>0, <2>1, UpsertRight, HeaderOfType DEF master
    <2>3. QED BY <1>3, <2>1, <2>2 DEF LeftDefined
  <1>4. CASE FbApply
    <2> DEFINE e == Head(fb.headers)
    <2>1. registry' = upsert_left(registry, e.shard, HeaderOf(e.seqno)) /\ watch' = watch
      BY <1>4 DEF FbApply, fbOthers
    <2>2. fb.headers \in Seq(Entry) /\ fb.headers # <<>>
      <3>1. fb.headers \in Seq(Entry) /\ Len(fb.headers) >= 1
        BY <1>4 DEF FbApply, Inv, TypeOK, FbState, LeftInv
      <3>2. Len(<<>>) = 0
        OBVIOUS
      <3>3. QED BY <3>1, <3>2
    <2>3. e.shard \in ShardIds /\ e.seqno \in Nat
      <3>1. e \in Entry
        BY <2>2, HeadTailProperties
      <3>2. QED BY <3>1 DEF Entry
    <2>4. RightEdge' = RightEdge
      <3>1. CASE e.shard = Master
        <4>1. /\ master' # None
              /\ master = None => master'.right = None
              /\ master # None => master'.right = master.right
          BY <1>0, <2>1, <2>3, <3>1, UpsertLeft, HeaderOfType, SMTT(30) DEF master
        <4>2. QED BY <4>1 DEF RightEdge, get_last_seqno, master
      <3>2. CASE e.shard # Master
        <4>1. master' = master
          BY <1>0, <2>1, <2>3, <3>2, UpsertLeftShard DEF master
        <4>2. QED BY <1>a, <4>1
      <3>3. QED BY <3>1, <3>2
    <2>5. QED BY <1>4, <2>1, <2>4
  <1>5. CASE BsShards
    <2>1. registry'[Master] = registry[Master] /\ watch' = watch
      BY <1>0, <1>5, Zenon DEF BsShards, bsOthers, ShardEnds
    <2>2. QED BY <1>a, <2>1 DEF master
  <1>6. CASE \E s \in Shards : Sh(s)
    <2>1. PICK s \in Shards : Sh(s)
      BY <1>6
    <2>2. /\ chans[s] # None /\ chans[s] # <<>> /\ watch' = watch
          /\ \/ registry' = registry
             \/ registry' = upsert_right(registry, s, HeaderOf(Head(chans[s])))
      BY <2>1 DEF Sh, ShHeader, ShSkip, bsOthers
    <2>3. chans[s] \in Seq(Nat)
      BY <2>2 DEF Inv, TypeOK
    <2>4. Head(chans[s]) \in Nat
      BY <2>2, <2>3, HeadTailProperties
    <2>5. master' = master
      BY <1>0, <2>2, <2>4, UpsertRightShard DEF master
    <2>6. QED BY <1>a, <2>2, <2>5
  <1>7. CASE \E z \in zombies : ShAborted(z)
    <2>1. PICK z \in zombies : ShAborted(z)
      BY <1>7
    <2>2. z.shard \in Shards /\ z.seqno \in Nat
      BY DEF Inv, TypeOK, BlockId
    <2>3. master' = master /\ watch' = watch
      BY <1>0, <2>1, <2>2, UpsertRightShard DEF master, ShAborted, bsOthers
    <2>4. QED BY <1>a, <2>3
  <1>8. QED
    BY <1>1, <1>2, <1>3, <1>4, <1>5, <1>6, <1>7 DEF Next, Lb, Fb, Bs

\* The right edge of the masterchain never skips a block and never goes back.
THEOREM RightIsContiguous == Spec => RightContiguous
  <1>1. Inv /\ [Next]_vars =>
          [RightEdge' # RightEdge => RightEdge = 0 \/ RightEdge' = RightEdge + 1]_vars
    <2> SUFFICES ASSUME Inv, [Next]_vars, RightEdge' # RightEdge, RightEdge # 0
                 PROVE  RightEdge' = RightEdge + 1
      OBVIOUS
    <2>1. LbLookup
      BY EdgesStep
    <2>2. /\ registry \in RegistryType /\ Master \in ShardIds /\ lb.seqno \in Nat
          /\ lb.seqno = right_next(registry, Master)
      BY <2>1, BoundsAssumption
      DEF Inv, TypeOK, RegistryType, ShardIds, LbLookup, RightInv, LbState
    <2>3. RightDefined /\ RightEdge = master.right.seqno
      BY DEF RightEdge, get_last_seqno, RightDefined, master
    <2>4. master \in Bounds /\ master.right.seqno \in Nat
      BY <2>2, <2>3 DEF RegistryType, RightDefined, master, Bounds, Header
    <2>5. lb.seqno = master.right.seqno + 1
      BY <2>2, <2>3, <2>4, NoneAssumption, SMTT(30)
      DEF right_next, right_next_seqno, RightDefined, master
    <2>6. /\ master' # None
          /\ master'.right = HeaderOf(lb.seqno)
          /\ HeaderOf(lb.seqno) # None
          /\ HeaderOf(lb.seqno).seqno = lb.seqno
      BY <2>1, <2>2, UpsertRight, HeaderOfType, NoneAssumption DEF LbLookup, master
    <2>7. RightEdge' = lb.seqno
      BY <2>2, <2>6, NoneAssumption, SMTT(30) DEF RightEdge, get_last_seqno, master
    <2>8. QED BY <2>3, <2>5, <2>7
  <1>2. QED BY <1>1, Invariance, PTL DEF Spec, RightContiguous

\* The published block never goes back.
THEOREM PublishedIsMonotone == Spec => PublishedMonotone
  <1>1. Inv /\ [Next]_vars =>
          [watch # None => watch' # None /\ watch.last <= watch'.last]_vars
    <2> SUFFICES ASSUME Inv, [Next]_vars, watch # None
                 PROVE  watch' # None /\ watch.last <= watch'.last
      OBVIOUS
    <2>1. watch.last \in Nat
      BY DEF Inv, TypeOK, Info
    <2>2. CASE watch' = watch
      BY <2>1, <2>2
    <2>3. CASE LbPublish
      <3>1. /\ lb.info \in Info /\ lb.seqno \in Nat /\ watch.last + 1 = lb.seqno
            /\ watch' = [lb.info EXCEPT !.last = lb.seqno]
        BY <2>3, BoundsAssumption DEF Inv, TypeOK, RightInv, LbState, LbPublish
      <3>2. watch' \in Info /\ watch'.last = lb.seqno
        BY <3>1 DEF Info
      <3>3. QED BY <2>1, <3>1, <3>2, InfoAssumption
    <2>4. QED BY <2>2, <2>3, EdgesStep
  <1>2. QED BY <1>1, Invariance, PTL DEF Spec, PublishedMonotone

\* The left edge of the masterchain never goes back.
THEOREM LeftIsMonotone == Spec => LeftMonotone
  <1>1. Inv /\ [Next]_vars =>
          [left_defined(registry, Master) =>
             /\ left_defined(registry', Master)
             /\ left_seqno <= registry'[Master].left.seqno]_vars
    <2> SUFFICES ASSUME Inv, [Next]_vars, LeftDefined
                 PROVE  LeftDefined' /\ master.left.seqno <= master'.left.seqno
      BY DEF left_defined, left_seqno, LeftDefined, master
    <2>1. master \in Bounds /\ master.left.seqno \in Nat
      BY NoneAssumption
      DEF Inv, TypeOK, LeftDefined, master, ShardIds, Bounds, Header
    <2>2. CASE LeftDefined' /\ master'.left.seqno = master.left.seqno
      BY <2>1, <2>2
    <2>3. CASE FbApply
      <3>1. LeftDefined' /\ master'.left.seqno = fb.found
        BY <2>3, ApplySetsLeft
      <3>2. master.left.seqno <= fb.found
        BY <2>3 DEF FbApply, Inv, LeftInv
      <3>3. QED BY <3>1, <3>2
    <2>4. QED BY <2>2, <2>3, EdgesStep
  <1>2. QED BY <1>1, Invariance, PTL DEF Spec, LeftMonotone

-----------------------------------------------------------------------------
(* The abstract view. *)

LEMMA ViewFields ==
    /\ view.left = IF LeftDefined THEN master.left.seqno ELSE 0
    /\ view.right = RightEdge
    /\ view.end = IF master = None \/ master.right_seqno = None THEN 0
                  ELSE master.right_seqno
    /\ view.published = IF watch = None THEN 0 ELSE watch.last
    /\ view = [left |-> view.left, right |-> view.right, end |-> view.end,
               published |-> view.published]
  BY DEF view, left_defined, left_seqno, LeftDefined, master

LEMMA ViewFrame == ASSUME master' = master, watch' = watch PROVE view' = view
  BY DEF view, left_defined, left_seqno, RightEdge, get_last_seqno, master

\* The end that is recorded for the masterchain is one the server reported.
LEMMA SyncView == ASSUME Inv, LbSync PROVE view' \in Announced(view, MaxSeqno)
  <1>0. registry \in RegistryType /\ Master \in ShardIds
    BY DEF Inv, TypeOK, RegistryType, ShardIds
  <1>1. PICK n \in Reported : registry' = upsert_right_end(registry, Master, n)
    BY DEF LbSync
  <1>2. n \in 1..MaxSeqno /\ n \in Nat /\ n # None
    BY NoneAssumption, BoundsAssumption DEF Reported, Inv, TypeOK
  <1>3. /\ master' # None /\ master'.right_seqno = n
        /\ master = None => master'.left = None /\ master'.right = None
        /\ master # None => master'.left = master.left /\ master'.right = master.right
    BY <1>0, <1>1, <1>2, UpsertRightEnd DEF master
  <1>4. /\ LeftDefined' <=> LeftDefined
        /\ LeftDefined => master'.left.seqno = master.left.seqno
        /\ RightEdge' = RightEdge
    BY <1>3 DEF RightEdge, get_last_seqno, LeftDefined, master
  <1>5. watch' = watch
    BY DEF LbSync
  <1>6. /\ view'.left = view.left /\ view'.right = view.right /\ view'.end = n
        /\ view'.published = view.published
    BY <1>2, <1>3, <1>4, <1>5, ViewFields, Zenon DEF view, left_defined, left_seqno, LeftDefined, master
  <1>7. view' = [view EXCEPT !.end = n]
    BY <1>6 DEF view
  <1>8. QED BY <1>2, <1>7 DEF Announced

\* The block fetched is the one after the right edge, or the announced one.
LEMMA LookupView == ASSUME Inv, LbLookup PROVE view' \in Extended(view)
  <1>0. /\ registry \in RegistryType /\ Master \in ShardIds /\ lb.seqno \in Nat
        /\ lb.seqno = right_next(registry, Master) /\ lb.seqno >= 1
        /\ master \in Bounds \cup {None}
    BY BoundsAssumption
    DEF Inv, TypeOK, RegistryType, ShardIds, LbLookup, RightInv, LbState, master
  <1>1. registry' = upsert_right(registry, Master, HeaderOf(lb.seqno)) /\ watch' = watch
    BY DEF LbLookup
  <1>2. /\ master # None /\ master.right_seqno # None /\ master.right_seqno \in Nat
        /\ RightDefined => /\ master.right.seqno \in Nat
                           /\ master.right.seqno < master.right_seqno
                           /\ lb.seqno = master.right.seqno + 1
        /\ ~RightDefined => lb.seqno = master.right_seqno
    BY <1>0, NoneAssumption, SMTT(30)
    DEF right_next, right_next_seqno, RightDefined, master, Bounds, Header
  <1>3. /\ master' # None
        /\ master'.right = HeaderOf(lb.seqno)
        /\ HeaderOf(lb.seqno) # None
        /\ HeaderOf(lb.seqno).seqno = lb.seqno
        /\ master'.left = master.left
        /\ master'.right_seqno = master.right_seqno
    <2>1. HeaderOf(lb.seqno) \in Header /\ HeaderOf(lb.seqno).seqno = lb.seqno
      BY <1>0, HeaderOfType
    <2>2. HeaderOf(lb.seqno) # None
      BY <2>1, NoneAssumption, Zenon
    <2>3. /\ master' # None
          /\ master'.right = HeaderOf(lb.seqno)
          /\ master'.left = master.left
          /\ master'.right_seqno = master.right_seqno
      BY <1>0, <1>1, <1>2, <2>1, UpsertRight, ZenonT(30) DEF master
    <2>4. QED BY <2>1, <2>2, <2>3
  <1>4. /\ RightEdge' = lb.seqno
        /\ LeftDefined' <=> LeftDefined
        /\ LeftDefined => master'.left.seqno = master.left.seqno
    <2>1. get_last_seqno(registry, Master)' = lb.seqno
      BY <1>3 DEF get_last_seqno, master
    <2>2. lb.seqno # None
      BY <1>0, NoneAssumption
    <2>3. RightEdge' = lb.seqno
      BY <2>1, <2>2 DEF RightEdge
    <2>4. (LeftDefined' <=> LeftDefined) /\ master'.left.seqno = master.left.seqno
      BY <1>2, <1>3 DEF LeftDefined
    <2>5. QED BY <2>3, <2>4, Zenon
  <1>5. /\ view'.left = view.left /\ view'.end = view.end
        /\ view'.published = view.published /\ view'.right = lb.seqno
    BY <1>1, <1>2, <1>3, <1>4, ViewFields, Zenon
    DEF view, left_defined, left_seqno, LeftDefined, master
  <1>6. view' = [view EXCEPT !.right = lb.seqno]
    BY <1>5 DEF view
  <1>7. RightEdge = IF RightDefined THEN master.right.seqno ELSE 0
    BY <1>2, NoneAssumption, SMTT(30) DEF RightEdge, get_last_seqno, RightDefined, master
  <1>8. /\ RightDefined <=> watch # None
        /\ watch # None => watch.last = master.right.seqno
        /\ RightDefined => master.right.seqno >= 1
        /\ master.right_seqno >= 1
    BY <1>2 DEF LbLookup, Inv, RightInv
  <1>9. view.published = view.right /\ view.right < view.end
    BY <1>2, <1>7, <1>8, ViewFields
  <1>10. lb.seqno = IF view.right = 0 THEN view.end ELSE view.right + 1
    BY <1>2, <1>7, <1>8, ViewFields
  <1>11. QED BY <1>6, <1>9, <1>10 DEF Extended

\* The block published is the one at the right edge.
LEMMA PublishView == ASSUME Inv, LbPublish PROVE view' \in Published(view)
  <1>1. /\ lb.info \in Info /\ lb.seqno \in Nat
        /\ RightDefined /\ master.right.seqno = lb.seqno
        /\ watch' = [lb.info EXCEPT !.last = lb.seqno]
        /\ registry' = registry
    BY BoundsAssumption DEF Inv, TypeOK, RightInv, LbState, LbPublish
  <1>2. watch' # None /\ watch'.last = lb.seqno
    BY <1>1, InfoAssumption DEF Info
  <1>3. master.right.seqno # None
    BY <1>1, NoneAssumption
  <1>4. RightEdge = lb.seqno
    BY <1>1, <1>3 DEF RightEdge, get_last_seqno, RightDefined, master
  <1>5. /\ view'.left = view.left /\ view'.end = view.end /\ view'.right = view.right
        /\ view'.published = view.right
    BY <1>1, <1>2, <1>4 DEF view, left_defined, left_seqno, RightEdge, get_last_seqno, master
  <1>6. view' = [view EXCEPT !.published = view.right]
    BY <1>5 DEF view
  <1>7. QED BY <1>6 DEF Published

\* The first block found is a published one, at or above the one before.
LEMMA ApplyView == ASSUME Inv, FbApply PROVE view' \in Trimmed(view)
  <1> DEFINE e == Head(fb.headers)
  <1>0. /\ registry \in RegistryType /\ Master \in ShardIds /\ fb.found \in Nat
        /\ watch # None /\ watch.last \in Nat /\ fb.start \in Nat
        /\ fb.headers \in Seq(Entry) /\ Len(fb.headers) >= 1
    BY DEF Inv, TypeOK, RegistryType, ShardIds, FbState, LeftInv, FbApply, Info
  <1>1. registry' = upsert_left(registry, e.shard, HeaderOf(e.seqno)) /\ watch' = watch
    BY DEF FbApply, fbOthers
  <1>2. e.shard \in ShardIds /\ e.seqno \in Nat
    <2>1. fb.headers # <<>>
      <3>1. Len(<<>>) = 0
        OBVIOUS
      <3>2. QED BY <1>0, <3>1
    <2>2. e \in Entry
      BY <1>0, <2>1, HeadTailProperties
    <2>3. QED BY <2>2 DEF Entry
  <1>3. LeftDefined' /\ master'.left.seqno = fb.found
    BY ApplySetsLeft
  <1>4. /\ RightEdge' = RightEdge /\ view'.end = view.end
    <2>1. CASE e.shard = Master
      <3>1. /\ master' # None
            /\ master = None => master'.right = None /\ master'.right_seqno = None
            /\ master # None => /\ master'.right = master.right
                                /\ master'.right_seqno = master.right_seqno
        <4>1. HeaderOf(e.seqno) \in Header
          BY <1>2, HeaderOfType
        <4>2. registry' = upsert_left(registry, Master, HeaderOf(e.seqno))
          BY <1>1, <2>1
        <4> DEFINE h == HeaderOf(e.seqno)
        <4> HIDE DEF h
        <4>3. registry' = upsert_left(registry, Master, h) /\ h \in Header
          BY <4>1, <4>2 DEF h
        <4>4. QED BY <1>0, <4>3, UpsertLeft DEF master
      <3>2. RightEdge' = RightEdge
        BY <3>1 DEF RightEdge, get_last_seqno, master
      <3>3. view'.end = view.end
        BY <3>1 DEF view, master
      <3>4. QED BY <3>2, <3>3
    <2>2. CASE e.shard # Master
      <3>1. master' = master
        BY <1>0, <1>1, <1>2, <2>2, UpsertLeftShard DEF master
      <3>2. QED BY <1>1, <3>1, ViewFrame, Zenon DEF RightEdge, get_last_seqno, master
    <2>3. QED BY <2>1, <2>2
  <1>5. /\ view'.left = fb.found /\ view'.right = view.right /\ view'.end = view.end
        /\ view'.published = view.published
    BY <1>1, <1>3, <1>4, Zenon DEF view, left_defined, left_seqno, LeftDefined, master
  <1>6. view' = [view EXCEPT !.left = fb.found]
    BY <1>5 DEF view
  <1>7. /\ 1 <= fb.found /\ fb.found <= watch.last
        /\ LeftDefined => master.left.seqno <= fb.found
    BY <1>0 DEF Inv, LeftInv, FbApply
  <1>8. fb.found \in {m \in 1..view.published : view.left <= m}
    BY <1>0, <1>7, ViewFields
  <1>9. QED BY <1>6, <1>8 DEF Trimmed

\* No other step changes the view.
LEMMA OtherView ==
    ASSUME Inv, [Next]_vars, ~LbSync, ~LbLookup, ~LbPublish, ~FbApply
    PROVE  view' = view
  <1>0. registry \in RegistryType /\ Master \in ShardIds
    BY DEF Inv, TypeOK, RegistryType, ShardIds
  <1>1. CASE UNCHANGED vars \/ Grow \/ Prune \/ LbInfo \/ LbFail
             \/ FbWake \/ FbTick \/ FbCheckOk \/ FbCheckFail \/ FbFound \/ FbNotFound
             \/ BsSkip
    <2>1. master' = master /\ watch' = watch
      BY Zenon, <1>1 DEF vars, Grow, Prune, LbInfo, LbFail, FbWake, FbTick, FbCheckOk,
         FbCheckFail, FbFound, FbNotFound, BsSkip, fbOthers, bsOthers, master
    <2>2. QED BY <2>1, ViewFrame
  <1>2. CASE BsShards
    <2>1. registry'[Master] = registry[Master] /\ watch' = watch
      BY <1>0, <1>2 DEF BsShards, bsOthers, ShardEnds
    <2>2. QED BY <2>1, ViewFrame DEF master
  <1>3. CASE \E s \in Shards : Sh(s)
    <2>1. PICK s \in Shards : Sh(s)
      BY <1>3
    <2>2. /\ chans[s] # None /\ chans[s] # <<>> /\ watch' = watch
          /\ \/ registry' = registry
             \/ registry' = upsert_right(registry, s, HeaderOf(Head(chans[s])))
      BY <2>1 DEF Sh, ShHeader, ShSkip, bsOthers
    <2>3. chans[s] \in Seq(Nat)
      BY <2>2 DEF Inv, TypeOK
    <2>4. Head(chans[s]) \in Nat
      BY <2>2, <2>3, HeadTailProperties
    <2>5. master' = master
      BY <1>0, <2>2, <2>4, UpsertRightShard DEF master
    <2>6. QED BY <2>2, <2>5, ViewFrame
  <1>4. CASE \E z \in zombies : ShAborted(z)
    <2>1. PICK z \in zombies : ShAborted(z)
      BY <1>4
    <2>2. z.shard \in Shards /\ z.seqno \in Nat
      BY DEF Inv, TypeOK, BlockId
    <2>3. master' = master /\ watch' = watch
      BY <1>0, <2>1, <2>2, UpsertRightShard DEF master, ShAborted, bsOthers
    <2>4. QED BY <2>3, ViewFrame
  <1>5. QED BY <1>1, <1>2, <1>3, <1>4 DEF Next, Lb, Fb, Bs

\* A RoutedClient, with its actors in any order and any failures, shows the
\* rest of the pool only what ClientView allows.
THEOREM ImplementsView == Spec => RefinesView
  <1>1. Init => view = Unknown
    BY DEF Init, Empty, ShardIds, view, left_defined, RightEdge, get_last_seqno, Unknown
  <1>2. Inv /\ [Next]_vars => [view' \in Steps(view, MaxSeqno)]_view
    BY SyncView, LookupView, PublishView, ApplyView, OtherView DEF Steps
  <1>3. QED BY <1>1, <1>2, Invariance, PTL DEF Spec, RefinesView
=============================================================================
