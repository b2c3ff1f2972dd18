----------------------------- MODULE Discovery ------------------------------
(***************************************************************************)
(* One RoutedClient: the four kinds of background actors that keep its     *)
(* registry up to date by asking the liteserver behind it, and what the    *)
(* client answers from the registry and from the published MasterchainInfo.*)
(*                                                                         *)
(*   LastBlockDiscoverActor   lb*   every second: where does the chain end *)
(*   BlockShardsActor         bs*   the shards of each new master block    *)
(*   ShardHeaderActor         sh*   one per shard: header of its last block*)
(*   FirstBlockDiscoverActor  fb*   every 30 s: the first block still kept *)
(*                                                                         *)
(* The liteserver is external: it grows a chain, prunes old blocks, may    *)
(* answer a question about the end of the chain up to Lag blocks late, and *)
(* fails at most MaxFaults requests without reason (a request that fails   *)
(* after the retries the code makes counts once).                          *)
(***************************************************************************)
EXTENDS Registry, ClientView, Sequences, FiniteSets

CONSTANTS MaxSeqno,      \* bound: the server stops growing here
          Lag,           \* how late its answers about the last block may be
          MaxFaults,     \* bound: requests that fail for no modelled reason
          PatientServer, \* it prunes no block above the client's right edge
          ShardsOf(_)    \* GetShards: the shard blocks of a master block

ASSUME BoundsAssumption == /\ MaxSeqno \in Nat \ {0}
                           /\ Lag \in Nat
                           /\ MaxFaults \in Nat
                           /\ PatientServer \in BOOLEAN

\* A workchain block is named by its shard and its seqno.
BlockId == [shard : Shards, seqno : Nat]

ASSUME ShardsOfAssumption == \A n \in 1..MaxSeqno : ShardsOf(n) \in Seq(BlockId)

VARIABLES head, first,  \* the server keeps the master blocks first..head
          faults,       \* unexplained failures so far
          registry,
          watch,        \* the channel holding the published MasterchainInfo
          lb,           \* LastBlockDiscoverActor
          fb,           \* FirstBlockDiscoverActor
          bsq,          \* the inbox of BlockShardsActor (current one first)
          chans,        \* shard -> inbox of its ShardHeaderActor, or None
          zombies       \* requests of aborted actors whose last poll still runs

server == <<head, first>>
vars == <<head, first, faults, registry, watch, lb, fb, bsq, chans, zombies>>

\* MasterchainInfo: the last block and the state root that came with it.
\* LastBlockDiscoverActor overwrites the first and keeps the second.
Info == [last : Nat, root : Nat]

ASSUME InfoAssumption == None \notin Info

\* One entry of the list the search returns: a header and its shard.
Entry == [shard : ShardIds, seqno : Nat]

\* BlockAvailability: the master block first, then its shard blocks.
EntriesOf(n) == <<[shard |-> Master, seqno |-> n]>> \o ShardsOf(n)

\* next() of LastBlockDiscoverActor: where it waits, and its locals.
LbState == [pc : {"tick", "sync", "lookup", "publish"},
            current : Info \cup {None}, info : Info \cup {None},
            last_block : 0..MaxSeqno, seqno : 0..MaxSeqno]

\* run() and next() of FirstBlockDiscoverActor.
FbState == [pc : {"wait", "tick", "check", "search", "apply"},
            current : Nat \cup {None}, start : Nat, lhs : Nat,
            floor : Nat, found : Nat, headers : Seq(Entry)]

TypeOK ==
    /\ head \in 1..MaxSeqno
    /\ first \in 1..head
    /\ faults \in 0..MaxFaults
    /\ registry \in [ShardIds -> Bounds \cup {None}]
    /\ watch \in Info \cup {None}
    /\ lb \in LbState
    /\ fb \in FbState
    /\ bsq \in Seq(1..MaxSeqno)
    /\ chans \in [Shards -> Seq(Nat) \cup {None}]
    /\ zombies \subseteq BlockId

\* An actor between two passes: next()'s locals are gone, current is kept.
LbIdle(current) == [pc |-> "tick", current |-> current, info |-> None,
                    last_block |-> 0, seqno |-> 0]

FbIdle(pc, current) == [pc |-> pc, current |-> current, start |-> 0, lhs |-> 0,
                        floor |-> 0, found |-> 0, headers |-> <<>>]

Init ==
    /\ head \in 1..MaxSeqno
    /\ first \in 1..head
    /\ faults = 0
    /\ registry = Empty
    /\ watch = None
    /\ lb = LbIdle(None)
    /\ fb = FbIdle("wait", None)
    /\ bsq = <<>>
    /\ chans = [s \in Shards |-> None]
    /\ zombies = {}

-----------------------------------------------------------------------------
(* The liteserver. *)

RightEdge == IF get_last_seqno(registry, Master) = None THEN 0
             ELSE get_last_seqno(registry, Master)

Grow == /\ head < MaxSeqno
        /\ head' = head + 1
        /\ UNCHANGED <<first, faults, registry, watch, lb, fb, bsq, chans, zombies>>

Prune == /\ first < head
         /\ PatientServer => first < RightEdge
         /\ first' = first + 1
         /\ UNCHANGED <<head, faults, registry, watch, lb, fb, bsq, chans, zombies>>

\* The last blocks the server may report.
Reported == {n \in 1..head : n >= head - Lag}

Available(n) == first <= n /\ n <= head

Fault == /\ faults < MaxFaults
         /\ faults' = faults + 1

\* A request about block n fails because the block is gone, or for no
\* modelled reason.
Refused(n) == (~Available(n) /\ faults' = faults) \/ Fault

-----------------------------------------------------------------------------
(* LastBlockDiscoverActor: run() is a tick followed by next(). *)

lbOthers == <<server, fb, chans, zombies>>

\* Mutant: the answer is published as it comes.
LbInfo_publishes ==
    /\ lb.pc = "tick"
    /\ \E n \in Reported :
          LET info == [last |-> n, root |-> n] IN
          /\ lb' = IF lb.current = info THEN lb
                   ELSE [lb EXCEPT !.pc = "sync", !.info = info]
          /\ watch' = info
    /\ UNCHANGED <<lbOthers, faults, registry, bsq>>

\* GetMasterchainInfo; the actor goes back to sleep when nothing changed.
LbInfo ==
    /\ lb.pc = "tick"
    /\ \E n \in Reported :
          LET info == [last |-> n, root |-> n] IN
          lb' = IF lb.current = info THEN lb
                ELSE [lb EXCEPT !.pc = "sync", !.info = info]
    /\ UNCHANGED <<lbOthers, faults, registry, watch, bsq>>

\* The loop condition right_next(): fetch one more block, or finish the pass
\* and remember info as current.
LbLoop(reg, l) ==
    IF right_next(reg, Master) = None
    THEN LbIdle(l.info)
    ELSE [l EXCEPT !.pc = "lookup", !.seqno = right_next(reg, Master)]

\* Sync, then upsert_right_end and the loop condition.
LbSync ==
    /\ lb.pc = "sync"
    /\ \E n \in Reported :
          /\ registry' = upsert_right_end(registry, Master, n)
          /\ lb' = LbLoop(registry', [lb EXCEPT !.last_block = n])
    /\ UNCHANGED <<lbOthers, faults, watch, bsq>>

\* Mutant: the header of the synced block is stored, not the one looked up.
LbLookup_synced ==
    /\ lb.pc = "lookup"
    /\ Available(lb.seqno)
    /\ bsq' = Append(bsq, lb.last_block)
    /\ registry' = upsert_right(registry, Master, HeaderOf(lb.last_block))
    /\ lb' = [lb EXCEPT !.pc = "publish"]
    /\ UNCHANGED <<lbOthers, faults, watch>>

\* LookUpBlockBySeqno and GetBlockHeader succeed: the synced block goes to
\* BlockShardsActor, the header into the registry.
LbLookup ==
    /\ lb.pc = "lookup"
    /\ Available(lb.seqno)
    /\ bsq' = Append(bsq, lb.last_block)
    /\ registry' = upsert_right(registry, Master, HeaderOf(lb.seqno))
    /\ lb' = [lb EXCEPT !.pc = "publish"]
    /\ UNCHANGED <<lbOthers, faults, watch>>

\* Mutant: the synced block is published, not the one just fetched.
LbPublish_synced ==
    /\ lb.pc = "publish"
    /\ LET info == [lb.info EXCEPT !.last = lb.last_block] IN
          /\ watch' = info
          /\ lb' = LbLoop(registry, [lb EXCEPT !.info = info])
    /\ UNCHANGED <<lbOthers, faults, registry, bsq>>

\* info.last is overwritten and published; then the loop condition.
LbPublish ==
    /\ lb.pc = "publish"
    /\ LET info == [lb.info EXCEPT !.last = lb.seqno] IN
          /\ watch' = info
          /\ lb' = LbLoop(registry, [lb EXCEPT !.info = info])
    /\ UNCHANGED <<lbOthers, faults, registry, bsq>>

\* Mutant: info is remembered although the pass failed.
LbFail_remembers ==
    /\ \/ lb.pc \in {"tick", "sync"} /\ Fault
       \/ lb.pc = "lookup" /\ Refused(lb.seqno)
    /\ lb' = LbIdle(lb.info)
    /\ UNCHANGED <<lbOthers, registry, watch, bsq>>

\* The `?` of a failed request: the pass is given up, current is kept.
LbFail ==
    /\ \/ lb.pc \in {"tick", "sync"} /\ Fault
       \/ lb.pc = "lookup" /\ Refused(lb.seqno)
    /\ lb' = LbIdle(lb.current)
    /\ UNCHANGED <<lbOthers, registry, watch, bsq>>

-----------------------------------------------------------------------------
(* FirstBlockDiscoverActor: waits for the first published block, then on   *)
(* every tick checks its first block and, if it is gone, searches again.   *)

fbOthers == <<server, watch, lb, bsq, chans, zombies>>

FbWake ==
    /\ fb.pc = "wait"
    /\ watch # None
    /\ fb' = FbIdle("tick", fb.current)
    /\ UNCHANGED <<fbOthers, faults, registry>>

\* Builder of the search: from(lhs), to(start).  floor remembers what was
\* the first block when the search began.
FbSearchFrom(f, lhs) == [f EXCEPT !.pc = "search", !.lhs = lhs, !.floor = first]

\* Mutant: the search goes up to the server's last block, not the published one.
FbTick_to_head ==
    /\ fb.pc = "tick"
    /\ LET f == [fb EXCEPT !.start = head] IN
       fb' = IF fb.current = None THEN FbSearchFrom(f, 1)
             ELSE [f EXCEPT !.pc = "check"]
    /\ UNCHANGED <<fbOthers, faults, registry>>

FbTick ==
    /\ fb.pc = "tick"
    /\ LET f == [fb EXCEPT !.start = watch.last] IN
       fb' = IF fb.current = None THEN FbSearchFrom(f, 1)
             ELSE [f EXCEPT !.pc = "check"]
    /\ UNCHANGED <<fbOthers, faults, registry>>

\* GetShards(current) succeeds: nothing to do until the next tick.
FbCheckOk ==
    /\ fb.pc = "check"
    /\ Available(fb.current)
    /\ fb' = FbIdle("tick", fb.current)
    /\ UNCHANGED <<fbOthers, faults, registry>>

\* Mutants: the search starts over at block 1; the check is only repeated.
FbCheckFail_from_one ==
    /\ fb.pc = "check"
    /\ Refused(fb.current)
    /\ fb' = FbSearchFrom(fb, 1)
    /\ UNCHANGED <<fbOthers, registry>>

FbCheckFail_waits ==
    /\ fb.pc = "check"
    /\ Refused(fb.current)
    /\ fb' = FbIdle("tick", fb.current)
    /\ UNCHANGED <<fbOthers, registry>>

FbCheckFail ==
    /\ fb.pc = "check"
    /\ Refused(fb.current)
    /\ fb' = FbSearchFrom(fb, fb.current)
    /\ UNCHANGED <<fbOthers, registry>>

\* Mutant: the upper bound of the search is off by one.
FbFound_past_start ==
    /\ fb.pc = "search"
    /\ \E n \in fb.lhs .. fb.start + 1 :
          /\ fb.floor <= n
          /\ fb' = [fb EXCEPT !.pc = "apply", !.found = n, !.headers = EntriesOf(n)]
    /\ UNCHANGED <<fbOthers, faults, registry>>

\* What BinarySearch promises of find(): a block of the range that was
\* there at some point of the search.
FbFound ==
    /\ fb.pc = "search"
    /\ \E n \in fb.lhs .. fb.start :
          /\ fb.floor <= n
          /\ fb' = [fb EXCEPT !.pc = "apply", !.found = n, !.headers = EntriesOf(n)]
    /\ UNCHANGED <<fbOthers, faults, registry>>

\* NotFound, or a probe failed: possible when blocks were pruned meanwhile.
FbNotFound ==
    /\ fb.pc = "search"
    /\ \/ (fb.start < first \/ fb.floor < first) /\ faults' = faults
       \/ Fault
    /\ fb' = FbIdle("tick", fb.current)
    /\ UNCHANGED <<fbOthers, registry>>

\* upsert_left, one header at a time; after the last one current is set.
FbApply ==
    /\ fb.pc = "apply"
    /\ LET e == Head(fb.headers) IN
       registry' = upsert_left(registry, e.shard, HeaderOf(e.seqno))
    /\ fb' = IF Len(fb.headers) = 1
             THEN FbIdle("tick", fb.found)
             ELSE [fb EXCEPT !.headers = Tail(@)]
    /\ UNCHANGED <<fbOthers, faults>>

-----------------------------------------------------------------------------
(* BlockShardsActor and the ShardHeaderActors it spawns and aborts. *)

bsOthers == <<server, watch, lb, fb>>

BlocksOf(n) == {ShardsOf(n)[i] : i \in DOMAIN ShardsOf(n)}

\* The block of shard s among the shard blocks of master block n.
BlockOf(s, n) == {b \in BlocksOf(n) : b.shard = s}
seqno_of(s, n) == (CHOOSE b \in BlockOf(s, n) : TRUE).seqno

\* Mutant: the end of a shard is recorded only when its actor is spawned.
ShardEnds_when_spawned(n) ==
    [s \in ShardIds |->
        IF s = Master \/ BlockOf(s, n) = {} \/ chans[s] # None THEN registry[s]
        ELSE upsert_right_end(registry, s, seqno_of(s, n))[s]]

\* upsert_right_end for every shard of block n.
ShardEnds(n) ==
    [s \in ShardIds |->
        IF s = Master \/ BlockOf(s, n) = {} THEN registry[s]
        ELSE upsert_right_end(registry, s, seqno_of(s, n))[s]]

\* Mutant: a new actor is not given the block it was spawned for.
Inboxes_spawned_empty(n) ==
    [s \in Shards |->
        IF BlockOf(s, n) = {} THEN None
        ELSE IF chans[s] = None THEN <<>>
        ELSE Append(chans[s], seqno_of(s, n))]

\* Every shard block goes to the actor of its shard, spawned if there is
\* none; the actors of the other shards are dropped.
Inboxes(n) ==
    [s \in Shards |->
        IF BlockOf(s, n) = {} THEN None
        ELSE IF chans[s] = None THEN <<seqno_of(s, n)>>
        ELSE Append(chans[s], seqno_of(s, n))]

\* GetShards succeeds.  Dropping an actor aborts its task, but a poll that is
\* already running completes: the request it was handling may still reach
\* the registry.
BsShards ==
    /\ bsq # <<>>
    /\ Available(Head(bsq))
    /\ registry' = ShardEnds(Head(bsq))
    /\ chans' = Inboxes(Head(bsq))
    /\ zombies' = zombies \cup
           {[shard |-> s, seqno |-> Head(chans[s])] :
               s \in {r \in Shards : /\ BlockOf(r, Head(bsq)) = {}
                                     /\ chans[r] # None
                                     /\ chans[r] # <<>>}}
    /\ bsq' = Tail(bsq)
    /\ UNCHANGED <<bsOthers, faults>>

\* The retries are used up: the block is skipped.
BsSkip ==
    /\ bsq # <<>>
    /\ Refused(Head(bsq))
    /\ bsq' = Tail(bsq)
    /\ UNCHANGED <<bsOthers, registry, chans, zombies>>

\* The server keeps a shard block as long as a master block that lists it.
Stored(s, m) == \E n \in first..head : BlockOf(s, n) # {} /\ seqno_of(s, n) = m

\* GetBlockHeader succeeds.
ShHeader(s) ==
    /\ chans[s] # None
    /\ chans[s] # <<>>
    /\ Stored(s, Head(chans[s]))
    /\ registry' = upsert_right(registry, s, HeaderOf(Head(chans[s])))
    /\ chans' = [chans EXCEPT ![s] = Tail(@)]
    /\ UNCHANGED <<bsOthers, faults, bsq, zombies>>

\* It fails: the block is gone, or the retries are used up.
ShSkip(s) ==
    /\ chans[s] # None
    /\ chans[s] # <<>>
    /\ (~Stored(s, Head(chans[s])) /\ faults' = faults) \/ Fault
    /\ chans' = [chans EXCEPT ![s] = Tail(@)]
    /\ UNCHANGED <<bsOthers, registry, bsq, zombies>>

\* The last poll of an aborted actor gets as far as the registry, or does not.
ShAborted(z) ==
    /\ z \in zombies
    /\ zombies' = zombies \ {z}
    /\ registry' \in {registry, upsert_right(registry, z.shard, HeaderOf(z.seqno))}
    /\ UNCHANGED <<bsOthers, faults, bsq, chans>>

-----------------------------------------------------------------------------
Lb == LbInfo \/ LbSync \/ LbLookup \/ LbPublish \/ LbFail
Fb == FbWake \/ FbTick \/ FbCheckOk \/ FbCheckFail \/ FbFound \/ FbNotFound \/ FbApply
Bs == BsShards \/ BsSkip
Sh(s) == ShHeader(s) \/ ShSkip(s)

Next == \/ Grow
        \/ Prune
        \/ Lb
        \/ Fb
        \/ Bs
        \/ \E s \in Shards : Sh(s)
        \/ \E z \in zombies : ShAborted(z)

Spec == Init /\ [][Next]_vars

\* Every actor is a task the runtime keeps polling, driven by a timer or by
\* its inbox, and every request it makes ends, with an answer or an error.
Fairness == /\ WF_vars(Lb)
            /\ WF_vars(Fb)
            /\ WF_vars(Bs)
            /\ \A s \in Shards : WF_vars(Sh(s))

FairSpec == Spec /\ Fairness

-----------------------------------------------------------------------------
(* What RoutedClient answers. *)

edges_defined == watch # None /\ left_defined(registry, Master)

last_seqno == IF watch = None THEN None ELSE get_last_seqno(registry, Master)

contains(s, n) == contains_block(registry, s, n, FALSE)

contains_not_available(s, n) == contains_block(registry, s, n, TRUE)

-----------------------------------------------------------------------------
(* Safety. *)

left_seqno == registry[Master].left.seqno

\* A client that reports itself ready hands out (GetMasterchainInfo) a block
\* that it also says it contains: a caller who asks for the last block and
\* then for that block's data is never turned away by the same client.  Two
\* actors write the two ends of the interval and a third value, the
\* published block, is written after the right end and read to find the left.
PublishedRoutable == edges_defined => contains(Master, watch.last)

\* The registry's right edge, which choose() ranks clients by, is never more
\* than one block ahead of the block the client has published, and never
\* behind it.
PublishedFollowsRight ==
    watch # None => RightEdge \in {watch.last, watch.last + 1}

\* The range FirstBlockDiscoverActor gives to the search is never empty: the
\* first block it knows is never beyond the block published last.
SearchRangeNonEmpty == fb.pc = "search" => fb.lhs <= fb.start

\* A block that can be served, asked for by seqno or by a logical time, has
\* been announced: contains() implies contains_not_available(), the two
\* answers choose() combines, although one reads the edge that a
\* ShardHeaderActor writes and the other the one BlockShardsActor does.  Holds
\* when the server never reports an older last block than before (Lag = 0).
ServedIsAnnounced ==
    \A s \in ShardIds, n \in 1..MaxSeqno :
        /\ contains(s, n) => contains_not_available(s, n)
        /\ contains_time(registry, {s}, HeaderOf(n).start_lt, FALSE) =>
               contains_time(registry, {s}, HeaderOf(n).start_lt, TRUE)

(* What a step may never do. *)

\* Once known, the right edge of the masterchain advances one block at a
\* time: no pass over a lagging or failing server skips a block or goes back.
RightContiguous ==
    [][RightEdge' # RightEdge => RightEdge = 0 \/ RightEdge' = RightEdge + 1]_vars

\* The published block never goes back, whatever the server reports.
PublishedMonotone ==
    [][watch # None => watch' # None /\ watch.last <= watch'.last]_vars

\* The left edge of the masterchain never moves back to pruned blocks.
LeftMonotone ==
    [][left_defined(registry, Master) =>
         /\ left_defined(registry', Master)
         /\ left_seqno <= registry'[Master].left.seqno]_vars

(* Refinement. *)

\* The masterchain as the rest of the pool sees it through this client.
view == [left      |-> IF left_defined(registry, Master) THEN left_seqno ELSE 0,
         right     |-> RightEdge,
         end       |-> IF registry[Master] = None \/ registry[Master].right_seqno = None
                       THEN 0 ELSE registry[Master].right_seqno,
         published |-> IF watch = None THEN 0 ELSE watch.last]

\* The four actors together move the client's view only in the steps
\* ClientView allows, which is what Router assumes of every client.
RefinesView == view = Unknown /\ [][view' \in Steps(view, MaxSeqno)]_view

(* Liveness. *)

\* Every block the server reaches is eventually published, after any bounded
\* number of failed requests.
CatchesUp ==
    \A n \in 1..MaxSeqno : head >= n ~> (watch # None /\ watch.last >= n)

\* Pruning is eventually noticed: the left edge passes every pruned block.
LeftRefreshed ==
    \A n \in 1..MaxSeqno : first >= n ~> (edges_defined /\ left_seqno >= n)

\* When the chain stops growing, the right edge of each of its shards ends
\* up at the shard's last block.
ShardsCatchUp ==
    \A n \in 1..MaxSeqno :
        <>[](head = n) =>
            <>[](\A b \in BlocksOf(n) : get_last_seqno(registry, b.shard) = b.seqno)
=============================================================================
