# Formal models of ton-grpc

TLA+ modules for the part of this repository that is hard to test: the client
that keeps a pool of TON liteservers, learns from background tasks which blocks
each of them has, and routes every request to a server that can answer it. The
modules are model-checked with TLC on small instances, and the most important
facts about three of them are proved with TLAPS for every value of the constants.

## The system

A request to `ton-grpc` (gRPC) becomes one or more calls of a `Client` of
`ton-client`. From the outside in (`ton-client/src/builder.rs`):

| layer | source | what it does |
| --- | --- | --- |
| `Client`, `Error`, `Timeout` (10 s), `Retry` | `ton-client/src/client`, `ton-tower/src/service` | deadline and retries of a request |
| `Shared` + `Balance` + `Router` | `ton-tower/src/service/shared.rs`, `ton-client/src/pool`, `ton-client/src/route` | one lock around the map of clients; `choose()` picks those that can serve the request, the load decides among them |
| `LiteServerDiscover` | `ton-client/src/pool/discover.rs` | follows the network config and inserts and removes servers |
| `RoutedClient` and its actors | `ton-client/src/route/client.rs`, `route/discover`, `route/registry.rs` | what one server has: the interval of blocks of each shard, kept up to date by four kinds of tasks |
| `BinarySearch` | `ton-client/src/algo/binary_search` | finds the first block a server still keeps |
| `ConcurrencyLimit`, `Shared`, `Timeout` (5 s), `Reconnect` | `ton-tower/src/service` | shares one connection between requests and dials it again |
| `LiteServerClient` / `TonlibjsonClient` | `ton-liteserver-client`, `tonlibjson-client` | an actor that owns the socket (or the library) and matches answers to requests |
| `adnl-tcp` | `adnl-tcp/src` | encrypted framing |

Beside this chain stand `tvm-grpc` (emulators on worker threads, driven by
streams of requests), the adapters from the common interface to a backend, and
the types, parsers and macros that describe TL and TL-B data.

### Components, their state and what is hard about them

* **Discovery of one client.** State: the registry (shard -> `left`, `right`,
  `right_seqno`), the watch channel with the last `MasterchainInfo`, and the
  locals of the actors. Operations: a poll every second for the end of the chain
  and a walk to it block by block; a check every 30 s of the first block, with a
  search when it is gone; for each master block the list of its shards, with an
  actor for each shard that is spawned and aborted as shards come and go. Hard:
  four writers of one map without a common lock; a value published after the
  edge it is read with; a server that lags, goes back, prunes and fails in the
  middle of a walk.
* **Search for the first block.** Pure but for the probe, which is a request: it
  may fail for another reason than a missing block, and blocks are pruned while
  it runs.
* **Router.** State: the map of clients and, during a call, what `choose()` has
  read of them. Hard: the clients change while they are read one after another,
  and are asked twice (`contains`, then `contains_not_available`).
* **Discovery of servers.** State: the last config, a channel of 100 changes, the
  map of the Router. Hard: the actor blocks in the middle of a config when the
  channel is full; a server may keep its id and change its address; the first
  config may fail.
* **Connection.** State: `Reconnect` (idle, connecting, connected, and the error
  of a refused dial), the rate limiter of one dial a minute, the actor's channel
  and map. Hard: any task may poll the shared service between the poll and the
  call of a request; the actor may end with requests in its channel and in its
  map; the end of the stream is not noticed until something is sent; the pool
  may drop the client with requests in flight.
* **Retry**, **transaction streams**, **tonlibjson client**, **framing**,
  **tvm-grpc**, **ton-grpc services**: see the plan.

`PROJECT.json` lists every component with its status, and the hazards at the
lines where they bite.

## Modules

| module | models | notes |
| --- | --- | --- |
| `ShardBounds` | `shard_bounds.rs` | pure operators on one interval. A header is its seqno and the logical times of its block |
| `Registry` | `registry.rs` | pure operators on the map. The code keeps the shards of a chain in a second map, which an upsert fills first; a shard of it without bounds contributes nothing to `contains()`, so it is represented by the shards that have bounds |
| `ClientView` | what a client promises the Router | abstract: four seqnos and the steps they may take |
| `Discovery` | `client.rs`, `discover/*.rs` | one client with its actors and its server |
| `Search` | what `find()` promises its caller | abstract |
| `BinarySearch` | `binary_search/mod.rs`, `block.rs` | one action per probe |
| `Router` | `route/mod.rs`, `router.rs`, `balance.rs`, retry and timeout around them | clients take `ClientView` steps; `choose()` reads one client per step |
| `LiteServerDiscover` | `pool/discover.rs` and the map of `router.rs` | one action per `await` of the actor |
| `Connection` | `shared.rs`, `reconnect.rs`, `timeout`, `ton-liteserver-client/src/client.rs` | one server, several requests, several dials |
| `DiscoveryLastBlock`, `DiscoveryInvariant`, `DiscoveryProofs` | | inductive invariant of `Discovery`; its theorems |
| `BinarySearchProofs` | | theorems |
| `ConnectionPolls`, `ConnectionProofs` | | inductive invariant of `Connection`; its theorems |
| `MC*` | | constants for TLC |

An action stands for the code between two points where another task can be seen:
an `await` of a request, a send on a bounded channel, the release of a lock. The
map in `PROJECT.json` gives the lines of each definition. Definitions whose name
ends in a suffix and whose comment starts with "Mutant" are plausible mistakes,
each of which breaks one property.

**How the models fit together.** `Discovery` implements `ClientView`
(`RefinesView`, proved), and `Router` assumes nothing else of its clients.
`BinarySearch` implements `Search` (`RefinesSearch`, proved); `Discovery` uses
the search as one step whose result is what `Search` allows. `LiteServerDiscover`
feeds the map whose changes are `Insert` and `Remove` in `Router`. `Connection`
is what lies under every request that the actors of `Discovery` and the calls of
`Router` make. `Router` keeps of it whether the connection of a client is ready
(`up`), and that a call may fail.

One link is missing, and it is missing in the code. The liveness of `Discovery`
assumes that every request of an actor ends, with an answer or an error.
`Connection` does not establish that. A future that finds the shared service not
ready returns without waking itself (`shared.rs:123`), and the dial and the
limiter's sleep keep only the waker of the last task that polled them
(`reconnect.rs:58` and `72`). `Called` therefore speaks of the request that polled
last. One that polled before is resolved by its deadline, or when its task polls
it again for another reason; the actors' own requests have no deadline while they
wait for the service. `CatchesUp`, `LeftRefreshed` and `ShardsCatchUp` hold under
that assumption and not without it.

**Details of `Router`.** `GetMasterchainInfo` is answered by the client itself and
needs its edges only; every other request also needs `self.client.poll_ready`. A
forwarded call may fail (`Fail`). `retry` is what `RetryPolicy` makes of an error:
a message is never repeated, a query is repeated if the budget allows it, which is
a nondeterministic choice. A removed client
stays as long as the balancer of a request holds it, and is then dropped with all it
knows. A report of the server may repeat what is known, so a
chain that stands still is among the behaviours.

**Details of `Connection`.** A dial is four steps: the socket opens (`Accept`), the
next poll sends the handshake, the server answers (`Connect`), the next poll spawns
the actor. Nothing happens between them unless someone polls. `awake` holds the
requests whose task is scheduled, `waker` the one that the dial or the sleep wakes.
The pool's factory (`adapter/make.rs`) is always ready, so only the rate limit
delays a dial.

**What is external.** The liteserver (it grows, prunes, lags by at most `Lag`,
fails at most `MaxFaults` requests for no modelled reason), the network, the
clock, and the libraries `tokio` and `tower`, modelled from their use: a send on
a full channel waits, a dropped sender resolves its receiver, an aborted task
ends at an await.

## Runs

| run | instance | shows |
| --- | --- | --- |
| `discovery_lag` | masterchain only, 3 blocks, lag 2, one failure, free pruning (247,002 states) | what is published is routable; the right edge is the published block or the next; no edge goes back or skips; the search is never given an empty range; the client implements `ClientView` |
| `discovery_shards` | a shard replaced by another and back (118,664) | types; what is served was announced, while actors are aborted during a request |
| `discovery_live` | 3 blocks, one failure (13,302) | both edges follow the server |
| `discovery_shards_live` | a split, requests fail only for pruned blocks: `MaxFaults = 0` (47,614) | every shard ends at its last block |
| `binary_search` | every range and start within 0..5, two tolerances, pruning and a failure (103,356) | the first block is found if nothing disturbs the search; what is found was kept; the number of probes is logarithmic; it ends; it implements `Search` |
| `server_discover` | two ids, two addresses, three configs, channel of 2 (7,680) | the map follows the config; servers listed twice keep their client; the first failure is reported once; the map settles |
| `router` | two clients, 3 blocks, clients come and go; `GetMasterchainInfo` and queries by seqno (1,853,894) | a block request goes only to clients that had the block; what a caller was told of is served; the fallback finds a client; the last block goes back by at most one |
| `router_live` | two clients, one of them reliable, 2 blocks, requests of every kind (315,255) | every request ends or is handed to clients, unless it is put off again and again for a block that may not come; a request by logical time goes only to clients that had the block; the fallback finds a client |
| `connection` | three requests, two failures (47,157) | no call without readiness; a refused dial fails one request; nobody waits for a dead actor; dropping the client fails nothing |
| `connection_live` | two requests, two failures (22,341) | the request that polled the service last does not wait for it for ever, and none waits for ever on a closed connection |

**Bounds.** Three blocks are the least for which an edge can be one behind, equal
and one ahead of another value, and for which a lag of two leaves the walk
several blocks behind. Two clients are enough for any difference between the one
read first and the one read later; a third adds only more of the same, as the
properties speak of pairs. Two failures let a dial be refused and the next
connection be lost, and leave a third one to recover; three requests put one in
the channel, one in the map and one behind the lock. A channel of two fills in
the middle of a config, as 100 does with a larger one. In `BinarySearch` the
count of probes is capped (`MaxHops`) far above what is reached. The constraint `FewKinds` of `router` leaves queries by logical time, other
queries for the last block and messages to `router_live`, which has fewer blocks;
`ToldIsServed` and `AnswersKeepUp` do not concern them. The clients of
`router` and the requests of `connection` are symmetric; the runs with liveness
use no symmetry.

**Fairness.** The runtime polls a task that was woken, and timers fire: weak
fairness of each actor, and of a request that is `awake`. In `Discovery` each
request of an actor ends (see above for what that rests on). Nothing is assumed of
growth, pruning, failures or removals. Further assumptions, run by run:

* `discovery_live` needs a server that does not prune the block after the right
  edge while the client waits for it (`PatientServer`) and does not lag: otherwise
  the walk never advances, which is what the code does.
* `discovery_shards_live` needs the same, and no other failures: if the retries for
  the last header of a shard are used up, only the shard's next block repairs its
  edge.
* `router_live` needs one reliable client: it stays, makes its connection, hears of
  a block, finds the first one, and fetches what it has heard of. The last needs
  strong fairness, since a lagging server may take a report back before the block is
  fetched, but not always. `Insert` of that client is strongly fair, as every
  `poll_ready` drains the channel. A request that waits for the Router wakes itself
  (`router.rs:95`). Nothing is assumed of a request once it is handed over, so
  `HandedOver` stops there.
* `server_discover` needs requests that keep coming, as only they drain the channel.
* `connection_live` assumes that a dial goes on (the handshake has a timeout), that
  the limiter's sleep ends, and that an idle actor pings. It assumes nothing of
  timeouts of requests: they are possible and never needed.

Deadlock is checked in all runs but `binary_search` (the search ends) and the
two of `connection` (all requests may be over).

## Proofs

`DiscoveryProofs` proves, for any number of blocks, lag, failures, and any layout
of shards over time, from the assumptions that the bounds are naturals, that
`None` is no value of the types, and that `GetShards` returns a list of shard
blocks:

* `TypeCorrect`, `PublishedIsRoutable`, `RightIsPublishedOrNext`,
  `SearchRangeIsNonEmpty` (invariants), `RightIsContiguous`,
  `PublishedIsMonotone`, `LeftIsMonotone` (steps), `ImplementsView` (refinement).

None of these is inductive. `PublishedRoutable` relates the left edge, written by
one actor, to the published block, written by another; it holds because of what
both hold in their locals. The inductive invariant `Inv` has three parts: types;
`RightInv`, which says where the right edge and the published block are for each
point of `LastBlockDiscoverActor` (one apart only between the lookup and the
publication, and a pending lookup is the one `right_next` asks for); `LeftInv`,
which says that everything the first-block actor holds is at most the block that
was published when its pass began, and that the left edge is what it remembers,
except while a list of headers is being applied, where the only master block in
the list is the one found. Each action has its lemma; the registry operations
have lemmas that say what they change and what they keep. `DiscoveryLastBlock`
holds `Inv`, the lemmas of the registry and those of the server and of
`LastBlockDiscoverActor`; `DiscoveryInvariant` those of the other actors;
`DiscoveryProofs` the theorems.

`BinarySearchProofs` proves `FindsTheFirst`, `FoundIsKept`, `ConvergesOnTheBest`
and `ImplementsSearch` for every range, start and tolerance, with any pruning and
failures during the search. The loop invariant: the interval stays within the
range, the best point is its right end, and, as long as nothing disturbs the
search, everything to the left of it is gone. A consequence is that the
tolerance never decides the result: when the last probe fails, the best point is
the current one.

`ConnectionProofs` proves `ConnectionTypes`, `CallsAreReady`,
`RefusalsAreBlamedOnce`, `NobodyIsForgotten` and `FailuresHaveCause` for any
number of requests, dials and failures. The inductive invariant `CInv` (in
`ConnectionPolls`, with the lemmas of the requests and the dials) adds four facts to the properties. `Blame` counts a refusal while it is still unseen (the
dial has failed and nobody has polled it), once it is stashed, and once it has
failed a request, so that the three together never exceed the refusals. `Dials`
says that dials are numbered in order and that none after the current one exists.
`Sent` says that a request in flight names a connection. The steps of a dial
and the wakers disturb none of them. `Closed` says
that a closed connection was counted as a failure, which is what an error at the
next ping is charged to.

**Only model-checked**: all liveness (TLAPS does not prove it here), the bound on
the number of probes (it needs an induction over powers of two),
`ServedIsAnnounced`, and the properties of `Router` and `LiteServerDiscover`.

## What the models say about the code

* The answer about the last block may go back by one block between two requests,
  since a client is ranked by an edge that moves before the block is published
  (`AnswersKeepUp`), and by more when a client is removed.
* A client that falls behind a pruning server stays behind (see `PatientServer`).
* Only the last task that polled a connection under way is woken by it (see `Called`).
* A query for a logical time just after a client's last block is delayed and retried
  until the deadline if that block does not come (`Withheld`).
* A task that is aborted while one poll of it runs on another thread may write an
  older header after a newer one (`ShAborted`), if the shard comes back within that
  poll; the edge is repaired by the shard's next block. `ShardsCatchUp` is checked
  for shards that stay.
* With a lag, `right_seqno` may be smaller than `right`; `ServedIsAnnounced` holds
  only for a server whose reports do not go back.
* The request that takes the error of a refused dial may do so after a later dial
  has succeeded (`reconnect.rs:112` returns a stashed error whatever the state),
  and waits for the rate limiter before it does.
* After the pool drops a client, a request in flight on a connection that the
  server closes is resolved only by its timeout: the pings stop with the channel.

## Not modelled

Ciphers, digests and key exchange; conversions between record types in the
adapters; derived encodings of TL and TL-B types; the TL grammar and the macros;
metrics, logging and tracing; the emulator and `tonlibjson` themselves (foreign
code); the test containers. The choice by load (p2c) is nondeterministic. Which
shards cover an account (`shard_prefix.rs`) is a parameter of `contains_time`.

## Plan

Extend the models, in this order:

1. `TxStreams`: `client_ext.rs`. The pages of a block read from both ends: each
   transaction exactly once, in order; the walk back over an account; the split
   of a range into chunks, checked against the set it stands for.
2. `TonlibjsonClient`: the receiver thread, the map of pending requests and the
   disconnect; an abstract request/response service that both it and
   `Connection` implement.
3. `TvmEmulator`: the worker of a stream with its channel, the emulator it
   prepares and the cache; answers in the order of the requests, for any moment
   at which the stream is dropped.
4. `PacketCodec`: the decoder over any division of a byte stream into pieces,
   against the list of packets; the padding of byte strings.
5. `Retry`: the budget of retries, shared by all requests.
6. `AccountSearch` and the criteria of `ton-grpc/src/helpers.rs`; the prefix match
   of accounts to shards.
7. A composition of `LiteServerDiscover` and `Router` over one map.

Then prove: `FollowsConfig` and `Kept` of `LiteServerDiscover`; `OnlyHolders` and
`LatestFindsOne` of `Router`; the refinement of the abstract request service; the
exactly-once property of `TxStreams` for pages of any size.
