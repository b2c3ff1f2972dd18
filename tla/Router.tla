------------------------------- MODULE Router -------------------------------
(***************************************************************************)
(* Routing of requests over the clients of the pool.  A caller makes one   *)
(* request after another; each takes the Router's lock, waits until some   *)
(* client is ready, lets choose() pick the clients that may serve it, and  *)
(* is handed to one of those that is ready.  choose() reads the clients    *)
(* one after another, while their actors go on changing what they know:    *)
(* each client takes the steps of ClientView, which Discovery implements.  *)
(*                                                                         *)
(* Requests are about the masterchain: for its last block, or for a block  *)
(* named by seqno or by a logical time it spans.  All but                  *)
(* GetMasterchainInfo are forwarded to the server, over a connection that  *)
(* has to be ready and may fail them (Connection).                         *)
(***************************************************************************)
EXTENDS ClientView, FiniteSets

CONSTANTS Clients,   \* a server that leaves and comes back is a new client
          MaxSeqno,  \* bound: the servers stop growing here
          Reliable   \* the clients that are never removed and whose server
                     \* answers: they keep the connection they have made

ASSUME RouterAssumption == MaxSeqno \in Nat \ {0} /\ Reliable \subseteq Clients

VARIABLES views,     \* what each client knows
          status,    \* "new", "in" (a value of the services map) or "out"
          up,        \* the clients whose connection is ready
          pc,        \* where the request is
          route,     \* its kind, and the block it is about
          todo,      \* the clients choose() has not read yet
          asked,     \* the client found not to contain the block just now
          known,     \* of choose()
          chosen,    \* clients picked so far; in the end the balancer's list
          top,       \* the highest last_seqno read so far
          fallback,  \* a Block route that is being served as Latest
          answer     \* the last block the caller was told of, and by whom

request == <<pc, route, todo, asked, known, chosen, top, fallback>>
vars == <<views, status, up, request, answer>>

\* GetMasterchainInfo, and the requests that are forwarded: queries and
\* messages for the last block, queries by seqno, queries by logical time.
Info == [kind |-> "info", at |-> 0]
Routes == {Info} \cup [kind : {"latest", "send"}, at : {0}]
                 \cup [kind : {"seqno", "lt"}, at : 1..MaxSeqno]

IsLatest == route.kind \in {"info", "latest", "send"}

NoAnswer == [seqno |-> 0, by |-> None]

TypeOK ==
    /\ views \in [Clients -> [left : 0..MaxSeqno, right : 0..MaxSeqno,
                              end : 0..MaxSeqno, published : 0..MaxSeqno]]
    /\ status \in [Clients -> {"new", "in", "out"}]
    /\ up \subseteq Clients
    /\ pc \in {"idle", "ready", "block", "latest", "call", "delayed"}
    /\ route \in Routes
    /\ todo \subseteq Clients
    /\ asked \in Clients \cup {None}
    /\ known \in BOOLEAN
    /\ chosen \subseteq Clients
    /\ top \in 0..MaxSeqno
    /\ fallback \in BOOLEAN
    /\ answer \in [seqno : 0..MaxSeqno, by : Clients \cup {None}]

Init ==
    /\ views = [c \in Clients |-> Unknown]
    /\ status = [c \in Clients |-> "new"]
    /\ up = {}
    /\ pc = "idle"
    /\ route = Info
    /\ todo = {} /\ asked = None /\ known = FALSE /\ chosen = {} /\ top = 0
    /\ fallback = FALSE
    /\ answer = NoAnswer

services == {c \in Clients : status[c] = "in"}

-----------------------------------------------------------------------------
(* RoutedClient. *)

edges_defined(c) == views[c].published # 0 /\ views[c].left # 0

\* Mutant: an announced block counts as contained.
contains_announced(c, r, not_available) ==
    IF r.kind = "seqno"
    THEN contains_seqno(BoundsOf(views[c]), r.at, TRUE)
    ELSE contains_lt(BoundsOf(views[c]), HeaderOf(r.at).start_lt, TRUE)

contains(c, r, not_available) ==
    IF r.kind = "seqno"
    THEN contains_seqno(BoundsOf(views[c]), r.at, not_available)
    ELSE contains_lt(BoundsOf(views[c]), HeaderOf(r.at).start_lt, not_available)

last_seqno(c) == IF views[c].published = 0 THEN 0 ELSE views[c].right

\* The Router holds a client, or a balancer does.
Held(c) == status[c] = "in" \/ c \in chosen

\* The actors of a client: they run as long as someone holds the client.
Moves(c, next) ==
    /\ Held(c)
    /\ \E v \in next : views' = [views EXCEPT ![c] = v]
    /\ UNCHANGED <<status, up, request, answer>>

Announce(c) == Moves(c, Announced(views[c], MaxSeqno))
Extend(c) == Moves(c, Extended(views[c]))
Publish(c) == Moves(c, Published(views[c]))
Trim(c) == Moves(c, Trimmed(views[c]))

\* The first report, and the first block found.
Hear(c) == views[c].end = 0 /\ Announce(c)
Locate(c) == views[c].left = 0 /\ Trim(c)

\* The connection of a client is made, or lost.
Establish(c) ==
    /\ Held(c) /\ c \notin up
    /\ up' = up \cup {c}
    /\ UNCHANGED <<views, status, request, answer>>

Lose(c) ==
    /\ Held(c) /\ c \in up \ Reliable
    /\ up' = up \ {c}
    /\ UNCHANGED <<views, status, request, answer>>

\* RoutedClient::poll_ready.
poll_ready(c) == edges_defined(c) /\ (route = Info \/ c \in up)

-----------------------------------------------------------------------------
(* The caller, and the Router's poll_ready. *)

\* The locals of a request that is not in choose().  Its balancer is dropped,
\* and with it the clients that only the balancer held.
Fresh(p) == /\ pc' = p
            /\ todo' = {} /\ asked' = None /\ known' = FALSE /\ chosen' = {}
            /\ top' = 0 /\ fallback' = FALSE
            /\ views' = [c \in Clients |-> IF status[c] = "out" THEN Unknown ELSE views[c]]
            /\ up' = {c \in up : status[c] # "out"}

\* The request is over.
Done == Fresh("idle") /\ route' = Info

\* What RetryPolicy does with an error: a query is tried again if the budget
\* allows it, a message never is.
retry == \/ Done
         \/ route.kind # "send" /\ Fresh("delayed") /\ UNCHANGED route

Request(r) ==
    /\ pc = "idle"
    /\ Fresh("ready")
    /\ route' = r
    /\ UNCHANGED <<status, answer>>

\* update_pending_from_discover, in the poll_ready of this request or of
\* another one; only choose() has the map to itself.
Insert(c) ==
    /\ pc \notin {"block", "latest"}
    /\ status[c] = "new"
    /\ status' = [status EXCEPT ![c] = "in"]
    /\ UNCHANGED <<views, up, request, answer>>

\* A client that no balancer holds is dropped with all it knows.
Remove(c) ==
    /\ pc \notin {"block", "latest"}
    /\ status[c] = "in" /\ c \notin Reliable
    /\ status' = [status EXCEPT ![c] = "out"]
    /\ IF c \in chosen THEN UNCHANGED <<views, up>>
       ELSE /\ views' = [views EXCEPT ![c] = Unknown]
            /\ up' = up \ {c}
    /\ UNCHANGED <<request, answer>>

\* Mutant: any client will do, ready or not.
PollReady_any ==
    /\ pc = "ready"
    /\ services # {}
    /\ pc' = IF IsLatest THEN "latest" ELSE "block"
    /\ todo' = services
    /\ UNCHANGED <<views, status, up, route, asked, known, chosen, top, fallback, answer>>

\* Some client is ready: call() follows at once, under the same lock.
PollReady ==
    /\ pc = "ready"
    /\ \E c \in services : poll_ready(c)
    /\ pc' = IF IsLatest THEN "latest" ELSE "block"
    /\ todo' = services
    /\ UNCHANGED <<views, status, up, route, asked, known, chosen, top, fallback, answer>>

-----------------------------------------------------------------------------
(* choose(), and what call() makes of its result. *)

\* The filter of a Block route on client c: contains() is true.
Take(c) ==
    /\ pc = "block" /\ asked = None /\ c \in todo
    /\ contains(c, route, FALSE)
    /\ chosen' = chosen \cup {c}
    /\ todo' = todo \ {c}
    /\ UNCHANGED <<views, status, up, pc, route, asked, known, top, fallback, answer>>

\* contains() is false; contains_not_available() is asked in a step of its
\* own, since the registry may change between the two reads.
Pass(c) ==
    /\ pc = "block" /\ asked = None /\ c \in todo
    /\ ~contains(c, route, FALSE)
    /\ asked' = c
    /\ UNCHANGED <<views, status, up, pc, route, todo, known, chosen, top, fallback, answer>>

AskKnown ==
    /\ pc = "block" /\ asked # None
    /\ known' = (known \/ contains(asked, route, TRUE))
    /\ todo' = todo \ {asked}
    /\ asked' = None
    /\ UNCHANGED <<views, status, up, pc, route, chosen, top, fallback, answer>>

\* Some clients contain the block: one of them gets the request.
Routed ==
    /\ pc = "block" /\ todo = {} /\ chosen # {}
    /\ pc' = "call"
    /\ known' = FALSE
    /\ UNCHANGED <<views, status, up, route, todo, asked, chosen, top, fallback, answer>>

\* RouteNotAvailable is an error.
NotAvailable ==
    /\ pc = "block" /\ todo = {} /\ chosen = {} /\ known
    /\ retry
    /\ UNCHANGED <<status, answer>>

\* Mutant: an unknown block is treated like one that is not there yet.
RouteUnknown_delayed ==
    /\ pc = "block" /\ todo = {} /\ chosen = {} /\ ~known
    /\ Fresh("delayed")
    /\ UNCHANGED <<status, route, answer>>

\* RouteUnknown: the clients are read again, for the Latest route.
RouteUnknown ==
    /\ pc = "block" /\ todo = {} /\ chosen = {} /\ ~known
    /\ pc' = "latest"
    /\ todo' = services
    /\ fallback' = TRUE
    /\ UNCHANGED <<views, status, up, route, asked, known, chosen, top, answer>>

\* Mutant: every client with a last block is taken.
Rank_all(c) ==
    /\ pc = "latest" /\ c \in todo
    /\ todo' = todo \ {c}
    /\ chosen' = IF last_seqno(c) # 0 THEN chosen \cup {c} ELSE chosen
    /\ UNCHANGED <<views, status, up, pc, route, asked, known, top, fallback, answer>>

\* The group with the highest last_seqno, read client by client.  (That no
\* client has one cannot be: see LatestFindsOne.)
Rank(c) ==
    /\ pc = "latest" /\ c \in todo
    /\ todo' = todo \ {c}
    /\ LET n == last_seqno(c) IN
          /\ top' = IF n > top THEN n ELSE top
          /\ chosen' = IF n > top THEN {c}
                       ELSE IF n = top /\ n # 0 THEN chosen \cup {c}
                       ELSE chosen
    /\ UNCHANGED <<views, status, up, pc, route, asked, known, fallback, answer>>

Ranked ==
    /\ pc = "latest" /\ todo = {} /\ chosen # {}
    /\ pc' = "call"
    /\ top' = 0
    /\ UNCHANGED <<views, status, up, route, todo, asked, known, chosen, fallback, answer>>

\* The balancer calls a client of its list that is ready; the list is not
\* revised while it waits.  GetMasterchainInfo is answered by the client.
Call(c) ==
    /\ pc = "call" /\ c \in chosen /\ poll_ready(c)
    /\ Done
    /\ IF route = Info
       THEN answer' = [seqno |-> views[c].published, by |-> c]
       ELSE UNCHANGED answer
    /\ UNCHANGED status

\* A forwarded request fails, at the server or on its way.
Fail(c) ==
    /\ pc = "call" /\ c \in chosen /\ poll_ready(c) /\ route # Info
    /\ retry
    /\ UNCHANGED <<status, answer>>

\* The backoff is over.
Retry ==
    /\ pc = "delayed"
    /\ Fresh("ready")
    /\ UNCHANGED <<status, route, answer>>

\* The deadline passes.
GiveUp ==
    /\ pc \in {"ready", "call", "delayed"}
    /\ Done
    /\ UNCHANGED <<status, answer>>

-----------------------------------------------------------------------------
Next == \/ \E c \in Clients : Announce(c) \/ Extend(c) \/ Publish(c) \/ Trim(c)
        \/ \E c \in Clients : Insert(c) \/ Remove(c) \/ Establish(c) \/ Lose(c)
        \/ \E r \in Routes : Request(r)
        \/ \E c \in Clients : Take(c) \/ Pass(c) \/ Rank(c) \/ Call(c) \/ Fail(c)
        \/ PollReady \/ AskKnown \/ Routed \/ NotAvailable \/ RouteUnknown \/ Ranked
        \/ Retry \/ GiveUp

Spec == Init /\ [][Next]_vars

\* A request that waits for the Router wakes itself (router.rs:95), and
\* choose() runs to its end.  A reliable server answers: its client makes its
\* connection, hears of a block, finds the first one, and fetches what it has
\* heard of, though what it hears may change in between.  Every poll_ready takes
\* the changes that wait in the discovery channel.  Nothing is assumed of the
\* growth of the chain, of pruning, of the other clients, or of a request that
\* was handed to its clients.
Fairness ==
    /\ WF_vars(PollReady \/ AskKnown \/ Routed \/ NotAvailable \/ RouteUnknown \/ Ranked \/ Retry)
    /\ \A c \in Clients : WF_vars(Take(c) \/ Pass(c) \/ Rank(c))
    /\ \A c \in Reliable : /\ SF_vars(Insert(c)) /\ WF_vars(Establish(c))
                           /\ WF_vars(Hear(c)) /\ WF_vars(Locate(c))
                           /\ SF_vars(Extend(c)) /\ WF_vars(Publish(c))

FairSpec == Spec /\ Fairness

-----------------------------------------------------------------------------
asksFor(n) == route.kind = "seqno" /\ route.at <= n

\* Every client a Block request may be handed to has had the block: its right
\* edge has reached it, whatever moved since choose() looked.
OnlyHolders ==
    pc = "call" /\ ~fallback /\ ~IsLatest =>
        \A c \in chosen : views[c].right >= route.at

\* choose() finds a client for a caller who was told of a block and then asks
\* for it or for an older one: they are neither put off nor sent to some client
\* that may lack the block, unless the client that told them has been removed
\* or has since given the block up.
ToldIsServed ==
    pc = "block" /\ todo = {} /\ asked = None /\ chosen = {}
    /\ asksFor(answer.seqno) /\ answer.by \in services =>
        views[answer.by].left > route.at

\* The fallback to Latest never fails: poll_ready saw a client that is ready,
\* and that client has a last block to be ranked by.
LatestFindsOne == pc = "latest" /\ todo = {} => chosen # {}

\* Successive answers about the last block come from different clients, and
\* a client publishes a block after the edge it is ranked by has moved: the
\* answer may go back by one block, and by more only if the client that gave
\* the earlier answer has left.
AnswersKeepUp ==
    [][answer'.seqno < answer.seqno - 1 => answer.by \notin services]_vars

\* choose() is about to delay the request for a client that has heard of its
\* block and does not have it: one that is not reliable, or one that is asked
\* for a logical time, where the next block may never come.
Withheld ==
    /\ pc = "block" /\ asked # None
    /\ contains(asked, route, TRUE)
    /\ asked \notin Reliable \/ route.kind = "lt"

\* As long as one client is reliable, every request ends or is handed to the
\* clients of its block, without the help of a deadline, however the clients
\* differ; it is delayed for ever only if it is withheld again and again.
HandedOver == []<>(pc \in {"idle", "call"} \/ Withheld)
=============================================================================
