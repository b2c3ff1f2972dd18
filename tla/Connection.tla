----------------------------- MODULE Connection -----------------------------
(***************************************************************************)
(* The connection to one liteserver, as the requests of the pool share it: *)
(* SharedService (one lock, taken to poll and to call), Reconnect (dials,  *)
(* redials, remembers a failed dial), the rate limit on dialling, and      *)
(* LiteServerClient with the actor that owns the socket and matches the    *)
(* answers to the requests.                                                *)
(*                                                                         *)
(* External: the server, which answers in any order, more than once or     *)
(* never, closes the connection or breaks it; and the clock.               *)
(***************************************************************************)
EXTENDS Integers, Sequences, FiniteSets

CONSTANTS Requests,
          MaxFailures  \* bound: dials refused and connections lost

ASSUME ConnectionAssumption == MaxFailures \in Nat

\* Each dial makes a new connection; the last one the bound allows is good.
Conns == 1..MaxFailures + 1

VARIABLES conn,       \* Reconnect.state, and the number of the last dial
          stash,      \* Reconnect.error holds the error of a refused dial
          quota,      \* the rate limiter lets one dial through
          link,       \* what became of each connection
          eof,        \* the connections the server has closed
          inbox,      \* requests sent to the actor of a connection
          responses,  \* the actor's map: requests waiting for an answer
          asked,      \* the queries the server has received
          req,        \* each request, and the connection it was sent over;
                      \* "ok" is answered, with a result or a LiteServerError
          awake,      \* requests whose task is scheduled to poll them
          waker,      \* the request that the dial, or the limiter's sleep, wakes:
                      \* whoever polled last, none if that was another task
          held,       \* the pool holds the client (Reconnect exists)
          panicked,   \* call() found no connection and no error
          failures, refused, blamed  \* counters: all failures, refused dials,
                                     \* requests failed with a dial's error

counters == <<failures, refused, blamed>>
tasks == <<awake, waker>>
vars == <<conn, stash, quota, link, eof, inbox, responses, asked, req, tasks,
          held, panicked, counters>>

Pending == {"waiting", "sent"}

TypeOK ==
    /\ conn \in [state : {"idle", "connecting", "connected"}, n : 0..MaxFailures + 1]
    /\ stash \in BOOLEAN
    /\ quota \in BOOLEAN
    /\ link \in [Conns -> {"none", "dialing", "accepted", "greeting", "answered",
                           "refused", "up", "down"}]
    /\ eof \subseteq Conns
    /\ inbox \in [Conns -> Seq(Requests)]
    /\ responses \in [Conns -> SUBSET Requests]
    /\ asked \in [Conns -> SUBSET Requests]
    /\ req \in [Requests -> [state : {"new", "waiting", "sent", "ok", "err", "late"},
                             n : 0..MaxFailures + 1]]
    /\ awake \subseteq Requests
    /\ waker \subseteq Requests
    /\ held \in BOOLEAN
    /\ panicked \in BOOLEAN
    /\ failures \in 0..MaxFailures
    /\ refused \in 0..failures
    /\ blamed \in 0..MaxFailures

Init ==
    /\ conn = [state |-> "idle", n |-> 0]
    /\ stash = FALSE
    /\ quota = TRUE
    /\ link = [n \in Conns |-> "none"]
    /\ eof = {}
    /\ inbox = [n \in Conns |-> <<>>]
    /\ responses = [n \in Conns |-> {}]
    /\ asked = [n \in Conns |-> {}]
    /\ req = [r \in Requests |-> [state |-> "new", n |-> 0]]
    /\ awake = {} /\ waker = {}
    /\ held = TRUE
    /\ panicked = FALSE
    /\ failures = 0 /\ refused = 0 /\ blamed = 0

-----------------------------------------------------------------------------
(* Reconnect. *)

\* What poll_ready makes of its state: the new state, whether an error is
\* stashed, what is left of the quota, and whether it reports readiness.
Outcome(state, n, error, left, ready) ==
    [conn |-> [state |-> state, n |-> n], stash |-> error, quota |-> left, ready |-> ready]

\* Mutant: a connection whose actor is gone is not ready, and kept.
poll_ready_keeps ==
    CASE conn.state = "connecting" /\ link[conn.n] = "refused" ->
            Outcome("idle", conn.n, TRUE, quota, TRUE)
      [] conn.state # "idle" /\ link[conn.n] \in {"answered", "up"} ->
            Outcome("connected", conn.n, stash, quota, TRUE)
      [] conn.state = "idle" /\ quota /\ conn.n <= MaxFailures ->
            Outcome("connecting", conn.n + 1, stash, FALSE, FALSE)
      [] OTHER ->
            Outcome(conn.state, conn.n, stash, quota, FALSE)

\* The whole loop of poll_ready.  A connection whose actor is gone is given
\* up and another one is dialled at once, if the rate limit allows it.
poll_ready ==
    CASE conn.state = "connecting" /\ link[conn.n] \in {"dialing", "accepted", "greeting"} ->
            Outcome("connecting", conn.n, stash, quota, FALSE)
      [] conn.state = "connecting" /\ link[conn.n] = "refused" ->
            Outcome("idle", conn.n, TRUE, quota, TRUE)
      [] conn.state # "idle" /\ link[conn.n] \in {"answered", "up"} ->
            Outcome("connected", conn.n, stash, quota, TRUE)
      [] OTHER ->
            IF quota /\ conn.n <= MaxFailures
            THEN Outcome("connecting", conn.n + 1, stash, FALSE, FALSE)
            ELSE Outcome("idle", conn.n, stash, quota, FALSE)

\* The dial goes on only when it is polled: it sends the handshake once the
\* socket is open, and spawns the actor once the server has answered.
Advanced(l) == CASE l = "accepted" -> "greeting"
                 [] l = "answered" -> "up"
                 [] OTHER          -> l

\* A request no longer waits for the service.
Ends(r) == awake' = awake \ {r} /\ waker' = waker \ {r}

\* What a task was waiting for has happened.
Wakes == awake' = awake \cup waker /\ waker' = {}

\* The effect of a poll on everything but the stash, the request and the tasks.
Polled(p) ==
    /\ conn' = p.conn
    /\ quota' = p.quota
    /\ link' = IF p.conn.n = conn.n
               THEN [n \in Conns |-> IF n = conn.n THEN Advanced(link[n]) ELSE link[n]]
               ELSE [link EXCEPT ![p.conn.n] = "dialing"]

\* SharedService::poll_ready, by any task that asks whether the client is
\* ready: the lock is released before anyone calls.  If it has to wait, the
\* dial or the sleep will wake that task, and no longer the one before.
PollReady ==
    /\ held
    /\ Polled(poll_ready)
    /\ stash' = poll_ready.stash
    /\ waker' = IF poll_ready.ready THEN waker ELSE {}
    /\ UNCHANGED <<eof, inbox, responses, asked, req, awake, held, panicked, counters>>

\* A request enters SharedService.
Submit(r) ==
    /\ held
    /\ req[r].state = "new"
    /\ req' = [req EXCEPT ![r].state = "waiting"]
    /\ awake' = awake \cup {r}
    /\ UNCHANGED <<conn, stash, quota, link, eof, inbox, responses, asked, waker,
                   held, panicked, counters>>

\* Its future takes the lock and polls: not ready yet.  It sleeps until it is
\* woken, or polled along with another future of its task.
PollWait(r) ==
    /\ held /\ req[r].state = "waiting"
    /\ ~poll_ready.ready
    /\ Polled(poll_ready)
    /\ stash' = poll_ready.stash
    /\ awake' = awake \ {r} /\ waker' = {r}
    /\ UNCHANGED <<eof, inbox, responses, asked, req, held, panicked, counters>>

\* Mutant: the error is returned but not taken.
call_keeps_error(r, c, e) ==
    LET sent == ~e /\ c.state = "connected"
    IN  /\ stash' = e
        /\ blamed' = IF e THEN blamed + 1 ELSE blamed
        /\ panicked' = (panicked \/ ~(e \/ sent))
        /\ req' = [req EXCEPT ![r] = IF sent THEN [state |-> "sent", n |-> c.n]
                                             ELSE [state |-> "err", n |-> 0]]
        /\ inbox' = IF sent THEN [inbox EXCEPT ![c.n] = Append(@, r)] ELSE inbox

\* Reconnect::call on a request, for a service in state c with an error e or
\* without: the error is returned whatever the state; else the request goes
\* to the actor; else it panics.  (If the actor dies between poll_ready and
\* call, send() fails, as if it had died right after.)
call(r, c, e) ==
    LET sent == ~e /\ c.state = "connected"
    IN  /\ stash' = FALSE
        /\ blamed' = IF e THEN blamed + 1 ELSE blamed
        /\ panicked' = (panicked \/ ~(e \/ sent))
        /\ req' = [req EXCEPT ![r] = IF sent THEN [state |-> "sent", n |-> c.n]
                                             ELSE [state |-> "err", n |-> 0]]
        /\ inbox' = IF sent THEN [inbox EXCEPT ![c.n] = Append(@, r)] ELSE inbox

\* Mutant: the future trusts the poll_ready of SharedService and calls
\* without polling again.
PollCall_unpolled(r) ==
    /\ held /\ req[r].state = "waiting"
    /\ conn.state # "connecting" /\ conn.n > 0
    /\ call(r, conn, stash)
    /\ Ends(r)
    /\ UNCHANGED <<conn, quota, link, eof, responses, asked, held, failures, refused>>

\* Its future takes the lock, polls and, as the service is ready, calls it
\* before it lets the lock go.
PollCall(r) ==
    /\ held /\ req[r].state = "waiting"
    /\ poll_ready.ready
    /\ Polled(poll_ready)
    /\ call(r, poll_ready.conn, poll_ready.stash)
    /\ Ends(r)
    /\ UNCHANGED <<eof, responses, asked, held, failures, refused>>

\* A Timeout layer drops the future: the one under SharedService once the
\* request is sent, the one around the pool at any time.  What the actor
\* holds of the request stays there.
Timeout(r) ==
    /\ req[r].state \in Pending
    /\ req' = [req EXCEPT ![r].state = "late"]
    /\ Ends(r)
    /\ UNCHANGED <<conn, stash, quota, link, eof, inbox, responses, asked, held,
                   panicked, counters>>

\* The period of the rate limiter is over.
Refill ==
    /\ held /\ ~quota
    /\ quota' = TRUE
    /\ IF conn.state = "idle" THEN Wakes ELSE UNCHANGED tasks
    /\ UNCHANGED <<conn, stash, link, eof, inbox, responses, asked, req, held,
                   panicked, counters>>

\* The socket is open; the server answers the handshake; or the dial fails, at
\* the latest when the handshake times out.
Accept(n) ==
    /\ held /\ link[n] = "dialing"
    /\ link' = [link EXCEPT ![n] = "accepted"]
    /\ Wakes
    /\ UNCHANGED <<conn, stash, quota, eof, inbox, responses, asked, req, held,
                   panicked, counters>>

Connect(n) ==
    /\ held /\ link[n] = "greeting"
    /\ link' = [link EXCEPT ![n] = "answered"]
    /\ Wakes
    /\ UNCHANGED <<conn, stash, quota, eof, inbox, responses, asked, req, held,
                   panicked, counters>>

Refuse(n) ==
    /\ held /\ link[n] \in {"dialing", "greeting"}
    /\ failures < MaxFailures
    /\ link' = [link EXCEPT ![n] = "refused"]
    /\ Wakes
    /\ failures' = failures + 1
    /\ refused' = refused + 1
    /\ UNCHANGED <<conn, stash, quota, eof, inbox, responses, asked, req, held,
                   panicked, blamed>>

\* The pool forgets the server.  Reconnect is dropped with the last future
\* that waits for its lock, and its connection with it.
Drop ==
    /\ held
    /\ \A r \in Requests : req[r].state # "waiting"
    /\ held' = FALSE
    /\ UNCHANGED <<conn, stash, quota, link, eof, inbox, responses, asked, req, tasks,
                   panicked, counters>>

-----------------------------------------------------------------------------
(* LiteServerClient and its actor. *)

\* Reconnect has the client of the connection, and so the channel to the actor.
Client(n) == held /\ conn.n = n /\ conn.state = "connected"

\* Mutant: the futures do not keep the guard.
Guarded_by_client(n) == Client(n)

\* Who holds the drop guard of a connection: Reconnect, which keeps the client,
\* and the future of each request that was sent.
Guarded(n) ==
    \/ Client(n)
    \/ \E r \in Requests : req[r] = [state |-> "sent", n |-> n]

\* The requests whose oneshot sender the actor owns.
Owed(n) == {inbox[n][i] : i \in DOMAIN inbox[n]} \cup responses[n]

\* Mutant: the requests still in the channel are not failed with the actor.
Ended_forgets_inbox(n) ==
    /\ link' = [link EXCEPT ![n] = "down"]
    /\ req' = [r \in Requests |->
                 IF r \in responses[n] /\ req[r] = [state |-> "sent", n |-> n]
                 THEN [state |-> "err", n |-> 0] ELSE req[r]]
    /\ inbox' = [inbox EXCEPT ![n] = <<>>]
    /\ responses' = [responses EXCEPT ![n] = {}]
    /\ asked' = [asked EXCEPT ![n] = {}]
    /\ UNCHANGED <<conn, stash, quota, eof, tasks, held, panicked, refused, blamed>>

\* The actor ends: the channel and the map are dropped, and with them the
\* senders, so each request still waiting gets OneshotClosed.
Ended(n) ==
    /\ link' = [link EXCEPT ![n] = "down"]
    /\ req' = [r \in Requests |->
                 IF r \in Owed(n) /\ req[r] = [state |-> "sent", n |-> n]
                 THEN [state |-> "err", n |-> 0] ELSE req[r]]
    /\ inbox' = [inbox EXCEPT ![n] = <<>>]
    /\ responses' = [responses EXCEPT ![n] = {}]
    /\ asked' = [asked EXCEPT ![n] = {}]
    /\ UNCHANGED <<conn, stash, quota, eof, tasks, held, panicked, refused, blamed>>

\* The actor takes a query from the channel, enters it in the map and sends
\* it; a closed socket may still swallow it.
Query(n) ==
    /\ link[n] = "up" /\ inbox[n] # <<>>
    /\ inbox' = [inbox EXCEPT ![n] = Tail(@)]
    /\ responses' = [responses EXCEPT ![n] = @ \cup {Head(inbox[n])}]
    /\ asked' = IF n \in eof THEN asked
                ELSE [asked EXCEPT ![n] = @ \cup {Head(inbox[n])}]
    /\ UNCHANGED <<conn, stash, quota, link, eof, req, tasks, held, panicked, counters>>

\* An answer arrives, in any order, perhaps a second one: the entry of the map
\* is removed and the request, if it still waits, is answered.
Answer(n, r) ==
    /\ link[n] = "up" /\ n \notin eof
    /\ r \in asked[n]
    /\ responses' = [responses EXCEPT ![n] = @ \ {r}]
    /\ req' = IF r \in responses[n] /\ req[r] = [state |-> "sent", n |-> n]
              THEN [req EXCEPT ![r].state = "ok"] ELSE req
    /\ UNCHANGED <<conn, stash, quota, link, eof, inbox, asked, tasks, held, panicked, counters>>

\* The server closes the connection: next() yields None, which only disables
\* that branch of the select.
Close(n) ==
    /\ link[n] = "up" /\ n \notin eof
    /\ failures < MaxFailures
    /\ eof' = eof \cup {n}
    /\ failures' = failures + 1
    /\ UNCHANGED <<conn, stash, quota, link, inbox, responses, asked, req, tasks, held,
                   panicked, refused, blamed>>

\* A packet cannot be read, or is no answer, or the connection breaks under a
\* send: the actor returns or panics.
ReadError(n) ==
    /\ link[n] = "up" /\ n \notin eof
    /\ failures < MaxFailures
    /\ failures' = failures + 1
    /\ Ended(n)

\* Mutant: only a query finds out that the connection was closed.
SendError_no_ping(n) ==
    /\ link[n] = "up" /\ n \in eof
    /\ inbox[n] # <<>>
    /\ UNCHANGED failures
    /\ Ended(n)

\* A query, or the ping of an actor without queries, cannot be sent over a
\* connection that was closed: the task panics.  Once the client is dropped the
\* stream of queries ends, and the pings with it.
SendError(n) ==
    /\ link[n] = "up" /\ n \in eof
    /\ inbox[n] # <<>> \/ Client(n)
    /\ UNCHANGED failures
    /\ Ended(n)

\* The last guard is dropped, the token is cancelled and the actor leaves its
\* loop.
Cancelled(n) ==
    /\ link[n] = "up" /\ ~Guarded(n)
    /\ UNCHANGED failures
    /\ Ended(n)

-----------------------------------------------------------------------------
Step(r) == Submit(r) \/ PollWait(r) \/ PollCall(r) \/ Timeout(r)

Socket(n) ==
    \/ Accept(n) \/ Connect(n) \/ Refuse(n)
    \/ Query(n) \/ (\E r \in Requests : Answer(n, r))
    \/ Close(n) \/ ReadError(n) \/ SendError(n) \/ Cancelled(n)

Next ==
    \/ \E r \in Requests : Step(r)
    \/ \E n \in Conns : Socket(n)
    \/ PollReady \/ Refill \/ Drop

Spec == Init /\ [][Next]_vars

\* A task that was woken polls its request; a dial goes on (the handshake has
\* a timeout of 5 s) and the limiter's sleep ends, and each wakes the last task
\* that polled it; the actor runs, and pings every 5 s when it is idle.
FairSpec ==
    /\ Spec
    /\ WF_vars(Refill)
    /\ \A r \in Requests : WF_vars(r \in awake /\ (PollWait(r) \/ PollCall(r)))
    /\ \A n \in Conns : /\ WF_vars(Accept(n) \/ Connect(n) \/ Refuse(n))
                        /\ WF_vars(SendError(n))

-----------------------------------------------------------------------------
(* Properties. *)

\* Reconnect::call never panics for want of a poll_ready (reconnect.rs:118),
\* though any task may poll the shared service, and take or leave an error in
\* it, between the poll of a request and its call.
NeverUnready == ~panicked

\* The error of a refused dial fails at most one request (error.take(),
\* reconnect.rs:112): there is never one blamed for a dial more than was refused.
BlamedOnce == blamed + (IF stash THEN 1 ELSE 0) <= refused

\* A request that waits for an answer waits for a living actor that owes it
\* one, in the channel or in the map: no future is left with a sender nobody
\* will use or drop.
NoneForgotten ==
    \A r \in Requests : req[r].state = "sent" =>
        /\ link[req[r].n] = "up"
        /\ r \in Owed(req[r].n)

\* A request fails only if a dial was refused or a connection was lost: that
\* the pool drops the client does not fail what is in flight, since each
\* future holds the guard of its connection (client.rs:190).
ErrorsHaveCause ==
    (\E r \in Requests : req[r].state = "err") => failures > 0

\* A request that waits for the shared service is called, on a connection or
\* with an error, even if no timeout ever fires, through any number of failed
\* and repeated dials, unless another task polls the service after it: the dial
\* and the limiter's sleep wake the last one that polled (shared.rs:123,
\* reconnect.rs:58 and 72), and no one wakes those that polled before.
Called ==
    \A r \in Requests : []<>~(req[r].state = "waiting" /\ r \in awake \cup waker)

\* When the server closes the connection, every request in flight on it is
\* resolved, even if no timeout ever fires: the actor, which ignores the end of
\* the stream, finds out when it next sends (client.rs:119).  Not so once the
\* pool has dropped the client: then only the timeout is left.
ClosedResolves ==
    \A r \in Requests, n \in Conns :
        (req[r] = [state |-> "sent", n |-> n] /\ n \in eof)
            ~> (req[r].state # "sent" \/ ~held)
=============================================================================
