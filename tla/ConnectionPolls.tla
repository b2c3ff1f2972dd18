-------------------------- MODULE ConnectionPolls ---------------------------
(***************************************************************************)
(* The inductive invariant of Connection, and that it holds initially and  *)
(* is kept by the polls and calls of the requests and by the steps of a    *)
(* dial.                                                                   *)
(***************************************************************************)
EXTENDS Connection, SequenceTheorems, TLAPS

\* A refused dial that Reconnect has not polled yet.
Unseen == IF conn.state = "connecting" /\ link[conn.n] = "refused" THEN 1 ELSE 0

Stashed == IF stash THEN 1 ELSE 0

\* Every refused dial is paid for at most once: by a request, by the stash or
\* by the next poll.
Blame == blamed + Stashed + Unseen <= refused

\* A connection exists once it is dialled, and the dials are numbered.
Dials == /\ conn.state # "idle" => conn.n >= 1
         /\ \A m \in Conns : m > conn.n => link[m] = "none"

\* A request is sent over a connection.
Sent == \A r \in Requests : req[r].state = "sent" => req[r].n \in Conns

\* A connection that was closed is a failure.
Closed == eof # {} => failures > 0

CInv == /\ TypeOK /\ Blame /\ Dials /\ Sent /\ Closed
        /\ NeverUnready /\ NoneForgotten /\ ErrorsHaveCause

ConnType == [state : {"idle", "connecting", "connected"}, n : 0..MaxFailures + 1]

\* What a dial that is under way has come to.
Dialled == {"dialing", "accepted", "greeting"}

LinkType == {"none", "dialing", "accepted", "greeting", "answered", "refused", "up", "down"}

ReqType == [state : {"new", "waiting", "sent", "ok", "err", "late"}, n : 0..MaxFailures + 1]

-----------------------------------------------------------------------------
\* What poll_ready returns: it keeps the connection, or dials the next one;
\* and when it reports readiness there is an error or a living connection.
LEMMA PollFacts ==
    ASSUME TypeOK, Dials
    PROVE  LET p == poll_ready IN
           /\ p.conn \in ConnType /\ p.stash \in BOOLEAN /\ p.quota \in BOOLEAN
           /\ p.ready \in BOOLEAN
           /\ p.conn.state # "idle" => p.conn.n >= 1
           /\ p.conn.n # conn.n => p.conn.n = conn.n + 1 /\ conn.n + 1 \in Conns
           /\ p.conn.n = conn.n /\ p.conn.state = "connecting" => link[conn.n] \in Dialled
           /\ p.ready => p.conn.n = conn.n
           /\ p.ready /\ ~p.stash =>
                /\ p.conn.state = "connected" /\ p.conn.n = conn.n
                /\ conn.n \in Conns /\ link[conn.n] \in {"answered", "up"}
  <1> DEFINE p == poll_ready
  <1>0. /\ conn \in ConnType /\ stash \in BOOLEAN /\ quota \in BOOLEAN
        /\ MaxFailures \in Nat /\ conn.n \in Nat
        /\ conn.state # "idle" => conn.n \in Conns
    BY ConnectionAssumption DEF TypeOK, ConnType, Dials, Conns
  <1>1. CASE conn.state = "connecting" /\ link[conn.n] \in Dialled
    <2>1. p = [conn |-> [state |-> "connecting", n |-> conn.n], stash |-> stash,
               quota |-> quota, ready |-> FALSE]
      BY <1>1 DEF poll_ready, Outcome, Dialled
    <2>2. QED BY <1>0, <1>1, <2>1 DEF ConnType, Conns
  <1>2. CASE conn.state = "connecting" /\ link[conn.n] = "refused"
    <2>1. p = [conn |-> [state |-> "idle", n |-> conn.n], stash |-> TRUE,
               quota |-> quota, ready |-> TRUE]
      BY <1>2 DEF poll_ready, Outcome
    <2>2. QED BY <1>0, <1>2, <2>1 DEF ConnType, Conns
  <1>3. CASE conn.state # "idle" /\ link[conn.n] \in {"answered", "up"}
    <2>1. p = [conn |-> [state |-> "connected", n |-> conn.n], stash |-> stash,
               quota |-> quota, ready |-> TRUE]
      BY <1>3 DEF poll_ready, Outcome
    <2>2. QED BY <1>0, <1>3, <2>1 DEF ConnType, Conns
  <1>4. CASE ~(\/ conn.state = "connecting" /\ link[conn.n] \in Dialled
               \/ conn.state = "connecting" /\ link[conn.n] = "refused"
               \/ conn.state # "idle" /\ link[conn.n] \in {"answered", "up"})
    <2>1. p = IF quota /\ conn.n <= MaxFailures
              THEN [conn |-> [state |-> "connecting", n |-> conn.n + 1], stash |-> stash,
                    quota |-> FALSE, ready |-> FALSE]
              ELSE [conn |-> [state |-> "idle", n |-> conn.n], stash |-> stash,
                    quota |-> quota, ready |-> FALSE]
      BY <1>4 DEF poll_ready, Outcome, Dialled
    <2>2. CASE quota /\ conn.n <= MaxFailures
      <3>1. p = [conn |-> [state |-> "connecting", n |-> conn.n + 1], stash |-> stash,
                 quota |-> FALSE, ready |-> FALSE]
        BY <2>1, <2>2
      <3>2. conn.n + 1 \in Conns
        BY <1>0, <2>2 DEF Conns
      <3>3. QED BY <1>0, <3>1, <3>2 DEF ConnType, Conns
    <2>3. CASE ~(quota /\ conn.n <= MaxFailures)
      <3>1. p = [conn |-> [state |-> "idle", n |-> conn.n], stash |-> stash,
                 quota |-> quota, ready |-> FALSE]
        BY <2>1, <2>3
      <3>2. QED BY <1>0, <3>1 DEF ConnType
    <2>4. QED BY <2>2, <2>3
  <1>5. QED BY <1>1, <1>2, <1>3, <1>4

\* An error that a poll finds in the service was there before, or is that of a
\* dial it finds refused.
LEMMA PollStash ==
    poll_ready.stash => stash \/ (conn.state = "connecting" /\ link[conn.n] = "refused")
  <1> SUFFICES ASSUME poll_ready.stash,
                      ~(conn.state = "connecting" /\ link[conn.n] = "refused")
               PROVE  stash
    OBVIOUS
  <1>1. poll_ready.stash = stash
    BY Zenon DEF poll_ready, Outcome
  <1>2. QED BY <1>1, Zenon

\* After a poll the dials are still numbered, no connection is lost, and no
\* refused dial is left unseen.
LEMMA PolledFacts ==
    ASSUME TypeOK, Dials, Polled(poll_ready)
    PROVE  /\ conn' \in ConnType /\ quota' \in BOOLEAN
           /\ link' \in [Conns -> LinkType]
           /\ Dials'
           /\ \A m \in Conns : link[m] = "up" => link'[m] = "up"
           /\ poll_ready.conn.n = conn.n /\ conn.n \in Conns
                /\ link[conn.n] \in {"answered", "up"} => link'[conn.n] = "up"
           /\ Unseen' = 0
  <1> DEFINE p == poll_ready
  <1>0. /\ conn' = p.conn /\ quota' = p.quota
        /\ link' = IF p.conn.n = conn.n
                   THEN [m \in Conns |-> IF m = conn.n THEN Advanced(link[m]) ELSE link[m]]
                   ELSE [link EXCEPT ![p.conn.n] = "dialing"]
    BY DEF Polled
  <1>1. /\ p.conn \in ConnType /\ p.quota \in BOOLEAN
        /\ p.conn.state # "idle" => p.conn.n >= 1
        /\ p.conn.n # conn.n => p.conn.n = conn.n + 1 /\ conn.n + 1 \in Conns
        /\ p.conn.n = conn.n /\ p.conn.state = "connecting" => link[conn.n] \in Dialled
    BY PollFacts
  <1> HIDE DEF p
  <1>2. /\ link \in [Conns -> LinkType]
        /\ \A m \in Conns : m > conn.n => link[m] = "none"
        /\ conn.n \in Nat /\ Conns \subseteq Nat
    BY ConnectionAssumption DEF TypeOK, LinkType, Dials, Conns
  <1>3. CASE p.conn.n = conn.n
    <2>1. \A l \in LinkType : /\ Advanced(l) \in LinkType
                              /\ l \in {"answered", "up"} => Advanced(l) = "up"
                              /\ l \in Dialled => Advanced(l) # "refused"
      BY DEF LinkType, Dialled, Advanced
    <2>2. link' = [m \in Conns |-> IF m = conn.n THEN Advanced(link[m]) ELSE link[m]]
      BY <1>0, <1>3
    <2>3. /\ link' \in [Conns -> LinkType]
          /\ \A m \in Conns : /\ m # conn.n => link'[m] = link[m]
                              /\ link[m] = "up" => link'[m] = "up"
          /\ conn.n \in Conns /\ link[conn.n] \in {"answered", "up"}
               => link'[conn.n] = "up"
          /\ conn.n \in Conns /\ link[conn.n] \in Dialled => link'[conn.n] # "refused"
      BY <1>2, <2>1, <2>2
    <2>4. Dials'
      BY <1>0, <1>1, <1>2, <1>3, <2>3 DEF Dials
    <2>5. Unseen' = 0
      <3>1. p.conn.state = "connecting" => conn.n \in Conns
        BY <1>1, <1>2, <1>3, ConnectionAssumption DEF ConnType, Conns
      <3>2. QED BY <1>0, <1>1, <1>3, <2>3, <3>1 DEF Unseen
    <2>6. QED BY <1>0, <1>1, <1>3, <2>3, <2>4, <2>5 DEF p
  <1>4. CASE p.conn.n # conn.n
    <2>1. link' = [link EXCEPT ![conn.n + 1] = "dialing"] /\ conn.n + 1 \in Conns
          /\ conn'.n = conn.n + 1
      BY <1>0, <1>1, <1>4, Zenon
    <2>2. /\ link' \in [Conns -> LinkType]
          /\ \A m \in Conns : link[m] = "up" => link'[m] = "up"
      BY <1>2, <2>1 DEF LinkType
    <2>3. Dials' /\ Unseen' = 0
      BY <1>0, <1>1, <1>2, <2>1 DEF Dials, Unseen
    <2>4. QED BY <1>0, <1>1, <1>4, <2>2, <2>3 DEF p
  <1>5. QED BY <1>3, <1>4

\* Requests whose connection stays up, and is still theirs, are not forgotten.
LEMMA Kept ==
    ASSUME NoneForgotten, Sent, req' = req, inbox' = inbox, responses' = responses,
           \A m \in Conns : link[m] = "up" => link'[m] = "up"
    PROVE  NoneForgotten'
  BY DEF NoneForgotten, Sent, Owed

\* The initial state.
LEMMA InitCInv == Init => CInv
  <1> SUFFICES ASSUME Init PROVE CInv
    OBVIOUS
  <1>1. TypeOK
    <2>1. <<>> \in Seq(Requests)
      BY EmptySeq
    <2>2. inbox \in [Conns -> Seq(Requests)]
      BY <2>1 DEF Init
    <2>3. /\ conn \in ConnType
          /\ failures \in 0..MaxFailures /\ refused \in 0..failures
          /\ blamed \in 0..MaxFailures
      BY ConnectionAssumption DEF Init, ConnType
    <2>4. req \in [Requests -> ReqType]
      <3>1. [state |-> "new", n |-> 0] \in ReqType
        BY ConnectionAssumption DEF ReqType
      <3>2. QED BY <3>1 DEF Init
    <2>5. /\ stash \in BOOLEAN /\ quota \in BOOLEAN /\ held \in BOOLEAN
          /\ panicked \in BOOLEAN
          /\ link \in [Conns -> LinkType]
          /\ awake \subseteq Requests /\ waker \subseteq Requests
          /\ eof \subseteq Conns
          /\ responses \in [Conns -> SUBSET Requests]
          /\ asked \in [Conns -> SUBSET Requests]
      BY Zenon DEF Init, LinkType
    <2>6. QED BY <2>2, <2>3, <2>4, <2>5 DEF TypeOK, ConnType, LinkType, ReqType
  <1>2. Blame /\ Dials /\ Sent /\ Closed
    BY DEF Init, Blame, Stashed, Unseen, Dials, Sent, Closed
  <1>3. NeverUnready /\ NoneForgotten /\ ErrorsHaveCause
    BY DEF Init, NeverUnready, NoneForgotten, ErrorsHaveCause
  <1>4. QED BY <1>1, <1>2, <1>3 DEF CInv

\* A poll that calls nothing.
LEMMA PollInv ==
    ASSUME CInv, PollReady \/ \E r \in Requests : PollWait(r)
    PROVE  CInv'
  <1>0. /\ TypeOK /\ Blame /\ Dials /\ Sent /\ Closed
        /\ NeverUnready /\ NoneForgotten /\ ErrorsHaveCause
    BY DEF CInv
  <1>1. /\ Polled(poll_ready) /\ stash' = poll_ready.stash
        /\ eof' = eof /\ inbox' = inbox /\ responses' = responses /\ asked' = asked
        /\ req' = req /\ held' = held /\ panicked' = panicked
        /\ failures' = failures /\ refused' = refused /\ blamed' = blamed
        /\ awake' \subseteq Requests /\ waker' \subseteq Requests
    BY <1>0 DEF PollReady, PollWait, counters, TypeOK
  <1>2. /\ conn' \in ConnType /\ quota' \in BOOLEAN
        /\ link' \in [Conns -> LinkType]
        /\ Dials'
        /\ \A m \in Conns : link[m] = "up" => link'[m] = "up"
        /\ Unseen' = 0
    BY <1>0, <1>1, PolledFacts
  <1>3. stash' \in BOOLEAN /\ Stashed' <= Stashed + Unseen
    <2>1. stash' \in BOOLEAN
      BY <1>0, <1>1, PollFacts
    <2>2. stash' => stash \/ (conn.state = "connecting" /\ link[conn.n] = "refused")
      <3>1. stash' = poll_ready.stash
        BY <1>1
      <3>2. QED BY <3>1, PollStash, Zenon
    <2>3. CASE ~stash'
      BY <2>1, <2>3 DEF Unseen, Stashed
    <2>4. CASE stash
      BY <2>1, <2>4 DEF Unseen, Stashed
    <2>5. CASE conn.state = "connecting" /\ link[conn.n] = "refused"
      BY <2>1, <2>5 DEF Unseen, Stashed
    <2>6. QED BY <2>1, <2>2, <2>3, <2>4, <2>5
  <1>4. TypeOK'
    BY <1>0, <1>1, <1>2, <1>3 DEF TypeOK, ConnType, LinkType
  <1>5. Blame'
    <2>1. Stashed' \in Nat
      BY DEF Stashed
    <2>2. Stashed \in Nat /\ Unseen \in Nat /\ blamed \in Nat /\ refused \in Nat
      BY <1>0, ConnectionAssumption DEF Stashed, Unseen, TypeOK
    <2>3. blamed + Stashed + Unseen <= refused
      BY <1>0 DEF Blame
    <2>4. blamed + Stashed' + 0 <= refused
      <3>1. Stashed' <= Stashed + Unseen
        BY <1>3
      <3>2. \A b, s, u, t, k \in Nat : b + s + u <= k /\ t <= s + u => b + t + 0 <= k
        OBVIOUS
      <3>3. QED BY <2>1, <2>2, <2>3, <3>1, <3>2, Zenon
    <2>5. QED BY <1>1, <1>2, <2>4 DEF Blame
  <1>6. Sent' /\ Closed' /\ NeverUnready' /\ ErrorsHaveCause'
    BY <1>0, <1>1 DEF Sent, Closed, NeverUnready, ErrorsHaveCause
  <1>7. NoneForgotten'
    BY <1>0, <1>1, <1>2, Kept
  <1>8. QED BY <1>2, <1>4, <1>5, <1>6, <1>7 DEF CInv
\* A poll that calls the service: with the error, if there is one, or over
\* the living connection.
LEMMA CallInv ==
    ASSUME CInv, NEW r \in Requests, PollCall(r)
    PROVE  CInv'
  <1> DEFINE c == poll_ready.conn
             e == poll_ready.stash
             sent == ~e /\ c.state = "connected"
  <1>0. /\ TypeOK /\ Blame /\ Dials /\ Sent /\ Closed
        /\ NeverUnready /\ NoneForgotten /\ ErrorsHaveCause
    BY DEF CInv
  <1>1. /\ Polled(poll_ready) /\ poll_ready.ready
        /\ eof' = eof /\ responses' = responses /\ asked' = asked /\ held' = held
        /\ failures' = failures /\ refused' = refused
        /\ stash' = FALSE
        /\ blamed' = IF e THEN blamed + 1 ELSE blamed
        /\ panicked' = (panicked \/ ~(e \/ sent))
        /\ req' = [req EXCEPT ![r] = IF sent THEN [state |-> "sent", n |-> c.n]
                                             ELSE [state |-> "err", n |-> 0]]
        /\ inbox' = IF sent THEN [inbox EXCEPT ![c.n] = Append(@, r)] ELSE inbox
        /\ awake' = awake \ {r} /\ waker' = waker \ {r}
    BY DEF PollCall, call, Ends
  <1>t. awake' \subseteq Requests /\ waker' \subseteq Requests
    BY <1>0, <1>1 DEF TypeOK
  <1>2. /\ conn' \in ConnType /\ quota' \in BOOLEAN
        /\ link' \in [Conns -> LinkType]
        /\ Dials'
        /\ \A m \in Conns : link[m] = "up" => link'[m] = "up"
        /\ Unseen' = 0
    BY <1>0, <1>1, PolledFacts
  <1>3. /\ e => stash \/ (conn.state = "connecting" /\ link[conn.n] = "refused")
        /\ ~e => c.state = "connected" /\ c.n \in Conns /\ link'[c.n] = "up"
    <2>1. e => stash \/ (conn.state = "connecting" /\ link[conn.n] = "refused")
      BY PollStash, Zenon
    <2>2. ~e => c.state = "connected" /\ c.n \in Conns /\ link'[c.n] = "up"
      BY <1>0, <1>1, PollFacts, PolledFacts
    <2>3. QED BY <2>1, <2>2
  <1>4. /\ MaxFailures \in Nat /\ blamed \in Nat /\ refused \in Nat /\ failures \in Nat
        /\ refused <= failures /\ failures <= MaxFailures
        /\ Stashed \in {0, 1} /\ Unseen \in {0, 1}
        /\ inbox \in [Conns -> Seq(Requests)] /\ req \in [Requests -> ReqType]
    BY <1>0, ConnectionAssumption DEF TypeOK, Stashed, Unseen, ReqType
  <1> HIDE DEF c, e
  <1>5. CASE e
    <2>1. /\ blamed' = blamed + 1 /\ panicked' = FALSE /\ inbox' = inbox
          /\ req' = [req EXCEPT ![r] = [state |-> "err", n |-> 0]]
      <3>1. ~sent
        BY <1>5
      <3>2. panicked' = FALSE
        BY <1>0, <1>1, <1>5, Zenon DEF NeverUnready
      <3>3. blamed' = blamed + 1
        BY <1>1, <1>5, Zenon
      <3>4. inbox' = inbox /\ req' = [req EXCEPT ![r] = [state |-> "err", n |-> 0]]
        BY <1>1, <3>1, Zenon
      <3>5. QED BY <3>2, <3>3, <3>4
    <2>2. Stashed + Unseen >= 1
      <3>1. CASE stash
        BY <3>1, <1>4 DEF Stashed
      <3>2. CASE conn.state = "connecting" /\ link[conn.n] = "refused"
        BY <3>2, <1>4 DEF Unseen
      <3>3. QED BY <1>3, <1>5, <3>1, <3>2
    <2>3. blamed + 1 <= refused
      BY <1>0, <1>4, <2>2 DEF Blame
    <2>4. Blame'
      <3>1. Stashed' = 0
        BY <1>1 DEF Stashed
      <3>2. QED BY <1>1, <1>2, <1>4, <2>1, <2>3, <3>1 DEF Blame
    <2>5. req' \in [Requests -> ReqType]
      BY <1>4, <2>1 DEF ReqType
    <2>6. TypeOK'
      <3>1. blamed' \in 0..MaxFailures
        BY <1>4, <2>1, <2>3
      <3>2. QED BY <1>0, <1>1, <1>t, <1>2, <2>1, <2>5, <3>1, Zenon DEF TypeOK, ConnType, LinkType,
               ReqType
    <2>7. Sent' /\ Closed' /\ NeverUnready'
      BY <1>0, <1>1, <1>4, <2>1 DEF Sent, Closed, NeverUnready
    <2>8. ErrorsHaveCause'
      BY <1>1, <1>4, <2>3 DEF ErrorsHaveCause
    <2>9. NoneForgotten'
      <3>1. SUFFICES ASSUME NEW q \in Requests, req'[q].state = "sent"
                     PROVE  (link[req[q].n] = "up" /\ q \in Owed(req[q].n))'
        BY DEF NoneForgotten
      <3>2. req'[q] = req[q]
        BY <1>4, <2>1, <3>1
      <3>3. req[q].n \in Conns /\ link[req[q].n] = "up" /\ q \in Owed(req[q].n)
        BY <1>0, <3>1, <3>2, Zenon DEF NoneForgotten, Sent
      <3>4. Owed(req[q].n)' = Owed(req[q].n)
        BY <1>1, <2>1, <3>2 DEF Owed
      <3>5. QED BY <1>2, <3>2, <3>3, <3>4, Zenon
    <2>10. QED BY <1>2, <2>4, <2>6, <2>7, <2>8, <2>9 DEF CInv
  <1>6. CASE ~e
    <2>0. PICK n \in Conns : n = c.n /\ c.state = "connected" /\ link'[n] = "up"
      BY <1>3, <1>6
    <2>1. /\ blamed' = blamed /\ panicked' = FALSE
          /\ inbox' = [inbox EXCEPT ![n] = Append(@, r)]
          /\ req' = [req EXCEPT ![r] = [state |-> "sent", n |-> n]]
      <3>1. sent
        BY <1>6, <2>0
      <3>2. panicked' = FALSE
        BY <1>0, <1>1, <3>1, Zenon DEF NeverUnready
      <3>3. blamed' = blamed
        BY <1>1, <1>6, Zenon
      <3>4. /\ inbox' = [inbox EXCEPT ![n] = Append(@, r)]
            /\ req' = [req EXCEPT ![r] = [state |-> "sent", n |-> n]]
        BY <1>1, <2>0, <3>1, Zenon
      <3>5. QED BY <3>2, <3>3, <3>4
    <2>2. link'[n] = "up"
      BY <1>2, <2>0
    <2>3. Blame'
      <3>1. Stashed' = 0
        BY <1>1 DEF Stashed
      <3>2. QED BY <1>0, <1>1, <1>2, <1>4, <2>1, <3>1 DEF Blame
    <2>4. req' \in [Requests -> ReqType]
      BY <1>4, <2>1, <2>2 DEF ReqType, Conns
    <2>5. inbox' \in [Conns -> Seq(Requests)]
      <3>1. Append(inbox[n], r) \in Seq(Requests)
        BY <1>4, <2>2, AppendProperties
      <3>2. QED BY <1>4, <2>1, <3>1
    <2>6. TypeOK'
      <3>1. /\ eof' \subseteq Conns /\ failures' \in 0..MaxFailures
            /\ refused' \in 0..failures' /\ blamed' \in 0..MaxFailures
            /\ responses' \in [Conns -> SUBSET Requests]
            /\ asked' \in [Conns -> SUBSET Requests]
        BY <1>0, <1>1, <2>1, Zenon DEF TypeOK
      <3>2. stash' \in BOOLEAN /\ held' \in BOOLEAN /\ panicked' \in BOOLEAN
        BY <1>0, <1>1, <2>1, Zenon DEF TypeOK
      <3>3. QED BY <1>t, <1>2, <2>4, <2>5, <3>1, <3>2, Zenon DEF TypeOK, ConnType, LinkType,
               ReqType
    <2>7. Sent' /\ Closed' /\ NeverUnready'
      BY <1>0, <1>1, <1>4, <2>1, <2>2 DEF Sent, Closed, NeverUnready
    <2>8. ErrorsHaveCause'
      BY <1>0, <1>1, <1>4, <2>1 DEF ErrorsHaveCause
    <2>9. \A m \in Conns : Owed(m) \subseteq Owed(m)'
      <3> SUFFICES ASSUME NEW m \in Conns PROVE Owed(m) \subseteq Owed(m)'
        OBVIOUS
      <3>1. CASE m = n
        <4>1. inbox'[m] = Append(inbox[m], r) /\ inbox[m] \in Seq(Requests)
          BY <1>4, <2>1, <3>1
        <4>2. \A i \in DOMAIN inbox[m] : i \in DOMAIN inbox'[m] /\ inbox'[m][i] = inbox[m][i]
          BY <4>1, AppendProperties
        <4>3. QED BY <1>1, <4>2 DEF Owed
      <3>2. CASE m # n
        <4>1. inbox'[m] = inbox[m]
          BY <1>4, <2>1, <2>2, <3>2
        <4>2. QED BY <1>1, <4>1 DEF Owed
      <3>3. QED BY <3>1, <3>2
    <2>10. r \in Owed(n)'
      <3>1. inbox'[n] = Append(inbox[n], r) /\ inbox[n] \in Seq(Requests)
        BY <1>4, <2>1, <2>2
      <3>2. /\ Len(inbox[n]) + 1 \in DOMAIN inbox'[n]
            /\ inbox'[n][Len(inbox[n]) + 1] = r
        BY <3>1, AppendProperties
      <3>3. QED BY <3>2 DEF Owed
    <2>11. NoneForgotten'
      <3> SUFFICES ASSUME NEW q \in Requests, req'[q].state = "sent"
                   PROVE  (link[req[q].n] = "up" /\ q \in Owed(req[q].n))'
        BY DEF NoneForgotten
      <3>1. CASE q = r
        <4>1. req'[q].n = n
          BY <1>4, <2>1, <3>1
        <4>2. QED BY <2>2, <2>10, <3>1, <4>1 DEF Owed
      <3>2. CASE q # r
        <4>1. req'[q] = req[q]
          BY <1>4, <2>1, <3>2
        <4>2. req[q].n \in Conns /\ link[req[q].n] = "up" /\ q \in Owed(req[q].n)
          BY <1>0, <4>1 DEF NoneForgotten, Sent
        <4>3. PICK m \in Conns : m = req[q].n
          BY <4>2
        <4>4. link'[m] = "up" /\ q \in Owed(m)'
          BY <1>2, <2>9, <4>2, <4>3
        <4>5. QED BY <4>1, <4>3, <4>4 DEF Owed
      <3>3. QED BY <3>1, <3>2
    <2>12. QED BY <1>2, <2>3, <2>6, <2>7, <2>8, <2>11 DEF CInv
  <1>7. QED BY <1>5, <1>6
\* Steps that touch no connection: a request enters, a timeout drops it, the
\* limiter is refilled, the pool drops the client.
LEMMA QuietInv ==
    ASSUME CInv, Refill \/ Drop \/ \E r \in Requests : Submit(r) \/ Timeout(r)
    PROVE  CInv'
  <1>0. /\ TypeOK /\ Blame /\ Dials /\ Sent /\ Closed
        /\ NeverUnready /\ NoneForgotten /\ ErrorsHaveCause
    BY DEF CInv
  <1>1. /\ conn' = conn /\ stash' = stash /\ link' = link /\ eof' = eof
        /\ inbox' = inbox /\ responses' = responses /\ asked' = asked
        /\ panicked' = panicked /\ failures' = failures /\ refused' = refused
        /\ blamed' = blamed /\ quota' \in BOOLEAN /\ held' \in BOOLEAN
    BY <1>0, Zenon DEF Refill, Drop, Submit, Timeout, counters, TypeOK
  <1>t. awake' \subseteq Requests /\ waker' \subseteq Requests
    BY <1>0 DEF Refill, Drop, Submit, Timeout, Ends, Wakes, tasks, TypeOK
  <1>2. /\ req' \in [Requests -> ReqType]
        /\ \A q \in Requests : \/ req'[q] = req[q]
                               \/ req'[q].state \in {"waiting", "late"}
    <2>1. req \in [Requests -> ReqType]
      BY <1>0 DEF TypeOK, ReqType
    <2>2. CASE Refill \/ Drop
      BY <2>1, <2>2 DEF Refill, Drop
    <2>3. ASSUME NEW r \in Requests, Submit(r) \/ Timeout(r)
          PROVE  /\ req' \in [Requests -> ReqType]
                 /\ \A q \in Requests : \/ req'[q] = req[q]
                                        \/ req'[q].state \in {"waiting", "late"}
      <3>1. PICK s \in {"waiting", "late"} : req' = [req EXCEPT ![r].state = s]
        BY <2>3 DEF Submit, Timeout
      <3>2. [req[r] EXCEPT !.state = s] \in ReqType
        BY <2>1 DEF ReqType
      <3>3. req' = [req EXCEPT ![r] = [req[r] EXCEPT !.state = s]]
        BY <3>1
      <3>4. [req[r] EXCEPT !.state = s].state = s
        BY <2>1 DEF ReqType
      <3>5. QED BY <2>1, <3>2, <3>3, <3>4
    <2>4. QED BY <2>2, <2>3
  <1>3. TypeOK'
    BY <1>0, <1>1, <1>t, <1>2 DEF TypeOK, ReqType
  <1>4. Blame' /\ Dials' /\ Closed' /\ NeverUnready'
    BY <1>0, <1>1 DEF Blame, Stashed, Unseen, Dials, Closed, NeverUnready
  <1>5. Sent' /\ ErrorsHaveCause'
    BY <1>0, <1>1, <1>2 DEF Sent, ErrorsHaveCause
  <1>6. NoneForgotten'
    BY <1>0, <1>1, <1>2 DEF NoneForgotten, Owed
  <1>7. QED BY <1>3, <1>4, <1>5, <1>6 DEF CInv

\* A dial goes on, or fails.
LEMMA DialInv ==
    ASSUME CInv, NEW n \in Conns, Accept(n) \/ Connect(n) \/ Refuse(n)
    PROVE  CInv'
  <1>0. /\ TypeOK /\ Blame /\ Dials /\ Sent /\ Closed
        /\ NeverUnready /\ NoneForgotten /\ ErrorsHaveCause
    BY DEF CInv
  <1>1. /\ conn' = conn /\ stash' = stash /\ quota' = quota /\ eof' = eof
        /\ inbox' = inbox /\ responses' = responses /\ asked' = asked /\ req' = req
        /\ held' = held /\ panicked' = panicked /\ blamed' = blamed
        /\ link[n] \in Dialled
        /\ awake' = awake \cup waker /\ waker' = {}
    BY DEF Accept, Connect, Refuse, Wakes, counters, Dialled
  <1>2. \/ /\ \E l \in {"accepted", "answered"} : link' = [link EXCEPT ![n] = l]
           /\ failures' = failures /\ refused' = refused
        \/ /\ link' = [link EXCEPT ![n] = "refused"] /\ failures < MaxFailures
           /\ failures' = failures + 1 /\ refused' = refused + 1
    BY DEF Accept, Connect, Refuse, counters
  <1>3. /\ link \in [Conns -> LinkType]
        /\ MaxFailures \in Nat /\ failures \in Nat /\ refused \in Nat /\ blamed \in Nat
        /\ refused <= failures /\ failures <= MaxFailures
    BY <1>0, ConnectionAssumption DEF TypeOK, LinkType
  <1>4. /\ link' \in [Conns -> LinkType]
        /\ failures' \in 0..MaxFailures /\ refused' \in 0..failures'
    BY <1>2, <1>3 DEF LinkType
  <1>5. TypeOK'
    <2>1. awake' \subseteq Requests /\ waker' \subseteq Requests
      BY <1>0, <1>1 DEF TypeOK
    <2>2. QED BY <1>0, <1>1, <1>4, <2>1 DEF TypeOK, LinkType
  <1>6. Dials'
    BY <1>0, <1>1, <1>2, <1>3 DEF Dials, Dialled
  <1>7. Blame'
    <2>1. Stashed' = Stashed /\ Stashed \in Nat
      BY <1>1 DEF Stashed
    <2>2. Unseen \in {0, 1} /\ Unseen' \in {0, 1}
      BY DEF Unseen
    <2>0. /\ blamed \in Nat /\ Stashed \in Nat /\ Unseen \in Nat /\ Unseen' \in Nat
          /\ refused \in Nat /\ Unseen' <= 1
      BY <1>3, <2>1, <2>2
    <2>3. blamed + Stashed + Unseen <= refused
      BY <1>0 DEF Blame
    <2>4. \A b, s, u, v, k \in Nat :
            b + s + u <= k => (v <= u => b + s + v <= k) /\ (v <= 1 => b + s + v <= k + 1)
      OBVIOUS
    <2>5. CASE /\ \E l \in {"accepted", "answered"} : link' = [link EXCEPT ![n] = l]
               /\ refused' = refused
      <3>1. Unseen' <= Unseen
        <4>1. Unseen' = 1 => conn.state = "connecting" /\ link'[conn.n] = "refused"
          BY <1>1 DEF Unseen
        <4>2. link'[conn.n] = "refused" => link[conn.n] = "refused"
          BY <1>3, <2>5
        <4>3. Unseen' = 1 => Unseen = 1
          BY <4>1, <4>2 DEF Unseen
        <4>4. QED BY <2>2, <4>3
      <3>2. blamed + Stashed + Unseen' <= refused
        BY <2>0, <2>3, <2>4, <3>1, Zenon
      <3>3. QED BY <1>1, <2>1, <2>5, <3>2 DEF Blame
    <2>6. CASE refused' = refused + 1
      <3>1. blamed + Stashed + Unseen' <= refused + 1
        BY <2>0, <2>3, <2>4, Zenon
      <3>2. QED BY <1>1, <2>1, <2>6, <3>1 DEF Blame
    <2>7. QED BY <1>2, <2>5, <2>6
  <1>8. Sent' /\ Closed' /\ NeverUnready' /\ ErrorsHaveCause'
    BY <1>0, <1>1, <1>2, <1>3 DEF Sent, Closed, NeverUnready, ErrorsHaveCause
  <1>9. NoneForgotten'
    <2>1. \A m \in Conns : link[m] = "up" => link'[m] = "up"
      BY <1>1, <1>2, <1>3 DEF Dialled
    <2>2. QED BY <1>0, <1>1, <2>1, Kept
  <1>10. QED BY <1>5, <1>6, <1>7, <1>8, <1>9 DEF CInv
=============================================================================
