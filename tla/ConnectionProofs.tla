-------------------------- MODULE ConnectionProofs --------------------------
(***************************************************************************)
(* Proofs about Connection: the actors of its connections keep the         *)
(* invariant too, from which follow the type invariant and the safety      *)
(* properties.                                                             *)
(***************************************************************************)
EXTENDS ConnectionPolls

\* The actor moves a query from the channel to the map.
LEMMA QueryInv ==
    ASSUME CInv, NEW n \in Conns, Query(n)
    PROVE  CInv'
  <1>0. /\ TypeOK /\ Blame /\ Dials /\ Sent /\ Closed
        /\ NeverUnready /\ NoneForgotten /\ ErrorsHaveCause
    BY DEF CInv
  <1> DEFINE h == Head(inbox[n])
  <1>1. /\ conn' = conn /\ stash' = stash /\ quota' = quota /\ link' = link /\ eof' = eof
        /\ req' = req /\ held' = held /\ panicked' = panicked
        /\ failures' = failures /\ refused' = refused /\ blamed' = blamed
        /\ inbox' = [inbox EXCEPT ![n] = Tail(@)]
        /\ responses' = [responses EXCEPT ![n] = @ \cup {h}]
        /\ asked' = asked \/ asked' = [asked EXCEPT ![n] = @ \cup {h}]
        /\ inbox[n] # <<>>
        /\ awake' = awake /\ waker' = waker
    BY DEF Query, counters, tasks
  <1>2. /\ inbox \in [Conns -> Seq(Requests)]
        /\ responses \in [Conns -> SUBSET Requests] /\ asked \in [Conns -> SUBSET Requests]
    BY <1>0 DEF TypeOK
  <1>3. /\ h \in Requests /\ Tail(inbox[n]) \in Seq(Requests)
        /\ h = inbox[n][1]
        /\ Len(Tail(inbox[n])) = Len(inbox[n]) - 1 /\ Len(inbox[n]) \in Nat
        /\ \A i \in 1..Len(Tail(inbox[n])) : Tail(inbox[n])[i] = inbox[n][i + 1]
    BY <1>1, <1>2, HeadTailProperties
  <1>4. TypeOK'
    <2>1. inbox' \in [Conns -> Seq(Requests)]
      BY <1>1, <1>2, <1>3
    <2>2. responses' \in [Conns -> SUBSET Requests] /\ asked' \in [Conns -> SUBSET Requests]
      <3> HIDE DEF h
      <3>1. responses[n] \cup {h} \in SUBSET Requests /\ asked[n] \cup {h} \in SUBSET Requests
        BY <1>2, <1>3
      <3>2. responses' \in [Conns -> SUBSET Requests]
        BY <1>1, <1>2, <3>1
      <3>3. asked' \in [Conns -> SUBSET Requests]
        BY <1>1, <1>2, <3>1
      <3>4. QED BY <3>2, <3>3
    <2>3. QED BY <1>0, <1>1, <2>1, <2>2 DEF TypeOK
  <1>5. Blame' /\ Dials' /\ Sent' /\ Closed' /\ NeverUnready' /\ ErrorsHaveCause'
    BY <1>0, <1>1 DEF Blame, Stashed, Unseen, Dials, Sent, Closed, NeverUnready,
       ErrorsHaveCause
  <1>6. \A m \in Conns : Owed(m) \subseteq Owed(m)'
    <2> SUFFICES ASSUME NEW m \in Conns, NEW q \in Owed(m) PROVE q \in Owed(m)'
      OBVIOUS
    <2>1. CASE m # n
      BY <1>1, <1>2, <2>1 DEF Owed
    <2>2. CASE m = n
      <3>1. inbox'[n] = Tail(inbox[n]) /\ responses'[n] = responses[n] \cup {h}
        BY <1>1, <1>2
      <3>2. CASE q \in responses[n]
        BY <2>2, <3>1, <3>2 DEF Owed
      <3>3. ASSUME NEW i \in DOMAIN inbox[n], q = inbox[n][i]
            PROVE  q \in Owed(m)'
        <4>1. i \in 1..Len(inbox[n])
          BY <1>2
        <4>2. CASE i = 1
          BY <1>3, <2>2, <3>1, <3>3, <4>2 DEF Owed
        <4>3. CASE i # 1
          <5>1. i - 1 \in 1..Len(Tail(inbox[n])) /\ Tail(inbox[n])[i - 1] = inbox[n][(i - 1) + 1]
            BY <1>3, <4>1, <4>3
          <5>2. DOMAIN Tail(inbox[n]) = 1..Len(Tail(inbox[n])) /\ (i - 1) + 1 = i
            BY <1>3, <4>1
          <5>3. QED BY <2>2, <3>1, <3>3, <5>1, <5>2 DEF Owed
        <4>4. QED BY <4>2, <4>3
      <3>4. QED BY <2>2, <3>2, <3>3 DEF Owed
    <2>3. QED BY <2>1, <2>2
  <1>7. NoneForgotten'
    <2> SUFFICES ASSUME NEW q \in Requests, req[q].state = "sent"
                 PROVE  (link[req[q].n] = "up" /\ q \in Owed(req[q].n))'
      BY <1>1 DEF NoneForgotten
    <2>1. PICK m \in Conns : m = req[q].n
      BY <1>0 DEF Sent
    <2>2. link[m] = "up" /\ q \in Owed(m)
      BY <1>0, <2>1 DEF NoneForgotten
    <2>3. QED BY <1>1, <1>6, <2>1, <2>2 DEF Owed
  <1>8. QED BY <1>4, <1>5, <1>7 DEF CInv

\* An answer: whoever is taken from the map is no longer waiting.
LEMMA AnswerInv ==
    ASSUME CInv, NEW n \in Conns, NEW r \in Requests, Answer(n, r)
    PROVE  CInv'
  <1>0. /\ TypeOK /\ Blame /\ Dials /\ Sent /\ Closed
        /\ NeverUnready /\ NoneForgotten /\ ErrorsHaveCause
    BY DEF CInv
  <1>1. /\ conn' = conn /\ stash' = stash /\ quota' = quota /\ link' = link /\ eof' = eof
        /\ inbox' = inbox /\ asked' = asked /\ held' = held /\ panicked' = panicked
        /\ failures' = failures /\ refused' = refused /\ blamed' = blamed
        /\ responses' = [responses EXCEPT ![n] = @ \ {r}]
        /\ req' = IF r \in responses[n] /\ req[r] = [state |-> "sent", n |-> n]
                  THEN [req EXCEPT ![r].state = "ok"] ELSE req
        /\ awake' = awake /\ waker' = waker
    BY DEF Answer, counters, tasks
  <1>2. /\ req \in [Requests -> ReqType] /\ responses \in [Conns -> SUBSET Requests]
    BY <1>0 DEF TypeOK, ReqType
  <1>3. \/ req' = req /\ ~(r \in responses[n] /\ req[r] = [state |-> "sent", n |-> n])
        \/ req' = [req EXCEPT ![r] = [state |-> "ok", n |-> n]]
    <2>1. CASE r \in responses[n] /\ req[r] = [state |-> "sent", n |-> n]
      <3>1. req' = [req EXCEPT ![r] = [req[r] EXCEPT !.state = "ok"]]
        BY <1>1, <2>1
      <3>2. [req[r] EXCEPT !.state = "ok"] = [state |-> "ok", n |-> n]
        BY <2>1
      <3>3. QED BY <3>1, <3>2, Zenon
    <2>2. QED BY <1>1, <2>1
  <1>4. req' \in [Requests -> ReqType]
    <2>1. [state |-> "ok", n |-> n] \in ReqType
      BY ConnectionAssumption DEF ReqType, Conns
    <2>2. QED BY <1>2, <1>3, <2>1
  <1>5. TypeOK'
    <2>1. responses' \in [Conns -> SUBSET Requests]
      BY <1>1, <1>2
    <2>2. QED BY <1>0, <1>1, <1>4, <2>1 DEF TypeOK, ReqType
  <1>6. Blame' /\ Dials' /\ Closed' /\ NeverUnready'
    BY <1>0, <1>1 DEF Blame, Stashed, Unseen, Dials, Closed, NeverUnready
  <1>7. \A q \in Requests : req'[q] = req[q] \/ req'[q].state = "ok"
    BY <1>2, <1>3
  <1>8. Sent' /\ ErrorsHaveCause'
    BY <1>0, <1>1, <1>7 DEF Sent, ErrorsHaveCause
  <1>9. NoneForgotten'
    <2> SUFFICES ASSUME NEW q \in Requests, req'[q].state = "sent"
                 PROVE  (link[req[q].n] = "up" /\ q \in Owed(req[q].n))'
      BY DEF NoneForgotten
    <2>1. req'[q] = req[q]
      BY <1>7
    <2>2. PICK m \in Conns : m = req[q].n
      BY <1>0, <2>1 DEF Sent
    <2>3. link[m] = "up" /\ q \in Owed(m)
      BY <1>0, <2>1, <2>2 DEF NoneForgotten
    <2>4. q \in responses[m] => q \in responses'[m]
      <3>1. CASE m = n /\ q = r
        <4>1. req[q] = [state |-> "sent", n |-> n]
          BY <1>2, <2>1, <2>2, <3>1, Zenon DEF ReqType
        <4>2. CASE r \in responses[n]
          <5>1. req'[r].state = "ok"
            BY <1>2, <1>3, <3>1, <4>1, <4>2
          <5>2. QED BY <3>1, <5>1
        <4>3. QED BY <3>1, <4>2
      <3>2. CASE ~(m = n /\ q = r)
        BY <1>1, <1>2, <3>2
      <3>3. QED BY <3>1, <3>2
    <2>5. q \in Owed(m)'
      BY <1>1, <2>3, <2>4 DEF Owed
    <2>6. QED BY <1>1, <2>1, <2>2, <2>3, <2>5 DEF Owed
  <1>10. QED BY <1>5, <1>6, <1>8, <1>9 DEF CInv
\* The server closes a connection: the actor does not notice.
LEMMA CloseInv ==
    ASSUME CInv, NEW n \in Conns, Close(n)
    PROVE  CInv'
  <1>0. /\ TypeOK /\ Blame /\ Dials /\ Sent /\ Closed
        /\ NeverUnready /\ NoneForgotten /\ ErrorsHaveCause
    BY DEF CInv
  <1>1. /\ conn' = conn /\ stash' = stash /\ quota' = quota /\ link' = link
        /\ inbox' = inbox /\ responses' = responses /\ asked' = asked /\ req' = req
        /\ held' = held /\ panicked' = panicked /\ refused' = refused /\ blamed' = blamed
        /\ eof' = eof \cup {n} /\ failures < MaxFailures /\ failures' = failures + 1
        /\ awake' = awake /\ waker' = waker
    BY DEF Close, tasks
  <1>2. /\ MaxFailures \in Nat /\ failures \in Nat /\ refused \in Nat
        /\ refused <= failures
    BY <1>0, ConnectionAssumption DEF TypeOK
  <1>3. TypeOK'
    <2>0. failures' = failures + 1 /\ failures < MaxFailures /\ refused' = refused
      BY <1>1
    <2>1. failures' \in 0..MaxFailures /\ refused' \in 0..failures'
      BY <2>0, <1>2
    <2>2. eof' \subseteq Conns
      BY <1>0, <1>1, Zenon DEF TypeOK
    <2>3. QED BY <1>0, <1>1, <2>1, <2>2 DEF TypeOK
  <1>4. Blame' /\ Dials' /\ Sent' /\ NeverUnready'
    BY <1>0, <1>1 DEF Blame, Stashed, Unseen, Dials, Sent, NeverUnready
  <1>5. Closed' /\ ErrorsHaveCause'
    BY <1>1, <1>2 DEF Closed, ErrorsHaveCause
  <1>6. NoneForgotten'
    BY <1>0, <1>1, Kept
  <1>7. QED BY <1>3, <1>4, <1>5, <1>6 DEF CInv

\* An actor ends: because of a failure, or because nobody waits for it.
LEMMA EndInv ==
    ASSUME CInv, NEW n \in Conns, ReadError(n) \/ SendError(n) \/ Cancelled(n)
    PROVE  CInv'
  <1>0. /\ TypeOK /\ Blame /\ Dials /\ Sent /\ Closed
        /\ NeverUnready /\ NoneForgotten /\ ErrorsHaveCause
    BY DEF CInv
  <1>1. /\ conn' = conn /\ stash' = stash /\ quota' = quota /\ eof' = eof
        /\ held' = held /\ panicked' = panicked /\ refused' = refused /\ blamed' = blamed
        /\ link' = [link EXCEPT ![n] = "down"]
        /\ req' = [r \in Requests |->
                     IF r \in Owed(n) /\ req[r] = [state |-> "sent", n |-> n]
                     THEN [state |-> "err", n |-> 0] ELSE req[r]]
        /\ inbox' = [inbox EXCEPT ![n] = <<>>]
        /\ responses' = [responses EXCEPT ![n] = {}]
        /\ asked' = [asked EXCEPT ![n] = {}]
        /\ link[n] = "up"
        /\ awake' = awake /\ waker' = waker
    BY DEF ReadError, SendError, Cancelled, Ended, tasks
  <1>2. \/ failures' = failures + 1 /\ failures < MaxFailures
        \/ failures' = failures /\ n \in eof
        \/ failures' = failures /\ ~Guarded(n)
    BY DEF ReadError, SendError, Cancelled
  <1>3. /\ MaxFailures \in Nat /\ failures \in Nat /\ refused \in Nat
        /\ refused <= failures /\ failures <= MaxFailures
        /\ link \in [Conns -> LinkType]
        /\ inbox \in [Conns -> Seq(Requests)]
        /\ responses \in [Conns -> SUBSET Requests] /\ asked \in [Conns -> SUBSET Requests]
        /\ req \in [Requests -> ReqType]
    BY <1>0, ConnectionAssumption DEF TypeOK, LinkType, ReqType
  <1>4. TypeOK'
    <2>0. refused' = refused
      BY <1>1
    <2>1. failures' \in 0..MaxFailures /\ refused' \in 0..failures'
      <3>1. /\ MaxFailures \in Nat /\ failures \in Nat /\ refused \in Nat
            /\ refused <= failures /\ failures <= MaxFailures
        BY <1>3
      <3>2. \/ failures' = failures + 1 /\ failures < MaxFailures
            \/ failures' = failures
        BY <1>2
      <3>3. QED BY <2>0, <3>1, <3>2
    <2>2. link' \in [Conns -> LinkType]
      BY <1>1, <1>3 DEF LinkType
    <2>3. inbox' \in [Conns -> Seq(Requests)]
      <3>1. <<>> \in Seq(Requests)
        BY EmptySeq
      <3>2. QED BY <1>1, <1>3, <3>1
    <2>4. responses' \in [Conns -> SUBSET Requests] /\ asked' \in [Conns -> SUBSET Requests]
      BY <1>1, <1>3
    <2>5. req' \in [Requests -> ReqType]
      <3>1. [state |-> "err", n |-> 0] \in ReqType
        BY <1>3 DEF ReqType
      <3>2. QED BY <1>1, <1>3, <3>1
    <2>6. QED BY <1>0, <1>1, <2>1, <2>2, <2>3, <2>4, <2>5 DEF TypeOK, LinkType, ReqType
  <1>5. Dials' /\ Sent' /\ NeverUnready'
    BY <1>0, <1>1, <1>3 DEF Dials, Sent, NeverUnready
  <1>6. Blame'
    <2>1. link'[conn.n] = "refused" => link[conn.n] = "refused"
      BY <1>1, <1>3, SMTT(30)
    <2>2. Unseen' = Unseen
      <3>1. link[conn.n] = "refused" => link'[conn.n] = "refused"
        BY <1>1, <1>3
      <3>2. QED BY <1>1, <2>1, <3>1 DEF Unseen
    <2>3. Stashed' = Stashed
      BY <1>1 DEF Stashed
    <2>4. QED BY <1>0, <1>1, <2>2, <2>3 DEF Blame
  <1>7. Closed'
    BY <1>0, <1>1, <1>2, <1>3, SMTT(30) DEF Closed
  <1>8. ErrorsHaveCause'
    <2>1. CASE failures' = failures + 1
      BY <1>3, <2>1 DEF ErrorsHaveCause
    <2>2. CASE failures' = failures /\ n \in eof
      BY <1>0, <2>2 DEF Closed, ErrorsHaveCause
    <2>3. CASE failures' = failures /\ ~Guarded(n)
      <3>1. \A q \in Requests : req[q] # [state |-> "sent", n |-> n]
        BY <2>3 DEF Guarded
      <3>2. \A q \in Requests : req'[q] = req[q]
        BY <1>1, <3>1
      <3>3. QED BY <1>0, <2>3, <3>2 DEF ErrorsHaveCause
    <2>4. QED BY <1>2, <2>1, <2>2, <2>3
  <1>9. NoneForgotten'
    <2> SUFFICES ASSUME NEW q \in Requests, req'[q].state = "sent"
                 PROVE  (link[req[q].n] = "up" /\ q \in Owed(req[q].n))'
      BY DEF NoneForgotten
    <2>1. req'[q] = req[q] /\ ~(q \in Owed(n) /\ req[q] = [state |-> "sent", n |-> n])
      BY <1>1
    <2>2. PICK m \in Conns : m = req[q].n
      BY <1>0, <2>1 DEF Sent
    <2>3. link[m] = "up" /\ q \in Owed(m)
      BY <1>0, <2>1, <2>2 DEF NoneForgotten
    <2>4. m # n
      <3>1. req[q] = [state |-> "sent", n |-> m]
        BY <1>3, <2>1, <2>2 DEF ReqType
      <3>2. QED BY <2>1, <2>3, <3>1
    <2>5. link'[m] = "up" /\ inbox'[m] = inbox[m] /\ responses'[m] = responses[m]
      BY <1>1, <1>3, <2>3, <2>4
    <2>6. QED BY <2>1, <2>2, <2>3, <2>5, SMTT(30) DEF Owed
  <1>10. QED BY <1>4, <1>5, <1>6, <1>7, <1>8, <1>9 DEF CInv

-----------------------------------------------------------------------------
\* Every step keeps the invariant.
LEMMA NextCInv == CInv /\ [Next]_vars => CInv'
  <1> SUFFICES ASSUME CInv, [Next]_vars PROVE CInv'
    OBVIOUS
  <1>1. CASE PollReady \/ \E r \in Requests : PollWait(r)
    BY <1>1, PollInv
  <1>2. ASSUME NEW r \in Requests, PollCall(r) PROVE CInv'
    BY <1>2, CallInv
  <1>3. CASE Refill \/ Drop \/ \E r \in Requests : Submit(r) \/ Timeout(r)
    BY <1>3, QuietInv
  <1>4. ASSUME NEW n \in Conns, Socket(n) PROVE CInv'
    <2>1. CASE Accept(n) \/ Connect(n) \/ Refuse(n)
      BY <2>1, DialInv
    <2>2. CASE Query(n)
      BY <2>2, QueryInv
    <2>3. ASSUME NEW r \in Requests, Answer(n, r) PROVE CInv'
      BY <2>3, AnswerInv
    <2>4. CASE Close(n)
      BY <2>4, CloseInv
    <2>5. CASE ReadError(n) \/ SendError(n) \/ Cancelled(n)
      BY <2>5, EndInv
    <2>6. QED BY <1>4, <2>1, <2>2, <2>3, <2>4, <2>5 DEF Socket
  <1>5. CASE UNCHANGED vars
    <2>1. /\ conn' = conn /\ stash' = stash /\ quota' = quota /\ link' = link /\ eof' = eof
          /\ inbox' = inbox /\ responses' = responses /\ asked' = asked /\ req' = req
          /\ held' = held /\ panicked' = panicked
          /\ failures' = failures /\ refused' = refused /\ blamed' = blamed
          /\ awake' = awake /\ waker' = waker
      BY <1>5 DEF vars, counters, tasks
    <2>2. QED
      BY <2>1, SMTT(30) DEF CInv, TypeOK, Blame, Stashed, Unseen, Dials, Sent, Closed,
         NeverUnready, NoneForgotten, Owed, ErrorsHaveCause
  <1>6. QED BY <1>1, <1>2, <1>3, <1>4, <1>5 DEF Next, Step

\* The invariant of the connection and its requests.
THEOREM ConnectionInvariance == Spec => []CInv
  <1>1. QED BY InitCInv, NextCInv, PTL DEF Spec

\* Every reachable state of a connection and its requests is well typed.
THEOREM ConnectionTypes == Spec => []TypeOK
  <1>1. CInv => TypeOK
    BY DEF CInv
  <1>2. QED BY <1>1, ConnectionInvariance, PTL

\* Reconnect::call never panics, however many tasks poll the shared service
\* between the poll and the call of a request.
THEOREM CallsAreReady == Spec => []NeverUnready
  <1>1. CInv => NeverUnready
    BY DEF CInv
  <1>2. QED BY <1>1, ConnectionInvariance, PTL

\* The error of a refused dial fails at most one request.
THEOREM RefusalsAreBlamedOnce == Spec => []BlamedOnce
  <1>1. CInv => BlamedOnce
    <2> SUFFICES ASSUME CInv PROVE BlamedOnce
      OBVIOUS
    <2>1. blamed \in Nat /\ refused \in Nat
      BY ConnectionAssumption DEF CInv, TypeOK
    <2>2. Stashed \in Nat /\ Unseen \in Nat
      BY DEF Stashed, Unseen
    <2>3. blamed + Stashed + Unseen <= refused
      BY DEF CInv, Blame
    <2>4. \A b, s, u, k \in Nat : b + s + u <= k => b + s <= k
      OBVIOUS
    <2>5. blamed + Stashed <= refused
      BY <2>1, <2>2, <2>3, <2>4
    <2>6. QED BY <2>5 DEF BlamedOnce, Stashed
  <1>2. QED BY <1>1, ConnectionInvariance, PTL

\* A request that waits for an answer waits for a living actor that owes it one.
THEOREM NobodyIsForgotten == Spec => []NoneForgotten
  <1>1. CInv => NoneForgotten
    BY DEF CInv
  <1>2. QED BY <1>1, ConnectionInvariance, PTL

\* Requests fail only because of a refused dial or a lost connection: dropping
\* the client fails none of those in flight.
THEOREM FailuresHaveCause == Spec => []ErrorsHaveCause
  <1>1. CInv => ErrorsHaveCause
    BY DEF CInv
  <1>2. QED BY <1>1, ConnectionInvariance, PTL
=============================================================================
