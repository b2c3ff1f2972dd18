------------------------- MODULE LiteServerDiscover -------------------------
(***************************************************************************)
(* How the set of liteservers the Router balances over follows the config: *)
(* LiteServerDiscoverActor turns each config it is given into removals and *)
(* insertions, sends them down a bounded channel, and the Router applies   *)
(* them when a request polls it.                                           *)
(*                                                                         *)
(* A liteserver is an id and an address; two of them are the same server   *)
(* only if both agree, but the Router's map is keyed by the id alone.      *)
(***************************************************************************)
EXTENDS Integers, Sequences, FiniteSets

CONSTANTS None,
          Ids, Addrs,
          Configs,     \* the sets of liteservers a config may hold
          Capacity,    \* of the channel (100 in the code)
          MaxItems     \* bound: items the config stream yields

LiteServer == [id : Ids, addr : Addrs]

ASSUME DiscoverAssumption == /\ None \notin Addrs
                             /\ \A c \in SUBSET LiteServer : None # c
                             /\ Configs \subseteq SUBSET LiteServer
                             /\ Capacity \in Nat \ {0}
                             /\ MaxItems \in Nat

\* No config lists the same id with two addresses.
ASSUME UniqueIds == \A config \in Configs : \A x, y \in config : x.id = y.id => x = y

VARIABLES items,      \* items the stream has yielded
          state,      \* the actor's last config, None before the first
          pc,         \* where the actor waits
          new,        \* the config being applied
          todo,       \* the changes of the current loop still to be sent
          channel,
          finished,   \* of LiteServerDiscoverHandle
          polling,    \* a request is inside the Router's poll_ready
          services,   \* the Router's map: id -> address, or None
          surfaced    \* errors poll_ready has returned

actor == <<items, state, pc, new, todo>>
vars == <<actor, channel, finished, polling, services, surfaced>>

Change == [op : {"remove", "insert"}, ls : LiteServer]

TypeOK ==
    /\ items \in 0..MaxItems
    /\ state = None \/ state \subseteq LiteServer
    /\ pc \in {"next", "remove", "insert", "ended", "failed"}
    /\ new \subseteq LiteServer
    /\ todo \subseteq LiteServer
    /\ channel \in Seq(Change) /\ Len(channel) <= Capacity
    /\ finished \in BOOLEAN
    /\ polling \in BOOLEAN
    /\ services \in [Ids -> Addrs \cup {None}]
    /\ surfaced \in Nat

Init ==
    /\ items = 0
    /\ state = None
    /\ pc = "next"
    /\ new = {}
    /\ todo = {}
    /\ channel = <<>>
    /\ finished = FALSE
    /\ polling = FALSE
    /\ services = [i \in Ids |-> None]
    /\ surfaced = 0

known == IF state = None THEN {} ELSE state

-----------------------------------------------------------------------------
(* LiteServerDiscoverActor. *)

actorOthers == <<finished, polling, services, surfaced>>

\* Mutant: every server is removed and inserted again on each config.
NextConfig_removes_all ==
    /\ pc = "next" /\ items < MaxItems
    /\ items' = items + 1
    /\ \E config \in Configs :
          /\ new' = config
          /\ todo' = known
    /\ pc' = "remove"
    /\ UNCHANGED <<state, channel, actorOthers>>

NextConfig ==
    /\ pc = "next" /\ items < MaxItems
    /\ items' = items + 1
    /\ \E config \in Configs :
          /\ new' = config
          /\ todo' = known \ config
    /\ pc' = "remove"
    /\ UNCHANGED <<state, channel, actorOthers>>

\* The first item must be a config; a later error is only logged.
NextError ==
    /\ pc = "next" /\ items < MaxItems
    /\ items' = items + 1
    /\ pc' = IF state = None THEN "failed" ELSE "next"
    /\ UNCHANGED <<state, new, todo, channel, actorOthers>>

\* A config given as a value is a stream of one item.
StreamEnds ==
    /\ pc = "next"
    /\ pc' = "ended"
    /\ UNCHANGED <<items, state, new, todo, channel, actorOthers>>

\* Mutants: the channel is taken to be unbounded; a change that does not fit
\* is dropped.
send_unbounded(op) ==
    \E ls \in todo : /\ channel' = Append(channel, [op |-> op, ls |-> ls])
                     /\ todo' = todo \ {ls}

send_lossy(op) ==
    \E ls \in todo : /\ channel' = IF Len(channel) < Capacity
                                   THEN Append(channel, [op |-> op, ls |-> ls])
                                   ELSE channel
                     /\ todo' = todo \ {ls}

\* send().await: waits while the channel is full.
send(op) ==
    /\ Len(channel) < Capacity
    /\ \E ls \in todo : /\ channel' = Append(channel, [op |-> op, ls |-> ls])
                        /\ todo' = todo \ {ls}

SendRemove ==
    /\ pc = "remove"
    /\ send("remove")
    /\ UNCHANGED <<items, state, pc, new, actorOthers>>

RemovesSent ==
    /\ pc = "remove" /\ todo = {}
    /\ pc' = "insert"
    /\ todo' = new \ known
    /\ UNCHANGED <<items, state, new, channel, actorOthers>>

SendInsert ==
    /\ pc = "insert"
    /\ send("insert")
    /\ UNCHANGED <<items, state, pc, new, actorOthers>>

\* Mutant: the old config is kept as the state.
InsertsSent_forgets ==
    /\ pc = "insert" /\ todo = {}
    /\ pc' = "next"
    /\ state' = IF state = None THEN new ELSE state
    /\ UNCHANGED <<items, new, todo, channel, actorOthers>>

InsertsSent ==
    /\ pc = "insert" /\ todo = {}
    /\ pc' = "next"
    /\ state' = new
    /\ UNCHANGED <<items, new, todo, channel, actorOthers>>

-----------------------------------------------------------------------------
(* The Router's poll_ready, through LiteServerDiscoverHandle. *)

closed == pc \in {"ended", "failed"}

Poll ==
    /\ ~polling
    /\ polling' = TRUE
    /\ UNCHANGED <<actor, channel, finished, services, surfaced>>

\* Change::Remove and Change::Insert on the map.
applied(c) == [services EXCEPT ![c.ls.id] = IF c.op = "remove" THEN None ELSE c.ls.addr]

Apply ==
    /\ polling /\ ~finished
    /\ channel # <<>>
    /\ services' = applied(Head(channel))
    /\ channel' = Tail(channel)
    /\ UNCHANGED <<actor, finished, polling, surfaced>>

\* Nothing to receive now, or ever again: poll_ready goes on with the map.
Drained ==
    /\ polling
    /\ finished \/ (channel = <<>> /\ ~closed)
    /\ polling' = FALSE
    /\ UNCHANGED <<actor, channel, finished, services, surfaced>>

\* Mutant: finished is not set.
Joined_again ==
    /\ polling /\ ~finished
    /\ channel = <<>> /\ closed
    /\ polling' = FALSE
    /\ surfaced' = IF pc = "failed" THEN surfaced + 1 ELSE surfaced
    /\ UNCHANGED <<actor, channel, finished, services>>

\* The channel is closed and empty: the actor's result is taken once.
Joined ==
    /\ polling /\ ~finished
    /\ channel = <<>> /\ closed
    /\ finished' = TRUE
    /\ polling' = FALSE
    /\ surfaced' = IF pc = "failed" THEN surfaced + 1 ELSE surfaced
    /\ UNCHANGED <<actor, channel, services>>

-----------------------------------------------------------------------------
Send == NextConfig \/ SendRemove \/ RemovesSent \/ SendInsert \/ InsertsSent
Route == Apply \/ Drained \/ Joined

Next == \/ Send
        \/ NextError
        \/ StreamEnds
        \/ Poll
        \/ Route

Spec == Init /\ [][Next]_vars

\* The actor is a task the runtime keeps polling, and poll_ready returns.
\* Requests keep coming: it is they that drain the channel.
FairSpec == /\ Spec
            /\ WF_vars(SendRemove \/ RemovesSent \/ SendInsert \/ InsertsSent)
            /\ WF_vars(Poll)
            /\ WF_vars(Route)

-----------------------------------------------------------------------------
\* The Router's map holds exactly the liteservers of a config.
Holds(config) ==
    services = [i \in Ids |-> IF \E ls \in config : ls.id = i
                              THEN (CHOOSE ls \in config : ls.id = i).addr
                              ELSE None]

\* Once the changes of a config have been sent and applied, the map is that
\* config: a server that only changed its address is not lost, because the
\* removal of its id comes before the insertion.
FollowsConfig == pc \in {"next", "ended"} /\ channel = <<>> => Holds(known)

\* A liteserver that both the last config and the one being applied list
\* keeps its client (with the registry it has gathered and its connection):
\* the map still has it, or its insertion is still on its way.
Kept == pc \in {"remove", "insert"} =>
    \A ls \in known \cap new :
        \/ services[ls.id] = ls.addr
        \/ \E i \in 1..Len(channel) : channel[i] = [op |-> "insert", ls |-> ls]

\* A failed first item reaches one request, once, and leaves the map empty:
\* every later request finds no server.
FailsOnce == /\ surfaced <= 1
             /\ pc = "failed" => channel = <<>> /\ Holds({})
             /\ surfaced = 1 => finished

\* When no more configs come, the map ends up as the last good one, although
\* the channel is bounded and only requests drain it.
Settles == \/ <>[](pc \in {"next", "ended"} /\ Holds(known))
           \/ <>[](pc = "failed")
=============================================================================
