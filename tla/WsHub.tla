------------------------------- MODULE WsHub --------------------------------
(***************************************************************************)
(* The WebSocket hub (web/hub.go, web/hub_throttle.go).  One goroutine,    *)
(* Run, owns the set of clients and closes a client's send channel when it *)
(* takes it out.  Each connection has a read pump, which unregisters its   *)
(* client when the connection fails, and a write pump, which drains the    *)
(* channel.  The throttled hub adds a goroutine that sends aggregated      *)
(* events to the same channels, without going through Run: a channel Run   *)
(* closes meanwhile makes it panic.                                        *)
(*                                                                         *)
(* An event is its type.  Serialisation, pings and the activity callbacks  *)
(* (Lifecycle models what they trigger) are left out.                      *)
(***************************************************************************)
EXTENDS Integers, FiniteSets

CONSTANTS
    WsClients,      \* connections
    SendCap,        \* messages a client's channel holds (256)
    BroadcastCap,   \* events the broadcast channel holds (10000)
    AggregateCap,   \* events that force a flush (1000)
    ThrottledTypes  \* types of event the throttled hub aggregates

ASSUME WsHubAssumption ==
    SendCap \in Nat \ {0} /\ BroadcastCap \in Nat \ {0} /\ AggregateCap \in Nat \ {0}

VARIABLES
    runEnded,       \* Run has returned
    hubClients,     \* clients
    client,         \* per connection: whether send is closed, messages in it, whether
                    \* the connection is open
    readPump,       \* per connection: "none", "register" in HandleWS, "read",
                    \* "unregister" waiting to send on that channel, "gone"
    writePump,      \* per connection: "none", "write", "gone"
    broadcast,      \* events in the broadcast channel
    aggregate,      \* aggregateEvents: how many, and of which types
    flush,          \* flushAggregatedEvents: events left to send, clients left for this one
    hubPanic        \* "no", or where a closed channel was closed again or sent to

hubVars == <<runEnded, hubClients, client, readPump, writePump, broadcast, aggregate, flush,
             hubPanic>>

NoFlush == [events |-> 0, to |-> {}]

HubInit ==
    /\ runEnded = FALSE
    /\ hubClients = {}
    /\ client = [c \in WsClients |-> [closed |-> FALSE, queued |-> 0, conn |-> TRUE]]
    /\ readPump = [c \in WsClients |-> "none"]
    /\ writePump = [c \in WsClients |-> "none"]
    /\ broadcast = 0
    /\ aggregate = [count |-> 0, types |-> {}]
    /\ flush = NoFlush
    /\ hubPanic = "no"

\* close(client.send) for the clients in gone, a panic if one is closed already.
CloseSend(gone) ==
    /\ client' = [c \in WsClients |-> [client[c] EXCEPT !.closed = @ \/ c \in gone]]
    /\ hubPanic' = IF \E c \in gone : client[c].closed THEN "close" ELSE hubPanic
    /\ hubClients' = hubClients \ gone

(***************************************************************************)
(* Run                                                                     *)
(***************************************************************************)
RunEnds ==
    /\ ~runEnded
    /\ runEnded' = TRUE
    /\ CloseSend(hubClients)
    /\ UNCHANGED <<readPump, writePump, broadcast, aggregate, flush>>

\* HandleWS hands the client over on an unbuffered channel, then starts the pumps.
Register(c) ==
    /\ ~runEnded
    /\ readPump[c] = "register"
    /\ hubClients' = hubClients \cup {c}
    /\ readPump' = [readPump EXCEPT ![c] = "read"]
    /\ writePump' = [writePump EXCEPT ![c] = "write"]
    /\ UNCHANGED <<runEnded, client, broadcast, aggregate, flush, hubPanic>>

\* Mutant of Unregister: no look whether the client is still there.
UnregisterBlindly(c) ==
    /\ ~runEnded
    /\ readPump[c] = "unregister"
    /\ CloseSend({c})
    /\ readPump' = [readPump EXCEPT ![c] = "gone"]
    /\ UNCHANGED <<runEnded, writePump, broadcast, aggregate, flush>>

\* The other half of the deferred send in readPump, which then ends.
Unregister(c) ==
    /\ ~runEnded
    /\ readPump[c] = "unregister"
    /\ CloseSend(hubClients \cap {c})
    /\ readPump' = [readPump EXCEPT ![c] = "gone"]
    /\ UNCHANGED <<runEnded, writePump, broadcast, aggregate, flush>>

Blocked(c) == client[c].queued = SendCap

\* One event to all clients; a client whose channel is full is dropped.
Deliver ==
    /\ ~runEnded
    /\ broadcast > 0
    /\ broadcast' = broadcast - 1
    /\ LET slow == {c \in hubClients : Blocked(c)} IN
       /\ client' = [c \in WsClients |->
                       IF c \in slow THEN [client[c] EXCEPT !.closed = TRUE]
                       ELSE IF c \in hubClients THEN [client[c] EXCEPT !.queued = @ + 1]
                       ELSE client[c]]
       /\ hubClients' = hubClients \ slow
       /\ hubPanic' = IF \E c \in hubClients : client[c].closed THEN "deliver" ELSE hubPanic
    /\ UNCHANGED <<runEnded, readPump, writePump, aggregate, flush>>

(***************************************************************************)
(* A connection                                                            *)
(***************************************************************************)
HandleWS(c) ==
    /\ readPump[c] = "none"
    /\ readPump' = [readPump EXCEPT ![c] = "register"]
    /\ UNCHANGED <<runEnded, hubClients, client, writePump, broadcast, aggregate, flush,
                   hubPanic>>

\* The peer goes away, or its pong is late.
ConnFails(c) ==
    /\ readPump[c] # "none"
    /\ client[c].conn
    /\ client' = [client EXCEPT ![c].conn = FALSE]
    /\ UNCHANGED <<runEnded, hubClients, readPump, writePump, broadcast, aggregate, flush,
                   hubPanic>>

\* Mutant of ReadFails: the pump of a client the hub dropped does not unregister it.
ReadFailsQuietly(c) ==
    /\ readPump[c] = "read"
    /\ ~client[c].conn
    /\ readPump' = [readPump EXCEPT ![c] = IF writePump[c] = "gone" THEN "gone"
                                           ELSE "unregister"]
    /\ UNCHANGED <<runEnded, hubClients, client, writePump, broadcast, aggregate, flush,
                   hubPanic>>

ReadFails(c) ==
    /\ readPump[c] = "read"
    /\ ~client[c].conn
    /\ readPump' = [readPump EXCEPT ![c] = "unregister"]
    /\ UNCHANGED <<runEnded, hubClients, client, writePump, broadcast, aggregate, flush,
                   hubPanic>>

WriteMessage(c) ==
    /\ writePump[c] = "write"
    /\ client[c].conn
    /\ client[c].queued > 0
    /\ client' = [client EXCEPT ![c].queued = @ - 1]
    /\ UNCHANGED <<runEnded, hubClients, readPump, writePump, broadcast, aggregate, flush,
                   hubPanic>>

\* The channel is closed and drained, or a write or a ping fails: the connection closes.
WriteEnds(c) ==
    /\ writePump[c] = "write"
    /\ (client[c].closed /\ client[c].queued = 0) \/ ~client[c].conn
    /\ writePump' = [writePump EXCEPT ![c] = "gone"]
    /\ client' = [client EXCEPT ![c].conn = FALSE]
    /\ UNCHANGED <<runEnded, hubClients, readPump, broadcast, aggregate, flush, hubPanic>>

(***************************************************************************)
(* Events                                                                  *)
(***************************************************************************)
\* Broadcast, also for the types the throttled hub does not hold back; dropped when the
\* channel is full.
Broadcast ==
    /\ broadcast' = IF broadcast < BroadcastCap THEN broadcast + 1 ELSE broadcast
    /\ UNCHANGED <<runEnded, hubClients, client, readPump, writePump, aggregate, flush,
                   hubPanic>>

\* BroadcastWithThrottle for any other type; the lock waits for a flush.
BroadcastWithThrottle(t) ==
    /\ flush = NoFlush
    /\ aggregate.count < AggregateCap
    /\ aggregate' = [count |-> aggregate.count + 1, types |-> aggregate.types \cup {t}]
    /\ UNCHANGED <<runEnded, hubClients, client, readPump, writePump, broadcast, flush,
                   hubPanic>>

\* flushAggregatedEvents, by the ticker or at once when the buffer is full: the newest
\* event of each type, to the clients there are when the loop over them begins.
BeginFlush ==
    /\ flush = NoFlush
    /\ aggregate.count > 0
    /\ flush' = [events |-> Cardinality(aggregate.types), to |-> hubClients]
    /\ aggregate' = [count |-> 0, types |-> {}]
    /\ UNCHANGED <<runEnded, hubClients, client, readPump, writePump, broadcast, hubPanic>>

FlushTo(c) ==
    /\ c \in flush.to
    /\ flush' = [flush EXCEPT !.to = @ \ {c}]
    /\ hubPanic' = IF client[c].closed THEN "flush" ELSE hubPanic
    /\ client' = IF client[c].closed \/ Blocked(c) THEN client
                 ELSE [client EXCEPT ![c].queued = @ + 1]
    /\ UNCHANGED <<runEnded, hubClients, readPump, writePump, broadcast, aggregate>>

NextFlushEvent ==
    /\ flush.events > 0 /\ flush.to = {}
    /\ flush' = [events |-> flush.events - 1,
                 to |-> IF flush.events = 1 THEN {} ELSE hubClients]
    /\ UNCHANGED <<runEnded, hubClients, client, readPump, writePump, broadcast, aggregate,
                   hubPanic>>

\* A panic ends the process.
HubNext ==
    /\ hubPanic = "no"
    /\ \/ \E c \in WsClients :
            \/ HandleWS(c) \/ Register(c) \/ Unregister(c) \/ ConnFails(c) \/ ReadFails(c)
            \/ WriteMessage(c) \/ WriteEnds(c) \/ FlushTo(c)
       \/ \E t \in ThrottledTypes : BroadcastWithThrottle(t)
       \/ RunEnds \/ Deliver \/ Broadcast \/ BeginFlush \/ NextFlushEvent

HubSpec == HubInit /\ [][HubNext]_hubVars

(***************************************************************************)
(* Properties                                                              *)
(***************************************************************************)
HubTypeOK ==
    /\ runEnded \in BOOLEAN
    /\ hubClients \subseteq WsClients
    /\ client \in [WsClients -> [closed : BOOLEAN, queued : 0..SendCap, conn : BOOLEAN]]
    /\ readPump \in [WsClients -> {"none", "register", "read", "unregister", "gone"}]
    /\ writePump \in [WsClients -> {"none", "write", "gone"}]
    /\ broadcast \in 0..BroadcastCap
    /\ aggregate \in [count : 0..AggregateCap, types : SUBSET ThrottledTypes]
    /\ flush \in [events : 0..Cardinality(ThrottledTypes), to : SUBSET WsClients]
    /\ hubPanic \in {"no", "close", "deliver", "flush"}

\* Run never closes a channel twice and never sends on a closed one, however dropping a
\* slow client, the pump that unregisters it and the end of Run come together.  The flush
\* of the throttled hub is the only place where the hub can panic.
PanicsOnlyInFlush == hubPanic \in {"no", "flush"}

\* No client outlives its connection in the hub: as long as it is listed, its read pump is
\* still there to unregister it.
NoZombieClient == \A c \in hubClients : readPump[c] \in {"read", "unregister"}

=============================================================================
