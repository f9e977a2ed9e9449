--------------------------- MODULE ServiceProofs ----------------------------
(***************************************************************************)
(* Proofs about the services around the pipeline: the daily quota, the     *)
(* WebSocket hub, the listener for new heads, scheduling with back-        *)
(* pressure, the metadata enricher and the sliding-window limiter, each    *)
(* for every value of its constants.                                       *)
(***************************************************************************)
EXTENDS QuotaGuard, WsHub, WssListener, BackPressure, Enricher, RateWindow,
        FiniteSetTheorems, WellFoundedInduction, TLAPS

\* A set of naturals that is not empty has a least element: induction on naturals.
LEMMA LeastNatural ==
    ASSUME NEW T \in SUBSET Nat, T # {}
    PROVE  \E x \in T : \A y \in T : x <= y
<1>0. IsWellFoundedOn(OpToRel(<, Nat), Nat)
  BY NatLessThanWellFounded
<1>1. PICK x \in T : \A y \in T : ~ (<<y, x>> \in OpToRel(<, Nat))
  BY <1>0, WFMin
<1>2. \A y \in T : ~ (y < x)
  BY <1>1 DEF OpToRel
<1> QED
  BY <1>2

(***************************************************************************)
(* The daily quota of the RPC pool                                         *)
(***************************************************************************)
QuotaInv == QuotaTypeOK /\ OvershootBounded

\* Sets of goroutines are finite and no larger than all of them.
LEMMA UnderWayFinite ==
    ASSUME NEW S \in SUBSET Requesters
    PROVE  /\ IsFiniteSet(S) /\ Cardinality(S) \in Nat /\ Cardinality(Requesters) \in Nat
           /\ Cardinality(S) <= Cardinality(Requesters)
  BY QuotaGuardAssumption, FS_Subset, FS_CardinalityType

\* The invariant holds before the first request.
LEMMA QuotaInitInv == QuotaInit => QuotaInv
<1> SUFFICES ASSUME QuotaInit PROVE QuotaInv
  OBVIOUS
<1>1. QuotaTypeOK
  <2>1. [step |-> "idle", used |-> 0] \in [step : {"idle", "read", "sent"}, used : Int]
    OBVIOUS
  <2>2. /\ currentUsed \in Int /\ reported \in Int
        /\ sending \in [Requesters -> [step : {"idle", "read", "sent"}, used : Int]]
    BY <2>1 DEF QuotaInit
  <2> QED
    BY <2>2 DEF QuotaInit, QuotaTypeOK, QuotaModes
<1>2. UnderWay \in SUBSET Requesters
  BY DEF UnderWay
<1> QED
  BY <1>1, <1>2, UnderWayFinite, QuotaGuardAssumption
     DEF QuotaInv, OvershootBounded, Ceiling, QuotaInit

\* ModeOf yields a mode.
LEMMA ModeTyped == \A used \in Int : ModeOf(used) \in QuotaModes
  BY QuotaGuardAssumption DEF ModeOf, QuotaModes

\* The guard's part of the types, by step.
LEMMA QuotaTypes == QuotaTypeOK /\ [QuotaNext]_quotaVars => QuotaTypeOK'
<1> SUFFICES ASSUME QuotaTypeOK, [QuotaNext]_quotaVars PROVE QuotaTypeOK'
  OBVIOUS
<1> USE DEF QuotaTypeOK
<1>1. ASSUME NEW c \in Requesters, ReadUsage(c) PROVE QuotaTypeOK'
  BY <1>1 DEF ReadUsage
<1>2. ASSUME NEW c \in Requesters, AllowRequest(c) PROVE QuotaTypeOK'
  <2>1. quotaMode' \in QuotaModes
    BY <1>2, ModeTyped DEF AllowRequest
  <2> QED
    BY <2>1, <1>2 DEF AllowRequest
<1>3. ASSUME NEW c \in Requesters, RecordRequest(c) PROVE QuotaTypeOK'
  BY <1>3 DEF RecordRequest
<1>4. ASSUME NEW used \in ReportedUses, SetCurrentUsed(used) PROVE QuotaTypeOK'
  BY <1>4, ModeTyped, QuotaGuardAssumption DEF SetCurrentUsed
<1>5. CASE ResetQuota
  <2>1. currentUsed' \in Int /\ reported' \in Int
    BY <1>5 DEF ResetQuota
  <2> QED
    BY <2>1, <1>5 DEF ResetQuota, QuotaModes
<1>6. CASE DayPasses
  BY <1>6 DEF DayPasses
<1>7. CASE UNCHANGED quotaVars
  BY <1>7 DEF quotaVars
<1> QED
  BY <1>1, <1>2, <1>3, <1>4, <1>5, <1>6, <1>7 DEF QuotaNext

\* Every step keeps the bound on the overshoot.
LEMMA QuotaNextInv == QuotaInv /\ [QuotaNext]_quotaVars => QuotaInv'
<1> SUFFICES ASSUME QuotaInv, [QuotaNext]_quotaVars PROVE OvershootBounded'
  BY QuotaTypes DEF QuotaInv
<1> DEFINE U == UnderWay
           N == Cardinality(Requesters)
<1>1. /\ U \in SUBSET Requesters /\ U' \in SUBSET Requesters
      /\ Cardinality(U) \in Nat /\ Cardinality(U') \in Nat
      /\ N \in Nat /\ Cardinality(U') <= N /\ IsFiniteSet(U)
  <2>1. U \in SUBSET Requesters /\ U' \in SUBSET Requesters
    BY DEF UnderWay
  <2> QED
    BY <2>1, UnderWayFinite
<1>2. /\ currentUsed \in Int /\ DailyLimit \in Int /\ reported \in Int /\ reported' \in Int
      /\ currentUsed + Cardinality(U) <= Ceiling + N
      /\ Ceiling \in Int /\ DailyLimit <= Ceiling
      /\ Ceiling' \in Int /\ DailyLimit <= Ceiling' /\ reported' <= Ceiling'
  <2>1. QuotaTypeOK'
    BY QuotaTypes DEF QuotaInv
  <2> QED
    BY <2>1, QuotaGuardAssumption DEF QuotaInv, QuotaTypeOK, OvershootBounded, Ceiling
<1>3. SUFFICES currentUsed' + Cardinality(U') <= Ceiling' + N
  BY DEF OvershootBounded
<1> HIDE DEF N
<1>4. ASSUME U' \subseteq U PROVE Cardinality(U') <= Cardinality(U)
  BY <1>1, <1>4, FS_Subset
<1>5. ASSUME UNCHANGED reported PROVE Ceiling' = Ceiling
  BY <1>5 DEF Ceiling
<1>6. ASSUME NEW c \in Requesters, ReadUsage(c)
      PROVE  currentUsed' + Cardinality(U') <= Ceiling' + N
  <2>0. currentUsed' = currentUsed /\ Ceiling' = Ceiling
    BY <1>5, <1>6 DEF ReadUsage
  <2>1. CASE currentUsed < DailyLimit
    <3> HIDE DEF U
    <3> QED
      BY <2>0, <2>1, <1>1, <1>2
  <2>2. CASE ~(currentUsed < DailyLimit)
    <3>1. U' \subseteq U
      BY <2>2, <1>6 DEF ReadUsage, UnderWay, QuotaInv, QuotaTypeOK
    <3>2. Cardinality(U') <= Cardinality(U)
      BY <3>1, <1>4
    <3> HIDE DEF U
    <3> QED
      BY <3>2, <2>0, <1>1, <1>2
  <2> QED
    BY <2>1, <2>2
<1>7. ASSUME NEW c \in Requesters, AllowRequest(c)
      PROVE  currentUsed' + Cardinality(U') <= Ceiling' + N
  <2>0. currentUsed' = currentUsed /\ Ceiling' = Ceiling
    BY <1>5, <1>7 DEF AllowRequest
  <2>1. U' \subseteq U
    BY <1>7 DEF AllowRequest, UnderWay, QuotaInv, QuotaTypeOK
  <2>2. Cardinality(U') <= Cardinality(U)
    BY <2>1, <1>4
  <2> HIDE DEF U
  <2> QED
    BY <2>0, <2>2, <1>1, <1>2
<1>8. ASSUME NEW c \in Requesters, RecordRequest(c)
      PROVE  currentUsed' + Cardinality(U') <= Ceiling' + N
  <2>0. currentUsed' = currentUsed + 1 /\ Ceiling' = Ceiling
    BY <1>5, <1>8 DEF RecordRequest
  <2>1. c \in U /\ U' = U \ {c}
    BY <1>8 DEF RecordRequest, UnderWay, QuotaInv, QuotaTypeOK
  <2>2. Cardinality(U') = Cardinality(U) - 1
    BY <2>1, <1>1, FS_RemoveElement
  <2> HIDE DEF U
  <2> QED
    BY <2>0, <2>2, <1>1, <1>2
<1>9. ASSUME currentUsed' = reported'
      PROVE  currentUsed' + Cardinality(U') <= Ceiling' + N
  <2> HIDE DEF U
  <2> QED
    BY <1>1, <1>2, <1>9
<1>10. CASE ResetQuota \/ \E used \in ReportedUses : SetCurrentUsed(used)
  BY <1>9, <1>10 DEF ResetQuota, SetCurrentUsed
<1>11. CASE UNCHANGED <<currentUsed, sending, reported>>
  <2>1. U' \subseteq U
    BY <1>11 DEF UnderWay
  <2>2. Cardinality(U') <= Cardinality(U) /\ Ceiling' = Ceiling
    BY <2>1, <1>4, <1>5, <1>11
  <2> HIDE DEF U
  <2> QED
    BY <2>2, <1>1, <1>2, <1>11
<1>12. CASE DayPasses \/ UNCHANGED quotaVars
  BY <1>11, <1>12 DEF DayPasses, quotaVars
<1> QED
  BY <1>6, <1>7, <1>8, <1>10, <1>12 DEF QuotaNext

\* Between AllowRequest and RecordRequest a request is in no count; still the use and the
\* requests under way exceed the daily limit, or a use above it that SetCurrentUsed was
\* told, by at most one request per goroutine, for every set of reports.
THEOREM QuotaOvershoot == QuotaSpec => []OvershootBounded
<1>1. QuotaInv => OvershootBounded
  BY DEF QuotaInv
<1> QED
  BY <1>1, QuotaInitInv, QuotaNextInv, PTL DEF QuotaSpec

(***************************************************************************)
(* The WebSocket hub                                                       *)
(***************************************************************************)
\* What the hub knows of a connection, without the length of its channel.
ClientState == [closed : BOOLEAN, queued : Int, conn : BOOLEAN]

HubTypes ==
    /\ hubClients \subseteq WsClients
    /\ client \in [WsClients -> ClientState]
    /\ readPump \in [WsClients -> {"none", "register", "read", "unregister", "gone"}]

\* A closed channel belongs to a client that was listed once and is no longer: Run closes
\* where it removes, and a connection registers once.
ClosedIsGone ==
    \A c \in WsClients : client[c].closed => /\ c \notin hubClients
                                             /\ readPump[c] \notin {"none", "register"}

HubInv == HubTypes /\ ClosedIsGone /\ NoZombieClient /\ PanicsOnlyInFlush

\* At the start no client is listed and no channel is closed.
LEMMA HubInitInv == HubInit => HubInv
<1> SUFFICES ASSUME HubInit PROVE HubInv
  OBVIOUS
<1>1. HubTypes
  BY DEF HubInit, HubTypes, ClientState
<1>2. ClosedIsGone /\ NoZombieClient /\ PanicsOnlyInFlush
  BY DEF HubInit, ClosedIsGone, NoZombieClient, PanicsOnlyInFlush
<1> QED
  BY <1>1, <1>2 DEF HubInv

\* Steps that close no channel, list no client and move no read pump backwards.
LEMMA QuietStep ==
    ASSUME HubInv, client' \in [WsClients -> ClientState],
           \A c \in WsClients : client'[c].closed = client[c].closed,
           UNCHANGED hubClients,
           readPump' \in [WsClients -> {"none", "register", "read", "unregister", "gone"}],
           \A c \in WsClients : \/ readPump'[c] = readPump[c]
                                \/ readPump[c] = "none" /\ readPump'[c] = "register"
                                \/ readPump[c] = "read" /\ readPump'[c] = "unregister",
           hubPanic' \in {hubPanic, "flush"}
    PROVE  HubInv'
<1> USE DEF HubInv
<1>1. HubTypes'
  BY DEF HubTypes
<1>2. ClosedIsGone'
  <2> SUFFICES ASSUME NEW c \in WsClients, client'[c].closed
               PROVE  c \notin hubClients' /\ readPump'[c] \notin {"none", "register"}
    BY DEF ClosedIsGone
  <2>1. c \notin hubClients /\ readPump[c] \notin {"none", "register"}
    BY DEF ClosedIsGone
  <2> QED
    BY <2>1
<1>3. NoZombieClient'
  BY DEF NoZombieClient, HubTypes
<1>4. PanicsOnlyInFlush'
  BY DEF PanicsOnlyInFlush
<1> QED
  BY <1>1, <1>2, <1>3, <1>4

\* Run takes clients it has listed out and closes their channels, which are open.
LEMMA CloseStep ==
    ASSUME HubInv, NEW gone \in SUBSET hubClients,
           client' \in [WsClients -> ClientState],
           \A c \in WsClients : client'[c].closed => client[c].closed \/ c \in gone,
           hubClients' = hubClients \ gone,
           readPump' \in [WsClients -> {"none", "register", "read", "unregister", "gone"}],
           \A c \in WsClients : \/ readPump'[c] = readPump[c]
                                \/ /\ c \notin hubClients' /\ readPump'[c] = "gone",
           hubPanic' = hubPanic
    PROVE  HubInv'
<1> USE DEF HubInv
<1>1. HubTypes'
  BY DEF HubTypes
<1>2. ClosedIsGone'
  <2> SUFFICES ASSUME NEW c \in WsClients, client'[c].closed
               PROVE  c \notin hubClients' /\ readPump'[c] \notin {"none", "register"}
    BY DEF ClosedIsGone
  <2>1. CASE c \in gone
    BY <2>1 DEF NoZombieClient
  <2>2. CASE client[c].closed
    BY <2>2 DEF ClosedIsGone
  <2> QED
    BY <2>1, <2>2
<1>3. NoZombieClient'
  BY DEF NoZombieClient, HubTypes
<1>4. PanicsOnlyInFlush'
  BY DEF PanicsOnlyInFlush
<1> QED
  BY <1>1, <1>2, <1>3, <1>4

\* CloseSend for listed clients.
LEMMA CloseSendCloses ==
    ASSUME HubInv, NEW gone \in SUBSET hubClients, CloseSend(gone)
    PROVE  /\ client' \in [WsClients -> ClientState]
           /\ \A c \in WsClients : client'[c].closed => client[c].closed \/ c \in gone
           /\ hubClients' = hubClients \ gone
           /\ hubPanic' = hubPanic
<1>1. client \in [WsClients -> ClientState] /\ hubClients \subseteq WsClients
  BY DEF HubInv, HubTypes
<1>2. client' = [c \in WsClients |-> [client[c] EXCEPT !.closed = @ \/ c \in gone]]
  BY DEF CloseSend
<1>3. ASSUME NEW c \in WsClients
      PROVE  /\ client'[c] \in ClientState
             /\ client'[c].closed => client[c].closed \/ c \in gone
  <2>1. client[c] \in ClientState /\ client'[c] = [client[c] EXCEPT !.closed = @ \/ c \in gone]
    BY <1>1, <1>2
  <2>2. client[c].closed \in BOOLEAN
    BY <2>1 DEF ClientState
  <2>3. (client[c].closed \/ c \in gone) \in BOOLEAN
    OBVIOUS
  <2>4. client'[c] \in ClientState
    BY <2>1, <2>3 DEF ClientState
  <2>5. client'[c].closed = (client[c].closed \/ c \in gone)
    BY <2>1 DEF ClientState
  <2> QED
    BY <2>4, <2>5
<1>4. client' \in [WsClients -> ClientState]
  BY <1>2, <1>3
<1>5. \A c \in gone : ~client[c].closed
  BY <1>1 DEF HubInv, ClosedIsGone
<1> QED
  BY <1>3, <1>4, <1>5 DEF CloseSend
\* The steps of Run: the end, a client that leaves, an event that drops the slow ones.
LEMMA RunEndsInv == ASSUME HubInv, RunEnds PROVE HubInv'
<1>1. CloseSend(hubClients) /\ readPump' = readPump
  BY DEF RunEnds
<1>2. readPump' \in [WsClients -> {"none", "register", "read", "unregister", "gone"}]
  BY <1>1 DEF HubInv, HubTypes
<1>3. hubClients \in SUBSET hubClients
  OBVIOUS
<1> QED
  BY <1>1, <1>2, <1>3, CloseSendCloses, CloseStep

\* A client leaves the list and its channel is closed once.
LEMMA UnregisterInv == ASSUME HubInv, NEW c \in WsClients, Unregister(c) PROVE HubInv'
<1> DEFINE gone == hubClients \cap {c}
<1>1. CloseSend(gone) /\ readPump' = [readPump EXCEPT ![c] = "gone"]
  BY DEF Unregister
<1>2. gone \in SUBSET hubClients
  OBVIOUS
<1>3. /\ client' \in [WsClients -> ClientState]
      /\ \A d \in WsClients : client'[d].closed => client[d].closed \/ d \in gone
      /\ hubClients' = hubClients \ gone /\ hubPanic' = hubPanic
  BY <1>1, <1>2, CloseSendCloses
<1>4. /\ readPump' \in [WsClients -> {"none", "register", "read", "unregister", "gone"}]
      /\ \A d \in WsClients : \/ readPump'[d] = readPump[d]
                              \/ d \notin hubClients' /\ readPump'[d] = "gone"
  BY <1>1, <1>3 DEF HubInv, HubTypes
<1> QED
  BY <1>2, <1>3, <1>4, CloseStep

\* A broadcast closes the channels of the clients it drops.
LEMMA DeliverInv == ASSUME HubInv, Deliver PROVE HubInv'
<1> DEFINE slow == {c \in hubClients : Blocked(c)}
<1>1. /\ client' = [c \in WsClients |->
                       IF c \in slow THEN [client[c] EXCEPT !.closed = TRUE]
                       ELSE IF c \in hubClients THEN [client[c] EXCEPT !.queued = @ + 1]
                       ELSE client[c]]
      /\ hubClients' = hubClients \ slow /\ readPump' = readPump
      /\ hubPanic' = IF \E c \in hubClients : client[c].closed THEN "deliver" ELSE hubPanic
  BY DEF Deliver
<1>2. /\ client \in [WsClients -> ClientState] /\ hubClients \subseteq WsClients
      /\ readPump' \in [WsClients -> {"none", "register", "read", "unregister", "gone"}]
  BY <1>1 DEF HubInv, HubTypes
<1>3. slow \in SUBSET hubClients
  OBVIOUS
<1> HIDE DEF slow
<1>4. ASSUME NEW c \in WsClients
      PROVE  /\ client'[c] \in ClientState
             /\ client'[c].closed => client[c].closed \/ c \in slow
  <2>1. client[c] \in ClientState
    BY <1>2
  <2>2. CASE c \in slow
    <3>1. client'[c] = [client[c] EXCEPT !.closed = TRUE]
      BY <1>1, <2>2
    <3> QED
      BY <2>1, <2>2, <3>1 DEF ClientState
  <2>3. CASE c \notin slow /\ c \in hubClients
    <3>1. client'[c] = [client[c] EXCEPT !.queued = @ + 1]
      BY <1>1, <2>3
    <3>2. client[c].queued + 1 \in Int
      BY <2>1 DEF ClientState
    <3> QED
      BY <2>1, <3>1, <3>2 DEF ClientState
  <2>4. CASE c \notin hubClients
    BY <1>1, <1>3, <2>1, <2>4
  <2> QED
    BY <2>2, <2>3, <2>4
<1>5. client' \in [WsClients -> ClientState]
  BY <1>1, <1>4
<1>6. hubPanic' = hubPanic
  BY <1>1, <1>2 DEF HubInv, ClosedIsGone
<1> QED
  BY <1>1, <1>2, <1>3, <1>4, <1>5, <1>6, CloseStep

\* A connection registers once, and its channel is open then.
LEMMA RegisterInv == ASSUME HubInv, NEW c \in WsClients, Register(c) PROVE HubInv'
<1> USE DEF HubInv
<1>1. /\ readPump[c] = "register" /\ hubClients' = hubClients \cup {c}
      /\ readPump' = [readPump EXCEPT ![c] = "read"]
      /\ UNCHANGED <<client, hubPanic>>
  BY DEF Register
<1>2. HubTypes'
  BY <1>1 DEF HubTypes
<1>3. ClosedIsGone'
  <2> SUFFICES ASSUME NEW d \in WsClients, client'[d].closed
               PROVE  d \notin hubClients' /\ readPump'[d] \notin {"none", "register"}
    BY DEF ClosedIsGone
  <2>1. d \notin hubClients /\ readPump[d] \notin {"none", "register"} /\ d # c
    BY <1>1 DEF ClosedIsGone
  <2> QED
    BY <1>1, <2>1 DEF HubTypes
<1>4. NoZombieClient' /\ PanicsOnlyInFlush'
  BY <1>1 DEF NoZombieClient, PanicsOnlyInFlush, HubTypes
<1> QED
  BY <1>2, <1>3, <1>4

\* What the pumps, the peers and the broadcasters do.
LEMMA PumpInv ==
    ASSUME HubInv, NEW c \in WsClients,
           HandleWS(c) \/ ConnFails(c) \/ ReadFails(c) \/ WriteMessage(c) \/ WriteEnds(c)
             \/ FlushTo(c)
    PROVE  HubInv'
<1>1. /\ client \in [WsClients -> ClientState]
      /\ readPump \in [WsClients -> {"none", "register", "read", "unregister", "gone"}]
  BY DEF HubInv, HubTypes
<1>2. hubClients' = hubClients /\ hubPanic' \in {hubPanic, "flush"}
  BY DEF HandleWS, ConnFails, ReadFails, WriteMessage, WriteEnds, FlushTo
<1>3. /\ readPump' \in [WsClients -> {"none", "register", "read", "unregister", "gone"}]
      /\ \A d \in WsClients : \/ readPump'[d] = readPump[d]
                              \/ readPump[d] = "none" /\ readPump'[d] = "register"
                              \/ readPump[d] = "read" /\ readPump'[d] = "unregister"
  <2>1. \/ readPump' = readPump
        \/ readPump[c] = "none" /\ readPump' = [readPump EXCEPT ![c] = "register"]
        \/ readPump[c] = "read" /\ readPump' = [readPump EXCEPT ![c] = "unregister"]
    BY DEF HandleWS, ConnFails, ReadFails, WriteMessage, WriteEnds, FlushTo
  <2> QED
    BY <1>1, <2>1
<1>4. /\ client' \in [WsClients -> ClientState]
      /\ \A d \in WsClients : client'[d].closed = client[d].closed
  <2>1. \/ client' = client
        \/ client' = [client EXCEPT ![c].conn = FALSE]
        \/ client' = [client EXCEPT ![c].queued = @ - 1]
        \/ client' = [client EXCEPT ![c].queued = @ + 1]
    BY DEF HandleWS, ConnFails, ReadFails, WriteMessage, WriteEnds, FlushTo
  <2>2. client[c] \in ClientState /\ client[c].queued \in Int /\ FALSE \in BOOLEAN
    BY <1>1 DEF ClientState
  <2>3. client[c].queued - 1 \in Int /\ client[c].queued + 1 \in Int
    BY <2>2
  <2>4. ASSUME NEW r \in ClientState, r.closed = client[c].closed,
               client' = [client EXCEPT ![c] = r]
        PROVE  /\ client' \in [WsClients -> ClientState]
               /\ \A d \in WsClients : client'[d].closed = client[d].closed
    BY <1>1, <2>4
  <2>5. CASE client' = [client EXCEPT ![c].conn = FALSE]
    <3> DEFINE r == [client[c] EXCEPT !.conn = FALSE]
    <3>1. r \in ClientState /\ r.closed = client[c].closed
      BY <2>2 DEF ClientState
    <3> QED
      BY <2>4, <2>5, <3>1
  <2>6. CASE client' = [client EXCEPT ![c].queued = @ - 1]
    <3> DEFINE r == [client[c] EXCEPT !.queued = @ - 1]
    <3>1. r \in ClientState /\ r.closed = client[c].closed
      BY <2>2, <2>3 DEF ClientState
    <3> QED
      BY <2>4, <2>6, <3>1
  <2>7. CASE client' = [client EXCEPT ![c].queued = @ + 1]
    <3> DEFINE r == [client[c] EXCEPT !.queued = @ + 1]
    <3>1. r \in ClientState /\ r.closed = client[c].closed
      BY <2>2, <2>3 DEF ClientState
    <3> QED
      BY <2>4, <2>7, <3>1
  <2> QED
    BY <1>1, <2>1, <2>5, <2>6, <2>7
<1> QED
  BY <1>2, <1>3, <1>4, QuietStep

\* Every step keeps the invariant.
LEMMA HubNextInv == ASSUME HubInv, [HubNext]_hubVars PROVE HubInv'
<1>1. CASE UNCHANGED <<hubClients, client, readPump, hubPanic>>
  BY <1>1 DEF HubInv, HubTypes, ClosedIsGone, NoZombieClient, PanicsOnlyInFlush
<1>2. CASE HubNext
  <2>1. CASE (\E t \in ThrottledTypes : BroadcastWithThrottle(t)) \/ Broadcast \/ BeginFlush
               \/ NextFlushEvent
    BY <1>1, <2>1 DEF BroadcastWithThrottle, Broadcast, BeginFlush, NextFlushEvent
  <2>2. CASE RunEnds \/ Deliver
    BY <2>2, RunEndsInv, DeliverInv
  <2>3. ASSUME NEW c \in WsClients,
               \/ HandleWS(c) \/ Register(c) \/ Unregister(c) \/ ConnFails(c) \/ ReadFails(c)
               \/ WriteMessage(c) \/ WriteEnds(c) \/ FlushTo(c)
        PROVE  HubInv'
    BY <2>3, RegisterInv, UnregisterInv, PumpInv
  <2> QED
    BY <1>2, <2>1, <2>2, <2>3 DEF HubNext
<1> QED
  BY <1>1, <1>2 DEF hubVars

\* So it holds throughout.
LEMMA HubInvariant == HubSpec => []HubInv
<1>1. HubInv /\ [HubNext]_hubVars => HubInv'
  BY HubNextInv
<1> QED
  BY <1>1, HubInitInv, PTL DEF HubSpec

\* However dropped clients, unregistering pumps and the end of Run come together, no
\* channel is closed twice and Run sends on no closed one: only the flush can panic.
THEOREM OnlyFlushPanics == HubSpec => []PanicsOnlyInFlush
<1>1. HubInv => PanicsOnlyInFlush
  BY DEF HubInv
<1> QED
  BY <1>1, HubInvariant, PTL

\* A listed client has a read pump that will unregister it, for any number of connections.
THEOREM NeverZombie == HubSpec => []NoZombieClient
<1>1. HubInv => NoZombieClient
  BY DEF HubInv
<1> QED
  BY <1>1, HubInvariant, PTL

(***************************************************************************)
(* The listener for new heads                                              *)
(***************************************************************************)
\* The flag's meaning is inductive as it stands: only a success sets it, reading a loss
\* clears it, and the loop leaves "listen" and "forward" otherwise only when asked to end.
LEMMA HonestStep ==
    ASSUME WssTypeOK, ConnectedIsHonest, [WssNext]_wssVars
    PROVE  ConnectedIsHonest'
<1> USE DEF WssTypeOK, ConnectedIsHonest
<1>1. CASE GiveUp \/ SubscriptionBreaks \/ HeaderArrives \/ ForwardHeader
           \/ SubscriptionError \/ ListenEnds
  BY <1>1 DEF GiveUp, SubscriptionBreaks, HeaderArrives, ForwardHeader, SubscriptionError,
           ListenEnds
<1>2. ASSUME NEW ok \in BOOLEAN, SubscribeNewHead(ok) PROVE ConnectedIsHonest'
  BY <1>2 DEF SubscribeNewHead
<1>3. CASE BackoffElapses \/ BackoffCancelled
  BY <1>3 DEF BackoffElapses, BackoffCancelled
<1>4. CASE GetNewBlocks \/ StopListener \/ CancelListener \/ UNCHANGED wssVars
  BY <1>4 DEF GetNewBlocks, StopListener, CancelListener, wssVars
<1> QED
  BY <1>1, <1>2, <1>3, <1>4 DEF WssNext

\* The types of the listener's flags.
WssFlags ==
    /\ listener \in {"subscribe", "listen", "forward", "lost", "failed", "ended"}
    /\ connected \in BOOLEAN /\ alive \in BOOLEAN /\ subscribed \in BOOLEAN
    /\ wssStopped \in BOOLEAN /\ wssCancelled \in BOOLEAN

\* The count of reconnects and the length of newBlocks are in bounds.
WssCounts == reconnects \in 0..MaxReconnects /\ newBlocks \in 0..NewBlocksCap

\* Every step of the listener keeps the types.
LEMMA WssTypeStep ==
    ASSUME WssTypeOK, [WssNext]_wssVars
    PROVE  WssTypeOK'
<1>1. WssFlags /\ WssCounts
  BY DEF WssTypeOK, WssFlags, WssCounts
<1>2. WssFlags'
  <2> USE DEF WssFlags
  <2>1. CASE GiveUp \/ SubscriptionBreaks \/ HeaderArrives \/ ForwardHeader
           \/ SubscriptionError \/ ListenEnds
    BY <1>1, <2>1 DEF GiveUp, SubscriptionBreaks, HeaderArrives, ForwardHeader, SubscriptionError,
           ListenEnds
  <2>2. ASSUME NEW ok \in BOOLEAN, SubscribeNewHead(ok) PROVE WssFlags'
    BY <1>1, <2>2 DEF SubscribeNewHead
  <2>3. CASE BackoffElapses \/ BackoffCancelled
    BY <1>1, <2>3 DEF BackoffElapses, BackoffCancelled
  <2>4. CASE GetNewBlocks \/ StopListener \/ CancelListener \/ UNCHANGED wssVars
    BY <1>1, <2>4 DEF GetNewBlocks, StopListener, CancelListener, wssVars
  <2> QED
    BY <2>1, <2>2, <2>3, <2>4 DEF WssNext
<1>3. WssCounts'
  <2> USE WssListenerAssumption DEF WssCounts
  <2>1. CASE GiveUp \/ SubscriptionBreaks \/ HeaderArrives \/ ForwardHeader
           \/ SubscriptionError \/ ListenEnds
    BY <1>1, <2>1 DEF GiveUp, SubscriptionBreaks, HeaderArrives, ForwardHeader, SubscriptionError,
           ListenEnds
  <2>2. ASSUME NEW ok \in BOOLEAN, SubscribeNewHead(ok) PROVE WssCounts'
    BY <1>1, <2>2 DEF SubscribeNewHead
  <2>3. CASE BackoffElapses \/ BackoffCancelled
    BY <1>1, <2>3 DEF BackoffElapses, BackoffCancelled
  <2>4. CASE GetNewBlocks \/ StopListener \/ CancelListener \/ UNCHANGED wssVars
    BY <1>1, <2>4 DEF GetNewBlocks, StopListener, CancelListener, wssVars
  <2> QED
    BY <2>1, <2>2, <2>3, <2>4 DEF WssNext
<1> QED
  BY <1>2, <1>3 DEF WssTypeOK, WssFlags, WssCounts

\* IsConnected shows every live subscription, and a dead one only before the first, after a
\* requested end or until the listener reads its error (which a header waiting for a slow
\* reader delays), for every capacity of newBlocks and every limit of reconnects.
THEOREM HonestConnection == WssSpec => []ConnectedIsHonest
<1>1. WssInit => WssTypeOK /\ ConnectedIsHonest
  <2> SUFFICES ASSUME WssInit PROVE WssTypeOK /\ ConnectedIsHonest
    OBVIOUS
  <2>1. reconnects \in 0..MaxReconnects /\ newBlocks \in 0..NewBlocksCap
    BY WssListenerAssumption DEF WssInit
  <2> QED
    BY <2>1 DEF WssInit, WssTypeOK, ConnectedIsHonest
<1> QED
  BY <1>1, HonestStep, WssTypeStep, PTL DEF WssSpec

(***************************************************************************)
(* Scheduling with back-pressure                                           *)
(***************************************************************************)
\* The call that made the record of a range: still to be decided, or decided after it.
HasOwner(r) ==
    \/ \E d \in DynamicCallers : call[d].range = r /\ call[d].step \in {"check", "schedule"}
    \/ accepted[r] <= pending[r]
    \/ refused[r] <= pending[r]

CallRecords == [step : {"idle", "check", "merged", "schedule", "reset"},
                range : DynamicRanges \cup {"none"}]

PressureTypes ==
    /\ pending \in [DynamicRanges -> 0..MergeWindow]
    /\ call \in [DynamicCallers -> CallRecords]
    /\ accepted \in [DynamicRanges -> 0..MergeWindow]
    /\ refused \in [DynamicRanges -> 0..MergeWindow]

\* Every call but an idle one has a range.
CallsHaveRanges ==
    \A c \in DynamicCallers : call[c].step # "idle" => call[c].range \in DynamicRanges

\* Every record inside the window has an owner.
RecordsHaveOwners == \A r \in DynamicRanges : pending[r] < MergeWindow => HasOwner(r)

\* No record ages while the call that was merged with it is about to return.
MergedInWindow ==
    \A c \in DynamicCallers : call[c].step = "merged" => pending[call[c].range] < MergeWindow

PressureInv == PressureTypes /\ CallsHaveRanges /\ RecordsHaveOwners /\ MergedInWindow

\* The invariant holds before the first call.
LEMMA PressureInitInv == PressureInit => PressureInv
  BY BackPressureAssumption
     DEF PressureInit, PressureInv, PressureTypes, LongAgo, NoSchedule, CallRecords,
         CallsHaveRanges, RecordsHaveOwners, MergedInWindow

\* A step of one call c, for the range r, that leaves the record of r alone: if it was
\* undecided and no longer is, it was accepted or refused by this step.
LEMMA CallerStep ==
    ASSUME PressureInv, NEW c \in DynamicCallers, NEW r \in DynamicRanges,
           NEW k \in CallRecords,
           call' = [call EXCEPT ![c] = k],
           k.step # "idle" => k.range = r,
           call[c].step # "idle" => call[c].range = r,
           UNCHANGED pending,
           accepted' \in {accepted, [accepted EXCEPT ![r] = 0]},
           refused' \in {refused, [refused EXCEPT ![r] = 0]},
           k.step = "merged" => pending[r] < MergeWindow,
           \/ call[c].step \notin {"check", "schedule"}
           \/ k.step = "schedule"
           \/ accepted'[r] = 0
           \/ refused'[r] = 0
    PROVE  PressureInv'
<1> USE BackPressureAssumption DEF PressureInv, PressureTypes
<1>1. PressureTypes'
  OBVIOUS
<1>2. CallsHaveRanges'
  BY DEF CallsHaveRanges, CallRecords
<1>3. RecordsHaveOwners'
  <2> SUFFICES ASSUME NEW q \in DynamicRanges, pending[q] < MergeWindow
               PROVE  HasOwner(q)'
    BY DEF RecordsHaveOwners
  <2>1. HasOwner(q)
    BY DEF RecordsHaveOwners
  <2>2. accepted'[q] \in {accepted[q], 0} /\ refused'[q] \in {refused[q], 0} /\ pending[q] \in Nat
    OBVIOUS
  <2>3. CASE accepted[q] <= pending[q] \/ refused[q] <= pending[q]
    BY <2>2, <2>3 DEF HasOwner
  <2>4. ASSUME NEW d \in DynamicCallers, call[d].range = q, call[d].step \in {"check", "schedule"}
        PROVE  HasOwner(q)'
    <3>1. CASE d # c
      BY <2>4, <3>1 DEF HasOwner
    <3>2. CASE d = c
      <4>1. q = r
        BY <2>4, <3>2
      <4>2. CASE k.step = "schedule"
        <5>1. call'[c] = k
          OBVIOUS
        <5> QED
          BY <4>1, <4>2, <5>1 DEF HasOwner
      <4>3. CASE accepted'[r] = 0 \/ refused'[r] = 0
        BY <4>1, <4>3, <2>2 DEF HasOwner
      <4> QED
        BY <2>4, <3>2, <4>2, <4>3
    <3> QED
      BY <3>1, <3>2
  <2> QED
    BY <2>1, <2>3, <2>4 DEF HasOwner
<1>4. MergedInWindow'
  BY DEF MergedInWindow, CallRecords
<1> QED
  BY <1>1, <1>2, <1>3, <1>4

\* The clock ages the records, the acceptances and the refusals alike, and waits for the
\* merged calls to return.
LEMMA UnitPassesInv ==
    ASSUME PressureInv, UnitPasses
    PROVE  PressureInv'
<1> USE BackPressureAssumption DEF PressureInv, PressureTypes, UnitPasses, Older
<1>1. PressureTypes'
  OBVIOUS
<1>2. CallsHaveRanges' /\ MergedInWindow'
  BY DEF CallsHaveRanges, MergedInWindow
<1>3. RecordsHaveOwners'
  <2> SUFFICES ASSUME NEW q \in DynamicRanges, pending'[q] < MergeWindow
               PROVE  HasOwner(q)'
    BY DEF RecordsHaveOwners
  <2>1. pending'[q] = pending[q] + 1 /\ pending[q] < MergeWindow
    OBVIOUS
  <2>2. HasOwner(q)
    BY <2>1 DEF RecordsHaveOwners
  <2>3. /\ accepted[q] <= pending[q] => accepted'[q] <= pending'[q]
        /\ refused[q] <= pending[q] => refused'[q] <= pending'[q]
    BY <2>1
  <2> QED
    BY <2>2, <2>3 DEF HasOwner
<1> QED
  BY <1>1, <1>2, <1>3

\* Every step of a caller, and of the clock, keeps the invariant.
LEMMA PressureNextInv ==
    ASSUME PressureInv, [PressureNext]_pressureVars
    PROVE  PressureInv'
<1> USE BackPressureAssumption DEF PressureInv
<1>1. ASSUME NEW c \in DynamicCallers, NEW r \in DynamicRanges, ScheduleDynamic(c, r)
      PROVE  PressureInv'
  <2>1. CASE ShouldSchedule(r)
    <3> DEFINE k == [step |-> "check", range |-> r]
    <3>1. k \in CallRecords
      BY DEF CallRecords
    <3>2. /\ call' = [call EXCEPT ![c] = k] /\ pending' = [pending EXCEPT ![r] = 0]
          /\ UNCHANGED <<accepted, refused>> /\ call[c].step = "idle"
      BY <1>1, <2>1 DEF ScheduleDynamic
    <3>3. PressureTypes'
      BY <3>1, <3>2 DEF PressureTypes
    <3>4. CallsHaveRanges' /\ MergedInWindow'
      BY <3>2 DEF CallsHaveRanges, MergedInWindow, PressureTypes
    <3>5. RecordsHaveOwners'
      <4> SUFFICES ASSUME NEW q \in DynamicRanges, pending'[q] < MergeWindow PROVE HasOwner(q)'
        BY DEF RecordsHaveOwners
      <4>1. CASE q = r
        BY <3>2, <4>1 DEF HasOwner, PressureTypes
      <4>2. CASE q # r
        <5>1. pending'[q] = pending[q] /\ HasOwner(q)
          BY <3>2, <4>2 DEF RecordsHaveOwners, PressureTypes
        <5> QED
          BY <3>2, <5>1 DEF HasOwner, PressureTypes
      <4> QED
        BY <4>1, <4>2
    <3> QED
      BY <3>3, <3>4, <3>5
  <2>2. CASE ~ShouldSchedule(r)
    <3> DEFINE k == [step |-> "merged", range |-> r]
    <3>1. k \in CallRecords
      BY DEF CallRecords
    <3>2. pending[r] < MergeWindow
      BY <2>2 DEF ShouldSchedule, PressureTypes
    <3> QED
      BY <1>1, <2>2, <3>1, <3>2, CallerStep DEF ScheduleDynamic
  <2> QED
    BY <2>1, <2>2
<1>2. ASSUME NEW c \in DynamicCallers, call[c].step # "idle",
             \/ Returns(c) \/ BlockWithError(c) \/ CheckSchedule(c) \/ ResetBackoff(c)
             \/ \E ok \in BOOLEAN : Schedule(c, ok)
      PROVE  PressureInv'
  <2> DEFINE r == call[c].range
  <2>1. r \in DynamicRanges
    BY <1>2 DEF CallsHaveRanges
  <2>2. NoSchedule \in CallRecords /\ NoSchedule.step = "idle"
    BY DEF NoSchedule, CallRecords
  <2>3. ASSUME NEW step \in {"schedule", "reset"}, Goes(c, step)
        PROVE  /\ [call[c] EXCEPT !.step = step] \in CallRecords
               /\ [call[c] EXCEPT !.step = step].step = step
               /\ [call[c] EXCEPT !.step = step].range = r
               /\ call' = [call EXCEPT ![c] = [call[c] EXCEPT !.step = step]]
    BY <2>3 DEF Goes, PressureTypes, CallRecords
  <2>4. /\ accepted \in [DynamicRanges -> 0..MergeWindow]
        /\ refused \in [DynamicRanges -> 0..MergeWindow]
    BY DEF PressureTypes
  <2>5. CASE Returns(c) \/ ResetBackoff(c)
    BY <2>1, <2>2, <2>4, <2>5, CallerStep DEF Returns, ResetBackoff
  <2>6. CASE /\ call[c].step \in {"check", "schedule"} /\ Refuse(c)
             /\ UNCHANGED <<pending, accepted>>
    BY <2>1, <2>2, <2>4, <2>6, CallerStep DEF Refuse
  <2>7. CASE BlockWithError(c)
    BY <2>6, <2>7 DEF BlockWithError
  <2>8. CASE CheckSchedule(c)
    <3>1. CASE ~BackingOff
      <4>1. Goes(c, "schedule") /\ UNCHANGED <<pending, accepted, refused>>
        BY <2>8, <3>1 DEF CheckSchedule
      <4> QED
        BY <2>1, <2>3, <2>4, <4>1, CallerStep
    <3>2. CASE BackingOff
      BY <2>6, <2>8, <3>2 DEF CheckSchedule
    <3> QED
      BY <3>1, <3>2
  <2>9. ASSUME NEW ok \in BOOLEAN, Schedule(c, ok) PROVE PressureInv'
    <3>1. CASE ok
      <4>1. /\ Goes(c, "reset") /\ UNCHANGED <<pending, refused>>
            /\ accepted' = [accepted EXCEPT ![r] = 0]
        BY <2>9, <3>1 DEF Schedule
      <4> QED
        BY <2>1, <2>3, <2>4, <4>1, CallerStep
    <3>2. CASE ~ok
      BY <2>6, <2>9, <3>2 DEF Schedule
    <3> QED
      BY <3>1, <3>2
  <2> QED
    BY <1>2, <2>5, <2>7, <2>8, <2>9
<1>3. ASSUME NEW c \in DynamicCallers,
             \/ Returns(c) \/ BlockWithError(c) \/ CheckSchedule(c) \/ ResetBackoff(c)
             \/ \E ok \in BOOLEAN : Schedule(c, ok)
      PROVE  PressureInv'
  <2>1. call[c].step # "idle"
    BY <1>3 DEF Returns, BlockWithError, CheckSchedule, ResetBackoff, Schedule
  <2> QED
    BY <1>2, <1>3, <2>1
<1>4. CASE UNCHANGED pressureVars
  BY <1>4 DEF pressureVars, PressureTypes, CallsHaveRanges, RecordsHaveOwners, MergedInWindow,
     HasOwner
<1> QED
  BY <1>1, <1>3, <1>4, UnitPassesInv DEF PressureNext

\* A call that is answered "merged" has a twin that is under way, or was scheduled or
\* refused inside the window, for any callers, ranges and window.
THEOREM MergedTwin == PressureSpec => []MergedHasTwin
<1>1. PressureInv => MergedHasTwin
  <2> SUFFICES ASSUME PressureInv, NEW c \in DynamicCallers, call[c].step = "merged"
               PROVE  \/ \E d \in DynamicCallers :
                           call[d].range = call[c].range /\ call[d].step \notin {"idle", "merged"}
                      \/ accepted[call[c].range] < MergeWindow
                      \/ refused[call[c].range] < MergeWindow
    BY DEF MergedHasTwin
  <2> DEFINE r == call[c].range
  <2>1. r \in DynamicRanges /\ pending[r] < MergeWindow /\ HasOwner(r)
    BY DEF PressureInv, CallsHaveRanges, MergedInWindow, RecordsHaveOwners
  <2> QED
    BY <2>1, BackPressureAssumption DEF HasOwner, PressureInv, PressureTypes
<1> QED
  BY <1>1, PressureInitInv, PressureNextInv, PTL DEF PressureSpec

\* No token twice.
Distinct(s) == \A i, j \in 1..Len(s) : s[i] = s[j] => i = j

\* What an Append adds.
LEMMA AppendFacts ==
    ASSUME NEW S, NEW s \in Seq(S), NEW x \in S
    PROVE  /\ Append(s, x) \in Seq(S)
           /\ ToSet(Append(s, x)) = ToSet(s) \cup {x}
           /\ Distinct(s) /\ x \notin ToSet(s) => Distinct(Append(s, x))
<1> DEFINE a == Append(s, x)
<1>1. /\ a \in Seq(S) /\ Len(a) = Len(s) + 1 /\ Len(s) \in Nat
      /\ \A i \in 1..Len(s) : a[i] = s[i]
      /\ a[Len(s) + 1] = x
      /\ DOMAIN a = 1..Len(a) /\ DOMAIN s = 1..Len(s)
  OBVIOUS
<1> HIDE DEF a
<1>2. ToSet(a) = ToSet(s) \cup {x}
  <2>1. ASSUME NEW t \in ToSet(a) PROVE t \in ToSet(s) \cup {x}
    <3>1. PICK i \in 1..Len(a) : a[i] = t
      BY <1>1, <2>1 DEF ToSet
    <3>2. i \in 1..Len(s) \/ i = Len(s) + 1
      BY <1>1, <3>1
    <3> QED
      BY <1>1, <3>1, <3>2 DEF ToSet
  <2>2. ASSUME NEW t \in ToSet(s) PROVE t \in ToSet(a)
    <3>1. PICK i \in 1..Len(s) : s[i] = t
      BY <1>1, <2>2 DEF ToSet
    <3>2. i \in 1..Len(a) /\ a[i] = t
      BY <1>1, <3>1
    <3> QED
      BY <1>1, <3>2 DEF ToSet
  <2>3. x \in ToSet(a)
    <3>1. Len(s) + 1 \in 1..Len(a)
      BY <1>1
    <3> QED
      BY <1>1, <3>1 DEF ToSet
  <2> QED
    BY <2>1, <2>2, <2>3
<1>3. ASSUME Distinct(s), x \notin ToSet(s) PROVE Distinct(a)
  <2> SUFFICES ASSUME NEW i \in 1..Len(a), NEW j \in 1..Len(a), a[i] = a[j] PROVE i = j
    BY DEF Distinct
  <2>1. \A k \in 1..Len(s) : s[k] # x
    BY <1>1, <1>3 DEF ToSet
  <2>2. i \in 1..Len(s) \/ i = Len(s) + 1
    BY <1>1
  <2>3. j \in 1..Len(s) \/ j = Len(s) + 1
    BY <1>1
  <2> QED
    BY <1>1, <1>3, <2>1, <2>2, <2>3 DEF Distinct
<1> QED
  BY <1>1, <1>2, <1>3 DEF a

\* What a Tail leaves.
LEMMA TailFacts ==
    ASSUME NEW S, NEW s \in Seq(S), s # <<>>
    PROVE  /\ Tail(s) \in Seq(S) /\ Head(s) \in ToSet(s) /\ Head(s) \in S
           /\ ToSet(s) = ToSet(Tail(s)) \cup {Head(s)}
           /\ Distinct(s) => Distinct(Tail(s)) /\ Head(s) \notin ToSet(Tail(s))
<1> DEFINE a == Tail(s)
           x == Head(s)
<1>1. /\ a \in Seq(S) /\ Len(s) = Len(a) + 1 /\ Len(a) \in Nat /\ x \in S
      /\ \A i \in 1..Len(a) : a[i] = s[i + 1]
      /\ s[1] = x
      /\ DOMAIN a = 1..Len(a) /\ DOMAIN s = 1..Len(s)
  OBVIOUS
<1> HIDE DEF a, x
<1>2. x \in ToSet(s)
  <2>1. 1 \in 1..Len(s)
    BY <1>1
  <2> QED
    BY <1>1, <2>1 DEF ToSet
<1>3. ASSUME NEW t \in ToSet(s) PROVE t \in ToSet(a) \cup {x}
  <2>1. PICK i \in 1..Len(s) : s[i] = t
    BY <1>1, <1>3 DEF ToSet
  <2>2. CASE i = 1
    BY <1>1, <2>1, <2>2
  <2>3. CASE i # 1
    <3>1. i - 1 \in 1..Len(a) /\ a[i - 1] = t
      BY <1>1, <2>1, <2>3
    <3> QED
      BY <1>1, <3>1 DEF ToSet
  <2> QED
    BY <2>2, <2>3
<1>4. ASSUME NEW t \in ToSet(a) PROVE t \in ToSet(s)
  <2>1. PICK i \in 1..Len(a) : a[i] = t
    BY <1>1, <1>4 DEF ToSet
  <2>2. i + 1 \in 1..Len(s) /\ s[i + 1] = t
    BY <1>1, <2>1
  <2> QED
    BY <1>1, <2>2 DEF ToSet
<1>5. ASSUME Distinct(s) PROVE Distinct(a) /\ x \notin ToSet(a)
  <2>1. Distinct(a)
    <3> SUFFICES ASSUME NEW i \in 1..Len(a), NEW j \in 1..Len(a), a[i] = a[j] PROVE i = j
      BY DEF Distinct
    <3>1. i + 1 \in 1..Len(s) /\ j + 1 \in 1..Len(s) /\ s[i + 1] = s[j + 1]
      BY <1>1
    <3>2. i + 1 = j + 1
      BY <1>5, <3>1 DEF Distinct
    <3> QED
      BY <3>2
  <2>2. ASSUME x \in ToSet(a) PROVE FALSE
    <3>1. PICK i \in 1..Len(a) : a[i] = x
      BY <1>1, <2>2 DEF ToSet
    <3>2. i + 1 \in 1..Len(s) /\ 1 \in 1..Len(s) /\ s[i + 1] = s[1]
      BY <1>1, <3>1
    <3>3. i + 1 = 1
      BY <1>5, <3>2 DEF Distinct
    <3> QED
      BY <3>3
  <2> QED
    BY <2>1, <2>2
<1> QED
  BY <1>1, <1>2, <1>3, <1>4, <1>5 DEF a, x

\* The places of a token in a sequence without duplicates.
LEMMA PlacesOf ==
    ASSUME NEW S, NEW s \in Seq(S), Distinct(s), NEW t
    PROVE  Cardinality({i \in DOMAIN s : s[i] = t}) = IF t \in ToSet(s) THEN 1 ELSE 0
<1> DEFINE P == {i \in DOMAIN s : s[i] = t}
<1>0. DOMAIN s = 1..Len(s)
  OBVIOUS
<1>1. CASE t \in ToSet(s)
  <2>1. PICK i \in DOMAIN s : s[i] = t
    BY <1>1 DEF ToSet
  <2>2. P = {i}
    BY <1>0, <2>1 DEF Distinct
  <2> QED
    BY <1>1, <2>2, FS_Singleton
<1>2. CASE t \notin ToSet(s)
  <2>1. P = {}
    BY <1>2 DEF ToSet
  <2> QED
    BY <1>2, <2>1, FS_EmptySet
<1> QED
  BY <1>1, <1>2

(***************************************************************************)
(* The token enricher                                                      *)
(***************************************************************************)
\* An idle caller's token is any, in Tokens or not.
TokenValues == Tokens \cup {Away.token}

AskerRecords == [step : {"away", "missed", "send", "evict", "resend"}, token : TokenValues]

Carrying(g) == asker[g].step \in {"send", "evict", "resend"}

Waiting == ToSet(tokenQueue) \cup ToSet(tokenBatch)

EnricherTypes ==
    /\ tokenQueue \in Seq(TokenValues)
    /\ tokenBatch \in Seq(TokenValues)
    /\ asker \in [Askers -> AskerRecords]
    /\ batchStep = "resolve" => tokenBatch # <<>>

\* No token is in two places.
PlacesApart ==
    /\ Distinct(tokenQueue) /\ Distinct(tokenBatch)
    /\ ToSet(tokenQueue) \cap ToSet(tokenBatch) = {}
    /\ \A g \in Askers : Carrying(g) => asker[g].token \notin Waiting
    /\ \A g, h \in Askers :
          Carrying(g) /\ Carrying(h) /\ asker[g].token = asker[h].token => g = h

\* A token under way is marked.
WayMarked ==
    /\ Waiting \subseteq inflight
    /\ \A g \in Askers : Carrying(g) => asker[g].token \in inflight

\* A marked token is under way or given up.
MarkHasReason ==
    \A t \in inflight : \/ t \in Waiting \cup abandoned
                        \/ \E g \in Askers : Carrying(g) /\ asker[g].token = t

EnricherInv == EnricherTypes /\ PlacesApart /\ WayMarked /\ MarkHasReason

\* With each token in at most one place, the count of its places is 0 or 1.
LEMMA CountOfPlaces ==
    ASSUME EnricherTypes, PlacesApart, NEW t
    PROVE  UnderWayCount(t) = IF \/ t \in Waiting
                                 \/ \E g \in Askers : Carrying(g) /\ asker[g].token = t
                              THEN 1 ELSE 0
<1> DEFINE C == Cardinality(Carriers(t))
           Q == Cardinality({i \in DOMAIN tokenQueue : tokenQueue[i] = t})
           B == Cardinality({i \in DOMAIN tokenBatch : tokenBatch[i] = t})
<1>1. Q = IF t \in ToSet(tokenQueue) THEN 1 ELSE 0
  BY PlacesOf DEF EnricherTypes, PlacesApart
<1>2. B = IF t \in ToSet(tokenBatch) THEN 1 ELSE 0
  BY PlacesOf DEF EnricherTypes, PlacesApart
<1>3. C = IF \E g \in Askers : Carrying(g) /\ asker[g].token = t THEN 1 ELSE 0
  <2>1. CASE \E g \in Askers : Carrying(g) /\ asker[g].token = t
    <3>1. PICK g \in Askers : Carrying(g) /\ asker[g].token = t
      BY <2>1
    <3>2. Carriers(t) = {g}
      BY <3>1 DEF Carriers, Carrying, PlacesApart
    <3> QED
      BY <2>1, <3>2, FS_Singleton
  <2>2. CASE ~ \E g \in Askers : Carrying(g) /\ asker[g].token = t
    <3>1. Carriers(t) = {}
      BY <2>2 DEF Carriers, Carrying
    <3> QED
      BY <2>2, <3>1, FS_EmptySet
  <2> QED
    BY <2>1, <2>2
<1>4. UnderWayCount(t) = C + Q + B
  BY DEF UnderWayCount
<1> HIDE DEF C, Q, B
<1>5. CASE \E g \in Askers : Carrying(g) /\ asker[g].token = t
  <2>1. t \notin ToSet(tokenQueue) /\ t \notin ToSet(tokenBatch)
    BY <1>5 DEF PlacesApart, Waiting
  <2>2. C = 1 /\ Q = 0 /\ B = 0
    BY <1>1, <1>2, <1>3, <1>5, <2>1
  <2> QED
    BY <1>4, <1>5, <2>2
<1>6. CASE ~ \E g \in Askers : Carrying(g) /\ asker[g].token = t
  <2>1. C = 0
    BY <1>3, <1>6
  <2>2. ~(t \in ToSet(tokenQueue) /\ t \in ToSet(tokenBatch))
    BY DEF PlacesApart
  <2>3. CASE t \in Waiting
    <3>1. Q + B = 1
      BY <1>1, <1>2, <2>2, <2>3 DEF Waiting
    <3>2. Q \in Int /\ B \in Int
      BY <1>1, <1>2
    <3> QED
      BY <1>4, <2>1, <2>3, <3>1, <3>2
  <2>4. CASE t \notin Waiting
    <3>1. Q = 0 /\ B = 0
      BY <1>1, <1>2, <2>4 DEF Waiting
    <3> QED
      BY <1>4, <1>6, <2>1, <2>4, <3>1
  <2> QED
    BY <2>3, <2>4
<1> QED
  BY <1>5, <1>6

\* Nothing is under way at the start.
LEMMA EnricherInitInv == EnricherInit => EnricherInv
<1> SUFFICES ASSUME EnricherInit PROVE EnricherInv
  OBVIOUS
<1>1. ToSet(<<>>) = {} /\ Distinct(<<>>) /\ <<>> \in Seq(TokenValues)
  BY DEF ToSet, Distinct
<1>2. Away \in AskerRecords /\ Away.step = "away"
  BY DEF AskerRecords, Away, TokenValues
<1>3. EnricherTypes
  BY <1>1, <1>2 DEF EnricherInit, EnricherTypes
<1>4. \A g \in Askers : ~Carrying(g)
  BY <1>2 DEF EnricherInit, Carrying
<1> QED
  BY <1>1, <1>3, <1>4 DEF EnricherInit, EnricherInv, PlacesApart, WayMarked, MarkHasReason,
     Waiting

\* Caller g moves, the lists stay: it carries what it carried, or nothing, if its token
\* is given up or it carried none.
LEMMA CallerMoves ==
    ASSUME EnricherInv, NEW g \in Askers, NEW k \in AskerRecords,
           asker' = [asker EXCEPT ![g] = k],
           UNCHANGED <<tokenQueue, tokenBatch, batchStep, inflight>>,
           abandoned \subseteq abandoned',
           k.step \in {"send", "evict", "resend"} => Carrying(g) /\ k.token = asker[g].token,
           Carrying(g) => \/ k.step \in {"send", "evict", "resend"}
                          \/ asker[g].token \in abandoned'
    PROVE  EnricherInv'
<1> USE DEF EnricherInv, Waiting
<1>1. asker'[g] = k /\ \A h \in Askers \ {g} : asker'[h] = asker[h]
  BY DEF EnricherTypes
<1>2. EnricherTypes'
  BY DEF EnricherTypes
<1>3. \A h \in Askers : Carrying(h)' => Carrying(h) /\ asker'[h].token = asker[h].token
  BY <1>1 DEF Carrying
<1>4. PlacesApart' /\ WayMarked'
  BY <1>3 DEF PlacesApart, WayMarked
<1>5. MarkHasReason'
  <2> SUFFICES ASSUME NEW t \in inflight
               PROVE  \/ t \in Waiting \cup abandoned'
                      \/ \E h \in Askers : Carrying(h)' /\ asker'[h].token = t
    BY DEF MarkHasReason
  <2>1. CASE t \in Waiting \cup abandoned
    BY <2>1
  <2>2. ASSUME NEW h \in Askers, Carrying(h), asker[h].token = t
        PROVE  t \in abandoned' \/ \E i \in Askers : Carrying(i)' /\ asker'[i].token = t
    <3>1. CASE h = g
      BY <1>1, <2>2, <3>1 DEF Carrying
    <3>2. CASE h # g
      BY <1>1, <2>2, <3>2 DEF Carrying
    <3> QED
      BY <3>1, <3>2
  <2> QED
    BY <2>1, <2>2 DEF MarkHasReason
<1> QED
  BY <1>2, <1>4, <1>5

\* The record of a caller after a step of its own.
LEMMA AskerRecord ==
    ASSUME EnricherInv, NEW g \in Askers, NEW step \in {"send", "evict", "resend"}
    PROVE  /\ Away \in AskerRecords /\ Away.step = "away"
           /\ [asker[g] EXCEPT !.step = step] \in AskerRecords
           /\ [asker[g] EXCEPT !.step = step].step = step
           /\ [asker[g] EXCEPT !.step = step].token = asker[g].token
           /\ asker[g].token \in TokenValues
           /\ [asker EXCEPT ![g].step = step] = [asker EXCEPT ![g] = [asker[g] EXCEPT !.step = step]]
  BY DEF EnricherInv, EnricherTypes, AskerRecords, Away, TokenValues

\* The caller that sets a mark is the only one to carry its token.
LEMMA MarkInflightInv ==
    ASSUME EnricherInv, NEW g \in Askers, MarkInflight(g)
    PROVE  EnricherInv'
<1> DEFINE t == asker[g].token
           k == [asker[g] EXCEPT !.step = "send"]
<1>1. /\ k \in AskerRecords /\ k.step = "send" /\ k.token = t /\ Away \in AskerRecords
      /\ Away.step = "away"
  BY AskerRecord
<1>2. CASE t \in inflight
  <2>1. inflight' = inflight /\ asker' = [asker EXCEPT ![g] = Away] /\ ~Carrying(g)
    BY <1>2 DEF MarkInflight, Carrying, EnricherInv, EnricherTypes
  <2> QED
    BY <1>1, <2>1, CallerMoves DEF MarkInflight
<1>3. CASE t \notin inflight
  <2>1. /\ asker' = [asker EXCEPT ![g] = k] /\ inflight' = inflight \cup {t}
        /\ UNCHANGED <<tokenQueue, tokenBatch, batchStep, abandoned>>
        /\ ~Carrying(g)
    BY <1>3 DEF MarkInflight, Carrying, EnricherInv, EnricherTypes
  <2>2. asker'[g] = k /\ \A h \in Askers \ {g} : asker'[h] = asker[h]
    BY <2>1 DEF EnricherInv, EnricherTypes
  <2> HIDE DEF k, t
  <2>3. EnricherTypes'
    BY <1>1, <2>1 DEF EnricherInv, EnricherTypes
  <2>4. t \notin Waiting /\ \A h \in Askers : Carrying(h) => asker[h].token # t
    BY <1>3 DEF EnricherInv, WayMarked
  <2>5. \A h \in Askers \ {g} : Carrying(h)' <=> Carrying(h)
    BY <2>2 DEF Carrying
  <2>6. Waiting' = Waiting
    BY <2>1 DEF Waiting
  <2>7. PlacesApart'
    BY <1>1, <2>1, <2>2, <2>4, <2>5, <2>6 DEF EnricherInv, PlacesApart
  <2>8. WayMarked'
    BY <1>1, <2>1, <2>2, <2>5, <2>6 DEF EnricherInv, WayMarked
  <2>9. MarkHasReason'
    <3>1. Carrying(g)'
      BY <1>1, <2>2 DEF Carrying
    <3> QED
      BY <1>1, <2>1, <2>2, <2>5, <2>6, <3>1 DEF EnricherInv, MarkHasReason
  <2> QED
    BY <2>3, <2>7, <2>8, <2>9 DEF EnricherInv
<1> QED
  BY <1>2, <1>3

\* A caller hands its token to the queue.
LEMMA QueuedInv ==
    ASSUME EnricherInv, NEW g \in Askers, Carrying(g), Queued(g),
           UNCHANGED <<inflight, tokenBatch, batchStep, abandoned>>
    PROVE  EnricherInv'
<1> DEFINE t == asker[g].token
<1>1. t \in TokenValues /\ Away \in AskerRecords /\ Away.step = "away"
  BY AskerRecord
<1>2. /\ tokenQueue' = Append(tokenQueue, t) /\ asker' = [asker EXCEPT ![g] = Away]
  BY DEF Queued
<1>3. /\ tokenQueue \in Seq(TokenValues) /\ Distinct(tokenQueue) /\ t \notin Waiting
      /\ t \in inflight
  BY DEF EnricherInv, EnricherTypes, PlacesApart, WayMarked
<1>4. /\ tokenQueue' \in Seq(TokenValues) /\ Distinct(tokenQueue')
      /\ ToSet(tokenQueue') = ToSet(tokenQueue) \cup {t}
  BY <1>1, <1>2, <1>3, AppendFacts DEF Waiting
<1>5. asker'[g] = Away /\ \A h \in Askers \ {g} : asker'[h] = asker[h]
  BY <1>2 DEF EnricherInv, EnricherTypes
<1>6. ~Carrying(g)' /\ \A h \in Askers \ {g} : Carrying(h)' <=> Carrying(h)
  BY <1>1, <1>5 DEF Carrying
<1>7. \A h \in Askers \ {g} : Carrying(h) => asker[h].token # t
  BY DEF EnricherInv, PlacesApart
<1> HIDE DEF t
<1>8. Waiting' = Waiting \cup {t}
  BY <1>4 DEF Waiting
<1>9. EnricherTypes'
  BY <1>1, <1>2, <1>4 DEF EnricherInv, EnricherTypes
<1>10. PlacesApart'
  <2>1. Distinct(tokenQueue') /\ Distinct(tokenBatch')
    BY <1>4 DEF EnricherInv, PlacesApart
  <2>2. ToSet(tokenQueue') \cap ToSet(tokenBatch') = {}
    BY <1>3, <1>4 DEF EnricherInv, PlacesApart, Waiting
  <2>3. \A h \in Askers : Carrying(h)' => h # g /\ Carrying(h) /\ asker'[h] = asker[h]
    BY <1>5, <1>6
  <2>4. \A h \in Askers : Carrying(h)' => asker'[h].token \notin Waiting'
    BY <1>7, <1>8, <2>3 DEF EnricherInv, PlacesApart
  <2>5. \A h, i \in Askers :
           Carrying(h)' /\ Carrying(i)' /\ asker'[h].token = asker'[i].token => h = i
    BY <2>3 DEF EnricherInv, PlacesApart
  <2> QED
    BY <2>1, <2>2, <2>4, <2>5 DEF PlacesApart
<1>11. WayMarked'
  BY <1>3, <1>5, <1>6, <1>8 DEF EnricherInv, WayMarked
<1>12. MarkHasReason'
  <2> SUFFICES ASSUME NEW u \in inflight
               PROVE  \/ u \in Waiting' \cup abandoned
                      \/ \E h \in Askers : Carrying(h)' /\ asker'[h].token = u
    BY DEF MarkHasReason
  <2>1. CASE u = t
    BY <1>8, <2>1
  <2>2. CASE u # t
    BY <1>5, <1>6, <1>8, <2>2 DEF EnricherInv, MarkHasReason, t
  <2> QED
    BY <2>1, <2>2
<1> QED
  BY <1>9, <1>10, <1>11, <1>12 DEF EnricherInv

\* The oldest entry of the queue is given up; the caller goes on carrying its own token.
LEMMA EvictOldestInv ==
    ASSUME EnricherInv, NEW g \in Askers, EvictOldest(g)
    PROVE  EnricherInv'
<1> DEFINE t == Head(tokenQueue)
           k == [asker[g] EXCEPT !.step = "resend"]
<1>1. /\ k \in AskerRecords /\ k.step = "resend" /\ k.token = asker[g].token
      /\ asker' = [asker EXCEPT ![g] = k]
  BY AskerRecord DEF EvictOldest
<1>2. /\ tokenQueue' = Tail(tokenQueue) /\ tokenQueue # <<>> /\ abandoned' = abandoned \cup {t}
      /\ UNCHANGED <<inflight, tokenBatch, batchStep>> /\ Carrying(g)
  BY DEF EvictOldest, Carrying
<1>3. tokenQueue \in Seq(TokenValues) /\ Distinct(tokenQueue)
  BY DEF EnricherInv, EnricherTypes, PlacesApart
<1>4. /\ tokenQueue' \in Seq(TokenValues) /\ Distinct(tokenQueue')
      /\ ToSet(tokenQueue) = ToSet(tokenQueue') \cup {t}
  BY <1>2, <1>3, TailFacts
<1>5. asker'[g] = k /\ \A h \in Askers \ {g} : asker'[h] = asker[h]
  BY <1>1 DEF EnricherInv, EnricherTypes
<1>6. \A h \in Askers : (Carrying(h)' <=> Carrying(h)) /\ asker'[h].token = asker[h].token
  BY <1>1, <1>2, <1>5 DEF Carrying
<1> HIDE DEF t, k
<1>7. Waiting = Waiting' \cup {t} /\ Waiting' \subseteq Waiting
  BY <1>2, <1>4 DEF Waiting
<1>8. EnricherTypes'
  BY <1>1, <1>2, <1>4 DEF EnricherInv, EnricherTypes
<1>9. PlacesApart'
  BY <1>2, <1>4, <1>6, <1>7 DEF EnricherInv, PlacesApart
<1>10. WayMarked' /\ MarkHasReason'
  BY <1>2, <1>6, <1>7 DEF EnricherInv, WayMarked, MarkHasReason
<1> QED
  BY <1>8, <1>9, <1>10 DEF EnricherInv

\* The worker moves a token from the queue to its batch.
LEMMA CollectInv ==
    ASSUME EnricherInv, Collect
    PROVE  EnricherInv'
<1> DEFINE t == Head(tokenQueue)
<1>1. /\ tokenQueue' = Tail(tokenQueue) /\ tokenQueue # <<>>
      /\ tokenBatch' = Append(tokenBatch, t)
      /\ UNCHANGED <<inflight, asker, batchStep, abandoned>> /\ batchStep = "collect"
  BY DEF Collect
<1>2. /\ tokenQueue \in Seq(TokenValues) /\ Distinct(tokenQueue)
      /\ tokenBatch \in Seq(TokenValues) /\ Distinct(tokenBatch)
  BY DEF EnricherInv, EnricherTypes, PlacesApart
<1>3. /\ tokenQueue' \in Seq(TokenValues) /\ Distinct(tokenQueue') /\ t \in TokenValues
      /\ ToSet(tokenQueue) = ToSet(tokenQueue') \cup {t} /\ t \notin ToSet(tokenQueue')
  BY <1>1, <1>2, TailFacts
<1>4. t \notin ToSet(tokenBatch)
  BY <1>3 DEF EnricherInv, PlacesApart
<1>5. /\ tokenBatch' \in Seq(TokenValues) /\ Distinct(tokenBatch')
      /\ ToSet(tokenBatch') = ToSet(tokenBatch) \cup {t}
  BY <1>1, <1>2, <1>3, <1>4, AppendFacts
<1> HIDE DEF t
<1>6. Waiting' = Waiting /\ ToSet(tokenQueue') \cap ToSet(tokenBatch') = {}
  BY <1>3, <1>5 DEF Waiting, EnricherInv, PlacesApart
<1>7. \A h \in Askers : Carrying(h)' <=> Carrying(h)
  BY <1>1 DEF Carrying
<1> QED
  BY <1>1, <1>3, <1>5, <1>6, <1>7
     DEF EnricherInv, EnricherTypes, PlacesApart, WayMarked, MarkHasReason

\* A failed multicall gives up the whole batch.
LEMMA MulticallFailsInv ==
    ASSUME EnricherInv, MulticallFails
    PROVE  EnricherInv'
<1>1. /\ tokenBatch' = <<>> /\ abandoned' = abandoned \cup ToSet(tokenBatch)
      /\ batchStep' = "wait"
      /\ UNCHANGED <<inflight, tokenQueue, asker>>
  BY DEF MulticallFails
<1>2. ToSet(<<>>) = {} /\ Distinct(<<>>) /\ <<>> \in Seq(TokenValues)
  BY DEF ToSet, Distinct
<1>3. Waiting' = ToSet(tokenQueue)
  BY <1>1, <1>2 DEF Waiting
<1>4. \A h \in Askers : Carrying(h)' <=> Carrying(h)
  BY <1>1 DEF Carrying
<1>5. EnricherTypes'
  BY <1>1, <1>2 DEF EnricherInv, EnricherTypes
<1>6. PlacesApart'
  BY <1>1, <1>2, <1>3, <1>4 DEF EnricherInv, PlacesApart, Waiting
<1>7. WayMarked' /\ MarkHasReason'
  BY <1>1, <1>3, <1>4 DEF EnricherInv, WayMarked, MarkHasReason, Waiting
<1> QED
  BY <1>5, <1>6, <1>7 DEF EnricherInv

\* An answer takes the token out of the batch and its mark with it.
LEMMA ResolveInv ==
    ASSUME EnricherInv, NEW found \in BOOLEAN, Resolve(found)
    PROVE  EnricherInv'
<1> DEFINE t == Head(tokenBatch)
<1>1. /\ tokenBatch' = Tail(tokenBatch) /\ inflight' = inflight \ {t}
      /\ UNCHANGED <<tokenQueue, asker, abandoned>> /\ tokenBatch # <<>>
      /\ batchStep' = "resolve" => tokenBatch' # <<>>
  BY DEF Resolve, EnricherInv, EnricherTypes
<1>2. tokenBatch \in Seq(TokenValues) /\ Distinct(tokenBatch)
  BY DEF EnricherInv, EnricherTypes, PlacesApart
<1>3. /\ tokenBatch' \in Seq(TokenValues) /\ Distinct(tokenBatch')
      /\ ToSet(tokenBatch) = ToSet(tokenBatch') \cup {t} /\ t \notin ToSet(tokenBatch')
  BY <1>1, <1>2, TailFacts
<1> HIDE DEF t
<1>4. Waiting = Waiting' \cup {t} /\ t \notin Waiting' /\ Waiting' \subseteq Waiting
  BY <1>1, <1>3 DEF Waiting, EnricherInv, PlacesApart
<1>5. \A h \in Askers : (Carrying(h)' <=> Carrying(h)) /\ asker'[h] = asker[h]
  BY <1>1 DEF Carrying
<1>6. \A h \in Askers : Carrying(h) => asker[h].token # t
  BY <1>4 DEF EnricherInv, PlacesApart
<1>7. EnricherTypes'
  BY <1>1, <1>3 DEF EnricherInv, EnricherTypes
<1>8. PlacesApart'
  BY <1>1, <1>3, <1>4, <1>5 DEF EnricherInv, PlacesApart
<1>9. WayMarked' /\ MarkHasReason'
  BY <1>1, <1>4, <1>5, <1>6 DEF EnricherInv, WayMarked, MarkHasReason
<1> QED
  BY <1>7, <1>8, <1>9 DEF EnricherInv

\* Every step of the callers and of the worker keeps the invariant.
LEMMA EnricherNextInv ==
    ASSUME EnricherInv, [EnricherNext]_enricherVars
    PROVE  EnricherInv'
<1>1. ASSUME NEW g \in Askers, NEW t \in Tokens, CacheMiss(g, t) PROVE EnricherInv'
  <2> DEFINE k == [step |-> "missed", token |-> t]
  <2>1. k \in AskerRecords
    BY DEF AskerRecords, TokenValues
  <2> QED
    BY <1>1, <2>1, CallerMoves DEF CacheMiss, Carrying
<1>2. ASSUME NEW g \in Askers, QueueToken(g) \/ SendAfterEviction(g) PROVE EnricherInv'
  BY <1>2, QueuedInv DEF QueueToken, SendAfterEviction, Carrying
<1>3. ASSUME NEW g \in Askers, QueueFull(g) PROVE EnricherInv'
  BY <1>3, AskerRecord, CallerMoves DEF QueueFull, Carrying
<1>4. ASSUME NEW g \in Askers, EvictNothing(g) PROVE EnricherInv'
  BY <1>4, AskerRecord, CallerMoves DEF EvictNothing, Carrying
<1>5. CASE /\ UNCHANGED <<inflight, tokenQueue, asker, tokenBatch, abandoned>>
           /\ batchStep' = "resolve" => tokenBatch # <<>>
  BY <1>5 DEF EnricherInv, EnricherTypes, PlacesApart, WayMarked, MarkHasReason, Waiting, Carrying
<1>6. CASE BatchTick \/ CollectEnds \/ StopEnricher \/ UNCHANGED enricherVars
  BY <1>5, <1>6 DEF BatchTick, CollectEnds, StopEnricher, enricherVars, EnricherInv, EnricherTypes
<1> QED
  BY <1>1, <1>2, <1>3, <1>4, <1>6, MarkInflightInv, EvictOldestInv, CollectInv, MulticallFailsInv,
     ResolveInv
     DEF EnricherNext

\* No race of look-ups, marks, evictions and batches puts a token under way twice, for any
\* tokens, callers, queue capacity and batch size.
THEOREM TokenOnce == EnricherSpec => []OnceUnderWay
<1>1. EnricherInv => OnceUnderWay
  BY CountOfPlaces DEF EnricherInv, OnceUnderWay
<1> QED
  BY <1>1, EnricherInitInv, EnricherNextInv, PTL DEF EnricherSpec

\* A mark never outlives its token's way through the queue and the batch, except where the
\* token was given up.
THEOREM MarksHaveReasons == EnricherSpec => []MarksExplained
<1>1. EnricherInv => MarksExplained
  BY CountOfPlaces DEF EnricherInv, MarksExplained, MarkHasReason
<1> QED
  BY <1>1, EnricherInitInv, EnricherNextInv, PTL DEF EnricherSpec

(***************************************************************************)
(* The sliding-window limiter                                              *)
(***************************************************************************)
\* Every index the ring computes is below twice its size.
LEMMA RingPlace ==
    ASSUME NEW L \in Nat \ {0}, NEW o \in 0..(L - 1), NEW i \in 0..L
    PROVE  /\ o + i < L => (o + i) % L = o + i
           /\ o + i >= L => (o + i) % L = o + i - L
           /\ (o + i) % L \in 0..(L - 1)
<1>1. ASSUME NEW x \in Nat, x < L PROVE x % L = x
  BY <1>1
<1>2. ASSUME NEW x \in Nat, L <= x, x < 2 * L PROVE x % L = x - L
  BY <1>2
<1> QED
  BY <1>1, <1>2

\* Moving the head by e renumbers the entries by e.
LEMMA RingShift ==
    ASSUME NEW L \in Nat \ {0}, NEW o \in 0..(L - 1), NEW e \in Nat, NEW i \in Nat, e + i <= L
    PROVE  (((o + e) % L) + i) % L = (o + (e + i)) % L
<1>1. e \in 0..L /\ i \in 0..L /\ e + i \in 0..L
  OBVIOUS
<1> DEFINE p == (o + e) % L
<1>2. /\ o + e < L => p = o + e
      /\ o + e >= L => p = o + e - L
      /\ p \in 0..(L - 1)
  BY <1>1, RingPlace
<1> HIDE DEF p
<1>3. /\ p + i < L => (p + i) % L = p + i
      /\ p + i >= L => (p + i) % L = p + i - L
  BY <1>1, <1>2, RingPlace
<1>4. /\ o + (e + i) < L => (o + (e + i)) % L = o + (e + i)
      /\ o + (e + i) >= L => (o + (e + i)) % L = o + (e + i) - L
  BY <1>1, RingPlace
<1>5. (p + i) % L = (o + (e + i)) % L
  BY <1>2, <1>3, <1>4
<1> QED
  BY <1>5 DEF p

\* Two entries less than a round apart have different places.
LEMMA RingApart ==
    ASSUME NEW L \in Nat \ {0}, NEW o \in 0..(L - 1), NEW a \in Nat, NEW b \in Nat,
           a < b, b - a < L, b <= L
    PROVE  (o + a) % L # (o + b) % L
<1>1. a \in 0..L /\ b \in 0..L
  OBVIOUS
<1>2. /\ o + a < L => (o + a) % L = o + a
      /\ o + a >= L => (o + a) % L = o + a - L
  BY <1>1, RingPlace
<1>3. /\ o + b < L => (o + b) % L = o + b
      /\ o + b >= L => (o + b) % L = o + b - L
  BY <1>1, RingPlace
<1> QED
  BY <1>2, <1>3

WindowTypes ==
    /\ stamps \in [Slots -> Ages]
    /\ oldest \in Slots /\ inWindow \in 0..WindowLimit
    /\ sleepLeft \in [Waiters -> 0..WindowLength]
    /\ granted \in Seq(0..WindowLength)

\* The newer a grant, the smaller its age.
NewestFirst == \A i, j \in 1..Len(granted) : i <= j => granted[i] <= granted[j]

\* The ring, read from its newest entry back, holds the ages of all grants of the last
\* window, and behind them entries that have left it and are not evicted yet.
RingHoldsGrants ==
    /\ Len(granted) <= inWindow
    /\ \A j \in 1..inWindow :
          /\ j <= Len(granted) => stamps[Slot(inWindow - j)] = granted[j]
          /\ j > Len(granted) => stamps[Slot(inWindow - j)] > WindowLength

\* Timers run only while the ring is full, and not beyond the oldest entry's time.
TimersInWindow ==
    \A c \in Waiters :
       sleepLeft[c] > 0 => inWindow = WindowLimit /\ stamps[oldest] + sleepLeft[c] <= WindowLength

WindowInv == WindowTypes /\ NewestFirst /\ RingHoldsGrants /\ TimersInWindow

\* Eviction drops exactly the entries that are no grants of the last window.
LEMMA EvictedIs ==
    ASSUME WindowInv
    PROVE  /\ Evicted = inWindow - Len(granted)
           /\ Evicted \in Nat /\ Len(granted) \in Nat /\ inWindow \in Nat
           /\ Len(granted) <= inWindow /\ inWindow <= WindowLimit
<1> USE RateWindowAssumption
<1> DEFINE n == inWindow
           g == Len(granted)
<1>1. n \in Nat /\ g \in Nat /\ g <= n /\ n <= WindowLimit
  BY DEF WindowInv, WindowTypes, RingHoldsGrants
<1>2. \A j \in 1..g : granted[j] \in 0..WindowLength
  BY DEF WindowInv, WindowTypes
<1>3. \A i \in 0..(n - g - 1) : Outside(i)
  <2> SUFFICES ASSUME NEW i \in 0..(n - g - 1) PROVE Outside(i)
    OBVIOUS
  <2>1. n - i \in 1..n /\ n - i > g /\ n - (n - i) = i
    BY <1>1
  <2> QED
    BY <2>1 DEF WindowInv, RingHoldsGrants, Outside
<1>4. n - g < n => ~Outside(n - g)
  <2> SUFFICES ASSUME n - g < n PROVE ~Outside(n - g)
    OBVIOUS
  <2>1. g \in 1..n /\ g \in 1..g
    BY <1>1
  <2>2. stamps[Slot(n - g)] = granted[g] /\ granted[g] \in 0..WindowLength
    BY <1>1, <1>2, <2>1 DEF WindowInv, RingHoldsGrants
  <2> QED
    BY <2>2 DEF Outside
<1>5. n - g \in 0..n
  BY <1>1
<1> DEFINE Fits(k) == (\A i \in 0..(k - 1) : Outside(i)) /\ (k < n => ~Outside(k))
<1>6. Evicted = CHOOSE k \in 0..n : Fits(k)
  BY DEF Evicted
<1>7. Fits(n - g)
  BY <1>3, <1>4
<1> HIDE DEF n, g
<1>8. ASSUME NEW k \in 0..n, Fits(k) PROVE k = n - g
  <2>1. CASE k < n - g
    <3>1. k \in 0..(n - g - 1) /\ k < n
      BY <1>1, <2>1
    <3> QED
      BY <3>1, <1>3, <1>8
  <2>2. CASE k > n - g
    <3>1. n - g \in 0..(k - 1) /\ n - g < n
      BY <1>1, <2>2
    <3> QED
      BY <3>1, <1>4, <1>8
  <2> QED
    BY <1>1, <2>1, <2>2
<1> HIDE DEF Fits
<1>9. Evicted = n - g
  BY <1>5, <1>6, <1>7, <1>8
<1> QED
  BY <1>1, <1>9 DEF n, g

\* A goroutine whose timer runs has the whole quota before it.
LEMMA TimerMeansFull ==
    ASSUME WindowInv, NEW c \in Waiters, sleepLeft[c] > 0
    PROVE  Len(granted) = WindowLimit /\ inWindow = WindowLimit
<1> USE RateWindowAssumption
<1>1. inWindow = WindowLimit /\ stamps[oldest] + sleepLeft[c] <= WindowLength
  BY DEF WindowInv, TimersInWindow
<1>2. stamps[oldest] <= WindowLength /\ oldest \in 0..(WindowLimit - 1)
  BY <1>1 DEF WindowInv, WindowTypes, Slots, Ages
<1>3. Slot(0) = oldest
  BY <1>2 DEF Slot
<1>4. Len(granted) \in Nat /\ Len(granted) <= inWindow
  BY EvictedIs
<1>5. ~(inWindow > Len(granted))
  <2> SUFFICES ASSUME inWindow > Len(granted) PROVE FALSE
    OBVIOUS
  <2>1. inWindow \in 1..inWindow /\ inWindow - inWindow = 0
    BY <1>1
  <2>2. stamps[Slot(0)] > WindowLength
    BY <2>1 DEF WindowInv, RingHoldsGrants
  <2>3. stamps[oldest] \in Int
    BY <1>2 DEF WindowInv, WindowTypes, Slots, Ages
  <2> QED
    BY <1>2, <1>3, <2>2, <2>3
<1> QED
  BY <1>1, <1>4, <1>5

\* The invariant holds before the first request.
LEMMA WindowInitInv == WindowInit => WindowInv
<1> SUFFICES ASSUME WindowInit PROVE WindowInv
  OBVIOUS
<1> USE RateWindowAssumption DEF WindowInit
<1>1. Len(granted) = 0 /\ granted \in Seq(0..WindowLength)
  OBVIOUS
<1>2. WindowTypes
  BY <1>1 DEF WindowTypes, Slots, Ages
<1> QED
  BY <1>1, <1>2 DEF WindowInv, NewestFirst, RingHoldsGrants, TimersInWindow

\* What eviction leaves: the entries of the last window, renumbered from the new head.
LEMMA AfterEviction ==
    ASSUME WindowInv, NEW o, o = Slot(Evicted), NEW j \in 1..Len(granted)
    PROVE  /\ o \in Slots
           /\ (o + (Len(granted) - j)) % WindowLimit = Slot(inWindow - j)
<1> USE RateWindowAssumption
<1>1. /\ oldest \in 0..(WindowLimit - 1) /\ WindowLimit \in Nat \ {0}
  BY DEF WindowInv, WindowTypes, Slots
<1> DEFINE e == Evicted
           i == Len(granted) - j
<1>2. /\ e \in Nat /\ i \in Nat /\ e + i <= WindowLimit /\ e + i = inWindow - j
      /\ e \in 0..WindowLimit
  BY EvictedIs
<1> HIDE DEF e, i
<1>3. o = (oldest + e) % WindowLimit
  BY DEF Slot, e
<1>4. (o + i) % WindowLimit = (oldest + (e + i)) % WindowLimit
  BY <1>1, <1>2, <1>3, RingShift
<1>5. o \in 0..(WindowLimit - 1)
  BY <1>1, <1>2, <1>3, RingPlace
<1> QED
  BY <1>2, <1>4, <1>5 DEF Slot, Slots, i

\* A reading of the use only evicts.
LEMMA ObserveInv == ASSUME WindowInv, Observe PROVE WindowInv'
<1> USE RateWindowAssumption
<1>1. /\ UNCHANGED <<stamps, sleepLeft, granted>> /\ oldest' = Slot(Evicted)
      /\ inWindow' = Len(granted)
  <2>1. inWindow' = inWindow - (inWindow - Len(granted))
    BY EvictedIs DEF Observe, Evict
  <2>2. inWindow \in Int /\ Len(granted) \in Int
    BY EvictedIs
  <2> QED
    BY <2>1, <2>2 DEF Observe, Evict
<1>2. /\ Evicted \in 0..WindowLimit /\ oldest \in 0..(WindowLimit - 1)
      /\ Len(granted) \in 0..WindowLimit
  BY EvictedIs DEF WindowInv, WindowTypes, Slots
<1>3. oldest' \in Slots
  BY <1>1, <1>2, RingPlace DEF Slot, Slots
<1>4. WindowTypes' /\ NewestFirst'
  BY <1>1, <1>2, <1>3 DEF WindowInv, WindowTypes, NewestFirst
<1>5. RingHoldsGrants'
  <2> SUFFICES ASSUME NEW j \in 1..Len(granted)
               PROVE  stamps[(oldest' + (Len(granted) - j)) % WindowLimit] = granted[j]
    BY <1>1, <1>2 DEF RingHoldsGrants, Slot
  <2>1. (oldest' + (Len(granted) - j)) % WindowLimit = Slot(inWindow - j)
    BY <1>1, AfterEviction
  <2>2. j \in 1..inWindow /\ j <= Len(granted)
    BY EvictedIs
  <2> QED
    BY <2>1, <2>2 DEF WindowInv, RingHoldsGrants
<1>6. TimersInWindow'
  <2> SUFFICES ASSUME NEW c \in Waiters, sleepLeft[c] > 0
               PROVE  Len(granted) = WindowLimit /\ stamps[oldest'] + sleepLeft[c] <= WindowLength
    BY <1>1 DEF TimersInWindow
  <2>1. Len(granted) = WindowLimit /\ inWindow = WindowLimit
    BY TimerMeansFull
  <2>2. Evicted = 0
    BY <2>1, EvictedIs
  <2>3. oldest' = oldest
    <3>1. oldest + 0 = oldest /\ 0 \in 0..WindowLimit
      BY <1>2
    <3>2. oldest % WindowLimit = oldest
      BY <1>2
    <3> QED
      BY <1>1, <2>2, <3>1, <3>2 DEF Slot
  <2> QED
    BY <2>1, <2>3 DEF WindowInv, TimersInWindow
<1> QED
  BY <1>4, <1>5, <1>6 DEF WindowInv

\* A grant overwrites no entry of the last window, and no timer runs beside it.
LEMMA GrantInv == ASSUME WindowInv, NEW c \in Waiters, Grant(c) PROVE WindowInv'
<1> USE RateWindowAssumption
<1> DEFINE g == Len(granted)
           p == Slot(inWindow)
<1>1. /\ UNCHANGED sleepLeft /\ oldest' = Slot(Evicted) /\ stamps' = [stamps EXCEPT ![p] = 0]
      /\ granted' = <<0>> \o granted /\ inWindow' = g + 1 /\ g < WindowLimit /\ g \in Nat
  <2>1. inWindow' = inWindow - (inWindow - g) + 1 /\ inWindow - (inWindow - g) < WindowLimit
    BY EvictedIs DEF Grant, Record, HasRoom
  <2>2. inWindow \in Int /\ g \in Nat
    BY EvictedIs
  <2> QED
    BY <2>1, <2>2 DEF Grant, Record
<1>2. /\ Evicted \in 0..WindowLimit /\ oldest \in 0..(WindowLimit - 1)
      /\ inWindow \in 0..WindowLimit
      /\ g \in 0..WindowLimit /\ g <= inWindow /\ inWindow - g \in Nat
      /\ Evicted = inWindow - g /\ granted \in Seq(0..WindowLength)
  BY EvictedIs DEF WindowInv, WindowTypes, Slots
<1>3. p \in Slots /\ oldest' \in Slots
  BY <1>1, <1>2, RingPlace DEF Slot, Slots
<1>4. stamps'[p] = 0 /\ \A q \in Slots \ {p} : stamps'[q] = stamps[q]
  BY <1>1, <1>3 DEF WindowInv, WindowTypes
<1>5. /\ granted' \in Seq(0..WindowLength) /\ Len(granted') = g + 1 /\ granted'[1] = 0
      /\ \A j \in 2..(g + 1) : granted'[j] = granted[j - 1] /\ j - 1 \in 1..g
  <2>1. 0 \in 0..WindowLength
    OBVIOUS
  <2>2. <<0>> \in Seq(0..WindowLength)
    BY <2>1
  <2> QED
    BY <1>1, <1>2, <2>1, <2>2
<1>6. \A c1 \in Waiters : ~(sleepLeft[c1] > 0)
  BY <1>1, <1>2, TimerMeansFull
<1>7. WindowTypes'
  <2>1. stamps' \in [Slots -> Ages]
    <3>1. 0 \in Ages /\ stamps \in [Slots -> Ages]
      BY DEF WindowInv, WindowTypes, Ages
    <3> HIDE DEF p
    <3> QED
      BY <1>1, <3>1
  <2>2. inWindow' \in 0..WindowLimit
    BY <1>1
  <2> QED
    BY <1>1, <1>3, <1>5, <2>1, <2>2 DEF WindowInv, WindowTypes
<1>8. NewestFirst'
  <2> SUFFICES ASSUME NEW i \in 1..(g + 1), NEW j \in 1..(g + 1), i <= j
               PROVE  granted'[i] <= granted'[j]
    BY <1>5 DEF NewestFirst
  <2>1. \A k \in 1..g : granted[k] \in 0..WindowLength
    BY <1>2
  <2>2. CASE i = 1 /\ j = 1
    BY <1>5, <2>2
  <2>3. CASE i = 1 /\ j # 1
    <3>1. granted'[j] = granted[j - 1] /\ j - 1 \in 1..g
      BY <1>2, <1>5, <2>3
    <3> QED
      BY <1>5, <2>1, <2>3, <3>1
  <2>4. CASE i # 1
    <3>1. /\ granted'[j] = granted[j - 1] /\ j - 1 \in 1..g
          /\ granted'[i] = granted[i - 1] /\ i - 1 \in 1..g /\ i - 1 <= j - 1
      <4>1. i \in 2..(g + 1) /\ j \in 2..(g + 1) /\ i - 1 <= j - 1
        BY <1>2, <2>4
      <4> QED
        BY <1>5, <4>1
    <3> QED
      BY <3>1 DEF WindowInv, NewestFirst
  <2> QED
    BY <2>2, <2>3, <2>4
<1>9. RingHoldsGrants'
  <2> SUFFICES ASSUME NEW j \in 1..(g + 1)
               PROVE  stamps'[(oldest' + (g + 1 - j)) % WindowLimit] = granted'[j]
    <3>1. g + 1 <= g + 1 /\ \A j \in 1..(g + 1) : ~(j > g + 1)
      BY <1>1
    <3> QED
      BY <1>1, <1>5, <3>1 DEF RingHoldsGrants, Slot
  <2>1. CASE j = 1
    <3>1. g + 1 - j = g /\ (inWindow - g) + g = inWindow /\ (inWindow - g) + g <= WindowLimit
      BY <1>2, <2>1
    <3>2. (oldest' + g) % WindowLimit = (oldest + ((inWindow - g) + g)) % WindowLimit
      BY <1>1, <1>2, <3>1, RingShift DEF Slot
    <3>3. (oldest' + g) % WindowLimit = p
      BY <3>1, <3>2 DEF Slot
    <3> QED
      BY <1>4, <1>5, <2>1, <3>1, <3>3
  <2>2. CASE j # 1
    <3> DEFINE k == j - 1
    <3>1. /\ k \in 1..g /\ granted'[j] = granted[k] /\ g + 1 - j = g - k
          /\ k \in 1..inWindow /\ k <= g
      BY <1>2, <1>5, <2>2
    <3> HIDE DEF k
    <3>2. (oldest' + (g - k)) % WindowLimit = Slot(inWindow - k)
      BY <1>1, <3>1, AfterEviction
    <3>3. inWindow - k \in Nat /\ inWindow - k < inWindow
      BY <1>2, <3>1
    <3>4. inWindow - (inWindow - k) < WindowLimit
      BY <1>1, <1>2, <3>1
    <3>5. Slot(inWindow - k) # p
      <4> DEFINE a == inWindow - k
                 b == inWindow
      <4>1. a \in Nat /\ b \in Nat /\ a < b /\ b - a < WindowLimit /\ b <= WindowLimit
        BY <1>2, <3>3, <3>4
      <4> HIDE DEF a, b
      <4>2. (oldest + a) % WindowLimit # (oldest + b) % WindowLimit
        BY <1>2, <4>1, RingApart
      <4> QED
        BY <4>2 DEF Slot, a, b
    <3>6. Slot(inWindow - k) \in Slots
      <4>1. inWindow - k \in 0..WindowLimit
        BY <1>2, <3>3
      <4> QED
        BY <1>2, <4>1, RingPlace DEF Slot, Slots
    <3>7. stamps[Slot(inWindow - k)] = granted[k]
      BY <3>1 DEF WindowInv, RingHoldsGrants
    <3> QED
      BY <1>4, <3>1, <3>2, <3>5, <3>6, <3>7
  <2> QED
    BY <2>1, <2>2
<1>10. TimersInWindow'
  BY <1>1, <1>6 DEF TimersInWindow
<1> QED
  BY <1>7, <1>8, <1>9, <1>10 DEF WindowInv

\* A timer is set to when the oldest of a full window leaves it.
LEMMA SleepInv == ASSUME WindowInv, NEW c \in Waiters, Sleep(c) PROVE WindowInv'
<1> USE RateWindowAssumption
<1>1. /\ UNCHANGED <<stamps, oldest, inWindow, granted>> /\ Delay > 0
      /\ sleepLeft' = [sleepLeft EXCEPT ![c] = Delay] /\ ~HasRoom
  BY DEF Sleep
<1>2. inWindow = WindowLimit
  BY <1>1, EvictedIs DEF HasRoom
<1>3. stamps[oldest] \in 0..(WindowLength + 1)
  BY DEF WindowInv, WindowTypes, Ages
<1>4. Delay \in 0..WindowLength /\ stamps[oldest] + Delay <= WindowLength
  BY <1>1, <1>3 DEF Delay
<1>5. WindowTypes'
  BY <1>1, <1>4 DEF WindowInv, WindowTypes
<1>6. NewestFirst' /\ RingHoldsGrants'
  BY <1>1 DEF WindowInv, NewestFirst, RingHoldsGrants, Slot
<1>7. TimersInWindow'
  BY <1>1, <1>2, <1>4 DEF WindowInv, TimersInWindow, WindowTypes
<1> QED
  BY <1>5, <1>6, <1>7 DEF WindowInv

\* A tick of the clock ages ring, timers and history alike.
LEMMA ClockTicksInv == ASSUME WindowInv, ClockTicks PROVE WindowInv'
<1> USE RateWindowAssumption
<1> DEFINE g == Len(granted)
           m == Cardinality(StillIn)
<1>1. /\ stamps' = [i \in Slots |-> IF stamps[i] > WindowLength THEN stamps[i] ELSE stamps[i] + 1]
      /\ sleepLeft' = [c \in Waiters |-> IF sleepLeft[c] = 0 THEN 0 ELSE sleepLeft[c] - 1]
      /\ granted' = [j \in 1..m |-> granted[j] + 1]
      /\ UNCHANGED <<oldest, inWindow>>
  BY DEF ClockTicks
<1>2. g \in Nat /\ inWindow \in Nat /\ g <= inWindow /\ inWindow <= WindowLimit
  BY EvictedIs
<1>3. \A j \in 1..g : granted[j] \in 0..WindowLength
  BY DEF WindowInv, WindowTypes
<1>4. m \in 0..g /\ \A j \in 1..g : granted[j] < WindowLength <=> j <= m
  <2>1. CASE \A j \in 1..g : granted[j] < WindowLength
    <3>1. StillIn = 1..g
      BY <2>1 DEF StillIn
    <3>2. m = g
      <4>1. ASSUME NEW k \in Nat PROVE Cardinality(1..k) = k
        BY FS_Interval
      <4>2. Cardinality(1..g) = g
        BY <1>2, <4>1
      <4> QED
        BY <3>1, <4>2
    <3> HIDE DEF m
    <3> QED
      BY <1>2, <2>1, <3>2
  <2>2. CASE \E j \in 1..g : ~(granted[j] < WindowLength)
    <3> DEFINE T == {j \in Nat : j \in 1..g /\ ~(granted[j] < WindowLength)}
    <3>1. T # {} /\ T \in SUBSET Nat
      BY <2>2
    <3>2. PICK f \in T : \A y \in T : f <= y
      BY <3>1, LeastNatural
    <3>3. f \in 1..g /\ ~(granted[f] < WindowLength)
      BY <3>2
    <3>4. \A j \in 1..g : granted[j] < WindowLength <=> j <= f - 1
      <4> SUFFICES ASSUME NEW j \in 1..g PROVE granted[j] < WindowLength <=> j <= f - 1
        OBVIOUS
      <4>1. granted[j] \in Int /\ granted[f] \in Int
        BY <1>3, <3>3
      <4>2. CASE j <= f - 1
        <5>1. j \notin T
          BY <3>2, <3>3, <4>2
        <5> QED
          BY <4>2, <5>1
      <4>3. CASE ~(j <= f - 1)
        <5>1. granted[f] <= granted[j]
          BY <3>3, <4>3 DEF WindowInv, NewestFirst
        <5> QED
          BY <3>3, <4>1, <4>3, <5>1
      <4> QED
        BY <4>2, <4>3
    <3>5. StillIn = 1..(f - 1)
      BY <1>2, <3>3, <3>4 DEF StillIn
    <3>6. m = f - 1
      BY <3>3, <3>5, FS_Interval
    <3> HIDE DEF m, T
    <3> QED
      BY <1>2, <3>3, <3>4, <3>6
  <2> QED
    BY <2>1, <2>2
<1> HIDE DEF m
<1>5. /\ granted' \in Seq(0..WindowLength) /\ Len(granted') = m
      /\ \A j \in 1..m : granted'[j] = granted[j] + 1 /\ j \in 1..g
  <2>1. \A j \in 1..m : granted[j] + 1 \in 0..WindowLength /\ j \in 1..g
    BY <1>2, <1>3, <1>4
  <2>2. m \in Nat
    BY <1>4
  <2> QED
    BY <1>1, <2>1, <2>2
<1>6. WindowTypes'
  <2>1. stamps' \in [Slots -> Ages]
    BY <1>1 DEF WindowInv, WindowTypes, Ages
  <2>2. sleepLeft' \in [Waiters -> 0..WindowLength]
    BY <1>1 DEF WindowInv, WindowTypes
  <2> QED
    BY <1>1, <1>5, <2>1, <2>2 DEF WindowInv, WindowTypes
<1>7. NewestFirst'
  <2> SUFFICES ASSUME NEW i \in 1..m, NEW j \in 1..m, i <= j PROVE granted'[i] <= granted'[j]
    BY <1>5 DEF NewestFirst
  <2>1. granted[i] <= granted[j] /\ granted[i] \in Int /\ granted[j] \in Int
    BY <1>3, <1>5 DEF WindowInv, NewestFirst
  <2> QED
    BY <1>5, <2>1
<1>8. RingHoldsGrants'
  <2> SUFFICES ASSUME NEW j \in 1..inWindow
               PROVE  /\ j <= m => stamps'[Slot(inWindow - j)] = granted'[j]
                      /\ j > m => stamps'[Slot(inWindow - j)] > WindowLength
    <3>1. m <= inWindow
      BY <1>2, <1>4
    <3>2. \A j \in 1..inWindow : Slot(inWindow - j)' = Slot(inWindow - j)
      BY <1>1 DEF Slot
    <3> QED
      BY <1>1, <1>5, <3>1, <3>2 DEF RingHoldsGrants
  <2> DEFINE q == Slot(inWindow - j)
  <2>1. q \in Slots
    <3>1. oldest \in 0..(WindowLimit - 1) /\ inWindow - j \in 0..WindowLimit
      BY <1>2 DEF WindowInv, WindowTypes, Slots
    <3> QED
      BY <3>1, RingPlace DEF Slot, Slots
  <2>2. /\ j <= g => stamps[q] = granted[j]
        /\ j > g => stamps[q] > WindowLength
    BY DEF WindowInv, RingHoldsGrants
  <2> HIDE DEF q
  <2>3. stamps'[q] = IF stamps[q] > WindowLength THEN stamps[q] ELSE stamps[q] + 1
    BY <1>1, <2>1
  <2>4. j <= m => stamps'[q] = granted'[j]
    <3> SUFFICES ASSUME j <= m PROVE stamps'[q] = granted'[j]
      OBVIOUS
    <3>1. j \in 1..m /\ j \in 1..g
      BY <1>4
    <3>2. granted[j] < WindowLength /\ granted[j] \in Int /\ granted'[j] = granted[j] + 1
      BY <1>3, <1>4, <1>5, <3>1
    <3> QED
      BY <2>2, <2>3, <3>1, <3>2
  <2>5. j > m => stamps'[q] > WindowLength
    <3> SUFFICES ASSUME j > m PROVE stamps'[q] > WindowLength
      OBVIOUS
    <3>1. CASE j > g
      BY <2>2, <2>3, <3>1
    <3>2. CASE j <= g
      <4>1. j \in 1..g /\ ~(j <= m)
        BY <1>2, <1>4, <3>2
      <4>2. /\ stamps[q] = granted[j] /\ granted[j] \in 0..WindowLength
            /\ ~(granted[j] < WindowLength)
        BY <1>3, <1>4, <2>2, <3>2, <4>1
      <4> QED
        BY <2>3, <4>2
    <3> QED
      BY <1>2, <3>1, <3>2
  <2> QED
    BY <2>4, <2>5 DEF q
<1>9. TimersInWindow'
  <2> SUFFICES ASSUME NEW c \in Waiters, sleepLeft'[c] > 0
               PROVE  inWindow = WindowLimit /\ stamps'[oldest] + sleepLeft'[c] <= WindowLength
    BY <1>1 DEF TimersInWindow
  <2>1. /\ sleepLeft[c] \in 0..WindowLength /\ stamps[oldest] \in 0..(WindowLength + 1)
        /\ oldest \in Slots
    BY DEF WindowInv, WindowTypes, Ages
  <2>2. sleepLeft[c] > 0 /\ sleepLeft'[c] = sleepLeft[c] - 1
    BY <1>1, <2>1
  <2>3. inWindow = WindowLimit /\ stamps[oldest] + sleepLeft[c] <= WindowLength
    BY <2>2 DEF WindowInv, TimersInWindow
  <2>4. stamps'[oldest] = stamps[oldest] + 1
    BY <1>1, <2>1, <2>2, <2>3
  <2> QED
    BY <2>1, <2>2, <2>3, <2>4
<1> QED
  BY <1>6, <1>7, <1>8, <1>9 DEF WindowInv

\* Every step of a goroutine, and of the clock, keeps the invariant.
LEMMA WindowNextInv == ASSUME WindowInv, [WindowNext]_windowVars PROVE WindowInv'
<1> USE RateWindowAssumption
<1>1. ASSUME UNCHANGED <<stamps, oldest, inWindow, granted>>,
             sleepLeft' \in [Waiters -> 0..WindowLength],
             \A c \in Waiters : sleepLeft'[c] > 0 => sleepLeft'[c] = sleepLeft[c]
      PROVE  WindowInv'
  <2>1. WindowTypes' /\ NewestFirst' /\ RingHoldsGrants'
    BY <1>1 DEF WindowInv, WindowTypes, NewestFirst, RingHoldsGrants, Slot
  <2>2. TimersInWindow'
    BY <1>1 DEF WindowInv, TimersInWindow
  <2> QED
    BY <2>1, <2>2 DEF WindowInv
<1>2. CASE UNCHANGED <<stamps, oldest, inWindow, sleepLeft, granted>>
  BY <1>1, <1>2 DEF WindowInv, WindowTypes
<1>3. ASSUME NEW c \in Waiters, Wait(c) \/ TimerFires(c) PROVE WindowInv'
  BY <1>2, <1>3 DEF Wait, TimerFires
<1>4. ASSUME NEW c \in Waiters, WaitCancelled(c) PROVE WindowInv'
  BY <1>1, <1>4 DEF WaitCancelled, WindowInv, WindowTypes
<1>5. CASE UNCHANGED windowVars
  BY <1>2, <1>5 DEF windowVars
<1> QED
  BY <1>3, <1>4, <1>5, GrantInv, SleepInv, ObserveInv, ClockTicksInv DEF WindowNext

\* The ring forgets what it evicts, and still no window holds more than limit grants, for
\* every limit and window length and any goroutines.
THEOREM WindowQuota == WindowSpec => []WindowQuotaKept
<1>1. WindowInv => WindowQuotaKept
  BY EvictedIs, RateWindowAssumption DEF WindowQuotaKept
<1> QED
  BY <1>1, WindowInitInv, WindowNextInv, PTL DEF WindowSpec

\* Nobody sleeps beside a free place: while a timer runs the quota is used up.
THEOREM SleepersFindItFull == WindowSpec => []SleepsOnlyWhenFull
<1>1. WindowInv => SleepsOnlyWhenFull
  BY TimerMeansFull DEF SleepsOnlyWhenFull
<1> QED
  BY <1>1, WindowInitInv, WindowNextInv, PTL DEF WindowSpec

=============================================================================
