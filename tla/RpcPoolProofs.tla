---------------------------- MODULE RpcPoolProofs ---------------------------
(***************************************************************************)
(* Proofs that a cool-down is kept and that "all RPC nodes failed" is      *)
(* true, for every number of nodes and any number of goroutines.           *)
(***************************************************************************)
EXTENDS RpcPool, FiniteSetTheorems, TLAPS

PoolTypes ==
    /\ health \in [PoolNodes -> [ok : BOOLEAN, wait : {"none", "backoff", "cooldown"}]]
    /\ requestCount \in Nat
    /\ request \in [PoolCallers -> [step : {"idle", "pick", "call", "failed"},
                                    node : 0..PoolSize, attempts : 0..PoolSize,
                                    restores : BOOLEAN]]
    /\ tried \in [PoolCallers -> SUBSET PoolNodes]
    /\ revived \in [PoolCallers -> BOOLEAN]
    /\ rescued \in [PoolNodes -> BOOLEAN]

\* The nodes of a request that were called to the end.
Done(c) == IF request[c].step = "call" THEN tried[c] \ {request[c].node} ELSE tried[c]

(***************************************************************************)
(* What holds of a request: as long as none of the nodes it tried became   *)
(* eligible again, each of them is out of the choice, so every attempt was *)
(* made on a node of its own and the attempts count the nodes.             *)
(***************************************************************************)
RequestInv(c) ==
    /\ request[c].step = "idle" => tried[c] = {} /\ ~revived[c] /\ request[c].attempts = 0
    /\ request[c].step = "call" => request[c].node \in tried[c]
                                   /\ request[c].attempts < PoolSize
    /\ request[c].step = "failed" => request[c].attempts = PoolSize
    /\ ~revived[c] => /\ Cardinality(Done(c)) = request[c].attempts
                      /\ \A n \in Done(c) : ~Eligible(n)

PoolInv ==
    /\ PoolTypes
    /\ CooldownKept
    /\ \A c \in PoolCallers : RequestInv(c)

(***************************************************************************)
(* The choice of a node: the ranks of the eligible nodes are the numbers   *)
(* below their count, so the round robin always finds one.                 *)
(***************************************************************************)
LEMMA PoolFinite ==
    /\ IsFiniteSet(PoolNodes) /\ Cardinality(PoolNodes) = PoolSize
    /\ \A S \in SUBSET PoolNodes : IsFiniteSet(S) /\ Cardinality(S) \in Nat
<1>1. IsFiniteSet(PoolNodes) /\ Cardinality(PoolNodes) = PoolSize
  BY RpcPoolAssumption, FS_Interval DEF PoolNodes
<1> QED
  BY <1>1, FS_Subset, FS_CardinalityType

LEMMA RankOnto ==
    ASSUME NEW E \in SUBSET PoolNodes, NEW i \in 0..(Cardinality(E) - 1)
    PROVE  \E n \in E : Cardinality({m \in E : m < n}) = i
<1> DEFINE Below(n) == {m \in E : m < n}
           N == Cardinality(E)
           rank == [n \in E |-> Cardinality(Below(n))]
<1>1. IsFiniteSet(E) /\ N \in Nat
  BY PoolFinite
<1>2. E \subseteq Int
  BY RpcPoolAssumption DEF PoolNodes
<1>3. \A n \in E : IsFiniteSet(Below(n)) /\ Cardinality(Below(n)) \in 0..(N - 1)
  <2> TAKE n \in E
  <2>1. IsFiniteSet(E \ {n}) /\ Cardinality(E \ {n}) = N - 1
    BY <1>1, FS_RemoveElement
  <2>2. Below(n) \in SUBSET (E \ {n})
    BY <1>2
  <2>3. IsFiniteSet(Below(n)) /\ Cardinality(Below(n)) <= N - 1
    BY <2>1, <2>2, FS_Subset
  <2>4. Cardinality(Below(n)) \in Nat
    BY <2>3, FS_CardinalityType
  <2> QED
    BY <2>3, <2>4, <1>1
<1>4. \A n1, n2 \in E : n1 < n2 => rank[n1] < rank[n2]
  <2> TAKE n1, n2 \in E
  <2> HAVE n1 < n2
  <2>1. IsFiniteSet(Below(n1) \cup {n1}) /\ Cardinality(Below(n1) \cup {n1}) = rank[n1] + 1
    <3>1. n1 \notin Below(n1) /\ IsFiniteSet(Below(n1))
      BY <1>2, <1>3
    <3> QED
      BY <3>1, FS_AddElement
  <2>2. Below(n1) \cup {n1} \in SUBSET Below(n2)
    <3> SUFFICES ASSUME NEW m \in Below(n1) \cup {n1} PROVE m \in Below(n2)
      OBVIOUS
    <3>1. m \in E /\ m <= n1 /\ m \in Int /\ n1 \in Int /\ n2 \in Int
      BY <1>2
    <3> QED
      BY <3>1
  <2>3. rank[n1] + 1 <= rank[n2]
    BY <2>1, <2>2, <1>3, FS_Subset
  <2>4. rank[n1] \in Int /\ rank[n2] \in Int
    <3>1. rank[n1] = Cardinality(Below(n1)) /\ rank[n2] = Cardinality(Below(n2))
      OBVIOUS
    <3>2. rank[n1] \in 0..(N - 1) /\ rank[n2] \in 0..(N - 1)
      BY <3>1, <1>3
    <3> HIDE DEF rank, N
    <3> QED
      BY <3>2, <1>1
  <2> HIDE DEF rank
  <2> QED
    BY <2>3, <2>4
<1>5. rank \in Injection(E, 0..(N - 1))
  <2>1. rank \in [E -> 0..(N - 1)]
    BY <1>3
  <2>2. \A n1, n2 \in E : rank[n1] = rank[n2] => n1 = n2
    <3> TAKE n1, n2 \in E
    <3> HAVE rank[n1] = rank[n2]
    <3>1. rank[n1] \in Int /\ rank[n2] \in Int /\ n1 \in Int /\ n2 \in Int
      BY <2>1, <1>1, <1>2
    <3>2. ~(n1 < n2) /\ ~(n2 < n1)
      BY <1>4, <3>1
    <3> QED
      BY <3>1, <3>2
  <2> HIDE DEF rank
  <2> QED
    BY <2>1, <2>2 DEF Injection, IsInjective
<1>6. IsFiniteSet(0..(N - 1)) /\ Cardinality(0..(N - 1)) = N
  BY <1>1, FS_Interval
<1>7. rank \in Surjection(E, 0..(N - 1))
  BY <1>1, <1>5, <1>6, FS_Injection
<1>8. PICK n \in E : rank[n] = i
  <2> HIDE DEF rank
  <2> QED
    BY <1>7 DEF Surjection
<1> QED
  BY <1>8

LEMMA NodeChosen ==
    ASSUME EligibleNodes # {}, NEW count \in Nat
    PROVE  NodeAt(count % Cardinality(EligibleNodes)) \in EligibleNodes
<1>1. EligibleNodes \in SUBSET PoolNodes
  BY DEF EligibleNodes
<1>2. Cardinality(EligibleNodes) \in Nat \ {0}
  BY <1>1, PoolFinite, FS_EmptySet
<1>3. count % Cardinality(EligibleNodes) \in 0..(Cardinality(EligibleNodes) - 1)
  BY <1>2
<1> QED
  BY <1>1, <1>3, RankOnto DEF NodeAt

(***************************************************************************)
(* Steps                                                                   *)
(***************************************************************************)
\* A step leaves the invariant of a request alone when it keeps its record and its nodes
\* and notes when one of them becomes eligible.
LEMMA RequestKept ==
    ASSUME PoolInv, NEW c \in PoolCallers,
           request'[c] = request[c], tried'[c] = tried[c],
           ~revived'[c] => ~revived[c] /\ \A n \in tried[c] : Eligible(n)' => Eligible(n),
           request[c].step = "idle" => ~revived'[c]
    PROVE  RequestInv(c)'
<1>1. RequestInv(c)
  BY DEF PoolInv
<1>2. Done(c)' = Done(c) /\ Done(c) \subseteq tried[c]
  BY DEF Done
<1> QED
  BY <1>1, <1>2 DEF RequestInv

LEMMA PoolInitInv == PoolInit => PoolInv
<1> SUFFICES ASSUME PoolInit PROVE PoolInv
  OBVIOUS
<1>1. PoolTypes
  BY RpcPoolAssumption DEF PoolInit, PoolTypes, NoRequest
<1>2. CooldownKept
  BY DEF PoolInit, CooldownKept
<1>3. ASSUME NEW c \in PoolCallers PROVE RequestInv(c)
  <2>1. Done(c) = {} /\ tried[c] = {} /\ request[c] = NoRequest /\ ~revived[c]
    BY DEF PoolInit, Done, NoRequest
  <2> QED
    BY <2>1, FS_EmptySet DEF RequestInv, NoRequest
<1> QED
  BY <1>1, <1>2, <1>3 DEF PoolInv

\* The request of c ends, whatever happened to the health of the nodes.
LEMMA EndsStep ==
    ASSUME PoolInv, NEW c \in PoolCallers, Ends(c), requestCount' \in Nat,
           health' \in [PoolNodes -> [ok : BOOLEAN, wait : {"none", "backoff", "cooldown"}]],
           rescued' \in [PoolNodes -> BOOLEAN], CooldownKept'
    PROVE  PoolInv'
<1>1. PoolTypes'
  BY RpcPoolAssumption DEF PoolInv, PoolTypes, Ends, NoRequest, Revives
<1>2. RequestInv(c)'
  <2>1. request'[c] = NoRequest /\ tried'[c] = {} /\ ~revived'[c]
    BY DEF Ends, PoolInv, PoolTypes
  <2>2. Done(c)' = {}
    BY <2>1 DEF Done, NoRequest
  <2> QED
    BY <2>1, <2>2, FS_EmptySet DEF RequestInv, NoRequest
<1>3. ASSUME NEW d \in PoolCallers, d # c PROVE RequestInv(d)'
  <2>1. /\ request'[d] = request[d] /\ tried'[d] = tried[d]
        /\ revived'[d] = (revived[d] \/ Revives(d))
    BY <1>3 DEF Ends, PoolInv, PoolTypes
  <2>2. request[d].step = "idle" => tried[d] = {} /\ ~revived[d]
    BY DEF PoolInv, RequestInv
  <2> QED
    BY <2>1, <2>2, RequestKept DEF Revives, Eligible
<1> QED
  BY <1>1, <1>2, <1>3 DEF PoolInv

LEMMA QuietEndStep ==
    ASSUME PoolInv, NEW c \in PoolCallers, NoNode(c) \/ LimiterError(c) \/ ReturnError(c)
    PROVE  PoolInv'
<1>1. Ends(c) /\ UNCHANGED <<health, requestCount, rescued>>
  BY DEF NoNode, LimiterError, ReturnError
<1> QED
  BY <1>1, EndsStep DEF PoolInv, PoolTypes, CooldownKept, Eligible

LEMMA SucceedsStep ==
    ASSUME PoolInv, NEW c \in PoolCallers, CallSucceeds(c)
    PROVE  PoolInv'
<1>1. request[c].step = "call" /\ Ends(c)
  BY DEF CallSucceeds
<1>2. PICK n \in PoolNodes : n = request[c].node
  BY <1>1 DEF PoolInv, PoolTypes, RequestInv
<1>3. requestCount' \in Nat
  BY RpcPoolAssumption DEF CallSucceeds, CountCall, PoolInv, PoolTypes
<1>4. /\ health' \in [PoolNodes -> [ok : BOOLEAN, wait : {"none", "backoff", "cooldown"}]]
      /\ rescued' \in [PoolNodes -> BOOLEAN]
      /\ CooldownKept'
  <2>1. CASE /\ health' = [health EXCEPT ![n].ok = TRUE]
             /\ rescued' = [rescued EXCEPT ![n] = @ \/ health[n].wait = "cooldown"]
    BY <2>1 DEF PoolInv, PoolTypes, CooldownKept, Eligible
  <2>2. CASE UNCHANGED <<health, rescued>>
    BY <2>2 DEF PoolInv, PoolTypes, CooldownKept, Eligible
  <2> QED
    BY <1>2, <2>1, <2>2 DEF CallSucceeds
<1> QED
  BY <1>1, <1>3, <1>4, EndsStep

LEMMA FailsStep ==
    ASSUME PoolInv, NEW c \in PoolCallers, NEW wait \in {"backoff", "cooldown"},
           CallFails(c, wait)
    PROVE  PoolInv'
<1>1. PICK n \in PoolNodes : n = request[c].node /\ n \in tried[c]
  BY DEF CallFails, PoolInv, PoolTypes, RequestInv
<1>2. /\ request[c].step = "call" /\ request[c].attempts < PoolSize
      /\ health' = [health EXCEPT ![n] = [ok |-> FALSE, wait |-> wait]]
      /\ rescued' = [rescued EXCEPT ![n] = FALSE]
      /\ request' = [request EXCEPT ![c].step = "pick", ![c].attempts = @ + 1]
      /\ UNCHANGED <<tried, revived>>
  BY <1>1 DEF CallFails, MarkUnhealthy, PoolInv, RequestInv
<1>3. PoolTypes'
  <2>1. requestCount' \in Nat
    BY RpcPoolAssumption DEF CallFails, CountCall, PoolInv, PoolTypes
  <2>2. request[c].attempts + 1 \in 0..PoolSize
    BY <1>2, RpcPoolAssumption DEF PoolInv, PoolTypes
  <2> QED
    BY <2>1, <2>2, <1>2 DEF PoolInv, PoolTypes
<1>4. CooldownKept'
  BY <1>2 DEF PoolInv, PoolTypes, CooldownKept, Eligible
<1>5. \A m \in PoolNodes : Eligible(m)' => Eligible(m) /\ m # n
  BY <1>2 DEF PoolInv, PoolTypes, Eligible
<1>6. RequestInv(c)'
  <2>1. /\ request'[c].step = "pick" /\ request'[c].attempts = request[c].attempts + 1
        /\ tried'[c] = tried[c] /\ revived'[c] = revived[c] /\ tried[c] \in SUBSET PoolNodes
    BY <1>2 DEF PoolInv, PoolTypes
  <2>2. Done(c) = tried[c] \ {n} /\ Done(c)' = tried[c]
    BY <2>1, <1>1, <1>2 DEF Done
  <2>3. Cardinality(Done(c)) = Cardinality(tried[c]) - 1 /\ Cardinality(tried[c]) \in Nat
    BY <2>1, <2>2, <1>1, PoolFinite, FS_RemoveElement
  <2>4. ~revived[c] => /\ Cardinality(Done(c)) = request[c].attempts
                       /\ \A m \in Done(c) : ~Eligible(m)
    BY DEF PoolInv, RequestInv
  <2>5. ~revived'[c] => /\ Cardinality(Done(c)') = request'[c].attempts
                        /\ \A m \in Done(c)' : ~Eligible(m)'
    BY <2>1, <2>2, <2>3, <2>4, <1>5
  <2> QED
    BY <2>1, <2>5 DEF RequestInv
<1>7. ASSUME NEW d \in PoolCallers, d # c PROVE RequestInv(d)'
  <2>1. /\ request'[d] = request[d] /\ tried'[d] = tried[d] /\ revived'[d] = revived[d]
        /\ tried[d] \in SUBSET PoolNodes
    BY <1>2, <1>7 DEF PoolInv, PoolTypes
  <2>2. request[d].step = "idle" => ~revived[d]
    BY DEF PoolInv, RequestInv
  <2> QED
    BY <2>1, <2>2, <1>5, RequestKept
<1> QED
  BY <1>3, <1>4, <1>6, <1>7 DEF PoolInv

LEMMA BeginStep ==
    ASSUME PoolInv, NEW c \in PoolCallers, NEW restores \in BOOLEAN, BeginRequest(c, restores)
    PROVE  PoolInv'
<1> DEFINE e == [NoRequest EXCEPT !.step = "pick", !.restores = restores]
<1>0. /\ e \in [step : {"idle", "pick", "call", "failed"}, node : 0..PoolSize,
               attempts : 0..PoolSize, restores : BOOLEAN]
      /\ e.step = "pick" /\ e.attempts = 0
  <2>1. /\ NoRequest \in [step : {"idle", "pick", "call", "failed"}, node : 0..PoolSize,
                          attempts : 0..PoolSize, restores : BOOLEAN]
        /\ NoRequest.attempts = 0
    BY RpcPoolAssumption DEF NoRequest
  <2> QED
    BY <2>1
<1>1. /\ request[c].step = "idle"
      /\ request' = [request EXCEPT ![c] = e]
      /\ UNCHANGED <<health, requestCount, tried, revived, rescued>>
  BY DEF BeginRequest
<1> HIDE DEF e
<1>2. PoolTypes' /\ CooldownKept'
  BY <1>0, <1>1, RpcPoolAssumption DEF PoolInv, PoolTypes, CooldownKept, Eligible
<1>3. RequestInv(c)'
  <2>1. tried'[c] = {} /\ request'[c].step = "pick" /\ request'[c].attempts = 0
    BY <1>0, <1>1 DEF PoolInv, PoolTypes, RequestInv
  <2>2. Done(c)' = {}
    BY <2>1 DEF Done
  <2> QED
    BY <2>1, <2>2, FS_EmptySet DEF RequestInv
<1>4. ASSUME NEW d \in PoolCallers, d # c PROVE RequestInv(d)'
  <2>1. request'[d] = request[d] /\ tried'[d] = tried[d] /\ revived'[d] = revived[d]
    BY <1>1, <1>4 DEF PoolInv, PoolTypes
  <2>2. request[d].step = "idle" => ~revived[d]
    BY DEF PoolInv, RequestInv
  <2> QED
    BY <2>1, <2>2, <1>1, RequestKept DEF Eligible
<1> QED
  BY <1>2, <1>3, <1>4 DEF PoolInv

LEMMA PickStep ==
    ASSUME PoolInv, NEW c \in PoolCallers, GetNextHealthyNode(c)
    PROVE  PoolInv'
<1> DEFINE count == (requestCount + 1) % CountMod
<1>1. count \in Nat
  BY RpcPoolAssumption DEF PoolInv, PoolTypes
<1>2. NodeAt(count % Cardinality(EligibleNodes)) \in EligibleNodes
  BY <1>1, NodeChosen DEF GetNextHealthyNode
<1>3. PICK n \in PoolNodes : n = NodeAt(count % Cardinality(EligibleNodes)) /\ Eligible(n)
  BY <1>2 DEF EligibleNodes
<1>4. /\ request[c].step = "pick" /\ request[c].attempts < PoolSize
      /\ requestCount' = count
      /\ request' = [request EXCEPT ![c].step = "call", ![c].node = n]
      /\ tried' = [tried EXCEPT ![c] = @ \cup {n}]
      /\ UNCHANGED <<health, revived, rescued>>
  BY <1>3 DEF GetNextHealthyNode
<1> HIDE DEF count
<1>5. PoolTypes' /\ CooldownKept'
  <2>1. n \in 0..PoolSize
    BY RpcPoolAssumption DEF PoolNodes
  <2> QED
    BY <2>1, <1>1, <1>4 DEF PoolInv, PoolTypes, CooldownKept, Eligible
<1>6. RequestInv(c)'
  <2>1. /\ request'[c].step = "call" /\ request'[c].node = n
        /\ request'[c].attempts = request[c].attempts
        /\ tried'[c] = tried[c] \cup {n} /\ revived'[c] = revived[c]
    BY <1>4 DEF PoolInv, PoolTypes
  <2>2. ~revived[c] => /\ Cardinality(tried[c]) = request[c].attempts
                       /\ \A m \in tried[c] : ~Eligible(m)
    BY <1>4 DEF PoolInv, RequestInv, Done
  <2>3. ~revived[c] => Done(c)' = tried[c]
    BY <2>1, <2>2, <1>3 DEF Done
  <2>4. \A m \in PoolNodes : Eligible(m)' <=> Eligible(m)
    BY <1>4 DEF Eligible
  <2>5. tried[c] \in SUBSET PoolNodes
    BY DEF PoolInv, PoolTypes
  <2>6. ~revived'[c] => /\ Cardinality(Done(c)') = request'[c].attempts
                        /\ \A m \in Done(c)' : ~Eligible(m)'
    BY <2>1, <2>2, <2>3, <2>4, <2>5
  <2> QED
    BY <2>1, <2>6, <1>4 DEF RequestInv
<1>7. ASSUME NEW d \in PoolCallers, d # c PROVE RequestInv(d)'
  <2>1. request'[d] = request[d] /\ tried'[d] = tried[d] /\ revived'[d] = revived[d]
    BY <1>4, <1>7 DEF PoolInv, PoolTypes
  <2>2. request[d].step = "idle" => ~revived[d]
    BY DEF PoolInv, RequestInv
  <2> QED
    BY <2>1, <2>2, <1>4, RequestKept DEF Eligible
<1> QED
  BY <1>5, <1>6, <1>7 DEF PoolInv

LEMMA AllFailedStep ==
    ASSUME PoolInv, NEW c \in PoolCallers, AllFailed(c)
    PROVE  PoolInv'
<1>1. /\ request[c].step = "pick" /\ request[c].attempts = PoolSize
      /\ request' = [request EXCEPT ![c].step = "failed"]
      /\ UNCHANGED <<health, requestCount, tried, revived, rescued>>
  BY DEF AllFailed
<1>2. PoolTypes' /\ CooldownKept'
  BY <1>1 DEF PoolInv, PoolTypes, CooldownKept, Eligible
<1>3. RequestInv(c)'
  <2>1. /\ request'[c].step = "failed" /\ request'[c].attempts = PoolSize
        /\ UNCHANGED <<tried, revived, health>>
    BY <1>1 DEF PoolInv, PoolTypes
  <2>2. Done(c)' = Done(c)
    BY <2>1, <1>1 DEF Done
  <2>3. RequestInv(c)
    BY DEF PoolInv
  <2> QED
    BY <2>1, <2>2, <2>3, <1>1 DEF RequestInv, Eligible
<1>4. ASSUME NEW d \in PoolCallers, d # c PROVE RequestInv(d)'
  <2>1. request'[d] = request[d] /\ tried'[d] = tried[d] /\ revived'[d] = revived[d]
    BY <1>1, <1>4 DEF PoolInv, PoolTypes
  <2>2. request[d].step = "idle" => ~revived[d]
    BY DEF PoolInv, RequestInv
  <2> QED
    BY <2>1, <2>2, <1>1, RequestKept DEF Eligible
<1> QED
  BY <1>2, <1>3, <1>4 DEF PoolInv

\* The two steps that no request takes note what they make eligible.
LEMMA NotedStep ==
    ASSUME PoolInv, NoteRevived, UNCHANGED <<requestCount, request, tried>>,
           health' \in [PoolNodes -> [ok : BOOLEAN, wait : {"none", "backoff", "cooldown"}]],
           rescued' \in [PoolNodes -> BOOLEAN], CooldownKept'
    PROVE  PoolInv'
<1>1. PoolTypes'
  BY DEF PoolInv, PoolTypes, NoteRevived, Revives
<1>2. ASSUME NEW c \in PoolCallers PROVE RequestInv(c)'
  <2>1. revived'[c] = (revived[c] \/ Revives(c))
    BY DEF NoteRevived
  <2>2. request[c].step = "idle" => tried[c] = {} /\ ~revived[c]
    BY DEF PoolInv, RequestInv
  <2> QED
    BY <2>1, <2>2, RequestKept DEF Revives, Eligible
<1> QED
  BY <1>1, <1>2 DEF PoolInv

LEMMA RetryStep ==
    ASSUME PoolInv, NEW n \in PoolNodes, RetryAfterPasses(n)
    PROVE  PoolInv'
<1>1. /\ health' \in [PoolNodes -> [ok : BOOLEAN, wait : {"none", "backoff", "cooldown"}]]
      /\ rescued' \in [PoolNodes -> BOOLEAN] /\ CooldownKept'
  BY DEF RetryAfterPasses, PoolInv, PoolTypes, CooldownKept, Eligible
<1> QED
  BY <1>1, NotedStep DEF RetryAfterPasses

LEMMA CheckStep ==
    ASSUME PoolInv, NEW up \in SUBSET PoolNodes, NEW old \in SUBSET PoolNodes,
           CheckHealth(up, old)
    PROVE  PoolInv'
<1> DEFINE Health == [ok : BOOLEAN, wait : {"none", "backoff", "cooldown"}]
<1>1. \A n \in PoolNodes : health'[n] \in Health /\ health'[n].wait = health[n].wait
  <2> TAKE n \in PoolNodes
  <2>1. health[n] \in Health
    BY DEF PoolInv, PoolTypes
  <2>2. PICK b \in BOOLEAN : health'[n] = [health[n] EXCEPT !.ok = b]
    <3>1. health'[n] = IF health[n].ok THEN [health[n] EXCEPT !.ok = n \in up]
                       ELSE [health[n] EXCEPT !.ok = n \in up /\ n \in old]
      BY DEF CheckHealth
    <3>2. CASE health[n].ok
      <4>1. health'[n] = [health[n] EXCEPT !.ok = n \in up]
        BY <3>1, <3>2
      <4>2. (n \in up) \in BOOLEAN
        OBVIOUS
      <4> QED
        BY <4>1, <4>2, Zenon
    <3>3. CASE ~health[n].ok
      <4>1. /\ health'[n] = [health[n] EXCEPT !.ok = n \in up /\ n \in old]
            /\ (n \in up /\ n \in old) \in BOOLEAN
        BY <3>1, <3>3, Zenon
      <4> QED
        BY <4>1, Zenon
    <3> QED
      BY <3>2, <3>3
  <2> QED
    BY <2>1, <2>2
<1>2. health' \in [PoolNodes -> Health] /\ rescued' \in [PoolNodes -> BOOLEAN]
  <2>1. /\ health' = [n \in PoolNodes |-> health'[n]]
        /\ rescued' = [n \in PoolNodes |-> rescued'[n]]
        /\ \A n \in PoolNodes : rescued'[n] \in BOOLEAN
    BY DEF CheckHealth
  <2> HIDE DEF Health
  <2> QED
    BY <1>1, <2>1
<1>3. \A n \in PoolNodes : rescued'[n] = (rescued[n] \/ (health'[n].ok /\ ~health[n].ok
                                                        /\ health[n].wait = "cooldown"))
  BY DEF CheckHealth
<1>4. CooldownKept'
  BY <1>1, <1>3 DEF PoolInv, CooldownKept, Eligible
<1> QED
  BY <1>2, <1>4, NotedStep DEF CheckHealth

LEMMA PoolNextInv == PoolInv /\ [PoolNext]_poolVars => PoolInv'
<1> SUFFICES ASSUME PoolInv, [PoolNext]_poolVars PROVE PoolInv'
  OBVIOUS
<1>1. CASE UNCHANGED poolVars
  BY <1>1 DEF PoolInv, PoolTypes, CooldownKept, RequestInv, Done, Eligible, poolVars
<1>2. CASE PoolNext
  BY <1>2, BeginStep, PickStep, QuietEndStep, SucceedsStep, FailsStep, AllFailedStep,
     RetryStep, CheckStep DEF PoolNext
<1> QED
  BY <1>1, <1>2

\* No goroutine picks a node during the cool-down of its last 429 answer, unless an
\* answer to an earlier call or a health check restored it (getNextHealthyNode,
\* handleRPCError), however the calls of the goroutines overlap.
THEOREM CooldownAlwaysKept == PoolSpec => []CooldownKept
<1>1. PoolInv => CooldownKept
  BY DEF PoolInv
<1> QED
  BY <1>1, PoolInitInv, PoolNextInv, PTL DEF PoolSpec

\* "All RPC nodes failed" means that each node was tried, unless one that had been tried
\* became eligible again in the meantime (the retry loops of rpc_pool_requests.go).
THEOREM FailedTriedAll == PoolSpec => []AllFailedTriedAll
<1>1. PoolInv => AllFailedTriedAll
  <2> SUFFICES ASSUME PoolInv, NEW c \in PoolCallers, request[c].step = "failed", ~revived[c]
               PROVE  tried[c] = PoolNodes
    BY DEF AllFailedTriedAll
  <2>1. Cardinality(tried[c]) = PoolSize /\ tried[c] \in SUBSET PoolNodes
    BY DEF PoolInv, PoolTypes, RequestInv, Done
  <2> QED
    BY <2>1, PoolFinite, FS_Subset
<1> QED
  BY <1>1, PoolInitInv, PoolNextInv, PTL DEF PoolSpec
=============================================================================
