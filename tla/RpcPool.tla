------------------------------- MODULE RpcPool ------------------------------
(***************************************************************************)
(* The enhanced RPC pool (rpc_pool_core.go, rpc_pool_requests.go,          *)
(* rpc_pool_health.go), used by all goroutines at once.  A request makes   *)
(* up to one attempt per node: it picks an eligible node by a shared       *)
(* counter, calls it without holding the lock and then records the outcome *)
(* in the node's health.  A 429 answer starts a five-minute cool-down, any *)
(* other error an exponential back-off; the success of a call that was     *)
(* under way all the time makes its node healthy again.                    *)
(*                                                                         *)
(* The length of a back-off (failCount) only scales time and is left out,  *)
(* and so are the rate limiters, which delay a call or end it with an      *)
(* error when its context expires (LimiterError).                          *)
(***************************************************************************)
EXTENDS Integers, FiniteSets

CONSTANTS
    PoolSize,       \* number of nodes, all of weight 1
    PoolCallers,    \* goroutines that use the pool
    CountMod,       \* bound: requestCount is only used modulo the number of eligible
                    \* nodes, so it is kept modulo a common multiple of these numbers
    MaxCooldowns    \* bound: 429 answers

ASSUME RpcPoolAssumption ==
    /\ PoolSize \in Nat \ {0} /\ MaxCooldowns \in Nat
    /\ CountMod \in Nat \ {0} /\ \A k \in 1..PoolSize : CountMod % k = 0

PoolNodes == 1..PoolSize

VARIABLES
    health,         \* per node: isHealthy, and whether retryAfter lies in the future
                    \* ("backoff" after an error, "cooldown" after a 429)
    requestCount,   \* the shared counter, modulo CountMod
    request,        \* per caller: step, node called, attempts, kind of the request
    tried,          \* history per caller: nodes its request has tried
    revived,        \* history per caller: a node it tried became eligible again
    rescued,        \* history per node: restored by an answer during its cool-down
    cooldowns       \* 429 answers so far

poolVars == <<health, requestCount, request, tried, revived, rescued, cooldowns>>

NoRequest == [step |-> "idle", node |-> 0, attempts |-> 0, restores |-> TRUE]

\* Each node is probed once at the start; one that fails has no retryAfter yet.
PoolInit ==
    /\ health \in [PoolNodes -> [ok : BOOLEAN, wait : {"none"}]]
    /\ requestCount = 0
    /\ request = [c \in PoolCallers |-> NoRequest]
    /\ tried = [c \in PoolCallers |-> {}]
    /\ revived = [c \in PoolCallers |-> FALSE]
    /\ rescued = [n \in PoolNodes |-> FALSE]
    /\ cooldowns = 0

Eligible(n) == health[n].ok \/ health[n].wait = "none"
EligibleNodes == {n \in PoolNodes : Eligible(n)}

\* The node at position i of the eligible ones, in the order of the pool.
NodeAt(i) == CHOOSE n \in EligibleNodes :
                Cardinality({m \in EligibleNodes : m < n}) = i

\* A node the caller tried becomes eligible by this step.
Revives(c) == \E n \in tried[c] : ~Eligible(n) /\ (health'[n].ok \/ health'[n].wait = "none")

NoteRevived == revived' = [c \in PoolCallers |-> revived[c] \/ Revives(c)]

(***************************************************************************)
(* A request                                                               *)
(***************************************************************************)
\* The request of c ends; the histories of a caller are those of its request.
Ends(c) ==
    /\ request' = [request EXCEPT ![c] = NoRequest]
    /\ tried' = [tried EXCEPT ![c] = {}]
    /\ revived' = [x \in PoolCallers |-> x # c /\ (revived[x] \/ Revives(x))]

\* CallContract is the one method that leaves the health alone on success.
BeginRequest(c, restores) ==
    /\ request[c].step = "idle"
    /\ request' = [request EXCEPT ![c] = [NoRequest EXCEPT !.step = "pick",
                                                           !.restores = restores]]
    /\ UNCHANGED <<health, requestCount, tried, revived, rescued, cooldowns>>

\* getNextHealthyNode under the read lock; the counter moves by one.
GetNextHealthyNode(c) ==
    /\ request[c].step = "pick"
    /\ request[c].attempts < PoolSize
    /\ EligibleNodes # {}
    /\ LET count == (requestCount + 1) % CountMod
           n == NodeAt(count % Cardinality(EligibleNodes)) IN
       /\ requestCount' = count
       /\ request' = [request EXCEPT ![c].step = "call", ![c].node = n]
       /\ tried' = [tried EXCEPT ![c] = @ \cup {n}]
    /\ UNCHANGED <<health, revived, rescued, cooldowns>>

\* "no healthy RPC nodes available".
NoNode(c) ==
    /\ request[c].step = "pick"
    /\ request[c].attempts < PoolSize
    /\ EligibleNodes = {}
    /\ UNCHANGED <<health, requestCount, rescued, cooldowns>>
    /\ Ends(c)

\* The global limiter, before the first attempt, or the node's, which CallContract does
\* not ask.
LimiterError(c) ==
    /\ \/ request[c].step = "pick" /\ request[c].attempts = 0
       \/ request[c].step = "call" /\ request[c].restores
    /\ UNCHANGED <<health, requestCount, rescued, cooldowns>>
    /\ Ends(c)

\* The call returned: incrementRequestCount moves the counter a second time.
CountCall == requestCount' = (requestCount + 1) % CountMod

CallSucceeds(c) ==
    /\ request[c].step = "call"
    /\ CountCall
    /\ LET n == request[c].node IN
       \/ /\ request[c].restores /\ ~health[n].ok
          /\ health' = [health EXCEPT ![n].ok = TRUE]
          /\ rescued' = [rescued EXCEPT ![n] = @ \/ health[n].wait = "cooldown"]
       \/ /\ ~request[c].restores \/ health[n].ok
          /\ UNCHANGED <<health, rescued>>
    /\ Ends(c)
    /\ UNCHANGED cooldowns

\* Mutant of MarkUnhealthy: isHealthy is left alone.
MarkHealthyAnyway(n, wait) == [ok |-> health[n].ok, wait |-> wait]

\* Both branches of handleRPCError overwrite retryAfter, so a later error of another
\* kind replaces a cool-down by its own, shorter, back-off.
MarkUnhealthy(n, wait) == [ok |-> FALSE, wait |-> wait]

CallFails(c, wait) ==
    /\ request[c].step = "call"
    /\ CountCall
    /\ wait = "cooldown" => cooldowns < MaxCooldowns
    /\ cooldowns' = IF wait = "cooldown" THEN cooldowns + 1 ELSE cooldowns
    /\ LET n == request[c].node IN
       /\ health' = [health EXCEPT ![n] = MarkUnhealthy(n, wait)]
       /\ rescued' = [rescued EXCEPT ![n] = FALSE]
    /\ request' = [request EXCEPT ![c].step = "pick", ![c].attempts = @ + 1]
    /\ UNCHANGED <<tried, revived>>

\* "all RPC nodes failed"; the outcome stays visible until the next request.
AllFailed(c) ==
    /\ request[c].step = "pick"
    /\ request[c].attempts = PoolSize
    /\ request' = [request EXCEPT ![c].step = "failed"]
    /\ UNCHANGED <<health, requestCount, tried, revived, rescued, cooldowns>>

ReturnError(c) ==
    /\ request[c].step = "failed"
    /\ UNCHANGED <<health, requestCount, rescued, cooldowns>>
    /\ Ends(c)

\* retryAfter passes: the node may be picked again although it is not healthy.
RetryAfterPasses(n) ==
    /\ health[n].wait # "none"
    /\ health' = [health EXCEPT ![n].wait = "none"]
    /\ NoteRevived
    /\ rescued' = [rescued EXCEPT ![n] = FALSE]
    /\ UNCHANGED <<requestCount, request, tried, cooldowns>>

\* checkHealth, under the lock for all nodes: it asks the healthy ones and those whose
\* last error is over 30 s old, without regard to retryAfter.
CheckHealth(up, old) ==
    /\ health' = [n \in PoolNodes |->
                    IF health[n].ok THEN [health[n] EXCEPT !.ok = n \in up]
                    ELSE [health[n] EXCEPT !.ok = n \in up /\ n \in old]]
    /\ rescued' = [n \in PoolNodes |->
                     rescued[n] \/ (health'[n].ok /\ ~health[n].ok /\ health[n].wait = "cooldown")]
    /\ NoteRevived
    /\ UNCHANGED <<requestCount, request, tried, cooldowns>>

PoolNext ==
    \/ \E c \in PoolCallers :
          \/ \E restores \in BOOLEAN : BeginRequest(c, restores)
          \/ GetNextHealthyNode(c) \/ NoNode(c) \/ LimiterError(c) \/ CallSucceeds(c)
          \/ \E wait \in {"backoff", "cooldown"} : CallFails(c, wait)
          \/ AllFailed(c) \/ ReturnError(c)
    \/ \E n \in PoolNodes : RetryAfterPasses(n)
    \/ \E up, old \in SUBSET PoolNodes : CheckHealth(up, old)

PoolSpec == PoolInit /\ [][PoolNext]_poolVars

(***************************************************************************)
(* Properties                                                              *)
(***************************************************************************)
PoolTypeOK ==
    /\ health \in [PoolNodes -> [ok : BOOLEAN, wait : {"none", "backoff", "cooldown"}]]
    /\ requestCount \in 0..(CountMod - 1)
    /\ request \in [PoolCallers -> [step : {"idle", "pick", "call", "failed"},
                                    node : 0..PoolSize, attempts : 0..PoolSize,
                                    restores : BOOLEAN]]
    /\ tried \in [PoolCallers -> SUBSET PoolNodes]
    /\ revived \in [PoolCallers -> BOOLEAN]
    /\ rescued \in [PoolNodes -> BOOLEAN]
    /\ cooldowns \in 0..MaxCooldowns

\* A node in the cool-down of its last 429 is not picked, unless a call sent before that
\* answer, or a health check, came back successful after it.
CooldownKept ==
    \A n \in PoolNodes : health[n].wait = "cooldown" /\ Eligible(n) => rescued[n]

\* A request that reports that all nodes failed has tried every one of them, or a node it
\* had tried became eligible again in the meantime and took an attempt away.
AllFailedTriedAll ==
    \A c \in PoolCallers : request[c].step = "failed" => tried[c] = PoolNodes \/ revived[c]

=============================================================================
