------------------------------ MODULE Enricher ------------------------------
(***************************************************************************)
(* The metadata enricher (metadata_enricher.go).  GetSymbol answers from   *)
(* the cache or puts the token on a bounded queue, once: the inflight mark *)
(* keeps other callers from queueing it again until the batch worker has   *)
(* resolved it.  A full queue gives up its oldest entry.  A batch whose    *)
(* multicall fails is dropped.                                             *)
(*                                                                         *)
(* Neither the entry given up nor a dropped batch loses its marks, so such *)
(* a token is never asked for again in this process.                       *)
(***************************************************************************)
EXTENDS Integers, SequencesExt

CONSTANTS
    Tokens,         \* token addresses
    Askers,         \* goroutines that call GetSymbol
    TokenQueueCap,  \* capacity of the queue (1000)
    TokenBatch      \* batchSize (50)

ASSUME EnricherAssumption == TokenQueueCap \in Nat \ {0} /\ TokenBatch \in Nat \ {0}

VARIABLES
    symbolCache,    \* cache: tokens whose metadata is known
    inflight,       \* tokens marked as under way
    tokenQueue,     \* queue
    asker,          \* per caller: step of GetSymbol and its token
    tokenBatch,     \* batch, in the hands of the worker
    batchStep,      \* "wait" for the ticker, "collect", "resolve", "stopped"
    abandoned       \* history: tokens given up by a full queue or a failed batch

enricherVars == <<symbolCache, inflight, tokenQueue, asker, tokenBatch, batchStep, abandoned>>

\* Nobody asks: the token of an idle caller is any.
Away == [step |-> "away", token |-> CHOOSE t \in Tokens : TRUE]

EnricherInit ==
    /\ symbolCache = {} /\ inflight = {} /\ abandoned = {}
    /\ tokenQueue = <<>>
    /\ asker = [g \in Askers |-> Away]
    /\ tokenBatch = <<>>
    /\ batchStep = "wait"

(***************************************************************************)
(* GetSymbol                                                               *)
(***************************************************************************)
\* Not in the cache when the caller looks.
CacheMiss(g, t) ==
    /\ asker[g].step = "away"
    /\ t \notin symbolCache
    /\ asker' = [asker EXCEPT ![g] = [step |-> "missed", token |-> t]]
    /\ UNCHANGED <<symbolCache, inflight, tokenQueue, tokenBatch, batchStep, abandoned>>

\* Mutant of MarkInflight: a mark that is set already does not stop the caller.
MarkInflightAnyway(g) ==
    /\ asker[g].step = "missed"
    /\ inflight' = inflight \cup {asker[g].token}
    /\ asker' = [asker EXCEPT ![g].step = "send"]
    /\ UNCHANGED <<symbolCache, tokenQueue, tokenBatch, batchStep, abandoned>>

\* LoadOrStore: only the caller that sets the mark goes on.
MarkInflight(g) ==
    /\ asker[g].step = "missed"
    /\ inflight' = inflight \cup {asker[g].token}
    /\ asker' = [asker EXCEPT ![g] = IF @.token \in inflight THEN Away
                                     ELSE [@ EXCEPT !.step = "send"]]
    /\ UNCHANGED <<symbolCache, tokenQueue, tokenBatch, batchStep, abandoned>>

HasPlace == Len(tokenQueue) < TokenQueueCap

Queued(g) ==
    /\ tokenQueue' = Append(tokenQueue, asker[g].token)
    /\ asker' = [asker EXCEPT ![g] = Away]

QueueToken(g) ==
    /\ asker[g].step = "send"
    /\ HasPlace
    /\ Queued(g)
    /\ UNCHANGED <<symbolCache, inflight, tokenBatch, batchStep, abandoned>>

QueueFull(g) ==
    /\ asker[g].step = "send"
    /\ ~HasPlace
    /\ asker' = [asker EXCEPT ![g].step = "evict"]
    /\ UNCHANGED <<symbolCache, inflight, tokenQueue, tokenBatch, batchStep, abandoned>>

\* The oldest entry goes.
EvictOldest(g) ==
    /\ asker[g].step = "evict"
    /\ tokenQueue # <<>>
    /\ tokenQueue' = Tail(tokenQueue)
    /\ abandoned' = abandoned \cup {Head(tokenQueue)}
    /\ asker' = [asker EXCEPT ![g].step = "resend"]
    /\ UNCHANGED <<symbolCache, inflight, tokenBatch, batchStep>>

\* "queue state inconsistent": the worker has emptied it meanwhile; the mark stays.
EvictNothing(g) ==
    /\ asker[g].step = "evict"
    /\ tokenQueue = <<>>
    /\ abandoned' = abandoned \cup {asker[g].token}
    /\ asker' = [asker EXCEPT ![g] = Away]
    /\ UNCHANGED <<symbolCache, inflight, tokenQueue, tokenBatch, batchStep>>

\* A plain send: it waits for the worker if another caller took the place.
SendAfterEviction(g) ==
    /\ asker[g].step = "resend"
    /\ HasPlace
    /\ Queued(g)
    /\ UNCHANGED <<symbolCache, inflight, tokenBatch, batchStep, abandoned>>

(***************************************************************************)
(* batchWorker and processBatch                                            *)
(***************************************************************************)
BatchTick ==
    /\ batchStep = "wait"
    /\ batchStep' = "collect"
    /\ UNCHANGED <<symbolCache, inflight, tokenQueue, asker, tokenBatch, abandoned>>

Collect ==
    /\ batchStep = "collect"
    /\ tokenQueue # <<>> /\ Len(tokenBatch) < TokenBatch
    /\ tokenBatch' = Append(tokenBatch, Head(tokenQueue))
    /\ tokenQueue' = Tail(tokenQueue)
    /\ UNCHANGED <<symbolCache, inflight, asker, batchStep, abandoned>>

\* The batch is full or the queue empty: the multicall answers, or there is nothing to do.
CollectEnds ==
    /\ batchStep = "collect"
    /\ tokenQueue = <<>> \/ Len(tokenBatch) = TokenBatch
    /\ batchStep' = IF tokenBatch = <<>> THEN "wait" ELSE "resolve"
    /\ UNCHANGED <<symbolCache, inflight, tokenQueue, asker, tokenBatch, abandoned>>

\* The call, or the decoding of its answer, fails.
MulticallFails ==
    /\ batchStep = "collect"
    /\ tokenBatch # <<>>
    /\ tokenQueue = <<>> \/ Len(tokenBatch) = TokenBatch
    /\ batchStep' = "wait"
    /\ tokenBatch' = <<>>
    /\ abandoned' = abandoned \cup ToSet(tokenBatch)
    /\ UNCHANGED <<symbolCache, inflight, tokenQueue, asker>>

\* Mutant of Resolve: a token without metadata keeps its mark.
ResolveFoundOnly(found) ==
    /\ batchStep = "resolve"
    /\ LET t == Head(tokenBatch) IN
       /\ symbolCache' = IF found THEN symbolCache \cup {t} ELSE symbolCache
       /\ inflight' = IF found THEN inflight \ {t} ELSE inflight
    /\ tokenBatch' = Tail(tokenBatch)
    /\ batchStep' = IF Tail(tokenBatch) = <<>> THEN "wait" ELSE "resolve"
    /\ UNCHANGED <<tokenQueue, asker, abandoned>>

\* One answer: into the cache if there is a symbol or a number of decimals; the mark goes
\* in any case.
Resolve(found) ==
    /\ batchStep = "resolve"
    /\ LET t == Head(tokenBatch) IN
       /\ symbolCache' = IF found THEN symbolCache \cup {t} ELSE symbolCache
       /\ inflight' = inflight \ {t}
    /\ tokenBatch' = Tail(tokenBatch)
    /\ batchStep' = IF Tail(tokenBatch) = <<>> THEN "wait" ELSE "resolve"
    /\ UNCHANGED <<tokenQueue, asker, abandoned>>

StopEnricher ==
    /\ batchStep = "wait"
    /\ batchStep' = "stopped"
    /\ UNCHANGED <<symbolCache, inflight, tokenQueue, asker, tokenBatch, abandoned>>

EnricherNext ==
    \/ \E g \in Askers :
          \/ \E t \in Tokens : CacheMiss(g, t)
          \/ MarkInflight(g) \/ QueueToken(g) \/ QueueFull(g) \/ EvictOldest(g)
          \/ EvictNothing(g) \/ SendAfterEviction(g)
    \/ BatchTick \/ Collect \/ CollectEnds \/ MulticallFails \/ StopEnricher
    \/ \E found \in BOOLEAN : Resolve(found)

EnricherSpec == EnricherInit /\ [][EnricherNext]_enricherVars

(***************************************************************************)
(* Properties                                                              *)
(***************************************************************************)
EnricherTypeOK ==
    /\ symbolCache \subseteq Tokens /\ inflight \subseteq Tokens /\ abandoned \subseteq Tokens
    /\ tokenQueue \in Seq(Tokens) /\ Len(tokenQueue) <= TokenQueueCap
    /\ asker \in [Askers -> [step : {"away", "missed", "send", "evict", "resend"},
                             token : Tokens]]
    /\ tokenBatch \in Seq(Tokens) /\ Len(tokenBatch) <= TokenBatch
    /\ batchStep \in {"wait", "collect", "resolve", "stopped"}

Carriers(t) == {g \in Askers : asker[g].step \in {"send", "evict", "resend"}
                               /\ asker[g].token = t}

UnderWayCount(t) ==
    Cardinality(Carriers(t))
    + Cardinality({i \in DOMAIN tokenQueue : tokenQueue[i] = t})
    + Cardinality({i \in DOMAIN tokenBatch : tokenBatch[i] = t})

\* A token is under way at most once, between its callers, the queue and the worker: no
\* race of the cache look-up, the mark, an eviction and a batch makes a second request.
OnceUnderWay == \A t \in Tokens : UnderWayCount(t) <= 1

\* A mark that stays belongs to a token still under way, or to one that a full queue or a
\* failed batch gave up: only those are never asked for again.
MarksExplained == \A t \in inflight : UnderWayCount(t) = 1 \/ t \in abandoned

=============================================================================
