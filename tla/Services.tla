------------------------------ MODULE Services ------------------------------
(***************************************************************************)
(* The services around the pipeline that share no state with each other:   *)
(* the RPC pool, the guards of the stored data, the rollback, the two      *)
(* quotas, the replay of recordings, the WebSocket hub, the token          *)
(* enricher, the extraction of transfers, the traffic generators, the      *)
(* orchestrator's watermarks, the back-pressure and the listener for new   *)
(* heads.  A behaviour is one of one of them, chosen at the start; the     *)
(* others stay in one initial state.                                       *)
(***************************************************************************)
EXTENDS RpcPool, DataGuard, Rollback, RateWindow, QuotaGuard, Replay, WsHub, Enricher,
        Extraction, Traffic, Watermarks, BackPressure, WssListener

VARIABLE
    service         \* the service that is looked at

ServiceNames == {"pool", "guard", "rollback", "window", "quota", "replay", "hub",
                 "enricher", "extraction", "traffic", "watermarks", "pressure", "wss"}

vars == <<service, poolVars, guardVars, reorgVars, windowVars, quotaVars, replayVars,
          hubVars, enricherVars, extractVars, trafficVars, markVars,
          pressureVars, wssVars>>

Init ==
    /\ service \in ServiceNames
    /\ PoolInit
    /\ service # "pool" => \A n \in PoolNodes : health[n].ok
    /\ GuardInit
    /\ ReorgInit
    /\ WindowInit
    /\ QuotaInit
    /\ ReplayInit
    /\ service # "replay" => trajectory = <<>> /\ pushing
    /\ HubInit
    /\ EnricherInit
    /\ ExtractInit
    /\ service # "extraction" => txs = <<>> /\ localChain
    /\ TrafficInit
    /\ MarkInit
    /\ service # "watermarks" => resumedAt = 0
    /\ PressureInit
    /\ WssInit

\* Only the chosen service moves.
Only(name) ==
    /\ service = name
    /\ UNCHANGED service
    /\ name = "pool" \/ UNCHANGED poolVars
    /\ name = "guard" \/ UNCHANGED guardVars
    /\ name = "rollback" \/ UNCHANGED reorgVars
    /\ name = "window" \/ UNCHANGED windowVars
    /\ name = "quota" \/ UNCHANGED quotaVars
    /\ name = "replay" \/ UNCHANGED replayVars
    /\ name = "hub" \/ UNCHANGED hubVars
    /\ name = "enricher" \/ UNCHANGED enricherVars
    /\ name = "extraction" \/ UNCHANGED extractVars
    /\ name = "traffic" \/ UNCHANGED trafficVars
    /\ name = "watermarks" \/ UNCHANGED markVars
    /\ name = "pressure" \/ UNCHANGED pressureVars
    /\ name = "wss" \/ UNCHANGED wssVars

Next ==
    \/ Only("pool") /\ PoolNext
    \/ Only("guard") /\ GuardNext
    \/ Only("rollback") /\ ReorgNext
    \/ Only("window") /\ WindowNext
    \/ Only("quota") /\ QuotaNext
    \/ Only("replay") /\ ReplayNext
    \/ Only("hub") /\ HubNext
    \/ Only("enricher") /\ EnricherNext
    \/ Only("extraction") /\ ExtractNext
    \/ Only("traffic") /\ TrafficNext
    \/ Only("watermarks") /\ MarkNext
    \/ Only("pressure") /\ PressureNext
    \/ Only("wss") /\ WssNext

Spec == Init /\ [][Next]_vars

=============================================================================
