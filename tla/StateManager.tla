---------------------------- MODULE StateManager ----------------------------
(***************************************************************************)
(* The state manager (state_manager_*.go): a goroutine that starts, stops  *)
(* and throttles the indexer, one transition at a time from a bounded      *)
(* channel, a watchdog that asks for transitions by the time since the     *)
(* last access, and the callers of RecordAccess.  A transition takes time  *)
(* (it starts or stops the indexer) and currentState is stored at its end, *)
(* so the others may decide on the old state.  The indexer behind the      *)
(* IndexerService interface is external: it runs or not, in low power mode *)
(* or not; Start and Stop may fail, and a failure of either is only        *)
(* logged.                                                                 *)
(***************************************************************************)
EXTENDS Integers, Sequences

CONSTANT
    StateCap        \* capacity of stateCh (10)

ASSUME StateManagerAssumption == StateCap \in Nat \ {0}

States == {"active", "idle", "watching"}

VARIABLES
    currentState,   \* StateManager.currentState
    stateCh,        \* StateManager.stateCh
    moving,         \* the transition the processor executes, "none" if there is none
    sinceAccess,    \* time since lastAccess: "recent", "demo" (over 5 min), "idle" (over 10)
    running,        \* IndexerService.IsRunning
    lowPower,       \* IndexerService low power mode
    accessors,      \* goroutines about to call RecordAccess
    smStopped,      \* StateManager.Stop was called
    stopFailed,     \* history: the last call of the indexer's Stop left it running
    missed          \* history: a transition was dropped, or an access decided on a
                    \* state that a transition under way was about to leave

smVars == <<currentState, stateCh, moving, sinceAccess, running, lowPower, accessors,
            smStopped, stopFailed, missed>>

\* The state NewStateManager starts in: continuous operation and a disabled smart
\* sleep both begin active.  Whether the indexer runs then is up to whoever made it.
SmInit ==
    /\ currentState \in {"idle", "active"}
    /\ stateCh = <<>>
    /\ moving = "none"
    /\ sinceAccess = "recent"
    /\ running \in {FALSE, currentState = "active"}
    /\ lowPower = FALSE
    /\ accessors = 0
    /\ smStopped = FALSE
    /\ stopFailed = FALSE
    /\ missed = FALSE

\* transitionTo: dropped when the channel is full.
Request(s) ==
    \/ /\ Len(stateCh) < StateCap
       /\ stateCh' = Append(stateCh, s)
       /\ UNCHANGED missed
    \/ /\ Len(stateCh) = StateCap
       /\ missed' = TRUE
       /\ UNCHANGED stateCh

\* Mutant of RecordAccess: an access while watching is taken for one while active.
RecordAccessIdleOnly ==
    /\ accessors > 0
    /\ accessors' = accessors - 1
    /\ sinceAccess' = "recent"
    /\ \/ /\ currentState = "idle"
          /\ Request("active")
       \/ /\ currentState # "idle"
          /\ missed' = (missed \/ moving # "none" \/ stateCh # <<>>)
          /\ UNCHANGED stateCh
    /\ UNCHANGED <<currentState, moving, running, lowPower, smStopped, stopFailed>>

\* RecordAccess, in a goroutine of its caller.
RecordAccess ==
    /\ accessors > 0
    /\ accessors' = accessors - 1
    /\ sinceAccess' = "recent"
    /\ \/ /\ currentState \in {"idle", "watching"}
          /\ Request("active")
       \/ /\ currentState = "active"
          /\ missed' = (missed \/ moving # "none" \/ stateCh # <<>>)
          /\ UNCHANGED stateCh
    /\ UNCHANGED <<currentState, moving, running, lowPower, smStopped, stopFailed>>

TimePasses ==
    /\ sinceAccess # "idle"
    /\ accessors = 0
    /\ sinceAccess' = IF sinceAccess = "recent" THEN "demo" ELSE "idle"
    /\ UNCHANGED <<currentState, stateCh, moving, running, lowPower, accessors, smStopped,
                   stopFailed, missed>>

\* The watchdog's minute tick.
CheckAndTransition ==
    /\ ~smStopped
    /\ \/ /\ currentState = "active" /\ sinceAccess # "recent"
          /\ Request("idle")
       \/ /\ currentState = "idle" /\ sinceAccess = "idle"
          /\ Request("watching")
    /\ UNCHANGED <<currentState, moving, sinceAccess, running, lowPower, accessors, smStopped,
                   stopFailed>>

\* indexer.Stop, which works or leaves the indexer as it is.
StopIndexer(ok) ==
    /\ running' = (running /\ ~ok)
    /\ stopFailed' = (running /\ ~ok)

\* stateProcessor takes a request and leaves the old state; a request for the state
\* it is in changes nothing.  Leaving active stops the indexer.
BeginTransition(ok) ==
    /\ ~smStopped
    /\ moving = "none"
    /\ stateCh # <<>>
    /\ stateCh' = Tail(stateCh)
    /\ \/ /\ Head(stateCh) = currentState
          /\ UNCHANGED <<moving, running, lowPower, stopFailed>>
       \/ /\ Head(stateCh) # currentState
          /\ moving' = Head(stateCh)
          /\ IF currentState = "active" THEN StopIndexer(ok)
                                        ELSE UNCHANGED <<running, stopFailed>>
          /\ lowPower' = (lowPower /\ currentState # "watching")
    /\ UNCHANGED <<currentState, sinceAccess, accessors, smStopped, missed>>

\* Mutant of EnterState: entering idle does not stop the indexer.
EnterStateRunning(ok) ==
    \/ /\ moving = "active" /\ running' = (running \/ ok)
       /\ UNCHANGED <<lowPower, stopFailed>>
    \/ /\ moving = "idle" /\ UNCHANGED <<running, lowPower, stopFailed>>
    \/ /\ moving = "watching" /\ running' = (running \/ ok)
       /\ lowPower' = (lowPower \/ running')
       /\ UNCHANGED stopFailed

\* Enter the new state.  Start or Stop works (ok) or fails; a failure to start for
\* watching leaves low power mode alone.
EnterState(ok) ==
    \/ /\ moving = "active" /\ running' = (running \/ ok)
       /\ UNCHANGED <<lowPower, stopFailed>>
    \/ /\ moving = "idle" /\ StopIndexer(ok)
       /\ UNCHANGED lowPower
    \/ /\ moving = "watching" /\ running' = (running \/ ok)
       /\ lowPower' = (lowPower \/ running')
       /\ UNCHANGED stopFailed

\* The new state is stored even when Start or Stop failed.
FinishTransition(ok) ==
    /\ moving # "none"
    /\ EnterState(ok)
    /\ currentState' = moving
    /\ moving' = "none"
    /\ UNCHANGED <<stateCh, sinceAccess, accessors, smStopped, missed>>

\* Stop closes stopCh and stops a running indexer; a transition under way is not waited
\* for.
SmStop(ok) ==
    /\ ~smStopped
    /\ smStopped' = TRUE
    /\ IF running THEN StopIndexer(ok) ELSE UNCHANGED <<running, stopFailed>>
    /\ UNCHANGED <<currentState, stateCh, moving, sinceAccess, lowPower, accessors, missed>>

SmStep ==
    \/ RecordAccess \/ TimePasses \/ CheckAndTransition
    \/ \E ok \in BOOLEAN : BeginTransition(ok) \/ FinishTransition(ok) \/ SmStop(ok)

(***************************************************************************)
(* Properties                                                              *)
(***************************************************************************)
SmTypeOK ==
    /\ currentState \in States
    /\ stateCh \in Seq(States) /\ Len(stateCh) <= StateCap
    /\ moving \in States \cup {"none"}
    /\ sinceAccess \in {"recent", "demo", "idle"}
    /\ running \in BOOLEAN /\ lowPower \in BOOLEAN
    /\ accessors \in Nat
    /\ smStopped \in BOOLEAN /\ stopFailed \in BOOLEAN /\ missed \in BOOLEAN

\* Between two transitions the indexer matches the state: when idle it runs only if the
\* Stop made on the way failed (a logged error does not keep the state manager from
\* calling itself idle), and low power mode is on exactly while it runs for watching,
\* whichever requests were queued, repeated or overtaken, and however often Start and
\* Stop failed.
ModeMatchesState ==
    (moving = "none" /\ ~smStopped) =>
        /\ currentState = "idle" /\ running => stopFailed
        /\ lowPower = (currentState = "watching" /\ running)

=============================================================================
