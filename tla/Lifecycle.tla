----------------------------- MODULE Lifecycle ------------------------------
(***************************************************************************)
(* Who wakes and pauses the fetcher.  The lazy manager (lazy_manager.go)   *)
(* puts the indexer to sleep when no user was active for a while and wakes *)
(* it on a user's request or on a block found in the database.  Without a  *)
(* state manager it drives the fetcher's pause flag itself, from three     *)
(* goroutines and partly outside its lock; with one it only sends requests *)
(* to it.  The sequencer pauses and resumes the same flag for reasons of   *)
(* its own (a full buffer, a reorg, a buffer that has drained) without     *)
(* knowing who paused it.                                                  *)
(***************************************************************************)
EXTENDS FetchWorkers, StateManager

CONSTANTS
    WithStateManager,   \* the set of configurations to look at: stateManager set or not
    MaxAccessors        \* bound: concurrent RecordAccess goroutines

ASSUME LifecycleAssumption == WithStateManager \subseteq BOOLEAN /\ MaxAccessors \in Nat

VARIABLES
    delegated,      \* lm.stateManager # nil
    isActive,       \* lm.isActive
    isAlwaysActive, \* lm.isAlwaysActive
    heartbeatOld,   \* lastHeartbeat is older than the timeout
    wakers,         \* wake-up goroutines of Trigger that have not resumed the fetcher yet
    monitor,        \* the monitor loop: "tick", or "pause" after it released lm.mu
    seqPaused,      \* history: the sequencer paused the fetcher last
    seqResumed,     \* history: the sequencer resumed it since the last sleep
    overtaken       \* history: a wake-up came between the decision to sleep and Pause

lazyVars == <<delegated, isActive, isAlwaysActive, heartbeatOld, wakers, monitor,
              seqPaused, seqResumed, overtaken>>
vars == <<fetchVars, smVars, lazyVars>>

fetchRest == <<todo, jobs, results, stopped, cancelled, worker, taken, answered, overrun>>

\* NewLazyManager pauses the fetcher and starts inactive with an old heartbeat; a
\* local chain calls SetAlwaysActive next.  With a state manager the fetcher gets no
\* work here: the two share no step then.
Init ==
    /\ delegated \in WithStateManager
    /\ isAlwaysActive \in BOOLEAN
    /\ isActive = isAlwaysActive
    /\ heartbeatOld = TRUE
    /\ wakers = 0
    /\ monitor = "tick"
    /\ seqPaused = FALSE /\ seqResumed = FALSE /\ overtaken = FALSE
    /\ SmInit
    /\ ~delegated => currentState = "idle"
    /\ FetchInit(IF delegated THEN <<>> ELSE Ranges, ~isAlwaysActive)

Resume == paused' = FALSE /\ seqPaused' = FALSE

\* The monitor is about to pause a fetcher that someone wakes up in between.
Overtakes == overtaken' = (overtaken \/ monitor = "pause")

(***************************************************************************)
(* LazyManager                                                             *)
(***************************************************************************)
\* A user's request.  Only the first one after a sleep wakes anything up.
Trigger ==
    /\ ~isAlwaysActive
    /\ heartbeatOld' = FALSE
    /\ isActive' = TRUE
    /\ \/ /\ isActive
          /\ UNCHANGED <<wakers, accessors, overtaken>>
       \/ /\ ~isActive /\ delegated
          /\ accessors < MaxAccessors
          /\ accessors' = accessors + 1
          /\ UNCHANGED <<wakers, overtaken>>
       \/ /\ ~isActive /\ ~delegated
          /\ wakers' = wakers + 1
          /\ Overtakes
          /\ UNCHANGED accessors
    /\ UNCHANGED <<fetchVars, currentState, stateCh, moving, sinceAccess, running, lowPower,
                   stopFailed, smStopped, missed, delegated, isAlwaysActive, monitor, seqPaused,
                   seqResumed>>

\* The wake-up goroutine: a linearity check of up to 30 s, then Resume, without lm.mu.
WakeUp ==
    /\ wakers > 0
    /\ wakers' = wakers - 1
    /\ Resume
    /\ UNCHANGED <<fetchRest, smVars, delegated, isActive, isAlwaysActive, heartbeatOld,
                   monitor, seqResumed, overtaken>>

\* Mutant of NotifyBlockProcessed: the manager becomes active and resumes nothing.
NotifyBlockProcessedOnly ==
    /\ answered # {}
    /\ ~isActive /\ ~isAlwaysActive
    /\ isActive' = TRUE
    /\ Overtakes
    /\ UNCHANGED <<fetchVars, smVars, delegated, isAlwaysActive, heartbeatOld, wakers,
                   monitor, seqPaused, seqResumed>>

\* The metrics loop found a new block in the database while asleep: wake up at once,
\* without touching the heartbeat.
NotifyBlockProcessed ==
    /\ delegated \/ answered # {}
    /\ ~isActive /\ ~isAlwaysActive
    /\ isActive' = TRUE
    /\ \/ /\ delegated
          /\ accessors < MaxAccessors
          /\ accessors' = accessors + 1
          /\ UNCHANGED <<paused, seqPaused, overtaken>>
       \/ /\ ~delegated
          /\ Resume
          /\ Overtakes
          /\ UNCHANGED accessors
    /\ UNCHANGED <<fetchRest, currentState, stateCh, moving, sinceAccess, running, lowPower,
                   stopFailed, smStopped, missed, delegated, isAlwaysActive, heartbeatOld, wakers,
                   monitor, seqResumed>>

\* The timeout (5 min) outlasts the wake-up goroutine (30 s).
HeartbeatExpires ==
    /\ ~heartbeatOld
    /\ wakers = 0
    /\ heartbeatOld' = TRUE
    /\ UNCHANGED <<fetchVars, smVars, delegated, isActive, isAlwaysActive, wakers, monitor,
                   seqPaused, seqResumed, overtaken>>

\* The 30 s tick: fall asleep under lm.mu unless the indexer lags by more than ten
\* blocks.  The fetcher is paused, or the state manager asked, after the lock is gone.
MonitorTick(lagging) ==
    /\ ~cancelled
    /\ monitor = "tick"
    /\ ~isAlwaysActive /\ isActive /\ heartbeatOld
    /\ ~lagging
    /\ isActive' = FALSE
    /\ monitor' = "pause"
    /\ seqResumed' = FALSE
    /\ overtaken' = FALSE
    /\ UNCHANGED <<fetchVars, smVars, delegated, isAlwaysActive, heartbeatOld, wakers,
                   seqPaused>>

\* Mutant of MonitorPause: the fetcher is left alone.
MonitorPauseNothing ==
    /\ monitor = "pause"
    /\ monitor' = "tick"
    /\ delegated => Request("idle")
    /\ delegated \/ UNCHANGED <<stateCh, missed>>
    /\ UNCHANGED <<fetchVars, currentState, moving, sinceAccess, running, lowPower, accessors,
                   stopFailed, smStopped, delegated, isActive, isAlwaysActive, heartbeatOld, wakers,
                   seqPaused, seqResumed, overtaken>>

MonitorPause ==
    /\ monitor = "pause"
    /\ monitor' = "tick"
    /\ \/ /\ delegated
          /\ Request("idle")
          /\ UNCHANGED <<paused, seqPaused, seqResumed>>
       \/ /\ ~delegated
          /\ paused' = TRUE
          /\ seqPaused' = FALSE
          /\ seqResumed' = FALSE
          /\ UNCHANGED <<stateCh, missed>>
    /\ UNCHANGED <<fetchRest, currentState, moving, sinceAccess, running, lowPower, accessors,
                   stopFailed, smStopped, delegated, isActive, isAlwaysActive, heartbeatOld, wakers,
                   overtaken>>

(***************************************************************************)
(* The sequencer, the fetcher's other controller                           *)
(***************************************************************************)
\* It takes a result; a drained buffer resumes the fetcher whoever paused it, a full
\* one or a reorg pauses it.
SequencerTakes(then) ==
    /\ results # <<>>
    /\ results' = Tail(results)
    /\ \/ /\ then = "resume" /\ paused
          /\ Resume
          /\ seqResumed' = TRUE
       \/ /\ then = "pause" /\ ~paused
          /\ paused' = TRUE
          /\ seqPaused' = TRUE
          /\ UNCHANGED seqResumed
       \/ /\ then = "nothing"
          /\ UNCHANGED <<paused, seqPaused, seqResumed>>
    /\ UNCHANGED <<todo, jobs, stopped, cancelled, worker, taken, answered, overrun, smVars,
                   delegated, isActive, isAlwaysActive, heartbeatOld, wakers, monitor,
                   overtaken>>

Next ==
    \/ Trigger \/ WakeUp \/ NotifyBlockProcessed \/ HeartbeatExpires
    \/ \E lagging \in BOOLEAN : MonitorTick(lagging)
    \/ MonitorPause
    \/ \E then \in {"resume", "pause", "nothing"} : SequencerTakes(then)
    \/ \E w \in Workers : WorkerStep(w) /\ UNCHANGED <<smVars, lazyVars>>
    \/ (Schedule \/ ClearJobs \/ Stop \/ DrainJobs \/ Cancel) /\ UNCHANGED <<smVars, lazyVars>>
    \/ delegated /\ SmStep /\ UNCHANGED <<fetchVars, lazyVars>>

Spec == Init /\ [][Next]_vars

(***************************************************************************)
(* Fairness.  Goroutines are scheduled: a worker that can go on does, and  *)
(* its RPC calls end (each has a timeout); the wake-up, the access and the *)
(* transition goroutines finish.  Nothing is assumed of the users, of the  *)
(* sequencer or of the clock.                                              *)
(***************************************************************************)
Fairness ==
    /\ \A w \in Workers : WF_vars(WorkerStep(w) /\ UNCHANGED <<smVars, lazyVars>>)
    /\ WF_vars(WakeUp)
    /\ WF_vars(MonitorPause)
    /\ WF_vars(RecordAccess /\ UNCHANGED <<fetchVars, lazyVars>>)
    /\ WF_vars(\E ok \in BOOLEAN : BeginTransition(ok) /\ UNCHANGED <<fetchVars, lazyVars>>)
    /\ WF_vars(\E ok \in BOOLEAN : FinishTransition(ok) /\ UNCHANGED <<fetchVars, lazyVars>>)

FairSpec == Spec /\ Fairness

(***************************************************************************)
(* Properties                                                              *)
(***************************************************************************)
\* The types of the three parts; at most one wake-up goroutine is on its way, since
\* the flag that starts it is cleared only after the heartbeat has expired.
TypeOK ==
    /\ FetchTypeOK /\ SmTypeOK
    /\ delegated \in BOOLEAN /\ isActive \in BOOLEAN /\ isAlwaysActive \in BOOLEAN
    /\ heartbeatOld \in BOOLEAN
    /\ wakers \in 0..1
    /\ monitor \in {"tick", "pause"}
    /\ seqPaused \in BOOLEAN /\ seqResumed \in BOOLEAN /\ overtaken \in BOOLEAN

\* While the lazy manager is active the fetcher runs, up to a wake-up on its way, the
\* sequencer's own pause, and the one race the code leaves: the monitor's Pause, called
\* after lm.mu was released, overtaken by a wake-up and undoing it for good.
ActiveMeansRunning ==
    (~delegated /\ isActive /\ paused) =>
        wakers > 0 \/ seqPaused \/ overtaken

\* Asleep, the fetcher is paused, unless the sequencer resumed it.
AsleepMeansPaused ==
    (~delegated /\ ~isActive /\ monitor = "tick") => paused \/ seqResumed

\* After Stop every worker ends, also with a full result channel and in the middle of
\* a range, except those that a pause keeps waiting: Stop does not wake them.
StopEndsWorkers ==
    stopped ~> (paused \/ \A w \in Workers : worker[w].step = "exit")

\* An access leads to the active state, unless the request was dropped or was decided
\* on a state that was being left, or the manager stops.
AccessActivates ==
    (accessors > 0) ~> (currentState = "active" \/ missed \/ smStopped)

=============================================================================
