--------------------------- MODULE LifecycleProofs --------------------------
(***************************************************************************)
(* Proofs about who wakes and pauses the fetcher, about the modes of the   *)
(* state manager and about the heights the workers take, for any number of *)
(* workers, any ranges, any capacities and any burst.                      *)
(***************************************************************************)
EXTENDS Lifecycle, TLAPS

(***************************************************************************)
(* The lazy manager and the pause flag.  The property of the sleeping      *)
(* manager needs two facts on the way there: a wake-up goroutine is only   *)
(* under way while the manager is awake and its heartbeat young, and a     *)
(* manager that is awake while its monitor is about to pause was overtaken.*)
(***************************************************************************)
LazyTypes ==
    /\ delegated \in BOOLEAN /\ isActive \in BOOLEAN /\ isAlwaysActive \in BOOLEAN
    /\ heartbeatOld \in BOOLEAN /\ seqPaused \in BOOLEAN /\ seqResumed \in BOOLEAN
    /\ overtaken \in BOOLEAN /\ paused \in BOOLEAN
    /\ wakers \in Nat /\ monitor \in {"tick", "pause"}

WakersAwake == wakers > 0 => isActive /\ ~heartbeatOld

OvertakenAwake == ~delegated /\ monitor = "pause" /\ isActive => overtaken

LazyInv ==
    /\ LazyTypes
    /\ WakersAwake
    /\ OvertakenAwake
    /\ ActiveMeansRunning
    /\ AsleepMeansPaused

LEMMA LazyInitInv == Init => LazyInv
<1> SUFFICES ASSUME Init PROVE LazyInv
  OBVIOUS
<1>1. /\ delegated \in BOOLEAN /\ isAlwaysActive \in BOOLEAN /\ isActive = isAlwaysActive
      /\ heartbeatOld = TRUE /\ wakers = 0 /\ monitor = "tick"
      /\ seqPaused = FALSE /\ seqResumed = FALSE /\ overtaken = FALSE
      /\ paused = ~isAlwaysActive
  BY LifecycleAssumption DEF Init, FetchInit
<1>2. wakers \in Nat /\ ~(wakers > 0)
  BY <1>1
<1> QED
  BY <1>1, <1>2, Zenon
     DEF LazyInv, LazyTypes, WakersAwake, OvertakenAwake, ActiveMeansRunning, AsleepMeansPaused

LEMMA LazyNextInv == LazyInv /\ [Next]_vars => LazyInv'
<1> SUFFICES ASSUME LazyInv, [Next]_vars PROVE LazyInv'
  OBVIOUS
<1> USE DEF LazyInv, LazyTypes, WakersAwake, OvertakenAwake, ActiveMeansRunning,
            AsleepMeansPaused
<1>1. CASE Trigger
  <2>1. /\ isActive' = TRUE /\ heartbeatOld' = FALSE
        /\ UNCHANGED <<paused, delegated, isAlwaysActive, monitor, seqPaused, seqResumed>>
        /\ \/ isActive /\ UNCHANGED <<wakers, overtaken>>
           \/ delegated /\ UNCHANGED <<wakers, overtaken>>
           \/ wakers' = wakers + 1 /\ overtaken' = (overtaken \/ monitor = "pause")
    BY <1>1 DEF Trigger, Overtakes, fetchVars
  <2>2. CASE isActive /\ UNCHANGED <<wakers, overtaken>>
    BY <2>1, <2>2
  <2>3. CASE delegated /\ UNCHANGED <<wakers, overtaken>>
    BY <2>1, <2>3
  <2>4. CASE wakers' = wakers + 1 /\ overtaken' = (overtaken \/ monitor = "pause")
    <3>1. wakers' \in Nat /\ wakers' > 0
      BY <2>4
    <3> QED
      BY <2>1, <2>4, <3>1, Zenon
  <2> QED
    BY <2>1, <2>2, <2>3, <2>4
<1>2. CASE WakeUp
  <2>1. /\ wakers > 0 /\ wakers' = wakers - 1 /\ paused' = FALSE /\ seqPaused' = FALSE
        /\ UNCHANGED <<delegated, isActive, isAlwaysActive, heartbeatOld, monitor,
                       seqResumed, overtaken>>
    BY <1>2 DEF WakeUp, Resume
  <2>2. wakers' \in Nat /\ (wakers' > 0 => wakers > 0)
    BY <2>1
  <2> QED
    BY <2>1, <2>2, Zenon
<1>3. CASE NotifyBlockProcessed
  BY <1>3 DEF NotifyBlockProcessed, Resume, Overtakes
<1>4. CASE HeartbeatExpires
  BY <1>4 DEF HeartbeatExpires, fetchVars
<1>5. ASSUME NEW lagging \in BOOLEAN, MonitorTick(lagging) PROVE LazyInv'
  BY <1>5 DEF MonitorTick, fetchVars
<1>6. CASE MonitorPause
  BY <1>6 DEF MonitorPause
<1>7. ASSUME NEW then, SequencerTakes(then) PROVE LazyInv'
  <2>1. /\ UNCHANGED <<delegated, isActive, isAlwaysActive, heartbeatOld, wakers, monitor,
                       overtaken>>
        /\ \/ paused' = FALSE /\ seqPaused' = FALSE /\ seqResumed' = TRUE
           \/ paused' = TRUE /\ seqPaused' = TRUE /\ seqResumed' = seqResumed
           \/ UNCHANGED <<paused, seqPaused, seqResumed>>
    BY <1>7 DEF SequencerTakes, Resume
  <2>2. CASE paused' = FALSE /\ seqPaused' = FALSE /\ seqResumed' = TRUE
    BY <2>1, <2>2, Zenon
  <2>3. CASE paused' = TRUE /\ seqPaused' = TRUE /\ seqResumed' = seqResumed
    BY <2>1, <2>3, Zenon
  <2>4. CASE UNCHANGED <<paused, seqPaused, seqResumed>>
    BY <2>1, <2>4, Zenon
  <2> QED
    BY <2>1, <2>2, <2>3, <2>4
<1>8. CASE UNCHANGED lazyVars /\ UNCHANGED paused
  BY <1>8 DEF lazyVars
<1>9. ASSUME NEW w \in Workers, WorkerStep(w) PROVE UNCHANGED paused
  BY <1>9 DEF WorkerStep, TakeJob, Leave, PassGate, LogsFetched, SendError, LogsFailed,
              BlockDone, BlockNotFound, AbortBackoff, SendResult, SendGivesUp
<1>10. Schedule \/ ClearJobs \/ Stop \/ DrainJobs \/ Cancel => UNCHANGED paused
  BY DEF Schedule, ClearJobs, Stop, DrainJobs, Cancel
<1>11. CASE UNCHANGED vars
  BY <1>11, <1>8 DEF vars, fetchVars
<1>12. CASE SmStep /\ UNCHANGED <<fetchVars, lazyVars>>
  BY <1>12, <1>8 DEF fetchVars
<1> QED
  BY <1>1, <1>2, <1>3, <1>4, <1>5, <1>6, <1>7, <1>8, <1>9, <1>10, <1>11, <1>12 DEF Next

\* While the lazy manager is active the fetcher runs, up to a wake-up under way, the
\* sequencer's own pause and a Pause of the monitor that a wake-up overtook (Trigger,
\* NotifyBlockProcessed and StartMonitor of lazy_manager.go).
THEOREM ActiveRuns == Spec => []ActiveMeansRunning
<1>1. LazyInv => ActiveMeansRunning
  BY DEF LazyInv
<1> QED
  BY <1>1, LazyInitInv, LazyNextInv, PTL DEF Spec

\* Asleep, the fetcher is paused unless the sequencer resumed it: a wake-up goroutine
\* that is late never resumes it behind the back of a sleep.
THEOREM AsleepPauses == Spec => []AsleepMeansPaused
<1>1. LazyInv => AsleepMeansPaused
  BY DEF LazyInv
<1> QED
  BY <1>1, LazyInitInv, LazyNextInv, PTL DEF Spec

(***************************************************************************)
(* The state manager.  While a transition is under way low power mode is   *)
(* off; that makes the match of mode and state inductive.                  *)
(***************************************************************************)
ModeInv ==
    /\ currentState \in States /\ stateCh \in Seq(States)
    /\ moving \in States \cup {"none"}
    /\ running \in BOOLEAN /\ lowPower \in BOOLEAN /\ smStopped \in BOOLEAN
    /\ stopFailed \in BOOLEAN
    /\ moving # "none" /\ ~smStopped => ~lowPower
    /\ ModeMatchesState

LEMMA ModeInitInv == Init => ModeInv
<1> SUFFICES ASSUME Init PROVE ModeInv
  OBVIOUS
<1>1. /\ currentState \in States /\ stateCh \in Seq(States) /\ moving = "none"
      /\ lowPower = FALSE /\ smStopped = FALSE /\ stopFailed = FALSE
  BY DEF Init, SmInit, States
<1>2. running = FALSE \/ (running = TRUE /\ currentState = "active")
  BY DEF Init, SmInit
<1>3. lowPower = (currentState = "watching" /\ running) /\ (currentState = "idle" => ~running)
  BY <1>1, <1>2
<1> QED
  BY <1>1, <1>2, <1>3, Zenon DEF ModeInv, ModeMatchesState

\* Asking for a transition only changes the queue.
LEMMA RequestKeepsMode ==
    ASSUME ModeInv, NEW s \in States, Request(s) \/ UNCHANGED stateCh,
           UNCHANGED <<currentState, moving, running, lowPower, smStopped, stopFailed>>
    PROVE  ModeInv'
<1>1. stateCh' \in Seq(States)
  BY DEF ModeInv, Request
<1> QED
  BY <1>1 DEF ModeInv, ModeMatchesState

\* Stop leaves the indexer running only when it fails.
LEMMA StopIndexerMode ==
    ASSUME NEW ok \in BOOLEAN, StopIndexer(ok)
    PROVE  running' \in BOOLEAN /\ stopFailed' \in BOOLEAN /\ (running' => stopFailed')
BY Zenon DEF StopIndexer

LEMMA BeginKeepsMode ==
    ASSUME ModeInv, NEW ok \in BOOLEAN, BeginTransition(ok)
    PROVE  ModeInv'
<1>1. Head(stateCh) \in States /\ stateCh' \in Seq(States)
  BY DEF ModeInv, BeginTransition
<1>2. /\ ~smStopped /\ moving = "none" /\ UNCHANGED <<currentState, smStopped>>
      /\ currentState = "idle" /\ running => stopFailed
      /\ lowPower = (currentState = "watching" /\ running)
  BY DEF ModeInv, BeginTransition, ModeMatchesState
<1>3. CASE UNCHANGED <<moving, running, lowPower, stopFailed>>
  BY <1>1, <1>2, <1>3 DEF ModeInv, ModeMatchesState
<1>4. CASE /\ moving' = Head(stateCh)
           /\ IF currentState = "active" THEN StopIndexer(ok)
                                         ELSE UNCHANGED <<running, stopFailed>>
           /\ lowPower' = (lowPower /\ currentState # "watching")
  <2>1. lowPower' = FALSE
    BY <1>2, <1>4, Zenon DEF ModeInv
  <2>2. running' \in BOOLEAN /\ stopFailed' \in BOOLEAN
    <3>1. CASE currentState = "active"
      BY <1>4, <3>1, StopIndexerMode
    <3>2. CASE currentState # "active"
      BY <1>4, <3>2, Zenon DEF ModeInv
    <3> QED
      BY <3>1, <3>2
  <2>3. moving' \in States /\ moving' # "none"
    BY <1>1, <1>4 DEF States
  <2> QED
    BY <2>1, <2>2, <2>3, <1>1, <1>2, Zenon DEF ModeInv, ModeMatchesState
<1> QED
  BY <1>3, <1>4 DEF BeginTransition

LEMMA FinishKeepsMode ==
    ASSUME ModeInv, NEW ok \in BOOLEAN, FinishTransition(ok)
    PROVE  ModeInv'
<1>1. /\ moving \in States /\ currentState' = moving /\ moving' = "none"
      /\ UNCHANGED <<stateCh, smStopped>> /\ EnterState(ok)
      /\ ~smStopped => ~lowPower
  BY DEF ModeInv, FinishTransition
<1>2. CASE moving = "active"
  <2>1. /\ running' \in BOOLEAN /\ lowPower' = lowPower /\ stopFailed' = stopFailed
        /\ currentState' = "active"
    BY <1>1, <1>2, Zenon DEF EnterState
  <2> QED
    BY <1>1, <2>1, Zenon DEF ModeInv, ModeMatchesState
<1>3. CASE moving = "idle"
  <2>1. StopIndexer(ok) /\ lowPower' = lowPower /\ currentState' = "idle"
    BY <1>1, <1>3, Zenon DEF EnterState
  <2>2. running' \in BOOLEAN /\ stopFailed' \in BOOLEAN /\ (running' => stopFailed')
    BY <2>1, StopIndexerMode
  <2> QED
    BY <1>1, <2>1, <2>2, Zenon DEF ModeInv, ModeMatchesState
<1>4. CASE moving = "watching"
  <2>1. /\ running' = (running \/ ok) /\ lowPower' = (lowPower \/ running')
        /\ stopFailed' = stopFailed /\ currentState' = "watching"
    BY <1>1, <1>4, Zenon DEF EnterState
  <2>2. running' \in BOOLEAN /\ lowPower' \in BOOLEAN
    BY <2>1, Zenon
  <2>3. ~smStopped' => lowPower' = running'
    BY <1>1, <2>1, Zenon DEF ModeInv
  <2> QED
    BY <1>1, <2>1, <2>2, <2>3, Zenon DEF ModeInv, ModeMatchesState
<1> QED
  BY <1>1, <1>2, <1>3, <1>4 DEF States

LEMMA ModeNextInv == ModeInv /\ [Next]_vars => ModeInv'
<1> SUFFICES ASSUME ModeInv, [Next]_vars PROVE ModeInv'
  OBVIOUS
<1>1. CASE UNCHANGED <<currentState, moving, running, lowPower, smStopped, stopFailed, stateCh>>
  BY <1>1 DEF ModeInv, ModeMatchesState
<1>2. CASE SmStep
  <2>1. RecordAccess => ModeInv'
    BY RequestKeepsMode DEF RecordAccess, States
  <2>2. TimePasses => ModeInv'
    BY <1>1 DEF TimePasses
  <2>3. CheckAndTransition => ModeInv'
    BY RequestKeepsMode DEF CheckAndTransition, States
  <2>4. ASSUME NEW ok \in BOOLEAN, SmStop(ok) PROVE ModeInv'
    <3>1. /\ UNCHANGED <<currentState, stateCh, moving, lowPower>> /\ smStopped' = TRUE
          /\ running' \in BOOLEAN /\ stopFailed' \in BOOLEAN
      BY <2>4, StopIndexerMode DEF SmStop, ModeInv
    <3> QED
      BY <3>1, Zenon DEF ModeInv, ModeMatchesState
  <2> QED
    BY <1>2, <2>1, <2>2, <2>3, <2>4, BeginKeepsMode, FinishKeepsMode DEF SmStep
<1>3. CASE MonitorPause
  BY <1>3, RequestKeepsMode DEF MonitorPause, States
<1>4. CASE Trigger \/ WakeUp \/ NotifyBlockProcessed \/ HeartbeatExpires
  BY <1>4, <1>1 DEF Trigger, WakeUp, NotifyBlockProcessed, HeartbeatExpires, smVars
<1>5. ASSUME NEW b \in BOOLEAN, MonitorTick(b) PROVE ModeInv'
  BY <1>5, <1>1 DEF MonitorTick, smVars
<1>6. ASSUME NEW then, SequencerTakes(then) PROVE ModeInv'
  BY <1>6, <1>1 DEF SequencerTakes, smVars
<1>7. CASE UNCHANGED smVars
  BY <1>7, <1>1 DEF smVars
<1> QED
  BY <1>2, <1>3, <1>4, <1>5, <1>6, <1>7 DEF Next, vars

\* Between two transitions the indexer matches the state, whichever requests were queued,
\* dropped or repeated and however often Start and Stop failed: it runs in the idle state
\* only when the Stop made on entering it failed (executeTransition).
THEOREM ModeMatches == Spec => []ModeMatchesState
<1>1. ModeInv => ModeMatchesState
  BY DEF ModeInv
<1> QED
  BY <1>1, ModeInitInv, ModeNextInv, PTL DEF Spec

(***************************************************************************)
(* The workers.  The property is inductive as soon as ranges are pairs of  *)
(* integers.                                                               *)
(***************************************************************************)
WorkTypes ==
    /\ todo \in Seq(Int \X Int) /\ jobs \in Seq(Int \X Int)
    /\ worker \in [Workers -> [step : {"idle", "gate", "logs", "block", "error", "send",
                                       "sendErr", "exit"},
                               at : Int, end : Int, tries : Int]]

Working(w) == worker[w].step \notin {"idle", "exit"}

\* What a height of a job needs to be accounted for.
Accounted(h) ==
    \/ h \in answered \cup overrun
    \/ \E w \in Workers : Working(w) /\ h \in worker[w].at..worker[w].end

WorkInv == WorkTypes /\ (Ending \/ \A h \in taken : Accounted(h))

LEMMA InWorkAccounts ==
    (\A h \in taken : Accounted(h)) => taken \subseteq answered \cup InWork \cup overrun
  BY DEF Accounted, Working, InWork

LEMMA WorkInitInv == Init => WorkInv
<1> SUFFICES ASSUME Init PROVE WorkInv
  OBVIOUS
<1>1. todo \in Seq(Int \X Int)
  <2>1. todo = <<>> \/ todo = Ranges
    BY DEF Init, FetchInit
  <2>2. Ranges \in Seq(Int \X Int)
    <3>1. Ranges \in Seq((Nat \ {0}) \X Nat)
      BY FetchWorkersAssumption
    <3> QED
      BY <3>1
  <2>3. <<>> \in Seq(Int \X Int)
    OBVIOUS
  <2> QED
    BY <2>1, <2>2, <2>3
<1> QED
  BY <1>1 DEF Init, FetchInit, WorkInv, WorkTypes, Idle

\* A step that touches no worker, takes no job and forgets no answer.
LEMMA WorkKept ==
    ASSUME WorkInv, UNCHANGED <<worker, taken, answered, overrun>>,
           Ending => Ending', todo' \in Seq(Int \X Int), jobs' \in Seq(Int \X Int)
    PROVE  WorkInv'
  BY DEF WorkInv, WorkTypes, Accounted, Working

\* A step of worker w from s to t: it is enough to account for the rest of its range.
LEMMA WorkMoves ==
    ASSUME WorkInv, NEW w \in Workers,
           NEW t \in [step : {"idle", "gate", "logs", "block", "error", "send",
                             "sendErr", "exit"}, at : Int, end : Int, tries : Int],
           worker' = [worker EXCEPT ![w] = t], Ending => Ending',
           todo' \in Seq(Int \X Int), jobs' \in Seq(Int \X Int),
           answered \subseteq answered', overrun \subseteq overrun',
           Ending' \/ \A h \in taken' :
              \/ h \in taken /\ ~(Working(w) /\ h \in worker[w].at..worker[w].end)
              \/ h \in answered' \cup overrun'
              \/ t.step \notin {"idle", "exit"} /\ h \in t.at..t.end
    PROVE  WorkInv'
<1>1. WorkTypes'
  BY DEF WorkInv, WorkTypes
<1>2. CASE Ending'
  BY <1>1, <1>2 DEF WorkInv
<1>3. CASE ~Ending'
  <2> SUFFICES ASSUME NEW h \in taken' PROVE Accounted(h)'
    BY <1>1 DEF WorkInv
  <2>1. worker'[w] = t /\ \A v \in Workers : v # w => worker'[v] = worker[v]
    BY DEF WorkInv, WorkTypes
  <2>2. CASE h \in taken /\ ~(Working(w) /\ h \in worker[w].at..worker[w].end)
    <3>1. Accounted(h)
      BY <2>2, <1>3 DEF WorkInv
    <3> QED
      BY <3>1, <2>1, <2>2 DEF Accounted, Working
  <2>3. CASE h \in answered' \cup overrun'
    BY <2>3 DEF Accounted
  <2>4. CASE t.step \notin {"idle", "exit"} /\ h \in t.at..t.end
    BY <2>4, <2>1 DEF Accounted, Working
  <2> QED
    BY <2>2, <2>3, <2>4, <1>3
<1> QED
  BY <1>2, <1>3

\* Two fields of a worker's record are replaced by values of their types.
LEMMA TwoFields ==
    ASSUME NEW Step, NEW s \in [step : Step, at : Int, end : Int, tries : Int],
           NEW x \in Step, NEW n \in Int
    PROVE  /\ [s EXCEPT !.step = x, !.tries = n]
                \in [step : Step, at : Int, end : Int, tries : Int]
           /\ [s EXCEPT !.step = x, !.at = n]
                \in [step : Step, at : Int, end : Int, tries : Int]
  OBVIOUS

LEMMA WorkerKeeps ==
    ASSUME WorkInv, NEW w \in Workers, WorkerStep(w)
    PROVE  WorkInv'
<1> DEFINE Record == [step : {"idle", "gate", "logs", "block", "error", "send", "sendErr",
                             "exit"}, at : Int, end : Int, tries : Int]
<1>1. PICK s \in Record : s = worker[w]
  BY DEF WorkInv, WorkTypes
<1>2. Idle \in Record /\ Exited \in Record
  BY DEF Idle, Exited
<1>3. todo \in Seq(Int \X Int) /\ jobs \in Seq(Int \X Int)
  BY DEF WorkInv, WorkTypes
<1>4. CASE TakeJob(w)
  <2>1. PICK job \in Int \X Int : job = Head(jobs)
    BY <1>3, <1>4 DEF TakeJob
  <2> DEFINE t == [Idle EXCEPT !.step = "gate", !.at = job[1], !.end = job[2]]
  <2>2. t \in Record /\ t.step = "gate" /\ t.at = job[1] /\ t.end = job[2]
    <3>1. job[1] \in Int /\ job[2] \in Int
      BY <2>1
    <3> QED
      BY <3>1, <1>2
  <2>3. /\ worker' = [worker EXCEPT ![w] = t] /\ taken' = taken \cup (job[1]..job[2])
        /\ UNCHANGED <<todo, answered, overrun, stopped, cancelled>>
        /\ ~Working(w)
    BY <1>4, <2>1 DEF TakeJob, Becomes, Working
  <2>4. jobs' \in Seq(Int \X Int)
    BY <1>3, <1>4 DEF TakeJob
  <2> HIDE DEF t
  <2> QED
    BY <2>2, <2>3, <2>4, <1>3, WorkMoves DEF Ending
<1>5. CASE Leave(w)
  <2>1. /\ worker' = [worker EXCEPT ![w] = Exited] /\ ~Working(w)
        /\ UNCHANGED <<todo, jobs, taken, answered, overrun, stopped, cancelled>>
    BY <1>5 DEF Leave, Becomes, Working
  <2> QED
    BY <2>1, <1>2, <1>3, WorkMoves DEF Ending
<1>6. CASE \/ PassGate(w) /\ Ending
           \/ AbortBackoff(w) \/ (SendGivesUp(w) /\ Ending) \/ (SendError(w) /\ Ending)
  <2>2. /\ worker' = [worker EXCEPT ![w] = Idle] \/ worker' = [worker EXCEPT ![w] = Exited]
        /\ Ending' /\ UNCHANGED <<todo, jobs>>
    BY <1>6 DEF PassGate, AbortBackoff, SendGivesUp, SendError, Ending, Becomes
  <2>3. WorkTypes'
    BY <2>2, <1>2, <1>3 DEF WorkInv, WorkTypes
  <2> QED
    BY <2>2, <2>3 DEF WorkInv
\* The steps in which the worker goes on with the range it has.
<1>7. ASSUME NEW t \in Record, worker' = [worker EXCEPT ![w] = t],
             t.step \notin {"idle", "exit"}, t.at = s.at, t.end = s.end,
             UNCHANGED <<todo, jobs, taken, answered, overrun, stopped, cancelled>>
      PROVE  WorkInv'
  <2>1. \A h \in taken' : \/ h \in taken /\ ~(Working(w) /\ h \in worker[w].at..worker[w].end)
                          \/ h \in t.at..t.end
    BY <1>1, <1>7
  <2> QED
    BY <2>1, <1>3, <1>7, WorkMoves DEF Ending
<1>8. CASE PassGate(w) /\ ~Ending
  <2> DEFINE t == [s EXCEPT !.step = "logs"]
  <2>1. t \in Record /\ t.step = "logs" /\ t.at = s.at /\ t.end = s.end
    OBVIOUS
  <2>2. /\ worker' = [worker EXCEPT ![w] = t]
        /\ UNCHANGED <<todo, jobs, taken, answered, overrun, stopped, cancelled>>
    BY <1>1, <1>8 DEF PassGate, Becomes
  <2> HIDE DEF t
  <2> QED
    BY <2>1, <2>2, <1>7
<1>9. CASE LogsFetched(w)
  <2> DEFINE t == [s EXCEPT !.step = "block", !.tries = 0]
  <2>1. t \in Record /\ t.step = "block" /\ t.at = s.at /\ t.end = s.end
    <3>1. t.step = "block" /\ t.at = s.at /\ t.end = s.end /\ t.tries = 0
      OBVIOUS
    <3>2. t \in Record
      <4>1. 0 \in Int
        OBVIOUS
      <4> QED
        BY <4>1, TwoFields, Zenon
    <3> QED
      BY <3>1, <3>2
  <2>2. /\ worker' = [worker EXCEPT ![w] = t]
        /\ UNCHANGED <<todo, jobs, taken, answered, overrun, stopped, cancelled>>
    BY <1>1, <1>9 DEF LogsFetched, Becomes
  <2> HIDE DEF t
  <2> QED
    BY <2>1, <2>2, <1>7
<1>10. ASSUME NEW b \in BOOLEAN, LogsFailed(w, b) PROVE WorkInv'
  <2> DEFINE again == [s EXCEPT !.tries = @ + 1]
             error == [s EXCEPT !.step = "error"]
  <2>1. /\ again \in Record /\ again.step = s.step /\ again.at = s.at /\ again.end = s.end
        /\ error \in Record /\ error.step = "error" /\ error.at = s.at /\ error.end = s.end
    OBVIOUS
  <2>2. /\ \/ worker' = [worker EXCEPT ![w] = again]
           \/ worker' = [worker EXCEPT ![w] = error]
        /\ s.step = "logs"
        /\ UNCHANGED <<todo, jobs, taken, answered, overrun, stopped, cancelled>>
    BY <1>1, <1>10 DEF LogsFailed, Becomes
  <2> HIDE DEF again, error
  <2> QED
    BY <2>1, <2>2, <1>7
<1>11. ASSUME NEW b \in BOOLEAN, BlockDone(w, b) PROVE WorkInv'
  <2> DEFINE t == [s EXCEPT !.step = IF b THEN "send" ELSE "sendErr", !.tries = 0]
  <2>1. t \in Record /\ t.step \in {"send", "sendErr"} /\ t.at = s.at /\ t.end = s.end
    <3>1. t.step \in {"send", "sendErr"} /\ t.at = s.at /\ t.end = s.end /\ t.tries = 0
      OBVIOUS
    <3>2. t \in Record
      <4>1. 0 \in Int
        OBVIOUS
      <4> QED
        BY <4>1, TwoFields, Zenon
    <3> HIDE DEF t
    <3> QED
      BY <3>1, <3>2
  <2>2. /\ worker' = [worker EXCEPT ![w] = t]
        /\ UNCHANGED <<todo, jobs, taken, answered, overrun, stopped, cancelled>>
    BY <1>1, <1>11 DEF BlockDone, Becomes
  <2> HIDE DEF t
  <2> QED
    BY <2>1, <2>2, <1>7
<1>12. CASE BlockNotFound(w)
  <2> DEFINE t == [s EXCEPT !.tries = @ + 1]
  <2>1. t \in Record /\ t.step = s.step /\ t.at = s.at /\ t.end = s.end
    OBVIOUS
  <2>2. /\ worker' = [worker EXCEPT ![w] = t] /\ s.step = "block"
        /\ UNCHANGED <<todo, jobs, taken, answered, overrun, stopped, cancelled>>
    BY <1>1, <1>12 DEF BlockNotFound, Becomes
  <2> HIDE DEF t
  <2> QED
    BY <2>1, <2>2, <1>7
\* The steps that end the range, with a result for the rest of it or for good.
<1>13. CASE (SendError(w) \/ SendGivesUp(w)) /\ ~Ending
  <2>1. /\ worker' = [worker EXCEPT ![w] = Idle]
        /\ UNCHANGED <<todo, jobs, taken, stopped, cancelled>>
        /\ answered \subseteq answered' /\ overrun \subseteq overrun'
        /\ s.at..s.end \subseteq answered' \cup overrun'
    BY <1>1, <1>13 DEF SendError, SendGivesUp, Becomes, Ending
  <2>2. \A h \in taken' : \/ h \in taken /\ ~(Working(w) /\ h \in worker[w].at..worker[w].end)
                          \/ h \in answered' \cup overrun'
    BY <1>1, <2>1
  <2> QED
    BY <2>1, <2>2, <1>2, <1>3, WorkMoves DEF Ending
<1>14. CASE SendResult(w)
  <2> DEFINE next == [s EXCEPT !.step = "block", !.at = @ + 1]
  <2>1. next \in Record /\ next.step = "block" /\ next.at = s.at + 1 /\ next.end = s.end
    <3>1. next.step = "block" /\ next.at = s.at + 1 /\ next.end = s.end /\ s.at + 1 \in Int
      OBVIOUS
    <3>2. next \in Record
      BY <3>1, TwoFields
    <3> QED
      BY <3>1, <3>2
  <2>2. /\ worker' = [worker EXCEPT ![w] = IF s.at = s.end THEN Idle ELSE next]
        /\ answered' = answered \cup {s.at}
        /\ UNCHANGED <<todo, jobs, taken, overrun, stopped, cancelled>>
    BY <1>1, <1>14 DEF SendResult, Becomes
  <2>3. s.at \in Int /\ s.end \in Int
    OBVIOUS
  <2> HIDE DEF next
  <2>4. CASE s.at = s.end
    <3>1. worker' = [worker EXCEPT ![w] = Idle] /\ s.at..s.end \subseteq answered'
      BY <2>2, <2>3, <2>4
    <3>2. \A h \in taken' : \/ h \in taken /\ ~(Working(w) /\ h \in worker[w].at..worker[w].end)
                            \/ h \in answered' \cup overrun'
      BY <1>1, <2>2, <3>1
    <3> QED
      BY <2>2, <3>1, <3>2, <1>2, <1>3, WorkMoves DEF Ending
  <2>5. CASE s.at # s.end
    <3>1. /\ worker' = [worker EXCEPT ![w] = next]
          /\ \A h \in s.at..s.end : h \in answered' \/ h \in next.at..next.end
      BY <2>1, <2>2, <2>3, <2>5
    <3>2. \A h \in taken' : \/ h \in taken /\ ~(Working(w) /\ h \in worker[w].at..worker[w].end)
                            \/ h \in answered' \cup overrun'
                            \/ next.step \notin {"idle", "exit"} /\ h \in next.at..next.end
      BY <1>1, <2>1, <2>2, <3>1
    <3> QED
      BY <2>1, <2>2, <3>1, <3>2, <1>3, WorkMoves DEF Ending
  <2> QED
    BY <2>4, <2>5
<1> QED
  BY <1>4, <1>5, <1>6, <1>8, <1>9, <1>10, <1>11, <1>12, <1>13, <1>14 DEF WorkerStep

LEMMA WorkNextInv == WorkInv /\ [Next]_vars => WorkInv'
<1> SUFFICES ASSUME WorkInv, [Next]_vars PROVE WorkInv'
  OBVIOUS
<1>1. todo \in Seq(Int \X Int) /\ jobs \in Seq(Int \X Int)
  BY DEF WorkInv, WorkTypes
<1>2. CASE UNCHANGED <<todo, jobs, stopped, cancelled, worker, taken, answered, overrun>>
  BY <1>1, <1>2, WorkKept DEF Ending
<1>3. CASE Schedule
  <2>1. todo' \in Seq(Int \X Int) /\ jobs' \in Seq(Int \X Int)
    BY <1>1, <1>3 DEF Schedule
  <2> QED
    BY <2>1, <1>3, WorkKept DEF Schedule, Ending
<1>4. CASE ClearJobs \/ Stop \/ DrainJobs \/ Cancel
  <2>1. <<>> \in Seq(Int \X Int) /\ (jobs # <<>> => Tail(jobs) \in Seq(Int \X Int))
    BY <1>1
  <2>2. todo' = todo /\ (jobs' \in {jobs, <<>>} \/ (jobs # <<>> /\ jobs' = Tail(jobs)))
    BY <1>4 DEF ClearJobs, Stop, DrainJobs, Cancel
  <2>3. todo' \in Seq(Int \X Int) /\ jobs' \in Seq(Int \X Int)
    BY <1>1, <2>1, <2>2
  <2> QED
    BY <2>3, <1>4, WorkKept DEF ClearJobs, Stop, DrainJobs, Cancel, Ending
<1>5. CASE Trigger \/ WakeUp \/ NotifyBlockProcessed \/ HeartbeatExpires \/ MonitorPause
  BY <1>5, <1>2 DEF Trigger, WakeUp, NotifyBlockProcessed, HeartbeatExpires, MonitorPause,
                    fetchVars, fetchRest
<1>6. ASSUME NEW b \in BOOLEAN, MonitorTick(b) PROVE WorkInv'
  BY <1>6, <1>2 DEF MonitorTick, fetchVars
<1>7. ASSUME NEW then, SequencerTakes(then) PROVE WorkInv'
  BY <1>7, <1>2 DEF SequencerTakes
<1>8. CASE UNCHANGED fetchVars
  BY <1>8, <1>2 DEF fetchVars
<1> QED
  BY <1>3, <1>4, <1>5, <1>6, <1>7, <1>8, WorkerKeeps DEF Next, vars

\* Every height a worker took is answered, still worked on, or was given up at the end or
\* behind a block that outgrew the burst of the throughput limiter (fetchRangeWithLogs,
\* sendResult), for any number of workers, retries and pauses.
THEOREM TakenAnswered == Spec => []TakenIsAnswered
<1>1. WorkInv => TakenIsAnswered
  BY InWorkAccounts DEF WorkInv, TakenIsAnswered
<1> QED
  BY <1>1, WorkInitInv, WorkNextInv, PTL DEF Spec
=============================================================================
