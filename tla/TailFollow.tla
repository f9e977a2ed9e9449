----------------------------- MODULE TailFollow -----------------------------
(***************************************************************************)
(* Following the chain head: which heights get scheduled for fetching.     *)
(*                                                                         *)
(* continuousTailFollow (cmd/indexer/main_services.go) reads the chain     *)
(* head from an RPC node on every tick, sends it to the orchestrator and   *)
(* schedules the next range up to the target height it finds in the        *)
(* orchestrator's snapshot.  The orchestrator (orchestrator_loop.go)       *)
(* merges height updates in two stages and publishes its state after each  *)
(* command only, so a snapshot may hold a new target with an old head.     *)
(* Fetcher.Schedule (fetcher_schedule.go) reads the snapshot again and     *)
(* cuts the range at the head it finds there.  The deadlock watchdog       *)
(* forces the cursors, empties the job queue and schedules a range of its  *)
(* own from another goroutine.                                             *)
(*                                                                         *)
(* Fetching itself is reduced to its effects here: a worker takes jobs and *)
(* reports success or "not found" to the orchestrator.                     *)
(***************************************************************************)
EXTENDS Integers, Sequences, FiniteSets

CONSTANTS
    MaxTip,         \* bound: the last height of the chain
    Window,         \* schedulingWindow (10; 100 on chain 31337)
    RangeSize,      \* batchSize of Schedule: a job spans RangeSize + 1 heights (50)
    JobsCap,        \* capacity of Fetcher.jobs (10 per worker)
    CmdCap,         \* capacity of Orchestrator.cmdChan (50000)
    MaxSafety,      \* upper limit of SafetyBuffer (20)
    ShrinkAfter,    \* successes after which SafetyBuffer shrinks (50)
    RpcMayLag,      \* a node of the RPC pool may report an old head
    MaxForces,      \* bound: watchdog interventions
    MaxOutcomes     \* bound: fetch results in cmdChan at a time

ASSUME TailFollowAssumption ==
    /\ MaxTip \in Nat
    /\ Window \in Nat
    /\ RangeSize \in Nat
    /\ JobsCap \in Nat \ {0}
    /\ CmdCap \in Nat \ {0}
    /\ MaxSafety \in Nat \ {0}
    /\ ShrinkAfter \in Nat \ {0}
    /\ RpcMayLag \in BOOLEAN
    /\ MaxForces \in Nat
    /\ MaxOutcomes \in Nat

Heights == 1..MaxTip
Heads == 0..MaxTip
NoHeight == -1
Callers == {"tail", "watchdog"}

Message == [type : {"height"}, h : Heights] \cup [type : {"success", "notFound"}]

VARIABLES
    tip,            \* the head of the chain
    cmdChan,        \* Orchestrator.cmdChan
    state,          \* Orchestrator.state, touched by its own goroutine
    pending,        \* pendingHeightUpdate, or NoHeight
    snapshot,       \* Orchestrator.snapshot: the heights everyone else reads
    tail,           \* continuousTailFollow: its step, the head it read, lastScheduled
    call,           \* a call of Schedule per caller: step, range, and the range asked for
    jobs,           \* Fetcher.jobs
    forces,         \* watchdog interventions so far
    scheduled,      \* history: heights put into the job queue and not purged from it
    cut,            \* history: heights Schedule cut off a range it accepted
    purged          \* history: heights ForceSetCursors threw out of the job queue

orchVars == <<cmdChan, state, pending, snapshot>>
vars == <<tip, orchVars, tail, call, jobs, forces, scheduled, cut, purged>>

Lower(a, b) == IF a < b THEN a ELSE b

\* Dispatch never blocks: a full command channel drops the message.
Dispatched(m) == IF Len(cmdChan) < CmdCap THEN Append(cmdChan, m) ELSE cmdChan

Outcomes == Cardinality({i \in DOMAIN cmdChan : cmdChan[i].type # "height"})

\* The heights a job queue holds.
QueuedHeights(q) == UNION {q[i].start..q[i].end : i \in DOMAIN q}

NoCall == [step |-> "none", from |-> 0, to |-> 0, asked |-> 0]

Init ==
    /\ tip = 1
    /\ cmdChan = <<>>
    /\ state = [latest |-> 0, target |-> 0, safety |-> 1, success |-> 0]
    /\ pending = NoHeight
    /\ snapshot = [latest |-> 0, target |-> 0]
    /\ tail = [step |-> "tick", tip |-> 0, last |-> 0]
    /\ call = [c \in Callers |-> NoCall]
    /\ jobs = <<>>
    /\ forces = 0
    /\ scheduled = {}
    /\ cut = {}
    /\ purged = {}

ChainGrows ==
    /\ tip < MaxTip
    /\ tip' = tip + 1
    /\ UNCHANGED <<orchVars, tail, call, jobs, forces, scheduled, cut, purged>>

(***************************************************************************)
(* Orchestrator: one command at a time, each ending with                   *)
(* updateProgressAndSnapshot, and the merge ticker, which does not publish.*)
(***************************************************************************)
Received(type) ==
    /\ cmdChan # <<>>
    /\ Head(cmdChan).type = type
    /\ cmdChan' = Tail(cmdChan)

Publish(s) == snapshot' = [latest |-> s.latest, target |-> s.target]

\* Mutant of TargetOf: off by one.
TargetOfTooClose(h, safety) == IF h >= safety THEN h - safety + 1 ELSE 0

TargetOf(h, safety) == IF h > safety THEN h - safety ELSE 0

\* Mutant of HandleUpdateChainHeight: only a jump of two heights counts as new.
HandleUpdateChainHeightLate ==
    /\ Received("height")
    /\ LET h == Head(cmdChan).h IN
       \/ /\ h > state.latest + 1
          /\ pending' = h
          /\ state' = [state EXCEPT !.target = TargetOf(h, state.safety)]
       \/ /\ h <= state.latest + 1
          /\ UNCHANGED <<pending, state>>
    /\ Publish(state')
    /\ UNCHANGED <<tip, tail, call, jobs, forces, scheduled, cut, purged>>

HandleUpdateChainHeight ==
    /\ Received("height")
    /\ LET h == Head(cmdChan).h IN
       \/ /\ h > state.latest
          /\ pending' = h
          /\ state' = [state EXCEPT !.target = TargetOf(h, state.safety)]
       \/ /\ h <= state.latest
          /\ UNCHANGED <<pending, state>>
    /\ Publish(state')
    /\ UNCHANGED <<tip, tail, call, jobs, forces, scheduled, cut, purged>>

\* A block was not there yet: keep a larger distance from the head.
HandleFetchFailed ==
    /\ Received("notFound")
    /\ state' = [state EXCEPT !.success = 0,
                              !.safety = IF @ < MaxSafety THEN @ + 1 ELSE @]
    /\ Publish(state')
    /\ UNCHANGED <<tip, pending, tail, call, jobs, forces, scheduled, cut, purged>>

\* Enough successes in a row: come closer again.  The counter runs on while the
\* buffer is at its minimum; only its comparison with the limit matters.
HandleFetchSuccess ==
    /\ Received("success")
    /\ \/ /\ state.success + 1 >= ShrinkAfter
          /\ state.safety > 1
          /\ state' = [state EXCEPT !.success = 0, !.safety = @ - 1]
       \/ /\ ~(state.success + 1 >= ShrinkAfter /\ state.safety > 1)
          /\ state' = [state EXCEPT !.success = Lower(@ + 1, ShrinkAfter)]
    /\ Publish(state')
    /\ UNCHANGED <<tip, pending, tail, call, jobs, forces, scheduled, cut, purged>>

\* The 100 ms merge ticker.
FlushPendingHeightUpdate ==
    /\ pending # NoHeight
    /\ state' = [state EXCEPT !.latest = IF pending > @ THEN pending ELSE @]
    /\ pending' = NoHeight
    /\ UNCHANGED <<tip, cmdChan, snapshot, tail, call, jobs, forces, scheduled, cut, purged>>

(***************************************************************************)
(* Fetcher.Schedule, called by the tail follower or the watchdog           *)
(***************************************************************************)
\* Mutant of Returns: lastScheduled advances on an error too.
ReturnsIgnoringError(c, ok) ==
    /\ call' = [call EXCEPT ![c] = NoCall]
    /\ tail' = IF c = "watchdog" THEN tail
               ELSE [tail EXCEPT !.step = "tick", !.last = call[c].asked]

\* Schedule returns to the tail follower, which advances on success only; the
\* watchdog ignores the result.
Returns(c, ok) ==
    /\ call' = [call EXCEPT ![c] = NoCall]
    /\ tail' = IF c = "watchdog" THEN tail
               ELSE [tail EXCEPT !.step = "tick",
                                 !.last = IF ok THEN call[c].asked ELSE @]

\* Refused: the range starts beyond the published head, or the job queue is above
\* 90 percent, or (at any time, seen from here) the result channel or the
\* sequencer's buffer is too full.
ScheduleRefused(c) ==
    /\ call[c].step = "check"
    /\ Returns(c, FALSE)
    /\ UNCHANGED <<tip, orchVars, jobs, forces, scheduled, cut, purged>>

\* Accepted: the range is cut at the published head without telling the caller.
ScheduleAccepted(c) ==
    /\ call[c].step = "check"
    /\ call[c].from <= snapshot.latest
    /\ Len(jobs) <= (JobsCap * 90) \div 100
    /\ call' = [call EXCEPT ![c].step = "send",
                            ![c].to = Lower(call[c].asked, snapshot.latest)]
    /\ UNCHANGED <<tip, orchVars, tail, jobs, forces, scheduled, cut, purged>>

\* The send loop: blocks while the queue is full.
ScheduleSend(c) ==
    /\ call[c].step = "send"
    /\ call[c].from <= call[c].to
    /\ Len(jobs) < JobsCap
    /\ LET end == Lower(call[c].from + RangeSize, call[c].to) IN
       /\ jobs' = Append(jobs, [start |-> call[c].from, end |-> end])
       /\ scheduled' = scheduled \cup (call[c].from..end)
       /\ call' = [call EXCEPT ![c].from = end + 1]
    /\ UNCHANGED <<tip, orchVars, tail, forces, cut, purged>>

ScheduleDone(c) ==
    /\ call[c].step = "send"
    /\ call[c].from > call[c].to
    /\ Returns(c, TRUE)
    /\ cut' = IF c = "tail" THEN cut \cup ((call[c].to + 1)..call[c].asked) ELSE cut
    /\ UNCHANGED <<tip, orchVars, jobs, forces, scheduled, purged>>

(***************************************************************************)
(* continuousTailFollow                                                    *)
(***************************************************************************)
\* A tick: read the head and send it to the orchestrator.
ReadTip(h) ==
    /\ tail.step = "tick"
    /\ h = tip \/ RpcMayLag
    /\ h <= tip
    /\ cmdChan' = Dispatched([type |-> "height", h |-> h])
    /\ tail' = [tail EXCEPT !.step = "snap", !.tip = h]
    /\ UNCHANGED <<tip, state, pending, snapshot, call, jobs, forces, scheduled, cut, purged>>

\* Mutant of ReadTarget: a target one height ahead is not worth a call.
ReadTargetLazily ==
    /\ tail.step = "snap"
    /\ LET asked == Lower(snapshot.target + Window, tail.tip)
           wanted == snapshot.target > tail.last + 1 /\ tail.last + 1 <= asked IN
       \/ /\ wanted
          /\ tail' = [tail EXCEPT !.step = "wait", !.tip = 0]
          /\ call' = [call EXCEPT !["tail"] = [step |-> "check", from |-> tail.last + 1,
                                               to |-> asked, asked |-> asked]]
       \/ /\ ~wanted
          /\ tail' = [tail EXCEPT !.step = "tick", !.tip = 0]
          /\ UNCHANGED call
    /\ UNCHANGED <<tip, orchVars, jobs, forces, scheduled, cut, purged>>

\* Read the snapshot and schedule up to Window heights beyond the target, but not
\* beyond the head read above.
ReadTarget ==
    /\ tail.step = "snap"
    /\ LET asked == Lower(snapshot.target + Window, tail.tip)
           wanted == snapshot.target > tail.last /\ tail.last + 1 <= asked IN
       \/ /\ wanted
          /\ tail' = [tail EXCEPT !.step = "wait", !.tip = 0]
          /\ call' = [call EXCEPT !["tail"] = [step |-> "check", from |-> tail.last + 1,
                                               to |-> asked, asked |-> asked]]
       \/ /\ ~wanted
          /\ tail' = [tail EXCEPT !.step = "tick", !.tip = 0]
          /\ UNCHANGED call
    /\ UNCHANGED <<tip, orchVars, jobs, forces, scheduled, cut, purged>>

(***************************************************************************)
(* The watchdog's healing, the fetch workers                               *)
(***************************************************************************)
\* ForceSetCursors(h - 1), which publishes the state and purges the job queue, the tail
\* follower's jobs included and without telling it (ClearJobs), and a goroutine that
\* schedules the range from behind the stored height d up to h.
ForceSetCursors(h, d) ==
    /\ forces < MaxForces
    /\ call["watchdog"] = NoCall
    /\ h <= tip
    /\ d < h - 1
    /\ forces' = forces + 1
    /\ state' = [state EXCEPT !.latest = h - 1, !.target = h - 1]
    /\ Publish(state')
    /\ jobs' = <<>>
    /\ scheduled' = scheduled \ QueuedHeights(jobs)
    /\ purged' = purged \cup QueuedHeights(jobs)
    /\ call' = [call EXCEPT !["watchdog"] =
                   [step |-> "check", from |-> d + 1, to |-> h, asked |-> h]]
    /\ UNCHANGED <<tip, cmdChan, pending, tail, cut>>

\* A worker takes a job.
TakeJob ==
    /\ jobs # <<>>
    /\ jobs' = Tail(jobs)
    /\ UNCHANGED <<tip, orchVars, tail, call, forces, scheduled, cut, purged>>

\* An RPC call of some worker ends: CmdFetchSuccess or CmdFetchFailed.
FetchOutcome(type) ==
    /\ scheduled \cup purged # {}
    /\ Len(cmdChan) < CmdCap
    /\ Outcomes < MaxOutcomes
    /\ cmdChan' = Append(cmdChan, [type |-> type])
    /\ UNCHANGED <<tip, state, pending, snapshot, tail, call, jobs, forces, scheduled, cut, purged>>

OrchestratorStep ==
    \/ HandleUpdateChainHeight \/ HandleFetchFailed \/ HandleFetchSuccess

Next ==
    \/ ChainGrows
    \/ OrchestratorStep \/ FlushPendingHeightUpdate
    \/ \E h \in Heights : ReadTip(h)
    \/ ReadTarget
    \/ \E c \in Callers : ScheduleRefused(c) \/ ScheduleAccepted(c)
                            \/ ScheduleSend(c) \/ ScheduleDone(c)
    \/ \E h \in Heights, d \in Heads : ForceSetCursors(h, d)
    \/ TakeJob
    \/ \E type \in {"success", "notFound"} : FetchOutcome(type)

Spec == Init /\ [][Next]_vars

(***************************************************************************)
(* Fairness.  Goroutines and tickers are scheduled and workers keep taking *)
(* jobs.  The pool reports the real head again and again, finds room in    *)
(* the command channel then, and back-pressure is not permanent.           *)
(***************************************************************************)
Fairness ==
    /\ WF_vars(OrchestratorStep)
    /\ WF_vars(FlushPendingHeightUpdate)
    /\ WF_vars(ReadTarget)
    /\ SF_vars(ReadTip(tip) /\ Len(cmdChan) < CmdCap)
    /\ WF_vars(\E h \in Heights : ReadTip(h))
    /\ WF_vars(TakeJob)
    /\ \A c \in Callers : /\ SF_vars(ScheduleAccepted(c))
                          /\ WF_vars(ScheduleRefused(c))
                          /\ WF_vars(ScheduleSend(c))
                          /\ WF_vars(ScheduleDone(c))

FairSpec == Spec /\ Fairness

(***************************************************************************)
(* Properties                                                              *)
(***************************************************************************)
\* The types of the orchestrator's heights and of the callers' locals; the safety
\* buffer stays between 1 and its limit.
TypeOK ==
    /\ tip \in Heights
    /\ cmdChan \in Seq(Message) /\ Len(cmdChan) <= CmdCap
    /\ state \in [latest : Heads, target : Heads, safety : 1..MaxSafety,
                  success : 0..ShrinkAfter]
    /\ pending \in Heads \cup {NoHeight}
    /\ snapshot \in [latest : Heads, target : Heads]
    /\ tail \in [step : {"tick", "snap", "wait"}, tip : Heads, last : Heads]
    /\ call \in [Callers -> [step : {"none", "check", "send"}, from : 0..(MaxTip + 1),
                             to : Heads, asked : Heads]]
    /\ jobs \in Seq([start : Heights, end : Heights]) /\ Len(jobs) <= JobsCap
    /\ forces \in 0..MaxForces
    /\ scheduled \in SUBSET Heights
    /\ cut \in SUBSET Heights
    /\ purged \in SUBSET Heights

\* A height behind lastScheduled is in the job queue or was taken by a worker, or it is
\* one of those lost in two known ways: cut off silently by Schedule, or thrown out of the
\* queue by a forced cursor.  Refused calls, stale snapshots and the moment at which the
\* watchdog strikes leave no other hole.
HoleFromCutOrPurge == \A h \in 1..tail.last : h \in scheduled \cup cut \cup purged

\* No height is queued before the published head, and so the chain, has reached it,
\* although target and head of a snapshot may come from different updates.
NoGhostChase ==
    /\ \A h \in scheduled : h <= tip
    /\ snapshot.latest <= tip
    /\ snapshot.target > 0 => snapshot.target < tip

\* Whatever is dropped, merged, overwritten by a lagging node or forced back, the
\* published head reaches the end of the chain.
HeadCatchesUp == (tip = MaxTip) ~> (snapshot.latest = MaxTip)

\* Once the chain is there, every height except the last MaxSafety ones is scheduled
\* in the end, or fell to the silent cut: no refused range is forgotten.
EventuallyScheduled ==
    (tip = MaxTip) ~> (\A h \in 1..(MaxTip - MaxSafety) : h \in scheduled \cup cut)

\* What the comment on lastScheduled promises: no height up to it is left out.
NoScheduleHole == \A h \in 1..tail.last : h \in scheduled

=============================================================================
