# A TLA+ model of web3-indexer-go

web3-indexer-go follows an EVM chain, fetches blocks and logs from a pool of RPC nodes
and stores blocks and transfers in PostgreSQL. This directory holds TLA+ modules of its
pipeline and of the services around it, the TLC configurations that check them on small
instances, and proofs checked by TLAPS.

## 1. The system

```
 RPC pool --head--> continuousTailFollow --UpdateChainHead--> Orchestrator (command loop)
                          |  ^ snapshot (target, latest) ------------|  ^       |
                          v                                          |  |       | taskChan
   watchdog --Schedule--> Fetcher.jobs --> workers --reports---------+--+       v
      |                                       |                      |     AsyncWriter
      | reset, clear                          v Results              |  CommitDisk | tx
      +-----------------------------------> Sequencer --> Processor -+          PostgreSQL
                                              ^  CommitBatch                (blocks, checkpoint)
                           supervisor restarts Run
```

| Component | State | Operations | What is hard | What makes it correct |
|---|---|---|---|---|
| **Sequencer** `sequencer_*.go` | `expectedBlock`, reorder map `buffer`, `gapFillCount`, `lastProgressAt`, `mu` | collect, classify, process, commit a batch; handle one block; drain; reorg; buffer limit; stall handler | three-phase batch with the lock released for I/O; stall handler acting on copies; panics between Lock and Unlock | cursor order, bounded map, no height passed unaccounted, never stuck |
| **Deadlock watchdog** `watchdog_deadlock.go` | none of its own | detect a stall, force checkpoint, cursor, buffer and orchestrator heights, reschedule | two critical sections in another goroutine, refetch in a third | does not lose heights silently |
| **Supervisor** `main_services.go` | none | restart `Run` after an error or panic | what the panic left behind | `Run` works again |
| **Processor** `processor_*.go` | parent-hash cache | `ProcessBlock`, `ProcessBatch` | different treatment of blocks without a body | every block with a body is dispatched once |
| **Orchestrator** `orchestrator_*.go` | `state`, `snapshot`, `pendingHeightUpdate`, `cmdChan` | one handler per command, merge and decision tickers, `ForceSetCursors` | lossy channel, two-stage merge, snapshot only after commands, unlocked `state` | published head never beyond the chain and catches up; cursor behind disk |
| **AsyncWriter** `async_writer_*.go` | `taskChan`, batch, cooldown | collect, flush, emergency drain, shutdown | lossy channel, failing transactions, crash at any step | checkpoint covers only decided heights; nothing lost silently |
| **Fetcher** `fetcher_*.go` | `jobs`, `Results`, `paused`, `stopCh` | `Schedule`, workers, `Pause`, `Resume`, `Stop` | back-pressure, partial failure of a range | every accepted height is queued; no height beyond the head |
| **Tail follower** `main_services.go` | `lastScheduled` | poll, schedule | head and snapshot read at different times | no hole behind `lastScheduled` |
| **Lazy manager, state manager** `lazy_manager.go`, `state_manager_*.go` | active flag, heartbeat, `currentState`, `stateCh` | trigger, sleep, wake, transitions, watchdog | a decision under a lock and its effect after it, a lossy channel, a pause flag shared with the sequencer | the flag and the indexer follow the state; an access wakes it |
| **RPC pool** `rpc_pool_*.go` | node health, back-off, cool-down, request counter | choose node, call, mark, health check | callers finish in any order | a rate-limited node rests; a failure means every node was tried |
| **Quota guard, sliding window** `rpc_quota_guard.go`, `sliding_window.go` | use and mode; ring of grant times | allow, record, reset; allow, wait | check and count apart; edge of the window, stale sleeps | the limit, up to requests under way |
| **Consistency guard, start-up alignment** `consistency.go`, `integrity.go`, `main_services.go` | tables and checkpoint | compare, prune, jump | a lagging node, the writer and the watchdog in between, a crash between two statements | holes below the checkpoint are decided ones |
| **Reorg rollback** `processor_reorg.go`, `processor_b*.go` | stored hashes, parent cache | process by either path, search the ancestor, roll back | the chain moves during the search; paths without a parent check | what is left agrees with the chain |
| **Extraction** `processor_block_part1.go`, `processor_batch.go`, `processor_transfer.go` | rows of a block | two extraction paths, insert | the same block by two paths | complete, and unchanged by a repetition |
| **Watermarks, self-healer** `orchestrator_loop.go`, `self_healing.go` | three heights, snapshot | handlers, merge, audit, forcing | reads and stores without the lock | disk behind memory behind chain |
| **Back-pressure** `dynamic_backpressure.go` | merge records, back-off level | `ScheduleDynamic` | a record made before the refusal | a merged call has a twin |
| **Metadata enricher** `metadata_enricher.go` | cache, marks, queue | ask, evict, resolve a batch | eviction and failure against the mark | one request per token under way |
| **WebSocket hub** `web/hub*.go` | clients, send channels | register, broadcast, flush | a flush outside the owning goroutine | no double close; no client without a pump |
| **WSS listener** `wss_listener.go` | connection flag, reconnect count | subscribe, forward, back off | several exits, not all of which touch the flag | the flag tells the truth |
| **Replay** `source_lz4_replay.go`, `replay.go` | position in the file | pull a range, push all | a scanner that cannot go back | no block is lost but the one a call stops at |
| **Traffic** `emulator/`, `pro_simulator.go` | nonce counters | take a number, send, resync | lost answers, a second sender | gaps only where a number was given up |

The rest (HTTP API, metrics, configuration and so on) is listed with its reason in
section 6 and in `PROJECT.json`.

## 2. Modules

| Module | Models | Composes / implements |
|---|---|---|
| `Sequencer` | sequencer, its supervisor, the watchdog's steps against it, the fetcher as a lossy reordering source | implements `HandOver` (without watchdog and overflow) |
| `HandOver` | abstract: heights decided in order and once | |
| `SequencerProofs` | theorems about `Sequencer` | extends `Sequencer` |
| `PersistPipeline` | processor dispatch, orchestrator commit path, AsyncWriter, database, crash and restart | orchestrator + writer; implements `ResumeLog` |
| `ResumeLog` | abstract: a log with a resume cursor | |
| `TailFollow` | tail follower, orchestrator height path, `Fetcher.Schedule`, `ForceSetCursors` | tail follower + orchestrator + scheduler |
| `FetchWorkers` | the worker goroutines: job queue, pause gate, retries, throughput limiter, result channel, stop | |
| `StateManager` | state channel, transitions, watchdog, `RecordAccess` | |
| `Lifecycle` | lazy manager, and every user of the fetcher's pause flag | `FetchWorkers` + `StateManager` + lazy manager |
| `RpcPool` | enhanced RPC pool, concurrent requests | |
| `DataGuard` | consistency guard, start-up alignment, watchdog against the checkpoint, crash | guard + watchdog + writer + start-up |
| `Rollback` | reorganisations, both processing paths, ancestor search and rollback | |
| `RateWindow`, `QuotaGuard` | sliding window limiter; daily quota | |
| `Replay` | pull and push replay of a recorded trajectory | |
| `WsHub` | hub, pumps, throttled flush | |
| `Enricher` | token metadata queue and batch worker | |
| `Extraction` | the activities of a block by both paths, and the table that keeps them | |
| `Traffic` | emulator with nonce manager, simulator, node | |
| `Watermarks` | the orchestrator's heights, self-healer, `ForceSetCursors`, with their races | |
| `BackPressure` | `ScheduleDynamic`: merge, back-off | |
| `WssListener` | new-heads subscription | |
| `Services` | runs one of the thirteen modules above, chosen at the start | extends them |
| `PersistPipelineProofs`, `TailFollowProofs`, `DataGuardProofs`, `RpcPoolProofs`, `LifecycleProofs` | theorems about the modules they are named after | extend them |
| `ServiceProofs` | theorems about `QuotaGuard`, `WsHub`, `WssListener`, `BackPressure`, `Enricher`, `RateWindow` | extends them |
| `ChainDataProofs` | theorems about `Rollback`, `Watermarks`, `Traffic`, `Extraction`, `Replay` | extends them |
| `MC*` | extend a module for TLC; the `.cfg` files give the constants | |

### Sequencer

`pc` is the position of the `Run` goroutine. Each critical section of `s.mu` is one action;
between actions the mutex is free unless `muLeaked` says a panic left it locked, and every
action that takes it has `MuFree` as a guard. `handleBatch` is `ClassifyBatch` (phase 1),
`ProcessBatch` (phase 2, unlocked), `CommitBatch` (phase 3A) and one `HandleBlock` per
remaining item. `handleStall` is `StallRead` followed by `StallGapFill`, `StallGapBypass`
or `StallSkip`, which act on the copies `StallRead` made. The drain loop
(`processBufferContinuationsLocked`) is the operator `Continuations`: the set of outcomes
(new cursor, buffer, pause flag, panic) of draining from a height, one per place where the
loop may stop. This keeps the module free of recursion. The watchdog is `WatchdogWakes`,
`WatchdogCheck`, `ResetExpectedBlock` and `ClearBuffer`, after which it may ask the fetcher
for the gap again (`RescheduleGap`).

A block is its height and a kind: `full`, `bare` (no body: the fetcher downloads one only
for blocks with logs and for the last block of a job) or `err`. Time is `idle`, the age of
`lastProgressAt` in the three classes the code tells apart. `inflight` counts the copies
of a height the fetcher will still deliver; `FetchLost` takes one away (a range failing at
an earlier height, or the throughput limiter). `handed`, `hollow`, `skipped` and `astray`
are history: heights given to the processor, passed over by `ProcessBatch` for want of a
body, stepped over by a skip that logs them, and stepped over by a stall skip that logs
another height: `StallSkip` moves the live cursor but reports the copy `StallRead` made, so
the two differ when the watchdog has reset the cursor in between.

Simplifications: the watchdog's database gap test is subsumed by its choice to give up;
`ProcessBlock` can fail only by a reorg report or by the nil dereference, as its code
does; items without a number and the range signal have no producer; a batch is collected
in ascending order because it is sorted before use; the reorg channel is nil, as wired in
`main_services.go`.

`HandOver` says what the processor may rely on: the heights are decided in order and each
once, given over or passed over. `ImplementsHandOver` maps its cursor to `expectedBlock`,
and to `seqBatch.next` between phase 2, which hands the run over, and phase 3A, which moves
`expectedBlock`. It holds without watchdog and overflow, the two mechanisms that move the
cursor back and hand heights over again.

### PersistPipeline

`cmdChan` and `taskChan` are bounded and both senders drop when full (`Dispatch`,
`Enqueue`); after cancellation `Dispatch` may take either ready case of its select. A
height goes to `Dispatch` (`HandOver`) or is passed over without a task or a log entry
(`PassOver`, history `unsent`): `ProcessBatch` does so for every block without a body, the
ordinary case for heights without logs, and the sequencer's skips look the same from here.
The writer's `at`/`ret` is its position in `run`, `flush` and `emergencyDrain`.
`FlushCommit` is the transaction; `FlushFails` is a failing begin, statement or commit (a
failing statement aborts a PostgreSQL transaction, so the commit fails), and the only
possibility once the context is cancelled. `Restart` is a crash or exit at any point
followed by `getStartBlockFromCheckpoint` with the default options. `lost` collects heights
dropped with a logged error. Other commands compete for the channel (`DispatchOther`).

Simplifications: heights are handed over in ascending order, so the checkpoint cannot be
moved back by a batch of lower heights as it can after a regressed sequencer cursor (a
hazard left to the composition of section 5); ephemeral mode (nothing is
stored) is left out; the watchdog's direct write of the checkpoint is in `DataGuard`; of the
system state only the writer's two commands are kept.

`ResumeLog` says what a restart relies on: the cursor only moves forward, the height it
names is stored, and which heights up to the cursor are stored is decided in the step that
moves it past them and never changes. `ImplementsResumeLog` maps the checkpoint to the
cursor and the stored heights up to it to the log.

### TailFollow

One action per orchestrator command handler, each ending in `Publish`
(`updateProgressAndSnapshot`), and `FlushPendingHeightUpdate` for the merge ticker, which
does not publish. `ReadTip` and `ReadTarget` are the two halves of a tick of
`continuousTailFollow`: the head and the snapshot are read at different times.
`Schedule` is split at the points where other goroutines can step in
(`ScheduleRefused`/`ScheduleAccepted`, `ScheduleSend`, `ScheduleDone`) and is called by the
tail follower and the watchdog. `scheduled` holds the heights that are queued or were taken
by a worker, `cut` those cut off an accepted range, `purged` those `ForceSetCursors` threw
out of the queue (`ClearJobs`).

Simplifications: handlers and `ForceSetCursors` are atomic although the code lets them race
on `state` (`Watermarks` has that race); `FetchedHeight` is left out, since scheduling does
not read it; a refusal for the depth of the result channel or the sequencer's buffer may
happen at any time.

### Lifecycle, FetchWorkers, StateManager

`worker[w]` is a goroutine's position in `worker`, `fetchRangeWithLogs` and `sendResult`,
with the rest of its range. `paused` is one flag with four writers: lazy manager, state
manager (through the indexer service), sequencer and the start-up. `delegated` tells
whether a state manager is set: both wirings are in the initial states. The lazy manager's
critical sections of `lm.mu` are atomic; `MonitorPause` and `WakeUp` are the calls it makes
after releasing the lock. `seqPaused`, `seqResumed`, `overtaken` and `missed` are history:
they name the races the code leaves, and the properties say that there are no others.
`LogCount` gives each height its logs, so that a block above the limiter's burst exists.
The indexer behind `IndexerService` is external: `Start` and `Stop` may fail (`stopFailed`
is history). Either error is only logged, and the transition goes on.

### The services

Each is a module with its own `Init`, `Next` and `Spec`; `Services` puts them beside each
other for one TLC run. They share no state, so a behaviour in which one moves and the
others stay is a behaviour of that service and all of its behaviours are covered; a product
would only multiply the states.

* `RpcPool`: a request is `pick`, `call` (lock released) and the mark of its outcome.
  `rescued` and `revived` record a success that arrived after a 429, and a node that
  became eligible again after a request had tried it. The round robin counter is kept
  modulo `CountMod`, a common multiple of the possible numbers of eligible nodes.
* `DataGuard`: `check[k]` is a goroutine in `PerformLinearityCheck` between reading the
  head, reading the maximum and acting; `tear` is the watchdog between its read, its write
  of the checkpoint and the reset of the cursor; `phase` is the start-up. `head` may be
  reported lower by `MaxLag` and the local chain may be reset. `StoreNext` stores a height
  and moves the checkpoint to it; `PassNext` passes one that gets no row (no body, a skip, a
  dropped task), so the next flush takes the checkpoint over a gap. `pruned`, `leapt` and
  `omitted` are history.
* `Rollback`: a block is the fork it was mined on. `walk` is `HandleDeepReorg`, one height
  per step. Its caller is not in the repository; it is taken to run with the writer
  stopped, as its comment asks. It writes the checkpoint of chain 1 whatever chain is
  indexed: `ChainOne` tells the two cases apart, and the run has the chain the program is
  configured for (both were checked).
* `RateWindow`: ages instead of times, the ring with its head and count, and beside it the
  reference `granted`, the ages of the requests granted in the last window, newest first.
* `QuotaGuard`: `read` and `sent` are the two places between check and count. The provider
  may report any use, above the limit too (`ReportedUses`); `reported` remembers the last.
  `quotaLock` is the lock a recording request holds for ever when it calls `Reset` a day
  after the last one; the guard has no production caller.
* `Replay`: every trajectory of up to `MaxLines` lines, by both readers. `played` is the
  sequence of the batches handed over, each a set of lines; `stops` are the lines at which
  calls of `FetchLogs` stopped. A recording that starts beyond the first range, as the one
  of `replay_integration_test.go`, loses a line with the first call.
* `WsHub`: the flush of the throttled hub runs beside `Run`, one send per step.
* `Enricher`: `GetSymbol` is look-up, mark, send, evict and resend as separate steps.
* `Extraction`: one block, all of its transactions and logs within the bounds, processed
  any number of times by either path. What a path finds is a set of activities; `Precedes`
  is the order in which it lists them, which decides who gets an index two of them claim.
* `Traffic`: the node is external; an answer may be lost after the transaction was taken.
* `Watermarks`: each handler's comparison and store are two steps, as are the self-healer's
  reads; the snapshot is a third. The cursor read from the database may lie beyond the head,
  as after a restart of a local chain; nothing beyond the head is fetched or committed.
* `BackPressure`: the four critical sections of a call, with time in units of 100 ms.
* `WssListener`: the two places of the back-off are kept apart, because they differ. `alive`
  is the subscription itself, which may break at any time (`SubscriptionBreaks`); the
  listener learns of it only at its select, not while a header waits for a slow reader.

## 3. Runs

| Run | Result | Shows |
|---|---|---|
| `seq_safety` | pass | `TypeOK`, `BufferBounded`, `NoUnaccountedHeight`, `BufferedNotJumped` with watchdog, reorgs, failing downloads, overflow |
| `seq_live` | pass | refinement of `HandOver` (heights decided once and in order), `EventuallyPasses` without watchdog |
| `seq_bypass` | violation | GAP_BYPASS does not hand over the block it resumes at |
| `seq_panic` | violation | a restart after a panic in phase 3A finds `s.mu` locked for ever |
| `persist` | pass | `NoSilentLoss`, `CheckpointCovers`, `CursorBehindDisk`, refinement of `ResumeLog`, `EventuallySettled` |
| `persist_shutdown` | violation | the last flush of a graceful shutdown cannot begin its transaction |
| `tail_safety` | pass | `HoleFromCutOrPurge`, `NoGhostChase` with lagging nodes and a watchdog intervention |
| `tail_live` | pass | `HeadCatchesUp`, `EventuallyScheduled` |
| `tail_hole` | violation | `Schedule` cuts a range silently and `lastScheduled` passes the hole |
| `lifecycle` | pass | `TakenIsAnswered`, `ActiveMeansRunning`, `AsleepMeansPaused`, `ModeMatchesState`, `StopEndsWorkers`, `AccessActivates` |
| `fetch_drop` | violation | a block above the throughput limiter's burst is dropped with the rest of its range |
| `services` | pass | one or two properties per service, see below |

What `services` shows:

| Property | In words |
|---|---|
| `CooldownKept`, `AllFailedTriedAll` | a node answers 429 and rests, unless a success came back later; a request fails only after every node, or after a node came back |
| `CheckpointHolesExplained` | every missing height below the checkpoint got no row from the pipeline, was pruned, or was jumped over |
| `RollbackAgrees` | a rollback leaves nothing the chain does not have, above the first seam |
| `WindowQuotaKept`, `SleepsOnlyWhenFull` | no window of time has more grants than the limit; nobody sleeps beside a free place |
| `OvershootBounded` | the quota, or a use reported above it, is exceeded by at most one request per goroutine |
| `OnlyStopsLost` | a replay loses a line recorded in order only if a call stopped at it: one line a call, whatever the gaps of the recording |
| `PanicsOnlyInFlush`, `NoZombieClient` | only the throttled flush can send on a closed channel; every listed client has a pump that will remove it |
| `OnceUnderWay`, `MarksExplained` | a token is requested once at a time; a mark that stays belongs to a token given up by a full queue or a failed batch |
| `StoredCompletely`, `ReprocessingIdempotent` | no activity loses its index to another; a repetition changes nothing, up to the named differences of the paths |
| `GapsAreAbandoned` | a nonce gap comes only from a number given up before sending |
| `WatermarksOrdered` | disk behind memory behind chain, in every snapshot |
| `MergedHasTwin` | a merged call has another one for its range, which may have been refused |
| `ConnectedIsHonest` | a live subscription shows as connected; a lost one does not, once its error has been read, until the next success |

Several of these name an exception. It is part of the result: TLC finds the behaviour when
the exception is left out, and nothing else when it is there. So a hazard that is itself
the exception is named by its property, not excluded: the merge record of a refused call
(`MergedHasTwin`), the jump of guard and watchdog (`CheckpointHolesExplained`), heights
passed over for want of a body (`NoSilentLoss`, `CheckpointCovers`), purged jobs
(`HoleFromCutOrPurge`), the line a call of the replay stops at (`OnlyStopsLost`), a skip
that logs another height (`NoUnaccountedHeight`), a cool-down replaced by a later failure's
back-off (`CooldownKept`).

The five violations are the findings in `PROJECT.json`, each with the comment or document
it contradicts.

**Bounds.** `Sequencer`: four heights with a buffer limit of two let a buffer overflow with
a gap before it and a drain behind it happen together; batches of two reach every phase;
one refetch attempt (`GapFillMax = 1`) gives both sides of the gap-fill counter;
`GapThreshold = 2` lets the watchdog jump to the head while a batch is between phases 1 and
3A. `seq_live` has a limit that four heights cannot exceed, because an overflow may move
the cursor back when stale entries are left in the map; that behaviour belongs to
`seq_safety`. `PersistPipeline`: channels of two and one, batches of two and three heights
make both channels overflow, the emergency drain run with and without cooldown, and a crash
happen with tasks at every place. `TailFollow`: three heights (four for liveness, so that
two of them lie outside the safety buffer), a window and job range of one, queues of one
and two; the hole needs four heights and a window of two. No symmetry is used: heights are
ordered.
`Lifecycle`: two workers, two ranges of which one holds a block above the burst, queues of
one (the state channel of two), two attempts. `services` (1.2 million states in all): each
bound is the smallest at which both sides of every comparison happen, such as three tokens
for a queue of one and a batch of two, reported uses on both sides of the limit, or gaps of
one and two for the guard's two thresholds. Larger instances were run by hand and hold:
`DataGuard` with four heights (12.8 million states), `Rollback` with three reorganisations
and two skips (700,000), `BackPressure` with two ranges (1.3 million).

`CHECK_DEADLOCK FALSE` is set for the sequencer and the persistence pipeline, which stop at
shutdown (or, in the sequencer, after the leaked lock), for the life cycle, which may be
stopped, and for the services, most of which come to an end; the tail follower never stops
and deadlock is checked.

**Fairness.** `Sequencer`: the goroutine is scheduled (`WF` on its steps), the stall ticker
gets its turn in the select (`WF` on `StallRead`) and time passes; nothing is assumed of
fetcher, RPC or watchdog. `PersistPipeline`: both goroutines are scheduled; nothing is
assumed of the database or the hand-over. `TailFollow`: goroutines and tickers are
scheduled and workers take jobs; in addition the RPC pool reports the real head again and
again at moments when the command channel has room, and back-pressure is not permanent
(`SF`): both are conditions of the environment, without which the code cannot make
progress. The liveness of `tail_live` is stated without watchdog interventions: with one,
a forced target and an older pending update leave the target low until the chain grows
(listed as a hazard). `Lifecycle`: goroutines that are running are scheduled (each worker,
the wake-up, the monitor's pending pause, the access goroutine, the transition processor);
nothing is assumed of users, tickers, the sequencer or the RPC nodes.

## 4. Proofs

`SequencerProofs` proves for every value of the constants that satisfies
`SequencerAssumption` (naturals, a positive buffer limit and batch size):

* `TypeCorrect == Spec => []TypeOK`. `TypeOK` is inductive. The work is in
  `ContinuationsType` (every outcome of a drain is a cursor between the start of the drain
  and `MaxBlock + 1` and a well-typed buffer) and in `RestType`, on the reordered rest of a
  batch.
* `NothingUnaccounted == Spec => []NoUnaccountedHeight`. Not inductive: `CommitBatch`
  writes a cursor computed earlier and `StallGapBypass` skips from a copy of it. The
  strengthening `AccountedCopies` says that the heights below each copy of the cursor are
  accounted for too: below `seqBatch.next` once `ProcessBatch` has run (before that, all
  but the heights of the sequential batch), and below `stall.exp` while the stall handler
  runs. `Extend` then lifts the property over any range that a step hands over or skips.
* `BufferStaysBounded == Spec => []BufferBounded`. `ContinuationsShrink` shows that a drain
  never enlarges the map and removes its first block unless that is a reorg, in which case
  the purge leaves it alone; `HandleBlockBounded` combines it with the one place that
  inserts.
* `NeverJumpsBuffered == Spec => BufferedNotJumped`, an action property. One step needs an
  invariant: `CommitBatch` stores a cursor computed two lock sections earlier, and the
  watchdog may have moved the cursor back since, below blocks that nobody handed over.
  `RunIsDone` says that what is buffered between the present cursor and the computed one is
  part of the batch or done with, unless the watchdog is between its reset and its clear;
  after the clear the map is empty and stays so until the batch is committed. `RunCovered`
  shows that phase 1 leaves no height of its run out. In an overflow the drain starts at
  the smallest buffered height, so nothing buffered lies before it.
* `CursorForward`: with `~WatchdogEnabled` and `NeverOverflows` (the buffer limit leaves
  room for every height), `Spec => ExpectedNeverRegresses`, the action property that
  `expectedBlock` never moves back. Both mechanisms left out do move it back; `seq_live`
  has an instance that satisfies the hypotheses. `CopiesCurrent` relates the cursor to the
  copies phase 3A and the gap bypass store.
* `SequencerImplementsHandOver`, under the same two hypotheses: `Spec =>
  ImplementsHandOver`. `RunIsNext` says that between phases 1 and 2 the blocks with and
  without a body are disjoint and make up exactly the stretch from the cursor to the
  computed one, so phase 2 is one `Advance`. `HandsOverNext`, `PassesOverNext` and
  `DecidesNothing` are the three shapes a step has: it hands over a stretch, skips one, or
  is invisible.

The other proofs hold for every value of the constants that satisfies the assumption of
their module:

* `PersistPipelineProofs.NeverSilentlyLost`, `CheckpointAlwaysCovers`, `CursorAlwaysBehind`
  and the refinement `PipelineImplementsLog == Spec => ImplementsResumeLog`. `PipeInv` is
  about order: the commits in the command channel, the tasks in the task channel, the batch
  and the transaction are ascending and lie below one another (`OrderInv`), and all are
  above the checkpoint until their transaction commits (`DiskInv`). So a transaction passes
  only heights it stores, that were logged as dropped or that never became a task, its
  largest height is its last (`MaxOfAscending`), and a restart, which empties everything,
  resumes behind decided heights. `MovedInv` covers the steps of the writer that only move
  tasks, `UnmovedInv` those that move none. The refinement then needs one more fact:
  `FlushCommit` is the only step that changes the table or the checkpoint.
* `TailFollowProofs.TailNeverChasesGhosts` and `TailHolesAccounted`. Every height on its
  way from a node to the job queue (in a command, the pending update, the state, the
  snapshot, a caller's locals) was a head of the chain once (`MessagesOnChain`,
  `StateOnChain`, `CallsOnChain`), and the chain does not shrink. For the holes, `CallInv`
  says that what lies between `lastScheduled` and the place the tail follower's send loop
  has reached is scheduled, or was purged while the loop went on.
* `ServiceProofs.OnlyFlushPanics` and `NeverZombie`. A closed channel belongs to a client
  that was listed once and is no longer (`ClosedIsGone`).
* `DataGuardProofs.HolesExplained == GuardSpec => []CheckpointHolesExplained`. The
  checkpoint is written from numbers read earlier. `GuardInv` says that each of them (the
  maximum a check read, the checkpoint the watchdog read, the head `AlignAnvilData` cut at,
  the cursor in memory) was covered when it was read, heights passed without a row
  included; `CoverStays` shows that what is explained stays explained, `PruneCovers` and
  `LeapCovers` that a prune and a jump explain what they remove or pass.
* `RpcPoolProofs.CooldownAlwaysKept` and `FailedTriedAll`. `RequestInv` says that, as long
  as no tried node came back, the tried nodes are all ineligible and the attempts count
  them. `RankOnto` shows that the ranks of the eligible nodes are exactly the numbers below
  their count, so the round robin finds a node.
* `LifecycleProofs.ActiveRuns`, `AsleepPauses`, `ModeMatches` and `TakenAnswered`. The
  strengthenings: a wake-up on its way means active with a fresh heartbeat, and an active
  manager with a pause pending has been overtaken (`LazyInv`); low power mode is off during
  a transition, and an indexer that runs where it should not is one whose `Stop` failed
  (`ModeInv`); every taken height is accounted for by an answer, a worker's rest of a
  range, or the burst (`WorkInv`).
* `ServiceProofs.QuotaOvershoot == QuotaSpec => []OvershootBounded`. The bound counts the
  requests under way, above the limit or above the use last reported, and is inductive with
  the types.
* `ServiceProofs.WindowQuota` and `SleepersFindItFull`. The code counts ring entries, the
  property grants. `RingHoldsGrants` says that the ring, read from its newest entry back,
  holds the ages of all grants of the last window in order and behind them only entries
  that have left it; `NewestFirst` makes the oldest entry the one that leaves first. So
  `evictOld`, which stops at the first entry inside the window, leaves exactly the grants
  (`EvictedIs`). `TimersInWindow` says that a timer runs only while the ring is full and
  ends when its oldest entry leaves. The arithmetic of the ring modulo its size is
  `RingPlace` and the lemmas after it.
* `ServiceProofs.HonestConnection`. The property is inductive with the types: every exit
  that leaves the flag set is one of its exceptions, and every exit that gives the
  subscription up ends it.
* `ServiceProofs.MergedTwin`. A record of a range inside the merge window has an owner: a
  call that has not been decided, or one accepted or refused since the record was made
  (`RecordsHaveOwners`). A merged call saw such a record (`MergedInWindow`).
* `ServiceProofs.TokenOnce` and `MarksHaveReasons`. `PlacesApart` says that no token is in
  two places (queue, batch, an asker's hands); it is kept because every token under way is
  marked (`WayMarked`) and an asker with a marked token goes away. With it the count of the
  places is zero or one, which is what the two properties count.
* `ChainDataProofs.RollbackRemoves`. A row the chain still has was stored with the parent
  the chain still has (`ParentsAgree`): from the ancestor downwards, agreement at one
  height gives agreement at the next unless there is a seam. `NewestFork` makes a
  reorganisation produce hashes no row has; `WalkState` says what the search has marked.
* `ChainDataProofs.PublishedOrder`. Heights travel through the command channel, a pending
  store and the snapshot. `HeadLeads`: whatever is scheduled, committed or reset to lies
  behind the published head, or was in the database. `NoticesAhead`: the notice of a
  fetched block is in the marks or travels in the channel ahead of the block's commit,
  unless it was dropped. All of it only while nobody forces the marks, as the property
  says.
* `ChainDataProofs.EmulatorGaps`. Inductive with the types; `PendingNonceFact` shows that
  the node's answer to `PendingNonceAt` has no gap below it, so a resync makes none.
* `ChainDataProofs.BlocksComplete` and `ReprocessingSafe` (an action property).
  `RowsOfBlock`: without known senders both paths find the same activities, every row is
  one of them or a mock, and once there is a row every index they use is taken. That no two
  activities of a path share an index follows from the synthetic indices lying above the
  log indices and growing with the transaction; without it an activity would be dropped
  silently.
* `ChainDataProofs.LostOnlyAtStops`. `NotPassedYet`: a line ahead of the scanner that was
  recorded in order is not behind the next range, because that range begins behind a line
  already scanned or behind one the scanner stopped at. So a call that does not return such
  a line finds it beyond the range, which is where it stops.

The theorems about a service speak of its own specification (`GuardSpec`, `PoolSpec`,
`WindowSpec` and so on), which `Services` runs beside the others.

Every invariant and every action property of the passing runs has a theorem. Model-checked
only are the liveness properties (`EventuallyPasses`, `EventuallySettled`, `HeadCatchesUp`,
`EventuallyScheduled`, `StopEndsWorkers`, `AccessActivates`): fairness and `ENABLED` are
outside the prover's reach. Where a property would need induction over a sequence, the
history it speaks of is kept in a form that needs none: an ordered sequence of ages in
`RateWindow`, sets of lines and activities in `Replay` and `Extraction`.

## 5. Plan

1. Composition of `Sequencer` and `PersistPipeline`, so that blocks are handed over in the
   order a regressed cursor produces; the watchdog then acts on cursor and checkpoint in
   one model.
2. `FetchWorkers` as the source of `Sequencer`, for the loop of pausing above the
   high-water mark and resuming below the low one.
3. Proofs about the composition: the promises `HandOver` and `ResumeLog`, joined, as what a
   user of the tables may rely on.

## 6. Not modelled

* **Checkpoint service**: its serialisation and its search always return an error, and
  nothing creates it. The checkpoint the program uses is in `PersistPipeline` and
  `DataGuard`.
* **HTTP API, health and admin servers**: read-only views of the database and of
  snapshots; the admin server is not started.
* **Metrics, monitoring, telemetry, height oracle, UI projection, global state**: numbers
  for display; of them only the pipeline depth is read back, to choose the state shown.
* **Database schema, configuration, models, logging, panic recovery, network check**: SQL
  text, constants and types; what the statements do is part of the modules above.
* **Basic RPC pool, rotator, eco strategy, hot buffer, DeFi simulator, transfer injector,
  retry queue, `teleportProgress`, `fetchHeaderWithRetry`**: no production caller, and no
  state another part reads.
* **Reconciler**: it only logs what it finds.
* **Recording**: file output; it appears in `Replay` as the order and kinds of the lines.
* **Eco mode of the orchestrator**: shown to users and read by nothing else; what could go
  wrong in its unsigned lag is a matter of the watermarks (`WatermarksOrdered`).
