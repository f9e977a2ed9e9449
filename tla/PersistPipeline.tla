-------------------------- MODULE PersistPipeline --------------------------
(***************************************************************************)
(* From the processor to the database.                                     *)
(*                                                                         *)
(* The processor dispatches one CmdCommitBatch per block into the          *)
(* orchestrator's command channel (orchestrator_api.go); the orchestrator  *)
(* goroutine (orchestrator_loop.go) moves it into the task channel of the  *)
(* asynchronous writer (async_writer_*.go), which collects batches and     *)
(* writes blocks and checkpoint in one transaction, then reports the new   *)
(* height back through the command channel.  Both channels are bounded and *)
(* both senders drop on a full channel.  The process may stop at any step, *)
(* gracefully or not, and resumes behind the stored checkpoint.            *)
(*                                                                         *)
(* A task is its block height.  The sequencer moves through the heights in *)
(* ascending order; not every height becomes a task.                       *)
(***************************************************************************)
EXTENDS Integers, Sequences, FiniteSets

CONSTANTS
    MaxHeight,     \* bound: the last height handed over
    CmdCap,        \* capacity of cmdChan (50000)
    TaskCap,       \* capacity of taskChan (15000)
    BatchSize,     \* tasks per transaction (200)
    DBMayFail,     \* a transaction may fail
    MaxNoise,      \* bound: other commands in cmdChan at a time
    MaxCrashes     \* bound: process restarts

ASSUME PersistAssumption ==
    /\ MaxHeight \in Nat
    /\ CmdCap \in Nat \ {0}
    /\ TaskCap \in Nat \ {0}
    /\ BatchSize \in Nat \ {0}
    /\ DBMayFail \in BOOLEAN
    /\ MaxNoise \in Nat
    /\ MaxCrashes \in Nat

Heights == 1..MaxHeight

\* cmdChan * 75 / 100 and * 50 / 100 of the task channel's capacity.
DrainThreshold == (TaskCap * 75) \div 100
DrainTarget == (TaskCap * 50) \div 100

Message ==
    [type : {"commit", "disk"}, height : Heights]
      \cup [type : {"state"}, to : {"degraded", "running"}]
      \cup [type : {"other"}]

VARIABLES
    next,            \* the height the sequencer decides next
    cmdChan,         \* Orchestrator.cmdChan
    syncedCursor,    \* Orchestrator.state.SyncedCursor
    systemState,     \* Orchestrator.state.SystemState
    taskChan,        \* AsyncWriter.taskChan
    writer,          \* AsyncWriter.run: its step and where flush returns to
    batch,           \* tasks collected so far
    flushing,        \* the tasks flush was called with
    cooldown,        \* emergencyDrainCooldown
    cancelled,       \* the orchestrator's and the writer's contexts are cancelled
    orchUp,          \* the orchestrator loop is running
    db,              \* heights in the blocks table
    checkpoint,      \* sync_checkpoints.last_synced_block, 0 when absent
    lost,            \* history: heights dropped with a logged error
    unsent,          \* history: heights passed over before anything was dispatched
    crashes          \* history: process restarts so far

procVars == <<cmdChan, syncedCursor, systemState, taskChan, writer, batch, flushing,
              cooldown, cancelled, orchUp>>
dbVars == <<db, checkpoint>>
vars == <<next, procVars, dbVars, lost, unsent, crashes>>

Heads(s) == {s[i] : i \in DOMAIN s}
MaxOf(s) == CHOOSE h \in Heads(s) : \A g \in Heads(s) : g <= h
Noise == Cardinality({i \in DOMAIN cmdChan : cmdChan[i].type = "other"})

Idle == [at |-> "select", ret |-> "select"]

Init ==
    /\ next = 1
    /\ cmdChan = <<>>
    /\ syncedCursor = 0
    /\ systemState = "running"
    /\ taskChan = <<>>
    /\ writer = Idle
    /\ batch = <<>>
    /\ flushing = <<>>
    /\ cooldown = FALSE
    /\ cancelled = FALSE
    /\ orchUp = TRUE
    /\ db = {}
    /\ checkpoint = 0
    /\ lost = {}
    /\ unsent = {}
    /\ crashes = 0

(***************************************************************************)
(* Orchestrator.Dispatch: never blocks.  A full channel drops the command, *)
(* and after shutdown select may take either ready case.                   *)
(***************************************************************************)
Accepts == Len(cmdChan) < CmdCap
Refuses == ~Accepts \/ cancelled

\* Processor.ProcessBlock / ProcessBatch dispatch the persist task of one block.
HandOver ==
    /\ next <= MaxHeight
    /\ next' = next + 1
    /\ \/ /\ Accepts
          /\ cmdChan' = Append(cmdChan, [type |-> "commit", height |-> next])
          /\ UNCHANGED lost
       \/ /\ Refuses
          /\ lost' = lost \cup {next}
          /\ UNCHANGED cmdChan
    /\ UNCHANGED <<syncedCursor, systemState, taskChan, writer, batch, flushing, cooldown,
                   cancelled, orchUp, dbVars, unsent, crashes>>

\* ProcessBatch skips a block without a body, without a task and without a word; what the
\* sequencer steps over never reaches the processor at all.
PassOver ==
    /\ next <= MaxHeight
    /\ next' = next + 1
    /\ unsent' = unsent \cup {next}
    /\ UNCHANGED <<procVars, dbVars, lost, crashes>>

\* Any other command (heights, fetch results, log events) competes for the channel.
DispatchOther ==
    /\ Accepts
    /\ Noise < MaxNoise
    /\ cmdChan' = Append(cmdChan, [type |-> "other"])
    /\ UNCHANGED <<next, syncedCursor, systemState, taskChan, writer, batch, flushing,
                   cooldown, cancelled, orchUp, dbVars, lost, unsent, crashes>>

(***************************************************************************)
(* Orchestrator.process                                                    *)
(***************************************************************************)
Received(type) == orchUp /\ cmdChan # <<>> /\ Head(cmdChan).type = type

\* handleCommitBatch and AsyncWriter.Enqueue: a full task channel drops the task.
HandleCommitBatch ==
    /\ Received("commit")
    /\ cmdChan' = Tail(cmdChan)
    /\ LET h == Head(cmdChan).height IN
       \/ /\ Len(taskChan) < TaskCap
          /\ taskChan' = Append(taskChan, h)
          /\ UNCHANGED lost
       \/ /\ Len(taskChan) >= TaskCap
          /\ lost' = lost \cup {h}
          /\ UNCHANGED taskChan
    /\ UNCHANGED <<next, syncedCursor, systemState, writer, batch, flushing, cooldown,
                   cancelled, orchUp, dbVars, unsent, crashes>>

\* handleCommitDisk: the cursor only moves forward.
HandleCommitDisk ==
    /\ Received("disk")
    /\ cmdChan' = Tail(cmdChan)
    /\ LET h == Head(cmdChan).height
       IN  syncedCursor' = IF h > syncedCursor THEN h ELSE syncedCursor
    /\ UNCHANGED <<next, systemState, taskChan, writer, batch, flushing, cooldown,
                   cancelled, orchUp, dbVars, lost, unsent, crashes>>

HandleSetSystemState ==
    /\ Received("state")
    /\ cmdChan' = Tail(cmdChan)
    /\ systemState' = Head(cmdChan).to
    /\ UNCHANGED <<next, syncedCursor, taskChan, writer, batch, flushing, cooldown,
                   cancelled, orchUp, dbVars, lost, unsent, crashes>>

HandleOther ==
    /\ Received("other")
    /\ cmdChan' = Tail(cmdChan)
    /\ UNCHANGED <<next, syncedCursor, systemState, taskChan, writer, batch, flushing,
                   cooldown, cancelled, orchUp, dbVars, lost, unsent, crashes>>

\* loop sees its context done: whatever is still in cmdChan is never read.
OrchestratorStops ==
    /\ orchUp
    /\ cancelled
    /\ orchUp' = FALSE
    /\ UNCHANGED <<next, cmdChan, syncedCursor, systemState, taskChan, writer, batch,
                   flushing, cooldown, cancelled, dbVars, lost, unsent, crashes>>

(***************************************************************************)
(* AsyncWriter.run                                                         *)
(***************************************************************************)
\* flush(tasks), continuing at ret.
CallFlush(tasks, ret) ==
    /\ flushing' = tasks
    /\ batch' = <<>>
    /\ writer' = [at |-> "flush", ret |-> ret]

\* case task := <-taskChan.  The channel length is read after the receive, so the
\* orchestrator may have added to it in between.
Receive ==
    /\ writer.at = "select"
    /\ taskChan # <<>>
    /\ flushing' = <<Head(taskChan)>>
    /\ taskChan' = Tail(taskChan)
    /\ writer' = [writer EXCEPT !.at = "received"]
    /\ UNCHANGED <<next, cmdChan, syncedCursor, systemState, batch, cooldown, cancelled,
                   orchUp, dbVars, lost, unsent, crashes>>

\* Mutant of Collect: the emergency branch flushes the batch without the task in hand.
CollectForgetsTask ==
    /\ writer.at = "received"
    /\ \/ Len(taskChan) > DrainThreshold /\ batch # <<>> /\ CallFlush(batch, "drain")
       \/ /\ Len(taskChan) > DrainThreshold /\ batch = <<>>
          /\ writer' = [at |-> "drain", ret |-> "drain"]
          /\ flushing' = <<>>
          /\ UNCHANGED batch
       \/ /\ Len(taskChan) <= DrainThreshold
          /\ batch' = batch \o flushing
          /\ flushing' = <<>>
          /\ writer' = Idle
    /\ UNCHANGED <<next, cmdChan, syncedCursor, systemState, taskChan, cooldown, cancelled,
                   orchUp, dbVars, lost, unsent, crashes>>

\* Above 75 percent: flush the batch and this task, then drain the channel.
\* Otherwise the task joins the batch, which is flushed when complete.
Collect ==
    /\ writer.at = "received"
    /\ LET tasks == batch \o flushing IN
       \/ Len(taskChan) > DrainThreshold /\ CallFlush(tasks, "drain")
       \/ /\ Len(taskChan) <= DrainThreshold
          /\ Len(tasks) >= BatchSize
          /\ CallFlush(tasks, "select")
       \/ /\ Len(taskChan) <= DrainThreshold
          /\ Len(tasks) < BatchSize
          /\ batch' = tasks
          /\ flushing' = <<>>
          /\ writer' = Idle
    /\ UNCHANGED <<next, cmdChan, syncedCursor, systemState, taskChan, cooldown, cancelled,
                   orchUp, dbVars, lost, unsent, crashes>>

\* Mutant of FlushTick: the ticker waits for a complete batch.
FlushTickWhenFull ==
    /\ writer.at = "select"
    /\ Len(batch) >= BatchSize
    /\ CallFlush(batch, "select")
    /\ UNCHANGED <<next, cmdChan, syncedCursor, systemState, taskChan, cooldown, cancelled,
                   orchUp, dbVars, lost, unsent, crashes>>

\* case <-ticker.C
FlushTick ==
    /\ writer.at = "select"
    /\ batch # <<>>
    /\ CallFlush(batch, "select")
    /\ UNCHANGED <<next, cmdChan, syncedCursor, systemState, taskChan, cooldown, cancelled,
                   orchUp, dbVars, lost, unsent, crashes>>

\* The transaction commits: all blocks of the batch and the checkpoint, or nothing.
\* It runs under the writer's context, so it cannot begin once that is cancelled.
FlushCommit ==
    /\ writer.at = "flush"
    /\ ~cancelled
    /\ db' = db \cup Heads(flushing)
    /\ checkpoint' = MaxOf(flushing)
    /\ writer' = [writer EXCEPT !.at = "notify"]
    /\ UNCHANGED <<next, cmdChan, syncedCursor, systemState, taskChan, batch, flushing,
                   cooldown, cancelled, orchUp, lost, unsent, crashes>>

\* Mutant of FlushFails: the checkpoint is written outside the transaction.
FlushFailsAfterCheckpoint ==
    /\ writer.at = "flush"
    /\ DBMayFail \/ cancelled
    /\ lost' = lost \cup Heads(flushing)
    /\ checkpoint' = MaxOf(flushing)
    /\ flushing' = <<>>
    /\ writer' = [writer EXCEPT !.at = writer.ret]
    /\ UNCHANGED <<next, cmdChan, syncedCursor, systemState, taskChan, batch, cooldown,
                   cancelled, orchUp, db, unsent, crashes>>

\* Mutant of FlushFails: the error path falls through to the notification.
FlushFailsButNotifies ==
    /\ writer.at = "flush"
    /\ DBMayFail \/ cancelled
    /\ lost' = lost \cup Heads(flushing)
    /\ writer' = [writer EXCEPT !.at = "notify"]
    /\ UNCHANGED <<next, cmdChan, syncedCursor, systemState, taskChan, batch, flushing,
                   cooldown, cancelled, orchUp, dbVars, unsent, crashes>>

\* Begin, a statement or Commit fails: the batch is logged and forgotten.
FlushFails ==
    /\ writer.at = "flush"
    /\ DBMayFail \/ cancelled
    /\ lost' = lost \cup Heads(flushing)
    /\ flushing' = <<>>
    /\ writer' = [writer EXCEPT !.at = writer.ret]
    /\ UNCHANGED <<next, cmdChan, syncedCursor, systemState, taskChan, batch, cooldown,
                   cancelled, orchUp, dbVars, unsent, crashes>>

\* Dispatch of one command m by the writer goroutine.
WriterDispatch(m) ==
    \/ Accepts /\ cmdChan' = Append(cmdChan, m)
    \/ Refuses /\ UNCHANGED cmdChan

\* The end of flush: report the committed height.
FlushNotify ==
    /\ writer.at = "notify"
    /\ WriterDispatch([type |-> "disk", height |-> MaxOf(flushing)])
    /\ flushing' = <<>>
    /\ writer' = [writer EXCEPT !.at = writer.ret]
    /\ UNCHANGED <<next, syncedCursor, systemState, taskChan, batch, cooldown, cancelled,
                   orchUp, dbVars, lost, unsent, crashes>>

\* emergencyDrain: at most one per cooldown period.
EmergencyDrain ==
    /\ writer.at = "drain"
    /\ \/ /\ cooldown
          /\ writer' = Idle
          /\ UNCHANGED <<cooldown, cmdChan>>
       \/ /\ ~cooldown
          /\ cooldown' = TRUE
          /\ WriterDispatch([type |-> "state", to |-> "degraded"])
          /\ writer' = [at |-> "draining", ret |-> "drained"]
    /\ UNCHANGED <<next, syncedCursor, systemState, taskChan, batch, flushing, cancelled,
                   orchUp, dbVars, lost, unsent, crashes>>

\* One round of the drain loop: down to half of the capacity, then one transaction.
DrainTask ==
    /\ writer.at = "draining"
    /\ \/ /\ Len(taskChan) > DrainTarget
          /\ flushing' = Append(flushing, Head(taskChan))
          /\ taskChan' = Tail(taskChan)
          /\ UNCHANGED writer
       \/ /\ Len(taskChan) <= DrainTarget
          /\ writer' = [writer EXCEPT !.at = IF flushing = <<>> THEN "drained" ELSE "flush"]
          /\ UNCHANGED <<flushing, taskChan>>
    /\ UNCHANGED <<next, cmdChan, syncedCursor, systemState, batch, cooldown, cancelled,
                   orchUp, dbVars, lost, unsent, crashes>>

DrainEnds ==
    /\ writer.at = "drained"
    /\ WriterDispatch([type |-> "state", to |-> "running"])
    /\ writer' = Idle
    /\ UNCHANGED <<next, syncedCursor, systemState, taskChan, batch, flushing, cooldown,
                   cancelled, orchUp, dbVars, lost, unsent, crashes>>

CooldownExpires ==
    /\ cooldown
    /\ cooldown' = FALSE
    /\ UNCHANGED <<next, cmdChan, syncedCursor, systemState, taskChan, writer, batch,
                   flushing, cancelled, orchUp, dbVars, lost, unsent, crashes>>

\* case <-ctx.Done: a last flush, then the goroutine ends.
WriterStops ==
    /\ writer.at = "select"
    /\ cancelled
    /\ \/ batch # <<>> /\ CallFlush(batch, "stopped")
       \/ /\ batch = <<>>
          /\ writer' = [at |-> "stopped", ret |-> "stopped"]
          /\ UNCHANGED <<batch, flushing>>
    /\ UNCHANGED <<next, cmdChan, syncedCursor, systemState, taskChan, cooldown, cancelled,
                   orchUp, dbVars, lost, unsent, crashes>>

(***************************************************************************)
(* The process                                                             *)
(***************************************************************************)
\* Orchestrator.Shutdown cancels the loop and the writer.
Shutdown ==
    /\ ~cancelled
    /\ cancelled' = TRUE
    /\ UNCHANGED <<next, cmdChan, syncedCursor, systemState, taskChan, writer, batch,
                   flushing, cooldown, orchUp, dbVars, lost, unsent, crashes>>

\* Mutant of Restart: the stored checkpoint is not read.
RestartFromGenesis ==
    /\ crashes < MaxCrashes
    /\ crashes' = crashes + 1
    /\ next' = 1
    /\ cmdChan' = <<>>
    /\ syncedCursor' = 0
    /\ systemState' = "running"
    /\ taskChan' = <<>>
    /\ writer' = Idle
    /\ batch' = <<>>
    /\ flushing' = <<>>
    /\ cooldown' = FALSE
    /\ cancelled' = FALSE
    /\ orchUp' = TRUE
    /\ UNCHANGED <<dbVars, lost, unsent>>

\* The process ends at any point and starts again: getStartBlockFromCheckpoint
\* resumes behind the checkpoint and LoadInitialState restores the cursor.
Restart ==
    /\ crashes < MaxCrashes
    /\ crashes' = crashes + 1
    /\ next' = checkpoint + 1
    /\ cmdChan' = <<>>
    /\ syncedCursor' = checkpoint
    /\ systemState' = "running"
    /\ taskChan' = <<>>
    /\ writer' = Idle
    /\ batch' = <<>>
    /\ flushing' = <<>>
    /\ cooldown' = FALSE
    /\ cancelled' = FALSE
    /\ orchUp' = TRUE
    /\ UNCHANGED <<dbVars, lost, unsent>>

OrchestratorStep ==
    \/ HandleCommitBatch \/ HandleCommitDisk \/ HandleSetSystemState \/ HandleOther
    \/ OrchestratorStops

WriterStep ==
    \/ Receive \/ Collect \/ FlushTick \/ FlushCommit \/ FlushFails \/ FlushNotify
    \/ EmergencyDrain \/ DrainTask \/ DrainEnds \/ WriterStops

Next ==
    \/ HandOver \/ PassOver \/ DispatchOther
    \/ OrchestratorStep
    \/ WriterStep
    \/ CooldownExpires
    \/ Shutdown \/ Restart

Spec == Init /\ [][Next]_vars

\* Both goroutines are scheduled; the flush ticker fires.  Nothing is assumed of
\* the database, of hand-over or of shutdown.
Fairness == WF_vars(OrchestratorStep) /\ WF_vars(WriterStep)

FairSpec == Spec /\ Fairness

(***************************************************************************)
(* Properties                                                              *)
(***************************************************************************)
\* The types of the orchestrator's and the writer's state; both channels stay within
\* their capacities and a collected batch is flushed before it reaches BatchSize.
TypeOK ==
    /\ next \in 1..(MaxHeight + 1)
    /\ cmdChan \in Seq(Message) /\ Len(cmdChan) <= CmdCap
    /\ syncedCursor \in 0..MaxHeight
    /\ systemState \in {"degraded", "running"}
    /\ taskChan \in Seq(Heights) /\ Len(taskChan) <= TaskCap
    /\ writer \in [at : {"select", "received", "flush", "notify", "drain", "draining",
                          "drained", "stopped"},
                   ret : {"select", "drain", "drained", "stopped"}]
    /\ batch \in Seq(Heights) /\ Len(batch) < BatchSize
    /\ flushing \in Seq(Heights)
    /\ cooldown \in BOOLEAN
    /\ cancelled \in BOOLEAN
    /\ orchUp \in BOOLEAN
    /\ db \in SUBSET Heights
    /\ checkpoint \in 0..MaxHeight
    /\ lost \in SUBSET Heights
    /\ unsent \in SUBSET Heights
    /\ crashes \in 0..MaxCrashes

\* Commands on their way to the task channel.
Commits == {cmdChan[i].height : i \in {j \in DOMAIN cmdChan : cmdChan[j].type = "commit"}}

InPipe == Commits \cup Heads(taskChan) \cup Heads(batch) \cup Heads(flushing)

\* Across emergency drains, failed transactions and restarts, a height the sequencer
\* has moved past is stored, still in the pipeline, or was dropped with a logged error,
\* unless nothing was dispatched for it (no body, or stepped over): behind Dispatch no
\* height is lost without a word.
NoSilentLoss == \A h \in 1..(next - 1) : h \in db \cup lost \cup unsent \cup InPipe

\* The checkpoint, where a restart resumes, covers besides stored blocks only heights
\* logged as dropped or passed over before they became a task, never one that is still
\* on its way, and it names a stored block: writing blocks and checkpoint in one
\* transaction is enough only because tasks stay in order.
CheckpointCovers ==
    /\ \A h \in 1..checkpoint : h \in db \cup lost \cup unsent
    /\ checkpoint > 0 => checkpoint \in db

\* The cursor shown to users never runs ahead of the stored checkpoint.
CursorBehindDisk == syncedCursor <= checkpoint

\* The pipeline implements the resumable log.
Log == INSTANCE ResumeLog WITH cursor <- checkpoint,
                               stored <- {h \in db : h <= checkpoint}
ImplementsResumeLog == Log!Spec

\* Without shutdown or restart, every height handed over is stored or reported lost:
\* neither channel nor the emergency drain can strand a task.
EventuallySettled ==
    []<>(cancelled \/ \A h \in 1..(next - 1) : h \in db \cup lost \cup unsent)

\* Orchestrator.Shutdown flushes: with a working database, the flush the writer makes
\* when it is told to stop stores the batch it had collected.
ShutdownFlushes ==
    [][writer.at = "flush" /\ writer.ret = "stopped" /\ writer' # writer
         => Heads(flushing) \subseteq db']_vars

=============================================================================
