----------------------------- MODULE Watermarks -----------------------------
(***************************************************************************)
(* The orchestrator's three watermarks (orchestrator_loop.go,              *)
(* orchestrator_core.go, self_healing.go): LatestHeight, the chain's head; *)
(* FetchedHeight, the highest block in memory; SyncedCursor, the highest   *)
(* block on disk.  The loop goroutine compares and stores them without a   *)
(* lock, one command at a time; the self-healer and ForceSetCursors read   *)
(* and write the same fields under o.mu, which the loop takes only to copy *)
(* the state into the snapshot.  A comparison and the store that follows   *)
(* are two steps here, as are the self-healer's two reads.                 *)
(*                                                                         *)
(* The producers are reduced to what they may send: heights up to the      *)
(* chain's head, blocks scheduled up to the published head, commits of     *)
(* blocks in memory.  The safety buffer, the target and the job queue are  *)
(* TailFollow's; the snapshots sent to the user interface, and what only   *)
(* they show (eco mode, progress, the other system states), are left out.  *)
(***************************************************************************)
EXTENDS Integers, Sequences

CONSTANTS
    MarkHeight,     \* bound: the chain's last height
    MarkCmdCap,     \* capacity of cmdChan (50000)
    MaxForced       \* bound: calls of ForceSetCursors

ASSUME WatermarksAssumption ==
    MarkHeight \in Nat /\ MarkCmdCap \in Nat \ {0} /\ MaxForced \in Nat

MarkHeights == 0..MarkHeight
NoStore == [mark |-> "none", h |-> 0]

VARIABLES
    onChain,        \* the chain's head
    commands,       \* Orchestrator.cmdChan
    marks,          \* state.LatestHeight, FetchedHeight, SyncedCursor
    pendingHeight,  \* pendingHeightUpdate, 0 for nil
    store,          \* the store the loop has decided on: which mark, which height
    publishing,     \* the loop is between a command and updateProgressAndSnapshot
    shown,          \* Orchestrator.snapshot
    stalled,        \* state.SystemState is Stalled
    audit,          \* the self-healer: "idle", or the pair it compares, and what it read
    scheduledTo,    \* the highest height handed to the fetcher
    inMemory,       \* the highest height fetched
    resumedAt,      \* the cursor LoadInitialState found in the database
    forcings,       \* calls of ForceSetCursors
    noticeLost      \* history: a full cmdChan dropped a fetch notice, or the self-healer's
                    \* store undid one

markVars == <<onChain, commands, marks, pendingHeight, store, publishing, shown, stalled,
              audit, scheduledTo, inMemory, resumedAt, forcings, noticeLost>>

NoAudit == [pair |-> "idle", read |-> 0]

\* Init and LoadInitialState: the cursor of the database, no head yet.  The database may
\* be ahead of a local chain that was started anew.
MarkInit ==
    /\ onChain = 1
    /\ commands = <<>>
    /\ resumedAt \in MarkHeights
    /\ marks = [latest |-> 0, fetched |-> 0, synced |-> resumedAt]
    /\ pendingHeight = 0
    /\ store = NoStore
    /\ publishing = FALSE
    /\ shown = marks
    /\ stalled = FALSE
    /\ audit = NoAudit
    /\ scheduledTo = resumedAt
    /\ inMemory = resumedAt
    /\ forcings = 0
    /\ noticeLost = FALSE

(***************************************************************************)
(* The producers; Dispatch drops a command that finds cmdChan full.        *)
(***************************************************************************)
Accepted(c) == Len(commands) < MarkCmdCap /\ commands' = Append(commands, c)

Lost == Len(commands) = MarkCmdCap /\ UNCHANGED commands

HeadGrows ==
    /\ onChain < MarkHeight
    /\ onChain' = onChain + 1
    /\ UNCHANGED <<commands, marks, pendingHeight, store, publishing, shown, stalled,
                   audit, scheduledTo, inMemory, resumedAt, forcings, noticeLost>>

\* UpdateChainHead with the head of a node that may lag.
UpdateChainHead(h) ==
    /\ h <= onChain
    /\ Accepted([type |-> "height", h |-> h])
    /\ UNCHANGED <<onChain, marks, pendingHeight, store, publishing, shown, stalled,
                   audit, scheduledTo, inMemory, resumedAt, forcings, noticeLost>>

\* Schedule accepts heights up to the published head.
ScheduleUpTo(h) ==
    /\ scheduledTo < h /\ h <= shown.latest
    /\ scheduledTo' = h
    /\ UNCHANGED <<onChain, commands, marks, pendingHeight, store, publishing, shown,
                   stalled, audit, inMemory, resumedAt, forcings, noticeLost>>

\* Mutant of NotifyFetched: the block goes on without a notice.
NotifyFetchedNot(h) ==
    /\ h <= scheduledTo /\ h <= onChain
    /\ inMemory' = IF h > inMemory THEN h ELSE inMemory
    /\ UNCHANGED <<onChain, commands, marks, pendingHeight, store, publishing, shown,
                   stalled, audit, scheduledTo, resumedAt, forcings, noticeLost>>

\* A worker has a block: CmdNotifyFetched, sent before the block goes on.
NotifyFetched(h) ==
    /\ h <= scheduledTo /\ h <= onChain
    /\ \/ Accepted([type |-> "fetched", h |-> h]) /\ UNCHANGED noticeLost
       \/ Lost /\ noticeLost' = TRUE
    /\ inMemory' = IF h > inMemory THEN h ELSE inMemory
    /\ UNCHANGED <<onChain, marks, pendingHeight, store, publishing, shown, stalled,
                   audit, scheduledTo, resumedAt, forcings>>

\* The writer committed a block: AdvanceDBCursor, or CmdCommitDisk.
CommitDisk(h) ==
    /\ h <= inMemory /\ h <= onChain
    /\ Accepted([type |-> "disk", h |-> h])
    /\ UNCHANGED <<onChain, marks, pendingHeight, store, publishing, shown, stalled,
                   audit, scheduledTo, inMemory, resumedAt, forcings, noticeLost>>

\* A rollback to an ancestor: CmdResetCursor.
ResetCursor(h) ==
    /\ h < shown.synced
    /\ Accepted([type |-> "reset", h |-> h])
    /\ UNCHANGED <<onChain, marks, pendingHeight, store, publishing, shown, stalled,
                   audit, scheduledTo, inMemory, resumedAt, forcings, noticeLost>>

(***************************************************************************)
(* The loop                                                                *)
(***************************************************************************)
LoopIdle == store = NoStore /\ ~publishing

\* A watermark moves up only; a reset is the exception.
Raises(mark, h) == h > marks[mark]

\* The handler of a command compares; a new head waits for the merge ticker.
HandleCommand ==
    /\ LoopIdle
    /\ commands # <<>>
    /\ commands' = Tail(commands)
    /\ publishing' = TRUE
    /\ LET c == Head(commands) IN
       \/ /\ c.type = "height"
          /\ pendingHeight' = IF Raises("latest", c.h) THEN c.h ELSE pendingHeight
          /\ UNCHANGED store
       \/ /\ c.type = "fetched"
          /\ store' = IF Raises("fetched", c.h) THEN [mark |-> "fetched", h |-> c.h] ELSE store
          /\ UNCHANGED pendingHeight
       \/ /\ c.type = "disk"
          /\ store' = IF Raises("synced", c.h) THEN [mark |-> "synced", h |-> c.h] ELSE store
          /\ UNCHANGED pendingHeight
       \/ /\ c.type = "reset"
          /\ store' = [mark |-> "synced", h |-> c.h]
          /\ UNCHANGED pendingHeight
    /\ UNCHANGED <<onChain, marks, shown, stalled, audit, scheduledTo, inMemory,
                   resumedAt, forcings, noticeLost>>

\* The merge ticker; it does not publish.
FlushPendingHeight ==
    /\ LoopIdle
    /\ pendingHeight > 0
    /\ store' = IF Raises("latest", pendingHeight)
                THEN [mark |-> "latest", h |-> pendingHeight] ELSE NoStore
    /\ pendingHeight' = 0
    /\ UNCHANGED <<onChain, commands, marks, publishing, shown, stalled, audit,
                   scheduledTo, inMemory, resumedAt, forcings, noticeLost>>

StoreMark ==
    /\ store # NoStore
    /\ marks' = [marks EXCEPT ![store.mark] = store.h]
    /\ store' = NoStore
    /\ UNCHANGED <<onChain, commands, pendingHeight, publishing, shown, stalled,
                   audit, scheduledTo, inMemory, resumedAt, forcings, noticeLost>>

\* updateProgressAndSnapshot copies the state under o.mu.
UpdateSnapshot ==
    /\ store = NoStore /\ publishing
    /\ audit = NoAudit
    /\ shown' = marks
    /\ publishing' = FALSE
    /\ UNCHANGED <<onChain, commands, marks, pendingHeight, store, stalled, audit,
                   scheduledTo, inMemory, resumedAt, forcings, noticeLost>>

\* The decision ticker's evaluateSystemState: a crowded pipeline or a wide safety
\* buffer overwrites the self-healer's alarm, which otherwise stays.
EvaluateSystemState(crowded) ==
    /\ LoopIdle
    /\ stalled' = (stalled /\ ~crowded)
    /\ UNCHANGED <<onChain, commands, marks, pendingHeight, store, publishing, shown, audit,
                   scheduledTo, inMemory, resumedAt, forcings, noticeLost>>

(***************************************************************************)
(* The self-healer and ForceSetCursors, which exclude each other by o.mu   *)
(***************************************************************************)
BeginAudit ==
    /\ audit = NoAudit
    /\ audit' = [pair |-> "memory", read |-> marks.fetched]
    /\ UNCHANGED <<onChain, commands, marks, pendingHeight, store, publishing, shown,
                   stalled, scheduledTo, inMemory, resumedAt, forcings,
                   noticeLost>>

\* FetchedHeight, read before, is behind the cursor: set it to the cursor.
AuditMemory ==
    /\ audit.pair = "memory"
    /\ marks' = IF audit.read < marks.synced THEN [marks EXCEPT !.fetched = marks.synced]
                ELSE marks
    /\ noticeLost' = (noticeLost \/ marks'.fetched < marks.fetched)
    /\ audit' = [pair |-> "chain", read |-> marks.latest]
    /\ UNCHANGED <<onChain, commands, pendingHeight, store, publishing, shown, stalled,
                   scheduledTo, inMemory, resumedAt, forcings>>

\* LatestHeight, read before, is behind the cursor: the chain was reset.
AuditChain ==
    /\ audit.pair = "chain"
    /\ stalled' = (stalled \/ (0 < audit.read /\ audit.read < marks.synced))
    /\ audit' = NoAudit
    /\ UNCHANGED <<onChain, commands, marks, pendingHeight, store, publishing, shown,
                   scheduledTo, inMemory, resumedAt, forcings, noticeLost>>

\* ForceSetCursors(h), called by the guard and the watchdog: all marks and the
\* snapshot; pendingHeightUpdate and the commands on their way stay.
ForceMarks(h) ==
    /\ audit = NoAudit
    /\ forcings < MaxForced
    /\ h <= onChain
    /\ forcings' = forcings + 1
    /\ marks' = [latest |-> h, fetched |-> h, synced |-> h]
    /\ shown' = marks'
    /\ UNCHANGED <<onChain, commands, pendingHeight, store, publishing, stalled,
                   audit, scheduledTo, inMemory, resumedAt, noticeLost>>

MarkNext ==
    \/ HeadGrows \/ HandleCommand \/ FlushPendingHeight \/ StoreMark \/ UpdateSnapshot
    \/ \E h \in 1..MarkHeight :
          \/ UpdateChainHead(h) \/ ScheduleUpTo(h) \/ NotifyFetched(h) \/ CommitDisk(h)
          \/ ForceMarks(h)
    \/ \E h \in MarkHeights : ResetCursor(h)
    \/ \E crowded \in BOOLEAN : EvaluateSystemState(crowded)
    \/ BeginAudit \/ AuditMemory \/ AuditChain

MarkSpec == MarkInit /\ [][MarkNext]_markVars

(***************************************************************************)
(* Properties                                                              *)
(***************************************************************************)
MarkTypeOK ==
    /\ onChain \in MarkHeights
    /\ commands \in Seq([type : {"height", "fetched", "disk", "reset"}, h : MarkHeights])
    /\ Len(commands) <= MarkCmdCap
    /\ marks \in [latest : MarkHeights, fetched : MarkHeights, synced : MarkHeights]
    /\ pendingHeight \in MarkHeights
    /\ store \in [mark : {"none", "latest", "fetched", "synced"}, h : MarkHeights]
    /\ publishing \in BOOLEAN
    /\ shown \in [latest : MarkHeights, fetched : MarkHeights, synced : MarkHeights]
    /\ stalled \in BOOLEAN
    /\ audit \in [pair : {"idle", "memory", "chain"}, read : MarkHeights]
    /\ scheduledTo \in MarkHeights /\ inMemory \in MarkHeights /\ resumedAt \in MarkHeights
    /\ forcings \in 0..MaxForced
    /\ noticeLost \in BOOLEAN

\* Disk behind memory behind chain, in every published snapshot: the cursor is at most
\* where the database was resumed, or at most the head, and at most the fetched height
\* unless a fetch notice was dropped.  So evaluateEcoMode's unsigned lag wraps, and the
\* self-healer sees an inversion, only while the cursor is at or below the one found in the
\* database (no head yet, or a chain that was reset below it) or after ForceSetCursors,
\* however the loop, the merge ticker and the healer interleave.
WatermarksOrdered ==
    forcings = 0 =>
        /\ shown.synced <= shown.latest \/ shown.synced <= resumedAt
        /\ shown.synced <= shown.fetched \/ shown.synced <= resumedAt \/ noticeLost

=============================================================================
