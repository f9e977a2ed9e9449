------------------------------ MODULE DataGuard -----------------------------
(***************************************************************************)
(* Aligning the database with the chain.  The consistency guard            *)
(* (consistency.go) compares the head a node reports with the highest      *)
(* stored block, prunes what is stored above it and, in demo mode, jumps   *)
(* over a large gap.  It runs in goroutines of the lazy manager (on every  *)
(* wake-up and once a minute, lazy_manager.go) beside the writer, and at   *)
(* start-up after AlignInfrastructure (integrity.go), which does the same  *)
(* in every mode.  Then the start block is read from the checkpoint, and   *)
(* on a local chain AlignAnvilData (main_services.go) prunes once more, in *)
(* two statements of their own.  The deadlock watchdog                     *)
(* (watchdog_deadlock.go) forces the checkpoint to the head when both the  *)
(* checkpoint and the sequencer are far behind, while the writer stands    *)
(* still or is about to move again.                                        *)
(*                                                                         *)
(* A block is its height: hashes and reorganisations are Rollback's.  The  *)
(* writer's queues are PersistPipeline's; here a flush is one step that    *)
(* stores its last block, with the checkpoint, and the heights the         *)
(* pipeline leaves without a row are passed over before it.  The           *)
(* orchestrator, whose cursors a jump also sets, is left out: nothing here *)
(* reads them.                                                             *)
(***************************************************************************)
EXTENDS Integers, FiniteSets, FiniteSetsExt

CONSTANTS
    MaxHeight,      \* bound: the last height
    LeapGap,        \* gap over which the guard jumps (1000)
    ResetGap,       \* gap over which it panics as well (100000)
    TearGap,        \* gap over which the watchdog intervenes (1000)
    DemoMode,       \* ConsistencyGuard.demoMode
    LocalChain,     \* the chain is a local one (chain 31337)
    MaxLag,         \* bound: blocks by which the head a node reports may lag
    Checkers,       \* goroutines of the guard
    MaxRestarts,    \* bound: restarts
    MaxResets       \* bound: resets of a local chain

ASSUME DataGuardAssumption ==
    /\ MaxHeight \in Nat \ {0}
    /\ LeapGap \in Nat \ {0} /\ ResetGap \in Nat
    /\ LeapGap <= ResetGap /\ TearGap \in Nat
    /\ DemoMode \in BOOLEAN /\ LocalChain \in BOOLEAN /\ MaxLag \in Nat
    /\ MaxRestarts \in Nat /\ MaxResets \in Nat

GuardHeights == 1..MaxHeight

VARIABLES
    head,           \* the head of the chain
    resets,         \* resets of the chain so far
    blocks,         \* the heights in the blocks table
    lastSynced,     \* sync_checkpoints.last_synced_block
    nextIndexed,    \* the sequencer's cursor, in memory
    phase,          \* the process: "down", "boot", "cut" or "mark" (AlignAnvilData), "up"
    cutAt,          \* the head AlignAnvilData cut the blocks at
    restarts,       \* restarts so far
    check,          \* per goroutine: step of PerformLinearityCheck, head and dbMax read
    tear,           \* the watchdog's intervention: step, head and checkpoint it read
    pruned,         \* history: heights a prune deleted
    leapt,          \* history: heights a jump passed over
    omitted         \* history: heights the pipeline passed without a row

chainVars == <<head, resets>>
tableVars == <<blocks, lastSynced, pruned, leapt, omitted>>
procVars == <<nextIndexed, phase, cutAt, restarts>>
guardVars == <<chainVars, tableVars, procVars, check, tear>>

NoCheck == [step |-> "idle", head |-> 0, max |-> 0]
NoTear == [step |-> "idle", head |-> 0, synced |-> 0]

GuardInit ==
    /\ head = 1 /\ resets = 0
    /\ blocks = {}
    /\ lastSynced = 0
    /\ nextIndexed = 1
    /\ phase = "up" /\ cutAt = 0 /\ restarts = 0
    /\ check = [k \in Checkers |-> NoCheck]
    /\ tear = NoTear
    /\ pruned = {} /\ leapt = {} /\ omitted = {}

Alive == phase # "down"

\* GetMaxStoredBlock.
DbMax == Max(blocks \cup {0})

\* The head a node of the pool reports may be an old one.
Reported(r) == r \in 0..head /\ head - r <= MaxLag

(***************************************************************************)
(* The chain, and the writer                                               *)
(***************************************************************************)
ChainExtends ==
    /\ head < MaxHeight
    /\ head' = head + 1
    /\ UNCHANGED <<resets, tableVars, procVars, check, tear>>

\* A local chain is started anew, or from an older state.
ChainResets(h) ==
    /\ resets < MaxResets
    /\ h < head
    /\ head' = h
    /\ resets' = resets + 1
    /\ UNCHANGED <<tableVars, procVars, check, tear>>

\* A block and its checkpoint in one transaction; the checkpoint is the block's height,
\* whatever lies below it.
StoreNext ==
    /\ phase = "up"
    /\ nextIndexed <= head
    /\ blocks' = blocks \cup {nextIndexed}
    /\ lastSynced' = nextIndexed
    /\ nextIndexed' = nextIndexed + 1
    /\ UNCHANGED <<chainVars, phase, cutAt, restarts, check, tear, pruned, leapt, omitted>>

\* A height without a row: ProcessBatch passes over a block without a body, the sequencer
\* steps over a height it gives up, Dispatch drops a task.  The checkpoint of the next
\* flush covers it.
PassNext ==
    /\ phase = "up"
    /\ nextIndexed <= head
    /\ omitted' = omitted \cup {nextIndexed}
    /\ nextIndexed' = nextIndexed + 1
    /\ UNCHANGED <<chainVars, blocks, lastSynced, pruned, leapt, phase, cutAt, restarts,
                   check, tear>>

(***************************************************************************)
(* ConsistencyGuard                                                        *)
(***************************************************************************)
\* Mutant of Above: the head itself is deleted too.
AboveOrAt(r) == {h \in blocks : h >= r}

Above(r) == {h \in blocks : h > r}

\* PruneFutureData: blocks and checkpoint in one transaction, memory left alone.
PruneFutureData(r) ==
    /\ blocks' = blocks \ Above(r)
    /\ lastSynced' = r
    /\ pruned' = pruned \cup {h \in blocks : h > r}
    /\ UNCHANGED <<leapt, omitted>>

\* UpdateSyncCursor(r - 1): the checkpoint alone moves.
LeapTo(r, max) ==
    /\ lastSynced' = r - 1
    /\ leapt' = leapt \cup ((max + 1)..(r - 1))
    /\ UNCHANGED <<blocks, pruned, omitted>>

ReadChainHead(k, r) ==
    /\ Alive
    /\ check[k].step = "idle"
    /\ Reported(r)
    /\ check' = [check EXCEPT ![k] = [NoCheck EXCEPT !.step = "head", !.head = r]]
    /\ UNCHANGED <<chainVars, tableVars, procVars, tear>>

ReadDbMax(k) ==
    /\ Alive
    /\ check[k].step = "head"
    /\ check' = [check EXCEPT ![k] = [@ EXCEPT !.step = "act", !.max = DbMax]]
    /\ UNCHANGED <<chainVars, tableVars, procVars, tear>>

\* Act on the two numbers read: prune, jump, or nothing.  A transaction that fails ends
\* the check.
Align(k) ==
    /\ Alive
    /\ check[k].step = "act"
    /\ LET r == check[k].head
           max == check[k].max IN
       \/ max > r /\ PruneFutureData(r)
       \/ DemoMode /\ r - max > LeapGap /\ r - max <= ResetGap /\ LeapTo(r, max)
       \/ UNCHANGED tableVars
    /\ check' = [check EXCEPT ![k] = NoCheck]
    /\ UNCHANGED <<chainVars, procVars, tear>>

\* The process ends: everything in memory is lost.
GoDown ==
    /\ phase' = "down"
    /\ cutAt' = 0
    /\ check' = [k \in Checkers |-> NoCheck]
    /\ tear' = NoTear
    /\ nextIndexed' = 1
    /\ UNCHANGED restarts

\* A gap that large is taken for a database that was cleared: jump, then panic.
ResetEngine(k) ==
    /\ Alive
    /\ check[k].step = "act"
    /\ DemoMode /\ check[k].head - check[k].max > ResetGap
    /\ LeapTo(check[k].head, check[k].max)
    /\ GoDown
    /\ UNCHANGED chainVars

(***************************************************************************)
(* The deadlock watchdog                                                   *)
(***************************************************************************)
\* The head, the checkpoint and the sequencer's cursor; a tear is a gap in both.
SeeTear(r) ==
    /\ phase = "up"
    /\ tear.step = "idle"
    /\ Reported(r)
    /\ r - lastSynced > TearGap
    /\ nextIndexed < r - TearGap
    /\ tear' = [step |-> "force", head |-> r, synced |-> lastSynced]
    /\ UNCHANGED <<chainVars, tableVars, procVars, check>>

\* UpdateSyncCursor(rpcHeight - 1), on the numbers read; it may fail.
ForceCheckpoint(ok) ==
    /\ tear.step = "force"
    /\ tear' = IF ok THEN [tear EXCEPT !.step = "reset"] ELSE NoTear
    /\ IF ok THEN LeapTo(tear.head, tear.synced) ELSE UNCHANGED tableVars
    /\ UNCHANGED <<chainVars, procVars, check>>

\* ResetExpectedBlock(rpcHeight).  The refetch of the range below the new cursor that
\* follows is discarded by the sequencer and stores nothing.
ResetCursorToHead ==
    /\ tear.step = "reset"
    /\ nextIndexed' = tear.head
    /\ tear' = NoTear
    /\ UNCHANGED <<chainVars, tableVars, phase, cutAt, restarts, check>>

(***************************************************************************)
(* Restart.  The guard's check at start-up is one of the checks above.     *)
(***************************************************************************)
Crash ==
    /\ Alive
    /\ restarts < MaxRestarts
    /\ GoDown
    /\ UNCHANGED <<chainVars, tableVars>>

\* AlignInfrastructure; its errors are only logged.
Boot(r) ==
    /\ phase = "down"
    /\ restarts < MaxRestarts
    /\ Reported(r)
    /\ restarts' = restarts + 1
    /\ phase' = "boot"
    /\ \/ DbMax > r /\ PruneFutureData(r)
       \/ r > DbMax + LeapGap /\ LeapTo(r, DbMax)
       \/ UNCHANGED tableVars
    /\ UNCHANGED <<chainVars, nextIndexed, cutAt, check, tear>>

\* getStartBlockFromCheckpoint; the services of a local chain begin with AlignAnvilData.
ReadStartBlock ==
    /\ phase = "boot"
    /\ nextIndexed' = lastSynced + 1
    /\ phase' = IF LocalChain THEN "cut" ELSE "up"
    /\ UNCHANGED <<chainVars, tableVars, cutAt, restarts, check, tear>>

\* AlignAnvilData: delete the blocks above the head, in a statement of its own.
CutBlocks(r) ==
    /\ phase = "cut"
    /\ Reported(r)
    /\ DbMax > r
    /\ blocks' = blocks \ Above(r)
    /\ pruned' = pruned \cup {h \in blocks : h > r}
    /\ phase' = "mark"
    /\ cutAt' = r
    /\ UNCHANGED <<chainVars, lastSynced, leapt, omitted, nextIndexed, restarts, check, tear>>

\* Nothing to cut, or an error.
CutNothing ==
    /\ phase = "cut"
    /\ phase' = "up"
    /\ UNCHANGED <<chainVars, tableVars, nextIndexed, cutAt, restarts, check, tear>>

\* The checkpoint follows in a second statement, which may fail; the start block that was
\* read before stays.
MarkCut(ok) ==
    /\ phase = "mark"
    /\ lastSynced' = IF ok THEN cutAt ELSE lastSynced
    /\ phase' = "up"
    /\ cutAt' = 0
    /\ UNCHANGED <<chainVars, blocks, pruned, leapt, omitted, nextIndexed, restarts, check, tear>>

GuardNext ==
    \/ ChainExtends
    \/ \E h \in 0..MaxHeight : ChainResets(h)
    \/ StoreNext \/ PassNext
    \/ \E k \in Checkers : \/ \E r \in 0..MaxHeight : ReadChainHead(k, r)
                           \/ ReadDbMax(k) \/ Align(k) \/ ResetEngine(k)
    \/ \E r \in 0..MaxHeight : SeeTear(r)
    \/ \E ok \in BOOLEAN : ForceCheckpoint(ok)
    \/ ResetCursorToHead
    \/ Crash
    \/ \E r \in 0..MaxHeight : Boot(r) \/ CutBlocks(r)
    \/ ReadStartBlock \/ CutNothing
    \/ \E ok \in BOOLEAN : MarkCut(ok)

GuardSpec == GuardInit /\ [][GuardNext]_guardVars

(***************************************************************************)
(* Properties                                                              *)
(***************************************************************************)
GuardTypeOK ==
    /\ head \in 0..MaxHeight /\ resets \in 0..MaxResets
    /\ blocks \in SUBSET GuardHeights
    /\ lastSynced \in 0..MaxHeight
    /\ nextIndexed \in 1..(MaxHeight + 1)
    /\ phase \in {"down", "boot", "cut", "mark", "up"} /\ cutAt \in 0..MaxHeight
    /\ restarts \in 0..MaxRestarts
    /\ check \in [Checkers -> [step : {"idle", "head", "act"}, head : 0..MaxHeight,
                               max : 0..MaxHeight]]
    /\ tear \in [step : {"idle", "force", "reset"}, head : 0..MaxHeight,
                 synced : 0..MaxHeight]
    /\ pruned \in SUBSET GuardHeights /\ leapt \in SUBSET GuardHeights
    /\ omitted \in SUBSET GuardHeights

\* Every height up to the checkpoint, where a restart goes on, is stored, or the pipeline
\* itself passed it without a row (PassNext), or the guard deleted it because some node
\* reported a head below it, or a jump of the guard or of the watchdog passed it over.  The
\* jumps are holes and stay holes; what is said is that none of the numbers read early and
\* written late by checks, the watchdog, a restart and the writer puts the checkpoint above
\* a height that none of these accounts for.
CheckpointHolesExplained ==
    \A h \in 1..lastSynced : h \in blocks \cup pruned \cup leapt \cup omitted

=============================================================================
