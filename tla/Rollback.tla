------------------------------ MODULE Rollback ------------------------------
(***************************************************************************)
(* Reorganisations of the chain and the stored blocks.  The single-block   *)
(* path of the processor (processor_block_part1.go) compares a block's     *)
(* parent hash with the block before it, from a cache or from the blocks   *)
(* table; the batch path (processor_batch.go) does not, and leaves the     *)
(* cache alone.  HandleDeepReorg (processor_reorg.go) searches for the     *)
(* last stored block the chain still has, one height at a time, and rolls  *)
(* back to it in a transaction.  Nothing in the repository calls it: it is *)
(* taken to be called for a block that reports a reorg, with the writer    *)
(* stopped, as its comment asks.                                           *)
(*                                                                         *)
(* A block is the number of the fork it was mined on: two blocks of one    *)
(* height are equal exactly when their hashes are.  The writer stores at   *)
(* once here; PersistPipeline has its queues.                              *)
(***************************************************************************)
EXTENDS Integers

CONSTANTS
    ReorgHeight,    \* bound: the last height
    MaxReorgs,      \* bound: reorganisations of the chain
    MaxSkips,       \* bound: heights the sequencer skips
    ChainOne        \* the indexed chain has the id 1

ASSUME RollbackAssumption ==
    /\ ReorgHeight \in Nat \ {0} /\ MaxReorgs \in Nat /\ MaxSkips \in Nat
    /\ ChainOne \in BOOLEAN

BlockHeights == 1..ReorgHeight
Forks == 1..(MaxReorgs + 1)

VARIABLES
    tip,            \* the head of the chain
    branch,         \* the fork each height of the chain was mined on
    table,          \* the blocks table: hash and parent_hash of a height, 0 for none
    synced,         \* sync_checkpoints.last_synced_block
    expected,       \* the sequencer's cursor
    cached,         \* lastBlockNum and lastBlockHash of the processor
    walk,           \* FindCommonAncestor: step, current height, the heights to delete
    moved,          \* history: the chain was reorganised since the walk began
    skips           \* heights skipped so far

reorgVars == <<tip, branch, table, synced, expected, cached, walk, moved, skips>>

NoRow == [hash |-> 0, parent |-> 0]
NoCache == [h |-> 0, hash |-> 0]
NoWalk == [step |-> "idle", at |-> 0, delete |-> {}]

ReorgInit ==
    /\ tip = 1
    /\ branch = [h \in BlockHeights |-> 1]
    /\ table = [h \in BlockHeights |-> NoRow]
    /\ synced = 0
    /\ expected = 1
    /\ cached = NoCache
    /\ walk = NoWalk
    /\ moved = FALSE
    /\ skips = 0

InTable == {h \in BlockHeights : table[h].hash # 0}

(***************************************************************************)
(* The chain                                                               *)
(***************************************************************************)
TipAdvances ==
    /\ tip < ReorgHeight
    /\ tip' = tip + 1
    /\ UNCHANGED <<branch, table, synced, expected, cached, walk, moved, skips>>

\* Everything from height f on is mined anew, up to height h at first.
TipReorganises(f, h) ==
    /\ branch[ReorgHeight] \in Forks \ {MaxReorgs + 1}
    /\ f <= h /\ h <= tip
    /\ branch' = [g \in BlockHeights |-> IF g < f THEN branch[g] ELSE branch[ReorgHeight] + 1]
    /\ tip' = h
    /\ moved' = (walk.step # "idle")
    /\ UNCHANGED <<table, synced, expected, cached, walk, skips>>

(***************************************************************************)
(* Processing a block                                                      *)
(***************************************************************************)
\* handleReorgReadOnly: the cache if it holds the height before, else the table, where a
\* missing row passes.
ParentFits(h) ==
    LET known == IF cached.h = h - 1 THEN cached.hash ELSE table[h - 1].hash IN
    h > 1 => known \in {0, branch[h - 1]}

Ready == walk.step = "idle" /\ expected <= tip

\* The insert does nothing when the height has a row; the checkpoint follows.
StoreRow(h) ==
    /\ table' = [table EXCEPT ![h] =
                   IF @ # NoRow THEN @
                   ELSE [hash |-> branch[h], parent |-> IF h = 1 THEN 0 ELSE branch[h - 1]]]
    /\ synced' = h
    /\ expected' = h + 1

\* A query that fails passes for a missing row.
StoreSingle(queried) ==
    /\ Ready
    /\ ParentFits(expected) \/ (~queried /\ cached.h # expected - 1)
    /\ StoreRow(expected)
    /\ cached' = [h |-> expected, hash |-> branch[expected]]
    /\ UNCHANGED <<tip, branch, walk, moved, skips>>

\* No check, and the cache stays where it was.
StoreBatched ==
    /\ Ready
    /\ StoreRow(expected)
    /\ UNCHANGED <<tip, branch, cached, walk, moved, skips>>

\* A stall makes the sequencer step over a height.
StepOver ==
    /\ Ready
    /\ skips < MaxSkips
    /\ skips' = skips + 1
    /\ expected' = expected + 1
    /\ UNCHANGED <<tip, branch, table, synced, cached, walk, moved>>

\* The process ends at any step and resumes behind the checkpoint.
Reboot ==
    /\ expected' = synced + 1
    /\ cached' = NoCache
    /\ walk' = NoWalk
    /\ moved' = FALSE
    /\ UNCHANGED <<tip, branch, table, synced, skips>>

(***************************************************************************)
(* HandleDeepReorg                                                         *)
(***************************************************************************)
FindCommonAncestor ==
    /\ Ready
    /\ ~ParentFits(expected)
    /\ walk' = [NoWalk EXCEPT !.step = "walk", !.at = expected]
    /\ UNCHANGED <<tip, branch, table, synced, expected, cached, moved, skips>>

\* Mutant of IsCommon: any stored row is taken for a common block.
IsCommonIfStored(h) == table[h].hash # 0

IsCommon(h) == table[h].hash = branch[h]

\* One height: ask the node, then the table.
CompareHeight ==
    /\ walk.step = "walk"
    /\ walk.at > 0 /\ walk.at <= tip
    /\ walk' = IF IsCommon(walk.at)
               THEN [walk EXCEPT !.step = "found"]
               ELSE [walk EXCEPT !.at = @ - 1, !.delete = @ \cup {walk.at}]
    /\ UNCHANGED <<tip, branch, table, synced, expected, cached, moved, skips>>

\* The node or the table fails, or there is no common block.
WalkFails ==
    /\ walk.step \in {"walk", "found"}
    /\ walk' = NoWalk
    /\ moved' = FALSE
    /\ UNCHANGED <<tip, branch, table, synced, expected, cached, skips>>

\* Delete from the lowest height that differed; the checkpoint of chain 1, whatever chain
\* is indexed, goes to the ancestor.
RollBack ==
    /\ walk.step = "found"
    /\ table' = [h \in BlockHeights |->
                   IF \E d \in walk.delete : d <= h THEN NoRow ELSE table[h]]
    /\ synced' = IF ChainOne THEN walk.at ELSE synced
    /\ walk' = [walk EXCEPT !.step = "done"]
    /\ UNCHANGED <<tip, branch, expected, cached, moved, skips>>

\* The caller resumes behind the ancestor; the processor's cache is left alone.
ResumeAfterReorg ==
    /\ walk.step = "done"
    /\ expected' = walk.at + 1
    /\ walk' = NoWalk
    /\ moved' = FALSE
    /\ UNCHANGED <<tip, branch, table, synced, cached, skips>>

ReorgNext ==
    \/ TipAdvances \/ StoreBatched \/ StepOver \/ Reboot
    \/ \E queried \in BOOLEAN : StoreSingle(queried)
    \/ \E f, h \in BlockHeights : TipReorganises(f, h)
    \/ FindCommonAncestor \/ CompareHeight \/ WalkFails \/ RollBack \/ ResumeAfterReorg

ReorgSpec == ReorgInit /\ [][ReorgNext]_reorgVars

(***************************************************************************)
(* Properties                                                              *)
(***************************************************************************)
ReorgTypeOK ==
    /\ tip \in BlockHeights
    /\ branch \in [BlockHeights -> Forks]
    /\ table \in [BlockHeights -> [hash : 0..(MaxReorgs + 1), parent : 0..(MaxReorgs + 1)]]
    /\ synced \in 0..ReorgHeight
    /\ expected \in 1..(ReorgHeight + 1)
    /\ cached \in [h : 0..ReorgHeight, hash : 0..(MaxReorgs + 1)]
    /\ walk \in [step : {"idle", "walk", "found", "done"}, at : 0..ReorgHeight,
                 delete : SUBSET BlockHeights]
    /\ moved \in BOOLEAN
    /\ skips \in 0..MaxSkips

\* The row of g does not continue the row before it.
IsSeam(g) == g \notin InTable \/ table[g].parent # table[g - 1].hash

\* A rollback removes every block the chain no longer has, if the chain was not
\* reorganised during the search.  It compares no height below the first common one, so
\* an old block may stay under a seam: a height that was skipped, or a row stored by the
\* batch path, or kept by the insert, on top of a row of another fork.
RollbackAgrees ==
    (walk.step = "done" /\ ~moved) =>
        \A h \in InTable :
           /\ h <= walk.at
           /\ table[h].hash = branch[h] \/ \E g \in (h + 1)..walk.at : IsSeam(g)

=============================================================================
