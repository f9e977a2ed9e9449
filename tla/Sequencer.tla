----------------------------- MODULE Sequencer -----------------------------
(***************************************************************************)
(* The block sequencer (internal/engine/sequencer_*.go).                   *)
(*                                                                         *)
(* Fetcher workers put blocks into a channel in any order.  The sequencer  *)
(* goroutine (Run) collects them into sorted batches, hands contiguous     *)
(* blocks to the processor and keeps early blocks in a map.  Three other   *)
(* parties touch its state: the 30 s stall ticker of the same goroutine,   *)
(* the deadlock watchdog goroutine, and the supervisor that restarts Run   *)
(* after an error or a recovered panic.                                    *)
(*                                                                         *)
(* A block is its height and a kind: "full" has the block body, "bare" has *)
(* none (the fetcher downloads a body only for blocks with logs and for    *)
(* the last block of a job), "err" is a failed fetch.                      *)
(***************************************************************************)
EXTENDS Integers, Sequences, FiniteSets

CONSTANTS
    StartBlock,       \* first height to index
    MaxBlock,         \* bound: the highest height the model reaches
    BufferLimit,      \* enforceBufferLimit: 1000, or 50000 on chain 31337
    HighWater,        \* buffer size above which the fetcher is paused (2000)
    LowWater,         \* buffer size below which it is resumed (200)
    GapFillMax,       \* refetch attempts before a gap is bypassed (3)
    MaxBatch,         \* collectBatch: at most 100 blocks
    MaxInflight,      \* bound: copies of one height pending in the fetcher
    GapThreshold,     \* the watchdog only jumps over more than this (1000)
    CanReorg,         \* chainID # 31337: ProcessBlock may report a reorg
    HydrateMayFail,   \* the RPC that downloads a missing body may fail
    WatchdogEnabled   \* the deadlock watchdog is running

ASSUME SequencerAssumption ==
    /\ StartBlock \in Nat
    /\ MaxBlock \in Nat
    /\ StartBlock <= MaxBlock
    /\ BufferLimit \in Nat \ {0}
    /\ HighWater \in Nat
    /\ LowWater \in Nat
    /\ GapFillMax \in Nat
    /\ MaxBatch \in Nat \ {0}
    /\ MaxInflight \in Nat \ {0}
    /\ GapThreshold \in Nat
    /\ CanReorg \in BOOLEAN
    /\ HydrateMayFail \in BOOLEAN
    /\ WatchdogEnabled \in BOOLEAN

Heights == StartBlock..MaxBlock
Cursors == StartBlock..(MaxBlock + 1)
Item == [num : Heights, kind : {"full", "bare", "err"}]
None == -1

VARIABLES
    expectedBlock,    \* next height to hand over
    buffer,           \* height -> "none" (absent), "full" or "bare"
    gapFillCount,     \* consecutive refetch attempts
    idle,             \* age of lastProgressAt: 0 fresh, 1 over 55 s, 2 over 120 s
    muLeaked,         \* s.mu was left locked by a panic
    fetcherPaused,    \* Fetcher.paused
    pc,               \* where the Run goroutine is
    batch,            \* the batch being collected, later its unhandled rest
    seqBatch,         \* phase 1 result: sequential blocks and nextExpected
    stall,            \* handleStall's copies of expectedBlock and minBuffered
    wd,               \* the watchdog: its step and the RPC height it read
    inflight,         \* height -> copies the fetcher will still deliver
    handed,           \* history: heights given to the processor with a body
    hollow,           \* history: heights ProcessBatch passed over (no body)
    skipped,          \* history: heights a skip stepped over and its log line names
    astray            \* history: heights a stall skip stepped over, logging another

sharedVars == <<expectedBlock, buffer, gapFillCount, idle, muLeaked, fetcherPaused>>
historyVars == <<handed, hollow, skipped, astray>>
vars == <<sharedVars, pc, batch, seqBatch, stall, wd, inflight, historyVars>>

(***************************************************************************)
(* Helpers                                                                 *)
(***************************************************************************)
Buffered(buf) == {h \in Heights : buf[h] # "none"}

\* len(s.buffer)
GetBufferSize(buf) == Cardinality(Buffered(buf))

\* Mutant of IsMinBuffered: the comparison is swapped.
IsMaxBuffered(m, buf) ==
    m \in Buffered(buf) /\ \A h \in Buffered(buf) : m >= h

IsMinBuffered(m, buf) ==
    m \in Buffered(buf) /\ \A h \in Buffered(buf) : m <= h

EmptyBuffer == [h \in Heights |-> "none"]
NoSeqBatch == [full |-> {}, bare |-> {}, next |-> StartBlock]
NoStall == [exp |-> StartBlock, min |-> None]

\* s.mu can be taken: critical sections are single actions of this module, so
\* it is free between actions unless a panic leaked it.
MuFree == ~muLeaked

\* The end of processBufferContinuationsLocked: a low buffer resumes the fetcher.
ResumeIfLow(buf, paused) == paused /\ GetBufferSize(buf) >= LowWater

\* The fetcher was asked for the heights a..b once more.
Refetched(a, b) ==
    [h \in Heights |-> IF h \in a..b /\ inflight[h] < MaxInflight
                       THEN inflight[h] + 1 ELSE inflight[h]]

\* handleReorgLocked's purge of every buffered height from n on.
PurgeFrom(n, buf) == [h \in Heights |-> IF h >= n THEN "none" ELSE buf[h]]

(***************************************************************************)
(* processBufferContinuationsLocked entered with expectedBlock = e.  The   *)
(* loop hands over the buffered run e..k-1 and stops at k because k is     *)
(* absent, because k is a reorg (the error is swallowed and k put back),   *)
(* or because k has no body and ProcessBlock panics with k already         *)
(* deleted from the map.                                                   *)
(***************************************************************************)
RunIsFull(e, k, buf) == \A h \in e..(k - 1) : buf[h] = "full"

Without(e, k, buf) == [h \in Heights |-> IF h \in e..k THEN "none" ELSE buf[h]]

Outcome(k, buf, paused, panic) ==
    [exp |-> k, buf |-> buf, paused |-> paused, panic |-> panic]

ContinuationEnds(e, k, buf, paused) ==
    IF k \in Heights /\ buf[k] # "none" THEN {}
    ELSE LET b == Without(e, k - 1, buf)
         IN  {Outcome(k, b, ResumeIfLow(b, paused), FALSE)}

ContinuationReorgs(e, k, buf) ==
    IF ~(CanReorg /\ k \in Heights /\ buf[k] = "full") THEN {}
    ELSE LET b == [PurgeFrom(k, Without(e, k - 1, buf)) EXCEPT ![k] = "full"]
         IN  {Outcome(k, b, ResumeIfLow(b, TRUE), FALSE)}

ContinuationPanics(e, k, buf, paused) ==
    IF ~(k \in Heights /\ buf[k] = "bare") THEN {}
    ELSE {Outcome(k, Without(e, k, buf), paused, TRUE)}

Continuations(e, buf, paused) ==
    UNION {ContinuationEnds(e, k, buf, paused)
             \cup ContinuationReorgs(e, k, buf)
             \cup ContinuationPanics(e, k, buf, paused) :
           k \in {j \in e..(MaxBlock + 1) : RunIsFull(e, j, buf)}}

(***************************************************************************)
(* Initial state: nothing indexed, and every height scheduled once.        *)
(***************************************************************************)
Init ==
    /\ expectedBlock = StartBlock
    /\ buffer = EmptyBuffer
    /\ gapFillCount = 0
    /\ idle = 0
    /\ muLeaked = FALSE
    /\ fetcherPaused = FALSE
    /\ pc = "select"
    /\ batch = <<>>
    /\ seqBatch = NoSeqBatch
    /\ stall = NoStall
    /\ wd = [step |-> "watch", target |-> StartBlock]
    /\ inflight = [h \in Heights |-> 1]
    /\ handed = {}
    /\ hollow = {}
    /\ skipped = {}
    /\ astray = {}

(***************************************************************************)
(* Run and collectBatch: receive from the result channel.  Workers run     *)
(* concurrently, so any pending height may come next; the batch is sorted  *)
(* before use, so it is collected here in ascending order.                 *)
(***************************************************************************)
CollectBatch(h, k) ==
    /\ pc \in {"select", "collect"}
    /\ inflight[h] > 0
    /\ Len(batch) < MaxBatch
    /\ \A i \in DOMAIN batch : batch[i].num <= h
    /\ batch' = Append(batch, [num |-> h, kind |-> k])
    /\ inflight' = [inflight EXCEPT ![h] = @ - 1]
    /\ pc' = "collect"
    /\ UNCHANGED <<sharedVars, seqBatch, stall, wd, historyVars>>

\* Mutant of IsSequential: a failed fetch counts as a block.
IsSequentialOrFailed(i, j) == \A k \in i..j : batch[k].num = expectedBlock + (k - i)

\* Batch items i..j are the blocks expectedBlock, expectedBlock + 1, ...
IsSequential(i, j) ==
    \A k \in i..j : /\ batch[k].kind # "err"
                    /\ batch[k].num = expectedBlock + (k - i)

\* The sequential batch phase 1 finds: the first item that is the expected block,
\* and the longest run of consecutive heights from there.
IsSequentialBatch(i, j) ==
    /\ IsSequential(i, j)
    /\ \A m \in 1..(i - 1) : ~IsSequential(m, m)
    /\ j < Len(batch) => ~IsSequential(i, j + 1)

\* The heights of items i..j that have kind k.
OfKind(i, j, k) == {batch[m].num : m \in {n \in i..j : batch[n].kind = k}}

\* handleBatch, the locked phase 1: back-pressure, then classification.  A
\* sequential run of two or more goes to ProcessBatch; otherwise its only block
\* leads the list given to handleBlock one at a time.
ClassifyBatch ==
    /\ pc = "collect"
    /\ MuFree
    /\ fetcherPaused' = (fetcherPaused \/ GetBufferSize(buffer) > HighWater)
    /\ \/ /\ \A i \in DOMAIN batch : ~IsSequential(i, i)
          /\ pc' = "blocks"
          /\ UNCHANGED <<batch, seqBatch>>
       \/ \E i \in DOMAIN batch : \E j \in i..Len(batch) :
            /\ IsSequentialBatch(i, j)
            /\ LET rest == SubSeq(batch, j + 1, Len(batch)) \o SubSeq(batch, 1, i - 1)
               IN  \/ /\ j > i
                      /\ pc' = "io"
                      /\ batch' = rest
                      /\ seqBatch' = [full |-> OfKind(i, j, "full"),
                                      bare |-> OfKind(i, j, "bare"),
                                      next |-> expectedBlock + (j - i) + 1]
                   \/ /\ j = i
                      /\ pc' = "blocks"
                      /\ batch' = <<batch[i]>> \o rest
                      /\ UNCHANGED seqBatch
    /\ UNCHANGED <<expectedBlock, buffer, gapFillCount, idle, muLeaked, stall, wd,
                   inflight, historyVars>>

\* handleBatch, the unlocked phase 2.  ProcessBatch never fails and passes over a
\* block without a body.
ProcessBatch ==
    /\ pc = "io"
    /\ handed' = handed \cup seqBatch.full
    /\ hollow' = hollow \cup seqBatch.bare
    /\ pc' = "commit"
    /\ UNCHANGED <<sharedVars, batch, seqBatch, stall, wd, inflight, skipped, astray>>

\* Phase 3A: expectedBlock takes the value computed in phase 1, whatever happened
\* since, and the buffer is drained.  There is no deferred unlock here, so a panic
\* in the drain leaves s.mu locked.
CommitBatch ==
    /\ pc = "commit"
    /\ MuFree
    /\ \E r \in Continuations(seqBatch.next, buffer, fetcherPaused) :
         /\ expectedBlock' = r.exp
         /\ buffer' = r.buf
         /\ fetcherPaused' = r.paused
         /\ handed' = handed \cup (seqBatch.next..(r.exp - 1))
         /\ muLeaked' = r.panic
         /\ pc' = IF r.panic THEN "down" ELSE "blocks"
         /\ batch' = IF r.panic THEN <<>> ELSE batch
    /\ gapFillCount' = 0
    /\ idle' = 0
    /\ seqBatch' = NoSeqBatch
    /\ UNCHANGED <<stall, wd, inflight, hollow, skipped, astray>>

(***************************************************************************)
(* handleBlock on the head of the list, under s.mu with a deferred unlock. *)
(***************************************************************************)
\* Run gives up: an error is reported or a panic recovered, the rest of the batch
\* is lost, and the supervisor restarts Run three seconds later.
RunEnds == pc' = "down" /\ batch' = <<>>

NextBlock ==
    /\ pc' = IF Len(batch) = 1 THEN "select" ELSE "blocks"
    /\ batch' = Tail(batch)

\* What handleBlockLocked may make of an item before it compares heights:
\* handleFetchError refetches a failed block or drops it, and a missing body is
\* downloaded or stays missing.
Hydrated(item) ==
    CASE item.kind = "full" -> {"full"}
      [] item.kind = "bare" -> IF HydrateMayFail THEN {"full", "bare"} ELSE {"full"}
      [] item.kind = "err"  -> {"full", "dropped"}

\* The drain loop after a hand-over up to e: it stops at r.exp.
DrainTo(e, r, progressed) ==
    /\ expectedBlock' = r.exp
    /\ buffer' = r.buf
    /\ fetcherPaused' = r.paused
    /\ IF progressed \/ r.exp > e
       THEN gapFillCount' = 0 /\ idle' = 0
       ELSE UNCHANGED <<gapFillCount, idle>>
    /\ IF r.panic THEN RunEnds ELSE NextBlock

\* The expected block arrived: hand it over and drain the buffer behind it.
ProcessSequential(n) ==
    \E r \in Continuations(n + 1, buffer, fetcherPaused) :
      /\ handed' = handed \cup (n..(r.exp - 1))
      /\ DrainTo(n + 1, r, TRUE)
      /\ UNCHANGED skipped

\* Mutant of HandleReorg: the cursor goes back to the parent block.
HandleReorgAtParent(n) ==
    /\ CanReorg
    /\ n > StartBlock
    /\ fetcherPaused' = TRUE
    /\ buffer' = PurgeFrom(n, buffer)
    /\ expectedBlock' = n - 1
    /\ RunEnds
    /\ UNCHANGED <<gapFillCount, idle, handed, skipped>>

\* handleReorgLocked: the buffer is purged from n on and n itself is dropped.
HandleReorg(n) ==
    /\ CanReorg
    /\ fetcherPaused' = TRUE
    /\ buffer' = PurgeFrom(n, buffer)
    /\ expectedBlock' = n
    /\ RunEnds
    /\ UNCHANGED <<gapFillCount, idle, handed, skipped>>

\* Mutant of BufferAhead: enforceBufferLimit is not called.
BufferAheadUnlimited(n, kind) ==
    /\ buffer' = [buffer EXCEPT ![n] = kind]
    /\ NextBlock
    /\ UNCHANGED <<gapFillCount, idle, expectedBlock, fetcherPaused, handed, skipped>>

\* A block ahead of the expected one is kept.  Above the limit enforceBufferLimit
\* gives up the gap before the smallest buffered height and drains from there.
BufferAhead(n, kind) ==
    LET buf == [buffer EXCEPT ![n] = kind] IN
    \/ /\ GetBufferSize(buf) <= BufferLimit
       /\ buffer' = buf
       /\ NextBlock
       /\ UNCHANGED <<gapFillCount, idle, expectedBlock, fetcherPaused, handed, skipped>>
    \/ /\ GetBufferSize(buf) > BufferLimit
       /\ \E m \in Heights :
            /\ IsMinBuffered(m, buf)
            /\ skipped' = skipped \cup (expectedBlock..(m - 1))
            /\ \E r \in Continuations(m, buf, fetcherPaused) :
                 /\ handed' = handed \cup (m..(r.exp - 1))
                 /\ DrainTo(m, r, FALSE)

HandleBlock ==
    /\ pc = "blocks"
    /\ batch # <<>>
    /\ MuFree
    /\ LET n == Head(batch).num IN
       \E kind \in Hydrated(Head(batch)) :
         \/ /\ kind = "dropped" \/ n < expectedBlock
            /\ NextBlock
            /\ UNCHANGED <<gapFillCount, idle, expectedBlock, buffer, fetcherPaused,
                           handed, skipped>>
         \/ kind = "full" /\ n = expectedBlock /\ ProcessSequential(n)
         \/ kind = "full" /\ n = expectedBlock /\ HandleReorg(n)
         \/ /\ kind = "bare" /\ n = expectedBlock     \* nil block: ProcessBlock panics
            /\ RunEnds
            /\ UNCHANGED <<gapFillCount, idle, expectedBlock, buffer, fetcherPaused,
                           handed, skipped>>
         \/ kind # "dropped" /\ n > expectedBlock /\ BufferAhead(n, kind)
    /\ UNCHANGED <<muLeaked, seqBatch, stall, wd, inflight, hollow, astray>>

\* The batch was one sequential run and nothing is left of it.
BatchDone ==
    /\ pc = "blocks"
    /\ batch = <<>>
    /\ pc' = "select"
    /\ UNCHANGED <<sharedVars, batch, seqBatch, stall, wd, inflight, historyVars>>

(***************************************************************************)
(* handleStall, every 30 s when nothing has progressed for 55 s.           *)
(***************************************************************************)
\* The read section, under s.mu.RLock.
StallRead ==
    /\ pc = "select"
    /\ MuFree
    /\ idle >= 1
    /\ \/ Buffered(buffer) = {} /\ stall' = [exp |-> expectedBlock, min |-> None]
       \/ \E m \in Heights :
            /\ IsMinBuffered(m, buffer)
            /\ stall' = [exp |-> expectedBlock, min |-> m]
    /\ pc' = "stall"
    /\ UNCHANGED <<sharedVars, batch, seqBatch, wd, inflight, historyVars>>

StallSeesGap == stall.min # None /\ stall.min > stall.exp

StallEnds ==
    /\ pc' = "select"
    /\ stall' = NoStall
    /\ UNCHANGED <<buffer, muLeaked, fetcherPaused, batch, seqBatch, wd, handed, hollow>>

\* Mutant of StallGapFill: one attempt too many.
StallGapFillOnceMore ==
    /\ pc = "stall"
    /\ StallSeesGap
    /\ gapFillCount <= GapFillMax
    /\ gapFillCount' = gapFillCount + 1
    /\ inflight' = Refetched(stall.exp, stall.min - 1)
    /\ StallEnds
    /\ UNCHANGED <<expectedBlock, idle, skipped, astray>>

\* Mutant of StallGapFill: attempts are not counted.
StallGapFillForever ==
    /\ pc = "stall"
    /\ StallSeesGap
    /\ inflight' = Refetched(stall.exp, stall.min - 1)
    /\ StallEnds
    /\ UNCHANGED <<expectedBlock, gapFillCount, idle, skipped, astray>>

\* Ask the fetcher for the gap again.  Fetcher.Schedule refuses when the buffer is
\* above the high-water mark and may refuse when its own queues are.
StallGapFill ==
    /\ pc = "stall"
    /\ StallSeesGap
    /\ gapFillCount < GapFillMax
    /\ gapFillCount' = gapFillCount + 1
    /\ \/ UNCHANGED inflight
       \/ /\ GetBufferSize(buffer) <= HighWater
          /\ inflight' = Refetched(stall.exp, stall.min - 1)
    /\ StallEnds
    /\ UNCHANGED <<expectedBlock, idle, skipped, astray>>

\* GAP_BYPASS: jump to the smallest buffered height.  The buffer is not drained.
StallGapBypass ==
    /\ pc = "stall"
    /\ StallSeesGap
    /\ gapFillCount >= GapFillMax
    /\ MuFree
    /\ expectedBlock' = stall.min
    /\ skipped' = skipped \cup (stall.exp..(stall.min - 1))
    /\ gapFillCount' = 0
    /\ idle' = 0
    /\ StallEnds
    /\ UNCHANGED <<inflight, astray>>

\* CRITICAL_STALL: no gap in sight.  The log line names the height read before the lock
\* was given back (stuck_at); the step is taken from the cursor as it is now.
StallSkip ==
    /\ pc = "stall"
    /\ ~StallSeesGap
    /\ MuFree
    /\ expectedBlock <= MaxBlock      \* bound
    /\ expectedBlock' = expectedBlock + 1
    /\ skipped' = skipped \cup ({expectedBlock} \cap {stall.exp})
    /\ astray' = astray \cup ({expectedBlock} \ {stall.exp})
    /\ gapFillCount' = 0
    /\ idle' = 0
    /\ StallEnds
    /\ UNCHANGED inflight

(***************************************************************************)
(* Deadlock watchdog: check, then two separately locked calls.             *)
(***************************************************************************)
\* GetIdleTime reports 120 s without progress.
WatchdogWakes ==
    /\ WatchdogEnabled
    /\ MuFree
    /\ wd.step = "watch"
    /\ idle = 2
    /\ wd' = [wd EXCEPT !.step = "check"]
    /\ UNCHANGED <<sharedVars, pc, batch, seqBatch, stall, inflight, historyVars>>

\* After the RPC and database reads: heal towards chain head h when the expected
\* block is far behind it, else give up this round.  Giving up also stands for an
\* RPC or database error before the first change.
WatchdogCheck(h) ==
    /\ wd.step = "check"
    /\ MuFree
    /\ \/ /\ expectedBlock < h - GapThreshold
          /\ wd' = [step |-> "reset", target |-> h]
       \/ wd' = [wd EXCEPT !.step = "watch"]
    /\ UNCHANGED <<sharedVars, pc, batch, seqBatch, stall, inflight, historyVars>>

ResetExpectedBlock ==
    /\ wd.step = "reset"
    /\ MuFree
    /\ expectedBlock' = wd.target
    /\ skipped' = skipped \cup (expectedBlock..(wd.target - 1))
    /\ idle' = 0
    /\ wd' = [wd EXCEPT !.step = "clear"]
    /\ UNCHANGED <<buffer, gapFillCount, muLeaked, fetcherPaused, pc, batch, seqBatch,
                   stall, inflight, handed, hollow, astray>>

\* The refetch of everything behind the stored height that the watchdog starts last.
\* Schedule may refuse it, and any height of it may be lost.
RescheduleGap ==
    \/ UNCHANGED inflight
    \/ inflight' = Refetched(StartBlock, wd.target)

ClearBuffer ==
    /\ wd.step = "clear"
    /\ MuFree
    /\ buffer' = EmptyBuffer
    /\ RescheduleGap
    /\ wd' = [step |-> "watch", target |-> StartBlock]
    /\ UNCHANGED <<expectedBlock, gapFillCount, idle, muLeaked, fetcherPaused, pc, batch,
                   seqBatch, stall, historyVars>>

(***************************************************************************)
(* The supervisor, shutdown, time and the fetcher.                         *)
(***************************************************************************)
\* runSequencerWithSelfHealing calls Run again after three seconds.
Restart ==
    /\ pc = "down"
    /\ pc' = "select"
    /\ UNCHANGED <<sharedVars, batch, seqBatch, stall, wd, inflight, historyVars>>

\* ctx.Done: drainBuffer, then return for good.
Shutdown ==
    /\ pc = "select"
    /\ MuFree
    /\ \E r \in Continuations(expectedBlock, buffer, fetcherPaused) :
         /\ handed' = handed \cup (expectedBlock..(r.exp - 1))
         /\ expectedBlock' = r.exp
         /\ buffer' = r.buf
         /\ fetcherPaused' = r.paused
    /\ pc' = "stopped"
    /\ UNCHANGED <<gapFillCount, idle, muLeaked, batch, seqBatch, stall, wd, inflight,
                   hollow, skipped, astray>>

\* ctx is done while Run is down: the supervisor does not call it again.
SupervisorStops ==
    /\ pc = "down"
    /\ pc' = "stopped"
    /\ UNCHANGED <<sharedVars, batch, seqBatch, stall, wd, inflight, historyVars>>

TimePasses ==
    /\ idle < 2
    /\ idle' = idle + 1
    /\ UNCHANGED <<expectedBlock, buffer, gapFillCount, muLeaked, fetcherPaused, pc, batch,
                   seqBatch, stall, wd, inflight, historyVars>>

\* A job dies without reporting this height: its range failed at an earlier height
\* or the throughput limiter refused the block.
FetchLost(h) ==
    /\ inflight[h] > 0
    /\ inflight' = [inflight EXCEPT ![h] = @ - 1]
    /\ UNCHANGED <<sharedVars, pc, batch, seqBatch, stall, wd, historyVars>>

RunStep ==
    \/ ClassifyBatch \/ ProcessBatch \/ CommitBatch
    \/ HandleBlock \/ BatchDone
    \/ StallRead \/ StallGapFill \/ StallGapBypass \/ StallSkip
    \/ Restart

Next ==
    \/ \E h \in Heights, k \in {"full", "bare", "err"} : CollectBatch(h, k)
    \/ RunStep
    \/ WatchdogWakes
    \/ \E h \in Heights : WatchdogCheck(h)
    \/ ResetExpectedBlock \/ ClearBuffer
    \/ Shutdown \/ SupervisorStops
    \/ TimePasses
    \/ \E h \in Heights : FetchLost(h)

Spec == Init /\ [][Next]_vars

(***************************************************************************)
(* Fairness.  The goroutine is scheduled, its tickers fire and time goes   *)
(* on.  Nothing is assumed of the fetcher, the RPC or the watchdog.        *)
(***************************************************************************)
Fairness == WF_vars(RunStep) /\ WF_vars(StallRead) /\ WF_vars(TimePasses)

FairSpec == Spec /\ Fairness

(***************************************************************************)
(* Properties                                                              *)
(***************************************************************************)
\* The types of the sequencer's fields and of its goroutines' locals.
TypeOK ==
    /\ expectedBlock \in Cursors
    /\ buffer \in [Heights -> {"none", "full", "bare"}]
    /\ gapFillCount \in 0..GapFillMax
    /\ idle \in 0..2
    /\ muLeaked \in BOOLEAN
    /\ fetcherPaused \in BOOLEAN
    /\ pc \in {"select", "collect", "io", "commit", "blocks", "stall", "down", "stopped"}
    /\ batch \in Seq(Item)
    /\ seqBatch \in [full : SUBSET Heights, bare : SUBSET Heights, next : Cursors]
    /\ stall \in [exp : Cursors, min : Heights \cup {None}]
    /\ wd \in [step : {"watch", "check", "reset", "clear"}, target : Heights]
    /\ inflight \in [Heights -> 0..MaxInflight]
    /\ handed \in SUBSET Heights
    /\ hollow \in SUBSET Heights
    /\ skipped \in SUBSET Heights
    /\ astray \in SUBSET Heights

\* enforceBufferLimit keeps the reorder map within its limit after every handleBlock,
\* also when the drain it starts stops at a reorg or panics.
BufferBounded == GetBufferSize(buffer) <= BufferLimit

\* Every height below expectedBlock was given to the processor, passed over by
\* ProcessBatch for want of a body, stepped over by a skip that says so in the log, or
\* is one of those a stall skip stepped over after the watchdog had moved the cursor,
\* logging the height it had read before: no other interleaving of batch commit, stall
\* handler and watchdog reset loses a height.
NoUnaccountedHeight ==
    \A h \in StartBlock..(expectedBlock - 1) :
        h \in handed \cup hollow \cup skipped \cup astray

\* Outside the stall handler and the watchdog, expectedBlock never passes a buffered
\* block that was not given to the processor or passed over by ProcessBatch.
BufferedNotJumped ==
    [][\A h \in Buffered(buffer) :
         h >= expectedBlock /\ h < expectedBlock' /\ pc # "stall" /\ wd'.step # "clear"
           => h \in handed' \cup hollow']_vars

\* The heights below are decided: phase 2 hands a run over before phase 3A moves
\* expectedBlock past it.
DecidedTo == IF pc = "commit" THEN seqBatch.next ELSE expectedBlock

\* Without watchdog resets and buffer overflows the sequencer decides every height once and
\* in order, however batches, stalls, panics and restarts follow on one another.
Promise == INSTANCE HandOver WITH First <- StartBlock, Last <- MaxBlock,
                                  cursor <- DecidedTo, given <- handed,
                                  passed <- hollow \cup skipped
ImplementsHandOver == Promise!Spec

\* Whatever the fetcher loses, fails or reorders, and however often Run is restarted,
\* expectedBlock gets past every height: the stall handler unblocks the pipeline.
EventuallyPasses == <>(expectedBlock > MaxBlock \/ pc = "stopped")

\* A buffered block ahead of expectedBlock is handed over before expectedBlock
\* passes it, also by the stall handler: GAP_BYPASS announces it as "resume_at".
BypassResumesAtBuffered ==
    [][\A h \in Buffered(buffer) :
         h >= expectedBlock /\ h < expectedBlock' => h \in handed' \cup hollow']_vars

\* After Run ends in an error or a recovered panic the supervisor brings it back
\* within reach of s.mu, or the process is shutting down.
RestartRecovers == pc = "down" ~> (pc = "stopped" \/ (pc # "down" /\ MuFree))

=============================================================================
