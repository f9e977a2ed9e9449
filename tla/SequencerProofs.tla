-------------------------- MODULE SequencerProofs --------------------------
(***************************************************************************)
(* Proofs about the sequencer, for every start block, buffer limit, batch  *)
(* size, watermark and retry limit.                                        *)
(***************************************************************************)
EXTENDS Sequencer, SequenceTheorems, FiniteSetTheorems, TLAPS

Outcomes == [exp : Cursors, buf : [Heights -> {"none", "full", "bare"}],
             paused : BOOLEAN, panic : BOOLEAN]

(***************************************************************************)
(* The drain loop                                                          *)
(***************************************************************************)
\* processBufferContinuationsLocked moves expectedBlock forward only and leaves a
\* well-formed buffer, however it ends.
LEMMA ContinuationsType ==
    ASSUME NEW e \in Cursors,
           NEW buf \in [Heights -> {"none", "full", "bare"}],
           NEW paused \in BOOLEAN,
           NEW r \in Continuations(e, buf, paused)
    PROVE  r \in Outcomes /\ r.exp >= e
<1>1. PICK k \in e..(MaxBlock + 1) :
          r \in ContinuationEnds(e, k, buf, paused)
                  \cup ContinuationReorgs(e, k, buf)
                  \cup ContinuationPanics(e, k, buf, paused)
  BY DEF Continuations
<1>2. k \in Cursors /\ k >= e
  BY SequencerAssumption DEF Cursors
<1>3. \A j \in Int : Without(e, j, buf) \in [Heights -> {"none", "full", "bare"}]
  BY DEF Without
<1>4. \A b, p : ResumeIfLow(b, p) \in BOOLEAN
  BY DEF ResumeIfLow
<1>k. k \in Int
  BY <1>2, SequencerAssumption DEF Cursors
<1>5. CASE r \in ContinuationEnds(e, k, buf, paused)
  <2>1. r = Outcome(k, Without(e, k - 1, buf),
                    ResumeIfLow(Without(e, k - 1, buf), paused), FALSE)
    BY <1>5 DEF ContinuationEnds
  <2> QED
    BY <2>1, <1>2, <1>3, <1>4, <1>k DEF Outcome, Outcomes
<1>6. CASE r \in ContinuationReorgs(e, k, buf)
  <2> DEFINE b == [PurgeFrom(k, Without(e, k - 1, buf)) EXCEPT ![k] = "full"]
  <2>1. r = Outcome(k, b, ResumeIfLow(b, TRUE), FALSE)
    BY <1>6 DEF ContinuationReorgs
  <2>2. PurgeFrom(k, Without(e, k - 1, buf)) \in [Heights -> {"none", "full", "bare"}]
    <3>1. Without(e, k - 1, buf) \in [Heights -> {"none", "full", "bare"}]
      BY <1>3, <1>k
    <3> QED
      BY <3>1 DEF PurgeFrom
  <2>3. b \in [Heights -> {"none", "full", "bare"}]
    BY <2>2
  <2> QED
    BY <2>1, <2>3, <1>2, <1>4 DEF Outcome, Outcomes
<1>7. CASE r \in ContinuationPanics(e, k, buf, paused)
  <2>1. r = Outcome(k, Without(e, k, buf), paused, TRUE)
    BY <1>7 DEF ContinuationPanics
  <2> QED
    BY <2>1, <1>2, <1>3, <1>k DEF Outcome, Outcomes
<1> QED
  BY <1>1, <1>5, <1>6, <1>7

(***************************************************************************)
(* Type correctness                                                        *)
(***************************************************************************)
\* What ClassifyBatch makes of the batch is again a list of items.
LEMMA RestType ==
    ASSUME NEW b \in Seq(Item), NEW i \in 1..Len(b), NEW j \in i..Len(b)
    PROVE  /\ SubSeq(b, j + 1, Len(b)) \o SubSeq(b, 1, i - 1) \in Seq(Item)
           /\ <<b[i]>> \o (SubSeq(b, j + 1, Len(b)) \o SubSeq(b, 1, i - 1)) \in Seq(Item)
<1>1. Len(b) \in Nat /\ \A m \in 1..Len(b) : b[m] \in Item
  BY ElementOfSeq
<1>2. SubSeq(b, j + 1, Len(b)) \in Seq(Item)
  <2>1. \A m \in (j + 1)..Len(b) : b[m] \in Item
    BY <1>1
  <2> QED
    BY <2>1, <1>1, SubSeqProperties
<1>3. SubSeq(b, 1, i - 1) \in Seq(Item)
  <2>1. \A m \in 1..(i - 1) : b[m] \in Item
    BY <1>1
  <2> QED
    BY <2>1, <1>1, SubSeqProperties
<1>4. <<b[i]>> \in Seq(Item)
  BY <1>1
<1> QED
  BY <1>2, <1>3, <1>4, ConcatProperties

\* The sequential run phase 1 finds lies within the known heights.
LEMMA RunType ==
    ASSUME TypeOK, NEW i \in DOMAIN batch, NEW j \in i..Len(batch), IsSequential(i, j)
    PROVE  /\ i \in 1..Len(batch)
           /\ expectedBlock + (j - i) + 1 \in Cursors
           /\ \A k : OfKind(i, j, k) \in SUBSET Heights
<1>1. batch \in Seq(Item) /\ expectedBlock \in Cursors
  BY DEF TypeOK
<1>2. DOMAIN batch = 1..Len(batch) /\ Len(batch) \in Nat
  BY <1>1
<1>3. \A m \in 1..Len(batch) : batch[m] \in Item
  BY <1>1, ElementOfSeq
<1>4. batch[j].num = expectedBlock + (j - i) /\ batch[j].num \in Heights
  BY <1>2, <1>3 DEF IsSequential, Item
<1>5. expectedBlock + (j - i) + 1 \in Cursors
  BY <1>1, <1>2, <1>4, SequencerAssumption DEF Cursors, Heights
<1>6. \A k : OfKind(i, j, k) \in SUBSET Heights
  BY <1>2, <1>3 DEF OfKind, Item
<1> QED
  BY <1>2, <1>5, <1>6

\* Handling one block keeps the types, on each of its paths.
LEMMA HandleBlockType == TypeOK /\ HandleBlock => TypeOK'
<1> SUFFICES ASSUME TypeOK, HandleBlock PROVE TypeOK'
  OBVIOUS
<1> DEFINE n == Head(batch).num
<1>1. Head(batch) \in Item /\ Tail(batch) \in Seq(Item) /\ <<>> \in Seq(Item)
  BY HeadTailProperties, EmptySeq DEF TypeOK, HandleBlock
<1>2. n \in Heights /\ n \in Cursors /\ n + 1 \in Cursors /\ n \in Int
  BY <1>1, SequencerAssumption DEF Item, Heights, Cursors
<1>3. PICK kind \in Hydrated(Head(batch)) :
         \/ /\ kind = "dropped" \/ n < expectedBlock
            /\ NextBlock
            /\ UNCHANGED <<gapFillCount, idle, expectedBlock, buffer, fetcherPaused,
                           handed, skipped>>
         \/ kind = "full" /\ n = expectedBlock /\ ProcessSequential(n)
         \/ kind = "full" /\ n = expectedBlock /\ HandleReorg(n)
         \/ /\ kind = "bare" /\ n = expectedBlock
            /\ RunEnds
            /\ UNCHANGED <<gapFillCount, idle, expectedBlock, buffer, fetcherPaused,
                           handed, skipped>>
         \/ kind # "dropped" /\ n > expectedBlock /\ BufferAhead(n, kind)
  BY DEF HandleBlock
<1>4. kind \in {"full", "bare", "dropped"}
  BY <1>1 DEF Hydrated, Item
<1>5. UNCHANGED <<muLeaked, seqBatch, stall, wd, inflight, hollow, astray>>
  BY DEF HandleBlock
<1>6. (NextBlock \/ RunEnds) =>
         /\ batch' \in Seq(Item)
         /\ pc' \in {"select", "collect", "io", "commit", "blocks", "stall", "down", "stopped"}
  BY <1>1 DEF NextBlock, RunEnds
<1>7. ASSUME NEW e \in Cursors, NEW r \in Outcomes, NEW p, DrainTo(e, r, p)
      PROVE  /\ expectedBlock' \in Cursors
             /\ buffer' \in [Heights -> {"none", "full", "bare"}]
             /\ fetcherPaused' \in BOOLEAN
             /\ gapFillCount' \in 0..GapFillMax
             /\ idle' \in 0..2
             /\ NextBlock \/ RunEnds
  BY <1>7, SequencerAssumption DEF DrainTo, Outcomes, TypeOK
<1>8. CASE ProcessSequential(n)
  <2>1. PICK r \in Continuations(n + 1, buffer, fetcherPaused) :
           /\ handed' = handed \cup (n..(r.exp - 1))
           /\ DrainTo(n + 1, r, TRUE)
           /\ UNCHANGED skipped
    BY <1>8 DEF ProcessSequential
  <2>2. r \in Outcomes
    BY <1>2, ContinuationsType DEF TypeOK
  <2>3. n..(r.exp - 1) \subseteq Heights
    BY <1>2, <2>2, SequencerAssumption DEF Outcomes, Cursors, Heights
  <2> QED
    BY <2>1, <2>2, <2>3, <1>2, <1>5, <1>6, <1>7 DEF TypeOK
<1>9. CASE HandleReorg(n)
  <2>1. PurgeFrom(n, buffer) \in [Heights -> {"none", "full", "bare"}]
    BY DEF PurgeFrom, TypeOK
  <2> QED
    BY <1>9, <2>1, <1>2, <1>5, <1>6 DEF HandleReorg, TypeOK
<1>10. CASE kind # "dropped" /\ n > expectedBlock /\ BufferAhead(n, kind)
  <2> DEFINE buf == [buffer EXCEPT ![n] = kind]
  <2>1. buf \in [Heights -> {"none", "full", "bare"}]
    BY <1>2, <1>4, <1>10 DEF TypeOK
  <2>2. CASE /\ buffer' = buf
             /\ NextBlock
             /\ UNCHANGED <<gapFillCount, idle, expectedBlock, fetcherPaused, handed, skipped>>
    BY <2>1, <2>2, <1>5, <1>6 DEF TypeOK
  <2>3. ASSUME NEW m \in Heights,
               skipped' = skipped \cup (expectedBlock..(m - 1)),
               NEW r \in Continuations(m, buf, fetcherPaused),
               handed' = handed \cup (m..(r.exp - 1)),
               DrainTo(m, r, FALSE)
        PROVE  TypeOK'
    <3>1. m \in Cursors /\ m \in Int
      BY SequencerAssumption DEF Heights, Cursors
    <3>2. r \in Outcomes
      BY <3>1, <2>1, ContinuationsType DEF TypeOK
    <3>3. m..(r.exp - 1) \subseteq Heights
      BY <3>1, <3>2, SequencerAssumption DEF Outcomes, Cursors, Heights
    <3>4. expectedBlock..(m - 1) \subseteq Heights
      <4>1. expectedBlock \in Cursors
        BY DEF TypeOK
      <4> QED
        BY <3>1, <4>1, SequencerAssumption DEF Cursors, Heights
    <3> QED
      BY <2>3, <3>1, <3>2, <3>3, <3>4, <1>5, <1>6, <1>7 DEF TypeOK
  <2> QED
    BY <1>10, <2>2, <2>3 DEF BufferAhead
<1>11. CASE /\ NextBlock \/ RunEnds
            /\ UNCHANGED <<gapFillCount, idle, expectedBlock, buffer, fetcherPaused,
                           handed, skipped>>
  BY <1>11, <1>5, <1>6 DEF TypeOK
<1> QED
  BY <1>3, <1>8, <1>9, <1>10, <1>11

\* The batch commit keeps the types, also when the drain panics.
LEMMA CommitBatchType == TypeOK /\ CommitBatch => TypeOK'
<1> SUFFICES ASSUME TypeOK, CommitBatch PROVE TypeOK'
  OBVIOUS
<1>1. seqBatch.next \in Cursors /\ NoSeqBatch \in [full : SUBSET Heights,
                                                  bare : SUBSET Heights, next : Cursors]
  BY SequencerAssumption DEF TypeOK, NoSeqBatch, Cursors
<1>2. PICK r \in Continuations(seqBatch.next, buffer, fetcherPaused) :
         /\ expectedBlock' = r.exp
         /\ buffer' = r.buf
         /\ fetcherPaused' = r.paused
         /\ handed' = handed \cup (seqBatch.next..(r.exp - 1))
         /\ muLeaked' = r.panic
         /\ pc' = IF r.panic THEN "down" ELSE "blocks"
         /\ batch' = IF r.panic THEN <<>> ELSE batch
  BY DEF CommitBatch
<1>3. r \in Outcomes
  BY <1>1, ContinuationsType DEF TypeOK
<1>4. seqBatch.next..(r.exp - 1) \subseteq Heights
  BY <1>1, <1>3, SequencerAssumption DEF Outcomes, Cursors, Heights
<1>5. batch' \in Seq(Item)
  BY <1>2, <1>3, EmptySeq DEF Outcomes, TypeOK
<1> QED
  BY <1>1, <1>2, <1>3, <1>4, <1>5, SequencerAssumption DEF CommitBatch, Outcomes, TypeOK

\* Every step of every party keeps the types.
LEMMA TypeStep == TypeOK /\ [Next]_vars => TypeOK'
<1> SUFFICES ASSUME TypeOK, [Next]_vars PROVE TypeOK'
  OBVIOUS
<1> USE SequencerAssumption
<1>0. NoStall \in [exp : Cursors, min : Heights \cup {None}]
  BY DEF NoStall, Cursors
<1>e. EmptyBuffer \in [Heights -> {"none", "full", "bare"}]
  BY DEF EmptyBuffer
<1>r. \A a, b : Refetched(a, b) \in [Heights -> 0..MaxInflight]
  BY DEF Refetched, TypeOK
<1>1. ASSUME NEW h \in Heights, NEW k \in {"full", "bare", "err"}, CollectBatch(h, k)
      PROVE  TypeOK'
  <2>1. [num |-> h, kind |-> k] \in Item
    BY DEF Item
  <2>2. batch' \in Seq(Item)
    BY <1>1, <2>1, AppendProperties DEF CollectBatch, TypeOK
  <2>3. inflight' \in [Heights -> 0..MaxInflight]
    BY <1>1 DEF CollectBatch, TypeOK
  <2> QED
    BY <1>1, <2>2, <2>3 DEF CollectBatch, TypeOK, sharedVars, historyVars
<1>2. CASE ClassifyBatch
  <2>1. fetcherPaused' \in BOOLEAN
    BY <1>2 DEF ClassifyBatch
  <2>2. /\ batch' \in Seq(Item)
        /\ seqBatch' \in [full : SUBSET Heights, bare : SUBSET Heights, next : Cursors]
        /\ pc' \in {"io", "blocks"}
    <3>1. CASE pc' = "blocks" /\ UNCHANGED <<batch, seqBatch>>
      BY <3>1 DEF TypeOK
    <3>2. ASSUME NEW i \in DOMAIN batch, NEW j \in i..Len(batch), IsSequentialBatch(i, j),
                 LET rest == SubSeq(batch, j + 1, Len(batch)) \o SubSeq(batch, 1, i - 1)
                 IN  \/ /\ pc' = "io"
                        /\ batch' = rest
                        /\ seqBatch' = [full |-> OfKind(i, j, "full"),
                                        bare |-> OfKind(i, j, "bare"),
                                        next |-> expectedBlock + (j - i) + 1]
                     \/ /\ pc' = "blocks"
                        /\ batch' = <<batch[i]>> \o rest
                        /\ UNCHANGED seqBatch
          PROVE  /\ batch' \in Seq(Item)
                 /\ seqBatch' \in [full : SUBSET Heights, bare : SUBSET Heights, next : Cursors]
                 /\ pc' \in {"io", "blocks"}
      <4>1. /\ i \in 1..Len(batch)
            /\ expectedBlock + (j - i) + 1 \in Cursors
            /\ \A k : OfKind(i, j, k) \in SUBSET Heights
        BY <3>2, RunType DEF IsSequentialBatch
      <4>2. batch \in Seq(Item)
        BY DEF TypeOK
      <4> DEFINE rest == SubSeq(batch, j + 1, Len(batch)) \o SubSeq(batch, 1, i - 1)
                 whole == <<batch[i]>> \o rest
                 run == [full |-> OfKind(i, j, "full"), bare |-> OfKind(i, j, "bare"),
                         next |-> expectedBlock + (j - i) + 1]
      <4>3. rest \in Seq(Item) /\ whole \in Seq(Item)
        BY <4>1, <4>2, RestType
      <4>4. run \in [full : SUBSET Heights, bare : SUBSET Heights, next : Cursors]
        BY <4>1
      <4>5. \/ pc' = "io" /\ batch' = rest /\ seqBatch' = run
            \/ pc' = "blocks" /\ batch' = whole /\ seqBatch' = seqBatch
        BY <3>2
      <4> HIDE DEF rest, whole, run
      <4> QED
        BY <4>3, <4>4, <4>5 DEF TypeOK
    <3> QED
      BY <1>2, <3>1, <3>2 DEF ClassifyBatch
  <2> QED
    BY <1>2, <2>1, <2>2 DEF ClassifyBatch, TypeOK, historyVars
<1>3. CASE ProcessBatch
  BY <1>3 DEF ProcessBatch, TypeOK, sharedVars
<1>4. CASE CommitBatch
  BY <1>4, CommitBatchType
<1>5. CASE HandleBlock
  BY <1>5, HandleBlockType
<1>6. CASE BatchDone
  BY <1>6 DEF BatchDone, TypeOK, sharedVars, historyVars
<1>7. CASE StallRead
  BY <1>7 DEF StallRead, IsMinBuffered, Buffered, TypeOK, sharedVars, historyVars
<1>8. CASE StallGapFill
  BY <1>8, <1>0, <1>r DEF StallGapFill, StallEnds, TypeOK
<1>9. CASE StallGapBypass
  <2>1. stall.min \in Heights /\ stall.exp \in Cursors
    BY <1>9 DEF StallGapBypass, StallSeesGap, TypeOK
  <2>2. stall.min \in Cursors /\ stall.exp..(stall.min - 1) \subseteq Heights
    BY <2>1 DEF Cursors, Heights
  <2> QED
    BY <1>9, <2>2, <1>0 DEF StallGapBypass, StallEnds, TypeOK
<1>10. CASE StallSkip
  <2>1. expectedBlock \in Heights /\ expectedBlock + 1 \in Cursors
    BY <1>10 DEF StallSkip, TypeOK, Cursors, Heights
  <2> QED
    BY <1>10, <2>1, <1>0 DEF StallSkip, StallEnds, TypeOK
<1>11. CASE Restart
  BY <1>11 DEF Restart, TypeOK, sharedVars, historyVars
<1>12. CASE WatchdogWakes
  BY <1>12 DEF WatchdogWakes, TypeOK, sharedVars, historyVars
<1>13. ASSUME NEW h \in Heights, WatchdogCheck(h) PROVE TypeOK'
  <2>1. wd' \in [step : {"watch", "check", "reset", "clear"}, target : Heights]
    BY <1>13 DEF WatchdogCheck, TypeOK
  <2> QED
    BY <1>13, <2>1 DEF WatchdogCheck, TypeOK, sharedVars, historyVars
<1>14. CASE ResetExpectedBlock
  <2>1. wd.target \in Cursors /\ expectedBlock..(wd.target - 1) \subseteq Heights
    <3>1. wd.target \in Heights /\ expectedBlock \in Cursors
      BY DEF TypeOK
    <3> QED
      BY <3>1 DEF Cursors, Heights
  <2>2. wd' \in [step : {"watch", "check", "reset", "clear"}, target : Heights]
    BY <1>14 DEF ResetExpectedBlock, TypeOK
  <2> QED
    BY <1>14, <2>1, <2>2 DEF ResetExpectedBlock, TypeOK
<1>15. CASE ClearBuffer
  <2>1. wd' \in [step : {"watch", "check", "reset", "clear"}, target : Heights]
    BY <1>15 DEF ClearBuffer, Heights
  <2> QED
    BY <1>15, <2>1, <1>e, <1>r DEF ClearBuffer, RescheduleGap, TypeOK, historyVars
<1>16. CASE Shutdown
  <2>1. PICK r \in Continuations(expectedBlock, buffer, fetcherPaused) :
           /\ handed' = handed \cup (expectedBlock..(r.exp - 1))
           /\ expectedBlock' = r.exp
           /\ buffer' = r.buf
           /\ fetcherPaused' = r.paused
    BY <1>16 DEF Shutdown
  <2>2. r \in Outcomes /\ expectedBlock \in Cursors
    BY ContinuationsType DEF TypeOK
  <2>3. expectedBlock..(r.exp - 1) \subseteq Heights
    BY <2>2 DEF Outcomes, Cursors, Heights
  <2> QED
    BY <1>16, <2>1, <2>2, <2>3 DEF Shutdown, Outcomes, TypeOK
<1>17. CASE SupervisorStops
  BY <1>17 DEF SupervisorStops, TypeOK, sharedVars, historyVars
<1>18. CASE TimePasses
  BY <1>18 DEF TimePasses, TypeOK, historyVars
<1>19. ASSUME NEW h \in Heights, FetchLost(h) PROVE TypeOK'
  <2>1. inflight' \in [Heights -> 0..MaxInflight]
    BY <1>19 DEF FetchLost, TypeOK
  <2> QED
    BY <1>19, <2>1 DEF FetchLost, TypeOK, sharedVars, historyVars
<1>20. CASE UNCHANGED vars
  BY <1>20 DEF vars, TypeOK, sharedVars, historyVars
<1> QED
  BY <1>1, <1>2, <1>3, <1>4, <1>5, <1>6, <1>7, <1>8, <1>9, <1>10, <1>11, <1>12, <1>13,
     <1>14, <1>15, <1>16, <1>17, <1>18, <1>19, <1>20 DEF Next, RunStep

\* Type correctness of the sequencer: every field and every goroutine-local copy of a
\* height stays in range on every path, panics and reorgs included.
THEOREM TypeCorrect == Spec => []TypeOK
<1>1. Init => TypeOK
  <2> SUFFICES ASSUME Init PROVE TypeOK
    OBVIOUS
  <2>1. StartBlock \in Heights /\ StartBlock \in Cursors
    BY SequencerAssumption DEF Cursors, Heights
  <2>2. /\ EmptyBuffer \in [Heights -> {"none", "full", "bare"}]
        /\ NoSeqBatch \in [full : SUBSET Heights, bare : SUBSET Heights, next : Cursors]
        /\ NoStall \in [exp : Cursors, min : Heights \cup {None}]
        /\ [step |-> "watch", target |-> StartBlock]
             \in [step : {"watch", "check", "reset", "clear"}, target : Heights]
    BY <2>1 DEF EmptyBuffer, NoSeqBatch, NoStall
  <2>3. [h \in Heights |-> 1] \in [Heights -> 0..MaxInflight]
    BY SequencerAssumption
  <2>4. batch \in Seq(Item)
    BY EmptySeq DEF Init
  <2>5. /\ muLeaked \in BOOLEAN /\ fetcherPaused \in BOOLEAN
        /\ handed \in SUBSET Heights /\ hollow \in SUBSET Heights
        /\ skipped \in SUBSET Heights
    BY DEF Init
  <2> QED
    BY <2>1, <2>2, <2>3, <2>4, <2>5, SequencerAssumption DEF Init, TypeOK
<1> QED
  BY <1>1, TypeStep, PTL DEF Spec

(***************************************************************************)
(* No height is passed unaccounted.                                        *)
(*                                                                         *)
(* NoUnaccountedHeight is not inductive: phase 3A stores a cursor computed *)
(* two lock sections earlier and the gap bypass skips from a copy of the   *)
(* cursor, while the watchdog may have moved the cursor in between.  The   *)
(* strengthening says that those copies are accounted for too.             *)
(***************************************************************************)
Fate == handed \cup hollow \cup skipped \cup astray

Accounted(n) == \A h \in StartBlock..(n - 1) : h \in Fate

\* The cursor and every copy of it a goroutine may still act on are accounted for.
AccountedCopies ==
    /\ Accounted(expectedBlock)
    /\ pc = "io" => \A h \in StartBlock..(seqBatch.next - 1) :
                       h \in Fate \cup seqBatch.full \cup seqBatch.bare
    /\ pc = "commit" => Accounted(seqBatch.next)
    /\ pc = "stall" => Accounted(stall.exp)

\* An accounted prefix stays accounted when its next stretch m..n-1 is.
LEMMA Extend ==
    ASSUME NEW m \in Int, NEW n \in Int, NEW A, NEW B, A \subseteq B,
           \A h \in StartBlock..(m - 1) : h \in A,
           \A h \in m..(n - 1) : h \in B
    PROVE  \A h \in StartBlock..(n - 1) : h \in B
BY SequencerAssumption

\* Handling one block leaves no unaccounted height behind the cursor: what the cursor
\* passes was handed over, or is the gap enforceBufferLimit gives up.
LEMMA HandleBlockAccounted ==
    TypeOK /\ AccountedCopies /\ HandleBlock => AccountedCopies'
<1> SUFFICES ASSUME TypeOK, AccountedCopies, HandleBlock PROVE AccountedCopies'
  OBVIOUS
<1> DEFINE n == Head(batch).num
<1>1. n \in Heights /\ n \in Int /\ n + 1 \in Cursors /\ expectedBlock \in Int
  <2>1. Head(batch) \in Item /\ expectedBlock \in Cursors
    BY HeadTailProperties DEF TypeOK, HandleBlock
  <2> QED
    BY <2>1, SequencerAssumption DEF Item, Heights, Cursors
<1>2. Accounted(expectedBlock)
  BY DEF AccountedCopies
<1>3. UNCHANGED <<hollow, astray>>
  BY DEF HandleBlock
<1>4. ASSUME pc' \in {"select", "blocks", "down"}, Accounted(expectedBlock)'
      PROVE  AccountedCopies'
  BY <1>4 DEF AccountedCopies
<1>5. (NextBlock \/ RunEnds) => pc' \in {"select", "blocks", "down"}
  BY DEF NextBlock, RunEnds
<1>6. CASE /\ NextBlock \/ RunEnds
           /\ UNCHANGED <<expectedBlock, handed, skipped>>
  BY <1>2, <1>3, <1>4, <1>5, <1>6 DEF Accounted, Fate
<1>7. CASE n = expectedBlock /\ ProcessSequential(n)
  <2>1. PICK r \in Continuations(n + 1, buffer, fetcherPaused) :
           /\ handed' = handed \cup (n..(r.exp - 1))
           /\ DrainTo(n + 1, r, TRUE)
           /\ UNCHANGED skipped
    BY <1>7 DEF ProcessSequential
  <2>2. r \in Outcomes
    BY <1>1, ContinuationsType DEF TypeOK
  <2>3. expectedBlock' = r.exp /\ r.exp \in Int /\ (NextBlock \/ RunEnds)
    BY <2>1, <2>2, SequencerAssumption DEF DrainTo, Outcomes, Cursors
  <2>4. Fate \subseteq Fate' /\ \A h \in expectedBlock..(r.exp - 1) : h \in Fate'
    BY <1>7, <2>1, <1>3 DEF Fate
  <2>5. \A h \in StartBlock..(r.exp - 1) : h \in Fate'
    BY <2>3, <2>4, <1>1, <1>2, Extend DEF Accounted
  <2> QED
    BY <2>3, <2>5, <1>4, <1>5 DEF Accounted
<1>8. CASE n = expectedBlock /\ HandleReorg(n)
  BY <1>8, <1>2, <1>3, <1>4, <1>5 DEF HandleReorg, Accounted, Fate
<1>9. ASSUME NEW m \in Heights, NEW buf \in [Heights -> {"none", "full", "bare"}],
             skipped' = skipped \cup (expectedBlock..(m - 1)),
             NEW r \in Continuations(m, buf, fetcherPaused),
             handed' = handed \cup (m..(r.exp - 1)),
             DrainTo(m, r, FALSE)
      PROVE  AccountedCopies'
  <2>1. m \in Cursors /\ m \in Int
    BY SequencerAssumption DEF Heights, Cursors
  <2>2. r \in Outcomes
    BY <2>1, ContinuationsType DEF TypeOK
  <2>3. expectedBlock' = r.exp /\ r.exp \in Int /\ (NextBlock \/ RunEnds)
    BY <1>9, <2>2, SequencerAssumption DEF DrainTo, Outcomes, Cursors
  <2>4. Fate \subseteq Fate' /\ \A h \in expectedBlock..(r.exp - 1) : h \in Fate'
    BY <1>9, <1>1, <1>3, <2>1, <2>3 DEF Fate
  <2>5. \A h \in StartBlock..(r.exp - 1) : h \in Fate'
    BY <2>3, <2>4, <1>1, <1>2, Extend DEF Accounted
  <2> QED
    BY <2>3, <2>5, <1>4, <1>5 DEF Accounted
<1>10. ASSUME NEW kind \in {"full", "bare"}, BufferAhead(n, kind)
       PROVE  AccountedCopies'
  <2>1. [buffer EXCEPT ![n] = kind] \in [Heights -> {"none", "full", "bare"}]
    BY <1>1 DEF TypeOK
  <2> QED
    BY <1>10, <2>1, <1>6, <1>9 DEF BufferAhead
<1>11. \A kind \in Hydrated(Head(batch)) : kind # "dropped" => kind \in {"full", "bare"}
  <2>1. Head(batch) \in Item
    BY HeadTailProperties DEF TypeOK, HandleBlock
  <2> QED
    BY <2>1 DEF Hydrated, Item
<1> QED
  BY <1>6, <1>7, <1>8, <1>10, <1>11 DEF HandleBlock

\* Phase 1 misses no height of its run: the heights from the cursor to the one it will
\* store are the items of the run, each with or without a body.
LEMMA RunCovered ==
    ASSUME TypeOK, ClassifyBatch, pc' = "io"
    PROVE  /\ seqBatch'.next \in Int
           /\ seqBatch'.next > expectedBlock
           /\ seqBatch'.full \cup seqBatch'.bare = expectedBlock..(seqBatch'.next - 1)
           /\ seqBatch'.full \cap seqBatch'.bare = {}
<1>1. PICK i \in DOMAIN batch : \E j \in i..Len(batch) :
         /\ IsSequential(i, j)
         /\ seqBatch' = [full |-> OfKind(i, j, "full"), bare |-> OfKind(i, j, "bare"),
                         next |-> expectedBlock + (j - i) + 1]
  BY DEF ClassifyBatch, IsSequentialBatch
<1>2. PICK j \in i..Len(batch) :
         /\ IsSequential(i, j)
         /\ seqBatch' = [full |-> OfKind(i, j, "full"), bare |-> OfKind(i, j, "bare"),
                         next |-> expectedBlock + (j - i) + 1]
  BY <1>1
<1>3. batch \in Seq(Item) /\ i \in 1..Len(batch) /\ Len(batch) \in Nat
      /\ i \in Int /\ j \in Int /\ expectedBlock \in Int
  BY SequencerAssumption DEF TypeOK, Cursors
<1> DEFINE next == expectedBlock + (j - i) + 1
<1>4. ASSUME NEW h \in expectedBlock..(next - 1)
      PROVE  h \in OfKind(i, j, "full") \cup OfKind(i, j, "bare")
  <2> DEFINE k == i + (h - expectedBlock)
  <2>1. k \in i..j /\ k \in 1..Len(batch)
    BY <1>3
  <2>2. batch[k].num = h /\ batch[k].kind # "err"
    <3>1. expectedBlock + (k - i) = h
      BY <1>3
    <3> HIDE DEF k
    <3>2. batch[k].num = expectedBlock + (k - i) /\ batch[k].kind # "err"
      BY <1>2, <2>1 DEF IsSequential
    <3> QED
      BY <3>1, <3>2
  <2>3. batch[k] \in Item
    BY <1>3, <2>1, ElementOfSeq
  <2>4. batch[k].kind = "full" \/ batch[k].kind = "bare"
    BY <2>2, <2>3 DEF Item
  <2> HIDE DEF k
  <2> QED
    BY <2>1, <2>2, <2>4 DEF OfKind
<1>5. ASSUME NEW m \in i..j
      PROVE  m \in Int /\ batch[m].num = expectedBlock + (m - i)
  BY <1>2, <1>3 DEF IsSequential
<1>6. ASSUME NEW kind, NEW h \in OfKind(i, j, kind)
      PROVE  h \in expectedBlock..(next - 1)
  <2>1. PICK m \in i..j : h = batch[m].num
    BY DEF OfKind
  <2>2. m \in Int /\ h = expectedBlock + (m - i)
    BY <2>1, <1>5
  <2> QED
    BY <2>2, <1>3
<1>7. ASSUME NEW h \in OfKind(i, j, "full"), h \in OfKind(i, j, "bare")
      PROVE  FALSE
  <2>1. PICK m \in i..j : h = batch[m].num /\ batch[m].kind = "full"
    BY DEF OfKind
  <2>2. PICK k \in i..j : h = batch[k].num /\ batch[k].kind = "bare"
    BY <1>7 DEF OfKind
  <2>3. /\ m \in Int /\ h = expectedBlock + (m - i)
        /\ k \in Int /\ h = expectedBlock + (k - i)
    BY <2>1, <2>2, <1>5
  <2>4. m = k
    BY <2>3, <1>3
  <2> QED
    BY <2>1, <2>2, <2>4
<1>8. /\ seqBatch'.full = OfKind(i, j, "full") /\ seqBatch'.bare = OfKind(i, j, "bare")
      /\ seqBatch'.next = next /\ next \in Int /\ next > expectedBlock
  BY <1>2, <1>3
<1> HIDE DEF next
<1> QED
  BY <1>4, <1>6, <1>7, <1>8

\* Phase 1 accounts for its cursor: below it lie the old cursor's heights and the
\* blocks of the run.
LEMMA ClassifyAccounted ==
    TypeOK /\ AccountedCopies /\ ClassifyBatch => AccountedCopies'
<1> SUFFICES ASSUME TypeOK, AccountedCopies, ClassifyBatch PROVE AccountedCopies'
  OBVIOUS
<1>1. /\ Accounted(expectedBlock)' /\ Accounted(expectedBlock) /\ Fate' = Fate
      /\ pc' \in {"io", "blocks"}
  BY DEF ClassifyBatch, AccountedCopies, Accounted, Fate, historyVars
<1>2. CASE pc' = "blocks"
  BY <1>1, <1>2 DEF AccountedCopies
<1>3. CASE pc' = "io"
  <2> DEFINE next == seqBatch'.next
             all == Fate \cup seqBatch'.full \cup seqBatch'.bare
  <2>1. next \in Int /\ Fate \subseteq all /\ \A h \in expectedBlock..(next - 1) : h \in all
    BY <1>3, RunCovered
  <2>2. expectedBlock \in Int
    BY SequencerAssumption DEF TypeOK, Cursors
  <2>3. \A h \in StartBlock..(expectedBlock - 1) : h \in Fate
    BY <1>1 DEF Accounted
  <2>4. \A h \in StartBlock..(next - 1) : h \in all
    <3> HIDE DEF all, next
    <3> QED
      BY <2>1, <2>2, <2>3, Extend
  <2> QED
    BY <2>4, <1>1, <1>3 DEF AccountedCopies
<1> QED
  BY <1>1, <1>2, <1>3

\* Every step of every party keeps the cursor and its copies accounted for.
LEMMA AccountedStep ==
    TypeOK /\ AccountedCopies /\ [Next]_vars => AccountedCopies'
<1> SUFFICES ASSUME TypeOK, AccountedCopies, [Next]_vars PROVE AccountedCopies'
  OBVIOUS
<1>a. expectedBlock \in Int /\ seqBatch.next \in Int /\ stall.exp \in Int
  BY SequencerAssumption DEF TypeOK, Cursors
<1>b. Accounted(expectedBlock)
  BY DEF AccountedCopies
<1>c. ASSUME UNCHANGED <<expectedBlock, seqBatch, stall, historyVars>>,
             pc' = pc \/ pc' \notin {"io", "commit", "stall"}
      PROVE  AccountedCopies'
  BY <1>c DEF AccountedCopies, Accounted, Fate, historyVars
<1>1. ASSUME NEW h \in Heights, NEW k \in {"full", "bare", "err"}, CollectBatch(h, k)
      PROVE  AccountedCopies'
  BY <1>1, <1>c DEF CollectBatch, sharedVars
<1>2. CASE ClassifyBatch
  BY <1>2, ClassifyAccounted
<1>3. CASE ProcessBatch
  BY <1>3 DEF ProcessBatch, AccountedCopies, Accounted, Fate, sharedVars
<1>4. CASE CommitBatch
  <2>1. PICK r \in Continuations(seqBatch.next, buffer, fetcherPaused) :
           /\ expectedBlock' = r.exp
           /\ handed' = handed \cup (seqBatch.next..(r.exp - 1))
    BY <1>4 DEF CommitBatch
  <2>2. r.exp \in Int
    <3>1. r \in Outcomes
      BY ContinuationsType DEF TypeOK
    <3> QED
      BY <3>1, SequencerAssumption DEF Outcomes, Cursors
  <2>3. Fate \subseteq Fate' /\ \A h \in seqBatch.next..(r.exp - 1) : h \in Fate'
    BY <1>4, <2>1 DEF CommitBatch, Fate
  <2>4. Accounted(seqBatch.next)
    BY <1>4 DEF CommitBatch, AccountedCopies
  <2>5. \A h \in StartBlock..(r.exp - 1) : h \in Fate'
    BY <1>a, <2>2, <2>3, <2>4, Extend DEF Accounted
  <2>6. pc' \in {"down", "blocks"}
    BY <1>4 DEF CommitBatch
  <2> QED
    BY <2>1, <2>5, <2>6 DEF AccountedCopies, Accounted
<1>5. CASE HandleBlock
  BY <1>5, HandleBlockAccounted
<1>6. CASE BatchDone
  BY <1>6, <1>c DEF BatchDone, sharedVars
<1>7. CASE StallRead
  BY <1>7 DEF StallRead, AccountedCopies, Accounted, Fate, sharedVars, historyVars
<1>8. CASE StallGapFill
  BY <1>8 DEF StallGapFill, StallEnds, AccountedCopies, Accounted, Fate
<1>9. CASE StallGapBypass
  <2>1. /\ expectedBlock' = stall.min /\ pc' = "select"
        /\ Fate' = Fate \cup (stall.exp..(stall.min - 1))
    BY <1>9 DEF StallGapBypass, StallEnds, Fate
  <2>2. stall.min \in Int /\ Accounted(stall.exp)
    BY <1>9, SequencerAssumption DEF StallGapBypass, AccountedCopies, TypeOK, Heights, None
  <2>3. \A h \in StartBlock..(stall.min - 1) : h \in Fate'
    BY <1>a, <2>1, <2>2, Extend DEF Accounted
  <2> QED
    BY <2>1, <2>3 DEF AccountedCopies, Accounted
<1>10. CASE StallSkip
  <2>1. /\ expectedBlock' = expectedBlock + 1 /\ pc' = "select"
        /\ Fate \subseteq Fate' /\ expectedBlock \in Fate'
    BY <1>10 DEF StallSkip, StallEnds, Fate
  <2> QED
    BY <2>1, <1>a, <1>b DEF AccountedCopies, Accounted
<1>11. CASE Restart \/ SupervisorStops
  BY <1>11, <1>c DEF Restart, SupervisorStops, sharedVars
<1>12. CASE WatchdogWakes
  BY <1>12, <1>c DEF WatchdogWakes, sharedVars
<1>13. ASSUME NEW h \in Heights, WatchdogCheck(h) PROVE AccountedCopies'
  BY <1>13, <1>c DEF WatchdogCheck, sharedVars
<1>14. CASE ResetExpectedBlock
  <2>1. /\ expectedBlock' = wd.target /\ UNCHANGED <<pc, seqBatch, stall>>
        /\ Fate' = Fate \cup (expectedBlock..(wd.target - 1))
    BY <1>14 DEF ResetExpectedBlock, Fate
  <2>2. wd.target \in Int
    BY SequencerAssumption DEF TypeOK, Heights
  <2>3. \A h \in StartBlock..(wd.target - 1) : h \in Fate'
    BY <1>a, <1>b, <2>1, <2>2, Extend DEF Accounted
  <2> QED
    BY <2>1, <2>3 DEF AccountedCopies, Accounted
<1>15. CASE ClearBuffer
  BY <1>15, <1>c DEF ClearBuffer
<1>16. CASE Shutdown
  <2>1. PICK r \in Continuations(expectedBlock, buffer, fetcherPaused) :
           /\ expectedBlock' = r.exp
           /\ handed' = handed \cup (expectedBlock..(r.exp - 1))
    BY <1>16 DEF Shutdown
  <2>2. r.exp \in Int
    <3>1. r \in Outcomes
      BY ContinuationsType DEF TypeOK
    <3> QED
      BY <3>1, SequencerAssumption DEF Outcomes, Cursors
  <2>3. Fate \subseteq Fate' /\ \A h \in expectedBlock..(r.exp - 1) : h \in Fate'
    BY <1>16, <2>1 DEF Shutdown, Fate
  <2>4. \A h \in StartBlock..(r.exp - 1) : h \in Fate'
    BY <1>a, <1>b, <2>2, <2>3, Extend DEF Accounted
  <2>5. pc' = "stopped"
    BY <1>16 DEF Shutdown
  <2> QED
    BY <2>1, <2>4, <2>5 DEF AccountedCopies, Accounted
<1>17. CASE TimePasses
  BY <1>17, <1>c DEF TimePasses
<1>18. ASSUME NEW h \in Heights, FetchLost(h) PROVE AccountedCopies'
  BY <1>18, <1>c DEF FetchLost, sharedVars
<1>19. CASE UNCHANGED vars
  BY <1>19, <1>c DEF vars, sharedVars
<1> QED
  BY <1>1, <1>2, <1>3, <1>4, <1>5, <1>6, <1>7, <1>8, <1>9, <1>10, <1>11, <1>12, <1>13,
     <1>14, <1>15, <1>16, <1>17, <1>18, <1>19 DEF Next, RunStep

\* For every configuration, no interleaving of batch commits, stall skips, gap
\* bypasses, watchdog resets, panics and restarts lets expectedBlock pass a height
\* that was not handed over, passed over for want of a body, skipped in the log, or
\* stepped over by a stall skip whose copy of the cursor was stale.
THEOREM NothingUnaccounted == Spec => []NoUnaccountedHeight
<1>1. Init => AccountedCopies
  BY SequencerAssumption DEF Init, AccountedCopies, Accounted
<1>2. AccountedCopies => NoUnaccountedHeight
  BY DEF AccountedCopies, Accounted, Fate, NoUnaccountedHeight
<1> QED
  BY <1>1, <1>2, AccountedStep, TypeCorrect, PTL DEF Spec

(***************************************************************************)
(* The reorder buffer is bounded.                                          *)
(***************************************************************************)
\* Sets of heights are finite, so a smaller one has no more elements.
LEMMA SizeMonotone ==
    ASSUME NEW S \in SUBSET Heights, NEW T \in SUBSET S
    PROVE  /\ IsFiniteSet(S) /\ Cardinality(S) \in Nat
           /\ Cardinality(T) \in Nat /\ Cardinality(T) <= Cardinality(S)
<1>1. IsFiniteSet(Heights)
  BY FS_Interval, SequencerAssumption DEF Heights
<1>2. IsFiniteSet(S)
  BY <1>1, FS_Subset
<1>3. IsFiniteSet(T) /\ Cardinality(T) <= Cardinality(S)
  BY <1>2, FS_Subset
<1> QED
  BY <1>2, <1>3, FS_CardinalityType

\* The drain loop never adds a height to the buffer; started at the smallest buffered
\* height it removes that one, or a reorg there leaves nothing else.
LEMMA ContinuationsShrink ==
    ASSUME NEW e \in Cursors,
           NEW buf \in [Heights -> {"none", "full", "bare"}],
           NEW paused \in BOOLEAN,
           NEW r \in Continuations(e, buf, paused)
    PROVE  /\ Buffered(r.buf) \subseteq Buffered(buf)
           /\ IsMinBuffered(e, buf) =>
                \/ Buffered(r.buf) \subseteq Buffered(buf) \ {e}
                \/ Buffered(r.buf) \subseteq {e}
<1>1. PICK k \in e..(MaxBlock + 1) :
          r \in ContinuationEnds(e, k, buf, paused)
                  \cup ContinuationReorgs(e, k, buf)
                  \cup ContinuationPanics(e, k, buf, paused)
  BY DEF Continuations
<1>2. k \in Int /\ e \in Int /\ k >= e
  BY SequencerAssumption DEF Cursors
<1>3. CASE r \in ContinuationEnds(e, k, buf, paused)
  <2>1. r.buf = Without(e, k - 1, buf) /\ (k \in Heights => buf[k] = "none")
    BY <1>3 DEF ContinuationEnds, Outcome
  <2>2. \A h \in Heights : r.buf[h] = IF h \in e..(k - 1) THEN "none" ELSE buf[h]
    BY <2>1 DEF Without
  <2>3. IsMinBuffered(e, buf) => k > e
    BY <1>2, <2>1 DEF IsMinBuffered, Buffered
  <2> QED
    BY <1>2, <2>2, <2>3 DEF Buffered
<1>4. CASE r \in ContinuationReorgs(e, k, buf)
  <2> DEFINE b == [PurgeFrom(k, Without(e, k - 1, buf)) EXCEPT ![k] = "full"]
  <2>1. /\ k \in Heights /\ buf[k] = "full"
        /\ r = Outcome(k, b, ResumeIfLow(b, TRUE), FALSE)
    BY <1>4 DEF ContinuationReorgs
  <2>2. r.buf = b
    <3> HIDE DEF b
    <3> QED
      BY <2>1 DEF Outcome
  <2>3. \A h \in Heights : b[h] = IF h = k THEN "full"
                                  ELSE IF h >= k \/ h \in e..(k - 1) THEN "none"
                                  ELSE buf[h]
    BY <2>1 DEF PurgeFrom, Without
  <2>4. Heights \subseteq Int
    BY SequencerAssumption DEF Heights
  <2> HIDE DEF b
  <2>5. Buffered(b) \subseteq Buffered(buf)
    BY <2>1, <2>3 DEF Buffered
  <2>6. CASE k > e
    BY <1>2, <2>2, <2>3, <2>5, <2>6 DEF Buffered
  <2>7. CASE k = e
    <3>1. IsMinBuffered(e, buf) => Buffered(b) \subseteq {e}
      BY <1>2, <2>3, <2>4, <2>7 DEF Buffered, IsMinBuffered
    <3> QED
      BY <3>1, <2>2, <2>5
  <2> QED
    BY <1>2, <2>6, <2>7
<1>5. CASE r \in ContinuationPanics(e, k, buf, paused)
  <2>1. r.buf = Without(e, k, buf)
    BY <1>5 DEF ContinuationPanics, Outcome
  <2>2. \A h \in Heights : r.buf[h] = IF h \in e..k THEN "none" ELSE buf[h]
    BY <2>1 DEF Without
  <2> QED
    BY <1>2, <2>2 DEF Buffered
<1> QED
  BY <1>1, <1>3, <1>4, <1>5

\* Handling one block keeps the buffer within its limit.
LEMMA HandleBlockBounded ==
    TypeOK /\ BufferBounded /\ HandleBlock => BufferBounded'
<1> SUFFICES ASSUME TypeOK, BufferBounded, HandleBlock PROVE BufferBounded'
  OBVIOUS
<1> DEFINE n == Head(batch).num
<1>1. n \in Heights /\ n + 1 \in Cursors
  <2>1. Head(batch) \in Item
    BY HeadTailProperties DEF TypeOK, HandleBlock
  <2> QED
    BY <2>1, SequencerAssumption DEF Item, Heights, Cursors
<1>2. Buffered(buffer) \in SUBSET Heights
  BY DEF Buffered
<1>3. ASSUME Buffered(buffer') \subseteq Buffered(buffer) PROVE BufferBounded'
  <2>1. Cardinality(Buffered(buffer')) <= Cardinality(Buffered(buffer))
        /\ Cardinality(Buffered(buffer')) \in Nat /\ Cardinality(Buffered(buffer)) \in Nat
    BY <1>2, <1>3, SizeMonotone
  <2> QED
    BY <2>1, SequencerAssumption DEF BufferBounded, GetBufferSize
<1>4. CASE UNCHANGED buffer
  BY <1>4, <1>3
<1>5. CASE ProcessSequential(n)
  <2>1. PICK r \in Continuations(n + 1, buffer, fetcherPaused) : buffer' = r.buf
    BY <1>5 DEF ProcessSequential, DrainTo
  <2> QED
    BY <2>1, <1>1, <1>3, ContinuationsShrink DEF TypeOK
<1>6. CASE HandleReorg(n)
  BY <1>6, <1>3 DEF HandleReorg, PurgeFrom, Buffered
<1>7. ASSUME NEW kind \in {"full", "bare"}, BufferAhead(n, kind)
      PROVE  BufferBounded'
  <2> DEFINE buf == [buffer EXCEPT ![n] = kind]
  <2>1. buf \in [Heights -> {"none", "full", "bare"}]
    BY <1>1 DEF TypeOK
  <2>2. CASE GetBufferSize(buf) <= BufferLimit /\ buffer' = buf
    BY <2>2 DEF BufferBounded
  <2>3. ASSUME NEW m \in Heights, IsMinBuffered(m, buf),
               NEW r \in Continuations(m, buf, fetcherPaused), buffer' = r.buf
        PROVE  BufferBounded'
    <3>1. m \in Cursors
      BY SequencerAssumption DEF Heights, Cursors
    <3>2. \/ Buffered(buffer') \subseteq Buffered(buf) \ {m}
          \/ Buffered(buffer') \subseteq {m}
      <4>1. fetcherPaused \in BOOLEAN
        BY DEF TypeOK
      <4> HIDE DEF buf
      <4> QED
        BY <2>1, <2>3, <3>1, <4>1, ContinuationsShrink
    <3>3. CASE Buffered(buffer') \subseteq {m}
      <4>1. Cardinality({m}) = 1 /\ {m} \in SUBSET Heights
        BY FS_Singleton
      <4>2. Cardinality(Buffered(buffer')) <= 1 /\ Cardinality(Buffered(buffer')) \in Nat
        BY <3>3, <4>1, SizeMonotone
      <4> QED
        BY <4>2, SequencerAssumption DEF BufferBounded, GetBufferSize
    <3>4. CASE Buffered(buffer') \subseteq Buffered(buf) \ {m}
      <4>1. Buffered(buf) \subseteq Buffered(buffer) \cup {n} /\ m \in Buffered(buf)
        BY <1>1, <2>3 DEF Buffered, IsMinBuffered, TypeOK
      <4>2. IsFiniteSet(Buffered(buffer)) /\ Cardinality(Buffered(buffer)) \in Nat
        BY <1>2, SizeMonotone
      <4>3. Cardinality(Buffered(buffer) \cup {n}) <= Cardinality(Buffered(buffer)) + 1
        <5>1. Cardinality(Buffered(buffer) \cup {n})
                = IF n \in Buffered(buffer) THEN Cardinality(Buffered(buffer))
                  ELSE Cardinality(Buffered(buffer)) + 1
          BY <4>2, FS_AddElement
        <5> QED
          BY <4>2, <5>1
      <4>4. Buffered(buffer) \cup {n} \in SUBSET Heights /\ Buffered(buf) \in SUBSET Heights
        BY <1>1 DEF Buffered
      <4> HIDE DEF buf
      <4>5. /\ IsFiniteSet(Buffered(buf)) /\ Cardinality(Buffered(buf)) \in Nat
            /\ Cardinality(Buffered(buffer) \cup {n}) \in Nat
            /\ Cardinality(Buffered(buf)) <= Cardinality(Buffered(buffer) \cup {n})
        BY <4>1, <4>4, SizeMonotone
      <4>6. Cardinality(Buffered(buf) \ {m}) = Cardinality(Buffered(buf)) - 1
        BY <4>1, <4>5, FS_RemoveElement
      <4>7. /\ Cardinality(Buffered(buffer')) <= Cardinality(Buffered(buf) \ {m})
            /\ Cardinality(Buffered(buffer')) \in Nat
        BY <3>4, <4>4, SizeMonotone
      <4>8. Cardinality(Buffered(buffer)) <= BufferLimit
        BY DEF BufferBounded, GetBufferSize
      <4>9. Cardinality(Buffered(buffer')) <= BufferLimit
        BY <4>2, <4>3, <4>5, <4>6, <4>7, <4>8, SequencerAssumption
      <4> QED
        BY <4>9 DEF BufferBounded, GetBufferSize
    <3> QED
      BY <3>2, <3>3, <3>4
  <2> QED
    BY <1>7, <2>2, <2>3 DEF BufferAhead, DrainTo
<1>8. \A kind \in Hydrated(Head(batch)) : kind # "dropped" => kind \in {"full", "bare"}
  <2>1. Head(batch) \in Item
    BY HeadTailProperties DEF TypeOK, HandleBlock
  <2> QED
    BY <2>1 DEF Hydrated, Item
<1> QED
  BY <1>4, <1>5, <1>6, <1>7, <1>8 DEF HandleBlock

\* For every limit, the reorder map never exceeds it, whatever arrives in whatever
\* order and however the drain that enforceBufferLimit starts ends.
THEOREM BufferStaysBounded == Spec => []BufferBounded
<1>1. Init => BufferBounded
  <2>1. ASSUME Init PROVE Buffered(buffer) = {}
    BY <2>1 DEF Init, Buffered, EmptyBuffer
  <2> QED
    BY <2>1, FS_EmptySet, SequencerAssumption DEF BufferBounded, GetBufferSize
<1>2. TypeOK /\ BufferBounded /\ [Next]_vars => BufferBounded'
  <2> SUFFICES ASSUME TypeOK, BufferBounded, [Next]_vars PROVE BufferBounded'
    OBVIOUS
  <2>1. ASSUME Buffered(buffer') \subseteq Buffered(buffer) PROVE BufferBounded'
    <3>1. Buffered(buffer) \in SUBSET Heights
      BY DEF Buffered
    <3>2. Cardinality(Buffered(buffer')) <= Cardinality(Buffered(buffer))
          /\ Cardinality(Buffered(buffer')) \in Nat /\ Cardinality(Buffered(buffer)) \in Nat
      BY <2>1, <3>1, SizeMonotone
    <3> QED
      BY <3>2, SequencerAssumption DEF BufferBounded, GetBufferSize
  <2>2. CASE HandleBlock
    BY <2>2, HandleBlockBounded
  <2>3. CASE CommitBatch
    <3>1. PICK r \in Continuations(seqBatch.next, buffer, fetcherPaused) : buffer' = r.buf
      BY <2>3 DEF CommitBatch
    <3> QED
      BY <2>1, <3>1, ContinuationsShrink DEF TypeOK
  <2>4. CASE Shutdown
    <3>1. PICK r \in Continuations(expectedBlock, buffer, fetcherPaused) : buffer' = r.buf
      BY <2>4 DEF Shutdown
    <3> QED
      BY <2>1, <3>1, ContinuationsShrink DEF TypeOK
  <2>5. CASE ClearBuffer
    BY <2>1, <2>5 DEF ClearBuffer, EmptyBuffer, Buffered
  <2>6. CASE UNCHANGED buffer
    BY <2>1, <2>6
  <2>7. \/ HandleBlock \/ CommitBatch \/ Shutdown \/ ClearBuffer \/ UNCHANGED buffer
    BY DEF Next, RunStep, vars, sharedVars, CollectBatch, ClassifyBatch, ProcessBatch,
           BatchDone, StallRead, StallGapFill, StallGapBypass, StallSkip, StallEnds,
           Restart, WatchdogWakes, WatchdogCheck, ResetExpectedBlock, SupervisorStops,
           TimePasses, FetchLost
  <2> QED
    BY <2>2, <2>3, <2>4, <2>5, <2>6, <2>7
<1> QED
  BY <1>1, <1>2, TypeCorrect, PTL DEF Spec

(***************************************************************************)
(* The cursor does not jump over a buffered block.                         *)
(*                                                                         *)
(* The property is about single steps, but phase 3A needs an invariant: it *)
(* stores a cursor computed two lock sections earlier, and the watchdog    *)
(* may have moved the cursor back in between.  Until it clears the map,    *)
(* blocks lie between the two that nobody handed over; afterwards the map  *)
(* is empty, and Run, busy with its batch, adds nothing to it.             *)
(***************************************************************************)
\* What is buffered between the cursor and the cursor phase 1 computed is part of the
\* batch or done with, unless the watchdog is about to clear the map.
RunIsDone ==
    wd.step # "clear" =>
      /\ pc = "io" => \A h \in Buffered(buffer) :
           h \in expectedBlock..(seqBatch.next - 1)
             => h \in handed \cup hollow \cup seqBatch.full \cup seqBatch.bare
      /\ pc = "commit" => \A h \in Buffered(buffer) :
           h \in expectedBlock..(seqBatch.next - 1) => h \in handed \cup hollow

\* Every step keeps it: the watchdog moves the cursor only on its way to clearing.
LEMMA RunIsDoneStep == TypeOK /\ RunIsDone /\ [Next]_vars => RunIsDone'
<1> SUFFICES ASSUME TypeOK, RunIsDone, [Next]_vars PROVE RunIsDone'
  OBVIOUS
<1>1. CASE pc' \notin {"io", "commit"}
  BY <1>1 DEF RunIsDone
<1>2. CASE ClassifyBatch
  <2>1. pc' # "commit"
    BY <1>2 DEF ClassifyBatch
  <2>2. CASE pc' = "io"
    <3>1. \A h \in expectedBlock..(seqBatch'.next - 1) :
             h \in seqBatch'.full \cup seqBatch'.bare
      BY <1>2, <2>2, RunCovered
    <3>2. expectedBlock' = expectedBlock
      BY <1>2 DEF ClassifyBatch
    <3> QED
      BY <2>1, <3>1, <3>2 DEF RunIsDone
  <2> QED
    BY <2>1, <2>2, <1>1
<1>3. CASE ProcessBatch
  BY <1>3 DEF ProcessBatch, RunIsDone, sharedVars
<1>4. CASE ClearBuffer
  <2>1. Buffered(buffer') = {}
    BY <1>4 DEF ClearBuffer, Buffered, EmptyBuffer
  <2> QED
    BY <2>1 DEF RunIsDone
<1>5. CASE wd'.step = "clear"
  BY <1>5 DEF RunIsDone
<1>6. CASE /\ UNCHANGED <<expectedBlock, buffer, seqBatch, pc, handed, hollow>>
           /\ wd.step # "clear" \/ wd'.step = "clear"
  BY <1>6 DEF RunIsDone
<1>7. CASE HandleBlock
  <2>1. NextBlock \/ RunEnds
    BY <1>7 DEF HandleBlock, ProcessSequential, HandleReorg, BufferAhead, DrainTo
  <2> QED
    BY <2>1, <1>1 DEF NextBlock, RunEnds
<1>8. CASE ResetExpectedBlock
  <2>1. wd'.step = "clear"
    BY <1>8 DEF ResetExpectedBlock, TypeOK
  <2> QED
    BY <2>1, <1>5
<1>9. ASSUME NEW h \in Heights, WatchdogCheck(h) PROVE RunIsDone'
  BY <1>9, <1>6 DEF WatchdogCheck, sharedVars, historyVars
<1>10. CASE WatchdogWakes
  BY <1>10, <1>6 DEF WatchdogWakes, sharedVars, historyVars
<1>11. CASE CommitBatch \/ BatchDone \/ StallRead \/ Restart \/ Shutdown \/ SupervisorStops
  <2>1. pc' \in {"blocks", "select", "stall", "stopped", "down"}
    BY <1>11 DEF CommitBatch, BatchDone, StallRead, Restart, Shutdown, SupervisorStops
  <2> QED
    BY <2>1, <1>1
<1>12. CASE StallGapFill \/ StallGapBypass \/ StallSkip
  <2>1. pc' = "select"
    BY <1>12 DEF StallGapFill, StallGapBypass, StallSkip, StallEnds
  <2> QED
    BY <2>1, <1>1
<1>13. ASSUME NEW h \in Heights, NEW k \in {"full", "bare", "err"}, CollectBatch(h, k)
       PROVE  RunIsDone'
  BY <1>13, <1>1 DEF CollectBatch
<1>14. CASE TimePasses
  BY <1>14, <1>6 DEF TimePasses, historyVars
<1>15. ASSUME NEW h \in Heights, FetchLost(h) PROVE RunIsDone'
  BY <1>15, <1>6 DEF FetchLost, sharedVars, historyVars
<1>16. CASE UNCHANGED vars
  BY <1>16, <1>6 DEF vars, sharedVars, historyVars
<1> QED
  BY <1>2, <1>3, <1>4, <1>7, <1>8, <1>9, <1>10, <1>11, <1>12, <1>13, <1>14, <1>15, <1>16
     DEF Next, RunStep

\* The statement of BufferedNotJumped about one step.
NotJumped ==
    \A h \in Buffered(buffer) :
      h >= expectedBlock /\ h < expectedBlock' /\ pc # "stall" /\ wd'.step # "clear"
        => h \in handed' \cup hollow'

\* Handling one block hands over every buffered block it passes: the drain starts
\* at the next height, or at the smallest one buffered.
LEMMA HandleBlockNotJumped == TypeOK /\ HandleBlock => NotJumped
<1> SUFFICES ASSUME TypeOK, HandleBlock PROVE NotJumped
  OBVIOUS
<1> DEFINE n == Head(batch).num
<1>1. n \in Heights /\ n + 1 \in Cursors /\ expectedBlock \in Int /\ Heights \subseteq Int
  <2>1. Head(batch) \in Item /\ expectedBlock \in Cursors
    BY HeadTailProperties DEF TypeOK, HandleBlock
  <2> QED
    BY <2>1, SequencerAssumption DEF Item, Heights, Cursors
<1>2. \A h \in Buffered(buffer) : h \in Int
  BY <1>1 DEF Buffered
<1>3. CASE expectedBlock' = expectedBlock
  BY <1>1, <1>2, <1>3 DEF NotJumped
<1>4. CASE n = expectedBlock /\ ProcessSequential(n)
  <2>1. PICK r \in Continuations(n + 1, buffer, fetcherPaused) :
           /\ handed' = handed \cup (n..(r.exp - 1))
           /\ expectedBlock' = r.exp
    BY <1>4 DEF ProcessSequential, DrainTo
  <2>2. r.exp \in Int
    BY <1>1, ContinuationsType, SequencerAssumption DEF TypeOK, Outcomes, Cursors
  <2> QED
    BY <1>1, <1>2, <1>4, <2>1, <2>2 DEF NotJumped
<1>5. ASSUME NEW kind \in {"full", "bare"}, BufferAhead(n, kind) PROVE NotJumped
  <2> DEFINE buf == [buffer EXCEPT ![n] = kind]
  <2>1. buf \in [Heights -> {"none", "full", "bare"}]
    BY <1>1 DEF TypeOK
  <2>2. Buffered(buffer) \subseteq Buffered(buf)
    BY <1>1 DEF Buffered, TypeOK
  <2>3. CASE UNCHANGED expectedBlock
    BY <2>3, <1>3
  <2>4. ASSUME NEW m \in Heights, IsMinBuffered(m, buf),
               NEW r \in Continuations(m, buf, fetcherPaused),
               handed' = handed \cup (m..(r.exp - 1)),
               expectedBlock' = r.exp
        PROVE  NotJumped
    <3>1. m \in Cursors /\ m \in Int
      BY SequencerAssumption DEF Heights, Cursors
    <3>2. r.exp \in Int
      <4> HIDE DEF buf
      <4>1. r \in Outcomes
        BY <2>1, <3>1, ContinuationsType DEF TypeOK
      <4> QED
        BY <4>1, SequencerAssumption DEF Outcomes, Cursors
    <3>3. \A h \in Buffered(buffer) : m <= h
      BY <2>2, <2>4 DEF IsMinBuffered
    <3> QED
      BY <1>1, <1>2, <2>4, <3>1, <3>2, <3>3 DEF NotJumped
  <2> QED
    BY <1>5, <2>3, <2>4 DEF BufferAhead, DrainTo
<1>6. \A kind \in Hydrated(Head(batch)) : kind # "dropped" => kind \in {"full", "bare"}
  <2>1. Head(batch) \in Item
    BY HeadTailProperties DEF TypeOK, HandleBlock
  <2> QED
    BY <2>1 DEF Hydrated, Item
<1>7. CASE n = expectedBlock /\ HandleReorg(n)
  BY <1>3, <1>7 DEF HandleReorg
<1> QED
  BY <1>3, <1>4, <1>5, <1>6, <1>7 DEF HandleBlock

\* A step of any party passes no buffered block that is not done with, the stall
\* handler and the watchdog's reset apart.
LEMMA NotJumpedStep == TypeOK /\ RunIsDone /\ Next => NotJumped
<1> SUFFICES ASSUME TypeOK, RunIsDone, Next PROVE NotJumped
  OBVIOUS
<1>1. expectedBlock \in Int /\ seqBatch.next \in Int /\ Heights \subseteq Int
  BY SequencerAssumption DEF TypeOK, Cursors, Heights
<1>2. \A h \in Buffered(buffer) : h \in Int
  BY <1>1 DEF Buffered
<1>3. CASE UNCHANGED expectedBlock
  BY <1>1, <1>2, <1>3 DEF NotJumped
<1>4. CASE pc = "stall" \/ wd'.step = "clear"
  BY <1>4 DEF NotJumped
<1>5. CASE HandleBlock
  BY <1>5, HandleBlockNotJumped
<1>6. CASE CommitBatch
  <2>1. PICK r \in Continuations(seqBatch.next, buffer, fetcherPaused) :
           /\ expectedBlock' = r.exp
           /\ handed' = handed \cup (seqBatch.next..(r.exp - 1))
    BY <1>6 DEF CommitBatch
  <2>2. r.exp \in Int
    <3>1. r \in Outcomes
      BY ContinuationsType DEF TypeOK
    <3> QED
      BY <3>1, SequencerAssumption DEF Outcomes, Cursors
  <2>3. pc = "commit" /\ wd' = wd /\ hollow' = hollow
    BY <1>6 DEF CommitBatch
  <2>4. ASSUME NEW h \in Buffered(buffer), h >= expectedBlock, h < r.exp, wd.step # "clear"
        PROVE  h \in handed' \cup hollow'
    <3>1. CASE h < seqBatch.next
      BY <1>1, <1>2, <2>1, <2>3, <2>4, <3>1 DEF RunIsDone
    <3>2. CASE h >= seqBatch.next
      BY <1>1, <1>2, <2>1, <2>2, <2>4, <3>2
    <3> QED
      BY <1>1, <1>2, <3>1, <3>2
  <2> QED
    BY <2>1, <2>3, <2>4 DEF NotJumped
<1>7. CASE Shutdown
  <2>1. PICK r \in Continuations(expectedBlock, buffer, fetcherPaused) :
           /\ expectedBlock' = r.exp
           /\ handed' = handed \cup (expectedBlock..(r.exp - 1))
    BY <1>7 DEF Shutdown
  <2>2. r.exp \in Int
    <3>1. r \in Outcomes
      BY ContinuationsType DEF TypeOK
    <3> QED
      BY <3>1, SequencerAssumption DEF Outcomes, Cursors
  <2> QED
    BY <1>1, <1>2, <2>1, <2>2 DEF NotJumped
<1>8. CASE ResetExpectedBlock
  <2>1. wd'.step = "clear"
    BY <1>8 DEF ResetExpectedBlock, TypeOK
  <2> QED
    BY <2>1, <1>4
<1>9. CASE StallGapBypass \/ StallSkip
  BY <1>4, <1>9 DEF StallGapBypass, StallSkip
<1>10. \/ HandleBlock \/ CommitBatch \/ Shutdown \/ ResetExpectedBlock
       \/ StallGapBypass \/ StallSkip \/ UNCHANGED expectedBlock
  BY DEF Next, RunStep, sharedVars, CollectBatch, ClassifyBatch, ProcessBatch, BatchDone,
         StallRead, StallGapFill, Restart, WatchdogWakes, WatchdogCheck, ClearBuffer,
         SupervisorStops, TimePasses, FetchLost
<1> QED
  BY <1>3, <1>5, <1>6, <1>7, <1>8, <1>9, <1>10

\* For every configuration, only the stall handler and the watchdog's reset take the
\* cursor past a buffered block that was neither handed over nor passed over for want
\* of a body, wherever the watchdog steps between the lock sections of a batch.
THEOREM NeverJumpsBuffered == Spec => BufferedNotJumped
<1>1. Init => RunIsDone
  BY DEF Init, RunIsDone
<1>2. TypeOK /\ RunIsDone /\ [Next]_vars => [NotJumped]_vars
  BY NotJumpedStep
<1>3. [][NotJumped]_vars => BufferedNotJumped
  BY DEF BufferedNotJumped, NotJumped
<1> QED
  BY <1>1, <1>2, <1>3, RunIsDoneStep, TypeCorrect, PTL DEF Spec

(***************************************************************************)
(* Without watchdog and overflow the cursor never moves back.              *)
(*                                                                         *)
(* Two steps store a cursor from a copy: phase 3A and the gap bypass.  The *)
(* strengthening says how the copies lie to the cursor while no other      *)
(* party moves it.                                                         *)
(***************************************************************************)
\* The watchdog sleeps, phase 1 computed a cursor not below the present one, and
\* handleStall's copy is the cursor.
CopiesCurrent ==
    /\ wd.step = "watch"
    /\ pc \in {"io", "commit"} => seqBatch.next >= expectedBlock
    /\ pc = "stall" => stall.exp = expectedBlock

\* The buffer limit leaves room for every height: enforceBufferLimit never acts.
NeverOverflows == MaxBlock - StartBlock < BufferLimit

\* A buffer within such a limit holds at most every height.
LEMMA NoOverflow ==
    ASSUME NeverOverflows, NEW buf
    PROVE  ~(GetBufferSize(buf) > BufferLimit)
<1>1. Buffered(buf) \in SUBSET Heights
  BY DEF Buffered
<1>2. Cardinality(Buffered(buf)) \in Nat /\ Cardinality(Buffered(buf)) <= Cardinality(Heights)
  BY <1>1, SizeMonotone
<1>3. Cardinality(Heights) = MaxBlock - StartBlock + 1
  BY FS_Interval, SequencerAssumption DEF Heights
<1> QED
  BY <1>2, <1>3, SequencerAssumption DEF NeverOverflows, GetBufferSize

\* Handling one block moves the cursor forward or leaves it.
LEMMA HandleBlockForward ==
    ASSUME NeverOverflows, TypeOK, HandleBlock
    PROVE  /\ expectedBlock' >= expectedBlock
           /\ pc' \notin {"io", "commit", "stall"}
<1> DEFINE n == Head(batch).num
<1>1. n \in Int /\ n + 1 \in Cursors /\ expectedBlock \in Int
  <2>1. Head(batch) \in Item /\ expectedBlock \in Cursors
    BY HeadTailProperties DEF TypeOK, HandleBlock
  <2> QED
    BY <2>1, SequencerAssumption DEF Item, Heights, Cursors
<1>2. NextBlock \/ RunEnds
  BY DEF HandleBlock, ProcessSequential, HandleReorg, BufferAhead, DrainTo
<1>3. pc' \notin {"io", "commit", "stall"}
  BY <1>2 DEF NextBlock, RunEnds
<1>4. CASE expectedBlock' = expectedBlock
  BY <1>1, <1>3, <1>4
<1>5. CASE n = expectedBlock /\ ProcessSequential(n)
  <2>1. PICK r \in Continuations(n + 1, buffer, fetcherPaused) : expectedBlock' = r.exp
    BY <1>5 DEF ProcessSequential, DrainTo
  <2>2. r.exp \in Int /\ r.exp >= n + 1
    <3>1. r \in Outcomes /\ r.exp >= n + 1
      BY <1>1, ContinuationsType DEF TypeOK
    <3> QED
      BY <3>1, SequencerAssumption DEF Outcomes, Cursors
  <2> QED
    BY <1>1, <1>3, <1>5, <2>1, <2>2
<1>6. ASSUME NEW kind, BufferAhead(n, kind) PROVE expectedBlock' = expectedBlock
  BY <1>6, NoOverflow DEF BufferAhead
<1>7. CASE n = expectedBlock /\ HandleReorg(n)
  BY <1>4, <1>7 DEF HandleReorg
<1> QED
  BY <1>4, <1>5, <1>6, <1>7 DEF HandleBlock

\* Without watchdog and overflow, every step keeps the copies current and takes the
\* cursor forward or leaves it.
LEMMA ForwardStep ==
    ASSUME ~WatchdogEnabled, NeverOverflows, TypeOK, CopiesCurrent, [Next]_vars
    PROVE  CopiesCurrent' /\ expectedBlock' >= expectedBlock
<1>1. expectedBlock \in Int /\ seqBatch.next \in Int /\ wd.step = "watch"
  BY SequencerAssumption DEF TypeOK, Cursors, CopiesCurrent
<1>2. CASE /\ UNCHANGED <<expectedBlock, seqBatch, stall, wd>>
           /\ pc' = pc \/ pc' \notin {"io", "commit", "stall"}
  BY <1>1, <1>2 DEF CopiesCurrent
<1>3. CASE ClassifyBatch
  <2>1. expectedBlock' = expectedBlock /\ wd' = wd /\ pc' \in {"io", "blocks"}
    BY <1>3 DEF ClassifyBatch
  <2>2. pc' = "io" => seqBatch'.next >= expectedBlock
    BY <1>1, <1>3, RunCovered
  <2> QED
    BY <1>1, <2>1, <2>2 DEF CopiesCurrent
<1>4. CASE ProcessBatch
  BY <1>1, <1>4 DEF ProcessBatch, CopiesCurrent, sharedVars
<1>5. CASE CommitBatch
  <2>1. PICK r \in Continuations(seqBatch.next, buffer, fetcherPaused) : expectedBlock' = r.exp
    BY <1>5 DEF CommitBatch
  <2>2. r.exp \in Int /\ r.exp >= seqBatch.next
    <3>1. r \in Outcomes /\ r.exp >= seqBatch.next
      BY ContinuationsType DEF TypeOK
    <3> QED
      BY <3>1, SequencerAssumption DEF Outcomes, Cursors
  <2>3. pc = "commit" /\ wd' = wd /\ pc' \in {"down", "blocks"}
    BY <1>5 DEF CommitBatch
  <2>4. seqBatch.next >= expectedBlock
    BY <2>3 DEF CopiesCurrent
  <2>5. CopiesCurrent'
    BY <1>1, <2>3 DEF CopiesCurrent
  <2> QED
    BY <1>1, <2>1, <2>2, <2>4, <2>5
<1>6. CASE HandleBlock
  <2>1. expectedBlock' >= expectedBlock /\ pc' \notin {"io", "commit", "stall"}
    BY <1>6, HandleBlockForward
  <2>2. wd' = wd
    BY <1>6 DEF HandleBlock
  <2> QED
    BY <1>1, <2>1, <2>2 DEF CopiesCurrent
<1>7. CASE StallRead
  BY <1>1, <1>7 DEF StallRead, CopiesCurrent, sharedVars
<1>8. CASE StallGapFill
  BY <1>1, <1>8 DEF StallGapFill, StallEnds, CopiesCurrent
<1>9. CASE StallGapBypass
  <2>1. /\ stall.exp = expectedBlock /\ stall.min > stall.exp
        /\ expectedBlock' = stall.min /\ pc' = "select" /\ wd' = wd
    BY <1>9 DEF StallGapBypass, StallSeesGap, StallEnds, CopiesCurrent
  <2>2. stall.min \in Int
    BY SequencerAssumption DEF TypeOK, Heights, None
  <2> QED
    BY <1>1, <2>1, <2>2 DEF CopiesCurrent
<1>10. CASE StallSkip
  BY <1>1, <1>10 DEF StallSkip, StallEnds, CopiesCurrent
<1>11. CASE Shutdown
  <2>1. PICK r \in Continuations(expectedBlock, buffer, fetcherPaused) : expectedBlock' = r.exp
    BY <1>11 DEF Shutdown
  <2>2. r.exp \in Int /\ r.exp >= expectedBlock
    <3>1. r \in Outcomes /\ r.exp >= expectedBlock
      BY ContinuationsType DEF TypeOK
    <3> QED
      BY <3>1, SequencerAssumption DEF Outcomes, Cursors
  <2>3. pc' = "stopped" /\ wd' = wd
    BY <1>11 DEF Shutdown
  <2> QED
    BY <1>1, <2>1, <2>2, <2>3 DEF CopiesCurrent
<1>12. ~ResetExpectedBlock /\ ~ClearBuffer /\ ~WatchdogWakes
       /\ \A h \in Heights : ~WatchdogCheck(h)
  BY <1>1 DEF ResetExpectedBlock, ClearBuffer, WatchdogWakes, WatchdogCheck
<1>13. CASE BatchDone \/ Restart \/ SupervisorStops \/ TimePasses \/ UNCHANGED vars
  BY <1>2, <1>13 DEF BatchDone, Restart, SupervisorStops, TimePasses, vars, sharedVars
<1>14. ASSUME NEW h \in Heights, NEW k \in {"full", "bare", "err"}, CollectBatch(h, k)
       PROVE  CopiesCurrent' /\ expectedBlock' >= expectedBlock
  BY <1>2, <1>14 DEF CollectBatch, sharedVars
<1>15. ASSUME NEW h \in Heights, FetchLost(h)
       PROVE  CopiesCurrent' /\ expectedBlock' >= expectedBlock
  BY <1>2, <1>15 DEF FetchLost, sharedVars
<1> QED
  BY <1>3, <1>4, <1>5, <1>6, <1>7, <1>8, <1>9, <1>10, <1>11, <1>12, <1>13, <1>14, <1>15
     DEF Next, RunStep

\* Without watchdog resets and buffer overflows the hand-over order is the chain's
\* order: expectedBlock never moves back, so no height is handed over twice or late.
ExpectedNeverRegresses == [][expectedBlock' >= expectedBlock]_vars

\* With the watchdog off and a buffer limit no set of heights exceeds, expectedBlock
\* never moves back: panics, restarts, reorg reports, stall skips and gap bypasses,
\* in any order, hand the chain over in its order.
THEOREM CursorForward ==
    ASSUME ~WatchdogEnabled, NeverOverflows
    PROVE  Spec => ExpectedNeverRegresses
<1>1. Init => CopiesCurrent
  BY DEF Init, CopiesCurrent
<1>2. TypeOK /\ CopiesCurrent /\ [Next]_vars
        => CopiesCurrent' /\ [expectedBlock' >= expectedBlock]_vars
  BY ForwardStep
<1> QED
  BY <1>1, <1>2, TypeCorrect, PTL DEF Spec, ExpectedNeverRegresses

(***************************************************************************)
(* The sequencer keeps its promise to the processor.                       *)
(***************************************************************************)
\* What phase 1 took for the run is exactly the stretch that phase 2 will decide.
RunIsNext ==
    pc = "io" => /\ seqBatch.full \cup seqBatch.bare = expectedBlock..(seqBatch.next - 1)
                 /\ seqBatch.full \cap seqBatch.bare = {}
                 /\ seqBatch.next > expectedBlock

\* Without watchdog nothing moves the cursor between the two phases.
LEMMA RunIsNextStep ==
    ASSUME TypeOK, CopiesCurrent, RunIsNext, [Next]_vars
    PROVE  RunIsNext'
<1>1. CASE ClassifyBatch
  <2>1. expectedBlock' = expectedBlock
    BY <1>1 DEF ClassifyBatch
  <2> QED
    BY <1>1, <2>1, RunCovered DEF RunIsNext
<1>2. CASE pc' # "io"
  BY <1>2 DEF RunIsNext
<1>3. CASE UNCHANGED <<expectedBlock, seqBatch, pc>>
  BY <1>3 DEF RunIsNext
<1>4. ~ResetExpectedBlock /\ ~ClearBuffer
  BY DEF ResetExpectedBlock, ClearBuffer, CopiesCurrent
<1>5. CASE HandleBlock
  <2>1. NextBlock \/ RunEnds
    BY <1>5 DEF HandleBlock, ProcessSequential, HandleReorg, BufferAhead, DrainTo
  <2> QED
    BY <2>1, <1>2 DEF NextBlock, RunEnds
<1>6. \/ ClassifyBatch \/ HandleBlock \/ pc' # "io"
      \/ UNCHANGED <<expectedBlock, seqBatch, pc>>
  BY <1>4 DEF Next, RunStep, vars, sharedVars, CollectBatch, ProcessBatch, CommitBatch,
         BatchDone, StallRead, StallGapFill, StallGapBypass, StallSkip, StallEnds, Restart,
         WatchdogWakes, WatchdogCheck, Shutdown, SupervisorStops, TimePasses, FetchLost
<1> QED
  BY <1>1, <1>2, <1>3, <1>5, <1>6

\* A step that moves the cursor of the promise and decides what it passes.
LEMMA DecidesNext ==
    ASSUME TypeOK, TypeOK', DecidedTo' > DecidedTo,
           NEW G \in SUBSET (DecidedTo..(DecidedTo' - 1)),
           handed' = handed \cup G,
           (hollow \cup skipped)'
             = (hollow \cup skipped) \cup ((DecidedTo..(DecidedTo' - 1)) \ G)
    PROVE  Promise!Next
<1>1. DecidedTo' \in StartBlock..(MaxBlock + 1)
  BY DEF DecidedTo, TypeOK, Cursors
<1>2. Promise!Advance(DecidedTo')
  BY DEF Promise!Advance
<1> QED
  BY <1>1, <1>2 DEF Promise!Next

\* Handing over the stretch from the cursor on, or nothing, is a step of the promise.
LEMMA HandsOverNext ==
    ASSUME TypeOK, TypeOK', DecidedTo' >= DecidedTo, UNCHANGED <<hollow, skipped>>,
           handed' = handed \cup (DecidedTo..(DecidedTo' - 1))
    PROVE  [Promise!Next]_(Promise!vars)
<1> DEFINE c == DecidedTo
           d == DecidedTo'
<1>1. c \in Int /\ d \in Int
  BY SequencerAssumption DEF DecidedTo, TypeOK, Cursors
<1>2. CASE d = c
  <2>1. c..(d - 1) = {}
    BY <1>1, <1>2
  <2>2. handed' = handed
    BY <2>1
  <2> QED
    BY <1>2, <2>2 DEF Promise!vars
<1>3. CASE d # c
  <2>1. d > c
    BY <1>1, <1>3
  <2>2. (c..(d - 1)) \ (c..(d - 1)) = {}
    OBVIOUS
  <2>3. (hollow \cup skipped)' = (hollow \cup skipped) \cup ((c..(d - 1)) \ (c..(d - 1)))
    BY <2>2
  <2> QED
    BY <2>1, <2>3, DecidesNext
<1> QED
  BY <1>2, <1>3

\* Passing over the stretch from the cursor on is one, too.
LEMMA PassesOverNext ==
    ASSUME TypeOK, TypeOK', DecidedTo' > DecidedTo, UNCHANGED <<handed, hollow>>,
           skipped' = skipped \cup (DecidedTo..(DecidedTo' - 1))
    PROVE  Promise!Next
<1>1. handed' = handed \cup {} /\ {} \in SUBSET (DecidedTo..(DecidedTo' - 1))
  OBVIOUS
<1>2. (hollow \cup skipped)'
        = (hollow \cup skipped) \cup ((DecidedTo..(DecidedTo' - 1)) \ {})
  OBVIOUS
<1> QED
  BY <1>1, <1>2, DecidesNext

\* A step that decides nothing and leaves the cursor shows nothing.
LEMMA DecidesNothing ==
    ASSUME DecidedTo' = DecidedTo, UNCHANGED historyVars
    PROVE  UNCHANGED Promise!vars
BY DEF Promise!vars, historyVars

\* Handling one block hands over the stretch its drain passes, or nothing.
LEMMA HandleBlockImplements ==
    ASSUME NeverOverflows, TypeOK, TypeOK', HandleBlock
    PROVE  [Promise!Next]_(Promise!vars)
<1> DEFINE n == Head(batch).num
<1>1. n \in Int /\ n + 1 \in Cursors /\ expectedBlock \in Int
  <2>1. Head(batch) \in Item /\ expectedBlock \in Cursors
    BY HeadTailProperties DEF TypeOK, HandleBlock
  <2> QED
    BY <2>1, SequencerAssumption DEF Item, Heights, Cursors
<1>2. NextBlock \/ RunEnds
  BY DEF HandleBlock, ProcessSequential, HandleReorg, BufferAhead, DrainTo
<1>3. DecidedTo = expectedBlock /\ DecidedTo' = expectedBlock' /\ UNCHANGED <<hollow, astray>>
  <2>1. pc = "blocks" /\ pc' # "commit" /\ UNCHANGED <<hollow, astray>>
    BY <1>2 DEF HandleBlock, NextBlock, RunEnds
  <2> QED
    BY <2>1 DEF DecidedTo
<1>4. CASE UNCHANGED <<expectedBlock, handed, skipped>>
  BY <1>3, <1>4, DecidesNothing DEF historyVars
<1>5. CASE n = expectedBlock /\ ProcessSequential(n)
  <2>1. PICK r \in Continuations(n + 1, buffer, fetcherPaused) :
           /\ expectedBlock' = r.exp
           /\ handed' = handed \cup (n..(r.exp - 1))
           /\ UNCHANGED skipped
    BY <1>5 DEF ProcessSequential, DrainTo
  <2>2. r.exp \in Int /\ r.exp >= n + 1
    <3>1. r \in Outcomes /\ r.exp >= n + 1
      BY <1>1, ContinuationsType DEF TypeOK
    <3> QED
      BY <3>1, SequencerAssumption DEF Outcomes, Cursors
  <2>3. DecidedTo' >= DecidedTo /\ handed' = handed \cup (DecidedTo..(DecidedTo' - 1))
    BY <1>1, <1>3, <1>5, <2>1, <2>2
  <2> QED
    BY <1>3, <2>1, <2>3, HandsOverNext
<1>6. ASSUME NEW kind, BufferAhead(n, kind)
      PROVE  UNCHANGED <<expectedBlock, handed, skipped>>
  BY <1>6, NoOverflow DEF BufferAhead
<1>7. CASE n = expectedBlock /\ HandleReorg(n)
  BY <1>4, <1>7 DEF HandleReorg
<1> QED
  BY <1>4, <1>5, <1>6, <1>7 DEF HandleBlock

\* Every step of the sequencer and its parties is a step of the promise or a stutter.
LEMMA StepKeepsPromise ==
    ASSUME ~WatchdogEnabled, NeverOverflows, TypeOK, TypeOK', CopiesCurrent, RunIsNext,
           [Next]_vars
    PROVE  [Promise!Next]_(Promise!vars)
<1>1. expectedBlock \in Int /\ seqBatch.next \in Int /\ wd.step = "watch"
  BY SequencerAssumption DEF TypeOK, Cursors, CopiesCurrent
<1>2. CASE /\ UNCHANGED <<expectedBlock, seqBatch, historyVars>>
           /\ pc = "commit" <=> pc' = "commit"
  BY <1>2, DecidesNothing DEF DecidedTo
<1>3. CASE ClassifyBatch
  <2>1. DecidedTo' = DecidedTo /\ UNCHANGED historyVars
    BY <1>3 DEF ClassifyBatch, DecidedTo
  <2> QED
    BY <2>1, DecidesNothing
<1>4. CASE ProcessBatch
  <2>1. /\ DecidedTo = expectedBlock /\ DecidedTo' = seqBatch.next
        /\ handed' = handed \cup seqBatch.full
        /\ hollow' = hollow \cup seqBatch.bare /\ skipped' = skipped
    BY <1>4 DEF ProcessBatch, DecidedTo
  <2>2. /\ seqBatch.full \cup seqBatch.bare = DecidedTo..(DecidedTo' - 1)
        /\ seqBatch.full \cap seqBatch.bare = {}
        /\ DecidedTo' > DecidedTo
    BY <1>4, <2>1 DEF ProcessBatch, RunIsNext
  <2>3. /\ seqBatch.full \in SUBSET (DecidedTo..(DecidedTo' - 1))
        /\ (DecidedTo..(DecidedTo' - 1)) \ seqBatch.full = seqBatch.bare
    BY <2>2
  <2>4. (hollow \cup skipped)' = (hollow \cup skipped) \cup seqBatch.bare
    BY <2>1
  <2> QED
    BY <2>1, <2>2, <2>3, <2>4, DecidesNext
<1>5. CASE CommitBatch
  <2>1. PICK r \in Continuations(seqBatch.next, buffer, fetcherPaused) :
           /\ expectedBlock' = r.exp
           /\ handed' = handed \cup (seqBatch.next..(r.exp - 1))
    BY <1>5 DEF CommitBatch
  <2>2. r.exp >= seqBatch.next
    BY ContinuationsType DEF TypeOK
  <2>3. pc = "commit" /\ pc' # "commit" /\ UNCHANGED <<hollow, skipped>>
    BY <1>5 DEF CommitBatch
  <2>4. DecidedTo = seqBatch.next /\ DecidedTo' = expectedBlock'
    BY <2>3 DEF DecidedTo
  <2> QED
    BY <2>1, <2>2, <2>3, <2>4, HandsOverNext
<1>6. CASE HandleBlock
  BY <1>6, HandleBlockImplements
<1>7. CASE StallRead
  BY <1>2, <1>7 DEF StallRead, sharedVars
<1>8. CASE StallGapFill
  BY <1>2, <1>8 DEF StallGapFill, StallEnds, historyVars
<1>9. CASE StallGapBypass
  <2>1. /\ stall.exp = expectedBlock /\ stall.min > stall.exp
        /\ expectedBlock' = stall.min /\ pc = "stall" /\ pc' = "select"
        /\ skipped' = skipped \cup (stall.exp..(stall.min - 1))
        /\ UNCHANGED <<handed, hollow>>
    BY <1>9 DEF StallGapBypass, StallSeesGap, StallEnds, CopiesCurrent
  <2>2. DecidedTo = expectedBlock /\ DecidedTo' = stall.min
    BY <2>1 DEF DecidedTo
  <2> QED
    BY <2>1, <2>2, PassesOverNext
<1>10. CASE StallSkip
  <2>1. /\ pc = "stall" /\ pc' = "select" /\ expectedBlock' = expectedBlock + 1
        /\ skipped' = skipped \cup {expectedBlock} /\ UNCHANGED <<handed, hollow>>
    BY <1>10 DEF StallSkip, StallEnds, CopiesCurrent
  <2>2. DecidedTo = expectedBlock /\ DecidedTo' = expectedBlock + 1
    BY <2>1 DEF DecidedTo
  <2>3. expectedBlock..((expectedBlock + 1) - 1) = {expectedBlock}
    BY <1>1
  <2>4. DecidedTo' > DecidedTo /\ skipped' = skipped \cup (DecidedTo..(DecidedTo' - 1))
    BY <1>1, <2>1, <2>2, <2>3
  <2> QED
    BY <2>1, <2>4, PassesOverNext
<1>11. CASE Shutdown
  <2>1. PICK r \in Continuations(expectedBlock, buffer, fetcherPaused) :
           /\ expectedBlock' = r.exp
           /\ handed' = handed \cup (expectedBlock..(r.exp - 1))
    BY <1>11 DEF Shutdown
  <2>2. r.exp >= expectedBlock
    BY ContinuationsType DEF TypeOK
  <2>3. pc = "select" /\ pc' = "stopped" /\ UNCHANGED <<hollow, skipped>>
    BY <1>11 DEF Shutdown
  <2>4. DecidedTo = expectedBlock /\ DecidedTo' = expectedBlock'
    BY <2>3 DEF DecidedTo
  <2> QED
    BY <2>1, <2>2, <2>3, <2>4, HandsOverNext
<1>12. ~ResetExpectedBlock /\ ~ClearBuffer /\ ~WatchdogWakes
       /\ \A h \in Heights : ~WatchdogCheck(h)
  BY <1>1 DEF ResetExpectedBlock, ClearBuffer, WatchdogWakes, WatchdogCheck
<1>13. CASE BatchDone \/ Restart \/ SupervisorStops \/ TimePasses \/ UNCHANGED vars
  BY <1>2, <1>13 DEF BatchDone, Restart, SupervisorStops, TimePasses, vars, sharedVars
<1>14. ASSUME NEW h \in Heights, NEW k \in {"full", "bare", "err"}, CollectBatch(h, k)
       PROVE  [Promise!Next]_(Promise!vars)
  BY <1>2, <1>14 DEF CollectBatch, sharedVars
<1>15. ASSUME NEW h \in Heights, FetchLost(h) PROVE [Promise!Next]_(Promise!vars)
  BY <1>2, <1>15 DEF FetchLost, sharedVars
<1> QED
  BY <1>3, <1>4, <1>5, <1>6, <1>7, <1>8, <1>9, <1>10, <1>11, <1>12, <1>13, <1>14, <1>15
     DEF Next, RunStep

\* With the watchdog off and a buffer that cannot overflow, the sequencer decides every
\* height once and in the chain's order: each step is a step of HandOver or invisible to
\* the processor, for all other constants.
THEOREM SequencerImplementsHandOver ==
    ASSUME ~WatchdogEnabled, NeverOverflows
    PROVE  Spec => ImplementsHandOver
<1>1. Init => CopiesCurrent /\ RunIsNext
  BY DEF Init, CopiesCurrent, RunIsNext
<1>2. Init => Promise!Init
  BY DEF Init, Promise!Init, DecidedTo
<1>3. TypeOK /\ CopiesCurrent /\ RunIsNext /\ [Next]_vars => CopiesCurrent' /\ RunIsNext'
  BY ForwardStep, RunIsNextStep
<1>4. TypeOK /\ TypeOK' /\ CopiesCurrent /\ RunIsNext /\ [Next]_vars
        => [Promise!Next]_(Promise!vars)
  BY StepKeepsPromise
<1> QED
  BY <1>1, <1>2, <1>3, <1>4, TypeCorrect, PTL
     DEF Spec, Promise!Spec, ImplementsHandOver

=============================================================================
