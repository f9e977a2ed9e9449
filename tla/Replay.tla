------------------------------- MODULE Replay -------------------------------
(***************************************************************************)
(* Playing a recorded trajectory (source_lz4_replay.go).  RunReplayMode    *)
(* (cmd/indexer/replay.go) pulls: it asks for a range of numbers, the      *)
(* source scans forward until it passes the end of the range, and the next *)
(* range begins behind the last block returned.  The scanner never goes    *)
(* back, so a line is either returned by the call that scans it or lost.   *)
(* StreamBlocks pushes every line it can read.                             *)
(*                                                                         *)
(* The fetcher's workers record the trajectory side by side, so its        *)
(* numbers are in any order.  A line is "logs" (block_data with a number   *)
(* and no block, the only kind that plays), "block" (block_data with a     *)
(* block: a Go block marshals to its two metadata fields, and both readers *)
(* skip it) or "other" (another type, or damaged).                         *)
(***************************************************************************)
EXTENDS Integers, Sequences, FiniteSetsExt

CONSTANTS
    ReplayBatch,    \* batchSize: a call asks for the numbers current..current + batchSize
    MaxLines,       \* bound: lines of the trajectory
    MaxNumber       \* bound: numbers on them

ASSUME ReplayAssumption == ReplayBatch \in Nat /\ MaxLines \in Nat /\ MaxNumber \in Nat

Lines == [kind : {"logs"}, n : 0..MaxNumber] \cup [kind : {"block", "other"}, n : {0}]

VARIABLES
    trajectory,     \* the lines of the file
    position,       \* lines the scanner has passed
    pushing,        \* StreamBlocks rather than RunReplayMode
    current,        \* currentBlock
    replay,         \* "running", "ended" at the end, "stopped" by an error or the context
    played,         \* batches handed over: the lines of each, which go in file order
    failedBatch,    \* history: ProcessBatch failed, which is only logged
    stops           \* history: the lines at which calls of FetchLogs stopped

replayVars == <<trajectory, position, pushing, current, replay, played, failedBatch,
                stops>>

ReplayInit ==
    /\ trajectory \in UNION {[1..k -> Lines] : k \in 0..MaxLines}
    /\ position = 0
    /\ pushing \in BOOLEAN
    /\ current = 0
    /\ replay = "running"
    /\ played = <<>>
    /\ failedBatch = FALSE
    /\ stops = {}

Plays(i) == trajectory[i].kind = "logs"

\* The lines that play among the first k.
PlayableTo(k) == {i \in 1..k : Plays(i)}

\* All lines handed over.
Played == UNION {played[b] : b \in 1..Len(played)}

(***************************************************************************)
(* Pull                                                                    *)
(***************************************************************************)
\* The playable lines ahead at or past the end of a range: FetchLogs stops behind the first.
Hits(end) ==
    {i \in (position + 1)..Len(trajectory) : Plays(i) /\ trajectory[i].n >= end}

ScanStop(end) == IF Hits(end) = {} THEN Len(trajectory) ELSE Min(Hits(end))

\* Mutant of FetchLogs: the first height of the range is left out.
FetchLogsBehindStart(start, end) ==
    {i \in PlayableTo(ScanStop(end)) : i > position /\ trajectory[i].n \in (start + 1)..end}

\* FetchLogs: of the lines scanned, those in the range.
FetchLogs(start, end) ==
    {i \in PlayableTo(ScanStop(end)) : i > position /\ trajectory[i].n \in start..end}

\* The batch goes to ProcessBatch, whose failure is logged, and the range moves on.
PullBatch(fails) ==
    LET end == current + ReplayBatch
        batch == FetchLogs(current, end) IN
    /\ replay = "running" /\ ~pushing
    /\ batch # {}
    /\ position' = ScanStop(end)
    /\ played' = IF fails THEN played ELSE Append(played, batch)
    /\ failedBatch' = (failedBatch \/ fails)
    /\ stops' = stops \cup (Hits(end) \cap {ScanStop(end)})
    /\ current' = trajectory[Max(batch)].n + 1
    /\ UNCHANGED <<trajectory, pushing, replay>>

\* Nothing in the range.  The progress is that of the compressed file, which is read ahead
\* of the scanner: it may say that the file is done before the scanner is.
PullNothing(done) ==
    LET end == current + ReplayBatch IN
    /\ replay = "running" /\ ~pushing
    /\ FetchLogs(current, end) = {}
    /\ ScanStop(end) = Len(trajectory) => done
    /\ position' = ScanStop(end)
    /\ replay' = IF done THEN "ended" ELSE "running"
    /\ current' = IF done THEN current ELSE end + 1
    /\ stops' = stops \cup (Hits(end) \cap {ScanStop(end)})
    /\ UNCHANGED <<trajectory, pushing, played, failedBatch>>

(***************************************************************************)
(* Push                                                                    *)
(***************************************************************************)
\* One line scanned, and sent if it plays.
PushLine ==
    /\ replay = "running" /\ pushing
    /\ position < Len(trajectory)
    /\ position' = position + 1
    /\ played' = IF Plays(position + 1) THEN Append(played, {position + 1}) ELSE played
    /\ UNCHANGED <<trajectory, pushing, current, replay, failedBatch, stops>>

PushEnds ==
    /\ replay = "running" /\ pushing
    /\ position = Len(trajectory)
    /\ replay' = "ended"
    /\ UNCHANGED <<trajectory, position, pushing, current, played, failedBatch, stops>>

\* The context ends or the scanner fails, while a line is read or waits to be sent.
ReplayStops ==
    /\ replay = "running"
    /\ replay' = "stopped"
    /\ UNCHANGED <<trajectory, position, pushing, current, played, failedBatch, stops>>

ReplayNext ==
    \/ \E fails \in BOOLEAN : PullBatch(fails)
    \/ \E done \in BOOLEAN : PullNothing(done)
    \/ PushLine \/ PushEnds \/ ReplayStops

ReplaySpec == ReplayInit /\ [][ReplayNext]_replayVars

(***************************************************************************)
(* Properties                                                              *)
(***************************************************************************)
ReplayTypeOK ==
    /\ position \in 0..Len(trajectory)
    /\ pushing \in BOOLEAN /\ failedBatch \in BOOLEAN
    /\ current \in Nat
    /\ replay \in {"running", "ended", "stopped"}
    /\ played \in Seq(SUBSET (1..Len(trajectory)))
    /\ stops \subseteq 1..Len(trajectory)

\* Recorded behind every line that can play and has a smaller number.
InOrder(i) == \A j \in PlayableTo(i - 1) : trajectory[j].n < trajectory[i].n

\* The scanner cannot go back, so a line beyond the range asked for is gone when the call
\* that scanned it returns.  That is the only way to lose a line recorded in order: a call
\* loses the line it stops at and no other, wherever the recording starts, whatever gaps it
\* has and wherever currentBlock lands after an empty or a partly filled range.  Lines that
\* workers recorded behind a larger or an equal number may be lost without a stop.
OnlyStopsLost ==
    ~failedBatch =>
        \A i \in PlayableTo(position) : InOrder(i) => i \in Played \cup stops

=============================================================================
