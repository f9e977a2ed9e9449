----------------------------- MODULE BackPressure ---------------------------
(***************************************************************************)
(* Scheduling with back-pressure (dynamic_backpressure.go).  A call of     *)
(* ScheduleDynamic goes through four critical sections: it is merged with  *)
(* a call for the same range inside the merge window, refused while a      *)
(* queue is over its watermark or an exponential back-off runs, handed to  *)
(* Schedule, and then resets the back-off.  The record of the merge is     *)
(* made first, whatever becomes of the call.                               *)
(*                                                                         *)
(* Time is counted in units of 100 ms.  Nothing in the program wraps its   *)
(* fetcher in this scheduler yet: the callers are taken to be any          *)
(* goroutines that retry a refused range.                                  *)
(***************************************************************************)
EXTENDS Integers

CONSTANTS
    DynamicCallers, \* goroutines that call ScheduleDynamic
    DynamicRanges,  \* the ranges they schedule
    MergeWindow,    \* ScheduleMerge.mergeWindow (50 units)
    MaxLevel        \* the largest back-off level (5)

ASSUME BackPressureAssumption == MergeWindow \in Nat \ {0} /\ MaxLevel \in Nat \ {0}

VARIABLES
    pending,        \* age of ScheduleMerge.pending[range], MergeWindow for none or older
    backoffLevel,   \* BackpressureManager.backoffLevel
    sinceBlocked,   \* time since lastBlockedTime
    call,           \* per caller: step and range
    accepted,       \* history: time since a call for the range was scheduled
    refused         \* history: time since a call for the range was refused

pressureVars == <<pending, backoffLevel, sinceBlocked, call, accepted, refused>>

NoSchedule == [step |-> "idle", range |-> "none"]

\* 1<<level times 100 ms.
BackoffDuration(level) == 2^level

LongAgo == [r \in DynamicRanges |-> MergeWindow]

PressureInit ==
    /\ pending = LongAgo
    /\ backoffLevel = 0
    /\ sinceBlocked = BackoffDuration(MaxLevel)
    /\ call = [c \in DynamicCallers |-> NoSchedule]
    /\ accepted = LongAgo
    /\ refused = LongAgo

Goes(c, step) == call' = [call EXCEPT ![c].step = step]

\* No record inside the window; Cleanup deletes records that are much older.
ShouldSchedule(r) == pending[r] = MergeWindow

\* Mutant of ScheduleDynamic: a merged call renews the record.
ScheduleDynamicRenews(c, r) ==
    /\ call[c].step = "idle"
    /\ pending' = [pending EXCEPT ![r] = 0]
    /\ call' = [call EXCEPT ![c] = [step |-> IF ShouldSchedule(r) THEN "check" ELSE "merged",
                                   range |-> r]]
    /\ UNCHANGED <<backoffLevel, sinceBlocked, accepted, refused>>

\* The first section: merge, or record and go on.
ScheduleDynamic(c, r) ==
    /\ call[c].step = "idle"
    /\ \/ /\ ShouldSchedule(r)
          /\ pending' = [pending EXCEPT ![r] = 0]
          /\ call' = [call EXCEPT ![c] = [step |-> "check", range |-> r]]
       \/ /\ ~ShouldSchedule(r)
          /\ call' = [call EXCEPT ![c] = [step |-> "merged", range |-> r]]
          /\ UNCHANGED pending
    /\ UNCHANGED <<backoffLevel, sinceBlocked, accepted, refused>>

\* The call returns; a merged one returns nil.
Returns(c) ==
    /\ call[c].step = "merged"
    /\ call' = [call EXCEPT ![c] = NoSchedule]
    /\ UNCHANGED <<pending, backoffLevel, sinceBlocked, accepted, refused>>

Refuse(c) ==
    /\ refused' = [refused EXCEPT ![call[c].range] = 0]
    /\ call' = [call EXCEPT ![c] = NoSchedule]

\* A queue is over its watermark: blockWithError raises the level.
BlockWithError(c) ==
    /\ call[c].step = "check"
    /\ backoffLevel' = IF backoffLevel < MaxLevel THEN backoffLevel + 1 ELSE backoffLevel
    /\ sinceBlocked' = 0
    /\ Refuse(c)
    /\ UNCHANGED <<pending, accepted>>

BackingOff == backoffLevel > 0 /\ sinceBlocked < BackoffDuration(backoffLevel)

\* The queues have room: refused while the back-off runs, else let through.
CheckSchedule(c) ==
    /\ call[c].step = "check"
    /\ \/ /\ BackingOff
          /\ Refuse(c)
          /\ UNCHANGED backoffLevel
       \/ /\ ~BackingOff
          /\ backoffLevel' = 0
          /\ Goes(c, "schedule")
          /\ UNCHANGED refused
    /\ UNCHANGED <<pending, sinceBlocked, accepted>>

\* Fetcher.Schedule, which may refuse too.
Schedule(c, ok) ==
    /\ call[c].step = "schedule"
    /\ \/ /\ ok
          /\ accepted' = [accepted EXCEPT ![call[c].range] = 0]
          /\ Goes(c, "reset")
          /\ UNCHANGED refused
       \/ /\ ~ok
          /\ Refuse(c)
          /\ UNCHANGED accepted
    /\ UNCHANGED <<pending, backoffLevel, sinceBlocked>>

\* It also clears a level that another caller has just raised.
ResetBackoff(c) ==
    /\ call[c].step = "reset"
    /\ backoffLevel' = 0
    /\ call' = [call EXCEPT ![c] = NoSchedule]
    /\ UNCHANGED <<pending, sinceBlocked, accepted, refused>>

Older(ages) == [r \in DynamicRanges |-> IF ages[r] < MergeWindow THEN ages[r] + 1 ELSE ages[r]]

\* A merged call returns at once.
UnitPasses ==
    /\ \A c \in DynamicCallers : call[c].step # "merged"
    /\ pending' = Older(pending)
    /\ accepted' = Older(accepted)
    /\ refused' = Older(refused)
    /\ sinceBlocked' = IF sinceBlocked < BackoffDuration(MaxLevel) THEN sinceBlocked + 1
                       ELSE sinceBlocked
    /\ UNCHANGED <<backoffLevel, call>>

PressureNext ==
    \/ \E c \in DynamicCallers :
          \/ \E r \in DynamicRanges : ScheduleDynamic(c, r)
          \/ Returns(c) \/ BlockWithError(c) \/ CheckSchedule(c) \/ ResetBackoff(c)
          \/ \E ok \in BOOLEAN : Schedule(c, ok)
    \/ UnitPasses

PressureSpec == PressureInit /\ [][PressureNext]_pressureVars

(***************************************************************************)
(* Properties                                                              *)
(***************************************************************************)
PressureTypeOK ==
    /\ pending \in [DynamicRanges -> 0..MergeWindow]
    /\ backoffLevel \in 0..MaxLevel
    /\ sinceBlocked \in 0..BackoffDuration(MaxLevel)
    /\ call \in [DynamicCallers -> [step : {"idle", "check", "merged", "schedule", "reset"},
                                    range : DynamicRanges \cup {"none"}]]
    /\ accepted \in [DynamicRanges -> 0..MergeWindow]
    /\ refused \in [DynamicRanges -> 0..MergeWindow]

\* A caller that is told its range was merged has a twin: a call for the same range that
\* is under way, or that was scheduled or refused inside the merge window.  The last is
\* the weak spot: the refused call's record swallows the retry, nil for an answer.
MergedHasTwin ==
    \A c \in DynamicCallers : call[c].step = "merged" =>
        \/ \E d \in DynamicCallers :
              call[d].range = call[c].range /\ call[d].step \notin {"idle", "merged"}
        \/ accepted[call[c].range] < MergeWindow
        \/ refused[call[c].range] < MergeWindow

=============================================================================
