----------------------------- MODULE QuotaGuard -----------------------------
(***************************************************************************)
(* The daily quota (rpc_quota_guard.go).  AllowRequest reads the use under *)
(* a read lock, gives it up and decides; RecordRequest counts the request  *)
(* later.  Requests under way between the two are in no count.             *)
(*                                                                         *)
(* RecordRequest calls Reset, which takes the lock RecordRequest holds:    *)
(* the first request recorded after a day keeps the lock for ever, and     *)
(* every later operation waits for it.                                     *)
(***************************************************************************)
EXTENDS Integers, FiniteSets

CONSTANTS
    DailyLimit,     \* DailyLimit
    ReportedUses,   \* what SetCurrentUsed may be called with
    Requesters      \* goroutines that send requests

ASSUME QuotaGuardAssumption ==
    DailyLimit \in Nat \ {0} /\ ReportedUses \subseteq Int /\ IsFiniteSet(Requesters)

VARIABLES
    currentUsed,    \* CurrentUsed
    quotaMode,      \* mode, written by AllowRequest without the lock
    dayPassed,      \* over 24 h since LastResetTime
    quotaLock,      \* the lock is held for ever by a RecordRequest that waits in Reset
    sending,        \* per goroutine: "idle", "read" with the ratio in hand, "sent"
                    \* after AllowRequest said yes
    reported        \* history: the use SetCurrentUsed or Reset set last

quotaVars == <<currentUsed, quotaMode, dayPassed, quotaLock, sending, reported>>

QuotaModes == {"Normal", "Throttling", "Strict", "Exhausted"}

QuotaInit ==
    /\ currentUsed = 0
    /\ quotaMode = "Normal"
    /\ dayPassed = FALSE
    /\ quotaLock = FALSE
    /\ sending = [c \in Requesters |-> [step |-> "idle", used |-> 0]]
    /\ reported = 0

\* The mode a use gives, with the thresholds of 85 and 90 percent.
ModeOf(used) ==
    CASE used >= DailyLimit -> "Exhausted"
      [] used < DailyLimit /\ 100 * used > 90 * DailyLimit -> "Strict"
      [] 100 * used <= 90 * DailyLimit /\ 100 * used > 85 * DailyLimit -> "Throttling"
      [] 100 * used <= 85 * DailyLimit -> "Normal"

ReadUsage(c) ==
    /\ sending[c].step = "idle"
    /\ ~quotaLock
    /\ sending' = [sending EXCEPT ![c] = [step |-> "read", used |-> currentUsed]]
    /\ UNCHANGED <<currentUsed, quotaMode, dayPassed, quotaLock, reported>>

\* Mutant of AllowRequest: the hard stop is missing.
AllowRequestAlways(c) ==
    /\ sending[c].step = "read"
    /\ quotaMode' = ModeOf(sending[c].used)
    /\ sending' = [sending EXCEPT ![c] = [step |-> "sent", used |-> 0]]
    /\ UNCHANGED <<currentUsed, dayPassed, quotaLock, reported>>

\* The decision on the ratio read; a refusal leaves the mode alone.
AllowRequest(c) ==
    /\ sending[c].step = "read"
    /\ LET allowed == sending[c].used < DailyLimit IN
       /\ quotaMode' = IF allowed THEN ModeOf(sending[c].used) ELSE quotaMode
       /\ sending' = [sending EXCEPT ![c] = [step |-> IF allowed THEN "sent" ELSE "idle",
                                             used |-> 0]]
    /\ UNCHANGED <<currentUsed, dayPassed, quotaLock, reported>>

RecordRequest(c) ==
    /\ sending[c].step = "sent"
    /\ ~quotaLock
    /\ currentUsed' = currentUsed + 1
    /\ quotaLock' = dayPassed
    /\ sending' = [sending EXCEPT ![c] = [step |-> "idle", used |-> 0]]
    /\ UNCHANGED <<quotaMode, dayPassed, reported>>

\* The use the provider reports, whatever it is: it may lie above the limit.
SetCurrentUsed(used) ==
    /\ ~quotaLock
    /\ currentUsed' = used
    /\ reported' = used
    /\ quotaMode' = ModeOf(used)
    /\ UNCHANGED <<dayPassed, quotaLock, sending>>

ResetQuota ==
    /\ ~quotaLock
    /\ currentUsed' = 0
    /\ reported' = 0
    /\ dayPassed' = FALSE
    /\ quotaMode' = "Normal"
    /\ UNCHANGED <<quotaLock, sending>>

DayPasses ==
    /\ dayPassed' = TRUE
    /\ UNCHANGED <<currentUsed, quotaMode, quotaLock, sending, reported>>

QuotaNext ==
    \/ \E c \in Requesters : ReadUsage(c) \/ AllowRequest(c) \/ RecordRequest(c)
    \/ \E used \in ReportedUses : SetCurrentUsed(used)
    \/ ResetQuota \/ DayPasses

QuotaSpec == QuotaInit /\ [][QuotaNext]_quotaVars

(***************************************************************************)
(* Properties                                                              *)
(***************************************************************************)
QuotaTypeOK ==
    /\ currentUsed \in Int /\ reported \in Int
    /\ quotaMode \in QuotaModes
    /\ dayPassed \in BOOLEAN /\ quotaLock \in BOOLEAN
    /\ sending \in [Requesters -> [step : {"idle", "read", "sent"}, used : Int]]

\* The requests that may still be sent on a use read before: allowed and not recorded, or
\* about to be allowed.
UnderWay == {c \in Requesters : \/ sending[c].step = "sent"
                                \/ sending[c].step = "read" /\ sending[c].used < DailyLimit}

\* The use a request may still be allowed at, or that was reported from outside.
Ceiling == IF reported > DailyLimit THEN reported ELSE DailyLimit

\* Checking and counting are two steps, so the quota can be exceeded, but only by the
\* requests that were under way when it was used up: at most one per goroutine, whenever
\* the day is reset and whatever the provider reports.  A report above the limit is kept,
\* and the same holds above it.
OvershootBounded == currentUsed + Cardinality(UnderWay) <= Ceiling + Cardinality(Requesters)

=============================================================================
