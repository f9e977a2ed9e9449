----------------------------- MODULE RateWindow -----------------------------
(***************************************************************************)
(* The sliding-window limiter (limiter/sliding_window.go): at most limit   *)
(* requests in any window.  The times of the granted requests are a ring   *)
(* buffer; every operation first evicts those that left the window.  Wait  *)
(* computes under the lock when the oldest one will leave, sleeps without  *)
(* it and tries again.                                                     *)
(*                                                                         *)
(* Times are kept as ages, in ticks of the clock.                          *)
(***************************************************************************)
EXTENDS Integers, Sequences, FiniteSets

CONSTANTS
    WindowLimit,    \* limit: requests per window
    WindowLength,   \* window, in ticks
    Waiters         \* goroutines that ask

ASSUME RateWindowAssumption == WindowLimit \in Nat \ {0} /\ WindowLength \in Nat \ {0}

VARIABLES
    stamps,         \* timestamps: age of each entry of the ring, WindowLength + 1 if older
    oldest,         \* head: index of the oldest entry
    inWindow,       \* count: entries in use
    asking,         \* per goroutine: "no", "check" at the top of the loop, "sleep"
    sleepLeft,      \* per goroutine: ticks until its timer fires
    granted         \* history: ages of the requests granted in the last window, newest first

windowVars == <<stamps, oldest, inWindow, asking, sleepLeft, granted>>

Slots == 0..(WindowLimit - 1)
Ages == 0..(WindowLength + 1)

WindowInit ==
    /\ stamps = [i \in Slots |-> WindowLength + 1]
    /\ oldest = 0
    /\ inWindow = 0
    /\ asking = [c \in Waiters |-> "no"]
    /\ sleepLeft = [c \in Waiters |-> 0]
    /\ granted = <<>>

Slot(i) == (oldest + i) % WindowLimit

\* Mutant of Outside: an entry as old as the window has left it.
OutsideOrAtEdge(i) == stamps[Slot(i)] >= WindowLength

\* The i-th oldest entry has left the window: strictly Before now - window.
Outside(i) == stamps[Slot(i)] > WindowLength

\* evict: the entries the loop drops from the front.
Evicted == CHOOSE k \in 0..inWindow :
              /\ \A i \in 0..(k - 1) : Outside(i)
              /\ k < inWindow => ~Outside(k)

Evict ==
    /\ oldest' = Slot(Evicted)
    /\ inWindow' = inWindow - Evicted

\* record: the time goes behind the last entry kept.
Record ==
    /\ stamps' = [stamps EXCEPT ![Slot(inWindow)] = 0]
    /\ oldest' = Slot(Evicted)
    /\ inWindow' = inWindow - Evicted + 1
    /\ granted' = <<0>> \o granted

HasRoom == inWindow - Evicted < WindowLimit

Wait(c) ==
    /\ asking[c] = "no"
    /\ asking' = [asking EXCEPT ![c] = "check"]
    /\ UNCHANGED <<stamps, oldest, inWindow, sleepLeft, granted>>

\* Room now: Allow returns true, or a round of Wait ends it.
Grant(c) ==
    /\ asking[c] \in {"no", "check"}
    /\ HasRoom
    /\ Record
    /\ asking' = [asking EXCEPT ![c] = "no"]
    /\ UNCHANGED sleepLeft

\* No room: Allow, and every reading of the use, only evicts.
Observe ==
    /\ Evict
    /\ UNCHANGED <<stamps, asking, sleepLeft, granted>>

\* Mutant of Delay: the wait is for the newest request.
DelayForNewest == WindowLength - stamps[Slot(inWindow - 1)]

\* Until the oldest request leaves the window; there is none to evict when it is full.
Delay == WindowLength - stamps[oldest]

\* A delay that is not positive: the loop goes round at once.
Sleep(c) ==
    /\ asking[c] = "check"
    /\ ~HasRoom
    /\ Delay > 0
    /\ asking' = [asking EXCEPT ![c] = "sleep"]
    /\ sleepLeft' = [sleepLeft EXCEPT ![c] = Delay]
    /\ UNCHANGED <<stamps, oldest, inWindow, granted>>

TimerFires(c) ==
    /\ asking[c] = "sleep"
    /\ sleepLeft[c] = 0
    /\ asking' = [asking EXCEPT ![c] = "check"]
    /\ UNCHANGED <<stamps, oldest, inWindow, sleepLeft, granted>>

WaitCancelled(c) ==
    /\ asking[c] = "sleep"
    /\ asking' = [asking EXCEPT ![c] = "no"]
    /\ sleepLeft' = [sleepLeft EXCEPT ![c] = 0]
    /\ UNCHANGED <<stamps, oldest, inWindow, granted>>

\* The grants that are still in the window after a tick.
StillIn == {j \in 1..Len(granted) : granted[j] < WindowLength}

ClockTicks ==
    /\ stamps' = [i \in Slots |-> IF stamps[i] > WindowLength THEN stamps[i]
                                  ELSE stamps[i] + 1]
    /\ sleepLeft' = [c \in Waiters |-> IF sleepLeft[c] = 0 THEN 0 ELSE sleepLeft[c] - 1]
    /\ granted' = [j \in 1..Cardinality(StillIn) |-> granted[j] + 1]
    /\ UNCHANGED <<oldest, inWindow, asking>>

WindowNext ==
    \/ \E c \in Waiters : Wait(c) \/ Grant(c) \/ Sleep(c) \/ TimerFires(c) \/ WaitCancelled(c)
    \/ Observe \/ ClockTicks

WindowSpec == WindowInit /\ [][WindowNext]_windowVars

(***************************************************************************)
(* Properties                                                              *)
(***************************************************************************)
WindowTypeOK ==
    /\ stamps \in [Slots -> Ages]
    /\ oldest \in Slots /\ inWindow \in 0..WindowLimit
    /\ asking \in [Waiters -> {"no", "check", "sleep"}]
    /\ sleepLeft \in [Waiters -> 0..WindowLength]
    /\ granted \in Seq(0..WindowLength)

\* However Allow, Wait and the readings interleave, no window, both of its ends included,
\* holds more than limit grants, although the ring forgets what it evicts.
WindowQuotaKept == Len(granted) <= WindowLimit

\* A goroutine only sleeps while the quota is used up: no request leaves the window before
\* the timer set for the oldest one fires, so nobody sleeps beside a free place.
SleepsOnlyWhenFull ==
    \A c \in Waiters : sleepLeft[c] > 0 => Len(granted) = WindowLimit

=============================================================================
