-------------------------- MODULE TailFollowProofs --------------------------
(***************************************************************************)
(* Proofs about the tail follower, for every window, capacity, safety      *)
(* buffer and number of interventions: no height beyond the chain is       *)
(* scheduled, and only the silent cut leaves holes behind lastScheduled.   *)
(***************************************************************************)
EXTENDS TailFollow, TLAPS

\* A height that was read from the chain, at this time or earlier.
OnChain(h) == h \in Nat /\ h <= tip

\* A target that keeps its distance from the head.
BehindTip(t) == t \in Nat /\ (t > 0 => t < tip)

\* The types the arithmetic needs.
OrchState == [latest : Int, target : Int, safety : Nat \ {0}, success : Int]
Published == [latest : Int, target : Int]
TailLocals == [step : {"tick", "snap", "wait"}, tip : Int, last : Nat]
CallLocals == [step : {"none", "check", "send"}, from : Nat, to : Int, asked : Int]

TailTypes ==
    /\ tip \in Nat
    /\ cmdChan \in Seq(Message)
    /\ state \in OrchState
    /\ pending \in Int
    /\ snapshot \in Published
    /\ tail \in TailLocals
    /\ call \in [Callers -> CallLocals]
    /\ scheduled \in SUBSET Nat

(***************************************************************************)
(* Whatever travels from a node to the job queue, by way of the command    *)
(* channel, the pending update, the state, the snapshot and the callers'   *)
(* locals, was a head of the chain once, and the chain never shrinks.      *)
(***************************************************************************)
MessagesOnChain ==
    \A i \in DOMAIN cmdChan : cmdChan[i].type = "height" => OnChain(cmdChan[i].h)

StateOnChain ==
    /\ pending = NoHeight \/ OnChain(pending)
    /\ OnChain(state.latest) /\ BehindTip(state.target)
    /\ OnChain(snapshot.latest) /\ BehindTip(snapshot.target)

CallsOnChain ==
    /\ OnChain(tail.tip)
    /\ \A c \in Callers : call[c].step = "send" => call[c].to <= tip
    /\ \A h \in scheduled : h <= tip

(***************************************************************************)
(* The tail follower's own call: what lies between lastScheduled and the   *)
(* place its send loop has reached was queued, and purged if not still so. *)
(***************************************************************************)
CallInv ==
    /\ call["tail"].step = "check" => call["tail"].from = tail.last + 1
    /\ call["tail"].step = "check" => call["tail"].asked \in Nat
    /\ call["tail"].step = "send" =>
          /\ call["tail"].asked \in Nat
          /\ \A h \in (tail.last + 1)..(call["tail"].from - 1) :
                h \in scheduled \cup purged

TailInv ==
    /\ TailTypes
    /\ MessagesOnChain /\ StateOnChain /\ CallsOnChain
    /\ CallInv /\ HoleFromCutOrPurge

\* Nothing has been read, scheduled or published yet.
LEMMA TailInitInv == Init => TailInv
<1> SUFFICES ASSUME Init PROVE TailInv
  OBVIOUS
<1>1. TailTypes
  <2>1. call \in [Callers -> CallLocals]
    BY DEF Init, NoCall, CallLocals
  <2>2. pending \in Int /\ scheduled \in SUBSET Nat /\ cmdChan \in Seq(Message)
    BY DEF Init, NoHeight
  <2> QED
    BY <2>1, <2>2 DEF Init, TailTypes, OrchState, Published, TailLocals
<1>2. MessagesOnChain
  BY DEF Init, MessagesOnChain
<1>3. StateOnChain
  BY DEF Init, StateOnChain, OnChain, BehindTip
<1>4. CallsOnChain
  BY DEF Init, CallsOnChain, OnChain, NoCall
<1>5. CallInv /\ HoleFromCutOrPurge
  BY DEF Init, CallInv, HoleFromCutOrPurge, NoCall, Callers
<1> QED
  BY <1>1, <1>2, <1>3, <1>4, <1>5 DEF TailInv

\* Taking a command from the channel leaves the others as they are.
LEMMA ReceivedKeeps ==
    ASSUME TailTypes, NEW type, Received(type)
    PROVE  /\ cmdChan' \in Seq(Message)
           /\ Head(cmdChan) = cmdChan[1] /\ 1 \in DOMAIN cmdChan
           /\ \A i \in DOMAIN cmdChan' :
                i + 1 \in DOMAIN cmdChan /\ cmdChan'[i] = cmdChan[i + 1]
  BY DEF TailTypes, Received

\* So the heights on their way stay heights of the chain.
LEMMA ReceivedOnChain ==
    ASSUME TailTypes, MessagesOnChain, NEW type, Received(type), UNCHANGED tip
    PROVE  MessagesOnChain'
<1> SUFFICES ASSUME NEW i \in DOMAIN cmdChan', cmdChan'[i].type = "height"
             PROVE  cmdChan'[i].h \in Nat /\ cmdChan'[i].h <= tip'
  BY DEF MessagesOnChain, OnChain
<1>1. i + 1 \in DOMAIN cmdChan /\ cmdChan'[i] = cmdChan[i + 1]
  BY ReceivedKeeps
<1> QED
  BY <1>1 DEF MessagesOnChain, OnChain

\* A new command with a height of the chain, or with none, keeps them so too.
LEMMA SentOnChain ==
    ASSUME TailTypes, MessagesOnChain, UNCHANGED tip,
           NEW m \in Message, m.type = "height" => OnChain(m.h),
           cmdChan' = Append(cmdChan, m)
    PROVE  cmdChan' \in Seq(Message) /\ MessagesOnChain'
<1>1. /\ cmdChan' \in Seq(Message)
      /\ \A i \in DOMAIN cmdChan' :
            cmdChan'[i] = m \/ (i \in DOMAIN cmdChan /\ cmdChan'[i] = cmdChan[i])
  BY DEF TailTypes
<1> QED
  BY <1>1 DEF MessagesOnChain, OnChain

(***************************************************************************)
(* One lemma per action or group of actions                                *)
(***************************************************************************)
LEMMA ChainGrowsInv == TailInv /\ ChainGrows => TailInv'
<1> SUFFICES ASSUME TailInv, ChainGrows PROVE TailInv'
  OBVIOUS
<1> USE DEF TailInv, ChainGrows, orchVars
<1>0. tip \in Nat /\ tip' = tip + 1
  BY DEF TailTypes
<1>1. TailTypes'
  BY <1>0 DEF TailTypes
<1>2. MessagesOnChain'
  BY <1>0 DEF MessagesOnChain, OnChain
<1>3. StateOnChain'
  BY <1>0 DEF StateOnChain, OnChain, BehindTip
<1>4. CallsOnChain'
  <2>1. \A c \in Callers : call[c].to \in Int
    BY DEF TailTypes, CallLocals
  <2>2. \A h \in scheduled' : h <= tip'
    BY <1>0 DEF CallsOnChain, TailTypes
  <2> QED
    BY <1>0, <2>1, <2>2 DEF CallsOnChain, OnChain
<1>5. CallInv' /\ HoleFromCutOrPurge'
  BY DEF CallInv, HoleFromCutOrPurge
<1> QED
  BY <1>1, <1>2, <1>3, <1>4, <1>5

\* The orchestrator's commands and its merge ticker.
LEMMA CommandInv ==
    TailInv /\ (OrchestratorStep \/ FlushPendingHeightUpdate) => TailInv'
<1> SUFFICES ASSUME TailInv, OrchestratorStep \/ FlushPendingHeightUpdate PROVE TailInv'
  OBVIOUS
<1> USE DEF TailInv
<1>0. UNCHANGED <<tip, tail, call, scheduled, cut, purged>>
  BY DEF OrchestratorStep, HandleUpdateChainHeight, HandleFetchFailed, HandleFetchSuccess,
         FlushPendingHeightUpdate
<1>1. cmdChan' \in Seq(Message) /\ MessagesOnChain'
  <2>1. CASE FlushPendingHeightUpdate
    BY <2>1, <1>0 DEF FlushPendingHeightUpdate, TailTypes, MessagesOnChain, OnChain
  <2>2. ASSUME NEW type, Received(type) PROVE cmdChan' \in Seq(Message) /\ MessagesOnChain'
    BY <2>2, <1>0, ReceivedKeeps, ReceivedOnChain
  <2> QED
    BY <2>1, <2>2 DEF OrchestratorStep, HandleUpdateChainHeight, HandleFetchFailed,
                      HandleFetchSuccess
<1>2. /\ state' \in OrchState
      /\ pending' \in Int /\ snapshot' \in Published /\ StateOnChain'
  <2>0. /\ state \in OrchState
        /\ pending \in Int /\ tip \in Nat /\ snapshot \in Published
    BY DEF TailTypes
  <2>1. CASE HandleUpdateChainHeight
    <3>1. Received("height") /\ Head(cmdChan).type = "height"
      BY <2>1 DEF HandleUpdateChainHeight, Received
    <3>2. OnChain(Head(cmdChan).h)
      BY <3>1, ReceivedKeeps DEF MessagesOnChain
    <3> DEFINE h == Head(cmdChan).h
    <3>3. BehindTip(TargetOf(h, state.safety))
      BY <3>2, <2>0 DEF BehindTip, TargetOf, OnChain, OrchState
    <3>4. CASE pending' = h /\ state' = [state EXCEPT !.target = TargetOf(h, state.safety)]
      BY <3>2, <3>3, <3>4, <2>0, <2>1, <1>0
      DEF HandleUpdateChainHeight, Publish, StateOnChain, OnChain, BehindTip, OrchState,
          Published
    <3>5. CASE UNCHANGED <<pending, state>>
      BY <3>5, <2>0, <2>1, <1>0
      DEF HandleUpdateChainHeight, Publish, StateOnChain, OnChain, BehindTip, OrchState,
          Published
    <3> QED
      BY <2>1, <3>4, <3>5 DEF HandleUpdateChainHeight
  <2>2. CASE HandleFetchFailed
    <3>1. /\ state' \in OrchState
          /\ state'.latest = state.latest /\ state'.target = state.target
      <4> DEFINE wider == IF state.safety < MaxSafety THEN state.safety + 1 ELSE state.safety
      <4>1. wider \in Nat \ {0} /\ 0 \in Int
        BY <2>0, TailFollowAssumption DEF OrchState
      <4>2. state' = [state EXCEPT !.success = 0, !.safety = wider]
        BY <2>2 DEF HandleFetchFailed
      <4> QED
        BY <2>0, <4>1, <4>2 DEF OrchState
    <3> QED
      BY <2>0, <2>2, <3>1, <1>0
      DEF HandleFetchFailed, Publish, StateOnChain, OnChain, BehindTip, Published
  <2>3. CASE HandleFetchSuccess
    <3>1. Lower(state.success + 1, ShrinkAfter) \in Int
      BY <2>0, TailFollowAssumption DEF Lower, OrchState
    <3>2. /\ state' \in OrchState
          /\ state'.latest = state.latest /\ state'.target = state.target
      <4>1. CASE /\ state.safety > 1
                 /\ state' = [state EXCEPT !.success = 0, !.safety = @ - 1]
        <5>1. state.safety - 1 \in Nat \ {0} /\ 0 \in Int
          BY <2>0, <4>1 DEF OrchState
        <5> QED
          BY <2>0, <4>1, <5>1 DEF OrchState
      <4>2. CASE state' = [state EXCEPT !.success = Lower(@ + 1, ShrinkAfter)]
        BY <2>0, <3>1, <4>2 DEF OrchState
      <4> QED
        BY <2>3, <4>1, <4>2 DEF HandleFetchSuccess
    <3>3. /\ snapshot' = [latest |-> state'.latest, target |-> state'.target]
          /\ pending' = pending
      BY <2>3 DEF HandleFetchSuccess, Publish
    <3> QED
      BY <2>0, <3>2, <3>3, <1>0 DEF StateOnChain, OnChain, BehindTip, Published
  <2>4. CASE FlushPendingHeightUpdate
    BY <2>0, <2>4, <1>0
    DEF FlushPendingHeightUpdate, StateOnChain, OnChain, BehindTip, NoHeight, OrchState
  <2> QED
    BY <2>1, <2>2, <2>3, <2>4 DEF OrchestratorStep
<1>3. TailTypes'
  BY <1>0, <1>1, <1>2 DEF TailTypes
<1>4. CallsOnChain' /\ CallInv' /\ HoleFromCutOrPurge'
  BY <1>0 DEF CallsOnChain, CallInv, HoleFromCutOrPurge, OnChain
<1> QED
  BY <1>1, <1>2, <1>3, <1>4

\* The steps of the tail follower's tick, and the reports of the workers.
LEMMA TickInv ==
    TailInv /\ ((\E h \in Heights : ReadTip(h)) \/ ReadTarget \/ TakeJob
                  \/ \E type \in {"success", "notFound"} : FetchOutcome(type)) => TailInv'
<1> SUFFICES ASSUME TailInv,
                    (\E h \in Heights : ReadTip(h)) \/ ReadTarget \/ TakeJob
                      \/ \E type \in {"success", "notFound"} : FetchOutcome(type)
             PROVE  TailInv'
  OBVIOUS
<1> USE DEF TailInv
<1>1. ASSUME NEW h \in Heights, ReadTip(h) PROVE TailInv'
  <2>1. h \in Nat /\ h <= tip /\ tip' = tip
    <3>1. h <= tip /\ tip' = tip
      BY <1>1, Zenon DEF ReadTip
    <3>2. h \in Nat
      BY TailFollowAssumption DEF Heights
    <3> QED
      BY <3>1, <3>2
  <2>2. cmdChan' \in Seq(Message) /\ MessagesOnChain'
    <3> DEFINE m == [type |-> "height", h |-> h]
    <3>1. m \in Message /\ OnChain(m.h)
      BY <2>1 DEF OnChain, Message
    <3>2. CASE cmdChan' = Append(cmdChan, m)
      BY <3>1, <3>2, <2>1, SentOnChain
    <3>3. CASE cmdChan' = cmdChan
      BY <3>3, <2>1 DEF TailTypes, MessagesOnChain, OnChain
    <3> QED
      BY <1>1, <3>2, <3>3 DEF ReadTip, Dispatched
  <2>3. tail' \in TailLocals /\ tail'.tip = h /\ tail'.last = tail.last
    <3>1. tail' = [tail EXCEPT !.step = "snap", !.tip = h] /\ tail \in TailLocals
      BY <1>1, Zenon DEF ReadTip, TailTypes
    <3>2. h \in Int /\ "snap" \in {"tick", "snap", "wait"}
      BY <2>1
    <3> QED
      BY <3>1, <3>2 DEF TailLocals
  <2>4. TailTypes' /\ StateOnChain'
    BY <1>1, <2>1, <2>2, <2>3 DEF ReadTip, TailTypes, StateOnChain, OnChain, BehindTip
  <2>5. CallsOnChain' /\ CallInv' /\ HoleFromCutOrPurge'
    BY <1>1, <2>1, <2>3 DEF ReadTip, CallsOnChain, CallInv, HoleFromCutOrPurge, OnChain
  <2> QED
    BY <2>2, <2>4, <2>5
<1>2. CASE ReadTarget
  <2> DEFINE asked == Lower(snapshot.target + Window, tail.tip)
             new == [step |-> "check", from |-> tail.last + 1, to |-> asked, asked |-> asked]
  <2>0. /\ tail \in TailLocals
        /\ snapshot.target \in Nat /\ tail.tip \in Nat /\ tip \in Nat
        /\ call \in [Callers -> CallLocals]
    BY DEF TailTypes, StateOnChain, CallsOnChain, OnChain, BehindTip
  <2>1. asked \in Nat
    BY <2>0, TailFollowAssumption DEF Lower
  <2>2. UNCHANGED <<tip, cmdChan, state, pending, snapshot, scheduled, cut, purged>>
    BY <1>2 DEF ReadTarget, orchVars
  <2>3. /\ tail' \in TailLocals
        /\ tail'.tip = 0 /\ tail'.last = tail.last
    <3>1. \/ tail' = [tail EXCEPT !.step = "wait", !.tip = 0]
          \/ tail' = [tail EXCEPT !.step = "tick", !.tip = 0]
      BY <1>2, Zenon DEF ReadTarget
    <3>2. 0 \in Int /\ "wait" \in {"tick", "snap", "wait"} /\ "tick" \in {"tick", "snap", "wait"}
      OBVIOUS
    <3> QED
      BY <2>0, <3>1, <3>2 DEF TailLocals
  <2>4. call' = call \/ call' = [call EXCEPT !["tail"] = new]
    BY <1>2 DEF ReadTarget
  <2>5. call' \in [Callers -> CallLocals]
    <3>1. new \in CallLocals
      BY <2>0, <2>1 DEF CallLocals, TailLocals
    <3> QED
      BY <2>0, <2>4, <3>1
  <2>6. TailTypes' /\ MessagesOnChain' /\ StateOnChain'
    BY <2>2, <2>3, <2>5 DEF TailTypes, MessagesOnChain, StateOnChain, OnChain, BehindTip
  <2>7. CallsOnChain' /\ CallInv'
    BY <2>0, <2>1, <2>2, <2>3, <2>4
    DEF CallsOnChain, CallInv, OnChain, Callers, CallLocals
  <2>8. HoleFromCutOrPurge'
    BY <2>2, <2>3 DEF HoleFromCutOrPurge
  <2> QED
    BY <2>6, <2>7, <2>8
<1>3. CASE TakeJob
  BY <1>3 DEF TakeJob, orchVars, TailTypes, MessagesOnChain, StateOnChain, CallsOnChain, CallInv,
              HoleFromCutOrPurge, OnChain, BehindTip
<1>4. ASSUME NEW type \in {"success", "notFound"}, FetchOutcome(type) PROVE TailInv'
  <2>1. [type |-> type] \in Message /\ type # "height"
    BY DEF Message
  <2>2. cmdChan' \in Seq(Message) /\ MessagesOnChain'
    BY <1>4, <2>1, SentOnChain DEF FetchOutcome
  <2> QED
    BY <1>4, <2>2 DEF FetchOutcome, TailTypes, StateOnChain, CallsOnChain, CallInv,
                      HoleFromCutOrPurge, OnChain, BehindTip
<1> QED
  BY <1>1, <1>2, <1>3, <1>4
\* Schedule returns: the caller has no call any more, and the tail follower moves
\* lastScheduled to the height it asked for when the call succeeded.
LEMMA ReturnsTypes ==
    ASSUME TailTypes, NEW c \in Callers, NEW ok \in BOOLEAN, Returns(c, ok),
           c = "tail" => call[c].asked \in Nat
    PROVE  /\ call' \in [Callers -> CallLocals]
           /\ call'[c] = NoCall
           /\ \A d \in Callers \ {c} : call'[d] = call[d]
           /\ tail' \in TailLocals /\ tail'.tip = tail.tip
           /\ tail'.last = IF c = "tail" /\ ok THEN call[c].asked ELSE tail.last
<1>1. NoCall \in CallLocals
  BY DEF NoCall, CallLocals
<1>2. call \in [Callers -> CallLocals] /\ call' = [call EXCEPT ![c] = NoCall]
  BY Zenon DEF TailTypes, Returns
<1>3. /\ call' \in [Callers -> CallLocals]
      /\ call'[c] = NoCall
      /\ \A d \in Callers \ {c} : call'[d] = call[d]
  BY <1>1, <1>2
<1>4. tail \in TailLocals
  BY DEF TailTypes
<1>5. CASE c = "watchdog"
  BY <1>3, <1>4, <1>5 DEF Returns
<1>6. CASE c # "watchdog"
  <2>1. c = "tail"
    BY <1>6 DEF Callers
  <2> DEFINE last == IF ok THEN call[c].asked ELSE tail.last
  <2>2. last \in Nat /\ "tick" \in {"tick", "snap", "wait"}
    BY <2>1, <1>4 DEF TailLocals
  <2>3. tail' = [tail EXCEPT !.step = "tick", !.last = last]
    BY <1>6, Zenon DEF Returns
  <2>4. tail' \in TailLocals /\ tail'.tip = tail.tip /\ tail'.last = last
    BY <1>4, <2>2, <2>3 DEF TailLocals
  <2> QED
    BY <1>3, <2>1, <2>4
<1> QED
  BY <1>5, <1>6

\* The four steps of a call of Schedule.
LEMMA ScheduleInv ==
    ASSUME TailInv, NEW c \in Callers,
           ScheduleRefused(c) \/ ScheduleAccepted(c) \/ ScheduleSend(c) \/ ScheduleDone(c)
    PROVE  TailInv'
<1> USE DEF TailInv
<1>0. /\ UNCHANGED <<tip, cmdChan, state, pending, snapshot>>
      /\ MessagesOnChain' /\ StateOnChain'
  <2>1. UNCHANGED <<tip, cmdChan, state, pending, snapshot>>
    BY DEF ScheduleRefused, ScheduleAccepted, ScheduleSend, ScheduleDone, orchVars
  <2> QED
    BY <2>1 DEF MessagesOnChain, StateOnChain, OnChain, BehindTip
<1>t. /\ tip \in Nat /\ tail \in TailLocals /\ tail.last \in Nat
      /\ call \in [Callers -> CallLocals]
      /\ \A d \in Callers : /\ call[d].from \in Nat /\ call[d].to \in Int
                            /\ call[d].asked \in Int
      /\ scheduled \in SUBSET Nat
      /\ snapshot.latest \in Nat /\ snapshot.latest <= tip
  BY DEF TailTypes, CallLocals, TailLocals, StateOnChain, OnChain
<1>n. NoCall.step = "none" /\ "tail" \in Callers
  BY DEF NoCall, Callers
<1>1. CASE ScheduleRefused(c)
  <2>1. /\ call[c].step = "check" /\ Returns(c, FALSE)
        /\ UNCHANGED <<scheduled, cut, purged>>
    BY <1>1 DEF ScheduleRefused
  <2>2. c = "tail" => call[c].asked \in Nat
    BY <2>1 DEF CallInv
  <2>3. /\ call' \in [Callers -> CallLocals] /\ call'[c] = NoCall
        /\ \A d \in Callers \ {c} : call'[d] = call[d]
        /\ tail' \in TailLocals /\ tail'.tip = tail.tip /\ tail'.last = tail.last
    BY <2>1, <2>2, ReturnsTypes
  <2>4. TailTypes'
    BY <1>0, <2>1, <2>3 DEF TailTypes
  <2>5. CallsOnChain' /\ CallInv' /\ HoleFromCutOrPurge'
    BY <1>0, <1>n, <2>1, <2>3 DEF CallsOnChain, CallInv, HoleFromCutOrPurge, OnChain
  <2> QED
    BY <1>0, <2>4, <2>5
<1>2. CASE ScheduleAccepted(c)
  <2> DEFINE to == Lower(call[c].asked, snapshot.latest)
  <2>1. /\ call[c].step = "check"
        /\ call' = [call EXCEPT ![c].step = "send", ![c].to = to]
        /\ UNCHANGED <<tail, scheduled, cut, purged>>
    BY <1>2 DEF ScheduleAccepted
  <2>2. to \in Int /\ to <= tip /\ "send" \in {"none", "check", "send"}
    BY <1>t DEF Lower
  <2>3. /\ call' \in [Callers -> CallLocals]
        /\ call'[c].step = "send" /\ call'[c].to = to
        /\ call'[c].from = call[c].from /\ call'[c].asked = call[c].asked
        /\ \A d \in Callers \ {c} : call'[d] = call[d]
    BY <1>t, <2>1, <2>2 DEF CallLocals
  <2>4. TailTypes'
    BY <1>0, <2>1, <2>3 DEF TailTypes
  <2>5. CallsOnChain' /\ HoleFromCutOrPurge'
    BY <1>0, <2>1, <2>2, <2>3 DEF CallsOnChain, HoleFromCutOrPurge, OnChain
  <2>6. CallInv'
    BY <1>0, <1>n, <1>t, <2>1, <2>3 DEF CallInv
  <2> QED
    BY <1>0, <2>4, <2>5, <2>6
<1>3. CASE ScheduleSend(c)
  <2> DEFINE end == Lower(call[c].from + RangeSize, call[c].to)
  <2>1. /\ call[c].step = "send" /\ call[c].from <= call[c].to
        /\ scheduled' = scheduled \cup (call[c].from..end)
        /\ call' = [call EXCEPT ![c].from = end + 1]
        /\ UNCHANGED <<tail, cut, purged>>
    BY <1>3 DEF ScheduleSend
  <2>2. end \in Nat /\ end + 1 \in Nat /\ end <= call[c].to /\ call[c].to <= tip
    BY <1>t, <2>1, TailFollowAssumption DEF Lower, CallsOnChain
  <2>3. /\ call' \in [Callers -> CallLocals]
        /\ call'[c].step = "send" /\ call'[c].from = end + 1
        /\ call'[c].to = call[c].to /\ call'[c].asked = call[c].asked
        /\ \A d \in Callers \ {c} : call'[d] = call[d]
    BY <1>t, <2>1, <2>2 DEF CallLocals
  <2>4. /\ scheduled' \in SUBSET Nat /\ scheduled \subseteq scheduled'
        /\ \A h \in scheduled' : h <= tip
    BY <1>t, <2>1, <2>2 DEF CallsOnChain
  <2>5. TailTypes'
    BY <1>0, <2>1, <2>3, <2>4 DEF TailTypes
  <2>6. CallsOnChain'
    BY <1>0, <2>1, <2>3, <2>4 DEF CallsOnChain, OnChain
  <2>7. HoleFromCutOrPurge'
    BY <2>1, <2>4 DEF HoleFromCutOrPurge
  <2>8. CallInv'
    <3>1. CASE c = "tail"
      <4>1. \A h \in (tail.last + 1)..end : h \in scheduled' \cup purged
        BY <1>t, <2>1, <2>2, <3>1 DEF CallInv
      <4> QED
        BY <1>t, <2>1, <2>2, <2>3, <3>1, <4>1 DEF CallInv
    <3>2. CASE c # "tail"
      BY <1>n, <2>1, <2>3, <2>4, <3>2 DEF CallInv
    <3> QED
      BY <3>1, <3>2
  <2> QED
    BY <1>0, <2>5, <2>6, <2>7, <2>8
<1>4. CASE ScheduleDone(c)
  <2>1. /\ call[c].step = "send" /\ call[c].from > call[c].to
        /\ Returns(c, TRUE)
        /\ cut' = IF c = "tail" THEN cut \cup ((call[c].to + 1)..call[c].asked) ELSE cut
        /\ UNCHANGED <<scheduled, purged>>
    BY <1>4 DEF ScheduleDone
  <2>2. c = "tail" => call[c].asked \in Nat
    BY <2>1 DEF CallInv
  <2>3. /\ call' \in [Callers -> CallLocals] /\ call'[c] = NoCall
        /\ \A d \in Callers \ {c} : call'[d] = call[d]
        /\ tail' \in TailLocals /\ tail'.tip = tail.tip
        /\ tail'.last = IF c = "tail" THEN call[c].asked ELSE tail.last
    BY <2>1, <2>2, ReturnsTypes
  <2>4. TailTypes'
    BY <1>0, <2>1, <2>3 DEF TailTypes
  <2>5. CallsOnChain'
    BY <1>0, <1>n, <2>1, <2>3 DEF CallsOnChain, OnChain
  <2>6. CallInv'
    BY <1>n, <2>1, <2>3 DEF CallInv
  <2>7. HoleFromCutOrPurge'
    <3>1. CASE c = "tail"
      <4> SUFFICES ASSUME NEW h \in 1..call[c].asked PROVE h \in scheduled \cup purged \cup cut'
        BY <2>1, <2>3, <3>1 DEF HoleFromCutOrPurge
      <4>1. CASE h <= tail.last
        BY <1>t, <2>1, <4>1, <3>1 DEF HoleFromCutOrPurge
      <4>2. CASE h > tail.last /\ h <= call[c].to
        BY <1>t, <2>1, <4>2, <3>1 DEF CallInv
      <4>3. CASE h > call[c].to
        BY <1>t, <2>1, <4>3, <3>1
      <4> QED
        BY <1>t, <4>1, <4>2, <4>3
    <3>2. CASE c # "tail"
      BY <2>1, <2>3, <3>2 DEF HoleFromCutOrPurge
    <3> QED
      BY <3>1, <3>2
  <2> QED
    BY <1>0, <2>4, <2>5, <2>6, <2>7
<1> QED
  BY <1>1, <1>2, <1>3, <1>4

\* The watchdog's intervention sets the cursors to heights of the chain.
LEMMA ForceInv ==
    ASSUME TailInv, NEW h \in Heights, NEW d \in Heads, ForceSetCursors(h, d)
    PROVE  TailInv'
<1> USE DEF TailInv
<1>1. h \in Nat /\ d \in Nat /\ h > 0 /\ h - 1 \in Nat /\ tip \in Nat
  BY TailFollowAssumption DEF Heights, Heads, TailTypes
<1>2. /\ h <= tip
      /\ state' = [state EXCEPT !.latest = h - 1, !.target = h - 1]
      /\ snapshot' = [latest |-> state'.latest, target |-> state'.target]
      /\ call' = [call EXCEPT !["watchdog"] =
                     [step |-> "check", from |-> d + 1, to |-> h, asked |-> h]]
      /\ scheduled' = scheduled \ QueuedHeights(jobs)
      /\ purged' = purged \cup QueuedHeights(jobs)
      /\ UNCHANGED <<tip, cmdChan, pending, tail, cut>>
  BY DEF ForceSetCursors, Publish
<1>3. state' \in OrchState /\ state'.latest = h - 1 /\ state'.target = h - 1
  <2>1. h - 1 \in Int /\ state \in OrchState
    BY <1>1 DEF TailTypes
  <2> QED
    BY <1>2, <2>1 DEF OrchState
<1>4. snapshot' \in Published /\ snapshot'.latest = h - 1 /\ snapshot'.target = h - 1
  BY <1>1, <1>2, <1>3 DEF Published
<1>5. /\ call' \in [Callers -> CallLocals]
      /\ call'["tail"] = call["tail"] /\ call'["watchdog"].step = "check"
  <2>1. [step |-> "check", from |-> d + 1, to |-> h, asked |-> h] \in CallLocals
    BY <1>1 DEF CallLocals
  <2>2. call \in [Callers -> CallLocals]
    BY DEF TailTypes
  <2> QED
    BY <1>2, <2>1, <2>2 DEF Callers
<1>6. TailTypes'
  BY <1>2, <1>3, <1>4, <1>5 DEF TailTypes
<1>7. MessagesOnChain' /\ StateOnChain'
  BY <1>1, <1>2, <1>3, <1>4 DEF MessagesOnChain, StateOnChain, OnChain, BehindTip
<1>8. CallsOnChain' /\ CallInv' /\ HoleFromCutOrPurge'
  BY <1>2, <1>5 DEF CallsOnChain, CallInv, HoleFromCutOrPurge, OnChain, Callers
<1> QED
  BY <1>6, <1>7, <1>8

\* Every step keeps the invariant.
LEMMA TailNextInv == TailInv /\ [Next]_vars => TailInv'
<1> SUFFICES ASSUME TailInv, [Next]_vars PROVE TailInv'
  OBVIOUS
<1>1. CASE UNCHANGED vars
  BY <1>1 DEF vars, orchVars, TailInv, TailTypes, MessagesOnChain, StateOnChain, CallsOnChain,
              CallInv, HoleFromCutOrPurge, OnChain, BehindTip
<1>2. CASE Next
  BY <1>2, ChainGrowsInv, CommandInv, TickInv, ScheduleInv, ForceInv DEF Next
<1> QED
  BY <1>1, <1>2

\* So it holds throughout.
LEMMA TailInvariant == Spec => []TailInv
  BY TailInitInv, TailNextInv, PTL DEF Spec

\* Whatever the commands, merges, stale snapshots and interventions, no height is
\* put into the job queue, and none is published, before the chain has reached it.
THEOREM TailNeverChasesGhosts == Spec => []NoGhostChase
<1>1. TailInv => NoGhostChase
  BY DEF TailInv, StateOnChain, CallsOnChain, NoGhostChase, OnChain, BehindTip
<1> QED
  BY <1>1, TailInvariant, PTL

\* Whatever Schedule refuses, and however the watchdog interferes, a height behind
\* lastScheduled is queued or taken, fell to the silent cut at the published head, or was
\* thrown out of the queue by a forced cursor.
THEOREM TailHolesAccounted == Spec => []HoleFromCutOrPurge
<1>1. TailInv => HoleFromCutOrPurge
  BY DEF TailInv
<1> QED
  BY <1>1, TailInvariant, PTL

=============================================================================
