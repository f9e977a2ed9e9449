----------------------- MODULE PersistPipelineProofs -----------------------
(***************************************************************************)
(* Proofs about the persistence pipeline, for every capacity, batch size   *)
(* and number of restarts: no height is lost silently, the checkpoint      *)
(* covers only decided heights, the cursor stays behind it, and the        *)
(* pipeline implements the resumable log.                                  *)
(*                                                                         *)
(* The argument is about order.  Heights travel from the command channel   *)
(* to the task channel, the batch and the transaction without overtaking   *)
(* each other, and all of them are above the checkpoint until their        *)
(* transaction commits.                                                    *)
(***************************************************************************)
EXTENDS PersistPipeline, TLAPS

Ascending(s) == \A i, j \in DOMAIN s : i < j => s[i] < s[j]

Before(S, T) == \A x \in S, y \in T : x < y

WriterState ==
    [at : {"select", "received", "flush", "notify", "drain", "draining", "drained", "stopped"},
     ret : {"select", "drain", "drained", "stopped"}]

PipeTypes ==
    /\ next \in Nat \ {0}
    /\ cmdChan \in Seq(Message)
    /\ syncedCursor \in Nat
    /\ taskChan \in Seq(Heights)
    /\ batch \in Seq(Heights)
    /\ flushing \in Seq(Heights)
    /\ writer \in WriterState
    /\ db \in SUBSET Heights
    /\ checkpoint \in Nat

\* What the writer holds at which step.
StageInv ==
    /\ writer.at \notin {"select", "received"} => batch = <<>>
    /\ writer.at \notin {"received", "flush", "notify", "draining"} => flushing = <<>>
    /\ writer.at \in {"received", "flush", "notify"} => flushing # <<>>

\* The commands: commits ascend, and a reported height is on disk.
CommandInv ==
    /\ \A i, j \in DOMAIN cmdChan :
          i < j /\ cmdChan[i].type = "commit" /\ cmdChan[j].type = "commit"
            => cmdChan[i].height < cmdChan[j].height
    /\ \A i \in DOMAIN cmdChan : cmdChan[i].type = "disk" => cmdChan[i].height <= checkpoint

\* Nothing in the pipeline overtakes.
OrderInv ==
    /\ Ascending(taskChan) /\ Ascending(batch) /\ Ascending(flushing)
    /\ Before(Heads(taskChan), Commits)
    /\ Before(Heads(batch), Heads(flushing) \cup Heads(taskChan) \cup Commits)
    /\ Before(Heads(flushing), Heads(taskChan) \cup Commits)
    /\ Before(InPipe, {next})

\* What is in the pipeline is above the checkpoint, until its transaction commits.
DiskInv ==
    /\ Before({checkpoint}, Commits \cup Heads(taskChan) \cup Heads(batch))
    /\ writer.at # "notify" => Before({checkpoint}, Heads(flushing))
    /\ writer.at = "notify" => Heads(flushing) \subseteq db /\ MaxOf(flushing) = checkpoint
    /\ checkpoint < next

PipeInv ==
    /\ PipeTypes /\ StageInv /\ CommandInv /\ OrderInv /\ DiskInv
    /\ NoSilentLoss /\ CheckpointCovers /\ CursorBehindDisk

(***************************************************************************)
(* The elements of a sequence                                              *)
(***************************************************************************)
LEMMA HeadsEmpty == Heads(<<>>) = {}
  BY DEF Heads

\* A receive takes the lowest of an ascending channel.
LEMMA HeadsTail ==
    ASSUME NEW s \in Seq(Heights), s # <<>>, Ascending(s)
    PROVE  /\ Heads(s) = {Head(s)} \cup Heads(Tail(s))
           /\ Head(s) \in Heights /\ Tail(s) \in Seq(Heights)
           /\ Ascending(Tail(s)) /\ Before({Head(s)}, Heads(Tail(s)))
<1>1. /\ Head(s) \in Heights /\ Tail(s) \in Seq(Heights)
      /\ Head(s) = s[1] /\ 1 \in DOMAIN s
      /\ \A i \in DOMAIN Tail(s) : i \in Nat /\ i + 1 \in DOMAIN s /\ 1 < i + 1 /\ Tail(s)[i] = s[i + 1]
      /\ \A i \in DOMAIN s : i = 1 \/ (i - 1 \in DOMAIN Tail(s) /\ s[i] = Tail(s)[i - 1])
  OBVIOUS
<1>2. Heads(s) = {Head(s)} \cup Heads(Tail(s))
  <2> DEFINE t == Tail(s)
  <2> HIDE DEF t
  <2>1. /\ Head(s) = s[1] /\ 1 \in DOMAIN s
        /\ \A i \in DOMAIN t : i + 1 \in DOMAIN s /\ t[i] = s[i + 1]
        /\ \A i \in DOMAIN s : i = 1 \/ (i - 1 \in DOMAIN t /\ s[i] = t[i - 1])
    BY <1>1 DEF t
  <2>2. {s[i] : i \in DOMAIN s} = {Head(s)} \cup {t[i] : i \in DOMAIN t}
    BY <2>1
  <2> QED
    BY <2>2 DEF Heads, t
<1>3. Ascending(Tail(s))
  BY <1>1 DEF Ascending
<1>4. Before({Head(s)}, Heads(Tail(s)))
  BY <1>1 DEF Ascending, Before, Heads
<1> QED
  BY <1>1, <1>2, <1>3, <1>4

\* Sending a height above all others keeps a channel ascending.
LEMMA HeadsAppend ==
    ASSUME NEW s \in Seq(Heights), NEW h \in Heights, Ascending(s), Before(Heads(s), {h})
    PROVE  /\ Append(s, h) \in Seq(Heights) /\ Append(s, h) # <<>>
           /\ Heads(Append(s, h)) = Heads(s) \cup {h}
           /\ Ascending(Append(s, h))
<1> DEFINE t == Append(s, h)
<1>1. /\ t \in Seq(Heights) /\ t # <<>>
      /\ \A i \in DOMAIN s : i \in DOMAIN t /\ t[i] = s[i]
      /\ Len(s) + 1 \in DOMAIN t /\ t[Len(s) + 1] = h
      /\ \A i \in DOMAIN t : i \in Nat /\ (i \in DOMAIN s \/ i = Len(s) + 1)
      /\ \A i \in DOMAIN s : i <= Len(s)
  OBVIOUS
<1> HIDE DEF t
<1>2. Heads(t) = Heads(s) \cup {h}
  BY <1>1 DEF Heads
<1>3. Ascending(t)
  <2> SUFFICES ASSUME NEW i \in DOMAIN t, NEW j \in DOMAIN t, i < j PROVE t[i] < t[j]
    BY DEF Ascending
  <2>1. i \in DOMAIN s
    BY <1>1
  <2>2. CASE j \in DOMAIN s
    BY <1>1, <2>1, <2>2 DEF Ascending
  <2>3. CASE j = Len(s) + 1
    BY <1>1, <2>1, <2>3 DEF Before, Heads
  <2> QED
    BY <1>1, <2>2, <2>3
<1> QED
  BY <1>1, <1>2, <1>3 DEF t

\* So does joining two batches of which one lies above the other.
LEMMA HeadsConcat ==
    ASSUME NEW s \in Seq(Heights), NEW t \in Seq(Heights), t # <<>>,
           Ascending(s), Ascending(t), Before(Heads(s), Heads(t))
    PROVE  /\ s \o t \in Seq(Heights) /\ s \o t # <<>>
           /\ Heads(s \o t) = Heads(s) \cup Heads(t)
           /\ Ascending(s \o t)
<1> DEFINE u == s \o t
<1>1. /\ u \in Seq(Heights) /\ u # <<>>
      /\ \A i \in DOMAIN s : i \in DOMAIN u /\ u[i] = s[i]
      /\ \A i \in DOMAIN t : i + Len(s) \in DOMAIN u /\ u[i + Len(s)] = t[i]
      /\ \A i \in DOMAIN u : i \in Nat /\ (i \in DOMAIN s \/ i - Len(s) \in DOMAIN t)
      /\ \A i \in DOMAIN s : i <= Len(s)
      /\ \A i \in DOMAIN t : 1 <= i
      /\ Len(s) \in Nat
  OBVIOUS
<1> HIDE DEF u
<1>2. \A i \in DOMAIN u : \/ i \in DOMAIN s /\ u[i] = s[i]
                          \/ i - Len(s) \in DOMAIN t /\ u[i] = t[i - Len(s)]
  <2> SUFFICES ASSUME NEW i \in DOMAIN u, i \notin DOMAIN s
               PROVE  i - Len(s) \in DOMAIN t /\ u[i] = t[i - Len(s)]
    BY <1>1
  <2>1. i - Len(s) \in DOMAIN t /\ (i - Len(s)) + Len(s) = i
    BY <1>1
  <2> QED
    BY <1>1, <2>1
<1>3. Heads(u) = Heads(s) \cup Heads(t)
  BY <1>1, <1>2 DEF Heads
<1>4. Ascending(u)
  <2> SUFFICES ASSUME NEW i \in DOMAIN u, NEW j \in DOMAIN u, i < j PROVE u[i] < u[j]
    BY DEF Ascending
  <2>1. CASE i \in DOMAIN s /\ j \in DOMAIN s
    BY <1>1, <2>1 DEF Ascending
  <2>2. CASE i \in DOMAIN s /\ j \notin DOMAIN s
    BY <1>1, <1>2, <2>2 DEF Before, Heads
  <2>3. CASE i \notin DOMAIN s
    <3>1. i - Len(s) \in DOMAIN t /\ u[i] = t[i - Len(s)]
      BY <1>2, <2>3
    <3>2. j \notin DOMAIN s
      BY <1>1, <3>1
    <3>3. j - Len(s) \in DOMAIN t /\ u[j] = t[j - Len(s)]
      BY <1>2, <3>2
    <3>4. i - Len(s) < j - Len(s)
      BY <1>1
    <3> QED
      BY <3>1, <3>3, <3>4 DEF Ascending
  <2> QED
    BY <2>1, <2>2, <2>3
<1> QED
  BY <1>1, <1>3, <1>4 DEF u

\* The height written to the checkpoint is that of the last task.
LEMMA MaxOfAscending ==
    ASSUME NEW s \in Seq(Heights), s # <<>>, Ascending(s)
    PROVE  MaxOf(s) \in Heads(s) /\ \A g \in Heads(s) : g <= MaxOf(s)
<1>1. /\ Len(s) \in DOMAIN s
      /\ \A i \in DOMAIN s : i \in Nat /\ i <= Len(s) /\ s[i] \in Nat
  <2>1. \A i \in DOMAIN s : i \in Nat /\ i <= Len(s) /\ s[i] \in Heights
    OBVIOUS
  <2>2. Heights \subseteq Nat
    BY PersistAssumption DEF Heights
  <2>3. Len(s) \in DOMAIN s
    OBVIOUS
  <2> QED
    BY <2>1, <2>2, <2>3
<1>2. s[Len(s)] \in Heads(s) /\ \A g \in Heads(s) : g <= s[Len(s)]
  <2>1. \A i \in DOMAIN s : s[i] <= s[Len(s)]
    <3> SUFFICES ASSUME NEW i \in DOMAIN s PROVE s[i] <= s[Len(s)]
      OBVIOUS
    <3>1. CASE i = Len(s)
      BY <1>1, <3>1
    <3>2. CASE i < Len(s)
      BY <1>1, <3>2 DEF Ascending
    <3> QED
      BY <1>1, <3>1, <3>2
  <2> QED
    BY <1>1, <2>1 DEF Heads
<1> QED
  BY <1>2 DEF MaxOf
(***************************************************************************)
(* The command channel                                                     *)
(***************************************************************************)
LEMMA CommitsAreHeights == ASSUME PipeTypes PROVE Commits \subseteq Heights
<1> SUFFICES ASSUME NEW i \in DOMAIN cmdChan, cmdChan[i].type = "commit"
             PROVE  cmdChan[i].height \in Heights
  BY DEF Commits
<1>1. cmdChan[i] \in Message
  BY DEF PipeTypes
<1> QED
  BY <1>1 DEF Message

\* The orchestrator takes the oldest command.
LEMMA CommandTaken ==
    ASSUME PipeTypes, CommandInv, cmdChan # <<>>, cmdChan' = Tail(cmdChan),
           UNCHANGED checkpoint
    PROVE  /\ cmdChan' \in Seq(Message) /\ CommandInv'
           /\ Head(cmdChan).type # "commit" => Commits' = Commits
           /\ Head(cmdChan).type = "commit" =>
                 /\ Commits = {Head(cmdChan).height} \cup Commits'
                 /\ Before({Head(cmdChan).height}, Commits')
           /\ Head(cmdChan).type = "disk" => Head(cmdChan).height <= checkpoint
<1> DEFINE q == cmdChan'
<1>1. /\ q \in Seq(Message) /\ Head(cmdChan) = cmdChan[1] /\ 1 \in DOMAIN cmdChan
      /\ \A i \in DOMAIN q : i \in Nat /\ i + 1 \in DOMAIN cmdChan /\ 1 < i + 1
                             /\ q[i] = cmdChan[i + 1]
      /\ \A i \in DOMAIN cmdChan :
            i = 1 \/ (i - 1 \in DOMAIN q /\ cmdChan[i] = q[i - 1])
  BY DEF PipeTypes
<1>2. /\ \A i, j \in DOMAIN q : i < j /\ q[i].type = "commit" /\ q[j].type = "commit"
                                  => q[i].height < q[j].height
      /\ \A i \in DOMAIN q : q[i].type = "disk" => q[i].height <= checkpoint'
  BY <1>1 DEF CommandInv
<1> DEFINE new == {q[i].height : i \in {j \in DOMAIN q : q[j].type = "commit"}}
<1>3. Head(cmdChan).type # "commit" => new = Commits
  BY <1>1 DEF Commits
<1>4. Head(cmdChan).type = "commit" => /\ Commits = {Head(cmdChan).height} \cup new
                                       /\ Before({Head(cmdChan).height}, new)
  <2> SUFFICES ASSUME Head(cmdChan).type = "commit"
               PROVE  /\ Commits = {Head(cmdChan).height} \cup new
                      /\ Before({Head(cmdChan).height}, new)
    OBVIOUS
  <2>1. Commits = {Head(cmdChan).height} \cup new
    <3>1. \A i \in DOMAIN cmdChan :
             cmdChan[i].type = "commit" => cmdChan[i].height \in {Head(cmdChan).height} \cup new
      BY <1>1
    <3>2. Head(cmdChan).height \in Commits
      BY <1>1 DEF Commits
    <3>3. \A i \in DOMAIN q : q[i].type = "commit" => q[i].height \in Commits
      BY <1>1 DEF Commits
    <3> QED
      BY <3>1, <3>2, <3>3 DEF Commits
  <2>2. \A i \in DOMAIN q : q[i].type = "commit" => Head(cmdChan).height < q[i].height
    BY <1>1 DEF CommandInv
  <2> QED
    BY <2>1, <2>2 DEF Before
<1>5. new = Commits'
  BY DEF Commits
<1> QED
  BY <1>1, <1>2, <1>3, <1>4, <1>5 DEF CommandInv

\* A command is dispatched.
LEMMA CommandSent ==
    ASSUME PipeTypes, CommandInv, NEW m \in Message, cmdChan' = Append(cmdChan, m),
           UNCHANGED checkpoint,
           m.type = "disk" => m.height <= checkpoint,
           m.type = "commit" => Before(Commits, {m.height})
    PROVE  /\ cmdChan' \in Seq(Message) /\ CommandInv'
           /\ m.type # "commit" => Commits' = Commits
           /\ m.type = "commit" => Commits' = Commits \cup {m.height}
<1> DEFINE q == cmdChan'
<1>1. /\ q \in Seq(Message)
      /\ \A i \in DOMAIN cmdChan : i \in DOMAIN q /\ q[i] = cmdChan[i] /\ i <= Len(cmdChan)
      /\ Len(cmdChan) + 1 \in DOMAIN q /\ q[Len(cmdChan) + 1] = m /\ Len(cmdChan) \in Nat
      /\ \A i \in DOMAIN q : i \in Nat /\ (i \in DOMAIN cmdChan \/ i = Len(cmdChan) + 1)
  BY DEF PipeTypes
<1>2. \A i, j \in DOMAIN q : i < j /\ q[i].type = "commit" /\ q[j].type = "commit"
                                => q[i].height < q[j].height
  <2> SUFFICES ASSUME NEW i \in DOMAIN q, NEW j \in DOMAIN q, i < j,
                      q[i].type = "commit", q[j].type = "commit"
               PROVE  q[i].height < q[j].height
    OBVIOUS
  <2>1. i \in DOMAIN cmdChan
    BY <1>1
  <2>2. CASE j \in DOMAIN cmdChan
    BY <1>1, <2>1, <2>2 DEF CommandInv
  <2>3. CASE j = Len(cmdChan) + 1
    BY <1>1, <2>1, <2>3 DEF Before, Commits
  <2> QED
    BY <1>1, <2>2, <2>3
<1>3. \A i \in DOMAIN q : q[i].type = "disk" => q[i].height <= checkpoint'
  BY <1>1 DEF CommandInv
<1> DEFINE new == {q[i].height : i \in {j \in DOMAIN q : q[j].type = "commit"}}
<1>4. /\ m.type # "commit" => new = Commits
      /\ m.type = "commit" => new = Commits \cup {m.height}
  BY <1>1 DEF Commits
<1>5. new = Commits'
  BY DEF Commits
<1> QED
  BY <1>1, <1>2, <1>3, <1>4, <1>5 DEF CommandInv

(***************************************************************************)
(* Steps that move no height                                               *)
(***************************************************************************)
LEMMA HeightsAreNat == Heights \subseteq Nat
  BY PersistAssumption DEF Heights

\* Commands and bookkeeping: the heights stay where they are.
LEMMA UnmovedInv ==
    ASSUME PipeInv, UNCHANGED <<next, taskChan, batch, flushing, db, checkpoint, lost, unsent>>,
           cmdChan' \in Seq(Message), CommandInv', Commits' = Commits,
           writer' \in WriterState, StageInv',
           writer'.at = "notify" <=> writer.at = "notify",
           syncedCursor' \in Nat, syncedCursor' <= checkpoint
    PROVE  PipeInv'
<1> USE DEF PipeInv
<1>1. PipeTypes'
  BY DEF PipeTypes
<1>2. OrderInv'
  BY DEF OrderInv, InPipe, Ascending
<1>3. DiskInv'
  BY DEF DiskInv
<1>4. NoSilentLoss' /\ CheckpointCovers'
  BY DEF NoSilentLoss, CheckpointCovers, InPipe
<1>5. CursorBehindDisk'
  BY DEF CursorBehindDisk
<1> QED
  BY <1>1, <1>2, <1>3, <1>4, <1>5

\* The commands of the orchestrator other than the commit of a batch.
LEMMA OtherCommandsInv ==
    ASSUME PipeInv,
           HandleCommitDisk \/ HandleSetSystemState \/ HandleOther
    PROVE  PipeInv'
<1>1. /\ UNCHANGED <<next, taskChan, writer, batch, flushing, db, checkpoint, lost, unsent>>
      /\ cmdChan # <<>> /\ cmdChan' = Tail(cmdChan) /\ Head(cmdChan).type # "commit"
  BY DEF HandleCommitDisk, HandleSetSystemState, HandleOther, Received, dbVars
<1>2. /\ cmdChan' \in Seq(Message) /\ CommandInv' /\ Commits' = Commits
      /\ Head(cmdChan).type = "disk" => Head(cmdChan).height <= checkpoint
  BY <1>1, CommandTaken DEF PipeInv
<1>3. syncedCursor' \in Nat /\ syncedCursor' <= checkpoint
  <2>1. syncedCursor \in Nat /\ syncedCursor <= checkpoint
    BY DEF PipeInv, PipeTypes, CursorBehindDisk
  <2>2. CASE HandleCommitDisk
    <3>1. Head(cmdChan).type = "disk" /\ Head(cmdChan) \in Message
      BY <2>2 DEF HandleCommitDisk, Received, PipeInv, PipeTypes
    <3>2. Head(cmdChan).height \in Heights
      BY <3>1 DEF Message
    <3> QED
      BY <1>2, <2>1, <2>2, <3>1, <3>2, HeightsAreNat DEF HandleCommitDisk
  <2> QED
    BY <2>1, <2>2 DEF HandleSetSystemState, HandleOther
<1>4. writer' \in WriterState /\ StageInv'
  BY <1>1 DEF PipeInv, PipeTypes, StageInv
<1> QED
  BY <1>1, <1>2, <1>3, <1>4, UnmovedInv

\* Commands that compete for the channel, and what touches no channel at all.
LEMMA BookkeepingInv ==
    ASSUME PipeInv,
           DispatchOther \/ OrchestratorStops \/ CooldownExpires \/ Shutdown \/ UNCHANGED vars
    PROVE  PipeInv'
<1>1. UNCHANGED <<next, syncedCursor, taskChan, writer, batch, flushing, db, checkpoint, lost, unsent>>
  BY DEF DispatchOther, OrchestratorStops, CooldownExpires, Shutdown, vars, procVars, dbVars
<1>2. cmdChan' \in Seq(Message) /\ CommandInv' /\ Commits' = Commits
  <2>1. CASE cmdChan' = cmdChan
    BY <1>1, <2>1 DEF PipeInv, PipeTypes, CommandInv, Commits
  <2>2. CASE cmdChan' = Append(cmdChan, [type |-> "other"])
    <3>1. [type |-> "other"] \in Message
      BY DEF Message
    <3> QED
      BY <1>1, <2>2, <3>1, CommandSent DEF PipeInv
  <2> QED
    BY <2>1, <2>2
    DEF DispatchOther, OrchestratorStops, CooldownExpires, Shutdown, vars, procVars
<1>3. writer' \in WriterState /\ StageInv' /\ syncedCursor' \in Nat /\ syncedCursor' <= checkpoint
  BY <1>1 DEF PipeInv, PipeTypes, StageInv, CursorBehindDisk
<1> QED
  BY <1>1, <1>2, <1>3, UnmovedInv

\* The writer sends a command that carries no height, or fails to.
LEMMA WriterDispatchKeeps ==
    ASSUME PipeInv, NEW m \in Message, m.type = "state", WriterDispatch(m),
           UNCHANGED checkpoint
    PROVE  cmdChan' \in Seq(Message) /\ CommandInv' /\ Commits' = Commits
<1>1. CASE cmdChan' = cmdChan
  BY <1>1 DEF PipeInv, PipeTypes, CommandInv, Commits
<1>2. CASE cmdChan' = Append(cmdChan, m)
  BY <1>2, CommandSent DEF PipeInv
<1> QED
  BY <1>1, <1>2 DEF WriterDispatch

\* The start, the end and the last round of an emergency drain.
LEMMA DrainInv ==
    ASSUME PipeInv, EmergencyDrain \/ DrainEnds \/ (DrainTask /\ UNCHANGED taskChan)
    PROVE  PipeInv'
<1>1. UNCHANGED <<next, syncedCursor, batch, taskChan, db, checkpoint, lost, unsent>>
  BY DEF EmergencyDrain, DrainEnds, DrainTask, dbVars
<1>t. /\ writer \in WriterState /\ StageInv /\ taskChan \in Seq(Heights)
      /\ syncedCursor \in Nat /\ syncedCursor <= checkpoint /\ flushing \in Seq(Heights)
  BY DEF PipeInv, PipeTypes, CursorBehindDisk
<1>2. CASE EmergencyDrain
  <2>1. flushing' = flushing /\ writer.at = "drain"
    BY <1>2 DEF EmergencyDrain
  <2>2. writer' \in WriterState /\ StageInv' /\ writer'.at # "notify"
    BY <1>1, <1>2, <1>t, <2>1 DEF EmergencyDrain, StageInv, WriterState, Idle
  <2>3. cmdChan' \in Seq(Message) /\ CommandInv' /\ Commits' = Commits
    <3>1. [type |-> "state", to |-> "degraded"] \in Message
      BY DEF Message
    <3>2. CASE WriterDispatch([type |-> "state", to |-> "degraded"])
      BY <1>1, <3>1, <3>2, WriterDispatchKeeps
    <3>3. CASE cmdChan' = cmdChan
      BY <1>1, <3>3 DEF PipeInv, PipeTypes, CommandInv, Commits
    <3> QED
      BY <1>2, <3>2, <3>3 DEF EmergencyDrain
  <2> QED
    BY <1>1, <1>t, <2>1, <2>2, <2>3, UnmovedInv
<1>3. CASE DrainEnds
  <2>1. flushing' = flushing /\ writer.at = "drained"
    BY <1>3 DEF DrainEnds
  <2>2. writer' \in WriterState /\ StageInv' /\ writer'.at # "notify"
    BY <1>1, <1>3, <1>t, <2>1 DEF DrainEnds, StageInv, WriterState, Idle
  <2>3. cmdChan' \in Seq(Message) /\ CommandInv' /\ Commits' = Commits
    <3>1. [type |-> "state", to |-> "running"] \in Message
      BY DEF Message
    <3> QED
      BY <1>1, <1>3, <3>1, WriterDispatchKeeps DEF DrainEnds
  <2> QED
    BY <1>1, <1>t, <2>1, <2>2, <2>3, UnmovedInv
<1>4. CASE DrainTask /\ UNCHANGED taskChan
  <2>1. /\ flushing' = flushing /\ writer.at = "draining" /\ cmdChan' = cmdChan
        /\ writer' = [writer EXCEPT !.at = IF flushing = <<>> THEN "drained" ELSE "flush"]
    <3>1. ~(Len(taskChan) > DrainTarget /\ taskChan' = Tail(taskChan))
      <4>1. DrainTarget \in Nat
        BY PersistAssumption DEF DrainTarget
      <4> QED
        BY <1>4, <1>t, <4>1
    <3> QED
      BY <1>4, <3>1 DEF DrainTask
  <2>2. writer' \in WriterState /\ StageInv' /\ writer'.at # "notify"
    BY <1>1, <1>t, <2>1 DEF StageInv, WriterState
  <2>3. cmdChan' \in Seq(Message) /\ CommandInv' /\ Commits' = Commits
    BY <1>1, <2>1 DEF PipeInv, PipeTypes, CommandInv, Commits
  <2> QED
    BY <1>1, <1>t, <2>1, <2>2, <2>3, UnmovedInv
<1> QED
  BY <1>2, <1>3, <1>4

(***************************************************************************)
(* Steps that move heights                                                 *)
(***************************************************************************)
\* The sets the moves are about hold heights of the chain.
LEMMA PipeHeights ==
    ASSUME PipeTypes
    PROVE  /\ Commits \subseteq Nat /\ Heads(taskChan) \subseteq Nat
           /\ Heads(batch) \subseteq Nat /\ Heads(flushing) \subseteq Nat
           /\ InPipe \subseteq Heights
<1>1. Commits \subseteq Heights
  BY CommitsAreHeights
<1>2. /\ Heads(taskChan) \subseteq Heights /\ Heads(batch) \subseteq Heights
      /\ Heads(flushing) \subseteq Heights
  BY DEF PipeTypes, Heads
<1> QED
  BY <1>1, <1>2, HeightsAreNat DEF InPipe

\* The sequencer hands a block over.
LEMMA HandOverInv == ASSUME PipeInv, HandOver PROVE PipeInv'
<1> USE DEF PipeInv
<1>1. /\ next' = next + 1 /\ next \in Nat \ {0} /\ next \in Heights
      /\ UNCHANGED <<syncedCursor, taskChan, writer, batch, flushing, db, checkpoint, unsent>>
  BY PersistAssumption DEF HandOver, dbVars, PipeTypes, Heights
<1>2. /\ Commits \subseteq Nat /\ Heads(taskChan) \subseteq Nat
      /\ Heads(batch) \subseteq Nat /\ Heads(flushing) \subseteq Nat /\ checkpoint \in Nat
  BY PipeHeights DEF PipeTypes
<1>3. /\ cmdChan' \in Seq(Message) /\ CommandInv'
      /\ \/ Commits' = Commits \cup {next} /\ lost' = lost
         \/ Commits' = Commits /\ lost' = lost \cup {next}
  <2>1. CASE cmdChan' = Append(cmdChan, [type |-> "commit", height |-> next]) /\ lost' = lost
    <3> DEFINE m == [type |-> "commit", height |-> next]
    <3>1. m \in Message /\ m.type = "commit" /\ m.height = next
      BY <1>1 DEF Message
    <3>2. Before(Commits, {next})
      BY DEF OrderInv, InPipe, Before
    <3> QED
      BY <1>1, <2>1, <3>1, <3>2, CommandSent
  <2>2. CASE cmdChan' = cmdChan /\ lost' = lost \cup {next}
    BY <1>1, <2>2 DEF PipeTypes, CommandInv, Commits
  <2> QED
    BY <2>1, <2>2 DEF HandOver
<1>4. PipeTypes' /\ StageInv' /\ CursorBehindDisk'
  BY <1>1, <1>3 DEF PipeTypes, StageInv, CursorBehindDisk
<1>a. /\ \A x \in InPipe : x \in Nat /\ x < next
      /\ Commits' \subseteq Commits \cup {next}
  BY <1>2, <1>3 DEF OrderInv, InPipe, Before
<1>5. OrderInv'
  <2>1. Before(InPipe', {next'})
    <3>1. \A x \in InPipe' : x \in InPipe \/ x = next
      BY <1>1, <1>a DEF InPipe
    <3> QED
      BY <1>1, <1>a, <3>1 DEF Before
  <2>2. \A x \in Heads(taskChan) \cup Heads(batch) \cup Heads(flushing) : x < next
    BY <1>a DEF InPipe
  <2> QED
    BY <1>1, <1>a, <2>1, <2>2 DEF OrderInv, Before
<1>6. DiskInv'
  <2>1. checkpoint < next /\ checkpoint < next + 1
    BY <1>1, <1>2 DEF DiskInv
  <2> QED
    BY <1>1, <1>a, <2>1 DEF DiskInv, Before
<1>7. NoSilentLoss' /\ CheckpointCovers'
  <2>1. \A h \in 1..next : h = next \/ h \in 1..(next - 1)
    BY <1>1
  <2>2. next' - 1 = next
    BY <1>1
  <2> QED
    BY <1>1, <1>3, <2>1, <2>2 DEF NoSilentLoss, CheckpointCovers, InPipe
<1> QED
  BY <1>3, <1>4, <1>5, <1>6, <1>7

\* The sequencer passes a height over: only next moves, away from the pipeline.
LEMMA PassOverInv == ASSUME PipeInv, PassOver PROVE PipeInv'
<1> USE DEF PipeInv
<1>1. /\ next' = next + 1 /\ next \in Nat \ {0} /\ unsent' = unsent \cup {next}
      /\ UNCHANGED <<cmdChan, syncedCursor, taskChan, writer, batch, flushing, db,
                     checkpoint, lost>>
  BY DEF PassOver, procVars, dbVars, PipeTypes
<1>2. checkpoint \in Nat /\ \A x \in InPipe : x \in Nat
  BY PipeHeights, HeightsAreNat DEF PipeTypes
<1>3. Commits' = Commits /\ InPipe' = InPipe
  BY <1>1 DEF Commits, InPipe
<1>4. PipeTypes' /\ StageInv' /\ CommandInv' /\ CursorBehindDisk'
  BY <1>1 DEF PipeTypes, StageInv, CommandInv, CursorBehindDisk
<1>5. OrderInv'
  <2>1. \A x \in InPipe : x < next'
    BY <1>1, <1>2 DEF OrderInv, Before
  <2> QED
    BY <1>1, <1>3, <2>1 DEF OrderInv, Before
<1>6. DiskInv'
  BY <1>1, <1>2, <1>3 DEF DiskInv
<1>7. NoSilentLoss' /\ CheckpointCovers'
  <2>1. \A h \in 1..next : h = next \/ h \in 1..(next - 1)
    BY <1>1
  <2>2. next' - 1 = next
    BY <1>1
  <2> QED
    BY <1>1, <1>3, <2>1, <2>2 DEF NoSilentLoss, CheckpointCovers
<1> QED
  BY <1>4, <1>5, <1>6, <1>7

\* The orchestrator moves a task to the writer's channel, or drops it.
LEMMA HandleCommitBatchInv == ASSUME PipeInv, HandleCommitBatch PROVE PipeInv'
<1> USE DEF PipeInv
<1> DEFINE h == Head(cmdChan).height
<1>1. /\ cmdChan # <<>> /\ cmdChan' = Tail(cmdChan) /\ Head(cmdChan).type = "commit"
      /\ UNCHANGED <<next, syncedCursor, writer, batch, flushing, db, checkpoint, unsent>>
      /\ \/ taskChan' = Append(taskChan, h) /\ lost' = lost
         \/ taskChan' = taskChan /\ lost' = lost \cup {h}
  BY DEF HandleCommitBatch, Received, dbVars
<1>2. /\ cmdChan' \in Seq(Message) /\ CommandInv'
      /\ Commits = {h} \cup Commits' /\ Before({h}, Commits')
  BY <1>1, CommandTaken
<1>3. /\ Commits \subseteq Nat /\ Heads(taskChan) \subseteq Nat
      /\ Heads(batch) \subseteq Nat /\ Heads(flushing) \subseteq Nat
      /\ checkpoint \in Nat /\ next \in Nat /\ h \in Heights /\ h \in Nat
  BY <1>2, PipeHeights, CommitsAreHeights DEF PipeTypes
<1>4. /\ taskChan' \in Seq(Heights) /\ Ascending(taskChan')
      /\ \/ Heads(taskChan') = Heads(taskChan) \cup {h} /\ lost' = lost
         \/ Heads(taskChan') = Heads(taskChan) /\ lost' = lost \cup {h}
  <2>1. taskChan \in Seq(Heights) /\ Ascending(taskChan) /\ Before(Heads(taskChan), {h})
    BY <1>2 DEF PipeTypes, OrderInv, Before
  <2>2. CASE taskChan' = Append(taskChan, h) /\ lost' = lost
    BY <1>3, <2>1, <2>2, HeadsAppend
  <2>3. CASE taskChan' = taskChan /\ lost' = lost \cup {h}
    BY <2>1, <2>3
  <2> QED
    BY <1>1, <2>2, <2>3
<1> HIDE DEF h
<1>5. PipeTypes' /\ StageInv' /\ CursorBehindDisk'
  BY <1>1, <1>2, <1>4 DEF PipeTypes, StageInv, CursorBehindDisk
<1>6. OrderInv'
  BY <1>1, <1>2, <1>3, <1>4 DEF OrderInv, InPipe, Before
<1>7. DiskInv'
  BY <1>1, <1>2, <1>3, <1>4 DEF DiskInv, Before
<1>8. NoSilentLoss' /\ CheckpointCovers'
  BY <1>1, <1>2, <1>4 DEF NoSilentLoss, CheckpointCovers, InPipe
<1> QED
  BY <1>2, <1>5, <1>6, <1>7, <1>8

\* The steps of the writer that only move tasks leave the rest of the invariant as it
\* is, given what they do to the writer's three sequences.
LEMMA MovedInv ==
    ASSUME PipeInv,
           UNCHANGED <<next, cmdChan, syncedCursor, db, checkpoint, lost, unsent>>,
           writer' \in WriterState, StageInv', writer.at # "notify", writer'.at # "notify",
           taskChan' \in Seq(Heights), batch' \in Seq(Heights), flushing' \in Seq(Heights),
           Ascending(taskChan'), Ascending(batch'), Ascending(flushing'),
           Before(Heads(batch'), Heads(flushing') \cup Heads(taskChan')),
           Before(Heads(flushing'), Heads(taskChan')),
           Heads(taskChan') \cup Heads(batch') \cup Heads(flushing')
             = Heads(taskChan) \cup Heads(batch) \cup Heads(flushing)
    PROVE  PipeInv'
<1> USE DEF PipeInv
<1>1. PipeTypes' /\ CursorBehindDisk'
  BY DEF PipeTypes, CursorBehindDisk
<1>2. CommandInv' /\ Commits' = Commits
  BY DEF CommandInv, Commits
<1>3. OrderInv'
  BY <1>2 DEF OrderInv, InPipe, Before
<1>4. DiskInv'
  BY <1>2 DEF DiskInv, Before
<1>5. NoSilentLoss' /\ CheckpointCovers'
  BY <1>2 DEF NoSilentLoss, CheckpointCovers, InPipe
<1> QED
  BY <1>1, <1>2, <1>3, <1>4, <1>5

\* The writer takes a task, collects it, and hands complete batches to flush.
LEMMA CollectInv == ASSUME PipeInv, Receive \/ Collect \/ FlushTick PROVE PipeInv'
<1>t. /\ taskChan \in Seq(Heights) /\ batch \in Seq(Heights) /\ flushing \in Seq(Heights)
      /\ writer \in WriterState /\ StageInv
      /\ Ascending(taskChan) /\ Ascending(batch) /\ Ascending(flushing)
      /\ Before(Heads(batch), Heads(flushing) \cup Heads(taskChan))
      /\ Before(Heads(flushing), Heads(taskChan))
  BY DEF PipeInv, PipeTypes, OrderInv, Before
<1>e. /\ <<>> \in Seq(Heights) /\ Ascending(<<>>) /\ Heads(<<>>) = {}
  BY HeadsEmpty DEF Ascending
<1>0. UNCHANGED <<next, cmdChan, syncedCursor, db, checkpoint, lost, unsent>>
  BY DEF Receive, Collect, FlushTick, dbVars
<1>1. CASE Receive
  <2> DEFINE h == Head(taskChan)
  <2>1. /\ writer.at = "select" /\ taskChan # <<>> /\ flushing' = <<h>>
        /\ taskChan' = Tail(taskChan) /\ batch' = batch
        /\ writer' = [writer EXCEPT !.at = "received"]
    BY <1>1 DEF Receive
  <2>2. /\ Heads(taskChan) = {h} \cup Heads(taskChan')
        /\ h \in Heights /\ taskChan' \in Seq(Heights)
        /\ Ascending(taskChan') /\ Before({h}, Heads(taskChan'))
    BY <1>t, <2>1, HeadsTail
  <2>3. flushing = <<>> /\ Heads(flushing) = {}
    BY <1>t, <1>e, <2>1 DEF StageInv
  <2> HIDE DEF h
  <2>4. /\ flushing' \in Seq(Heights) /\ Ascending(flushing') /\ Heads(flushing') = {h}
        /\ flushing' # <<>>
    BY <2>1, <2>2 DEF Ascending, Heads
  <2>5. /\ writer' \in WriterState /\ writer'.at = "received"
    BY <1>t, <2>1 DEF WriterState
  <2>6. StageInv'
    BY <2>1, <2>4, <2>5 DEF StageInv
  <2>7. /\ Before(Heads(batch'), Heads(flushing') \cup Heads(taskChan'))
        /\ Before(Heads(flushing'), Heads(taskChan'))
        /\ Heads(taskChan') \cup Heads(batch') \cup Heads(flushing')
             = Heads(taskChan) \cup Heads(batch) \cup Heads(flushing)
    BY <1>t, <2>1, <2>2, <2>3, <2>4 DEF Before
  <2>8. batch' \in Seq(Heights) /\ Ascending(batch') /\ writer.at # "notify" /\ writer'.at # "notify"
    BY <1>t, <2>1, <2>5
  <2> QED
    BY <1>0, <2>2, <2>4, <2>5, <2>6, <2>7, <2>8, MovedInv
<1>2. CASE Collect
  <2> DEFINE tasks == batch \o flushing
  <2>1. /\ writer.at = "received" /\ taskChan' = taskChan
        /\ \/ flushing' = tasks /\ batch' = <<>> /\ \E ret \in {"select", "drain"} :
                                    writer' = [at |-> "flush", ret |-> ret]
           \/ batch' = tasks /\ flushing' = <<>> /\ writer' = Idle
    BY <1>2 DEF Collect, CallFlush
  <2>2. flushing # <<>>
    BY <1>t, <2>1 DEF StageInv
  <2>3. /\ tasks \in Seq(Heights) /\ tasks # <<>> /\ Ascending(tasks)
        /\ Heads(tasks) = Heads(batch) \cup Heads(flushing)
    <3>1. Before(Heads(batch), Heads(flushing))
      BY <1>t DEF Before
    <3> QED
      BY <1>t, <2>2, <3>1, HeadsConcat
  <2> HIDE DEF tasks
  <2>4. Before(Heads(tasks), Heads(taskChan))
    BY <1>t, <2>3 DEF Before
  <2>5. /\ writer' \in WriterState /\ writer.at # "notify" /\ writer'.at # "notify" /\ StageInv'
    BY <2>1, <2>3 DEF StageInv, WriterState, Idle
  <2>6. /\ batch' \in Seq(Heights) /\ flushing' \in Seq(Heights) /\ taskChan' \in Seq(Heights)
        /\ Ascending(batch') /\ Ascending(flushing') /\ Ascending(taskChan')
    BY <1>t, <1>e, <2>1, <2>3
  <2>7. /\ Before(Heads(batch'), Heads(flushing') \cup Heads(taskChan'))
        /\ Before(Heads(flushing'), Heads(taskChan'))
        /\ Heads(taskChan') \cup Heads(batch') \cup Heads(flushing')
             = Heads(taskChan) \cup Heads(batch) \cup Heads(flushing)
    BY <1>e, <2>1, <2>3, <2>4 DEF Before
  <2> QED
    BY <1>0, <2>5, <2>6, <2>7, MovedInv
<1>3. CASE FlushTick
  <2>1. /\ writer.at = "select" /\ taskChan' = taskChan /\ batch # <<>>
        /\ flushing' = batch /\ batch' = <<>>
        /\ writer' = [at |-> "flush", ret |-> "select"]
    BY <1>3 DEF FlushTick, CallFlush
  <2>2. flushing = <<>> /\ Heads(flushing) = {}
    BY <1>t, <1>e, <2>1 DEF StageInv
  <2>3. /\ writer' \in WriterState /\ writer.at # "notify" /\ writer'.at # "notify" /\ StageInv'
    BY <2>1 DEF StageInv, WriterState
  <2>4. /\ batch' \in Seq(Heights) /\ flushing' \in Seq(Heights) /\ taskChan' \in Seq(Heights)
        /\ Ascending(batch') /\ Ascending(flushing') /\ Ascending(taskChan')
    BY <1>t, <1>e, <2>1
  <2>5. /\ Before(Heads(batch'), Heads(flushing') \cup Heads(taskChan'))
        /\ Before(Heads(flushing'), Heads(taskChan'))
        /\ Heads(taskChan') \cup Heads(batch') \cup Heads(flushing')
             = Heads(taskChan) \cup Heads(batch) \cup Heads(flushing)
    BY <1>t, <1>e, <2>1, <2>2 DEF Before
  <2> QED
    BY <1>0, <2>3, <2>4, <2>5, MovedInv
<1> QED
  BY <1>1, <1>2, <1>3

\* The last flush of a cancelled writer, and a round of the emergency drain.
LEMMA LastFlushInv ==
    ASSUME PipeInv, WriterStops \/ (DrainTask /\ ~UNCHANGED taskChan) PROVE PipeInv'
<1>t. /\ taskChan \in Seq(Heights) /\ batch \in Seq(Heights) /\ flushing \in Seq(Heights)
      /\ writer \in WriterState /\ StageInv
      /\ Ascending(taskChan) /\ Ascending(batch) /\ Ascending(flushing)
      /\ Before(Heads(batch), Heads(flushing) \cup Heads(taskChan))
      /\ Before(Heads(flushing), Heads(taskChan))
  BY DEF PipeInv, PipeTypes, OrderInv, Before
<1>e. /\ <<>> \in Seq(Heights) /\ Ascending(<<>>) /\ Heads(<<>>) = {}
  BY HeadsEmpty DEF Ascending
<1>0. UNCHANGED <<next, cmdChan, syncedCursor, db, checkpoint, lost, unsent>>
  BY DEF WriterStops, DrainTask, dbVars
<1>1. CASE WriterStops
  <2>1. /\ writer.at = "select" /\ taskChan' = taskChan
        /\ \/ /\ batch # <<>> /\ flushing' = batch /\ batch' = <<>>
              /\ writer' = [at |-> "flush", ret |-> "stopped"]
           \/ /\ batch = <<>> /\ UNCHANGED <<batch, flushing>>
              /\ writer' = [at |-> "stopped", ret |-> "stopped"]
    BY <1>1 DEF WriterStops, CallFlush
  <2>2. flushing = <<>> /\ Heads(flushing) = {}
    BY <1>t, <1>e, <2>1 DEF StageInv
  <2>3. /\ writer' \in WriterState /\ writer.at # "notify" /\ writer'.at # "notify" /\ StageInv'
    BY <2>1, <2>2 DEF StageInv, WriterState
  <2>4. /\ batch' \in Seq(Heights) /\ flushing' \in Seq(Heights) /\ taskChan' \in Seq(Heights)
        /\ Ascending(batch') /\ Ascending(flushing') /\ Ascending(taskChan')
    BY <1>t, <1>e, <2>1
  <2>5. /\ Before(Heads(batch'), Heads(flushing') \cup Heads(taskChan'))
        /\ Before(Heads(flushing'), Heads(taskChan'))
        /\ Heads(taskChan') \cup Heads(batch') \cup Heads(flushing')
             = Heads(taskChan) \cup Heads(batch) \cup Heads(flushing)
    BY <1>t, <1>e, <2>1, <2>2 DEF Before
  <2> QED
    BY <1>0, <2>3, <2>4, <2>5, MovedInv
<1>2. CASE DrainTask /\ ~UNCHANGED taskChan
  <2> DEFINE h == Head(taskChan)
  <2>1. /\ writer.at = "draining" /\ Len(taskChan) > DrainTarget /\ writer' = writer
        /\ flushing' = Append(flushing, h) /\ taskChan' = Tail(taskChan) /\ batch' = batch
    BY <1>2 DEF DrainTask
  <2>2. taskChan # <<>>
    <3>1. DrainTarget \in Nat
      BY PersistAssumption DEF DrainTarget
    <3> QED
      BY <1>t, <2>1, <3>1
  <2>3. /\ Heads(taskChan) = {h} \cup Heads(taskChan')
        /\ h \in Heights /\ taskChan' \in Seq(Heights)
        /\ Ascending(taskChan') /\ Before({h}, Heads(taskChan'))
    BY <1>t, <2>1, <2>2, HeadsTail
  <2> HIDE DEF h
  <2>4. /\ flushing' \in Seq(Heights) /\ flushing' # <<>> /\ Ascending(flushing')
        /\ Heads(flushing') = Heads(flushing) \cup {h}
    <3>1. Before(Heads(flushing), {h})
      BY <1>t, <2>3 DEF Before
    <3> QED
      BY <1>t, <2>1, <2>3, <3>1, HeadsAppend
  <2>5. /\ writer' \in WriterState /\ writer.at # "notify" /\ writer'.at # "notify" /\ StageInv'
    BY <1>t, <2>1 DEF StageInv
  <2>6. /\ Before(Heads(batch'), Heads(flushing') \cup Heads(taskChan'))
        /\ Before(Heads(flushing'), Heads(taskChan'))
        /\ Heads(taskChan') \cup Heads(batch') \cup Heads(flushing')
             = Heads(taskChan) \cup Heads(batch) \cup Heads(flushing)
    BY <1>t, <2>1, <2>3, <2>4 DEF Before
  <2>7. batch' \in Seq(Heights) /\ Ascending(batch')
    BY <1>t, <2>1
  <2> QED
    BY <1>0, <2>3, <2>4, <2>5, <2>6, <2>7, MovedInv
<1> QED
  BY <1>1, <1>2

\* Nothing but the writer's step changes when flush ends.
LEMMA FlushEnds ==
    ASSUME PipeInv, writer.at \in {"flush", "notify"}, writer' = [writer EXCEPT !.at = writer.ret],
           flushing' = <<>>, batch' = batch
    PROVE  writer' \in WriterState /\ writer'.at # "notify" /\ StageInv'
<1>1. writer \in WriterState /\ batch = <<>>
  BY DEF PipeInv, PipeTypes, StageInv
<1>2. writer'.at = writer.ret /\ writer' \in WriterState
  BY <1>1 DEF WriterState
<1>3. writer.ret \in {"select", "drain", "drained", "stopped"}
  BY <1>1 DEF WriterState
<1> QED
  BY <1>1, <1>2, <1>3 DEF StageInv

\* The transaction.  Every height up to the new checkpoint is decided: what is above the
\* old one was handed over, and what is still behind in the pipeline is above the new one.
LEMMA FlushCommitInv ==
    ASSUME PipeInv, FlushCommit
    PROVE  /\ PipeInv'
           /\ checkpoint < checkpoint' /\ checkpoint' \in Heights /\ checkpoint' \in db'
<1> USE DEF PipeInv
<1>1. /\ writer.at = "flush" /\ db' = db \cup Heads(flushing) /\ checkpoint' = MaxOf(flushing)
      /\ writer' = [writer EXCEPT !.at = "notify"]
      /\ UNCHANGED <<next, cmdChan, syncedCursor, taskChan, batch, flushing, lost, unsent>>
  BY DEF FlushCommit
<1>2. /\ MaxOf(flushing) \in Heads(flushing)
      /\ \A g \in Heads(flushing) : g <= MaxOf(flushing)
  BY <1>1, MaxOfAscending DEF PipeTypes, StageInv, OrderInv
<1>3. /\ Commits \subseteq Nat /\ Heads(taskChan) \subseteq Nat
      /\ Heads(batch) \subseteq Nat /\ Heads(flushing) \subseteq Nat
      /\ Heads(flushing) \subseteq Heights /\ checkpoint \in Nat /\ next \in Nat
      /\ checkpoint' \in Nat /\ checkpoint' \in Heights
  BY <1>1, <1>2, PipeHeights DEF PipeTypes, InPipe
<1>4. /\ batch = <<>> /\ Heads(batch) = {}
  BY <1>1, HeadsEmpty DEF StageInv
<1>5. checkpoint < checkpoint' /\ checkpoint' < next
  BY <1>1, <1>2 DEF DiskInv, OrderInv, InPipe, Before
<1>6. Before({checkpoint'}, Commits \cup Heads(taskChan))
  BY <1>1, <1>2 DEF OrderInv, Before
<1>7. writer' \in WriterState /\ writer'.at = "notify"
  BY <1>1 DEF PipeTypes, WriterState
<1>8. PipeTypes' /\ StageInv' /\ Commits' = Commits
  <2>1. PipeTypes'
    BY <1>1, <1>3, <1>7 DEF PipeTypes
  <2>2. StageInv'
    BY <1>1, <1>4, <1>7 DEF StageInv
  <2> QED
    BY <1>1, <2>1, <2>2 DEF Commits
<1>9. CommandInv'
  <2>1. \A i \in DOMAIN cmdChan : cmdChan[i].type = "disk" => cmdChan[i].height <= checkpoint'
    <3> SUFFICES ASSUME NEW i \in DOMAIN cmdChan, cmdChan[i].type = "disk"
                 PROVE  cmdChan[i].height <= checkpoint'
      OBVIOUS
    <3>1. cmdChan[i] \in Message
      BY DEF PipeTypes
    <3>2. cmdChan[i].height \in Nat
      BY <3>1, HeightsAreNat DEF Message
    <3> QED
      BY <1>3, <1>5, <3>2 DEF CommandInv
  <2> QED
    BY <1>1, <2>1 DEF CommandInv
<1>10. OrderInv'
  BY <1>1, <1>8 DEF OrderInv, InPipe
<1>11. DiskInv'
  BY <1>1, <1>4, <1>5, <1>6, <1>7, <1>8 DEF DiskInv, Before
<1>12. NoSilentLoss'
  BY <1>1, <1>8 DEF NoSilentLoss, InPipe
<1>13. CheckpointCovers'
  <2> SUFFICES ASSUME NEW h \in 1..checkpoint' PROVE h \in db' \cup lost' \cup unsent'
    BY <1>1, <1>2 DEF CheckpointCovers
  <2>1. h \in 1..(next - 1)
    BY <1>3, <1>5
  <2>2. CASE h \in Commits \cup Heads(taskChan)
    BY <1>3, <1>6, <2>2 DEF Before
  <2> QED
    BY <1>1, <1>4, <2>1, <2>2 DEF NoSilentLoss, InPipe
<1>14. CursorBehindDisk'
  BY <1>1, <1>3, <1>5 DEF CursorBehindDisk, PipeTypes
<1> QED
  BY <1>1, <1>2, <1>3, <1>5, <1>8, <1>9, <1>10, <1>11, <1>12, <1>13, <1>14

\* A failed transaction: the tasks are logged as dropped.
LEMMA FlushFailsInv == ASSUME PipeInv, FlushFails PROVE PipeInv'
<1> USE DEF PipeInv
<1>1. /\ writer.at = "flush" /\ lost' = lost \cup Heads(flushing) /\ flushing' = <<>>
      /\ writer' = [writer EXCEPT !.at = writer.ret]
      /\ UNCHANGED <<next, cmdChan, syncedCursor, taskChan, batch, db, checkpoint, unsent>>
  BY DEF FlushFails, dbVars
<1>2. writer' \in WriterState /\ writer'.at # "notify" /\ StageInv'
  BY <1>1, FlushEnds
<1>3. flushing' \in Seq(Heights) /\ Ascending(flushing') /\ Heads(flushing') = {}
  BY <1>1, HeadsEmpty DEF Ascending
<1>4. PipeTypes' /\ CursorBehindDisk'
  BY <1>1, <1>2, <1>3 DEF PipeTypes, CursorBehindDisk
<1>5. CommandInv' /\ Commits' = Commits
  BY <1>1 DEF CommandInv, Commits
<1>6. OrderInv'
  BY <1>1, <1>3, <1>5 DEF OrderInv, InPipe, Before
<1>7. DiskInv'
  BY <1>1, <1>2, <1>3, <1>5 DEF DiskInv, Before
<1>8. NoSilentLoss' /\ CheckpointCovers'
  BY <1>1, <1>5 DEF NoSilentLoss, CheckpointCovers, InPipe
<1> QED
  BY <1>2, <1>4, <1>5, <1>6, <1>7, <1>8

\* The committed height is reported, or the report is dropped.
LEMMA FlushNotifyInv == ASSUME PipeInv, FlushNotify PROVE PipeInv'
<1> USE DEF PipeInv
<1>1. /\ writer.at = "notify" /\ flushing' = <<>>
      /\ WriterDispatch([type |-> "disk", height |-> MaxOf(flushing)])
      /\ writer' = [writer EXCEPT !.at = writer.ret]
      /\ UNCHANGED <<next, syncedCursor, taskChan, batch, db, checkpoint, lost, unsent>>
  BY DEF FlushNotify, dbVars
<1>2. writer' \in WriterState /\ writer'.at # "notify" /\ StageInv'
  BY <1>1, FlushEnds
<1>3. flushing' \in Seq(Heights) /\ Ascending(flushing') /\ Heads(flushing') = {}
  BY <1>1, HeadsEmpty DEF Ascending
<1>4. /\ MaxOf(flushing) = checkpoint /\ Heads(flushing) \subseteq db
      /\ MaxOf(flushing) \in Heights
  <2>1. MaxOf(flushing) \in Heads(flushing)
    BY <1>1, MaxOfAscending DEF PipeTypes, StageInv, OrderInv
  <2> QED
    BY <1>1, <2>1, PipeHeights DEF DiskInv, InPipe
<1>5. cmdChan' \in Seq(Message) /\ CommandInv' /\ Commits' = Commits
  <2> DEFINE m == [type |-> "disk", height |-> MaxOf(flushing)]
  <2>1. CASE cmdChan' = cmdChan
    BY <1>1, <2>1 DEF PipeTypes, CommandInv, Commits
  <2>2. CASE cmdChan' = Append(cmdChan, m)
    <3>1. m \in Message /\ m.type = "disk" /\ m.height <= checkpoint
      BY <1>4, HeightsAreNat DEF Message, PipeTypes
    <3> QED
      BY <1>1, <2>2, <3>1, CommandSent
  <2> QED
    BY <1>1, <2>1, <2>2 DEF WriterDispatch
<1>6. PipeTypes' /\ CursorBehindDisk'
  BY <1>1, <1>2, <1>3, <1>5 DEF PipeTypes, CursorBehindDisk
<1>7. OrderInv'
  BY <1>1, <1>3, <1>5 DEF OrderInv, InPipe, Before
<1>8. DiskInv'
  BY <1>1, <1>2, <1>3, <1>5 DEF DiskInv, Before
<1>9. NoSilentLoss' /\ CheckpointCovers'
  BY <1>1, <1>4, <1>5 DEF NoSilentLoss, CheckpointCovers, InPipe
<1> QED
  BY <1>2, <1>5, <1>6, <1>7, <1>8, <1>9

(***************************************************************************)
(* The process starts, for the first time or again: an empty pipeline and  *)
(* every height up to the checkpoint decided.                              *)
(***************************************************************************)
LEMMA PipeInit == ASSUME Init PROVE PipeInv
<1>1. /\ Heads(taskChan) = {} /\ Heads(batch) = {} /\ Heads(flushing) = {} /\ Commits = {}
  BY HeadsEmpty DEF Init, Commits
<1>2. PipeTypes
  BY DEF Init, PipeTypes, WriterState, Idle
<1>3. StageInv /\ CommandInv
  BY DEF Init, StageInv, CommandInv, Idle
<1>4. OrderInv /\ DiskInv
  BY <1>1 DEF Init, OrderInv, DiskInv, Ascending, Before, InPipe, Idle
<1>5. NoSilentLoss /\ CheckpointCovers /\ CursorBehindDisk
  BY DEF Init, NoSilentLoss, CheckpointCovers, CursorBehindDisk
<1> QED
  BY <1>2, <1>3, <1>4, <1>5 DEF PipeInv

\* A restart finds the checkpoint and nothing else.
LEMMA RestartInv == ASSUME PipeInv, Restart PROVE PipeInv'
<1>1. /\ next' = checkpoint + 1 /\ cmdChan' = <<>> /\ syncedCursor' = checkpoint
      /\ taskChan' = <<>> /\ writer' = Idle /\ batch' = <<>> /\ flushing' = <<>>
      /\ UNCHANGED <<db, checkpoint, lost, unsent>>
  BY DEF Restart, dbVars
<1>2. /\ Heads(taskChan') = {} /\ Heads(batch') = {} /\ Heads(flushing') = {} /\ Commits' = {}
  BY <1>1, HeadsEmpty DEF Commits
<1>3. checkpoint \in Nat /\ db \in SUBSET Heights /\ CheckpointCovers
  BY DEF PipeInv, PipeTypes
<1>4. PipeTypes'
  <2>1. Idle \in WriterState
    BY DEF Idle, WriterState
  <2> QED
    BY <1>1, <1>3, <2>1 DEF PipeTypes
<1>5. StageInv' /\ CommandInv'
  BY <1>1 DEF StageInv, CommandInv, Idle
<1>6. OrderInv' /\ DiskInv'
  BY <1>1, <1>2, <1>3 DEF OrderInv, DiskInv, Ascending, Before, InPipe, Idle
<1>7. CheckpointCovers' /\ CursorBehindDisk'
  BY <1>1, <1>3 DEF CheckpointCovers, CursorBehindDisk
<1>8. NoSilentLoss'
  <2>1. next' - 1 = checkpoint
    BY <1>1, <1>3
  <2> QED
    BY <1>1, <1>3, <2>1 DEF CheckpointCovers, NoSilentLoss
<1> QED
  BY <1>4, <1>5, <1>6, <1>7, <1>8 DEF PipeInv

\* Every step keeps the invariant.
LEMMA PipeNext == ASSUME PipeInv, [Next]_vars PROVE PipeInv'
<1>1. CASE UNCHANGED vars
  BY <1>1, BookkeepingInv
<1>2. CASE OrchestratorStep
  BY <1>2, HandleCommitBatchInv, OtherCommandsInv, BookkeepingInv DEF OrchestratorStep
<1>3. CASE WriterStep
  <2>1. CASE DrainTask
    BY <2>1, DrainInv, LastFlushInv
  <2> QED
    BY <1>3, <2>1, CollectInv, FlushCommitInv, FlushFailsInv, FlushNotifyInv, DrainInv,
       LastFlushInv
    DEF WriterStep
<1>4. CASE HandOver \/ PassOver \/ DispatchOther \/ CooldownExpires \/ Shutdown \/ Restart
  BY <1>4, HandOverInv, PassOverInv, BookkeepingInv, RestartInv
<1> QED
  BY <1>1, <1>2, <1>3, <1>4 DEF Next

\* So it holds throughout.
LEMMA PipeInvariant == Spec => []PipeInv
<1>1. Init => PipeInv
  BY PipeInit
<1>2. PipeInv /\ [Next]_vars => PipeInv'
  BY PipeNext
<1> QED
  BY <1>1, <1>2, PTL DEF Spec

\* Across emergency drains, failed transactions, dropped commands and restarts at any
\* step, a height the sequencer has moved past is stored, in the pipeline, logged, or was
\* passed over before a task was dispatched for it.
THEOREM NeverSilentlyLost == Spec => []NoSilentLoss
<1>1. PipeInv => NoSilentLoss
  BY DEF PipeInv
<1> QED
  BY <1>1, PipeInvariant, PTL

\* The checkpoint a restart resumes from covers no height that is still on its way: each
\* one is stored, logged as dropped or was never dispatched, whatever the capacities,
\* the batch size and the moment of the crash.
THEOREM CheckpointAlwaysCovers == Spec => []CheckpointCovers
<1>1. PipeInv => CheckpointCovers
  BY DEF PipeInv
<1> QED
  BY <1>1, PipeInvariant, PTL

\* The cursor the orchestrator publishes never runs ahead of the stored checkpoint.
THEOREM CursorAlwaysBehind == Spec => []CursorBehindDisk
<1>1. PipeInv => CursorBehindDisk
  BY DEF PipeInv
<1> QED
  BY <1>1, PipeInvariant, PTL

\* Only a committed transaction moves the log, and it decides the heights it passes.
LEMMA StepImplementsLog == ASSUME PipeInv, [Next]_vars PROVE [Log!Next]_(Log!vars)
<1>1. CASE FlushCommit
  <2>1. /\ checkpoint < checkpoint' /\ checkpoint' \in Heights /\ checkpoint' \in db'
        /\ checkpoint \in Nat /\ checkpoint' \in Nat
    BY <1>1, FlushCommitInv, HeightsAreNat DEF PipeInv, PipeTypes
  <2>2. db \subseteq Nat /\ Heads(flushing) \subseteq Nat /\ db' = db \cup Heads(flushing)
    BY <1>1, PipeHeights, HeightsAreNat DEF PipeInv, PipeTypes, FlushCommit
  <2>3. \A h \in Heads(flushing) : checkpoint < h
    BY <1>1 DEF PipeInv, DiskInv, FlushCommit, Before
  <2>4. PICK c \in Heights : c = checkpoint'
    BY <2>1
  <2> DEFINE S == {h \in db' : checkpoint < h /\ h < c}
  <2>5. S \in SUBSET ((checkpoint + 1)..(c - 1))
    <3>1. \A h \in Nat : checkpoint < h /\ h < c => h \in (checkpoint + 1)..(c - 1)
      <4>1. \A a, b, h \in Nat : a < h /\ h < b => h \in (a + 1)..(b - 1)
        OBVIOUS
      <4>2. c \in Nat /\ checkpoint \in Nat
        BY <2>1, HeightsAreNat
      <4> QED
        BY <4>1, <4>2
    <3>2. db' \subseteq Nat
      BY <2>2
    <3> QED
      BY <3>1, <3>2
  <2>6. {h \in db' : h <= checkpoint'} = {h \in db : h <= checkpoint} \cup S \cup {c}
    <3>1. \A h \in db' : h <= checkpoint'
             => h \in {g \in db : g <= checkpoint} \cup S \cup {c}
      BY <2>1, <2>2, <2>3, <2>4
    <3>2. \A h \in {g \in db : g <= checkpoint} \cup S \cup {c} :
             h \in db' /\ h <= checkpoint'
      BY <2>1, <2>2, <2>4
    <3> QED
      BY <3>1, <3>2
  <2>7. Log!Advance(c)
    BY <2>1, <2>4, <2>5, <2>6 DEF Log!Advance
  <2> QED
    BY <2>4, <2>7 DEF Log!Next, Heights
<1>2. CASE UNCHANGED <<db, checkpoint>>
  BY <1>2 DEF Log!vars
<1>3. FlushCommit \/ UNCHANGED <<db, checkpoint>>
  BY DEF Next, vars, dbVars, HandOver, PassOver, DispatchOther, OrchestratorStep, HandleCommitBatch,
         HandleCommitDisk, HandleSetSystemState, HandleOther, OrchestratorStops, WriterStep,
         Receive, Collect, FlushTick, FlushFails, FlushNotify, EmergencyDrain, DrainTask,
         DrainEnds, WriterStops, CooldownExpires, Shutdown, Restart
<1> QED
  BY <1>1, <1>2, <1>3

\* The pipeline implements the log that indexing resumes from: the fate of a height is
\* decided when the checkpoint passes it and never changes again, and no crash shows.
THEOREM PipelineImplementsLog == Spec => ImplementsResumeLog
<1>1. Init => Log!Init
  BY DEF Init, Log!Init
<1>2. PipeInv /\ [Next]_vars => [Log!Next]_(Log!vars)
  BY StepImplementsLog
<1> QED
  BY <1>1, <1>2, PipeInvariant, PTL DEF Spec, Log!Spec, ImplementsResumeLog

=============================================================================
