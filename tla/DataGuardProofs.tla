--------------------------- MODULE DataGuardProofs --------------------------
(***************************************************************************)
(* Proof that the checkpoint covers only explained holes, for every length *)
(* of the chain, every threshold of the guard and of the watchdog, every   *)
(* lag of the nodes and any number of checking goroutines.                 *)
(***************************************************************************)
EXTENDS DataGuard, WellFoundedInduction, TLAPS

\* The heights a hole is not to be found at.
Explained == blocks \cup pruned \cup leapt \cup omitted

\* Every height up to n is explained.
Covered(n) == \A h \in 1..n : h \in Explained

(***************************************************************************)
(* The inductive invariant.  The checkpoint is written from numbers that   *)
(* were read earlier: the highest stored block a check read, the           *)
(* checkpoint the watchdog read, the head AlignAnvilData cut at, the       *)
(* cursor in memory.  What is explained stays explained, so it is enough   *)
(* that each of these numbers was covered when it was read.                *)
(***************************************************************************)
GuardInv ==
    /\ GuardTypeOK
    /\ Covered(lastSynced)
    /\ Covered(nextIndexed - 1)
    /\ \A b \in blocks : Covered(b)
    /\ \A k \in Checkers : Covered(check[k].max)
    /\ tear.step # "idle" => tear.head > 0 /\ Covered(tear.synced)
    /\ tear.step = "reset" => Covered(tear.head - 1)
    /\ phase = "mark" => Covered(cutAt)

\* GetMaxStoredBlock returns a stored height, or 0.
LEMMA DbMaxStored ==
    ASSUME blocks \in SUBSET GuardHeights
    PROVE  /\ DbMax \in blocks \cup {0}
           /\ \A b \in blocks : b <= DbMax
<1> DEFINE S == blocks \cup {0}
           T == {MaxHeight - x : x \in S}
<1>1. MaxHeight \in Nat
  BY DataGuardAssumption
<1>2. S \subseteq 0..MaxHeight /\ S # {}
  BY <1>1 DEF GuardHeights
<1>3. T \subseteq Nat /\ T # {} /\ \A z : z \in T <=> \E x \in S : z = MaxHeight - x
  BY <1>1, <1>2
<1> HIDE DEF S, T
<1>4. PICK t \in T : \A y \in T : <<y, t>> \notin OpToRel(<, Nat)
  BY <1>3, NatLessThanWellFounded, WFMin
<1>5. \A y \in T : t <= y
  <2> SUFFICES ASSUME NEW y \in T, y < t PROVE FALSE
    <3>1. t \in Nat /\ T \subseteq Nat
      BY <1>3
    <3> QED
      BY <3>1
  <2>1. y \in Nat /\ t \in Nat
    BY <1>3
  <2> QED
    BY <2>1, <1>4 DEF OpToRel
<1>6. PICK x \in S : t = MaxHeight - x
  BY <1>3
<1>7. \A y \in S : x >= y
  <2> TAKE y \in S
  <2>1. MaxHeight - y \in T
    BY <1>3
  <2>2. x \in 0..MaxHeight /\ y \in 0..MaxHeight
    BY <1>2
  <2>3. t <= MaxHeight - y
    BY <2>1, <1>5
  <2> QED
    BY <2>2, <2>3, <1>6, <1>1
<1>8. DbMax \in S /\ \A y \in S : DbMax >= y
  BY <1>7 DEF DbMax, Max, S
<1>9. \A y \in S : y <= DbMax
  BY <1>8, <1>2, <1>1
<1> QED
  BY <1>8, <1>9 DEF S

LEMMA DbMaxCovered ==
    ASSUME GuardInv
    PROVE  DbMax \in 0..MaxHeight /\ Covered(DbMax)
<1>1. blocks \in SUBSET GuardHeights /\ \A b \in blocks : Covered(b)
  BY DEF GuardInv, GuardTypeOK
<1>2. DbMax \in blocks \cup {0}
  BY <1>1, DbMaxStored
<1>3. Covered(0)
  BY DEF Covered
<1> QED
  BY <1>1, <1>2, <1>3, DataGuardAssumption DEF GuardHeights

LEMMA GuardInitInv == GuardInit => GuardInv
<1> SUFFICES ASSUME GuardInit PROVE GuardInv
  OBVIOUS
<1> USE DataGuardAssumption DEF GuardInit
<1>1. GuardTypeOK
  BY DEF GuardTypeOK, NoCheck, NoTear, GuardHeights
<1>2. \A n \in {0} : Covered(n)
  BY DEF Covered
<1> QED
  BY <1>1, <1>2 DEF GuardInv, NoCheck, NoTear

\* Explanations are never taken back, and with them no height loses its cover.
LEMMA CoverStays ==
    ASSUME Explained \subseteq Explained', NEW n, Covered(n)
    PROVE  Covered(n)'
  BY DEF Covered

\* What PruneFutureData deletes is pruned, and the checkpoint it writes lies below a
\* height that was covered.
LEMMA PruneCovers ==
    ASSUME GuardInv, NEW r \in 0..MaxHeight, NEW max \in 0..MaxHeight, max > r,
           Covered(max), PruneFutureData(r)
    PROVE  /\ Explained \subseteq Explained'
           /\ Covered(r)'
           /\ blocks' \subseteq blocks /\ pruned' \in SUBSET GuardHeights
<1>1. Explained \subseteq Explained' /\ blocks' \subseteq blocks
  BY DEF Explained, PruneFutureData, Above
<1>2. pruned' \in SUBSET GuardHeights
  BY DEF GuardInv, GuardTypeOK, PruneFutureData
<1>3. Covered(r)
  BY DataGuardAssumption DEF Covered
<1> QED
  BY <1>1, <1>2, <1>3, CoverStays

\* A jump records every height between the one it starts from and the head.
LEMMA LeapCovers ==
    ASSUME GuardInv, NEW r \in 1..MaxHeight, NEW max \in 0..MaxHeight,
           Covered(max), LeapTo(r, max)
    PROVE  /\ Explained \subseteq Explained'
           /\ Covered(r - 1)'
           /\ leapt' \in SUBSET GuardHeights
<1>1. Explained \subseteq Explained'
  BY DEF Explained, LeapTo
<1>2. leapt' \in SUBSET GuardHeights
  BY DataGuardAssumption DEF GuardInv, GuardTypeOK, LeapTo, GuardHeights
<1>3. \A h \in 1..(r - 1) : h \in Explained'
  <2> TAKE h \in 1..(r - 1)
  <2>1. CASE h <= max
    BY <2>1, <1>1, DataGuardAssumption DEF Covered
  <2>2. CASE ~(h <= max)
    <3>1. h \in (max + 1)..(r - 1)
      BY <2>2, DataGuardAssumption
    <3> QED
      BY <3>1 DEF Explained, LeapTo
  <2> QED
    BY <2>1, <2>2
<1> QED
  BY <1>1, <1>2, <1>3 DEF Covered

(***************************************************************************)
(* The steps that leave the tables alone                                   *)
(***************************************************************************)
LEMMA ChainStep ==
    ASSUME GuardInv, ChainExtends \/ \E h \in 0..MaxHeight : ChainResets(h)
    PROVE  GuardInv'
<1>1. GuardTypeOK'
  BY DataGuardAssumption
     DEF GuardInv, GuardTypeOK, ChainExtends, ChainResets, tableVars, procVars
<1>2. UNCHANGED <<tableVars, procVars, check, tear>>
  BY DEF ChainExtends, ChainResets
<1> QED
  BY <1>1, <1>2 DEF GuardInv, Covered, Explained, tableVars, procVars

LEMMA GoDownStep ==
    ASSUME GuardInv, GoDown, UNCHANGED <<chainVars, omitted>>, Explained \subseteq Explained',
           blocks' \subseteq blocks, pruned' \in SUBSET GuardHeights,
           leapt' \in SUBSET GuardHeights, lastSynced' \in 0..MaxHeight,
           Covered(lastSynced)'
    PROVE  GuardInv'
<1>1. GuardTypeOK'
  BY DataGuardAssumption
     DEF GuardInv, GuardTypeOK, GoDown, chainVars, NoCheck, NoTear
<1>2. \A b \in blocks' : Covered(b)'
  BY CoverStays DEF GuardInv
<1>3. \A k \in Checkers : Covered(check[k].max)'
  BY DEF Covered, GoDown, NoCheck
<1>4. Covered(nextIndexed - 1)'
  BY DEF Covered, GoDown
<1> QED
  BY <1>1, <1>2, <1>3, <1>4 DEF GuardInv, GoDown, NoTear

LEMMA ReadStep ==
    ASSUME GuardInv, NEW k \in Checkers,
           (\E r \in 0..MaxHeight : ReadChainHead(k, r)) \/ ReadDbMax(k)
    PROVE  GuardInv'
<1>1. DbMax \in 0..MaxHeight /\ Covered(DbMax)
  BY DbMaxCovered
<1>2. UNCHANGED <<chainVars, tableVars, procVars, tear>>
  BY DEF ReadChainHead, ReadDbMax
<1>3. /\ check' \in [Checkers -> [step : {"idle", "head", "act"}, head : 0..MaxHeight,
                                  max : 0..MaxHeight]]
      /\ \A j \in Checkers : check'[j].max \in {check[j].max, 0, DbMax}
  <2> DEFINE Read == [step : {"idle", "head", "act"}, head : 0..MaxHeight,
                     max : 0..MaxHeight]
  <2>1. PICK e \in Read : /\ check' = [check EXCEPT ![k] = e]
                          /\ e.max \in {0, DbMax}
    <3>1. CASE \E r \in 0..MaxHeight : ReadChainHead(k, r)
      <4>1. PICK r \in 0..MaxHeight : ReadChainHead(k, r)
        BY <3>1
      <4> DEFINE e == [NoCheck EXCEPT !.step = "head", !.head = r]
      <4>2. e \in Read /\ e.max \in {0, DbMax}
        <5>1. NoCheck \in Read /\ NoCheck.max = 0
          BY DataGuardAssumption DEF NoCheck
        <5> QED
          BY <5>1
      <4>3. check' = [check EXCEPT ![k] = e]
        BY <4>1 DEF ReadChainHead
      <4> QED
        BY <4>2, <4>3
    <3>2. CASE ReadDbMax(k)
      <4>1. check[k] \in Read
        BY DEF GuardInv, GuardTypeOK
      <4> DEFINE e == [check[k] EXCEPT !.step = "act", !.max = DbMax]
      <4>2. e \in Read /\ e.max \in {0, DbMax}
        BY <4>1, <1>1
      <4>3. check' = [check EXCEPT ![k] = e]
        BY <3>2 DEF ReadDbMax
      <4> QED
        BY <4>2, <4>3
    <3> QED
      BY <3>1, <3>2
  <2>2. check \in [Checkers -> Read]
    BY DEF GuardInv, GuardTypeOK
  <2> HIDE DEF Read
  <2>3. check' \in [Checkers -> Read]
    BY <2>1, <2>2
  <2>4. \A j \in Checkers : check'[j].max \in {check[j].max, 0, DbMax}
    BY <2>1, <2>2
  <2> QED
    BY <2>3, <2>4 DEF Read
<1>4. GuardTypeOK'
  BY <1>2, <1>3 DEF GuardInv, GuardTypeOK, chainVars, tableVars, procVars
<1>5. \A j \in Checkers : Covered(check'[j].max)
  BY <1>1, <1>3 DEF GuardInv, Covered
<1> QED
  BY <1>2, <1>4, <1>5 DEF GuardInv, Covered, Explained, tableVars, procVars

LEMMA SeeTearStep ==
    ASSUME GuardInv, NEW r \in 0..MaxHeight, SeeTear(r)
    PROVE  GuardInv'
<1>1. /\ UNCHANGED <<chainVars, tableVars, procVars, check>>
      /\ tear' = [step |-> "force", head |-> r, synced |-> lastSynced]
      /\ r > 0
  BY DataGuardAssumption DEF SeeTear, GuardInv, GuardTypeOK
<1>2. GuardTypeOK'
  BY <1>1 DEF GuardInv, GuardTypeOK, chainVars, tableVars, procVars
<1> QED
  BY <1>1, <1>2 DEF GuardInv, Covered, Explained, tableVars, procVars

LEMMA ResetCursorStep ==
    ASSUME GuardInv, ResetCursorToHead
    PROVE  GuardInv'
<1>1. GuardTypeOK'
  BY DataGuardAssumption
     DEF GuardInv, GuardTypeOK, ResetCursorToHead, chainVars, tableVars, NoTear
<1> QED
  BY <1>1 DEF GuardInv, ResetCursorToHead, Covered, Explained, tableVars, NoTear

LEMMA StartStep ==
    ASSUME GuardInv, ReadStartBlock \/ CutNothing
    PROVE  GuardInv'
<1>1. GuardTypeOK'
  BY DataGuardAssumption
     DEF GuardInv, GuardTypeOK, ReadStartBlock, CutNothing, chainVars, tableVars
<1>2. /\ UNCHANGED <<tableVars, check, tear>>
      /\ phase' # "mark"
      /\ nextIndexed' \in {nextIndexed, lastSynced + 1}
  BY DEF ReadStartBlock, CutNothing
<1>3. Covered(nextIndexed' - 1)
  <2>1. nextIndexed' - 1 \in {nextIndexed - 1, lastSynced}
    <3>1. nextIndexed \in Int /\ lastSynced \in Int
      BY DataGuardAssumption DEF GuardInv, GuardTypeOK
    <3>2. CASE nextIndexed' = nextIndexed
      BY <3>2
    <3>3. CASE nextIndexed' = lastSynced + 1
      BY <3>1, <3>3
    <3> QED
      BY <3>2, <3>3, <1>2
  <2>2. Covered(nextIndexed - 1) /\ Covered(lastSynced)
    BY DEF GuardInv
  <2> QED
    BY <2>1, <2>2
<1> QED
  BY <1>1, <1>2, <1>3 DEF GuardInv, Covered, Explained, tableVars

(***************************************************************************)
(* The steps that write the tables                                         *)
(***************************************************************************)
LEMMA StoreStep ==
    ASSUME GuardInv, StoreNext
    PROVE  GuardInv'
<1>1. GuardTypeOK'
  BY DataGuardAssumption
     DEF GuardInv, GuardTypeOK, StoreNext, chainVars, GuardHeights
<1>2. Explained' = Explained \cup {nextIndexed}
  BY DEF Explained, StoreNext
<1>4. \A h \in 1..nextIndexed : h \in Explained'
  BY <1>2, DataGuardAssumption DEF GuardInv, GuardTypeOK, Covered
<1>5. Covered(lastSynced)' /\ Covered(nextIndexed - 1)'
  BY <1>4, DataGuardAssumption DEF Covered, StoreNext, GuardInv, GuardTypeOK
<1>6. \A b \in blocks' : Covered(b)'
  BY <1>2, <1>4, CoverStays DEF GuardInv, StoreNext, Covered
<1>7. \A k \in Checkers : Covered(check[k].max)'
  BY <1>2 DEF GuardInv, StoreNext, Covered
<1> QED
  BY <1>1, <1>2, <1>5, <1>6, <1>7 DEF GuardInv, StoreNext, Covered

LEMMA PassStep ==
    ASSUME GuardInv, PassNext
    PROVE  GuardInv'
<1>1. GuardTypeOK'
  BY DataGuardAssumption
     DEF GuardInv, GuardTypeOK, PassNext, chainVars, GuardHeights
<1>2. Explained' = Explained \cup {nextIndexed}
  BY DEF Explained, PassNext
<1>3. Covered(nextIndexed - 1)'
  BY <1>2, DataGuardAssumption DEF Covered, PassNext, GuardInv, GuardTypeOK
<1>4. /\ Covered(lastSynced)'
      /\ \A b \in blocks' : Covered(b)'
      /\ \A k \in Checkers : Covered(check[k].max)'
  BY <1>2 DEF GuardInv, PassNext, Covered
<1> QED
  BY <1>1, <1>2, <1>3, <1>4 DEF GuardInv, PassNext, Covered

\* A step that ends in PruneFutureData, LeapTo or neither keeps the invariant of the
\* tables, of the cursor in memory and of the numbers others have read.
LEMMA TablesKept ==
    ASSUME GuardInv, Explained \subseteq Explained', blocks' \subseteq blocks,
           UNCHANGED nextIndexed
    PROVE  /\ Covered(nextIndexed - 1)'
           /\ \A b \in blocks' : Covered(b)'
           /\ \A k \in Checkers : check'[k].max \in {0, check[k].max}
                                       => Covered(check[k].max)'
           /\ tear'.synced = tear.synced /\ tear.step # "idle" => Covered(tear.synced)'
           /\ tear' = tear /\ tear.step = "reset" => Covered(tear.head - 1)'
  BY DEF GuardInv, Covered

LEMMA AlignStep ==
    ASSUME GuardInv, NEW k \in Checkers, Align(k)
    PROVE  GuardInv'
<1>0. PICK r \in 0..MaxHeight, max \in 0..MaxHeight :
         r = check[k].head /\ max = check[k].max
  BY DEF GuardInv, GuardTypeOK
<1>1. /\ Covered(max)
      /\ UNCHANGED <<chainVars, procVars, tear>>
      /\ \A j \in Checkers : check'[j].max \in {0, check[j].max}
  BY <1>0 DEF GuardInv, GuardTypeOK, Align, NoCheck
<1>2. /\ Explained \subseteq Explained' /\ blocks' \subseteq blocks
      /\ pruned' \in SUBSET GuardHeights /\ leapt' \in SUBSET GuardHeights
      /\ lastSynced' \in 0..MaxHeight /\ UNCHANGED omitted
      /\ Covered(lastSynced)'
  <2>1. CASE max > r /\ PruneFutureData(r)
    <3>1. Explained \subseteq Explained' /\ Covered(r)' /\ blocks' \subseteq blocks
          /\ pruned' \in SUBSET GuardHeights
      BY <2>1, <1>1, PruneCovers
    <3> QED
      BY <3>1, <2>1, <1>1 DEF PruneFutureData, Covered, GuardInv, GuardTypeOK
  <2>2. CASE r - max > LeapGap /\ LeapTo(r, max)
    <3>1. r \in 1..MaxHeight
      BY <2>2, <1>1, DataGuardAssumption
    <3>2. Explained \subseteq Explained' /\ Covered(r - 1)' /\ leapt' \in SUBSET GuardHeights
      BY <3>1, <2>2, <1>1, LeapCovers
    <3> QED
      BY <3>1, <3>2, <2>2, DataGuardAssumption DEF LeapTo, Covered, GuardInv, GuardTypeOK
  <2>3. CASE UNCHANGED tableVars
    BY <2>3 DEF tableVars, Explained, Covered, GuardInv, GuardTypeOK
  <2> QED
    BY <1>0, <2>1, <2>2, <2>3 DEF Align
<1>3. GuardTypeOK'
  BY <1>1, <1>2, DataGuardAssumption
     DEF GuardInv, GuardTypeOK, Align, NoCheck, chainVars, procVars
<1> QED
  BY <1>1, <1>2, <1>3, TablesKept, CoverStays DEF GuardInv, procVars

LEMMA ResetEngineStep ==
    ASSUME GuardInv, NEW k \in Checkers, ResetEngine(k)
    PROVE  GuardInv'
<1>1. /\ check[k].head \in 1..MaxHeight /\ check[k].max \in 0..MaxHeight
      /\ Covered(check[k].max) /\ LeapTo(check[k].head, check[k].max)
  BY DataGuardAssumption DEF GuardInv, GuardTypeOK, ResetEngine
<1>2. /\ Explained \subseteq Explained' /\ leapt' \in SUBSET GuardHeights
      /\ Covered(lastSynced)'
  BY <1>1, LeapCovers DEF LeapTo, Covered
<1>3. /\ blocks' \subseteq blocks /\ pruned' \in SUBSET GuardHeights
      /\ lastSynced' \in 0..MaxHeight /\ UNCHANGED omitted
  BY <1>1, DataGuardAssumption DEF LeapTo, GuardInv, GuardTypeOK
<1> QED
  BY <1>2, <1>3, GoDownStep DEF ResetEngine

LEMMA CrashStep ==
    ASSUME GuardInv, Crash
    PROVE  GuardInv'
<1>1. GoDown /\ UNCHANGED chainVars /\ UNCHANGED tableVars
  BY DEF Crash
<1>2. /\ Explained \subseteq Explained' /\ Covered(lastSynced)'
      /\ blocks' \subseteq blocks /\ pruned' \in SUBSET GuardHeights
      /\ leapt' \in SUBSET GuardHeights /\ lastSynced' \in 0..MaxHeight
      /\ UNCHANGED omitted
  BY <1>1 DEF tableVars, Explained, Covered, GuardInv, GuardTypeOK
<1> QED
  BY <1>1, <1>2, GoDownStep

LEMMA ForceStep ==
    ASSUME GuardInv, NEW ok \in BOOLEAN, ForceCheckpoint(ok)
    PROVE  GuardInv'
<1>1. /\ tear.step = "force" /\ tear.head \in 1..MaxHeight
      /\ tear.synced \in 0..MaxHeight /\ Covered(tear.synced)
      /\ UNCHANGED <<chainVars, procVars, check>>
  BY DataGuardAssumption DEF GuardInv, GuardTypeOK, ForceCheckpoint
<1>2. CASE ok
  <2>1. LeapTo(tear.head, tear.synced) /\ tear' = [tear EXCEPT !.step = "reset"]
    BY <1>2 DEF ForceCheckpoint
  <2>2. /\ Explained \subseteq Explained' /\ leapt' \in SUBSET GuardHeights
        /\ \A h \in 1..(tear.head - 1) : h \in Explained'
    BY <2>1, <1>1, LeapCovers DEF Covered
  <2>3. GuardTypeOK'
    BY <2>1, <2>2, <1>1, DataGuardAssumption
       DEF LeapTo, GuardInv, GuardTypeOK, chainVars, procVars
  <2>4. Covered(lastSynced)' /\ Covered(tear.head - 1)'
    BY <2>1, <2>2 DEF Covered, LeapTo, GuardInv, GuardTypeOK
  <2>5. tear'.synced = tear.synced /\ tear'.head > 0 /\ blocks' \subseteq blocks
    BY <2>1, <1>1 DEF GuardInv, GuardTypeOK, LeapTo
  <2> QED
    BY <2>2, <2>3, <2>4, <2>5, <1>1, TablesKept, CoverStays DEF GuardInv, procVars
<1>3. CASE ~ok
  <2>1. UNCHANGED tableVars /\ tear' = NoTear
    BY <1>3 DEF ForceCheckpoint
  <2>2. GuardTypeOK'
    BY <2>1, <1>1, DataGuardAssumption
       DEF GuardInv, GuardTypeOK, tableVars, chainVars, procVars, NoTear
  <2> QED
    BY <2>1, <2>2, <1>1 DEF GuardInv, Covered, Explained, tableVars, procVars, NoTear
<1> QED
  BY <1>2, <1>3

LEMMA BootStep ==
    ASSUME GuardInv, NEW r \in 0..MaxHeight, Boot(r)
    PROVE  GuardInv'
<1>1. DbMax \in 0..MaxHeight /\ Covered(DbMax)
  BY DbMaxCovered
<1>2. /\ UNCHANGED <<chainVars, nextIndexed, cutAt, check, tear>>
      /\ phase' = "boot" /\ restarts' \in 0..MaxRestarts
  BY DataGuardAssumption DEF Boot, GuardInv, GuardTypeOK
<1>3. /\ Explained \subseteq Explained' /\ blocks' \subseteq blocks
      /\ pruned' \in SUBSET GuardHeights /\ leapt' \in SUBSET GuardHeights
      /\ lastSynced' \in 0..MaxHeight /\ UNCHANGED omitted
      /\ Covered(lastSynced)'
  <2>1. CASE DbMax > r /\ PruneFutureData(r)
    <3>1. Explained \subseteq Explained' /\ Covered(r)' /\ blocks' \subseteq blocks
          /\ pruned' \in SUBSET GuardHeights
      BY <2>1, <1>1, PruneCovers
    <3> QED
      BY <3>1, <2>1, <1>1 DEF PruneFutureData, Covered, GuardInv, GuardTypeOK
  <2>2. CASE r > DbMax + LeapGap /\ LeapTo(r, DbMax)
    <3>1. r \in 1..MaxHeight
      BY <2>2, <1>1, DataGuardAssumption
    <3>2. Explained \subseteq Explained' /\ Covered(r - 1)' /\ leapt' \in SUBSET GuardHeights
      BY <3>1, <2>2, <1>1, LeapCovers
    <3> QED
      BY <3>1, <3>2, <2>2, DataGuardAssumption DEF LeapTo, Covered, GuardInv, GuardTypeOK
  <2>3. CASE UNCHANGED tableVars
    BY <2>3 DEF tableVars, Explained, Covered, GuardInv, GuardTypeOK
  <2> QED
    BY <2>1, <2>2, <2>3 DEF Boot
<1>4. GuardTypeOK'
  BY <1>2, <1>3, DataGuardAssumption DEF GuardInv, GuardTypeOK, chainVars
<1> QED
  BY <1>2, <1>3, <1>4, TablesKept DEF GuardInv

LEMMA CutStep ==
    ASSUME GuardInv, NEW r \in 0..MaxHeight, CutBlocks(r)
    PROVE  GuardInv'
<1>1. DbMax \in 0..MaxHeight /\ Covered(DbMax) /\ DbMax > r
  BY DbMaxCovered DEF CutBlocks
<1>2. /\ UNCHANGED <<chainVars, lastSynced, leapt, omitted, nextIndexed, restarts, check, tear>>
      /\ phase' = "mark" /\ cutAt' = r
      /\ Explained \subseteq Explained' /\ blocks' \subseteq blocks
      /\ pruned' \in SUBSET GuardHeights
  BY DEF CutBlocks, Explained, Above, GuardInv, GuardTypeOK
<1>3. Covered(r)
  BY <1>1, DataGuardAssumption DEF Covered
<1>4. GuardTypeOK'
  BY <1>2 DEF GuardInv, GuardTypeOK, chainVars
<1>5. Covered(lastSynced)' /\ Covered(cutAt)'
  BY <1>2, <1>3 DEF Covered, GuardInv
<1> QED
  BY <1>2, <1>4, <1>5, TablesKept DEF GuardInv

LEMMA MarkStep ==
    ASSUME GuardInv, NEW ok \in BOOLEAN, MarkCut(ok)
    PROVE  GuardInv'
<1>1. GuardTypeOK'
  BY DataGuardAssumption DEF GuardInv, GuardTypeOK, MarkCut, chainVars
<1> QED
  BY <1>1 DEF GuardInv, MarkCut, Covered, Explained

LEMMA GuardNextInv == GuardInv /\ [GuardNext]_guardVars => GuardInv'
<1> SUFFICES ASSUME GuardInv, [GuardNext]_guardVars PROVE GuardInv'
  OBVIOUS
<1>1. CASE UNCHANGED guardVars
  BY <1>1 DEF GuardInv, GuardTypeOK, Covered, Explained, guardVars, chainVars, tableVars,
              procVars
<1>2. CASE GuardNext
  BY <1>2, ChainStep, StoreStep, PassStep, ReadStep, AlignStep, ResetEngineStep, SeeTearStep,
     ForceStep, ResetCursorStep, CrashStep, BootStep, CutStep, StartStep, MarkStep
     DEF GuardNext
<1> QED
  BY <1>1, <1>2

\* However the checks of the guard, the watchdog, the writer, resets of the chain, crashes
\* and restarts interleave, every height up to the checkpoint is stored, was passed without
\* a row by the pipeline, was deleted by a prune or was passed over by a jump
\* (PerformLinearityCheck, AlignInfrastructure, AlignAnvilData, checkAndHeal).
THEOREM HolesExplained == GuardSpec => []CheckpointHolesExplained
<1>1. GuardInv => CheckpointHolesExplained
  BY DEF GuardInv, Covered, Explained, CheckpointHolesExplained
<1> QED
  BY <1>1, GuardInitInv, GuardNextInv, PTL DEF GuardSpec
=============================================================================
