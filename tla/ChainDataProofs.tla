-------------------------- MODULE ChainDataProofs ---------------------------
(***************************************************************************)
(* Proofs about what the indexer keeps of the chain and how it is fed: the *)
(* rollback, the published watermarks, the extraction of transfers, the    *)
(* replay of recordings and the emulator's transaction numbers, each for   *)
(* every value of its constants.                                           *)
(***************************************************************************)
EXTENDS Rollback, Watermarks, Traffic, Extraction, Replay,
        FiniteSetTheorems, WellFoundedInduction, TLAPS

\* A set of naturals that is not empty has a least element: induction on naturals.
LEMMA LeastNatural ==
    ASSUME NEW T \in SUBSET Nat, T # {}
    PROVE  \E x \in T : \A y \in T : x <= y
<1>0. IsWellFoundedOn(OpToRel(<, Nat), Nat)
  BY NatLessThanWellFounded
<1>1. PICK x \in T : \A y \in T : ~ (<<y, x>> \in OpToRel(<, Nat))
  BY <1>0, WFMin
<1>2. \A y \in T : ~ (y < x)
  BY <1>1 DEF OpToRel
<1> QED
  BY <1>2

(***************************************************************************)
(* The rollback of a reorganisation                                        *)
(***************************************************************************)
RowRecords == [hash : Nat, parent : Nat]
WalkRecords == [step : {"idle", "walk", "found", "done"}, at : Nat, delete : SUBSET Nat]

ReorgTypes ==
    /\ tip \in BlockHeights
    /\ branch \in [BlockHeights -> Nat]
    /\ table \in [BlockHeights -> RowRecords]
    /\ synced \in Nat
    /\ expected \in Nat \ {0}
    /\ walk \in WalkRecords

\* The fork of the last height is the newest: no block, stored or not, is of a later one.
NewestFork ==
    /\ \A h \in BlockHeights : 0 < branch[h] /\ branch[h] <= branch[ReorgHeight]
    /\ \A h \in BlockHeights : table[h].hash <= branch[ReorgHeight]

\* A stored block the chain still has was stored with the parent the chain still has.
ParentsAgree ==
    \A h \in InTable : h > 1 /\ table[h].hash = branch[h] => table[h].parent = branch[h - 1]

\* Nothing is stored at or above the cursor, or above the checkpoint.
RowsBehind == \A h \in InTable : h < expected /\ h <= synced

\* The search has marked every height from the cursor down to the one it looks at; a block
\* it has found is stored, and on the chain unless that was reorganised meanwhile.
WalkState ==
    /\ walk.step = "idle" => ~moved
    /\ walk.step \in {"walk", "found"} =>
          walk.at <= expected /\ walk.delete = (walk.at + 1)..expected
    /\ walk.step \in {"found", "done"} =>
          walk.at \in InTable /\ (~moved => table[walk.at].hash = branch[walk.at])
    /\ walk.step = "done" => \A h \in InTable : h <= walk.at

ReorgInv == ReorgTypes /\ NewestFork /\ ParentsAgree /\ RowsBehind /\ WalkState

\* The heights of the chain are 1 to ReorgHeight.
LEMMA HeightFacts ==
    /\ ReorgHeight \in BlockHeights /\ BlockHeights \subseteq Nat \ {0}
    /\ ReorgHeight \in Nat
    /\ \A h \in BlockHeights : h <= ReorgHeight /\ (h > 1 => h - 1 \in BlockHeights)
  BY RollbackAssumption DEF BlockHeights

\* The stored blocks under the found one, down to the first seam, are on the chain: each is
\* the parent of the next.
LEMMA ChainBelow ==
    ASSUME ReorgInv, NEW a \in BlockHeights, table[a].hash = branch[a],
           NEW h \in BlockHeights, h <= a, \A g \in (h + 1)..a : ~IsSeam(g)
    PROVE  table[h].hash = branch[h]
<1> DEFINE T == {k \in Nat : k <= a - h /\ table[a - k].hash # branch[a - k]}
<1>0. a \in Nat \ {0} /\ h \in Nat \ {0}
  BY HeightFacts
<1>1. CASE T = {}
  <2>1. a - h \in Nat /\ a - (a - h) = h /\ a - h <= a - h
    BY <1>0
  <2>2. a - h \notin T
    BY <1>1
  <2> QED
    BY <2>1, <2>2
<1>2. CASE T # {}
  <2>1. T \in SUBSET Nat
    OBVIOUS
  <2>2. PICK k \in T : \A m \in T : k <= m
    BY <1>2, <2>1, LeastNatural
  <2>3. k \in Nat /\ k <= a - h /\ table[a - k].hash # branch[a - k]
    BY <2>2
  <2>4. k # 0
    <3>1. a - 0 = a
      BY <1>0
    <3> QED
      BY <2>3, <3>1
  <2> DEFINE g == a - (k - 1)
  <2>5. k - 1 \in Nat /\ k - 1 <= a - h /\ ~(k <= k - 1)
    BY <1>0, <2>3, <2>4
  <2>6. k - 1 \notin T
    BY <2>2, <2>5
  <2>7. table[g].hash = branch[g]
    BY <2>5, <2>6
  <2>8. g \in (h + 1)..a /\ g - 1 = a - k /\ g > 1
    BY <1>0, <2>3, <2>4
  <2>9. g \in InTable /\ table[g].parent = table[g - 1].hash
    BY <2>8 DEF IsSeam
  <2>10. table[g].parent = branch[g - 1]
    BY <2>7, <2>8, <2>9 DEF ReorgInv, ParentsAgree
  <2> QED
    BY <2>3, <2>8, <2>9, <2>10
<1> QED
  BY <1>1, <1>2

\* The invariant implies the property: the stored chain hangs together below walk.at.
LEMMA ReorgInvAgrees == ReorgInv => RollbackAgrees
<1> SUFFICES ASSUME ReorgInv, walk.step = "done", ~moved, NEW h \in InTable
             PROVE  /\ h <= walk.at
                    /\ table[h].hash = branch[h] \/ \E g \in (h + 1)..walk.at : IsSeam(g)
  BY DEF RollbackAgrees
<1>1. h <= walk.at /\ walk.at \in InTable /\ table[walk.at].hash = branch[walk.at]
  BY DEF ReorgInv, WalkState
<1>2. h \in BlockHeights /\ walk.at \in BlockHeights
  BY <1>1 DEF InTable
<1> QED
  BY <1>1, <1>2, ChainBelow

\* The table is empty at the start.
LEMMA ReorgInitInv == ReorgInit => ReorgInv
<1> SUFFICES ASSUME ReorgInit PROVE ReorgInv
  OBVIOUS
<1>0. 1 \in BlockHeights /\ NoRow \in RowRecords /\ NoWalk \in WalkRecords
  BY RollbackAssumption DEF BlockHeights, RowRecords, WalkRecords, NoRow, NoWalk
<1>1. ReorgTypes
  BY <1>0 DEF ReorgInit, ReorgTypes
<1>2. InTable = {}
  BY DEF ReorgInit, InTable, NoRow
<1>3. NewestFork
  BY HeightFacts DEF ReorgInit, NewestFork, NoRow
<1> QED
  BY <1>1, <1>2, <1>3 DEF ReorgInit, ReorgInv, ParentsAgree, RowsBehind, WalkState, NoWalk

\* A reorganisation gives the replaced heights a hash no row has yet.
LEMMA TipReorganisesInv ==
    ASSUME ReorgInv, NEW f \in BlockHeights, NEW h \in BlockHeights, TipReorganises(f, h)
    PROVE  ReorgInv'
<1> USE DEF ReorgInv
<1> DEFINE n == branch[ReorgHeight] + 1
<1>1. /\ branch' = [g \in BlockHeights |-> IF g < f THEN branch[g] ELSE n]
      /\ tip' = h /\ UNCHANGED <<table, synced, expected, cached, walk, skips>>
      /\ f <= h
  BY DEF TipReorganises
<1>2. /\ n \in Nat /\ n > 0
      /\ \A g \in BlockHeights : /\ branch[g] \in Nat /\ branch[g] < n
                                /\ table[g].hash \in Nat /\ table[g].hash < n
  BY HeightFacts DEF ReorgTypes, NewestFork, RowRecords
<1> HIDE DEF n
<1>3. f <= ReorgHeight /\ f \in Nat /\ ReorgHeight \in Nat /\ ReorgHeight \in BlockHeights
  BY HeightFacts
<1>4. branch'[ReorgHeight] = n
  BY <1>1, <1>3
<1>5. \A g \in BlockHeights : /\ g < f => branch'[g] = branch[g]
                              /\ ~(g < f) => branch'[g] = n
                              /\ branch'[g] \in Nat
  BY <1>1, <1>2
<1>6. InTable' = InTable /\ InTable \subseteq BlockHeights
  BY <1>1 DEF InTable
<1>7. ReorgTypes'
  BY <1>1, <1>2 DEF ReorgTypes
<1>8. NewestFork'
  BY <1>1, <1>2, <1>4, <1>5 DEF NewestFork
<1>9. ParentsAgree'
  <2> SUFFICES ASSUME NEW g \in InTable, g > 1, table[g].hash = branch'[g]
               PROVE  table[g].parent = branch'[g - 1]
    BY <1>1, <1>6 DEF ParentsAgree
  <2>1. g \in BlockHeights /\ g \in Nat /\ g - 1 \in BlockHeights
    BY <1>6, HeightFacts
  <2>2. g < f
    BY <1>2, <1>5, <2>1
  <2>3. g - 1 < f /\ g - 1 \in Nat
    BY <1>3, <2>1, <2>2, HeightFacts
  <2> QED
    BY <1>5, <2>1, <2>2, <2>3 DEF ParentsAgree
<1>10. RowsBehind'
  BY <1>1, <1>6 DEF RowsBehind
<1>11. WalkState'
  <2>1. moved' = (walk.step # "idle")
    BY DEF TipReorganises
  <2>2. (walk.step # "idle" => moved') /\ (walk.step = "idle" => ~moved')
    BY <2>1, Zenon
  <2> QED
    BY <1>1, <1>6, <2>2 DEF WalkState
<1> QED
  BY <1>7, <1>8, <1>9, <1>10, <1>11

\* A block is stored at the cursor, or an older row of its height kept.
LEMMA StoreInv ==
    ASSUME ReorgInv, Ready, StoreRow(expected), UNCHANGED <<tip, branch, walk, moved, skips>>
    PROVE  ReorgInv'
<1> USE DEF ReorgInv
<1> DEFINE h == expected
           new == [hash |-> branch[h], parent |-> IF h = 1 THEN 0 ELSE branch[h - 1]]
           row == IF table[h] # NoRow THEN table[h] ELSE new
<1>1. h \in BlockHeights /\ h \in Nat /\ synced' = h /\ expected' = h + 1 /\ walk.step = "idle"
  BY HeightFacts DEF Ready, StoreRow, ReorgTypes, BlockHeights
<1>2. table' = [table EXCEPT ![h] = row]
  BY DEF StoreRow
<1>3. /\ new \in RowRecords /\ new.hash = branch[h] /\ branch[h] \in Nat
      /\ h > 1 => new.parent = branch[h - 1]
  <2>1. branch[h] \in Nat /\ (h # 1 => branch[h - 1] \in Nat)
    BY <1>1, HeightFacts DEF ReorgTypes
  <2> QED
    BY <1>1, <2>1 DEF RowRecords
<1>4. table[h] \in RowRecords
  BY <1>1 DEF ReorgTypes
<1> HIDE DEF new
<1>5. row \in RowRecords /\ (row = table[h] \/ row = new)
  BY <1>3, <1>4
<1> HIDE DEF row
<1>6. table'[h] = row /\ \A g \in BlockHeights \ {h} : table'[g] = table[g]
  BY <1>1, <1>2 DEF ReorgTypes
<1>7. ReorgTypes'
  BY <1>1, <1>2, <1>5 DEF ReorgTypes
<1>8. NewestFork'
  <2>1. row.hash <= branch[ReorgHeight]
    BY <1>1, <1>3, <1>5 DEF NewestFork
  <2> QED
    BY <1>6, <2>1 DEF NewestFork
<1>9. /\ InTable' \subseteq InTable \cup {h}
      /\ InTable \subseteq BlockHeights /\ InTable' \subseteq BlockHeights
  BY <1>6 DEF InTable
<1>10. ParentsAgree'
  <2> SUFFICES ASSUME NEW g \in InTable', g > 1, table'[g].hash = branch[g]
               PROVE  table'[g].parent = branch[g - 1]
    BY DEF ParentsAgree
  <2>1. CASE g = h /\ row = new
    BY <1>3, <1>6, <2>1
  <2>2. CASE g # h \/ row = table[h]
    <3>1. table'[g] = table[g] /\ g \in InTable
      BY <1>6, <1>9, <2>2 DEF InTable
    <3> QED
      BY <3>1 DEF ParentsAgree
  <2> QED
    BY <1>5, <2>1, <2>2
<1>11. RowsBehind'
  <2> SUFFICES ASSUME NEW g \in InTable' PROVE g < h + 1 /\ g <= h
    BY <1>1 DEF RowsBehind
  <2>1. g \in Nat /\ (g \in InTable \/ g = h)
    BY <1>9, HeightFacts
  <2> QED
    BY <1>1, <2>1 DEF RowsBehind
<1>12. WalkState'
  BY <1>1 DEF WalkState
<1> QED
  BY <1>7, <1>8, <1>10, <1>11, <1>12

\* One height of the search.
LEMMA CompareHeightInv ==
    ASSUME ReorgInv, CompareHeight
    PROVE  ReorgInv'
<1> USE DEF ReorgInv
<1>1. /\ walk.step = "walk" /\ walk.at > 0 /\ walk.at <= tip
      /\ UNCHANGED <<tip, branch, table, synced, expected, cached, moved, skips>>
      /\ walk.at \in Nat /\ walk.delete \in SUBSET Nat /\ expected \in Nat
  BY DEF CompareHeight, ReorgTypes, WalkRecords
<1>2. walk.at <= expected /\ walk.delete = (walk.at + 1)..expected /\ walk.at \in BlockHeights
  BY <1>1, HeightFacts DEF WalkState, ReorgTypes, BlockHeights
<1>3. InTable' = InTable
  BY <1>1 DEF InTable
<1>4. CASE IsCommon(walk.at)
  <2>1. walk' = [walk EXCEPT !.step = "found"]
    BY <1>4 DEF CompareHeight
  <2>2. /\ walk'.step = "found" /\ walk'.at = walk.at /\ walk'.delete = walk.delete
        /\ walk' \in WalkRecords
    BY <2>1 DEF ReorgTypes, WalkRecords
  <2>3. walk.at \in InTable /\ table[walk.at].hash = branch[walk.at]
    BY <1>2, <1>4 DEF IsCommon, InTable, NewestFork
  <2>4. WalkState'
    BY <1>1, <1>2, <1>3, <2>2, <2>3 DEF WalkState
  <2> QED
    BY <1>1, <1>3, <2>2, <2>4 DEF ReorgTypes, NewestFork, ParentsAgree, RowsBehind
<1>5. CASE ~IsCommon(walk.at)
  <2> DEFINE a == walk.at - 1
             d == walk.delete \cup {walk.at}
  <2>1. walk' = [walk EXCEPT !.at = a, !.delete = d]
    BY <1>5 DEF CompareHeight
  <2>2. a \in Nat /\ d \in SUBSET Nat /\ a <= expected /\ d = (a + 1)..expected
    BY <1>1, <1>2
  <2> HIDE DEF a, d
  <2>3. /\ walk'.step = "walk" /\ walk'.at = a /\ walk'.delete = d
        /\ walk' \in WalkRecords
    BY <1>1, <2>1, <2>2 DEF ReorgTypes, WalkRecords
  <2>4. WalkState'
    BY <1>1, <2>2, <2>3 DEF WalkState
  <2> QED
    BY <1>1, <1>3, <2>3, <2>4 DEF ReorgTypes, NewestFork, ParentsAgree, RowsBehind
<1> QED
  BY <1>4, <1>5

\* The rollback leaves the rows up to the found block.
LEMMA RollBackInv ==
    ASSUME ReorgInv, RollBack
    PROVE  ReorgInv'
<1> USE DEF ReorgInv
<1> DEFINE a == walk.at
<1>1. /\ walk.step = "found" /\ walk' = [walk EXCEPT !.step = "done"]
     
      /\ table' = [h \in BlockHeights |-> IF \E d \in walk.delete : d <= h THEN NoRow ELSE table[h]]
      /\ synced' = (IF ChainOne THEN a ELSE synced)
      /\ UNCHANGED <<tip, branch, expected, cached, moved, skips>>
  BY DEF RollBack
<1>2. /\ a \in Nat /\ expected \in Nat /\ a \in InTable /\ a \in BlockHeights /\ a < expected
      /\ walk.delete = (a + 1)..expected /\ (~moved => table[a].hash = branch[a])
  BY <1>1 DEF WalkState, RowsBehind, InTable, ReorgTypes, WalkRecords
<1>3. walk'.step = "done" /\ walk'.at = a /\ walk' \in WalkRecords
  BY <1>1 DEF ReorgTypes, WalkRecords
<1>4. \A h \in BlockHeights : h \in Nat /\ ((\E d \in walk.delete : d <= h) <=> h > a)
  <2> SUFFICES ASSUME NEW h \in BlockHeights
               PROVE  h \in Nat /\ ((\E d \in walk.delete : d <= h) <=> h > a)
    OBVIOUS
  <2>1. h \in Nat
    BY HeightFacts
  <2>2. ASSUME NEW d \in walk.delete, d <= h PROVE h > a
    BY <1>2, <2>1, <2>2
  <2>3. ASSUME h > a PROVE \E d \in walk.delete : d <= h
    <3>1. a + 1 \in walk.delete /\ a + 1 <= h
      BY <1>2, <2>1, <2>3
    <3> QED
      BY <3>1
  <2> QED
    BY <2>1, <2>2, <2>3
<1>5. \A h \in BlockHeights : table'[h] = IF h > a THEN NoRow ELSE table[h]
  BY <1>1, <1>4
<1>6. InTable' = {h \in InTable : h <= a} /\ InTable \subseteq BlockHeights
  <2>1. NoRow.hash = 0
    BY DEF NoRow
  <2>2. \A h \in BlockHeights : h > a <=> ~(h <= a)
    BY <1>2, <1>4
  <2> QED
    BY <1>5, <2>1, <2>2 DEF InTable
<1>7. \A h \in InTable' : table'[h] = table[h] /\ h \in InTable
  <2> SUFFICES ASSUME NEW h \in InTable' PROVE table'[h] = table[h] /\ h \in InTable
    OBVIOUS
  <2>1. h \in BlockHeights /\ h \in InTable /\ ~(h > a)
    BY <1>2, <1>4, <1>6
  <2> QED
    BY <1>5, <2>1
<1>8. NoRow \in RowRecords
  BY DEF NoRow, RowRecords
<1>9. ReorgTypes'
  <2>1. table' \in [BlockHeights -> RowRecords]
    <3>1. \A h \in BlockHeights : table'[h] \in RowRecords
      BY <1>5, <1>8 DEF ReorgTypes
    <3> QED
      BY <1>1, <3>1
  <2>2. synced' \in Nat
    BY <1>1, <1>2 DEF ReorgTypes
  <2> QED
    BY <1>1, <1>3, <2>1, <2>2 DEF ReorgTypes
<1>10. NewestFork'
  <2>1. \A h \in BlockHeights : table'[h].hash <= branch[ReorgHeight]
    <3>1. NoRow.hash = 0 /\ 0 <= branch[ReorgHeight]
      BY HeightFacts DEF NoRow, ReorgTypes
    <3> QED
      BY <1>5, <3>1 DEF NewestFork
  <2> QED
    BY <1>1, <2>1 DEF NewestFork
<1>11. ParentsAgree'
  BY <1>1, <1>7 DEF ParentsAgree
<1>12. RowsBehind'
  BY <1>1, <1>6, <1>7 DEF RowsBehind
<1>13. WalkState'
  <2>1. a \in InTable'
    BY <1>2, <1>6
  <2> QED
    BY <1>1, <1>2, <1>3, <1>6, <1>7, <2>1 DEF WalkState
<1> QED
  BY <1>9, <1>10, <1>11, <1>12, <1>13

\* Every step of the node, the sequencer and the reorg handler keeps the invariant.
LEMMA ReorgNextInv ==
    ASSUME ReorgInv, [ReorgNext]_reorgVars
    PROVE  ReorgInv'
<1> USE DEF ReorgInv
<1>0. NoWalk \in WalkRecords /\ NoWalk.step = "idle"
  BY DEF NoWalk, WalkRecords
<1>1. CASE TipAdvances
  <2>1. tip' \in BlockHeights
    BY <1>1, HeightFacts DEF TipAdvances, ReorgTypes, BlockHeights
  <2> QED
    BY <1>1, <2>1 DEF TipAdvances, ReorgTypes, NewestFork, ParentsAgree, RowsBehind,
       WalkState, InTable
<1>2. CASE StoreBatched
  BY <1>2, StoreInv DEF StoreBatched
<1>3. ASSUME NEW queried \in BOOLEAN, StoreSingle(queried) PROVE ReorgInv'
  BY <1>3, StoreInv DEF StoreSingle
<1>4. CASE StepOver
  <2>1. /\ UNCHANGED <<tip, branch, table, synced, walk, moved>> /\ walk.step = "idle"
        /\ expected \in Nat /\ expected' = expected + 1
    BY <1>4 DEF StepOver, Ready, ReorgTypes
  <2>2. ReorgTypes'
    BY <2>1 DEF ReorgTypes
  <2>3. InTable' = InTable /\ InTable \subseteq Nat
    BY <2>1, HeightFacts DEF InTable
  <2>4. RowsBehind'
    BY <2>1, <2>3 DEF RowsBehind
  <2> QED
    BY <2>1, <2>2, <2>3, <2>4 DEF NewestFork, ParentsAgree, WalkState
<1>5. CASE Reboot
  <2>1. /\ UNCHANGED <<tip, branch, table, synced>> /\ walk' = NoWalk /\ ~moved'
        /\ synced \in Nat /\ expected' = synced + 1
    BY <1>5 DEF Reboot, ReorgTypes
  <2>2. ReorgTypes'
    BY <1>0, <2>1 DEF ReorgTypes
  <2>3. InTable' = InTable /\ InTable \subseteq Nat
    BY <2>1, HeightFacts DEF InTable
  <2>4. RowsBehind'
    BY <2>1, <2>3 DEF RowsBehind
  <2> QED
    BY <1>0, <2>1, <2>2, <2>3, <2>4 DEF NewestFork, ParentsAgree, WalkState
<1>6. CASE FindCommonAncestor
  <2>1. /\ UNCHANGED <<tip, branch, table, synced, expected, moved>>
        /\ walk' = [NoWalk EXCEPT !.step = "walk", !.at = expected]
    BY <1>6 DEF FindCommonAncestor
  <2>2. walk' \in WalkRecords /\ walk'.step = "walk" /\ walk'.at = expected /\ walk'.delete = {}
    BY <2>1 DEF NoWalk, WalkRecords, ReorgTypes
  <2>3. expected \in Nat /\ expected <= expected /\ {} = (expected + 1)..expected
    BY DEF ReorgTypes
  <2> QED
    BY <2>1, <2>2, <2>3 DEF ReorgTypes, NewestFork, ParentsAgree, RowsBehind, WalkState, InTable
<1>7. CASE WalkFails
  <2>1. UNCHANGED <<tip, branch, table, synced, expected>> /\ walk' = NoWalk /\ ~moved'
    BY <1>7 DEF WalkFails
  <2> QED
    BY <1>0, <2>1 DEF ReorgTypes, NewestFork, ParentsAgree, RowsBehind, WalkState, InTable
<1>8. CASE ResumeAfterReorg
  <2>1. /\ UNCHANGED <<tip, branch, table, synced>> /\ walk' = NoWalk /\ ~moved'
        /\ walk.at \in Nat /\ expected' = walk.at + 1 /\ walk.step = "done"
    BY <1>8 DEF ResumeAfterReorg, ReorgTypes, WalkRecords
  <2>2. ReorgTypes'
    BY <1>0, <2>1 DEF ReorgTypes
  <2>3. InTable' = InTable /\ InTable \subseteq Nat
    BY <2>1, HeightFacts DEF InTable
  <2>4. RowsBehind'
    BY <2>1, <2>3 DEF RowsBehind, WalkState
  <2> QED
    BY <1>0, <2>1, <2>2, <2>3, <2>4 DEF NewestFork, ParentsAgree, WalkState
<1>9. CASE UNCHANGED reorgVars
  BY <1>9 DEF reorgVars, ReorgTypes, NewestFork, ParentsAgree, RowsBehind, WalkState, InTable
<1> QED
  BY <1>1, <1>2, <1>3, <1>4, <1>5, <1>6, <1>7, <1>8, <1>9, TipReorganisesInv, CompareHeightInv,
     RollBackInv
     DEF ReorgNext

\* A rollback removes what the chain no longer has, down to the first seam, for every
\* length of the chain and any number of reorganisations and skips.
THEOREM RollbackRemoves == ReorgSpec => []RollbackAgrees
  BY ReorgInvAgrees, ReorgInitInv, ReorgNextInv, PTL DEF ReorgSpec

(***************************************************************************)
(* The orchestrator's watermarks                                           *)
(***************************************************************************)
MarkRecords == [latest : Nat, fetched : Nat, synced : Nat]
CommandRecords == [type : {"height", "fetched", "disk", "reset"}, h : Nat]

MarkTypes ==
    /\ onChain \in Nat
    /\ commands \in Seq(CommandRecords)
    /\ marks \in MarkRecords /\ shown \in MarkRecords
    /\ pendingHeight \in Nat
    /\ store \in [mark : {"none", "latest", "fetched", "synced"}, h : Nat]
    /\ scheduledTo \in Nat /\ inMemory \in Nat /\ resumedAt \in Nat /\ forcings \in Nat

\* Heights the database had, or at most the published head.
Known == {h \in Nat : h <= resumedAt \/ h <= shown.latest}

\* Heights the database had, or of which the loop has, or is about to have, the notice.
Noted ==
    {h \in Nat : \/ h <= resumedAt
                 \/ h <= marks.fetched
                 \/ store.mark = "fetched" /\ h <= store.h
                 \/ noticeLost}

\* Heights up to one that the first n commands of q announce.
Announced(q, n) == {h \in Nat : \E j \in 1..n : q[j].type = "fetched" /\ h <= q[j].h}

\* What is scheduled, fetched, committed or reset to lies behind the published head, which
\* only rises while nobody forces the marks.
HeadLeads ==
    /\ shown.latest <= marks.latest
    /\ store.mark = "latest" => marks.latest <= store.h
    /\ scheduledTo \in Known /\ inMemory \in Known
    /\ marks.synced \in Known /\ shown.synced \in Known
    /\ store.mark = "synced" => store.h \in Known
    /\ \A i \in 1..Len(commands) :
          commands[i].type \in {"disk", "reset"} => commands[i].h \in Known

\* What is in the marks was noted as fetched; a store does not lose a note.
MarksNoted ==
    /\ store.mark = "fetched" => \/ marks.fetched <= store.h
                                 \/ marks.fetched <= resumedAt
                                 \/ noticeLost
    /\ marks.synced \in Noted /\ shown.fetched \in Noted
    /\ shown.synced <= shown.fetched \/ shown.synced <= resumedAt \/ noticeLost
    /\ store.mark = "synced" => store.h \in Noted

\* The notice of a block is noted (in N), or travels in the queue q ahead of the block's
\* commit; m is the highest block in memory.
NoticesAhead(q, m, N) ==
    /\ m \in N \cup Announced(q, Len(q))
    /\ \A i \in 1..Len(q) :
          /\ q[i].type = "disk" => q[i].h \in N \cup Announced(q, i - 1)
          /\ q[i].type = "reset" => q[i].h \in N

MarkInv ==
    /\ MarkTypes
    /\ forcings = 0 => HeadLeads /\ MarksNoted /\ NoticesAhead(commands, inMemory, Noted)

\* A restart loads all marks from the database.
LEMMA MarkInitInv == MarkInit => MarkInv
<1> SUFFICES ASSUME MarkInit PROVE MarkInv
  OBVIOUS
<1>1. resumedAt \in Nat /\ commands = <<>> /\ Len(commands) = 0
  BY WatermarksAssumption DEF MarkInit, MarkHeights
<1>2. marks \in MarkRecords /\ shown \in MarkRecords
  BY <1>1 DEF MarkInit, MarkRecords
<1>3. MarkTypes
  BY <1>1, <1>2 DEF MarkInit, MarkTypes, NoStore
<1>4. HeadLeads
  BY <1>1 DEF MarkInit, HeadLeads, Known, NoStore
<1>5. MarksNoted
  BY <1>1 DEF MarkInit, MarksNoted, Noted, NoStore
<1>6. inMemory \in Noted
  BY <1>1 DEF MarkInit, Noted
<1>7. NoticesAhead(commands, inMemory, Noted)
  BY <1>1, <1>6 DEF NoticesAhead
<1> QED
  BY <1>3, <1>4, <1>5, <1>7 DEF MarkInv

\* The commands of a queue have heights.
LEMMA QueueHeights ==
    ASSUME NEW q \in Seq(CommandRecords)
    PROVE  /\ Len(q) \in Nat
           /\ \A i \in 1..Len(q) : q[i] \in CommandRecords /\ q[i].h \in Nat
<1>1. \A i \in 1..Len(q) : q[i] \in CommandRecords
  OBVIOUS
<1>2. \A c \in CommandRecords : c.h \in Nat
  BY DEF CommandRecords
<1> QED
  BY <1>1, <1>2

\* Nothing that was noted is forgotten.
LEMMA NoticesKept ==
    ASSUME NEW q, NEW m, NEW N, NEW M, NoticesAhead(q, m, N), N \subseteq M
    PROVE  NoticesAhead(q, m, M)
  BY DEF NoticesAhead

\* A producer sends a command: a commit of a block in memory, a reset to a noted height, or
\* anything else; a block that comes into memory is announced.
LEMMA NoticesGrow ==
    ASSUME NEW q \in Seq(CommandRecords), NEW c \in CommandRecords,
           NEW m \in Nat, NEW mm \in Nat, NEW N \in SUBSET Nat,
           \A g, h \in Nat : h \in N /\ g <= h => g \in N,
           NoticesAhead(q, m, N),
           mm = m \/ (c.type = "fetched" /\ mm <= c.h),
           c.type = "disk" => c.h <= m,
           c.type = "reset" => c.h \in N
    PROVE  NoticesAhead(Append(q, c), mm, N)
<1> DEFINE a == Append(q, c)
           n == Len(q)
<1>1. /\ Len(a) = n + 1 /\ n \in Nat
      /\ \A i \in 1..n : a[i] = q[i]
      /\ a[n + 1] = c
  OBVIOUS
<1>2. c.h \in Nat
  BY DEF CommandRecords
<1>3. \A i \in 1..n : q[i].h \in Nat
  BY QueueHeights
<1> HIDE DEF a
<1>4. ASSUME NEW k \in 0..n PROVE Announced(q, k) \subseteq Announced(a, k)
  BY <1>1 DEF Announced
<1>5. Announced(q, n) \subseteq Announced(a, n + 1)
  <2> SUFFICES ASSUME NEW h \in Announced(q, n) PROVE h \in Announced(a, n + 1)
    OBVIOUS
  <2>1. PICK j \in 1..n : h \in Nat /\ q[j].type = "fetched" /\ h <= q[j].h
    BY DEF Announced
  <2>2. j \in 1..(n + 1) /\ a[j] = q[j]
    BY <1>1
  <2> QED
    BY <2>1, <2>2 DEF Announced
<1>6. mm \in N \cup Announced(a, Len(a))
  <2>1. CASE mm = m
    BY <1>1, <1>5, <2>1 DEF NoticesAhead
  <2>2. CASE c.type = "fetched" /\ mm <= c.h
    <3>1. n + 1 \in 1..Len(a)
      BY <1>1
    <3> QED
      BY <1>1, <2>2, <3>1 DEF Announced
  <2> QED
    BY <2>1, <2>2
<1>7. ASSUME NEW i \in 1..Len(a)
      PROVE  /\ a[i].type = "disk" => a[i].h \in N \cup Announced(a, i - 1)
             /\ a[i].type = "reset" => a[i].h \in N
  <2>1. CASE i \in 1..n
    <3>1. a[i] = q[i] /\ i - 1 \in 0..n
      BY <1>1, <2>1
    <3>2. Announced(q, i - 1) \subseteq Announced(a, i - 1)
      BY <1>4, <3>1
    <3> QED
      BY <2>1, <3>1, <3>2 DEF NoticesAhead
  <2>2. CASE i = n + 1
    <3>1. a[i] = c /\ i - 1 = n /\ n \in 0..n
      BY <1>1, <2>2
    <3>2. ASSUME c.type = "disk" PROVE c.h \in N \cup Announced(q, n)
      <4>1. c.h <= m
        BY <3>2
      <4>2. CASE m \in N
        BY <1>2, <4>1, <4>2
      <4>3. CASE m \in Announced(q, n)
        <5>1. PICK j \in 1..n : q[j].type = "fetched" /\ m <= q[j].h
          BY <4>3 DEF Announced
        <5>2. c.h <= q[j].h
          BY <1>2, <1>3, <4>1, <5>1
        <5> QED
          BY <1>2, <5>1, <5>2 DEF Announced
      <4> QED
        BY <4>2, <4>3 DEF NoticesAhead
    <3> QED
      BY <1>4, <3>1, <3>2
  <2> QED
    BY <1>1, <2>1, <2>2
<1>8. NoticesAhead(a, mm, N)
  BY <1>6, <1>7 DEF NoticesAhead
<1> QED
  BY <1>8 DEF a

\* The loop takes the first command; what it announced is noted from then on.
LEMMA NoticesShrink ==
    ASSUME NEW q \in Seq(CommandRecords), q # <<>>, NEW m \in Nat, NEW N, NEW M,
           NoticesAhead(q, m, N), N \subseteq M,
           Head(q).type = "fetched" => \A h \in Nat : h <= Head(q).h => h \in M
    PROVE  NoticesAhead(Tail(q), m, M)
<1> DEFINE a == Tail(q)
           n == Len(a)
<1>1. /\ Len(q) = n + 1 /\ n \in Nat
      /\ \A i \in 1..n : a[i] = q[i + 1]
      /\ q[1] = Head(q)
  OBVIOUS
<1> HIDE DEF a
<1>2. ASSUME NEW k \in 0..n, NEW h \in Announced(q, k + 1) PROVE h \in M \cup Announced(a, k)
  <2>1. PICK j \in 1..(k + 1) : h \in Nat /\ q[j].type = "fetched" /\ h <= q[j].h
    BY DEF Announced
  <2>2. CASE j = 1
    BY <1>1, <2>1, <2>2
  <2>3. CASE j # 1
    <3>1. j - 1 \in 1..k /\ a[j - 1] = q[j]
      BY <1>1, <2>1, <2>3
    <3> QED
      BY <2>1, <3>1 DEF Announced
  <2> QED
    BY <2>2, <2>3
<1>3. m \in M \cup Announced(a, n)
  <2>1. n \in 0..n /\ m \in N \cup Announced(q, n + 1)
    BY <1>1 DEF NoticesAhead
  <2> QED
    BY <1>2, <2>1
<1>4. ASSUME NEW i \in 1..n
      PROVE  /\ a[i].type = "disk" => a[i].h \in M \cup Announced(a, i - 1)
             /\ a[i].type = "reset" => a[i].h \in M
  <2>1. a[i] = q[i + 1] /\ i + 1 \in 1..Len(q) /\ i - 1 \in 0..n /\ (i + 1) - 1 = (i - 1) + 1
    BY <1>1
  <2>2. /\ a[i].type = "disk" => a[i].h \in N \cup Announced(q, (i - 1) + 1)
        /\ a[i].type = "reset" => a[i].h \in N
    BY <2>1 DEF NoticesAhead
  <2> QED
    BY <1>2, <2>1, <2>2
<1>5. NoticesAhead(a, m, M)
  BY <1>3, <1>4 DEF NoticesAhead
<1> QED
  BY <1>5 DEF a

\* Known and Noted are closed downwards: what lies below one of their heights is in them.
LEMMA ClosedBelow ==
    ASSUME MarkTypes
    PROVE  /\ Known \in SUBSET Nat /\ \A g, h \in Nat : h \in Known /\ g <= h => g \in Known
           /\ Noted \in SUBSET Nat /\ \A g, h \in Nat : h \in Noted /\ g <= h => g \in Noted
           /\ marks.latest \in Nat /\ marks.fetched \in Nat /\ marks.synced \in Nat
           /\ shown.latest \in Nat /\ shown.fetched \in Nat /\ shown.synced \in Nat
           /\ store.h \in Nat
<1>1. /\ marks.latest \in Nat /\ marks.fetched \in Nat /\ marks.synced \in Nat
      /\ shown.latest \in Nat /\ shown.fetched \in Nat /\ shown.synced \in Nat
      /\ store.h \in Nat /\ resumedAt \in Nat
  BY DEF MarkTypes, MarkRecords
<1> QED
  BY <1>1 DEF Known, Noted

\* A producer sends a command: heads, notices, commits of blocks in memory, resets below
\* the published cursor.
LEMMA ProducerStep ==
    ASSUME MarkInv, NEW c \in CommandRecords, Accepted(c),
           UNCHANGED <<onChain, marks, pendingHeight, store, shown, scheduledTo, resumedAt,
                       forcings, noticeLost>>,
           inMemory' \in Nat,
           \/ inMemory' = inMemory
           \/ c.type = "fetched" /\ inMemory' <= c.h /\ c.h <= scheduledTo,
           c.type = "disk" => c.h <= inMemory,
           c.type = "reset" => c.h <= shown.synced
    PROVE  MarkInv'
<1> USE DEF MarkInv
<1> DEFINE n == Len(commands)
<1>1. /\ commands' = Append(commands, c) /\ commands' \in Seq(CommandRecords)
      /\ Len(commands') = n + 1 /\ n \in Nat
      /\ \A i \in 1..n : commands'[i] = commands[i]
      /\ commands'[n + 1] = c
  BY DEF Accepted, MarkTypes
<1>2. MarkTypes' /\ c.h \in Nat
  BY <1>1 DEF MarkTypes, CommandRecords
<1> SUFFICES ASSUME forcings = 0
             PROVE  HeadLeads' /\ MarksNoted' /\ NoticesAhead(commands', inMemory', Noted')
  BY <1>2
<1>3. Known' = Known /\ Noted' = Noted
  BY DEF Known, Noted
<1>4. HeadLeads'
  <2>1. inMemory' \in Known
    <3>1. CASE inMemory' = inMemory
      BY <3>1 DEF HeadLeads
    <3>2. CASE inMemory' <= c.h /\ c.h <= scheduledTo
      <4>1. scheduledTo \in Nat /\ c.h \in Known
        BY <1>2, <3>2, ClosedBelow DEF HeadLeads, MarkTypes
      <4>2. \A g \in Nat : g <= c.h => g \in Known
        BY <1>2, <4>1, ClosedBelow
      <4> QED
        BY <3>2, <4>2
    <3> QED
      BY <3>1, <3>2
  <2>2. c.type \in {"disk", "reset"} => c.h \in Known
    BY <1>2, ClosedBelow DEF HeadLeads, MarkTypes
  <2>3. \A i \in 1..(n + 1) :
           commands'[i].type \in {"disk", "reset"} => commands'[i].h \in Known
    <3> SUFFICES ASSUME NEW i \in 1..(n + 1), commands'[i].type \in {"disk", "reset"}
                 PROVE  commands'[i].h \in Known
      OBVIOUS
    <3>1. CASE i \in 1..n
      BY <1>1, <3>1 DEF HeadLeads
    <3>2. CASE i = n + 1
      BY <1>1, <2>2, <3>2
    <3> QED
      BY <1>1, <3>1, <3>2
  <2> HIDE DEF n
  <2> QED
    BY <1>1, <1>3, <2>1, <2>3 DEF HeadLeads
<1>5. MarksNoted'
  BY <1>3 DEF MarksNoted
<1>6. c.type = "reset" => c.h \in Noted
  <2> SUFFICES ASSUME c.type = "reset" PROVE c.h \in Noted
    OBVIOUS
  <2>1. shown.synced \in Noted
    <3>1. CASE shown.synced <= shown.fetched
      BY <3>1, ClosedBelow DEF MarksNoted
    <3>2. CASE shown.synced <= resumedAt \/ noticeLost
      BY <3>2, ClosedBelow DEF Noted
    <3> QED
      BY <3>1, <3>2 DEF MarksNoted
  <2> QED
    BY <1>2, <2>1, ClosedBelow
<1>7. commands \in Seq(CommandRecords) /\ inMemory \in Nat
  BY DEF MarkTypes
<1>8. ASSUME NEW mm \in Nat, mm = inMemory \/ (c.type = "fetched" /\ mm <= c.h)
      PROVE  NoticesAhead(Append(commands, c), mm, Noted)
  BY <1>6, <1>7, <1>8, ClosedBelow, NoticesGrow
<1>9. NoticesAhead(commands', inMemory', Noted')
  BY <1>1, <1>3, <1>8
<1> QED
  BY <1>4, <1>5, <1>9

\* A worker whose notice finds the queue full.
LEMMA LostNoticeStep ==
    ASSUME MarkInv, noticeLost', inMemory' \in Nat,
           \/ inMemory' = inMemory
           \/ inMemory' <= scheduledTo,
           UNCHANGED <<onChain, commands, marks, pendingHeight, store, shown, scheduledTo,
                       resumedAt, forcings>>
    PROVE  MarkInv'
<1> USE DEF MarkInv
<1>1. MarkTypes'
  BY DEF MarkTypes
<1> SUFFICES ASSUME forcings = 0
             PROVE  HeadLeads' /\ MarksNoted' /\ NoticesAhead(commands', inMemory', Noted')
  BY <1>1
<1>2. Known' = Known /\ Noted' = Nat
  BY DEF Known, Noted
<1>3. inMemory' \in Known
  <2>1. scheduledTo \in Nat /\ scheduledTo \in Known /\ inMemory \in Known
    BY DEF HeadLeads, MarkTypes
  <2>2. \A g \in Nat : g <= scheduledTo => g \in Known
    BY <2>1, ClosedBelow
  <2> QED
    BY <2>1, <2>2
<1>4. HeadLeads'
  BY <1>2, <1>3 DEF HeadLeads
<1>5. MarksNoted'
  BY <1>2, ClosedBelow DEF MarksNoted
<1>6. NoticesAhead(commands, inMemory, Nat)
  BY NoticesKept, ClosedBelow
<1>7. NoticesAhead(commands', inMemory', Noted')
  BY <1>2, <1>6 DEF NoticesAhead
<1> QED
  BY <1>4, <1>5, <1>7

\* The first command of the queue is handled: the comparison, and the store it decides on.
LEMMA HandleCommandStep ==
    ASSUME MarkInv, HandleCommand
    PROVE  MarkInv'
<1> USE DEF MarkInv
<1> DEFINE c == Head(commands)
           q == Tail(commands)
<1>1. /\ commands \in Seq(CommandRecords) /\ commands # <<>> /\ commands' = q
      /\ q \in Seq(CommandRecords) /\ c \in CommandRecords
      /\ Len(commands) = Len(q) + 1 /\ Len(q) \in Nat
      /\ \A i \in 1..Len(q) : q[i] = commands[i + 1]
      /\ commands[1] = c
  BY DEF MarkTypes, HandleCommand
<1>2. /\ UNCHANGED <<onChain, marks, shown, scheduledTo, inMemory, resumedAt, forcings, noticeLost>>
      /\ store = NoStore
  BY DEF HandleCommand, LoopIdle
<1>3. c.h \in Nat /\ c.type \in {"height", "fetched", "disk", "reset"}
  BY <1>1 DEF CommandRecords
<1>4. /\ pendingHeight' \in {pendingHeight, c.h}
      /\ \/ store' = NoStore
         \/ c.type = "fetched" /\ store' = [mark |-> "fetched", h |-> c.h] /\ marks.fetched < c.h
         \/ c.type \in {"disk", "reset"} /\ store' = [mark |-> "synced", h |-> c.h]
      /\ c.type = "fetched" => store' = [mark |-> "fetched", h |-> c.h] \/ c.h <= marks.fetched
  <2>1. marks["fetched"] = marks.fetched /\ marks.fetched \in Nat
    BY ClosedBelow
  <2> HIDE DEF c
  <2>2. CASE c.type = "height"
    BY <1>2, <2>2 DEF HandleCommand, c
  <2>3. CASE c.type = "fetched"
    BY <1>2, <1>3, <2>1, <2>3 DEF HandleCommand, Raises, c
  <2>4. CASE c.type = "disk"
    BY <1>2, <2>4 DEF HandleCommand, c
  <2>5. CASE c.type = "reset"
    BY <1>2, <2>5 DEF HandleCommand, c
  <2> QED
    BY <1>3, <2>2, <2>3, <2>4, <2>5
<1> HIDE DEF c, q
<1>5. MarkTypes'
  <2>1. store' \in [mark : {"none", "latest", "fetched", "synced"}, h : Nat]
    BY <1>3, <1>4 DEF NoStore
  <2> QED
    BY <1>1, <1>2, <1>3, <1>4, <2>1 DEF MarkTypes
<1> SUFFICES ASSUME forcings = 0
             PROVE  HeadLeads' /\ MarksNoted' /\ NoticesAhead(commands', inMemory', Noted')
  BY <1>5, <1>2
<1>6. Known' = Known
  BY <1>2 DEF Known
<1>7. Noted \subseteq Noted'
  BY <1>2 DEF Noted, NoStore
<1>8. HeadLeads'
  <2>1. c.type \in {"disk", "reset"} => c.h \in Known
    <3>1. 1 \in 1..Len(commands)
      BY <1>1
    <3> QED
      BY <1>1, <3>1 DEF HeadLeads
  <2>2. store'.mark # "latest" /\ (store'.mark = "synced" => store'.h \in Known)
    BY <1>4, <2>1 DEF NoStore
  <2>3. \A i \in 1..Len(q) : q[i].type \in {"disk", "reset"} => q[i].h \in Known
    <3> SUFFICES ASSUME NEW i \in 1..Len(q), q[i].type \in {"disk", "reset"} PROVE q[i].h \in Known
      OBVIOUS
    <3>1. q[i] = commands[i + 1] /\ i + 1 \in 1..Len(commands)
      BY <1>1
    <3> QED
      BY <3>1 DEF HeadLeads
  <2> QED
    BY <1>1, <1>2, <1>6, <2>2, <2>3 DEF HeadLeads
<1>9. c.type \in {"disk", "reset"} => c.h \in Noted
  <2> SUFFICES ASSUME c.type \in {"disk", "reset"} PROVE c.h \in Noted
    OBVIOUS
  <2>1. 1 \in 1..Len(commands) /\ Announced(commands, 1 - 1) = {}
    BY <1>1 DEF Announced
  <2> QED
    BY <1>1, <2>1 DEF NoticesAhead
<1>10. MarksNoted'
  <2>1. store'.mark = "fetched" => marks.fetched <= store'.h
    BY <1>3, <1>4, ClosedBelow DEF NoStore
  <2>2. store'.mark = "synced" => store'.h \in Noted'
    BY <1>4, <1>7, <1>9 DEF NoStore
  <2> QED
    BY <1>2, <1>7, <2>1, <2>2 DEF MarksNoted
<1>11. c.type = "fetched" => \A h \in Nat : h <= c.h => h \in Noted'
  <2> SUFFICES ASSUME c.type = "fetched", NEW h \in Nat, h <= c.h PROVE h \in Noted'
    OBVIOUS
  <2>1. CASE store' = [mark |-> "fetched", h |-> c.h]
    BY <2>1 DEF Noted
  <2>2. CASE c.h <= marks.fetched
    <3>1. h <= marks.fetched
      BY <1>3, <2>2, ClosedBelow
    <3> QED
      BY <1>2, <3>1 DEF Noted
  <2> QED
    BY <1>4, <2>1, <2>2
<1>12. NoticesAhead(Tail(commands), inMemory, Noted')
  BY <1>1, <1>7, <1>11, NoticesShrink DEF c, MarkTypes
<1>13. NoticesAhead(commands', inMemory', Noted')
  BY <1>1, <1>2, <1>12 DEF q
<1> QED
  BY <1>8, <1>10, <1>13

\* The loop stores the mark it decided on.
LEMMA StoreMarkStep ==
    ASSUME MarkInv, StoreMark
    PROVE  MarkInv'
<1> USE DEF MarkInv
<1>1. /\ UNCHANGED <<onChain, commands, pendingHeight, shown, scheduledTo, inMemory, resumedAt,
                     forcings, noticeLost>>
      /\ store' = NoStore
  BY DEF StoreMark
<1>2. /\ store.mark \in {"none", "latest", "fetched", "synced"} /\ store.h \in Nat
      /\ marks \in MarkRecords
  BY DEF MarkTypes
<1>3. /\ marks' \in MarkRecords
      /\ store.mark = "latest" =>
            /\ marks'.latest = store.h /\ marks'.fetched = marks.fetched
            /\ marks'.synced = marks.synced
      /\ store.mark = "fetched" =>
            /\ marks'.latest = marks.latest /\ marks'.fetched = store.h
            /\ marks'.synced = marks.synced
      /\ store.mark = "synced" =>
            /\ marks'.latest = marks.latest /\ marks'.fetched = marks.fetched
            /\ marks'.synced = store.h
      /\ store.mark = "none" => marks' = marks
  <2>1. marks' = [marks EXCEPT ![store.mark] = store.h]
    BY DEF StoreMark
  <2> QED
    BY <1>2, <2>1 DEF MarkRecords
<1>4. MarkTypes'
  BY <1>1, <1>3 DEF MarkTypes, NoStore
<1> SUFFICES ASSUME forcings = 0
             PROVE  HeadLeads' /\ MarksNoted' /\ NoticesAhead(commands', inMemory', Noted')
  BY <1>4, <1>1
<1>5. Known' = Known
  BY <1>1 DEF Known
<1>6. HeadLeads'
  <2>1. shown.latest <= marks'.latest
    BY <1>2, <1>3, ClosedBelow DEF HeadLeads
  <2>2. marks'.synced \in Known
    BY <1>2, <1>3 DEF HeadLeads
  <2> QED
    BY <1>1, <1>5, <2>1, <2>2 DEF HeadLeads, NoStore
<1>7. Noted \subseteq Noted'
  <2> SUFFICES ASSUME NEW h \in Nat, h \in Noted PROVE h \in Noted'
    BY DEF Noted
  <2>0. marks.fetched \in Nat /\ store.h \in Nat /\ resumedAt \in Nat
    BY ClosedBelow DEF MarkTypes
  <2>1. CASE h <= resumedAt \/ noticeLost
    BY <1>1, <2>1 DEF Noted
  <2>2. CASE store.mark # "fetched" /\ h <= marks.fetched
    BY <1>2, <1>3, <2>2 DEF Noted
  <2>3. CASE store.mark = "fetched" /\ h <= store.h
    BY <1>3, <2>3 DEF Noted
  <2>4. CASE store.mark = "fetched" /\ h <= marks.fetched
    <3>1. marks.fetched <= store.h \/ marks.fetched <= resumedAt \/ noticeLost
      BY <2>4 DEF MarksNoted
    <3>2. h <= store.h \/ h <= resumedAt \/ noticeLost
      BY <2>0, <2>4, <3>1
    <3> QED
      BY <2>1, <2>3, <2>4, <3>2
  <2> QED
    BY <2>1, <2>2, <2>3, <2>4 DEF Noted
<1>8. MarksNoted'
  <2>1. marks'.synced \in Noted'
    BY <1>2, <1>3, <1>7 DEF MarksNoted
  <2> QED
    BY <1>1, <1>7, <2>1 DEF MarksNoted, NoStore
<1>9. NoticesAhead(commands, inMemory, Noted')
  BY <1>7, NoticesKept
<1> QED
  BY <1>1, <1>6, <1>8, <1>9

\* The marks are copied into the snapshot, with no store under way.
LEMMA UpdateSnapshotStep ==
    ASSUME MarkInv, UpdateSnapshot
    PROVE  MarkInv'
<1> USE DEF MarkInv
<1>1. /\ UNCHANGED <<onChain, commands, marks, pendingHeight, store, scheduledTo, inMemory,
                     resumedAt, forcings, noticeLost>>
      /\ shown' = marks /\ store = NoStore
  BY DEF UpdateSnapshot
<1>2. MarkTypes'
  BY <1>1 DEF MarkTypes
<1> SUFFICES ASSUME forcings = 0
             PROVE  HeadLeads' /\ MarksNoted' /\ NoticesAhead(commands', inMemory', Noted')
  BY <1>1, <1>2
<1>3. Known \subseteq Known'
  <2> SUFFICES ASSUME NEW h \in Nat, h \in Known PROVE h \in Known'
    BY DEF Known
  <2>1. h <= resumedAt \/ h <= marks.latest
    BY ClosedBelow DEF Known, HeadLeads
  <2> QED
    BY <1>1, <2>1 DEF Known
<1>4. Noted' = Noted
  BY <1>1 DEF Noted
<1>5. HeadLeads'
  BY <1>1, <1>3, ClosedBelow DEF HeadLeads, NoStore
<1>6. MarksNoted'
  <2>1. marks.fetched \in Noted
    BY ClosedBelow DEF Noted
  <2>2. marks.synced <= marks.fetched \/ marks.synced <= resumedAt \/ noticeLost
    BY <1>1 DEF MarksNoted, Noted, NoStore
  <2> QED
    BY <1>1, <1>4, <2>1, <2>2 DEF MarksNoted
<1> QED
  BY <1>1, <1>4, <1>5, <1>6

\* The self-healer's store: where it lowers the fetched height, a notice is lost; where it
\* raises it, the cursor was above the fetched height, as only a resumed one may be.
LEMMA AuditMemoryStep ==
    ASSUME MarkInv, AuditMemory
    PROVE  MarkInv'
<1> USE DEF MarkInv
<1>1. /\ UNCHANGED <<onChain, commands, pendingHeight, store, shown, scheduledTo, inMemory,
                     resumedAt, forcings>>
      /\ marks' = marks \/ marks' = [marks EXCEPT !.fetched = marks.synced]
      /\ noticeLost \/ marks'.fetched < marks.fetched => noticeLost'
  <2>1. noticeLost' = (noticeLost \/ marks'.fetched < marks.fetched)
    BY DEF AuditMemory
  <2>2. noticeLost \/ marks'.fetched < marks.fetched => noticeLost'
    BY <2>1, Zenon
  <2> QED
    BY <2>2 DEF AuditMemory
<1>2. /\ marks' \in MarkRecords /\ marks'.latest = marks.latest /\ marks'.synced = marks.synced
      /\ marks'.fetched \in {marks.fetched, marks.synced}
  BY <1>1 DEF MarkTypes, MarkRecords
<1>3. MarkTypes'
  BY <1>1, <1>2 DEF MarkTypes
<1> SUFFICES ASSUME forcings = 0
             PROVE  HeadLeads' /\ MarksNoted' /\ NoticesAhead(commands', inMemory', Noted')
  BY <1>1, <1>3
<1>4. HeadLeads'
  BY <1>1, <1>2 DEF HeadLeads, Known
<1> DEFINE f == marks'.fetched
<1>5. /\ f \in Nat /\ marks.fetched \in Nat /\ marks.synced \in Nat /\ store.h \in Nat
      /\ resumedAt \in Nat
  BY <1>2, ClosedBelow DEF MarkTypes
<1>6. f < marks.fetched => noticeLost'
  BY <1>1
<1>7. Noted \subseteq Noted'
  <2> SUFFICES ASSUME NEW h \in Nat, h \in Noted PROVE h \in Noted'
    BY DEF Noted
  <2>1. h <= marks.fetched => h <= f \/ noticeLost'
    <3> HIDE DEF f
    <3> QED
      BY <1>5, <1>6
  <2> QED
    BY <1>1, <2>1 DEF Noted
<1>8. MarksNoted'
  <2>1. store.mark = "fetched" => f <= store.h \/ f <= resumedAt \/ noticeLost'
    <3> SUFFICES ASSUME store.mark = "fetched" PROVE f <= store.h \/ f <= resumedAt \/ noticeLost'
      OBVIOUS
    <3>1. CASE f = marks.fetched
      BY <1>1, <3>1 DEF MarksNoted
    <3>2. CASE f = marks.synced
      <4>1. \/ marks.synced <= resumedAt \/ marks.synced <= marks.fetched
            \/ marks.synced <= store.h \/ noticeLost
        BY DEF MarksNoted, Noted
      <4>2. CASE marks.synced <= marks.fetched
        <5>1. f = marks.fetched \/ f < marks.fetched
          <6> HIDE DEF f
          <6> QED
            BY <1>5, <3>2, <4>2
        <5> QED
          BY <1>6, <3>1, <5>1
      <4> QED
        BY <1>1, <3>2, <4>1, <4>2
    <3> QED
      BY <1>2, <3>1, <3>2
  <2>2. marks'.synced \in Noted' /\ shown.fetched \in Noted'
    BY <1>2, <1>7 DEF MarksNoted
  <2> QED
    BY <1>1, <1>7, <2>1, <2>2 DEF MarksNoted
<1>9. NoticesAhead(commands, inMemory, Noted')
  BY <1>7, NoticesKept
<1> QED
  BY <1>1, <1>4, <1>8, <1>9

\* Every step keeps the invariant.
LEMMA MarkNextInv ==
    ASSUME MarkInv, [MarkNext]_markVars
    PROVE  MarkInv'
<1> USE DEF MarkInv
<1>0. /\ 1..MarkHeight \subseteq Nat /\ MarkHeights \subseteq Nat
  BY WatermarksAssumption DEF MarkHeights
<1>1. CASE /\ UNCHANGED <<commands, marks, pendingHeight, store, shown, scheduledTo, inMemory,
                          resumedAt, forcings, noticeLost>>
           /\ onChain' \in Nat
  <2>1. MarkTypes'
    BY <1>1 DEF MarkTypes
  <2>2. Known' = Known /\ Noted' = Noted
    BY <1>1 DEF Known, Noted
  <2> QED
    BY <1>1, <2>1, <2>2 DEF HeadLeads, MarksNoted
<1>2. onChain \in Nat
  BY DEF MarkTypes
<1>3. CASE HeadGrows
  BY <1>1, <1>2, <1>3 DEF HeadGrows
<1>4. CASE BeginAudit \/ AuditChain
  BY <1>1, <1>2, <1>4 DEF BeginAudit, AuditChain
<1>5. ASSUME NEW crowded \in BOOLEAN, EvaluateSystemState(crowded) PROVE MarkInv'
  BY <1>1, <1>2, <1>5 DEF EvaluateSystemState
<1>6. CASE UNCHANGED markVars
  BY <1>1, <1>2, <1>6 DEF markVars
<1>7. ASSUME NEW h \in 1..MarkHeight, UpdateChainHead(h) PROVE MarkInv'
  <2> DEFINE c == [type |-> "height", h |-> h]
  <2>1. c \in CommandRecords
    BY <1>0 DEF CommandRecords
  <2>2. inMemory' \in Nat
    BY <1>7 DEF UpdateChainHead, MarkTypes
  <2> QED
    BY <1>7, <2>1, <2>2, ProducerStep DEF UpdateChainHead
<1>8. ASSUME NEW h \in 1..MarkHeight, CommitDisk(h) PROVE MarkInv'
  <2> DEFINE c == [type |-> "disk", h |-> h]
  <2>1. c \in CommandRecords
    BY <1>0 DEF CommandRecords
  <2>2. inMemory' \in Nat
    BY <1>8 DEF CommitDisk, MarkTypes
  <2> QED
    BY <1>8, <2>1, <2>2, ProducerStep DEF CommitDisk
<1>9. ASSUME NEW h \in MarkHeights, ResetCursor(h) PROVE MarkInv'
  <2> DEFINE c == [type |-> "reset", h |-> h]
  <2>1. c \in CommandRecords
    BY <1>0 DEF CommandRecords
  <2>2. inMemory' \in Nat
    BY <1>9 DEF ResetCursor, MarkTypes
  <2>3. h \in Nat /\ h <= shown.synced
    BY <1>0, <1>9, ClosedBelow DEF ResetCursor
  <2> QED
    BY <1>9, <2>1, <2>2, <2>3, ProducerStep DEF ResetCursor
<1>10. ASSUME NEW h \in 1..MarkHeight, NotifyFetched(h) PROVE MarkInv'
  <2> DEFINE c == [type |-> "fetched", h |-> h]
  <2>1. c \in CommandRecords /\ h \in Nat
    BY <1>0 DEF CommandRecords
  <2>2. inMemory' \in Nat /\ (inMemory' = inMemory \/ inMemory' = h) /\ h <= scheduledTo
    BY <1>10, <2>1 DEF NotifyFetched, MarkTypes
  <2>3. CASE Accepted(c) /\ UNCHANGED noticeLost
    BY <1>10, <2>1, <2>2, <2>3, ProducerStep DEF NotifyFetched
  <2>4. CASE Lost /\ noticeLost' = TRUE
    BY <1>10, <2>2, <2>4, LostNoticeStep DEF NotifyFetched, Lost
  <2> QED
    BY <1>10, <2>3, <2>4 DEF NotifyFetched
<1>11. ASSUME NEW h \in 1..MarkHeight, ScheduleUpTo(h) PROVE MarkInv'
  <2>1. /\ UNCHANGED <<onChain, commands, marks, pendingHeight, store, shown, inMemory, resumedAt,
                       forcings, noticeLost>>
        /\ scheduledTo' = h /\ h \in Nat /\ h <= shown.latest
    BY <1>0, <1>11 DEF ScheduleUpTo
  <2>2. MarkTypes' /\ h \in Known
    BY <2>1 DEF MarkTypes, Known
  <2>3. Known' = Known /\ Noted' = Noted
    BY <2>1 DEF Known, Noted
  <2> QED
    BY <2>1, <2>2, <2>3 DEF HeadLeads, MarksNoted
<1>12. CASE FlushPendingHeight
  <2>1. /\ UNCHANGED <<onChain, commands, marks, shown, scheduledTo, inMemory, resumedAt, forcings,
                       noticeLost>>
        /\ store = NoStore /\ pendingHeight' = 0 /\ pendingHeight \in Nat
        /\ \/ store' = NoStore
           \/ store' = [mark |-> "latest", h |-> pendingHeight] /\ marks.latest < pendingHeight
    BY <1>12 DEF FlushPendingHeight, LoopIdle, Raises, MarkTypes
  <2>2. MarkTypes'
    <3>1. store' \in [mark : {"none", "latest", "fetched", "synced"}, h : Nat]
      BY <2>1 DEF NoStore
    <3> QED
      BY <2>1, <3>1 DEF MarkTypes
  <2>3. Known' = Known /\ Noted' = Noted
    BY <2>1 DEF Known, Noted, NoStore
  <2>4. /\ store'.mark \in {"none", "latest"}
        /\ store'.mark = "latest" => marks.latest <= store'.h
    BY <2>1, ClosedBelow DEF NoStore
  <2> QED
    BY <2>1, <2>2, <2>3, <2>4 DEF HeadLeads, MarksNoted
<1>13. ASSUME NEW h \in 1..MarkHeight, ForceMarks(h) PROVE MarkInv'
  <2>1. h \in Nat /\ forcings' \in Nat /\ forcings' # 0
    BY <1>0, <1>13 DEF ForceMarks, MarkTypes
  <2>2. MarkTypes'
    BY <1>13, <2>1 DEF ForceMarks, MarkTypes, MarkRecords
  <2> QED
    BY <2>1, <2>2
<1> QED
  BY <1>3, <1>4, <1>5, <1>6, <1>7, <1>8, <1>9, <1>10, <1>11, <1>12, <1>13, HandleCommandStep,
     StoreMarkStep, UpdateSnapshotStep, AuditMemoryStep
     DEF MarkNext

\* However the loop, the merge ticker, the producers and the self-healer interleave, the
\* published cursor passes the published head or the fetched height only as the property
\* says, for any length of the chain and any capacity of cmdChan.
THEOREM PublishedOrder == MarkSpec => []WatermarksOrdered
<1>1. MarkInv => WatermarksOrdered
  BY DEF MarkInv, HeadLeads, MarksNoted, Known, WatermarksOrdered
<1> QED
  BY <1>1, MarkInitInv, MarkNextInv, PTL DEF MarkSpec

(***************************************************************************)
(* The traffic generators                                                  *)
(***************************************************************************)
EmulatorSteps == {"funding", "deploying", "receipt", "idle", "transferring", "ended"}

\* The numbers in use, and which step holds one: none between two transfers.
NonceTypes ==
    /\ mined \in 0..NoNonce
    /\ mempool \in SUBSET Nonces
    /\ emulator \in EmulatorSteps
    /\ nonce \in Nonces \cup {NoNonce}
    /\ emulator \in {"deploying", "transferring", "receipt"} => nonce \in Nonces
    /\ emulator \in {"funding", "idle"} => nonce = NoNonce
    /\ pendingNonce \in 0..NoNonce
    /\ simNonce \in 0..NoNonce

\* The node's answer: the account's next number, or behind transactions it has.
LEMMA PendingNonceFact ==
    ASSUME NonceTypes
    PROVE  /\ PendingNonceAt \in mined..NoNonce
           /\ PendingNonceAt \notin mempool
           /\ \A k \in mined..(PendingNonceAt - 1) : k \in mempool
<1> USE TrafficAssumption DEF NonceTypes, NoNonce, Nonces
<1> DEFINE Free == {n \in mined..NoNonce : n \notin mempool}
<1>1. NoNonce \in Free /\ Free \in SUBSET Nat
  OBVIOUS
<1>2. PICK n \in Free : \A m \in Free : n <= m
  BY <1>1, LeastNatural
<1>3. \A k \in mined..(n - 1) : k \in mempool
  BY <1>2
<1>4. \E m \in mined..NoNonce : m \notin mempool /\ \A k \in mined..(m - 1) : k \in mempool
  BY <1>2, <1>3
<1> QED
  BY <1>4 DEF PendingNonceAt

TrafficInv == NonceTypes /\ GapsAreAbandoned

\* The gap condition, number by number.
LEMMA GapsByNumber ==
    GapsAreAbandoned <=>
       (emulator # "ended" => \A k \in mined..(pendingNonce - 1) :
                                 k \in mempool \/ k \in leaked \/ k = nonce)
  BY DEF GapsAreAbandoned

\* The invariant holds before the emulator has sent anything.
LEMMA TrafficInitInv == TrafficInit => TrafficInv
<1> SUFFICES ASSUME TrafficInit PROVE TrafficInv
  OBVIOUS
<1>1. NonceTypes
  BY TrafficAssumption DEF TrafficInit, NonceTypes, Nonces, NoNonce, EmulatorSteps
<1>2. GapsAreAbandoned
  BY DEF TrafficInit, GapsAreAbandoned
<1> QED
  BY <1>1, <1>2 DEF TrafficInv

\* Whatever the node answers to a number in use, it forgets none.
LEMMA AnswersFact ==
    ASSUME NonceTypes, NEW n \in Nonces, NEW answer, Answers(n, answer)
    PROVE  /\ mempool' \in SUBSET Nonces /\ mempool \subseteq mempool'
           /\ answer = "ok" => n \in mempool'
           /\ answer = "known" => n \in mempool'
           /\ answer = "low" => n < mined
  BY DEF NonceTypes, Answers

\* A step that keeps the account's number and forgets no transaction, and at most lowers
\* the emulator's counter or takes the node's answer for it: gaps are left only by the
\* number the emulator lets go of.
LEMMA LettingGo ==
    ASSUME TrafficInv, UNCHANGED <<mined, leaked>>, mempool \subseteq mempool',
           emulator # "ended" \/ emulator' = "ended",
           \/ UNCHANGED nonce
           \/ nonce \notin mined..(pendingNonce' - 1)
           \/ nonce \in mempool',
           pendingNonce' \in Int,
           \/ pendingNonce' <= pendingNonce
           \/ \A k \in mined..(pendingNonce' - 1) : k \in mempool
    PROVE  GapsAreAbandoned'
<1> SUFFICES ASSUME emulator' # "ended", NEW k \in mined..(pendingNonce' - 1)
             PROVE  k \in mempool' \/ k \in leaked \/ k = nonce'
  BY DEF GapsAreAbandoned
<1>1. CASE \A m \in mined..(pendingNonce' - 1) : m \in mempool
  BY <1>1
<1>2. CASE pendingNonce' <= pendingNonce
  <2>1. k \in mined..(pendingNonce - 1)
    <3> DEFINE p == pendingNonce'
    <3>1. mined \in Int /\ pendingNonce \in Int
      BY TrafficAssumption DEF TrafficInv, NonceTypes, NoNonce
    <3>2. p \in Int /\ p <= pendingNonce /\ k \in mined..(p - 1)
      BY <1>2
    <3> HIDE DEF p
    <3> QED
      BY <3>1, <3>2
  <2>2. k \in mempool \/ k \in leaked \/ k = nonce
    BY <2>1, GapsByNumber DEF TrafficInv
  <2> QED
    BY <2>2
<1> QED
  BY <1>1, <1>2

\* Mining takes a run of numbers without a gap.
LEMMA MineInv == ASSUME TrafficInv, Mine PROVE TrafficInv'
<1> USE TrafficAssumption DEF TrafficInv, Mine
<1>1. mined' \in mined..NoNonce
  BY PendingNonceFact
<1>2. NonceTypes'
  BY <1>1 DEF NonceTypes, NoNonce, Nonces
<1>3. GapsAreAbandoned'
  <2> SUFFICES ASSUME emulator # "ended", NEW k \in mined'..(pendingNonce - 1)
               PROVE  k \in mempool' \/ k \in leaked \/ k = nonce
    BY DEF GapsAreAbandoned
  <2>1. k \in mined..(pendingNonce - 1) /\ k \notin 0..(mined' - 1)
    BY <1>1 DEF NonceTypes, NoNonce
  <2> QED
    BY <2>1, GapsByNumber
<1> QED
  BY <1>2, <1>3

\* A new number: everything between the old counter and it is with the node.
LEMMA GetNextNonceInv ==
    ASSUME TrafficInv, NEW asked \in BOOLEAN, GetNextNonce(asked)
    PROVE  TrafficInv'
<1> DEFINE p == NextNonce(asked)
<1> USE TrafficAssumption DEF TrafficInv, GetNextNonce
<1>1. p = pendingNonce \/ p = PendingNonceAt
  BY DEF NextNonce
<1>2. p \in Nonces /\ nonce' = p /\ pendingNonce' = p + 1 /\ nonce = NoNonce
  BY DEF NonceTypes
<1> HIDE DEF p
<1>3. NonceTypes'
  <2>1. emulator' \in {"deploying", "transferring"}
    OBVIOUS
  <2> QED
    BY <1>2, <2>1 DEF NonceTypes, NoNonce, Nonces, EmulatorSteps
<1>4. GapsAreAbandoned'
  <2> SUFFICES ASSUME NEW k \in mined..p PROVE k \in mempool \/ k \in leaked \/ k = p
    BY <1>2 DEF GapsAreAbandoned, Nonces
  <2>1. CASE k = p
    BY <2>1
  <2>2. CASE p = PendingNonceAt /\ k # p
    BY <2>2, <1>2, PendingNonceFact DEF NonceTypes, NoNonce, Nonces
  <2>3. CASE p = pendingNonce /\ k # p
    <3>1. k \in mined..(pendingNonce - 1) /\ k # NoNonce /\ emulator # "ended"
      BY <2>3, <1>2 DEF NonceTypes, NoNonce, Nonces
    <3> QED
      BY <3>1, <1>2, GapsByNumber
  <2> QED
    BY <1>1, <2>1, <2>2, <2>3
<1> QED
  BY <1>3, <1>4

\* Every step of the emulator, the simulator and the node keeps the invariant.
LEMMA TrafficNextInv == ASSUME TrafficInv, [TrafficNext]_trafficVars PROVE TrafficInv'
<1> USE TrafficAssumption DEF TrafficInv
<1>0. NoNonce \notin Nonces /\ 0 \in 0..NoNonce
  BY DEF NoNonce, Nonces
<1>1. CASE GiveUpBeforeSend
  <2>1. NonceTypes'
    BY <1>1, <1>0 DEF GiveUpBeforeSend, NonceTypes, EmulatorSteps
  <2>2. GapsAreAbandoned'
    BY <1>1, GapsByNumber DEF GiveUpBeforeSend, GapsAreAbandoned
  <2> QED
    BY <2>1, <2>2
<1>2. CASE EmulatorStops
  BY <1>2 DEF EmulatorStops, NonceTypes, EmulatorSteps, GapsAreAbandoned
<1>3. CASE StopSimulator
  BY <1>3 DEF StopSimulator, NonceTypes, GapsAreAbandoned
<1>4. ASSUME NEW found \in BOOLEAN, DeployReceipt(found) PROVE TrafficInv'
  <2>1. NonceTypes'
    BY <1>4, <1>0 DEF DeployReceipt, NonceTypes, EmulatorSteps
  <2>2. emulator' # "ended" => nonce < mined
    BY <1>4 DEF DeployReceipt
  <2>3. GapsAreAbandoned'
    <3>1. CASE emulator' = "ended"
      BY <3>1 DEF GapsAreAbandoned
    <3>2. CASE emulator' # "ended"
      <4>1. nonce \notin mined..(pendingNonce - 1)
        BY <2>2, <3>2 DEF NonceTypes, NoNonce, Nonces
      <4> QED
        BY <4>1, <1>4, GapsByNumber DEF DeployReceipt, GapsAreAbandoned
    <3> QED
      BY <3>1, <3>2
  <2> QED
    BY <2>1, <2>3
<1>5. ASSUME NEW answered \in BOOLEAN, StartSimulator(answered) PROVE TrafficInv'
  BY <1>5 DEF StartSimulator, NonceTypes, GapsAreAbandoned
<1>6. ASSUME NEW n \in Nonces, NEW found \in BOOLEAN, WaitForReceipt(n, found) PROVE TrafficInv'
  BY <1>6 DEF WaitForReceipt, NonceTypes, GapsAreAbandoned
<1>7. ASSUME NEW answer \in {"ok", "low", "known", "error"}, DeployContract(answer)
      PROVE  TrafficInv'
  <2>1. nonce \in Nonces /\ Answers(nonce, answer)
    BY <1>7 DEF DeployContract, NonceTypes
  <2>2. mempool' \in SUBSET Nonces /\ mempool \subseteq mempool'
    BY <2>1, AnswersFact
  <2>3. pendingNonce' \in 0..NoNonce
    <3>1. PendingNonceAt \in 0..NoNonce
      BY PendingNonceFact DEF NonceTypes, NoNonce
    <3> QED
      BY <1>7, <3>1 DEF DeployContract, ResyncNonce, NonceTypes
  <2>4. NonceTypes'
    BY <1>0, <1>7, <2>1, <2>2, <2>3 DEF DeployContract, NonceTypes, EmulatorSteps
  <2>5. GapsAreAbandoned'
    <3>1. CASE answer = "ok"
      BY <3>1, <1>7, <2>2, GapsByNumber DEF DeployContract, GapsAreAbandoned
    <3>2. CASE answer # "ok"
      BY <3>2, <1>7 DEF DeployContract, GapsAreAbandoned
    <3> QED
      BY <3>1, <3>2
  <2> QED
    BY <2>4, <2>5
<1>8. ASSUME NEW answer \in {"ok", "low", "known", "error"}, SendTransfer(answer) PROVE TrafficInv'
  <2>1. nonce \in Nonces /\ Answers(nonce, answer)
    BY <1>8 DEF SendTransfer, NonceTypes
  <2>2. /\ mempool' \in SUBSET Nonces /\ mempool \subseteq mempool'
        /\ answer \in {"ok", "known"} => nonce \in mempool'
        /\ answer = "low" => nonce < mined
    BY <2>1, AnswersFact
  <2>3. /\ pendingNonce' \in 0..NoNonce
        /\ \/ pendingNonce' <= pendingNonce
           \/ \A k \in mined..(pendingNonce' - 1) : k \in mempool
    <3>1. PendingNonceAt \in 0..NoNonce
      BY PendingNonceFact DEF NonceTypes, NoNonce
    <3>2. CASE answer \in {"low", "known"}
      <4>1. pendingNonce' \in {PendingNonceAt, pendingNonce}
        BY <1>8, <3>2 DEF SendTransfer, ResyncNonce
      <4>2. CASE pendingNonce' = PendingNonceAt
        BY <3>1, <4>2, PendingNonceFact
      <4>3. CASE pendingNonce' = pendingNonce
        BY <4>3 DEF NonceTypes, NoNonce
      <4> QED
        BY <4>1, <4>2, <4>3
    <3>3. CASE answer = "ok"
      BY <1>8, <3>3 DEF SendTransfer, NonceTypes, NoNonce
    <3>4. CASE answer = "error"
      BY <1>8, <2>1, <3>4 DEF SendTransfer, RollbackNonce, NonceTypes, NoNonce, Nonces
    <3> QED
      BY <3>2, <3>3, <3>4
  <2>4. NonceTypes'
    BY <1>0, <1>8, <2>1, <2>2, <2>3 DEF SendTransfer, NonceTypes, EmulatorSteps
  <2>5. nonce \notin mined..(pendingNonce' - 1) \/ nonce \in mempool'
    <3>1. nonce \in Int /\ mined \in Int /\ pendingNonce \in Int
      BY <2>1 DEF NonceTypes, NoNonce, Nonces
    <3>2. CASE answer = "low"
      <4>1. nonce < mined
        BY <2>2, <3>2
      <4> QED
        BY <3>1, <4>1
    <3>3. CASE answer = "error"
      <4> DEFINE p == pendingNonce'
      <4>1. p \in Int /\ p <= nonce
        BY <1>8, <3>1, <3>3 DEF SendTransfer, RollbackNonce
      <4> HIDE DEF p
      <4>2. nonce \notin mined..(p - 1)
        BY <3>1, <4>1
      <4> QED
        BY <4>2 DEF p
    <3> QED
      BY <2>2, <3>2, <3>3
  <2>6. GapsAreAbandoned'
    <3>1. pendingNonce' \in Int
      BY <2>3 DEF NoNonce
    <3> QED
      BY <1>8, <2>2, <2>3, <2>5, <3>1, LettingGo DEF SendTransfer
  <2> QED
    BY <2>4, <2>6
<1>9. ASSUME NEW answer \in {"ok", "low", "known", "error"}, NEW answered \in BOOLEAN,
             ExecuteChaosAction(answer, answered)
      PROVE  TrafficInv'
  <2>1. mempool' \in SUBSET Nonces /\ mempool \subseteq mempool'
    BY <1>9, AnswersFact DEF ExecuteChaosAction
  <2>2. simNonce' \in 0..NoNonce
    BY <1>9 DEF ExecuteChaosAction, NonceTypes, Nonces, NoNonce
  <2>3. NonceTypes'
    BY <1>9, <2>1, <2>2 DEF ExecuteChaosAction, NonceTypes
  <2>4. GapsAreAbandoned'
    BY <1>9, <2>1, GapsByNumber DEF ExecuteChaosAction, GapsAreAbandoned
  <2> QED
    BY <2>3, <2>4
<1>10. CASE UNCHANGED trafficVars
  BY <1>10 DEF trafficVars, NonceTypes, GapsAreAbandoned
<1> QED
  BY <1>1, <1>2, <1>3, <1>4, <1>5, <1>6, <1>7, <1>8, <1>9, <1>10, MineInv, GetNextNonceInv
     DEF TrafficNext

\* While the emulator works, the numbers missing below its counter are the one it is
\* sending and those given up before a send, for every bound and sync interval.
THEOREM EmulatorGaps == TrafficSpec => []GapsAreAbandoned
<1>1. TrafficInv => GapsAreAbandoned
  BY DEF TrafficInv
<1> QED
  BY <1>1, TrafficInitInv, TrafficNextInv, PTL DEF TrafficSpec

(***************************************************************************)
(* What is stored of a block                                               *)
(***************************************************************************)
\* What the two paths find in the block's transactions.
BlockFinds == [t \in DOMAIN txs |-> BlockDetects(t)]
BatchFinds == [t \in DOMAIN txs |-> BatchDetects(t)]

\* The block's own activities, by path: everything but mocks.
BlockReal == LogActivities \cup TxActivities(BlockFinds)
BatchReal == LogActivities \cup TxActivities(BatchFinds)

ExtractTypes ==
    /\ txs \in Seq(Transactions)
    /\ logTx \in [0..(MaxLogs - 1) -> Nat]
    /\ localChain \in BOOLEAN

NoKnownSender == \A t \in DOMAIN txs : ~txs[t].known

LogsStayLow == \A i \in DOMAIN logTx : i >= SyntheticBase => logTx[i] = 0

\* The rows of a block without known senders are mocks or found in the block, and once
\* there are any, every index the block's activities use is taken, or there is a mock.
RowsOfBlock ==
    NoKnownSender =>
       /\ \A r \in rows : r.symbol = "mock" \/ r \in BatchReal
       /\ \/ rows = {}
          \/ \E r \in rows : r.symbol = "mock"
          \/ \A a \in BatchReal : \E r \in rows : r.idx = a.idx

ExtractInv == ExtractTypes /\ StoredCompletely /\ RowsOfBlock

\* What the detectors say is never "mock" or "token".
LEMMA DetectedSymbols ==
    /\ \A t \in DOMAIN txs : BlockFinds[t] \in {"faucet", "EVM", "ETH", "nothing"}
    /\ \A t \in DOMAIN txs : BatchFinds[t] \in {"faucet", "EVM", "ETH", "nothing"}
  BY DEF BlockFinds, BatchFinds, BlockDetects, BatchDetects

\* The synthetic indices of two transactions found differ.
LEMMA SyntheticApart ==
    ASSUME NEW detected, NEW t \in Nat \ {0}, NEW u \in Nat \ {0}, t < u,
           detected[t] # "nothing"
    PROVE  /\ SyntheticIndex(t, detected) # SyntheticIndex(u, detected)
           /\ SyntheticIndex(t, detected) >= SyntheticBase
           /\ SyntheticIndex(u, detected) >= SyntheticBase
<1> DEFINE Found(k) == {v \in 1..(k - 1) : detected[v] # "nothing"}
<1>1. ASSUME NEW k \in Nat \ {0} PROVE IsFiniteSet(Found(k)) /\ Cardinality(Found(k)) \in Nat
  <2>1. IsFiniteSet(1..(k - 1))
    BY FS_Interval
  <2>2. Found(k) \subseteq 1..(k - 1)
    OBVIOUS
  <2> HIDE DEF Found
  <2> QED
    BY <2>1, <2>2, FS_Subset, FS_CardinalityType
<1>2. t \in Found(u) /\ t \notin Found(t) /\ Found(t) \cup {t} \subseteq Found(u)
  OBVIOUS
<1>3. SyntheticIndex(t, detected) = SyntheticBase + Cardinality(Found(t))
  BY DEF SyntheticIndex
<1>4. SyntheticIndex(u, detected) = SyntheticBase + Cardinality(Found(u))
  BY DEF SyntheticIndex
<1> HIDE DEF Found
<1>5. Cardinality(Found(t) \cup {t}) = Cardinality(Found(t)) + 1
  BY <1>1, <1>2, FS_AddElement
<1>6. Cardinality(Found(t) \cup {t}) <= Cardinality(Found(u))
  BY <1>1, <1>2, FS_Subset
<1> DEFINE a == Cardinality(Found(t))
           b == Cardinality(Found(u))
<1>7. a \in Nat /\ b \in Nat /\ a + 1 <= b /\ SyntheticBase \in Nat
  BY <1>1, <1>5, <1>6, ExtractionAssumption
<1> HIDE DEF a, b
<1>8. /\ SyntheticBase + a # SyntheticBase + b /\ SyntheticBase + a >= SyntheticBase
      /\ SyntheticBase + b >= SyntheticBase
  BY <1>7
<1> QED
  BY <1>3, <1>4, <1>8 DEF a, b

\* A synthetic index is one.
LEMMA SyntheticHigh ==
    ASSUME NEW detected, NEW t \in Nat \ {0}
    PROVE  SyntheticIndex(t, detected) \in Nat /\ SyntheticIndex(t, detected) >= SyntheticBase
<1> DEFINE F == {v \in 1..(t - 1) : detected[v] # "nothing"}
<1>1. IsFiniteSet(1..(t - 1))
  BY FS_Interval
<1>2. F \subseteq 1..(t - 1)
  OBVIOUS
<1>3. SyntheticIndex(t, detected) = SyntheticBase + Cardinality(F)
  BY DEF SyntheticIndex
<1> HIDE DEF F
<1>4. Cardinality(F) \in Nat
  BY <1>1, <1>2, FS_Subset, FS_CardinalityType
<1> QED
  BY <1>3, <1>4, ExtractionAssumption

\* A log, or a transaction found: what an activity of either path is.
LEMMA RealActivity ==
    ASSUME ExtractTypes, NEW detected, NEW a \in LogActivities \cup TxActivities(detected),
           \A t \in DOMAIN txs : detected[t] \in {"faucet", "EVM", "ETH", "nothing"}
    PROVE  \/ /\ a.symbol = "token" /\ a \in LogActivities
              /\ a.idx \in DOMAIN logTx /\ logTx[a.idx] # 0
              /\ a = Activity(a.idx, logTx[a.idx], "token")
           \/ /\ a.symbol \in {"faucet", "EVM", "ETH"} /\ a.tx \in Nat \ {0}
              /\ detected[a.tx] # "nothing" /\ a.idx = SyntheticIndex(a.tx, detected)
              /\ a = Activity(SyntheticIndex(a.tx, detected), a.tx, detected[a.tx])
<1>1. CASE a \in LogActivities
  BY <1>1 DEF LogActivities, Activity
<1>2. CASE a \in TxActivities(detected)
  <2>1. PICK t \in DOMAIN txs : /\ detected[t] # "nothing"
                                /\ a = Activity(SyntheticIndex(t, detected), t, detected[t])
    BY <1>2 DEF TxActivities
  <2>2. t \in Nat \ {0}
    BY DEF ExtractTypes
  <2>3. a.symbol = detected[t] /\ a.tx = t /\ a.idx = SyntheticIndex(t, detected)
    BY <2>1 DEF Activity
  <2> QED
    BY <2>1, <2>2, <2>3
<1> QED
  BY <1>1, <1>2

\* An activity with an earlier one of its index is a transaction's, the earlier one a log's,
\* and its index not that low.
LEMMA OnlyLogsPrecede ==
    ASSUME ExtractTypes, NEW detected,
           \A t \in DOMAIN txs : detected[t] \in {"faucet", "EVM", "ETH", "nothing"},
           NEW a \in LogActivities \cup TxActivities(detected),
           NEW b \in LogActivities \cup TxActivities(detected),
           b.idx = a.idx, Precedes(b, a)
    PROVE  b \in LogActivities /\ b.symbol = "token" /\ ~LogsStayLow
<1>1. a.symbol # "token"
  BY DEF Precedes
<1>2. /\ a.symbol \in {"faucet", "EVM", "ETH"} /\ a.tx \in Nat \ {0}
      /\ detected[a.tx] # "nothing" /\ a.idx = SyntheticIndex(a.tx, detected)
  BY <1>1, RealActivity
<1>3. CASE b.symbol = "token"
  <2>1. b \in LogActivities /\ b.idx \in DOMAIN logTx /\ logTx[b.idx] # 0
    BY <1>3, RealActivity
  <2>2. b.idx >= SyntheticBase
    BY <1>2, SyntheticHigh
  <2> QED
    BY <1>3, <2>1, <2>2 DEF LogsStayLow
<1>4. CASE b.symbol # "token"
  <2>1. /\ b.tx \in Nat \ {0} /\ detected[b.tx] # "nothing"
        /\ b.idx = SyntheticIndex(b.tx, detected)
    BY <1>4, RealActivity
  <2>2. b.tx < a.tx
    BY <1>4 DEF Precedes
  <2> QED
    BY <1>2, <2>1, <2>2, SyntheticApart
<1> QED
  BY <1>3, <1>4

\* An empty table takes a block's activities, all of them if no log reaches the synthetic
\* indices, and an index of each in any case.
LEMMA FirstInsert ==
    ASSUME ExtractTypes, NEW detected,
           \A t \in DOMAIN txs : detected[t] \in {"faucet", "EVM", "ETH", "nothing"},
           rows = {}, Insert(LogActivities \cup TxActivities(detected))
    PROVE  /\ LogsStayLow => LogActivities \cup TxActivities(detected) \subseteq rows'
           /\ \A a \in LogActivities \cup TxActivities(detected) : \E r \in rows' : r.idx = a.idx
<1> DEFINE R == LogActivities \cup TxActivities(detected)
<1>1. rows' = {a \in R : \A b \in R : b.idx = a.idx => ~Precedes(b, a)}
  BY DEF Insert
<1>2. ASSUME LogsStayLow, NEW a \in R PROVE a \in rows'
  BY <1>1, <1>2, OnlyLogsPrecede
<1>3. ASSUME NEW a \in R PROVE \E r \in rows' : r.idx = a.idx
  <2>1. CASE a \in rows'
    BY <2>1
  <2>2. CASE a \notin rows'
    <3>1. PICK b \in R : b.idx = a.idx /\ Precedes(b, a)
      BY <1>1, <2>2
    <3>2. b.symbol = "token"
      BY <3>1, OnlyLogsPrecede
    <3>3. \A c \in R : c.idx = b.idx => ~Precedes(c, b)
      <4> SUFFICES ASSUME NEW c \in R, c.idx = b.idx, Precedes(c, b) PROVE FALSE
        OBVIOUS
      <4> QED
        BY <3>2 DEF Precedes
    <3> QED
      BY <1>1, <3>1, <3>3
  <2> QED
    BY <2>1, <2>2
<1> QED
  BY <1>2, <1>3

\* The mock transfers all fit into an empty table.
LEMMA MocksInsert ==
    ASSUME rows = {}, NEW M, Insert(M), \A a \in M : a.symbol = "mock" /\ a.tx = 0
    PROVE  rows' = M
  BY DEF Insert, Precedes

\* Without known senders the paths find the same.
LEMMA PathsAgree == NoKnownSender => BlockReal = BatchReal
<1> SUFFICES ASSUME NoKnownSender PROVE BlockFinds = BatchFinds
  BY DEF BlockReal, BatchReal
<1>1. \A t \in DOMAIN txs : BlockDetects(t) = BatchDetects(t)
  BY DEF NoKnownSender, BlockDetects, BatchDetects
<1> QED
  BY <1>1 DEF BlockFinds, BatchFinds

\* Each path inserts the block's own activities, or mocks where there are none.
LEMMA PathsInsert ==
    /\ \A mocks \in 2..5 :
          BlockActivities(mocks) = IF BlockReal = {} /\ localChain
                                   THEN {Activity(MockBase + m - 1, 0, "mock") : m \in 1..mocks}
                                   ELSE BlockReal
    /\ BatchActivities = IF BatchReal = {} /\ localChain
                         THEN {Activity(MockLast, 0, "mock")} ELSE BatchReal
  BY DEF BlockActivities, BatchActivities, BlockReal, BatchReal, BlockFinds, BatchFinds

\* The block itself does not change.
LEMMA SameBlock ==
    ASSUME UNCHANGED <<txs, logTx, localChain>>
    PROVE  /\ BatchReal' = BatchReal /\ LogsStayLow' = LogsStayLow /\ NoKnownSender' = NoKnownSender
           /\ BatchActivities' = BatchActivities
           /\ \A mocks \in 2..5 : BlockActivities(mocks)' = BlockActivities(mocks)
           /\ ExtractTypes' = ExtractTypes
  BY DEF BatchReal, LogsStayLow, NoKnownSender, BatchActivities, BlockActivities, LogActivities,
         TxActivities, BatchFinds, BatchDetects, BlockDetects, IsEthTransfer, HasRealLogs,
         SyntheticIndex, ExtractTypes

\* Mock transfers are mocks, and there are some.
LEMMA MocksAre ==
    /\ \A mocks \in 2..5 :
          LET M == {Activity(MockBase + m - 1, 0, "mock") : m \in 1..mocks} IN
          M # {} /\ \A a \in M : a.symbol = "mock" /\ a.tx = 0
    /\ LET M == {Activity(MockLast, 0, "mock")} IN
       M # {} /\ \A a \in M : a.symbol = "mock" /\ a.tx = 0
<1>1. ASSUME NEW mocks \in 2..5,
             NEW M, M = {Activity(MockBase + m - 1, 0, "mock") : m \in 1..mocks}
      PROVE  M # {} /\ \A a \in M : a.symbol = "mock" /\ a.tx = 0
  <2>1. 1 \in 1..mocks
    OBVIOUS
  <2>2. Activity(MockBase + 1 - 1, 0, "mock") \in M
    BY <1>1, <2>1
  <2> QED
    BY <1>1, <2>2 DEF Activity
<1>2. ASSUME NEW M, M = {Activity(MockLast, 0, "mock")}
      PROVE  M # {} /\ \A a \in M : a.symbol = "mock" /\ a.tx = 0
  BY <1>2 DEF Activity
<1> QED
  BY <1>1, <1>2

\* One processing of the block: what a path inserts is the block's own activities, found by
\* its detectors, or mocks where there are none.
LEMMA ProcessStep ==
    ASSUME ExtractInv, UNCHANGED <<txs, logTx, localChain>>, NEW A, Insert(A),
           \/ A = BatchActivities
           \/ \E mocks \in 2..5 : A = BlockActivities(mocks)
    PROVE  /\ ExtractInv'
           /\ (rows # {} /\ NoKnownSender /\ \A r \in rows : r.symbol # "mock") => rows' = rows
<1> USE DEF ExtractInv
<1>1. /\ rows \subseteq rows' /\ rows' \subseteq rows \cup A
      /\ (\A a \in A : \E r \in rows : r.idx = a.idx) => rows' = rows
  BY DEF Insert
<1>2. \/ A = BatchReal /\ ~(A = {} /\ localChain)
      \/ A = BlockReal /\ ~(A = {} /\ localChain)
      \/ /\ A # {} /\ (\A a \in A : a.symbol = "mock" /\ a.tx = 0)
         /\ BatchReal = {} \/ BlockReal = {}
  <2>1. CASE A = BatchActivities
    BY <2>1, PathsInsert, MocksAre
  <2>2. ASSUME NEW mocks \in 2..5, A = BlockActivities(mocks)
        PROVE  \/ A = BlockReal /\ ~(A = {} /\ localChain)
               \/ /\ A # {} /\ (\A a \in A : a.symbol = "mock" /\ a.tx = 0)
                  /\ BlockReal = {}
    BY <2>2, PathsInsert, MocksAre
  <2> QED
    BY <2>1, <2>2
<1>3. ASSUME rows = {} PROVE LogsStayLow => A \subseteq rows'
  <2>1. CASE A = BatchReal
    BY <1>3, <2>1, DetectedSymbols, FirstInsert DEF BatchReal
  <2>2. CASE A = BlockReal
    BY <1>3, <2>2, DetectedSymbols, FirstInsert DEF BlockReal
  <2>3. CASE \A a \in A : a.symbol = "mock" /\ a.tx = 0
    BY <1>3, <2>3, MocksInsert
  <2> QED
    BY <1>2, <2>1, <2>2, <2>3
<1>4. StoredCompletely'
  <2> SUFFICES ASSUME rows' # {}, LogsStayLow
               PROVE  \/ BatchActivities \subseteq rows'
                      \/ \E mocks \in 2..5 : BlockActivities(mocks) \subseteq rows'
    BY SameBlock DEF StoredCompletely, LogsStayLow
  <2>1. CASE rows = {}
    BY <1>3, <2>1
  <2>2. CASE rows # {}
    BY <1>1, <2>2 DEF StoredCompletely, LogsStayLow
  <2> QED
    BY <2>1, <2>2
<1>5. ASSUME NoKnownSender
      PROVE  A = BatchReal \/ (A # {} /\ \A a \in A : a.symbol = "mock" /\ a.tx = 0)
  BY <1>2, <1>5, PathsAgree
<1>6. ASSUME NoKnownSender, rows # {}, \A r \in rows : r.symbol # "mock" PROVE rows' = rows
  <2>1. BatchReal # {} /\ \A a \in BatchReal : \E r \in rows : r.idx = a.idx
    BY <1>6 DEF RowsOfBlock
  <2>2. A = BatchReal
    BY <1>2, <1>6, <2>1, PathsAgree
  <2> QED
    BY <1>1, <2>1, <2>2
<1>7. RowsOfBlock'
  <2> SUFFICES ASSUME NoKnownSender
               PROVE  /\ \A r \in rows' : r.symbol = "mock" \/ r \in BatchReal
                      /\ \/ rows' = {}
                         \/ \E r \in rows' : r.symbol = "mock"
                         \/ \A a \in BatchReal : \E r \in rows' : r.idx = a.idx
    BY SameBlock DEF RowsOfBlock
  <2>1. \A r \in rows' : r.symbol = "mock" \/ r \in BatchReal
    BY <1>1, <1>5 DEF RowsOfBlock
  <2>2. CASE rows # {}
    BY <1>1, <2>1, <2>2 DEF RowsOfBlock
  <2>3. CASE rows = {} /\ A = BatchReal
    BY <2>1, <2>3, DetectedSymbols, FirstInsert DEF BatchReal
  <2>4. CASE rows = {} /\ A # {} /\ \A a \in A : a.symbol = "mock" /\ a.tx = 0
    <3>1. rows' = A
      BY <2>4, MocksInsert
    <3> QED
      BY <2>1, <2>4, <3>1
  <2> QED
    BY <1>5, <2>1, <2>2, <2>3, <2>4
<1> QED
  BY <1>4, <1>6, <1>7, SameBlock

\* The invariant holds for every block before it is processed.
LEMMA ExtractInitInv == ExtractInit => ExtractInv
<1> SUFFICES ASSUME ExtractInit PROVE ExtractInv
  OBVIOUS
<1>1. PICK k \in 0..MaxTxs : txs \in [1..k -> Transactions]
  BY DEF ExtractInit
<1>2. txs \in Seq(Transactions)
  BY <1>1, ExtractionAssumption
<1>3. Len(txs) \in Nat
  BY <1>2
<1>4. ExtractTypes
  BY <1>2, <1>3 DEF ExtractInit, ExtractTypes
<1> QED
  BY <1>4 DEF ExtractInit, ExtractInv, StoredCompletely, RowsOfBlock

\* Every processing, by either path, keeps the invariant.
LEMMA ExtractNextInv ==
    ASSUME ExtractInv, [ExtractNext]_extractVars
    PROVE  /\ ExtractInv'
           /\ (rows # {} /\ NoKnownSender /\ \A r \in rows : r.symbol # "mock") => rows' = rows
<1>1. CASE ProcessBatch
  BY <1>1, ProcessStep DEF ProcessBatch
<1>2. ASSUME NEW mocks \in 2..5, ProcessBlock(mocks)
      PROVE  /\ ExtractInv'
             /\ (rows # {} /\ NoKnownSender /\ \A r \in rows : r.symbol # "mock") => rows' = rows
  BY <1>2, ProcessStep DEF ProcessBlock
<1>3. CASE UNCHANGED extractVars
  <2>1. UNCHANGED <<txs, logTx, localChain>> /\ rows' = rows
    BY <1>3 DEF extractVars
  <2> QED
    BY <2>1, SameBlock DEF ExtractInv, StoredCompletely, RowsOfBlock, LogsStayLow
<1> QED
  BY <1>1, <1>2, <1>3 DEF ExtractNext

\* No activity of a block loses its place in the table to another one of the block, for
\* any number of transactions and logs below the synthetic indices.
THEOREM BlocksComplete == ExtractSpec => []StoredCompletely
<1>1. ExtractInv => StoredCompletely
  BY DEF ExtractInv
<1>2. ExtractInv /\ [ExtractNext]_extractVars => ExtractInv'
  BY ExtractNextInv
<1> QED
  BY <1>1, <1>2, ExtractInitInv, PTL DEF ExtractSpec

\* A block without known senders and mocks can be processed again by either path.
THEOREM ReprocessingSafe == ExtractSpec => ReprocessingIdempotent
<1>1. ExtractInv /\ [ExtractNext]_extractVars => ExtractInv'
  BY ExtractNextInv
<1>2. ExtractInv /\ [ExtractNext]_extractVars =>
        [(rows # {} /\ (\A t \in DOMAIN txs : ~txs[t].known)
                    /\ (\A r \in rows : r.symbol # "mock")) => rows' = rows]_extractVars
  BY ExtractNextInv DEF NoKnownSender
<1> QED
  BY <1>1, <1>2, ExtractInitInv, PTL DEF ExtractSpec, ReprocessingIdempotent

(***************************************************************************)
(* Playing a recorded trajectory                                           *)
(***************************************************************************)
NumberOf(i) == trajectory[i].n

ReplayTypes ==
    /\ trajectory \in Seq(Lines)
    /\ position \in 0..Len(trajectory)
    /\ current \in Nat
    /\ played \in Seq(SUBSET (1..Len(trajectory)))

\* A line ahead of the scanner that was recorded in order is not behind the next range.
NotPassedYet ==
    \A i \in PlayableTo(Len(trajectory)) :
        i > position /\ InOrder(i) => current <= NumberOf(i)

ReplayInv == ReplayTypes /\ NotPassedYet /\ OnlyStopsLost

\* The number on a line is a natural.
LEMMA NumberType ==
    ASSUME ReplayTypes, NEW i \in 1..Len(trajectory)
    PROVE  NumberOf(i) \in Nat
<1>1. trajectory[i] \in Lines
  BY DEF ReplayTypes
<1> QED
  BY <1>1, ReplayAssumption DEF Lines, NumberOf

\* A set of numbers below a bound that is not empty has a greatest.
LEMMA GreatestBelow ==
    ASSUME NEW m \in Nat, NEW S \in SUBSET (1..m), S # {}
    PROVE  \E x \in S : \A y \in S : y <= x
<1> DEFINE T == {k \in Nat : m - k \in S}
<1>1. PICK s \in S : TRUE
  OBVIOUS
<1>2. m - s \in Nat /\ m - (m - s) = s
  BY <1>1
<1>3. T # {} /\ T \in SUBSET Nat
  BY <1>1, <1>2
<1>4. PICK k \in T : \A l \in T : k <= l
  BY <1>3, LeastNatural
<1>5. m - k \in S
  BY <1>4
<1>6. ASSUME NEW y \in S PROVE y <= m - k
  <2>1. m - y \in Nat /\ m - (m - y) = y /\ y \in Nat
    OBVIOUS
  <2>2. k <= m - y /\ k \in Nat
    BY <1>4, <2>1
  <2> QED
    BY <2>1, <2>2
<1> QED
  BY <1>5, <1>6

\* Min and Max of a set of numbers below a bound.
LEMMA MinMaxFacts ==
    ASSUME NEW m \in Nat, NEW S \in SUBSET (1..m), S # {}
    PROVE  /\ Min(S) \in S /\ \A y \in S : Min(S) <= y
           /\ Max(S) \in S /\ \A y \in S : y <= Max(S)
<1>1. S \in SUBSET Nat
  OBVIOUS
<1>2. \E x \in S : \A y \in S : x <= y
  BY <1>1, LeastNatural
<1>3. \E x \in S : \A y \in S : x >= y
  BY <1>1, GreatestBelow
<1>4. Min(S) \in S /\ \A y \in S : Min(S) <= y
  BY <1>2 DEF Min
<1>5. Max(S) \in S /\ \A y \in S : Max(S) >= y
  BY <1>3 DEF Max
<1> QED
  BY <1>1, <1>4, <1>5

\* The scan passes the hits' first, or the rest of the file.
LEMMA ScanStopFacts ==
    ASSUME ReplayTypes, NEW end \in Nat
    PROVE  /\ ScanStop(end) \in position..Len(trajectory)
           /\ \A i \in (position + 1)..Len(trajectory) :
                 Plays(i) /\ i < ScanStop(end) => NumberOf(i) < end
           /\ \/ /\ ScanStop(end) = Len(trajectory)
                 /\ \A i \in (position + 1)..Len(trajectory) : Plays(i) => NumberOf(i) < end
              \/ /\ ScanStop(end) \in (position + 1)..Len(trajectory)
                 /\ Plays(ScanStop(end)) /\ NumberOf(ScanStop(end)) >= end
                 /\ ScanStop(end) \in Hits(end)
<1> DEFINE hits == Hits(end)
<1>0. hits = {i \in (position + 1)..Len(trajectory) : Plays(i) /\ NumberOf(i) >= end}
  BY DEF Hits, NumberOf
<1>1. position \in Nat /\ Len(trajectory) \in Nat /\ position <= Len(trajectory)
  BY DEF ReplayTypes
<1>2. ScanStop(end) = IF hits = {} THEN Len(trajectory) ELSE Min(hits)
  BY DEF ScanStop
<1>3. hits \in SUBSET (1..Len(trajectory))
  BY <1>0, <1>1
<1> HIDE DEF hits
<1>4. \A i \in (position + 1)..Len(trajectory) : NumberOf(i) \in Nat /\ i \in 1..Len(trajectory)
  BY <1>1, NumberType
<1>5. CASE hits = {}
  <2>1. \A i \in (position + 1)..Len(trajectory) : Plays(i) => NumberOf(i) < end
    BY <1>0, <1>4, <1>5
  <2> QED
    BY <1>1, <1>2, <1>5, <2>1
<1>6. CASE hits # {}
  <2>1. Min(hits) \in hits /\ \A y \in hits : Min(hits) <= y
    BY <1>1, <1>3, <1>6, MinMaxFacts
  <2> DEFINE m == Min(hits)
  <2>2. /\ m \in (position + 1)..Len(trajectory) /\ Plays(m) /\ NumberOf(m) >= end
        /\ ScanStop(end) = m /\ m \in Hits(end)
    BY <1>0, <1>2, <1>6, <2>1 DEF hits
  <2>3. ASSUME NEW i \in (position + 1)..Len(trajectory), Plays(i), i < m PROVE NumberOf(i) < end
    <3>1. i \notin hits
      BY <1>1, <2>1, <2>2, <2>3
    <3> QED
      BY <1>0, <1>4, <2>3, <3>1
  <2> HIDE DEF m
  <2> QED
    BY <1>1, <2>2, <2>3
<1> QED
  BY <1>5, <1>6

\* The lines and their order do not change.
LEMMA SameTrajectory ==
    ASSUME UNCHANGED trajectory
    PROVE  /\ \A k \in Nat : PlayableTo(k)' = PlayableTo(k)
           /\ \A i \in Nat : InOrder(i)' = InOrder(i)
           /\ \A i \in Nat : NumberOf(i)' = NumberOf(i)
  BY DEF PlayableTo, Plays, InOrder, NumberOf

\* A batch appended is played, and so is what was played before.
LEMMA AppendedIsPlayed ==
    ASSUME ReplayTypes, NEW batch, played' = Append(played, batch)
    PROVE  Played \cup batch \subseteq Played'
<1> DEFINE q == played'
           m == Len(played)
<1>1. m \in Nat /\ Len(q) = m + 1 /\ q[m + 1] = batch /\ \A b \in 1..m : q[b] = played[b]
  BY DEF ReplayTypes
<1>2. Played' = UNION {q[b] : b \in 1..Len(q)} /\ Played = UNION {played[b] : b \in 1..m}
  BY DEF Played
<1> HIDE DEF q, m
<1>3. 1..Len(q) = (1..m) \cup {m + 1}
  BY <1>1
<1> QED
  BY <1>1, <1>2, <1>3

\* A call with the present range returns every line it scans that was recorded in order,
\* except one it stops at.
LEMMA ScannedInOrder ==
    ASSUME ReplayInv, NEW end, end = current + ReplayBatch,
           NEW i \in PlayableTo(ScanStop(end)), i > position, InOrder(i),
           i \notin FetchLogs(current, end)
    PROVE  i \in Hits(end) /\ i = ScanStop(end)
<1> DEFINE s == ScanStop(end)
<1>0. /\ ReplayTypes /\ position \in Nat /\ Len(trajectory) \in Nat /\ position <= Len(trajectory)
      /\ current \in Nat /\ end \in Nat /\ current <= end
  BY ReplayAssumption DEF ReplayInv, ReplayTypes
<1>1. /\ s \in position..Len(trajectory)
      /\ \A k \in (position + 1)..Len(trajectory) : Plays(k) /\ k < s => NumberOf(k) < end
  BY <1>0, ScanStopFacts
<1>2. i \in 1..s /\ Plays(i) /\ ~(NumberOf(i) \in current..end)
  BY DEF FetchLogs, PlayableTo, NumberOf
<1> HIDE DEF s
<1>3. /\ i \in 1..Len(trajectory) /\ i \in (position + 1)..Len(trajectory)
      /\ i \in PlayableTo(Len(trajectory))
  BY <1>0, <1>1, <1>2 DEF PlayableTo
<1>4. NumberOf(i) \in Nat /\ current <= NumberOf(i)
  BY <1>0, <1>3, NumberType DEF ReplayInv, NotPassedYet
<1>5. NumberOf(i) > end
  BY <1>0, <1>2, <1>4
<1>6. i = s
  BY <1>0, <1>1, <1>2, <1>3, <1>4, <1>5
<1>7. NumberOf(i) >= end
  BY <1>0, <1>4, <1>5
<1> QED
  BY <1>2, <1>3, <1>6, <1>7 DEF Hits, NumberOf, s

\* What a call loses of the lines recorded in order is the line it stops at.
LEMMA PullKeepsStops ==
    ASSUME ReplayInv, UNCHANGED trajectory, NEW end, end = current + ReplayBatch,
           position' = ScanStop(end),
           stops' = stops \cup (Hits(end) \cap {ScanStop(end)}),
           ~failedBatch' => ~failedBatch /\ Played \cup FetchLogs(current, end) \subseteq Played'
    PROVE  OnlyStopsLost'
<1> DEFINE s == ScanStop(end)
<1>0. /\ ReplayTypes /\ position \in Nat /\ Len(trajectory) \in Nat /\ position <= Len(trajectory)
      /\ end \in Nat
  BY ReplayAssumption DEF ReplayInv, ReplayTypes
<1>1. s \in position..Len(trajectory)
  BY <1>0, ScanStopFacts
<1>2. s \in Nat /\ \A i \in PlayableTo(s) : i \in Nat
  BY <1>0, <1>1 DEF PlayableTo
<1> SUFFICES ASSUME ~failedBatch', NEW i \in PlayableTo(s), InOrder(i)
             PROVE  i \in Played' \cup stops'
  BY <1>2, SameTrajectory DEF OnlyStopsLost
<1>3. CASE i <= position
  <2>1. i \in PlayableTo(position)
    BY <1>0, <1>3 DEF PlayableTo
  <2>2. i \in Played \cup stops
    BY <2>1 DEF ReplayInv, OnlyStopsLost
  <2> QED
    BY <2>2
<1>4. CASE i > position
  <2>1. CASE i \in FetchLogs(current, end)
    BY <2>1
  <2>2. CASE i \notin FetchLogs(current, end)
    BY <1>4, <2>2, ScannedInOrder
  <2> QED
    BY <2>1, <2>2
<1> QED
  BY <1>0, <1>2, <1>3, <1>4

\* A range with blocks: the next one begins behind the last of them.
LEMMA PullBatchInv == ASSUME ReplayInv, NEW fails \in BOOLEAN, PullBatch(fails) PROVE ReplayInv'
<1> USE ReplayAssumption
<1> DEFINE end == current + ReplayBatch
           batch == FetchLogs(current, end)
           s == ScanStop(end)
           last == Max(batch)
<1>1. /\ batch # {} /\ position' = s
      /\ played' = IF fails THEN played ELSE Append(played, batch)
      /\ current' = trajectory[last].n + 1
      /\ stops' = stops \cup (Hits(end) \cap {s})
      /\ UNCHANGED trajectory
      /\ ~failedBatch' => ~failedBatch /\ ~fails
  BY DEF PullBatch
<1>2. /\ ReplayTypes /\ position \in Nat /\ Len(trajectory) \in Nat /\ position <= Len(trajectory)
      /\ current \in Nat /\ end \in Nat
  BY DEF ReplayInv, ReplayTypes
<1>3. s \in position..Len(trajectory)
  BY <1>2, ScanStopFacts
<1>4. batch \in SUBSET (1..Len(trajectory)) /\ batch \in SUBSET PlayableTo(s)
  <2>1. batch \in SUBSET PlayableTo(s) /\ PlayableTo(s) \in SUBSET (1..s)
    BY DEF FetchLogs, PlayableTo
  <2> HIDE DEF batch, s
  <2> QED
    BY <1>2, <1>3, <2>1
<1>5. last \in batch
  BY <1>1, <1>2, <1>4, MinMaxFacts
<1>6. OnlyStopsLost'
  <2>1. ~failedBatch' => ~failedBatch /\ Played \cup batch \subseteq Played'
    BY <1>1, <1>2, AppendedIsPlayed
  <2> QED
    BY <1>1, <2>1, PullKeepsStops
<1> HIDE DEF end, batch, s, last
<1>7. /\ NumberOf(last) \in Nat /\ current' = NumberOf(last) + 1
      /\ last \in 1..s /\ Plays(last) /\ last \in 1..Len(trajectory)
  <2>1. last \in 1..Len(trajectory) /\ last \in 1..s /\ Plays(last)
    BY <1>4, <1>5 DEF PlayableTo
  <2> QED
    BY <1>1, <1>2, <2>1, NumberType DEF NumberOf
<1>8. ReplayTypes'
  <2>1. played' \in Seq(SUBSET (1..Len(trajectory)))
    <3>1. played \in Seq(SUBSET (1..Len(trajectory)))
      BY <1>2 DEF ReplayTypes
    <3>2. Append(played, batch) \in Seq(SUBSET (1..Len(trajectory)))
      BY <1>4, <3>1
    <3> QED
      BY <1>1, <3>1, <3>2
  <2>2. position' \in 0..Len(trajectory)
    BY <1>1, <1>2, <1>3
  <2> QED
    BY <1>1, <1>2, <1>7, <2>1, <2>2 DEF ReplayTypes
<1>9. NotPassedYet'
  <2> SUFFICES ASSUME NEW i \in PlayableTo(Len(trajectory)), i > s, InOrder(i)
               PROVE  NumberOf(last) + 1 <= NumberOf(i)
    <3>1. \A i \in PlayableTo(Len(trajectory)) : i \in Nat
      BY <1>2 DEF PlayableTo
    <3> QED
      BY <1>1, <1>2, <1>7, <3>1, SameTrajectory DEF NotPassedYet
  <2>1. i \in 1..Len(trajectory) /\ s \in Nat
    BY <1>2, <1>3 DEF PlayableTo
  <2>2. last \in PlayableTo(i - 1) /\ NumberOf(i) \in Nat
    BY <1>2, <1>7, <2>1, NumberType DEF PlayableTo
  <2>3. NumberOf(last) < NumberOf(i)
    BY <2>2 DEF InOrder, NumberOf
  <2> QED
    BY <1>7, <2>2, <2>3
<1> QED
  BY <1>6, <1>8, <1>9 DEF ReplayInv

\* A range without blocks: the line the scanner stopped at lies beyond it, and so does
\* every line recorded in order behind that one.
LEMMA PullNothingInv == ASSUME ReplayInv, NEW done \in BOOLEAN, PullNothing(done) PROVE ReplayInv'
<1> USE ReplayAssumption
<1> DEFINE end == current + ReplayBatch
           s == ScanStop(end)
<1>1. /\ FetchLogs(current, end) = {} /\ position' = s
      /\ current' = IF done THEN current ELSE end + 1
      /\ stops' = stops \cup (Hits(end) \cap {s})
      /\ UNCHANGED <<trajectory, played, failedBatch>>
  BY DEF PullNothing
<1>2. /\ ReplayTypes /\ position \in Nat /\ Len(trajectory) \in Nat /\ position <= Len(trajectory)
      /\ current \in Nat /\ end \in Nat /\ current <= end
  BY DEF ReplayInv, ReplayTypes
<1>3. /\ s \in position..Len(trajectory)
      /\ \/ s = Len(trajectory)
         \/ s \in (position + 1)..Len(trajectory) /\ Plays(s) /\ NumberOf(s) >= end
  BY <1>2, ScanStopFacts
<1>4. OnlyStopsLost'
  <2>1. Played' = Played
    BY <1>1 DEF Played
  <2> QED
    BY <1>1, <2>1, PullKeepsStops
<1>5. ASSUME s \in (position + 1)..Len(trajectory), Plays(s), NumberOf(s) >= end
      PROVE  NumberOf(s) \in Nat /\ end < NumberOf(s)
  <2>1. s \in 1..Len(trajectory) /\ s \in 1..s /\ s > position
    BY <1>2, <1>5
  <2>2. NumberOf(s) \in Nat
    BY <1>2, <2>1, NumberType
  <2>3. s \in PlayableTo(s)
    BY <1>5, <2>1 DEF PlayableTo
  <2>4. ~(NumberOf(s) \in current..end)
    BY <1>1, <2>1, <2>3 DEF FetchLogs, NumberOf
  <2> HIDE DEF s, end
  <2> QED
    BY <1>2, <1>5, <2>2, <2>4
<1> HIDE DEF end, s
<1>6. ReplayTypes'
  <2>1. position' \in 0..Len(trajectory) /\ current' \in Nat
    BY <1>1, <1>2, <1>3
  <2> QED
    BY <1>1, <1>2, <2>1 DEF ReplayTypes
<1>7. NotPassedYet'
  <2> SUFFICES ASSUME NEW i \in PlayableTo(Len(trajectory)), i > s, InOrder(i)
               PROVE  current' <= NumberOf(i)
    <3>1. \A i \in PlayableTo(Len(trajectory)) : i \in Nat
      BY <1>2 DEF PlayableTo
    <3> QED
      BY <1>1, <1>2, <3>1, SameTrajectory DEF NotPassedYet
  <2>1. i \in 1..Len(trajectory) /\ s \in Nat /\ NumberOf(i) \in Nat
    BY <1>2, <1>3, NumberType DEF PlayableTo
  <2>2. s \in (position + 1)..Len(trajectory) /\ Plays(s) /\ NumberOf(s) \in Nat /\ end < NumberOf(s)
    BY <1>2, <1>3, <1>5, <2>1
  <2>3. s \in PlayableTo(i - 1)
    BY <1>2, <2>1, <2>2 DEF PlayableTo
  <2>4. NumberOf(s) < NumberOf(i)
    BY <2>3 DEF InOrder, NumberOf
  <2> QED
    BY <1>1, <1>2, <2>1, <2>2, <2>4
<1> QED
  BY <1>4, <1>6, <1>7 DEF ReplayInv

\* The push mode plays the line it scans.
LEMMA PushLineInv == ASSUME ReplayInv, PushLine PROVE ReplayInv'
<1> DEFINE p == position + 1
<1>1. /\ position < Len(trajectory) /\ position' = p
      /\ played' = IF Plays(p) THEN Append(played, {p}) ELSE played
      /\ UNCHANGED <<trajectory, current, failedBatch, stops>>
  BY DEF PushLine
<1>2. ReplayTypes /\ position \in Nat /\ Len(trajectory) \in Nat /\ p \in 1..Len(trajectory)
  BY <1>1 DEF ReplayInv, ReplayTypes
<1>3. Played \subseteq Played' /\ (Plays(p) => p \in Played')
  <2>1. CASE Plays(p)
    BY <1>1, <1>2, <2>1, AppendedIsPlayed
  <2>2. CASE ~Plays(p)
    <3>1. played' = played
      BY <1>1, <2>2
    <3> QED
      BY <2>2, <3>1 DEF Played
  <2> QED
    BY <2>1, <2>2
<1> HIDE DEF p
<1>4. ReplayTypes'
  <2>1. played' \in Seq(SUBSET (1..Len(trajectory)))
    <3>1. played \in Seq(SUBSET (1..Len(trajectory)))
      BY <1>2 DEF ReplayTypes
    <3>2. Append(played, {p}) \in Seq(SUBSET (1..Len(trajectory)))
      BY <1>2, <3>1
    <3> QED
      BY <1>1, <3>1, <3>2
  <2> QED
    BY <1>1, <1>2, <2>1 DEF ReplayTypes
<1>5. NotPassedYet'
  <2>1. \A i \in PlayableTo(Len(trajectory)) : i \in Nat
    BY <1>2 DEF PlayableTo
  <2>2. \A i \in Nat : i > p => i > position
    BY <1>2 DEF p
  <2> QED
    BY <1>1, <1>2, <2>1, <2>2, SameTrajectory DEF ReplayInv, NotPassedYet
<1>6. OnlyStopsLost'
  <2> SUFFICES ASSUME ~failedBatch, NEW i \in PlayableTo(p), InOrder(i)
               PROVE  i \in Played' \cup stops
    <3>1. p \in Nat /\ \A i \in PlayableTo(p) : i \in Nat
      BY <1>2 DEF PlayableTo
    <3> QED
      BY <1>1, <3>1, SameTrajectory DEF OnlyStopsLost
  <2>1. i \in 1..p /\ Plays(i)
    BY DEF PlayableTo
  <2>2. i = p \/ i \in 1..position
    BY <1>2, <2>1 DEF p
  <2>3. CASE i = p
    BY <1>3, <2>1, <2>3
  <2>4. CASE i \in 1..position
    <3>1. i \in PlayableTo(position)
      BY <2>1, <2>4 DEF PlayableTo
    <3> QED
      BY <1>3, <3>1 DEF ReplayInv, OnlyStopsLost
  <2> QED
    BY <2>2, <2>3, <2>4
<1> QED
  BY <1>4, <1>5, <1>6 DEF ReplayInv

\* The invariant holds for every recording before its first line is read.
LEMMA ReplayInitInv == ReplayInit => ReplayInv
<1> SUFFICES ASSUME ReplayInit PROVE ReplayInv
  OBVIOUS
<1> USE ReplayAssumption
<1>1. PICK k \in 0..MaxLines : trajectory \in [1..k -> Lines]
  BY DEF ReplayInit
<1>2. trajectory \in Seq(Lines) /\ Len(trajectory) \in Nat
  BY <1>1
<1>3. ReplayTypes
  BY <1>2 DEF ReplayInit, ReplayTypes
<1>4. OnlyStopsLost
  BY DEF ReplayInit, OnlyStopsLost, PlayableTo
<1>5. NotPassedYet
  <2> SUFFICES ASSUME NEW i \in PlayableTo(Len(trajectory)) PROVE current <= NumberOf(i)
    BY DEF NotPassedYet
  <2>1. i \in 1..Len(trajectory) /\ current = 0
    BY DEF ReplayInit, PlayableTo
  <2>2. NumberOf(i) \in Nat
    BY <1>3, <2>1, NumberType
  <2> QED
    BY <2>1, <2>2
<1> QED
  BY <1>3, <1>4, <1>5 DEF ReplayInv

\* However the recording was made, a line that plays is lost only if a call stopped at it
\* or a line with as large a number was recorded before it.
THEOREM LostOnlyAtStops == ReplaySpec => []OnlyStopsLost
<1>1. ReplayInv /\ [ReplayNext]_replayVars => ReplayInv'
  <2> SUFFICES ASSUME ReplayInv, [ReplayNext]_replayVars PROVE ReplayInv'
    OBVIOUS
  <2>1. ASSUME UNCHANGED <<trajectory, position, current, played, failedBatch, stops>>
        PROVE  ReplayInv'
    BY <2>1 DEF ReplayInv, ReplayTypes, NotPassedYet, OnlyStopsLost, Played, PlayableTo,
                Plays, InOrder, NumberOf
  <2>2. CASE PushEnds \/ ReplayStops \/ UNCHANGED replayVars
    BY <2>1, <2>2 DEF PushEnds, ReplayStops, replayVars
  <2> QED
    BY <2>2, PullBatchInv, PullNothingInv, PushLineInv DEF ReplayNext
<1>2. ReplayInv => OnlyStopsLost
  BY DEF ReplayInv
<1> QED
  BY <1>1, <1>2, ReplayInitInv, PTL DEF ReplaySpec

=============================================================================
