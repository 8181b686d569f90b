------------------------- MODULE SeedDiscoveryProofs ------------------------
(***************************************************************************)
(* Proofs about SeedDiscovery: for every gap limit, every set of used      *)
(* counters and every growth of it during the search, the batched search   *)
(* finds exactly the reachable counters.                                   *)
(***************************************************************************)
EXTENDS SeedDiscovery, FiniteSetTheorems, TLAPS

USE GapLimitAssumption, UsedLimitAssumption, WidthAssumption

(* History only makes more counters reachable. *)
LEMMA ReachableMonotone ==
  ASSUME NEW S, NEW T, S \subseteq T PROVE Reachable(S) \subseteq Reachable(T)
BY DEF Reachable

(***************************************************************************)
(* The reference definition says what its comment does: of the used        *)
(* counters those are found below which no run of GapLimit unused ones     *)
(* lies, where a search upwards from 1 would have given up.                *)
(***************************************************************************)
THEOREM ReachableStopsAtGap ==
  ASSUME NEW S, S \subseteq Nat
  PROVE  Reachable(S) =
           {c \in S : ~ \E a \in Nat : a + GapLimit < c /\ (a + 1 .. a + GapLimit) \cap S = {}}
<1> DEFINE Gap(c, a) == a + GapLimit < c /\ (a + 1 .. a + GapLimit) \cap S = {}
<1>1. ASSUME NEW c \in S, \A a \in 0 .. c - 1 : \E u \in S : a < u /\ u <= a + GapLimit,
             NEW a \in Nat, Gap(c, a)
      PROVE  FALSE
  <2>1. c \in Nat /\ a \in 0 .. c - 1
    BY <1>1
  <2>2. PICK u \in S : a < u /\ u <= a + GapLimit
    BY <1>1, <2>1
  <2>3. u \in a + 1 .. a + GapLimit
    BY <2>2
  <2> QED
    BY <1>1, <2>3
<1>2. ASSUME NEW c \in S, ~ \E a \in Nat : Gap(c, a), NEW a \in 0 .. c - 1, GapLimit > 0
      PROVE  \E u \in S : a < u /\ u <= a + GapLimit
  <2>1. c \in Nat /\ a \in Nat /\ a < c
    BY <1>2
  <2>2. CASE c <= a + GapLimit
    BY <2>1, <2>2
  <2>3. CASE a + GapLimit < c
    <3>1. PICK u \in a + 1 .. a + GapLimit : u \in S
      BY <1>2, <2>1, <2>3
    <3> QED
      BY <2>1, <3>1
  <2> QED
    BY <2>1, <2>2, <2>3
<1>3. ASSUME NEW c \in S, ~ \E a \in Nat : Gap(c, a), NEW a \in 0 .. c - 1
      PROVE  GapLimit > 0
  <2>1. CASE GapLimit = 0
    <3>1. c \in Nat /\ a \in Nat /\ a + GapLimit < c /\ (a + 1 .. a + GapLimit) \cap S = {}
      BY <1>3, <2>1
    <3> QED
      BY <1>3, <3>1
  <2> QED
    BY <2>1
<1>4. \A c \in S : (\A a \in 0 .. c - 1 : \E u \in S : a < u /\ u <= a + GapLimit)
                     <=> ~ \E a \in Nat : Gap(c, a)
  BY <1>1, <1>2, <1>3
<1> QED
  BY <1>4 DEF Reachable

(***************************************************************************)
(* What is found has no gap itself and is all there is without one: the    *)
(* search started again on what it found finds the same, and any deposits  *)
(* that were made without a gap are among it (recover_from_seed,           *)
(* reconstruct_reclaim_counter).                                           *)
(***************************************************************************)
THEOREM ReachableIsLargest ==
  ASSUME NEW S, S \subseteq Nat
  PROVE  /\ Reachable(Reachable(S)) = Reachable(S)
         /\ \A T \in SUBSET S : Reachable(T) = T => T \subseteq Reachable(S)
<1>1. ASSUME NEW c \in Reachable(S), NEW a \in 0 .. c - 1
      PROVE  \E u \in Reachable(S) : a < u /\ u <= a + GapLimit
  <2>1. PICK u \in S : a < u /\ u <= a + GapLimit
    BY <1>1 DEF Reachable
  <2>2. c \in Nat /\ u \in Nat /\ a \in Nat /\ a < c
    BY DEF Reachable
  <2>3. CASE u <= c
    <3>1. u \in Reachable(S)
      BY <2>2, <2>3 DEF Reachable
    <3> QED
      BY <2>1, <3>1
  <2>4. CASE c < u
    BY <2>1, <2>2, <2>4
  <2> QED
    BY <2>2, <2>3, <2>4
<1>2. Reachable(S) \subseteq Reachable(Reachable(S))
  <2> DEFINE R == Reachable(S)
  <2>1. \A c \in R : \A a \in 0 .. c - 1 : \E u \in R : a < u /\ u <= a + GapLimit
    BY <1>1
  <2> HIDE DEF R
  <2>2. R \subseteq Reachable(R)
    BY <2>1 DEF Reachable
  <2> QED
    BY <2>2 DEF R
<1>3. Reachable(Reachable(S)) \subseteq Reachable(S)
  BY DEF Reachable
<1> QED
  BY <1>2, <1>3, ReachableMonotone

LEMMA InitInv == Init => SearchInv
BY DEF Init, SearchInv, TypeOK, LoopInv, ScanInv, Phases, Scanning

(* The steps of a scan leave the loop alone: what is to be shown is that   *)
(* the scan has not missed anything.                                       *)
LEMMA ScanStepInv ==
  ASSUME SearchInv, UNCHANGED <<network, settled, loop>>, phase \in Scanning,
         phase' \in Scanning \cup {"classify", "failed"}, asking' \in SUBSET Nat,
         scanned' \in SUBSET used, ScanInv'
  PROVE  SearchInv'
<1> USE DEF SearchInv, network, settled, loop
<1>1. TypeOK'
  BY DEF TypeOK, Phases
<1>2. phase' = "classify" => batchStart <= candidate /\ candidate <= BatchEnd
  BY DEF LoopInv, TypeOK, BatchEnd, Scanning
<1> QED
  BY <1>1, <1>2 DEF LoopInv, BatchEnd, Scanning

LEMMA ScanInvSteps ==
  ASSUME SearchInv,
         \/ NothingToScan \/ EsploraScan \/ (\E c \in asking : EsploraAnswers(c))
         \/ CoreBlocks \/ CoreMempool \/ ScanFails
  PROVE  SearchInv'
<1> USE DEF SearchInv
<1>1. CASE NothingToScan
  BY <1>1, ScanStepInv DEF NothingToScan, Scanning, TypeOK, LoopInv, ScanInv, network, settled,
     loop, Scripts, Batch, BatchEnd
<1>2. CASE EsploraScan
  <2>1. asking' \in SUBSET Nat
    BY <1>2 DEF EsploraScan, Scripts, Batch, BatchEnd, TypeOK
  <2>2. ScanInv'
    BY <1>2 DEF EsploraScan, ScanInv, network, settled, loop, Scripts, Batch, BatchEnd, Scanning
  <2> QED
    BY <1>2, <2>1, <2>2, ScanStepInv DEF EsploraScan, Scanning, loop
<1>3. ASSUME NEW c \in asking, EsploraAnswers(c) PROVE SearchInv'
  <2>1. asking' \in SUBSET Nat /\ scanned' \in SUBSET used
    BY <1>3 DEF EsploraAnswers, TypeOK
  <2>2. ScanInv'
    BY <1>3 DEF EsploraAnswers, ScanInv, network, settled, loop, Scripts, Batch, BatchEnd, TypeOK
  <2> QED
    BY <1>3, <2>1, <2>2, ScanStepInv DEF EsploraAnswers, Scanning
<1>4. CASE CoreBlocks
  <2>1. scanned' \in SUBSET used /\ asking' \in SUBSET Nat
    BY <1>4 DEF CoreBlocks, TypeOK
  <2>2. ScanInv'
    BY <1>4 DEF CoreBlocks, ScanInv, network, settled, loop, Scripts, Batch, BatchEnd, TypeOK
  <2> QED
    BY <1>4, <2>1, <2>2, ScanStepInv DEF CoreBlocks, Scanning
<1>5. CASE CoreMempool
  <2>1. scanned' \in SUBSET used /\ asking' \in SUBSET Nat
    BY <1>5 DEF CoreMempool, TypeOK
  <2>2. ScanInv'
    BY <1>5 DEF CoreMempool, ScanInv, network, settled, loop, Scripts, Batch, BatchEnd
  <2> QED
    BY <1>5, <2>1, <2>2, ScanStepInv DEF CoreMempool, Scanning
<1>6. CASE ScanFails
  BY <1>6, ScanStepInv DEF ScanFails, Scanning, scan, TypeOK, ScanInv, network, settled,
     loop, Scripts, Batch, BatchEnd
<1> QED
  BY <1>1, <1>2, <1>3, <1>4, <1>5, <1>6

LEMMA ClassifyUsedInv == ASSUME SearchInv, ClassifyUsed PROVE SearchInv'
<1> USE DEF SearchInv, ClassifyUsed, network, settled, scan
<1>1. candidate \in used /\ candidate \in Nat /\ unused \in Nat
  BY DEF TypeOK
<1>2. TypeOK'
  BY <1>1 DEF TypeOK
<1>3. \A c \in discovered' : \A a \in 0 .. c - 1 :
        \E u \in discovered' : a < u /\ u <= a + GapLimit
  <2> SUFFICES ASSUME NEW a \in 0 .. candidate - 1
               PROVE  \E u \in discovered' : a < u /\ u <= a + GapLimit
    BY DEF LoopInv
  <2>1. CASE a >= candidate - 1 - unused
    BY <2>1, <1>1 DEF LoopInv, TypeOK
  <2>2. CASE a < candidate - 1 - unused
    <3>1. candidate - 1 - unused \in discovered
      BY <2>2, <1>1 DEF LoopInv
    <3> QED
      BY <2>2, <3>1, <1>1 DEF LoopInv
  <2> QED
    BY <2>1, <2>2, <1>1
<1>4. batchStart <= candidate' /\ candidate' <= BatchEnd'
  BY <1>1 DEF TypeOK, LoopInv, BatchEnd
<1> QED
  BY <1>1, <1>2, <1>3, <1>4 DEF LoopInv, ScanInv, TypeOK, Batch, BatchEnd, Scanning

LEMMA ClassifyUnusedInv == ASSUME SearchInv, ClassifyUnused PROVE SearchInv'
<1> USE DEF SearchInv, ClassifyUnused, network, settled, scan
<1>1. candidate \in Nat /\ unused \in Nat
  BY DEF TypeOK
<1>2. TypeOK'
  BY <1>1 DEF TypeOK, Phases
<1>3. candidate \notin before \ slipped
  BY <1>1 DEF TypeOK, LoopInv, ScanInv, Batch, BatchEnd
<1>4. \A c \in before \ slipped : c < candidate' => c \in discovered'
  BY <1>1, <1>3 DEF TypeOK, LoopInv
<1>5. /\ candidate' >= 1 /\ unused' < candidate'
      /\ \A c \in discovered' : c < candidate' /\ c < candidate' - unused'
      /\ candidate' - 1 - unused' \in discovered' \cup {0}
  <2>1. candidate' - unused' = candidate - unused
    BY <1>1
  <2> QED
    BY <1>1, <2>1 DEF TypeOK, LoopInv
<1>6. phase' = "classify" => unused' < GapLimit
  BY <1>1 DEF LoopInv
<1>7. batchStart' <= candidate' /\ candidate' <= BatchEnd'
  BY <1>1 DEF TypeOK, LoopInv, BatchEnd
<1> QED
  BY <1>1, <1>2, <1>4, <1>5, <1>6, <1>7 DEF LoopInv, ScanInv, Batch, BatchEnd, Scanning

LEMMA NextBatchInv == ASSUME SearchInv, NextBatch PROVE SearchInv'
BY DEF SearchInv, NextBatch, TypeOK, LoopInv, ScanInv, Phases, Scanning, Batch, BatchEnd,
       network, settled, scan

LEMMA AppearsInv ==
  ASSUME SearchInv, NEW c \in 1 .. UsedLimit, Appears(c) PROVE SearchInv'
<1> USE DEF SearchInv, Appears, settled, scan, loop
<1>1. TypeOK'
  BY DEF TypeOK
<1>2. LoopInv'
  BY DEF LoopInv, BatchEnd
<1>3. ScanInv'
  BY DEF ScanInv, TypeOK, Scripts, Batch, BatchEnd
<1> QED
  BY <1>1, <1>2, <1>3

LEMMA MinedInv ==
  ASSUME SearchInv, NEW c \in 1 .. UsedLimit, Mined(c) PROVE SearchInv'
<1> USE DEF SearchInv, Mined, settled, scan, loop
<1>1. TypeOK'
  BY DEF TypeOK
<1>2. LoopInv'
  BY DEF LoopInv, BatchEnd
<1>3. ScanInv'
  BY DEF ScanInv, TypeOK, Scripts, Batch, BatchEnd
<1> QED
  BY <1>1, <1>2, <1>3

LEMMA NextInv == SearchInv /\ [Next]_vars => SearchInv'
<1> SUFFICES ASSUME SearchInv, [Next]_vars PROVE SearchInv'
  OBVIOUS
<1> USE DEF SearchInv, TypeOK, LoopInv, ScanInv, Phases, Scanning, Scripts, Batch, BatchEnd,
            network, settled, scan, loop
<1>1. CASE Begin
  BY <1>1 DEF Begin
<1>2. CASE ScanPanics
  BY <1>2 DEF ScanPanics
<1>3. CASE UNCHANGED vars
  BY <1>3 DEF vars
<1> HIDE DEF SearchInv, TypeOK, LoopInv, ScanInv, Phases, Scanning, Scripts, Batch, BatchEnd,
             network, settled, scan, loop
<1> QED
  BY <1>1, <1>2, <1>3, ScanInvSteps, ClassifyUsedInv, ClassifyUnusedInv,
     NextBatchInv, AppearsInv, MinedInv
     DEF Next, Step

(* The loop invariant and the condition that ends the search give the      *)
(* promise: the last GapLimit counters are not in before, so no            *)
(* counter above them was reachable when the search began.                 *)
LEMMA SearchInvGivesReachable == SearchInv => FindsReachable
<1> SUFFICES ASSUME SearchInv, phase = "done"
             PROVE  /\ Reachable(before \ slipped) \subseteq discovered
                    /\ discovered \subseteq Reachable(used)
  BY DEF FindsReachable, SearchInv, ScanInv
<1> USE DEF SearchInv
<1>1. ASSUME NEW c \in Reachable(before \ slipped) PROVE c \in discovered
  <2>1. c \in before \ slipped /\ c \in Nat /\ candidate \in Nat
    BY DEF Reachable, TypeOK
  <2>2. CASE c < candidate
    BY <2>1, <2>2 DEF LoopInv
  <2>3. CASE c >= candidate
    <3> DEFINE a == candidate - 1 - GapLimit
    <3>1. a \in 0 .. c - 1
      BY <2>1, <2>3 DEF LoopInv, TypeOK
    <3>2. PICK u \in before \ slipped : a < u /\ u <= a + GapLimit
      BY <3>1 DEF Reachable
    <3>3. u \in Nat /\ u < candidate
      BY <2>1, <3>2 DEF TypeOK
    <3>4. u < candidate - GapLimit
      BY <3>2, <3>3 DEF LoopInv
    <3> QED
      BY <3>2, <3>3, <3>4, <2>1
  <2> QED
    BY <2>1, <2>2, <2>3
<1>2. discovered \subseteq Reachable(discovered)
  BY DEF LoopInv, Reachable
<1>3. Reachable(discovered) \subseteq Reachable(used)
  BY ReachableMonotone DEF TypeOK
<1> QED
  BY <1>1, <1>2, <1>3

(***************************************************************************)
(* What the loop of discover_seed_candidates has classified so far is      *)
(* classified as Reachable says, and its count of unused candidates is the *)
(* distance to the last one found, at every step and across batches.       *)
(***************************************************************************)
THEOREM SearchInvariance == Spec => []SearchInv
BY InitInv, NextInv, PTL DEF Spec

(***************************************************************************)
(* The search, whatever the gap limit, the deposits and their growth while *)
(* it runs, ends with the reachable counters and no others.                *)
(***************************************************************************)
THEOREM DiscoveryIsExact == Spec => []FindsReachable
BY SearchInvariance, SearchInvGivesReachable, PTL

(***************************************************************************)
(* On a chain at rest it is exactly the reachable counters, batches or not:*)
(* if no request of this seed appeared and none slipped through a scan.    *)
(***************************************************************************)
THEOREM QuietDiscoveryIsExact ==
  Spec => [](phase = "done" /\ used = before /\ slipped = {} => discovered = Reachable(used))
<1>1. FindsReachable =>
        (phase = "done" /\ used = before /\ slipped = {} => discovered = Reachable(used))
  BY DEF FindsReachable
<1> QED
  BY <1>1, DiscoveryIsExact, PTL

-----------------------------------------------------------------------------
(***************************************************************************)
(* The loop of the search has no bound of its own: what makes it end is    *)
(* that only finitely many counters have history.  StepsLeft is a natural  *)
(* number that every step of the search lowers and nothing else changes:   *)
(* not the deposits that appear and are mined while it runs.               *)
(***************************************************************************)
\* No candidate lies beyond it, nor a batch begins there.
Horizon == UsedLimit + GapLimit + 1

\* The steps left of the scan of the batch.
ScanLeft ==
  CASE phase = "begin" -> GapLimit + 2
    [] phase = "scan" -> GapLimit + 1
    [] phase = "asking" -> Cardinality(asking)
    [] phase = "mempool" -> 1
    [] OTHER -> 0

StepsLeft ==
  (GapLimit + 2) * (Horizon - batchStart) + (Horizon - candidate) + ScanLeft

\* What SearchInv leaves out: the requests of the batch, and the loop after its end.
HorizonInv ==
  /\ phase = "asking" => asking \subseteq Batch /\ asking # {}
  /\ unused <= GapLimit
  /\ 1 <= batchStart /\ batchStart <= candidate

LEMMA HorizonInvariance == Spec => []HorizonInv
<1>1. Init => HorizonInv
  BY DEF Init, HorizonInv
<1>2. SearchInv /\ HorizonInv /\ [Next]_vars => HorizonInv'
  <2> SUFFICES ASSUME SearchInv, HorizonInv, [Next]_vars PROVE HorizonInv'
    OBVIOUS
  <2> USE DEF HorizonInv, network, settled, scan, loop, Batch, BatchEnd
  <2>1. batchStart \in Nat /\ candidate \in Nat /\ unused \in Nat
    BY DEF SearchInv, TypeOK
  <2>2. CASE Begin \/ ScanPanics \/ NothingToScan \/ CoreBlocks \/ CoreMempool \/ ScanFails
    BY <2>1, <2>2 DEF Begin, ScanPanics, NothingToScan, CoreBlocks, CoreMempool, ScanFails
  <2>3. CASE EsploraScan
    BY <2>1, <2>3 DEF EsploraScan, Scripts
  <2>4. ASSUME NEW c \in asking, EsploraAnswers(c) PROVE HorizonInv'
    BY <2>1, <2>4 DEF EsploraAnswers
  <2>5. CASE ClassifyUsed \/ ClassifyUnused
    BY <2>1, <2>5 DEF ClassifyUsed, ClassifyUnused, SearchInv, LoopInv
  <2>6. CASE NextBatch
    BY <2>1, <2>6 DEF NextBatch
  <2>7. CASE (\E c \in 1 .. UsedLimit : Appears(c) \/ Mined(c)) \/ UNCHANGED vars
    BY <2>1, <2>7 DEF Appears, Mined, vars
  <2> QED
    BY <2>2, <2>3, <2>4, <2>5, <2>6, <2>7 DEF Next, Step
<1> QED
  BY <1>1, <1>2, SearchInvariance, PTL DEF Spec

(* Neither the candidates nor the batches go beyond the horizon. *)
LEMMA WithinHorizon ==
  ASSUME SearchInv, HorizonInv
  PROVE  /\ batchStart \in Nat /\ candidate \in Nat /\ unused \in Nat
         /\ candidate <= Horizon /\ batchStart <= Horizon
<1>1. batchStart \in Nat /\ candidate \in Nat /\ unused \in Nat
  BY DEF SearchInv, TypeOK
<1>2. candidate - 1 - unused <= UsedLimit
  BY <1>1 DEF SearchInv, TypeOK, LoopInv
<1> QED
  BY <1>1, <1>2 DEF HorizonInv, Horizon

(* The requests of a scan are at most as many as the batch has counters. *)
LEMMA BatchIsFinite ==
  ASSUME batchStart \in Nat, NEW S \in SUBSET Batch
  PROVE  IsFiniteSet(S) /\ Cardinality(S) \in Nat /\ Cardinality(S) <= GapLimit
<1>1. IsFiniteSet(Batch) /\ Cardinality(Batch) = GapLimit
  <2>1. batchStart \in Int /\ BatchEnd - 1 \in Int
    BY DEF BatchEnd
  <2>2. Cardinality(Batch) = IF batchStart > BatchEnd - 1 THEN 0 ELSE (BatchEnd - 1) - batchStart + 1
    BY <2>1, FS_Interval DEF Batch
  <2> QED
    BY <2>1, <2>2, FS_Interval DEF Batch, BatchEnd
<1> QED
  BY <1>1, FS_Subset, FS_CardinalityType

LEMMA ScanLeftType ==
  ASSUME SearchInv, HorizonInv PROVE ScanLeft \in Nat
<1>1. phase = "asking" => Cardinality(asking) \in Nat
  BY WithinHorizon, BatchIsFinite DEF HorizonInv
<1> QED
  BY <1>1 DEF ScanLeft

LEMMA StepsLeftType ==
  ASSUME SearchInv, HorizonInv PROVE StepsLeft \in Nat
<1>1. Horizon - batchStart \in Nat /\ Horizon - candidate \in Nat /\ GapLimit + 2 \in Nat
  BY WithinHorizon DEF Horizon
<1>2. (GapLimit + 2) * (Horizon - batchStart) \in Nat
  BY <1>1
<1> QED
  BY <1>1, <1>2, ScanLeftType DEF StepsLeft

(* A step within a batch. *)
LEMMA LowerWithinBatch ==
  ASSUME SearchInv, HorizonInv, SearchInv', HorizonInv', batchStart' = batchStart,
         \/ candidate' = candidate /\ ScanLeft' < ScanLeft
         \/ candidate' = candidate + 1 /\ ScanLeft' = ScanLeft
  PROVE  StepsLeft' < StepsLeft
<1>1. candidate \in Nat /\ Horizon \in Nat /\ ScanLeft \in Nat
  BY WithinHorizon, ScanLeftType DEF Horizon
<1>2. ScanLeft' \in Nat
  <2>1. phase' = "asking" => (Cardinality(asking))' \in Nat
    <3>1. batchStart \in Nat /\ Batch' = Batch
      BY WithinHorizon DEF Batch, BatchEnd
    <3> QED
      BY <3>1, BatchIsFinite DEF HorizonInv
  <2> QED
    BY <2>1 DEF ScanLeft
<1>3. (GapLimit + 2) * (Horizon - batchStart) \in Int
  BY WithinHorizon DEF Horizon
<1> QED
  BY <1>1, <1>2, <1>3 DEF StepsLeft, Horizon

LEMMA NonemptyGap ==
  ASSUME SearchInv, phase \in Scanning PROVE GapLimit >= 1
BY DEF SearchInv, LoopInv

LEMMA EveryStepLowers ==
  ASSUME SearchInv, HorizonInv, SearchInv', HorizonInv', Step
  PROVE  StepsLeft' < StepsLeft
<1> USE DEF network, settled, scan, loop
<1>1. CASE Begin \/ ScanPanics \/ NothingToScan \/ CoreBlocks \/ CoreMempool
  <2>1. batchStart' = batchStart /\ candidate' = candidate
    BY <1>1 DEF Begin, ScanPanics, NothingToScan, CoreBlocks, CoreMempool
  <2>2. ScanLeft' < ScanLeft
    <3>1. CASE Begin
      BY <3>1 DEF Begin, ScanLeft
    <3>2. CASE ScanPanics
      BY <3>2 DEF ScanPanics, ScanLeft
    <3>3. CASE NothingToScan
      BY <3>3 DEF NothingToScan, ScanLeft
    <3>4. CASE CoreBlocks
      <4>1. phase = "scan" /\ phase' = "mempool" /\ GapLimit >= 1
        BY <3>4, NonemptyGap DEF CoreBlocks, Scanning
      <4> QED
        BY <4>1 DEF ScanLeft
    <3>5. CASE CoreMempool
      BY <3>5 DEF CoreMempool, ScanLeft
    <3> QED
      BY <1>1, <3>1, <3>2, <3>3, <3>4, <3>5
  <2> QED
    BY <2>1, <2>2, LowerWithinBatch
<1>2. CASE EsploraScan
  <2>1. Cardinality(Scripts) \in Nat /\ Cardinality(Scripts) <= GapLimit
    BY WithinHorizon, BatchIsFinite DEF Scripts
  <2> QED
    BY <1>2, <2>1, LowerWithinBatch DEF EsploraScan, ScanLeft
<1>3. ASSUME NEW c \in asking, EsploraAnswers(c) PROVE StepsLeft' < StepsLeft
  <2>1. IsFiniteSet(asking) /\ Cardinality(asking) \in Nat
    BY <1>3, WithinHorizon, BatchIsFinite DEF HorizonInv, EsploraAnswers
  <2>2. Cardinality(asking \ {c}) = Cardinality(asking) - 1
    BY <2>1, FS_RemoveElement
  <2>3. Cardinality(asking) > 0
    BY <2>1, FS_EmptySet
  <2>4. ScanLeft = Cardinality(asking) /\ ScanLeft' < ScanLeft
    BY <1>3, <2>1, <2>2, <2>3 DEF EsploraAnswers, ScanLeft
  <2> QED
    BY <1>3, <2>4, LowerWithinBatch DEF EsploraAnswers
<1>4. CASE ScanFails
  <2>1. phase = "asking" => Cardinality(asking) \in Nat /\ Cardinality(asking) > 0
    BY WithinHorizon, BatchIsFinite, FS_EmptySet DEF HorizonInv
  <2>2. ScanLeft' < ScanLeft
    BY <1>4, <2>1 DEF ScanFails, ScanLeft
  <2> QED
    BY <1>4, <2>2, LowerWithinBatch DEF ScanFails
<1>5. CASE ClassifyUsed \/ ClassifyUnused
  BY <1>5, LowerWithinBatch DEF ClassifyUsed, ClassifyUnused, ScanLeft
<1>6. CASE NextBatch
  <2>1. /\ GapLimit \in Nat /\ GapLimit >= 1
        /\ batchStart' = batchStart + GapLimit /\ candidate' = candidate
        /\ ScanLeft = 0 /\ ScanLeft' = GapLimit + 1
    BY <1>6 DEF NextBatch, BatchEnd, ScanLeft, SearchInv, LoopInv
  <2>2. batchStart \in Nat /\ candidate \in Nat /\ Horizon \in Nat
    BY WithinHorizon DEF Horizon
  <2> DEFINE w == GapLimit + 2
             r == Horizon - batchStart
  <2>3. w \in Nat /\ r \in Int /\ w * r \in Int /\ w * GapLimit \in Nat
    BY <2>1, <2>2
  <2>4. w * (r - GapLimit) = w * r - w * GapLimit
    BY <2>1, <2>3
  <2>5. w * GapLimit >= w
    BY <2>1, <2>3
  <2>6. Horizon' - batchStart' = r - GapLimit
    BY <2>1, <2>2 DEF Horizon
  <2>7. StepsLeft' = w * (r - GapLimit) + (Horizon - candidate) + (GapLimit + 1)
    BY <2>1, <2>6 DEF StepsLeft, Horizon
  <2>8. StepsLeft = w * r + (Horizon - candidate) + 0
    BY <2>1 DEF StepsLeft
  <2> QED
    BY <2>1, <2>2, <2>3, <2>4, <2>5, <2>7, <2>8
<1> QED
  BY <1>1, <1>2, <1>3, <1>4, <1>5, <1>6 DEF Step

(***************************************************************************)
(* discover_seed_candidates makes finitely many steps: the number of them  *)
(* that are left is a natural number, every scan, answer, classified       *)
(* counter and new batch lowers it, and what happens on the chain          *)
(* meanwhile cannot raise it.                                              *)
(***************************************************************************)
THEOREM SearchIsFinite ==
  Spec => /\ [](StepsLeft \in Nat)
          /\ [][IF Step THEN StepsLeft' < StepsLeft ELSE StepsLeft' = StepsLeft]_vars
<1>1. SearchInv /\ HorizonInv => StepsLeft \in Nat
  BY StepsLeftType
<1>2. SearchInv /\ HorizonInv /\ SearchInv' /\ HorizonInv' /\ [Next]_vars
        => [IF Step THEN StepsLeft' < StepsLeft ELSE StepsLeft' = StepsLeft]_vars
  <2> SUFFICES ASSUME SearchInv, HorizonInv, SearchInv', HorizonInv', Next, ~ Step
               PROVE  StepsLeft' = StepsLeft
    BY EveryStepLowers
  <2>1. UNCHANGED <<phase, scan, loop>>
    BY DEF Next, Appears, Mined
  <2> QED
    BY <2>1 DEF StepsLeft, ScanLeft, Horizon, scan, loop
<1> QED
  BY <1>1, <1>2, SearchInvariance, HorizonInvariance, PTL DEF Spec

(***************************************************************************)
(* And it is never stuck before its end.  Only two phases have steps with  *)
(* a guard beyond the phase itself that might fail: while answers are      *)
(* awaited a request is out, and a candidate to classify has not overrun   *)
(* its batch, for which neither a classification nor a new batch would do. *)
(***************************************************************************)
THEOREM SearchGoesOn ==
  Spec => [](/\ phase = "asking" => asking # {}
             /\ phase = "classify" => candidate < BatchEnd \/ candidate = BatchEnd)
<1>1. SearchInv /\ HorizonInv
        => /\ phase = "asking" => asking # {}
           /\ phase = "classify" => candidate < BatchEnd \/ candidate = BatchEnd
  BY WithinHorizon DEF SearchInv, LoopInv, HorizonInv, BatchEnd
<1> QED
  BY <1>1, SearchInvariance, HorizonInvariance, PTL
=============================================================================
