------------------------- MODULE DescriptorDbProofs -------------------------
(***************************************************************************)
(* Proofs about DescriptorDb, for any number of processes, descriptors and *)
(* counters.  DbInv is inductive; the safety properties follow from it,    *)
(* and with it every step of the database is a step of CounterAllocator or *)
(* leaves the counters handed out alone.                                   *)
(***************************************************************************)
EXTENDS DescriptorDb, TLAPS

(* The values of the counters are natural numbers, Missing is not one, and *)
(* an increment below the bound is a counter again.                        *)
LEMMA CounterValues ==
  /\ Counters \subseteq Nat
  /\ Missing \notin Counters
  /\ \A c \in Counters : c < MaxCounter => c + 1 \in Counters
BY MissingAssumption, MaxCounterAssumption DEF Counters

(* ensure_reclaim_counter_at_least yields at least the minimum and at      *)
(* least the counter it found.                                             *)
LEMMA AtLeastIsAbove ==
  ASSUME NEW value \in Counters \cup {Missing}, NEW minimum \in Counters
  PROVE  /\ AtLeast(value, minimum) \in Counters
         /\ AtLeast(value, minimum) >= minimum
         /\ value # Missing => AtLeast(value, minimum) >= value
BY CounterValues DEF AtLeast

LEMMA DbInitInv == DbInit => DbInv
BY NoProcAssumption
   DEF DbInit, DbInv, DbTypeOK, HandedIsDurable, SavedIsDurable,
       MemoryAhead, SavedInMemory, ClosedIsIdle, NextIsFresh

(* A counter that was handed out is at most the one on disk, and that is   *)
(* at most the holder's.                                                   *)
LEMMA HandedValues ==
  ASSUME DbInv, NEW i \in 1 .. Len(handed)
  PROVE  /\ handed[i] \in Nat /\ handed[i] \in Counters
         /\ diskCounter \in Nat /\ diskCounter # Missing
         /\ counter \in Nat /\ counter # Missing
         /\ handed[i] <= diskCounter
         /\ diskCounter <= counter
<1> USE DEF DbInv
<1>1. handed[i] \in Counters
  BY DEF DbTypeOK
<1>2. diskCounter # Missing /\ diskCounter \in Counters /\ handed[i] <= diskCounter
  BY DEF DbTypeOK, HandedIsDurable
<1>3. counter # Missing /\ counter \in Counters /\ counter >= diskCounter
  BY <1>2 DEF DbTypeOK, MemoryAhead
<1> QED
  BY <1>1, <1>2, <1>3, CounterValues

(* Each operation of the database keeps the invariant. *)
LEMMA OpenInv ==
  ASSUME DbInv, NEW p \in Procs, Open(p) PROVE DbInv'
BY CounterValues, NoProcAssumption
   DEF Open, DbInv, DbTypeOK, disk, HandedIsDurable, SavedIsDurable, MemoryAhead,
       SavedInMemory, ClosedIsIdle, NextIsFresh

LEMMA NextReclaimCounterInv ==
  ASSUME DbInv, NEW p \in Procs, NextReclaimCounter(p) PROVE DbInv'
<1> USE DEF DbInv, NextReclaimCounter, Holds, disk
<1>1. counter \in Nat /\ counter # Missing /\ counter' \in Counters
  BY CounterValues DEF DbTypeOK
<1>2. DbTypeOK'
  BY <1>1 DEF DbTypeOK
<1>3. diskCounter # Missing => diskCounter \in Nat /\ counter' >= diskCounter
  BY <1>1, CounterValues DEF DbTypeOK, MemoryAhead
<1>4. NextIsFresh'
  <2>1. counter' \in Nat /\ counter' # Missing
    BY <1>1, CounterValues
  <2>2. ASSUME NEW i \in 1 .. Len(handed) PROVE handed[i] < counter'
    BY <1>1, HandedValues
  <2> QED
    BY <2>1, <2>2 DEF NextIsFresh
<1> QED
  BY <1>1, <1>2, <1>3, <1>4, CounterValues, NoProcAssumption
     DEF HandedIsDurable, SavedIsDurable, MemoryAhead, SavedInMemory, ClosedIsIdle

LEMMA EnsureReclaimCounterAtLeastInv ==
  ASSUME DbInv, NEW p \in Procs, NEW minimum \in Counters,
         EnsureReclaimCounterAtLeast(p, minimum)
  PROVE  DbInv'
<1> USE DEF DbInv, EnsureReclaimCounterAtLeast, Holds, disk
<1>1. /\ counter' \in Counters
      /\ counter # Missing => counter' >= counter
  BY AtLeastIsAbove DEF DbTypeOK
<1>2. DbTypeOK'
  BY <1>1 DEF DbTypeOK
<1>3. MemoryAhead'
  BY <1>1, CounterValues DEF DbTypeOK, MemoryAhead
<1> QED
  BY <1>2, <1>3, NoProcAssumption
     DEF HandedIsDurable, SavedIsDurable, SavedInMemory, ClosedIsIdle, NextIsFresh

LEMMA AddDescInv ==
  ASSUME DbInv, NEW p \in Procs, NEW d \in Descs, AddDesc(p, d) PROVE DbInv'
BY NoProcAssumption
   DEF AddDesc, Holds, disk, DbInv, DbTypeOK, HandedIsDurable, SavedIsDurable,
       MemoryAhead, SavedInMemory, ClosedIsIdle, NextIsFresh

LEMMA RemoveInv ==
  ASSUME DbInv, NEW p \in Procs, NEW d \in Descs, Remove(p, d) PROVE DbInv'
<1> USE DEF DbInv, Remove, Holds, disk
<1>1. DbTypeOK'
  BY DEF DbTypeOK
<1>2. SavedInMemory'
  <2>1. adding = {}
    BY DEF ClosedIsIdle
  <2> QED
    BY <2>1 DEF SavedInMemory
<1> QED
  BY <1>1, <1>2
     DEF HandedIsDurable, SavedIsDurable, MemoryAhead, ClosedIsIdle, NextIsFresh

LEMMA FlushReturnsInv ==
  ASSUME DbInv, NEW p \in Procs, FlushReturns(p) PROVE DbInv'
<1> USE DEF DbInv, FlushReturns, mem
<1>1. flushing = "next" => counter \in Counters
  BY DEF DbTypeOK, NextIsFresh
<1>2. DbTypeOK'
  BY <1>1 DEF DbTypeOK
<1>3. ASSUME NEW i \in 1 .. Len(handed')
      PROVE  diskCounter' # Missing /\ handed'[i] <= diskCounter'
  <2>1. CASE flushing = "next"
    <3>1. Len(handed') = Len(handed) + 1
      BY <2>1, <1>1 DEF DbTypeOK
    <3>2. CASE i = Len(handed) + 1
      BY <3>2, <2>1, <1>1, CounterValues DEF DbTypeOK, NextIsFresh
    <3>3. CASE i \in 1 .. Len(handed)
      <4>1. handed'[i] = handed[i]
        BY <3>3, <2>1, <1>1 DEF DbTypeOK
      <4> QED
        BY <4>1, <3>3, HandedValues
    <3> QED
      BY <3>1, <3>2, <3>3 DEF DbTypeOK
  <2>2. CASE flushing # "next"
    BY <2>2, HandedValues
  <2> QED
    BY <2>1, <2>2
<1>4. HandedIsDurable'
  BY <1>3 DEF HandedIsDurable
<1>5. MemoryAhead'
  BY CounterValues DEF DbTypeOK, MemoryAhead
<1> QED
  BY <1>2, <1>4, <1>5 DEF SavedIsDurable, SavedInMemory, ClosedIsIdle, NextIsFresh

LEMMA ReleaseInv ==
  ASSUME DbInv, NEW p \in Procs, Release(p) PROVE DbInv'
<1> USE DEF DbInv, Release, disk
<1>1. DbTypeOK'
  BY DEF DbTypeOK
<1>2. MemoryAhead'
  BY CounterValues DEF DbTypeOK, MemoryAhead
<1> QED
  BY <1>1, <1>2
     DEF HandedIsDurable, SavedIsDurable, SavedInMemory, ClosedIsIdle, NextIsFresh

LEMMA BackgroundFlushInv ==
  ASSUME DbInv, BackgroundFlush PROVE DbInv'
<1> USE DEF DbInv, BackgroundFlush, mem
<1>1. DbTypeOK'
  BY DEF DbTypeOK
<1>2. ASSUME NEW i \in 1 .. Len(handed)
      PROVE  counter # Missing /\ handed[i] <= counter
  BY HandedValues
<1>3. MemoryAhead'
  BY CounterValues DEF DbTypeOK, MemoryAhead
<1> QED
  BY <1>1, <1>2, <1>3
     DEF HandedIsDurable, SavedIsDurable, SavedInMemory, ClosedIsIdle, NextIsFresh

LEMMA DbNextInv == DbInv /\ [DbNext]_dbVars => DbInv'
<1> SUFFICES ASSUME DbInv, [DbNext]_dbVars PROVE DbInv'
  OBVIOUS
<1>1. CASE DbNext
  BY <1>1, OpenInv, NextReclaimCounterInv, EnsureReclaimCounterAtLeastInv,
     AddDescInv, RemoveInv, FlushReturnsInv, ReleaseInv, BackgroundFlushInv
     DEF DbNext
<1>2. CASE UNCHANGED dbVars
  BY <1>2
     DEF dbVars, DbInv, DbTypeOK, HandedIsDurable, SavedIsDurable, MemoryAhead,
         SavedInMemory, ClosedIsIdle, NextIsFresh
<1> QED
  BY <1>1, <1>2

(***************************************************************************)
(* The invariant holds through every operation, flush and crash.  From it  *)
(* follow the types and the two promises of the database.                  *)
(***************************************************************************)
THEOREM DbInvariance == DbSpec => []DbInv
BY DbInitInv, DbNextInv, PTL DEF DbSpec

\* The database holds counters and descriptors, its lock a process or nobody.
THEOREM DbTypeCorrect == DbSpec => []DbTypeOK
<1>1. DbInv => DbTypeOK
  BY DEF DbInv
<1> QED
  BY <1>1, DbInvariance, PTL

\* A counter that next_reclaim_counter returned is covered by the one on disk.
THEOREM CountersDurable == DbSpec => []HandedIsDurable
<1>1. DbInv => HandedIsDurable
  BY DEF DbInv
<1> QED
  BY <1>1, DbInvariance, PTL

\* A descriptor that add_desc returned for is on disk until it is removed.
THEOREM DescriptorsDurable == DbSpec => []SavedIsDurable
<1>1. DbInv => SavedIsDurable
  BY DEF DbInv
<1> QED
  BY <1>1, DbInvariance, PTL

(***************************************************************************)
(* No step takes the counter on disk back: a flush writes the holder's     *)
(* counter, which is never below it.                                       *)
(***************************************************************************)
THEOREM NoRollback == DbSpec => CounterNeverRollsBack
<1> DEFINE NoLower == diskCounter # Missing =>
                        diskCounter' # Missing /\ diskCounter' >= diskCounter
<1>1. DbInv /\ [DbNext]_dbVars => [NoLower]_dbVars
  <2> SUFFICES ASSUME DbInv, DbNext PROVE NoLower
    BY DEF dbVars
  <2>1. CASE diskCounter' = diskCounter
    <3>1. diskCounter # Missing => diskCounter \in Nat
      BY CounterValues DEF DbInv, DbTypeOK
    <3> QED
      BY <2>1, <3>1
  <2>2. CASE diskCounter' = counter
    BY <2>2 DEF DbInv, MemoryAhead
  <2>3. diskCounter' = diskCounter \/ diskCounter' = counter
    BY DEF DbNext, Open, NextReclaimCounter, EnsureReclaimCounterAtLeast, AddDesc,
           Remove, FlushReturns, BackgroundFlush, Release, disk
  <2> QED
    BY <2>1, <2>2, <2>3
<1> QED
  BY <1>1, DbInvariance, PTL DEF DbSpec, CounterNeverRollsBack

(***************************************************************************)
(* The database implements CounterAllocator.  Only the return of           *)
(* next_reclaim_counter hands out a counter, and NextIsFresh is what makes *)
(* that step one the allocator allows.                                     *)
(***************************************************************************)
THEOREM AllocatorImplemented == DbSpec => ImplementsAllocator
<1>1. DbInit => Allocator!Init
  BY DEF DbInit, Allocator!Init
<1>2. DbInv /\ [DbNext]_dbVars => [Allocator!Next]_handed
  <2> SUFFICES ASSUME DbInv, DbNext, handed' # handed PROVE Allocator!Next
    BY DEF dbVars
  <2>1. PICK p \in Procs : FlushReturns(p)
    BY DEF DbNext, Open, NextReclaimCounter, EnsureReclaimCounterAtLeast, AddDesc,
           Remove, BackgroundFlush, Release
  <2>2. flushing = "next" /\ handed' = Append(handed, counter)
    BY <2>1 DEF FlushReturns
  <2>3. counter \in Counters /\ \A i \in 1 .. Len(handed) : handed[i] < counter
    BY <2>2 DEF DbInv, DbTypeOK, NextIsFresh
  <2>4. Allocator!Issue(counter)
    BY <2>2, <2>3 DEF Allocator!Issue
  <2> QED
    BY <2>3, <2>4 DEF Allocator!Next
<1> QED
  BY <1>1, <1>2, DbInvariance, PTL DEF DbSpec, ImplementsAllocator, Allocator!Spec
=============================================================================
