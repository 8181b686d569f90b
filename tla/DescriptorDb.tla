---------------------------- MODULE DescriptorDb ----------------------------
(***************************************************************************)
(* The descriptor database: crates/bitcoin-wallet/src/recovery.rs, a sled  *)
(* database on disk that holds the counter the next deposit's reclaim key  *)
(* is derived from and one encrypted descriptor per deposit request.       *)
(*                                                                         *)
(* Several invocations of the program may run at once; sled gives the      *)
(* files to one of them at a time and makes the others fail.  An update    *)
(* changes the holder's memory at once and reaches the disk with the next  *)
(* flush, which the code awaits in next_reclaim_counter,                   *)
(* ensure_reclaim_counter_at_least and add_desc but not in remove; sled    *)
(* also flushes on a timer.  A process that ends, fails or panics (the     *)
(* release profile aborts on a panic) leaves what was flushed.             *)
(***************************************************************************)
EXTENDS Integers, Sequences, FiniteSets

CONSTANTS
  Procs,        \* invocations of the program
  NoProc,       \* "nobody has the database open"
  Descs,        \* descriptor entries, the key's recover_at included
  Missing,      \* the counter of a database that never held one
  MaxCounter    \* bound: counters stay below the width of the code's u32

ASSUME NoProcAssumption == NoProc \notin Procs
ASSUME MissingAssumption == Missing \notin Int
ASSUME MaxCounterAssumption == MaxCounter \in Nat

VARIABLES
  diskCounter,  \* the reclaim counter a crash leaves
  diskDescs,    \* the descriptor entries a crash leaves
  counter,      \* the holder's view of the counter: updates not flushed too
  descs,        \* the holder's view of the entries
  lock,         \* the process that has the database open
  flushing,     \* the call of the holder that awaits flush_async
  adding,       \* the entry whose insertion awaits the flush
  handed,       \* the counters next_reclaim_counter returned, in order
  saved         \* the entries add_desc returned for and remove did not delete

disk == <<diskCounter, diskDescs>>
mem == <<counter, descs>>
dbVars == <<diskCounter, diskDescs, counter, descs, lock, flushing, adding,
            handed, saved>>

Counters == 0 .. MaxCounter
DbTypeOK ==
  /\ diskCounter \in Counters \cup {Missing}
  /\ diskDescs \in SUBSET Descs
  /\ counter \in Counters \cup {Missing}
  /\ descs \in SUBSET Descs
  /\ lock \in Procs \cup {NoProc}
  /\ flushing \in {"idle", "next", "ensure", "add"}
  /\ adding \in SUBSET Descs
  /\ handed \in Seq(Counters)
  /\ saved \in SUBSET Descs

DbInit ==
  /\ diskCounter = Missing
  /\ diskDescs = {}
  /\ counter = Missing
  /\ descs = {}
  /\ lock = NoProc
  /\ flushing = "idle"
  /\ adding = {}
  /\ handed = << >>
  /\ saved = {}

Holds(p) == lock = p /\ flushing = "idle"

-----------------------------------------------------------------------------

\* sled::open takes the files' lock; the holder reads what is on disk.
Open(p) ==
  /\ lock = NoProc
  /\ lock' = p
  /\ counter' = diskCounter
  /\ descs' = diskDescs
  /\ UNCHANGED <<disk, flushing, adding, handed, saved>>

\* update_and_fetch increments the counter in memory; a database without a
\* counter is the error NotFound, which changes nothing.
NextReclaimCounter(p) ==
  /\ Holds(p)
  /\ counter # Missing
  /\ counter < MaxCounter
  /\ counter' = counter + 1
  /\ flushing' = "next"
  /\ UNCHANGED <<disk, descs, lock, adding, handed, saved>>

\* Mutants: the minimum replaces a higher value, or is added to it.
AtLeastOverwrites(value, minimum) == minimum
AtLeastAdds(value, minimum) == IF value = Missing THEN minimum ELSE value + minimum

AtLeast(value, minimum) ==
  IF value = Missing \/ value < minimum THEN minimum ELSE value

EnsureReclaimCounterAtLeast(p, minimum) ==
  /\ Holds(p)
  /\ counter' = AtLeast(counter, minimum)
  /\ flushing' = "ensure"
  /\ UNCHANGED <<disk, descs, lock, adding, handed, saved>>

AddDesc(p, d) ==
  /\ Holds(p)
  /\ descs' = descs \cup {d}
  /\ flushing' = "add"
  /\ adding' = {d}
  /\ UNCHANGED <<disk, counter, lock, handed, saved>>

\* No flush: a crash may bring the entry back.
Remove(p, d) ==
  /\ Holds(p)
  /\ d \in descs
  /\ descs' = descs \ {d}
  /\ saved' = saved \ {d}
  /\ UNCHANGED <<disk, counter, lock, flushing, adding, handed>>

\* Mutant: the call returns its result before the flush has ended.
ReturnsUnflushed(p) ==
  /\ lock = p
  /\ flushing # "idle"
  /\ handed' = IF flushing = "next" THEN Append(handed, counter) ELSE handed
  /\ saved' = saved \cup adding
  /\ flushing' = "idle"
  /\ adding' = {}
  /\ UNCHANGED <<disk, mem, lock>>

\* The awaited flush_async ends and the call returns its result.
FlushReturns(p) ==
  /\ lock = p
  /\ flushing # "idle"
  /\ diskCounter' = counter
  /\ diskDescs' = descs
  /\ handed' = IF flushing = "next" THEN Append(handed, counter) ELSE handed
  /\ saved' = saved \cup adding
  /\ flushing' = "idle"
  /\ adding' = {}
  /\ UNCHANGED <<mem, lock>>

\* sled's own flusher thread.
BackgroundFlush ==
  /\ lock # NoProc
  /\ disk # mem
  /\ diskCounter' = counter
  /\ diskDescs' = descs
  /\ UNCHANGED <<mem, lock, flushing, adding, handed, saved>>

\* The process returns, fails, panics or is killed: at any point, a flush
\* that was awaited included.
Release(p) ==
  /\ lock = p
  /\ lock' = NoProc
  /\ counter' = diskCounter
  /\ descs' = diskDescs
  /\ flushing' = "idle"
  /\ adding' = {}
  /\ UNCHANGED <<disk, handed, saved>>

DbNext ==
  \/ \E p \in Procs :
       \/ Open(p)
       \/ NextReclaimCounter(p)
       \/ \E minimum \in Counters : EnsureReclaimCounterAtLeast(p, minimum)
       \/ \E d \in Descs : AddDesc(p, d) \/ Remove(p, d)
       \/ FlushReturns(p)
       \/ Release(p)
  \/ BackgroundFlush

DbSpec == DbInit /\ [][DbNext]_dbVars

-----------------------------------------------------------------------------

(***************************************************************************)
(* Every counter the allocator returned is covered by the counter on disk. *)
(* next_reclaim_counter promises it ("flushed to disk before this          *)
(* returns"), and it is why a crash cannot make it return a counter twice. *)
(***************************************************************************)
HandedIsDurable ==
  \A i \in 1 .. Len(handed) :
     /\ diskCounter # Missing
     /\ handed[i] <= diskCounter

(***************************************************************************)
(* A descriptor that add_desc returned for is on disk until remove deletes *)
(* it, whatever crashes: deposit broadcasts only after add_desc.           *)
(***************************************************************************)
SavedIsDurable == saved \subseteq diskDescs

(***************************************************************************)
(* The strengthening under which both are inductive: the holder's memory   *)
(* is ahead of the disk, and a counter about to be returned is above all   *)
(* those returned before.                                                  *)
(***************************************************************************)
MemoryAhead ==
  diskCounter # Missing => counter # Missing /\ counter >= diskCounter

SavedInMemory == saved \cup adding \subseteq descs

ClosedIsIdle ==
  /\ lock = NoProc => flushing = "idle"
  /\ flushing # "add" => adding = {}

NextIsFresh ==
  flushing = "next" =>
    /\ counter # Missing
    /\ \A i \in 1 .. Len(handed) : handed[i] < counter

DbInv ==
  /\ DbTypeOK
  /\ HandedIsDurable
  /\ SavedIsDurable
  /\ MemoryAhead
  /\ SavedInMemory
  /\ ClosedIsIdle
  /\ NextIsFresh

(***************************************************************************)
(* A counter on disk never decreases: ensure_reclaim_counter_at_least      *)
(* keeps a higher value, and no crash brings an older one back.            *)
(***************************************************************************)
CounterNeverRollsBack ==
  [][diskCounter # Missing =>
       diskCounter' # Missing /\ diskCounter' >= diskCounter]_dbVars

(***************************************************************************)
(* The database implements the allocator: the counters handed out increase *)
(* strictly across processes, crashes and flushes.                         *)
(***************************************************************************)
Allocator == INSTANCE CounterAllocator WITH issued <- handed
ImplementsAllocator == Allocator!Spec
=============================================================================
