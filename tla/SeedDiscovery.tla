--------------------------- MODULE SeedDiscovery ----------------------------
(***************************************************************************)
(* discover_seed_candidates of crates/bitcoin-wallet/src/recover.rs: which *)
(* reclaim counters of a seed have history on the chain, found without any *)
(* local state.  Counters are examined upwards from 1 in batches of the    *)
(* gap limit, one backend scan per batch, and the search ends after that   *)
(* many counters in a row without history, wherever the batch borders are. *)
(*                                                                         *)
(* A counter stands for the script of its reclaim descriptor: the key is a *)
(* function of the seed and the counter.  Batches, and the requests of one *)
(* scan, see the chain and the mempool at different times: transactions    *)
(* appear and are mined between them.                                      *)
(***************************************************************************)
EXTENDS GapReach

CONSTANTS
  UsedLimit,   \* bound: the largest counter that has history
  MaxU32,      \* the largest batch_end that fits, u32::MAX in the code
  MaxIndex     \* the largest counter a key is derived for, 2^31 - 1 in the code

ASSUME UsedLimitAssumption == UsedLimit \in Nat
ASSUME WidthAssumption == {MaxU32, MaxIndex} \subseteq Nat /\ UsedLimit <= MaxIndex

VARIABLES
  used,        \* the counters with history on the chain or in the mempool
  confirmed,   \* those of them whose transaction is in a block
  known,       \* known_used_scripts: those the caller has just drained
  before,      \* used when the search began
  slipped,     \* counters mined between the two halves of their scan
  backend,
  phase,       \* what the search does next
  batchStart,
  asking,      \* Esplora: scripts whose answer is not in yet
  scanned,     \* backend_used_scripts of the current batch
  candidate,   \* the candidate of the batch to classify next
  unused,      \* consecutive_unused
  discovered

network == <<used, confirmed, slipped>>
settled == <<known, before, backend>>
scan == <<asking, scanned>>
loop == <<batchStart, candidate, unused, discovered>>
vars == <<network, settled, phase, scan, loop>>

Backends == {"core", "esplora"}
Scanning == {"scan", "asking", "mempool"}
Phases == {"begin", "classify", "done", "rejected", "failed", "panicked"} \cup Scanning

TypeOK ==
  /\ used \in SUBSET (1 .. UsedLimit)
  /\ confirmed \in SUBSET used
  /\ known \in SUBSET used
  /\ before \in SUBSET used
  /\ slipped \in SUBSET used
  /\ backend \in Backends
  /\ phase \in Phases
  /\ batchStart \in Nat
  /\ asking \in SUBSET Nat
  /\ scanned \in SUBSET used
  /\ candidate \in Nat
  /\ unused \in Nat
  /\ discovered \in SUBSET used

\* What was drained was in a block.
Init ==
  /\ used \in SUBSET (1 .. UsedLimit)
  /\ confirmed \in SUBSET used
  /\ known \in SUBSET confirmed
  /\ before = used
  /\ slipped = {}
  /\ backend \in Backends
  /\ phase = "begin"
  /\ batchStart = 1
  /\ asking = {} /\ scanned = {}
  /\ candidate = 1
  /\ unused = 0
  /\ discovered = {}

-----------------------------------------------------------------------------

BatchEnd == batchStart + GapLimit
Batch == batchStart .. BatchEnd - 1
Scripts == Batch \ known

\* drt_reclaim_keypair derives a hardened key, whose index has 31 bits.
HasReclaimKey(c) == c <= MaxIndex

ScriptsDerived == BatchEnd <= MaxU32 /\ \A c \in Batch : HasReclaimKey(c)

Begin ==
  /\ phase = "begin"
  /\ phase' = IF GapLimit = 0 THEN "rejected" ELSE "scan"
  /\ UNCHANGED <<network, settled, scan, loop>>

\* A batch beyond the width of a counter or of a key's index: the expect aborts.
ScanPanics ==
  /\ phase = "scan"
  /\ ~ ScriptsDerived
  /\ phase' = "panicked"
  /\ UNCHANGED <<network, settled, scan, loop>>

\* A batch of known scripts needs no backend.
NothingToScan ==
  /\ phase = "scan" /\ ScriptsDerived
  /\ Scripts = {}
  /\ scanned' = {}
  /\ phase' = "classify"
  /\ UNCHANGED <<network, settled, asking, loop>>

\* Esplora is asked for the history of each script, in the mempool and in blocks,
\* by one request; PARALLEL_REQUESTS of them run at once.
EsploraScan ==
  /\ phase = "scan" /\ ScriptsDerived
  /\ backend = "esplora" /\ Scripts # {}
  /\ asking' = Scripts
  /\ scanned' = {}
  /\ phase' = "asking"
  /\ UNCHANGED <<network, settled, loop>>

EsploraAnswers(c) ==
  /\ phase = "asking" /\ c \in asking
  /\ asking' = asking \ {c}
  /\ scanned' = scanned \cup ({c} \cap used)
  /\ phase' = IF asking' = {} THEN "classify" ELSE "asking"
  /\ UNCHANGED <<network, settled, loop>>

\* Bitcoin Core emits blocks until there is no further one: what is in a block
\* by then is seen.
CoreBlocks ==
  /\ phase = "scan" /\ ScriptsDerived
  /\ backend = "core" /\ Scripts # {}
  /\ scanned' = Scripts \cap confirmed
  /\ phase' = "mempool"
  /\ UNCHANGED <<network, settled, asking, loop>>

\* Then it gives the mempool; blocks mined in between are not looked at.
CoreMempool ==
  /\ phase = "mempool"
  /\ scanned' = scanned \cup (Scripts \cap (used \ confirmed))
  /\ phase' = "classify"
  /\ UNCHANGED <<network, settled, asking, loop>>

ScanFails ==
  /\ phase \in {"asking", "mempool"} \/ (phase = "scan" /\ ScriptsDerived /\ Scripts # {})
  /\ phase' = "failed"
  /\ UNCHANGED <<network, settled, scan, loop>>

\* Mutants: the count of unused counters goes on; the loop does not advance.
ClassifyUsedKeepsCount ==
  /\ phase = "classify"
  /\ candidate < BatchEnd
  /\ candidate \in known \cup scanned
  /\ discovered' = discovered \cup {candidate}
  /\ candidate' = candidate + 1
  /\ UNCHANGED <<network, settled, phase, scan, batchStart, unused>>

ClassifyUsedStays ==
  /\ phase = "classify"
  /\ candidate < BatchEnd
  /\ candidate \in known \cup scanned
  /\ unused' = 0
  /\ discovered' = discovered \cup {candidate}
  /\ UNCHANGED <<network, settled, phase, scan, batchStart, candidate>>

\* The candidate is used: it is discovered and the count restarts.
ClassifyUsed ==
  /\ phase = "classify"
  /\ candidate < BatchEnd
  /\ candidate \in known \cup scanned
  /\ unused' = 0
  /\ discovered' = discovered \cup {candidate}
  /\ candidate' = candidate + 1
  /\ UNCHANGED <<network, settled, phase, scan, batchStart>>

\* The candidate is unused: the gap limit in a row ends the search.
ClassifyUnused ==
  /\ phase = "classify"
  /\ candidate < BatchEnd
  /\ candidate \notin known \cup scanned
  /\ unused' = unused + 1
  /\ phase' = IF unused' = GapLimit THEN "done" ELSE "classify"
  /\ candidate' = candidate + 1
  /\ UNCHANGED <<network, settled, scan, batchStart, discovered>>

\* Mutant: every batch counts its unused counters afresh.
NextBatchResetsCount ==
  /\ phase = "classify"
  /\ candidate = BatchEnd
  /\ batchStart' = BatchEnd
  /\ phase' = "scan"
  /\ unused' = 0
  /\ UNCHANGED <<network, settled, scan, candidate, discovered>>

NextBatch ==
  /\ phase = "classify"
  /\ candidate = BatchEnd
  /\ batchStart' = BatchEnd
  /\ phase' = "scan"
  /\ UNCHANGED <<network, settled, scan, candidate, unused, discovered>>

\* The environment: a deposit request reaches the mempool or a block.
Appears(c) ==
  /\ phase \in Scanning \cup {"classify"}
  /\ c \notin used
  /\ used' = used \cup {c}
  /\ UNCHANGED <<confirmed, slipped, settled, phase, scan, loop>>

\* A block takes it from the mempool.
Mined(c) ==
  /\ phase \in Scanning \cup {"classify"}
  /\ c \in used \ confirmed
  /\ confirmed' = confirmed \cup {c}
  /\ slipped' = IF phase = "mempool" THEN slipped \cup ({c} \cap Scripts) ELSE slipped
  /\ UNCHANGED <<used, settled, phase, scan, loop>>

Step ==
  \/ Begin
  \/ ScanPanics
  \/ NothingToScan
  \/ EsploraScan \/ \E c \in asking : EsploraAnswers(c)
  \/ CoreBlocks \/ CoreMempool
  \/ ScanFails
  \/ ClassifyUsed
  \/ ClassifyUnused
  \/ NextBatch

Next == Step \/ \E c \in 1 .. UsedLimit : Appears(c) \/ Mined(c)

Spec == Init /\ [][Next]_vars

\* The search is a loop of the program: it takes its next step.
FairSpec == Spec /\ WF_vars(Step)

-----------------------------------------------------------------------------

(***************************************************************************)
(* The search finds every counter that was reachable when it began, and    *)
(* reports none that is not reachable: what reconstruct_reclaim_counter    *)
(* and recover_from_seed take for the whole set of deposits of the seed.   *)
(* On Bitcoin Core this leaves out the counters whose transaction was mined*)
(* between the two halves of their scan, and those beyond them.  With a    *)
(* chain at rest the two bounds coincide.                                  *)
(***************************************************************************)
FindsReachable ==
  phase = "done" =>
    /\ Reachable(before \ slipped) \subseteq discovered
    /\ discovered \subseteq Reachable(used)
    /\ backend = "esplora" => slipped = {}

(***************************************************************************)
(* The loop invariant: everything below the candidate that had history     *)
(* when the search began, but for what slipped, is discovered, the last    *)
(* unused counters are not, and the one before them is (or is 0, the start)*)
(***************************************************************************)
LoopInv ==
  /\ candidate >= 1
  /\ unused < candidate
  /\ \A c \in discovered : c < candidate
  /\ \A c \in before \ slipped : c < candidate => c \in discovered
  /\ \A c \in discovered : c < candidate - unused
  /\ candidate - 1 - unused \in discovered \cup {0}
  /\ \A c \in discovered : \A a \in 0 .. c - 1 :
       \E u \in discovered : a < u /\ u <= a + GapLimit
  /\ phase \in Scanning \cup {"classify"} => GapLimit > 0 /\ unused < GapLimit
  /\ phase = "begin" => unused = 0
  /\ phase \in {"begin"} \cup Scanning => candidate = batchStart
  /\ phase = "classify" => batchStart <= candidate /\ candidate <= BatchEnd
  /\ phase = "done" => unused = GapLimit

\* What the scan of a batch has not missed so far.
ScanInv ==
  /\ backend = "esplora" => phase # "mempool" /\ slipped = {}
  /\ phase = "asking" => (before \cap Scripts) \subseteq (scanned \cup asking)
  /\ phase = "mempool" =>
       ((before \ slipped) \cap Scripts) \subseteq (scanned \cup (used \ confirmed))
  /\ phase = "classify" => ((before \ slipped) \cap Batch) \subseteq (known \cup scanned)

SearchInv == TypeOK /\ LoopInv /\ ScanInv

(***************************************************************************)
(* The search ends: with a result, with an error, or with the panic the    *)
(* width of the counters prescribes.  The unbounded loop depends on the    *)
(* number of counters with history being finite.                           *)
(***************************************************************************)
Terminates == <>(phase \in {"done", "rejected", "failed", "panicked"})
=============================================================================
