-------------------------- MODULE DepositRecovery ---------------------------
(***************************************************************************)
(* The commands `alpen deposit` (bin/alpen/src/cmd/deposit.rs) and         *)
(* `alpen recover` (crates/bitcoin-wallet/src/recover.rs) over the         *)
(* descriptor database and the Bitcoin network.  Each invocation is a      *)
(* process that may fail at every step; several may run at once, and only  *)
(* the one that has the database open goes past that point.                *)
(*                                                                         *)
(* deposit: sync, fee rate, open, search the seed's counters if the        *)
(* counter is missing, reserve a counter, build, save the descriptor,      *)
(* broadcast.                                                              *)
(* recover: sync, open and read the descriptors that are due, fee rate,    *)
(* drain or clean up each of them, search the seed's counters, drain the   *)
(* mature ones, raise the counter to the highest found.                    *)
(*                                                                         *)
(* A search takes many requests (SeedDiscovery).  Here it begins and ends: *)
(* it finds what is reachable among the scripts its scans show, which are  *)
(* those used when it began but for what slips through: a request that is  *)
(* dropped, or one that Bitcoin Core mines between the halves of its scan. *)
(***************************************************************************)
EXTENDS DescriptorDb, BitcoinChain, GapReach, FiniteSetsExt

CONSTANTS
  FinalityDepth,  \* settings.finality_depth
  CleanupDelay,   \* RECOVERY_DESC_CLEANUP_DELAY
  MaxFaults,      \* bound: failed commands, transactions dropped or slipped
  MaxDbLosses,    \* bound: losses of the data directory
  MaxKeyChanges,  \* bound: changes of the bridge's key
  LaggyBackend,   \* whether a backend may not show a reclaim just broadcast
  TwoPartScan     \* whether a scan reads the blocks first, then the mempool

\* A descriptor entry: the counter of its key and the height it is due at.
RecoverAt(from) == from + RecoveryDelay + FinalityDepth

ASSUME ParametersAssumption ==
  /\ {RecoveryDelay, FinalityDepth, CleanupDelay, MaxHeight, ConfirmBy} \subseteq Nat
  /\ {MaxFaults, MaxDbLosses, MaxKeyChanges} \subseteq Nat
  /\ ConfirmWindow \in Nat \ {0}
ASSUME DepositsAssumption == Deposits = 1 .. MaxCounter
ASSUME DescsAssumption ==
  Descs = [counter : Deposits, recoverAt : 0 .. RecoverAt(MaxHeight)]

VARIABLES
  pc,         \* the next step of each process
  tip,        \* height of the tip a process's wallet synced to
  todo,       \* recover: due descriptors not handled yet
  candidates, \* recover: counters found from the seed not handled yet
  highest,    \* recover: the highest counter found
  drained,    \* recover: drained_recovery_scripts
  shown,      \* what the scans of the search that is under way show as used
  twice,      \* counters a run tried to drain again
  reused,     \* counters broadcast while an output of theirs was outstanding
  missed,     \* counters that slipped through the last search for a lost counter
              \* and that no run of recover has put below it since
  former,     \* counters whose output was made for a key the bridge no longer has
  faults,
  losses,
  keyChanges

runVars == <<todo, candidates, highest, drained, shown>>
ghostVars == <<twice, reused, missed>>
budgets == <<former, faults, losses, keyChanges>>
vars == <<dbVars, chainVars, pc, tip, runVars, ghostVars, budgets>>

DepositSteps == {"fee", "openDeposit", "counter", "searchCounter", "saveCounter",
                 "reserve", "saveReserve", "build", "saveDesc", "broadcast"}
RecoverSteps == {"openRecover", "recoverFee", "descs", "searchSeed", "seed",
                 "saveHighest", "end"}

TypeOK ==
  /\ DbTypeOK
  /\ ChainTypeOK
  /\ pc \in [Procs -> {"idle"} \cup DepositSteps \cup RecoverSteps]
  /\ tip \in [Procs -> 0 .. MaxHeight]
  /\ todo \in SUBSET Descs
  /\ candidates \in SUBSET Deposits
  /\ highest \in Counters
  /\ drained \in SUBSET Deposits
  /\ shown \in SUBSET Deposits
  /\ twice \in SUBSET Deposits
  /\ reused \in SUBSET Deposits
  /\ missed \in SUBSET Deposits
  /\ faults \in 0 .. MaxFaults
  /\ losses \in 0 .. MaxDbLosses
  /\ former \in SUBSET Deposits
  /\ keyChanges \in 0 .. MaxKeyChanges

Init ==
  /\ DbInit
  /\ ChainInit
  /\ pc = [p \in Procs |-> "idle"]
  /\ tip = [p \in Procs |-> 0]
  /\ todo = {} /\ candidates = {} /\ highest = 0 /\ drained = {} /\ shown = {}
  /\ twice = {} /\ reused = {} /\ missed = {}
  /\ former = {} /\ faults = 0 /\ losses = 0 /\ keyChanges = 0

Goto(p, step) == pc' = [pc EXCEPT ![p] = step]

At(p, step) == pc[p] = step

\* The invocation is over and what it held in memory is gone.
Exit(p) ==
  /\ pc' = [pc EXCEPT ![p] = "idle"]
  /\ tip' = [tip EXCEPT ![p] = 0]

ForgetRun ==
  todo' = {} /\ candidates' = {} /\ highest' = 0 /\ drained' = {} /\ shown' = {}

-----------------------------------------------------------------------------
(* Steps of deposit.                                                       *)

\* BitcoinWallet::new and sync; the tip stays what the wallet saw here.
StartDeposit(p) ==
  /\ At(p, "idle")
  /\ Goto(p, "fee")
  /\ tip' = [tip EXCEPT ![p] = height]
  /\ UNCHANGED <<dbVars, chainVars, runVars, ghostVars, budgets>>

\* get_fee_rate accepts the rate, or the command ends before it reserves.
DepositFee(p) ==
  /\ At(p, "fee")
  /\ \/ Goto(p, "openDeposit") /\ UNCHANGED tip
     \/ Exit(p)
  /\ UNCHANGED <<dbVars, chainVars, runVars, ghostVars, budgets>>

OpenDeposit(p) ==
  /\ At(p, "openDeposit")
  /\ Open(p)
  /\ Goto(p, "counter")
  /\ UNCHANGED <<chainVars, tip, runVars, ghostVars, budgets>>

\* Another process has the database open.
OpenRefused(p) ==
  /\ pc[p] \in {"openDeposit", "openRecover"}
  /\ lock # NoProc
  /\ Exit(p)
  /\ UNCHANGED <<dbVars, chainVars, runVars, ghostVars, budgets>>

\* Counters whose script, of the bridge's key and delay in the settings, is used.
UsedScripts == UsedCounters \ former

\* A search begins; its caller goes on when it has returned.
BeginSearch ==
  /\ shown' = UsedScripts
  /\ missed' = IF counter = Missing THEN {} ELSE missed
  /\ UNCHANGED <<dbVars, chainVars, tip, todo, candidates, highest, drained,
                 twice, reused, budgets>>

\* current_reclaim_counter is None: the seed's search tells the minimum.
BeginReconstruction(p) ==
  /\ At(p, "counter")
  /\ counter = Missing
  /\ Goto(p, "searchCounter")
  /\ BeginSearch

\* The highest counter with a script that is used (0 if there is none).
HighestFound == Max(Reachable(shown) \cup {0})

\* Mutant: a missing counter starts at zero whatever the search found.
StartAtZero(p) ==
  /\ At(p, "searchCounter")
  /\ EnsureReclaimCounterAtLeast(p, 0)
  /\ shown' = {}
  /\ Goto(p, "saveCounter")
  /\ UNCHANGED <<chainVars, tip, todo, candidates, highest, drained, ghostVars, budgets>>

\* reconstruct_reclaim_counter has returned: the minimum of the missing counter.
ReconstructCounter(p) ==
  /\ At(p, "searchCounter")
  /\ EnsureReclaimCounterAtLeast(p, HighestFound)
  /\ shown' = {}
  /\ Goto(p, "saveCounter")
  /\ UNCHANGED <<chainVars, tip, todo, candidates, highest, drained, ghostVars, budgets>>

CounterSaved(p) ==
  /\ At(p, "saveCounter")
  /\ FlushReturns(p)
  /\ Goto(p, "reserve")
  /\ UNCHANGED <<chainVars, tip, runVars, ghostVars, budgets>>

ReserveCounter(p) ==
  /\ \/ At(p, "counter") /\ counter # Missing
     \/ At(p, "reserve")
  /\ NextReclaimCounter(p)
  /\ Goto(p, "saveReserve")
  /\ UNCHANGED <<chainVars, tip, runVars, ghostVars, budgets>>

\* Bound: the model has no counter above MaxCounter.
OutOfCounters(p) ==
  /\ pc[p] \in {"counter", "reserve"}
  /\ counter = MaxCounter
  /\ Release(p)
  /\ Exit(p)
  /\ UNCHANGED <<chainVars, runVars, ghostVars, budgets>>

\* Mutant: the fee rate is looked up, and may be refused, after the reserve.
FeeAfterReserve(p) ==
  \/ /\ At(p, "saveReserve")
     /\ FlushReturns(p)
     /\ Goto(p, "build")
     /\ UNCHANGED <<chainVars, tip, runVars, ghostVars, budgets>>
  \/ /\ At(p, "build")
     /\ Release(p)
     /\ Exit(p)
     /\ UNCHANGED <<chainVars, runVars, ghostVars, budgets>>

CounterReserved(p) ==
  /\ At(p, "saveReserve")
  /\ FlushReturns(p)
  /\ Goto(p, "build")
  /\ UNCHANGED <<chainVars, tip, runVars, ghostVars, budgets>>

\* prepare_deposit_request, and the height from the tip the wallet synced to: the
\* script is told by the counter of its reclaim key and the bridge's key.
RequestDesc(p) == [counter |-> counter, recoverAt |-> RecoverAt(tip[p])]

\* The request is built, the wallet persisted, the descriptor inserted. (Too
\* little money is an error here, one of the failures of Fail.)
SaveDescriptor(p) ==
  /\ At(p, "build")
  /\ AddDesc(p, RequestDesc(p))
  /\ Goto(p, "saveDesc")
  /\ UNCHANGED <<chainVars, tip, runVars, ghostVars, budgets>>

\* Mutant: the request is broadcast without waiting for the flush.
BroadcastsUnsaved(p) ==
  /\ At(p, "saveDesc")
  /\ Goto(p, "broadcast")
  /\ UNCHANGED <<dbVars, chainVars, tip, runVars, ghostVars, budgets>>

DescriptorSaved(p) ==
  /\ At(p, "saveDesc")
  /\ FlushReturns(p)
  /\ Goto(p, "broadcast")
  /\ UNCHANGED <<chainVars, tip, runVars, ghostVars, budgets>>

\* The network has the request, whether or not the reply arrives.
BroadcastDeposit(p) ==
  /\ At(p, "broadcast")
  /\ AcceptDeposit(counter, tip[p])
  /\ reused' = IF counter \in Outstanding \ (former \cup missed)
               THEN reused \cup {counter} ELSE reused
  /\ former' = former \ {counter} /\ missed' = missed \ {counter}
  /\ Release(p)
  /\ Exit(p)
  /\ UNCHANGED <<runVars, twice, faults, losses, keyChanges>>

-----------------------------------------------------------------------------
(* Steps of recover.                                                       *)

StartRecover(p) ==
  /\ At(p, "idle")
  /\ Goto(p, "openRecover")
  /\ tip' = [tip EXCEPT ![p] = height]
  /\ UNCHANGED <<dbVars, chainVars, runVars, ghostVars, budgets>>

\* Whether a key is within ..=at: the bound is the height's bytes alone, and a key
\* that begins with them goes on with a hash and sorts after it.
WithinRange(d, at) == d.recoverAt < at

\* read_descs(..=current_height), the height being the wallet's.
DueDescs(at) == {d \in diskDescs : WithinRange(d, at)}

OpenRecover(p) ==
  /\ At(p, "openRecover")
  /\ Open(p)
  /\ todo' = DueDescs(tip[p])
  /\ Goto(p, "recoverFee")
  /\ UNCHANGED <<chainVars, tip, candidates, highest, drained, shown, ghostVars,
                 budgets>>

RecoverFee(p) ==
  /\ At(p, "recoverFee")
  /\ Goto(p, "descs")
  /\ UNCHANGED <<dbVars, chainVars, tip, runVars, ghostVars, budgets>>

RecoverFeeRejected(p) ==
  /\ At(p, "recoverFee")
  /\ Release(p)
  /\ Exit(p)
  /\ ForgetRun
  /\ UNCHANGED <<chainVars, ghostVars, budgets>>

\* The range scan is in the order of the heights.
NextDesc(d) == d \in todo /\ \A e \in todo : d.recoverAt <= e.recoverAt

\* The confirmed balance that a fresh sync of the deposit's own wallet shows.
HasBalance(c) ==
  \/ status[c] = "confirmed"
  \/ LaggyBackend /\ status[c] = "pending"
NoBalance(c) == status[c] # "confirmed"

\* Mutant: a descriptor without a balance is cleaned up as soon as it is due.
NoGraceWindow(d, at) == at >= d.recoverAt

CleanupDelayElapsed(d, at) == at >= d.recoverAt + CleanupDelay

\* No balance within the grace window: the descriptor stays.
KeepDesc(p, d) ==
  /\ At(p, "descs")
  /\ NextDesc(d)
  /\ NoBalance(d.counter)
  /\ ~ CleanupDelayElapsed(d, tip[p])
  /\ todo' = todo \ {d}
  /\ UNCHANGED <<dbVars, chainVars, pc, tip, candidates, highest, drained, shown,
                 ghostVars, budgets>>

RemoveDesc(p, d) ==
  /\ At(p, "descs")
  /\ NextDesc(d)
  /\ NoBalance(d.counter)
  /\ CleanupDelayElapsed(d, tip[p])
  /\ Remove(p, d)
  /\ todo' = todo \ {d}
  /\ UNCHANGED <<chainVars, pc, tip, candidates, highest, drained, shown, ghostVars,
                 budgets>>

NoteDrain(c) == twice' = IF c \in drained THEN twice \cup {c} ELSE twice

DrainDesc(p, d) ==
  /\ At(p, "descs")
  /\ NextDesc(d)
  /\ HasBalance(d.counter)
  /\ AcceptReclaim(d.counter)
  /\ NoteDrain(d.counter)
  /\ drained' = drained \cup {d.counter}
  /\ todo' = todo \ {d}
  /\ UNCHANGED <<dbVars, pc, tip, candidates, highest, shown, reused, missed, budgets>>

\* The node refuses the reclaim: the error ends the whole command.
DrainDescRefused(p, d) ==
  /\ At(p, "descs")
  /\ NextDesc(d)
  /\ HasBalance(d.counter)
  /\ ~ ReclaimValid(d.counter)
  /\ NoteDrain(d.counter)
  /\ Release(p)
  /\ Exit(p)
  /\ ForgetRun
  /\ UNCHANGED <<chainVars, reused, missed, budgets>>

\* Every due descriptor is handled: recover_from_seed.
BeginDiscovery(p) ==
  /\ At(p, "descs")
  /\ todo = {}
  /\ Goto(p, "searchSeed")
  /\ BeginSearch

\* Mutant: the seed's candidates include what was just drained.
SearchIgnoresDrained(p) ==
  /\ At(p, "searchSeed")
  /\ highest' = HighestFound
  /\ candidates' = Reachable(shown)
  /\ shown' = {}
  /\ Goto(p, "seed")
  /\ UNCHANGED <<dbVars, chainVars, tip, todo, drained, ghostVars, budgets>>

\* discover_seed_candidates, with the drained scripts known as used, has returned.
SearchSeed(p) ==
  /\ At(p, "searchSeed")
  /\ highest' = HighestFound
  /\ candidates' = Reachable(shown) \ drained
  /\ shown' = {}
  /\ Goto(p, "seed")
  /\ UNCHANGED <<dbVars, chainVars, tip, todo, drained, ghostVars, budgets>>

NextCandidate(c) == c \in candidates /\ \A d \in candidates : c <= d

\* Mutant: the timelock is counted from the tip, as deposit does.
MaturedFromTip(c) == height >= RecoverAt(height)

\* Matured counts from the block the output is in, on a tip synced just now.
Matured(c) == height >= RecoverAt(confirmedAt[c])

SkipCandidate(p, c) ==
  /\ At(p, "seed")
  /\ NextCandidate(c)
  /\ NoBalance(c) \/ ~ Matured(c)
  /\ candidates' = candidates \ {c}
  /\ UNCHANGED <<dbVars, chainVars, pc, tip, todo, highest, drained, shown, ghostVars,
                 budgets>>

DrainCandidate(p, c) ==
  /\ At(p, "seed")
  /\ NextCandidate(c)
  /\ HasBalance(c) /\ Matured(c)
  /\ AcceptReclaim(c)
  /\ NoteDrain(c)
  /\ candidates' = candidates \ {c}
  /\ UNCHANGED <<dbVars, pc, tip, todo, highest, drained, shown, reused, missed,
                 budgets>>

DrainCandidateRefused(p, c) ==
  /\ At(p, "seed")
  /\ NextCandidate(c)
  /\ HasBalance(c) /\ Matured(c)
  /\ ~ ReclaimValid(c)
  /\ NoteDrain(c)
  /\ Release(p)
  /\ Exit(p)
  /\ ForgetRun
  /\ UNCHANGED <<chainVars, reused, missed, budgets>>

RaiseCounter(p) ==
  /\ At(p, "seed")
  /\ candidates = {}
  /\ EnsureReclaimCounterAtLeast(p, highest)
  /\ Goto(p, "saveHighest")
  /\ UNCHANGED <<chainVars, tip, runVars, ghostVars, budgets>>

\* What an earlier search has missed and this one found is below the counter again.
CounterRaised(p) ==
  /\ At(p, "saveHighest")
  /\ FlushReturns(p)
  /\ missed' = {c \in missed : c > highest}
  /\ Goto(p, "end")
  /\ UNCHANGED <<chainVars, tip, runVars, twice, reused, budgets>>

EndRecover(p) ==
  /\ At(p, "end")
  /\ Release(p)
  /\ Exit(p)
  /\ ForgetRun
  /\ UNCHANGED <<chainVars, ghostVars, budgets>>

-----------------------------------------------------------------------------

\* A call fails and `?` ends the command, a panic aborts it, or it is killed.
Fail(p) ==
  /\ pc[p] # "idle"
  /\ faults < MaxFaults
  /\ faults' = faults + 1
  /\ Exit(p)
  /\ \/ Release(p) /\ ForgetRun
     \/ lock # p /\ UNCHANGED <<dbVars, runVars>>
  /\ UNCHANGED <<chainVars, ghostVars, former, losses, keyChanges>>

\* The data directory is lost, or the seed is restored on another machine.
LoseDatabase ==
  /\ lock = NoProc
  /\ losses < MaxDbLosses
  /\ losses' = losses + 1
  /\ diskCounter' = Missing /\ counter' = Missing
  /\ diskDescs' = {} /\ descs' = {}
  /\ handed' = << >> /\ saved' = {}
  /\ UNCHANGED <<lock, flushing, adding, chainVars, pc, tip, runVars, ghostVars,
                 former, faults, keyChanges>>

\* The settings name another bridge key.  Bound: a counter used before counts as a
\* fault does, since either leaves one that the search takes for unused.
BridgeKeyChanges ==
  /\ keyChanges < MaxKeyChanges
  /\ \A p \in Procs : pc[p] = "idle"
  /\ UsedCounters # {}
  /\ faults + Cardinality(UsedCounters \ former) <= MaxFaults
  /\ keyChanges' = keyChanges + 1
  /\ faults' = faults + Cardinality(UsedCounters \ former)
  /\ former' = UsedCounters
  /\ UNCHANGED <<dbVars, chainVars, pc, tip, runVars, ghostVars, losses>>

Flusher ==
  /\ BackgroundFlush
  /\ UNCHANGED <<chainVars, pc, tip, runVars, ghostVars, budgets>>

\* Requests that a block takes while a search is under way may slip through a scan
\* that reads the blocks first.  Bound: each of them counts as a fault.
Slip(D) ==
  \E S \in SUBSET (D \cap shown) :
    /\ S # {} => TwoPartScan
    /\ shown' = shown \ S
    /\ missed' = IF counter = Missing THEN missed \cup S ELSE missed
    /\ faults + Cardinality(S) <= MaxFaults
    /\ faults' = faults + Cardinality(S)

\* A request that a process is about to broadcast ages as one in the mempool.
Mine ==
  /\ \A p \in Procs : pc[p] \in DepositSteps => height + 1 < tip[p] + ConfirmWindow
  /\ \E D \in SUBSET With("mempool"), R \in SUBSET With("pending") :
       MineBlock(D, R) /\ Slip(D)
  /\ UNCHANGED <<dbVars, pc, tip, todo, candidates, highest, drained, twice, reused,
                 former, losses, keyChanges>>

\* A search that is under way has seen a request that is dropped, or will not.
Drop(c) ==
  /\ \/ DropDeposit(c) /\ shown' \in {shown, shown \ {c}}
     \/ DropReclaim(c) /\ UNCHANGED shown
  /\ faults < MaxFaults
  /\ faults' = faults + 1
  /\ UNCHANGED <<dbVars, pc, tip, todo, candidates, highest, drained, ghostVars,
                 former, losses, keyChanges>>

Claim(c) ==
  /\ BridgeClaims(c)
  /\ UNCHANGED <<dbVars, pc, tip, runVars, ghostVars, budgets>>

DepositStep(p) ==
  \/ DepositFee(p)
  \/ OpenDeposit(p)
  \/ BeginReconstruction(p)
  \/ ReconstructCounter(p)
  \/ CounterSaved(p)
  \/ ReserveCounter(p)
  \/ OutOfCounters(p)
  \/ CounterReserved(p)
  \/ SaveDescriptor(p)
  \/ DescriptorSaved(p)
  \/ BroadcastDeposit(p)

RecoverStep(p) ==
  \/ OpenRecover(p)
  \/ RecoverFee(p)
  \/ \E d \in todo : KeepDesc(p, d) \/ RemoveDesc(p, d)
                       \/ DrainDesc(p, d) \/ DrainDescRefused(p, d)
  \/ BeginDiscovery(p)
  \/ SearchSeed(p)
  \/ \E c \in candidates : SkipCandidate(p, c) \/ DrainCandidate(p, c)
                             \/ DrainCandidateRefused(p, c)
  \/ RaiseCounter(p)
  \/ CounterRaised(p)
  \/ EndRecover(p)

Environment ==
  \/ LoseDatabase
  \/ BridgeKeyChanges
  \/ Flusher
  \/ Mine
  \/ \E c \in Deposits : Drop(c) \/ Claim(c)

Next ==
  \/ \E p \in Procs :
       \/ StartDeposit(p) \/ DepositStep(p)
       \/ StartRecover(p) \/ RecoverStep(p) \/ RecoverFeeRejected(p)
       \/ OpenRefused(p)
       \/ Fail(p)
  \/ Environment

Spec == Init /\ [][Next]_vars

(***************************************************************************)
(* Fairness of a single user: a command that runs takes its next step,     *)
(* blocks are mined, and the user keeps running recover with a fee rate    *)
(* that is accepted again and again.                                       *)
(***************************************************************************)
FairSpec ==
  /\ Spec
  /\ WF_vars(Mine)
  /\ \A p \in Procs :
       /\ WF_vars(DepositStep(p) \/ RecoverStep(p))
       /\ SF_vars(StartRecover(p))
       /\ SF_vars(RecoverFee(p))

-----------------------------------------------------------------------------

\* Outputs that are the user's to take back: no spend of them is known.
Owed == With("mempool") \cup With("confirmed")

HasDescriptor(c) == \E d \in diskDescs : d.counter = c
SeedFinds(c) == c \in Reachable(UsedScripts)

(***************************************************************************)
(* No deposit is stranded: as long as fewer than GapLimit things went      *)
(* wrong, every outstanding request is found by its descriptor or, when    *)
(* the database is lost, by the seed's search.  It needs the counter to be *)
(* reserved as late as possible, saved before it is used and reconstructed *)
(* before it is reserved, and the search to be as patient as it is.  The   *)
(* seed does not find what was deposited for a former bridge key (its      *)
(* comment says so), and each such counter widens the gap to the others.   *)
(* The search is one that no block interrupts: recover can be run again.   *)
(***************************************************************************)
NothingStranded ==
  \A c \in Outstanding : HasDescriptor(c) \/ SeedFinds(c) \/ c \in former

(***************************************************************************)
(* No counter is used for a second request while an output of it is        *)
(* outstanding: what Seed::drt_reclaim_keypair demands of its callers.     *)
(* Two kinds of outputs are out of the search's sight, and their counters  *)
(* may come again once the database is lost: those for a former bridge key *)
(* and, on Bitcoin Core, those that a block took between the two halves of *)
(* their scan by the very search that replaced the lost counter, until a   *)
(* run of recover has found them and has come to raise the counter.        *)
(***************************************************************************)
NoReuse == reused = {}

(***************************************************************************)
(* The descriptor of a deposit that is still the user's is on disk: it got *)
(* there before the broadcast, and cleanup removes it only afterwards.     *)
(***************************************************************************)
DescriptorKept == \A c \in Owed : HasDescriptor(c)

(***************************************************************************)
(* One run of recover drains a deposit at most once, by its descriptor or  *)
(* from the seed, also on a backend that does not show the first drain.    *)
(***************************************************************************)
DrainedOnce == twice = {}

(***************************************************************************)
(* The code assumes that only the process with the database open is past   *)
(* that point, so that its view of the chain and the counter are its own.  *)
(***************************************************************************)
HolderOnly ==
  \A p \in Procs :
    pc[p] \notin {"idle", "fee", "openDeposit", "openRecover"} => lock = p

(***************************************************************************)
(* A confirmed deposit is reclaimed in the end (or taken by the bridge):   *)
(* a failure, a lost database or another deposit delays it only.           *)
(***************************************************************************)
EventuallyReclaimed ==
  \A c \in Deposits : status[c] = "confirmed" ~> status[c] # "confirmed"

(***************************************************************************)
(* "Recovers deposits whose reclaim path has matured" (the doc comment of  *)
(* recover): what is about to be drained can be spent in the next block.   *)
(***************************************************************************)
RecoversMatured ==
  \A p \in Procs : At(p, "descs") =>
    \A d \in todo : status[d.counter] = "confirmed" => ReclaimValid(d.counter)

(***************************************************************************)
(* "Removed old, already claimed descriptor": what cleanup removes was     *)
(* spent, in a block, or never went out.                                   *)
(***************************************************************************)
RemovesClaimed ==
  [][\A d \in saved \ saved' : lock # NoProc => d.counter \notin Outstanding]_vars
=============================================================================
