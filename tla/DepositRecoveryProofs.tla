----------------------- MODULE DepositRecoveryProofs ------------------------
(***************************************************************************)
(* Proofs about DepositRecovery, for any number of invocations, deposits,  *)
(* faults, blocks and changes of the bridge's key, and any delays and gap  *)
(* limit.  While the database is not lost, deposit and recover use it as   *)
(* DescriptorDb says, and no counter is used twice: it is the lock, held   *)
(* from before a counter is read until the request with it is out, and the *)
(* flush before a counter is used, that make every counter fresh; and      *)
(* because counters are fresh, descriptors are told apart and none is      *)
(* removed that is still of use.  When it is lost, the counter comes from  *)
(* the seed's search, which finds all that is in use as long as the faults *)
(* are fewer than the gap limit.                                           *)
(***************************************************************************)
EXTENDS DepositRecovery, DescriptorDbProofs, FiniteSetTheorems, WellFoundedInduction

USE ParametersAssumption, DepositsAssumption, DescsAssumption, GapLimitAssumption,
    MaxCounterAssumption, MissingAssumption, NoProcAssumption

\* The steps of an invocation that has the database open.
Busy == (DepositSteps \cup RecoverSteps) \ {"fee", "openDeposit", "openRecover"}

RunTypeOK ==
  /\ pc \in [Procs -> {"idle"} \cup DepositSteps \cup RecoverSteps]
  /\ tip \in [Procs -> 0 .. MaxHeight]
  /\ todo \in SUBSET Descs /\ candidates \in SUBSET Deposits
  /\ highest \in Counters /\ drained \in SUBSET Deposits /\ shown \in SUBSET Deposits

GhostTypeOK ==
  /\ twice \in SUBSET Deposits /\ reused \in SUBSET Deposits /\ missed \in SUBSET Deposits
  /\ former \in SUBSET Deposits
  /\ faults \in 0 .. MaxFaults /\ losses \in 0 .. MaxDbLosses
  /\ keyChanges \in 0 .. MaxKeyChanges

\* A reserved counter is one a request can use.
CounterReady ==
  \A p \in Procs :
    pc[p] \in {"saveReserve", "build", "saveDesc", "broadcast"} => counter \in Deposits

UseInv ==
  /\ RunTypeOK /\ GhostTypeOK /\ ChainTypeOK
  /\ HolderOnly /\ CounterReady
  /\ DbInv

-----------------------------------------------------------------------------
(* The commands use the database by its operations only.                   *)

\* A set of numbers that is not empty has a least.
LEMMA LeastNumber ==
  ASSUME NEW D, D \subseteq Nat, D # {}
  PROVE  \E d \in D : \A e \in D : d <= e
<1>1. PICK d \in D : \A e \in D : ~ (<<e, d>> \in OpToRel(<, Nat))
  BY NatLessThanWellFounded, WFMin
<1>2. ASSUME NEW e \in D PROVE ~ (e < d)
  <2>1. e \in Nat /\ d \in Nat
    OBVIOUS
  <2>2. <<e, d>> \notin {ss \in Nat \X Nat : ss[1] < ss[2]}
    BY <1>1 DEF OpToRel
  <2> QED
    BY <2>1, <2>2
<1> QED
  BY <1>2

LEMMA MaxIsMember ==
  ASSUME NEW n \in Nat, NEW T, T \subseteq 0 .. n, T # {}
  PROVE  Max(T) \in T /\ \A x \in T : Max(T) >= x
<1> DEFINE D == {d \in 0 .. n : n - d \in T}
<1>1. D \subseteq Nat /\ D # {}
  <2>1. PICK x \in T : TRUE
    OBVIOUS
  <2>2. n - x \in D
    BY <2>1
  <2>3. D \subseteq Nat
    OBVIOUS
  <2> HIDE DEF D
  <2> QED
    BY <2>2, <2>3
<1>2. PICK d \in D : \A e \in D : d <= e
  <2> HIDE DEF D
  <2> QED
    BY <1>1, LeastNumber
<1>3. n - d \in T /\ \A x \in T : n - d >= x
  <2>1. ASSUME NEW x \in T PROVE n - d >= x
    <3>1. n - x \in D /\ x \in Int /\ d \in Int
      OBVIOUS
    <3>2. d <= n - x
      <4> HIDE DEF D
      <4> QED
        BY <1>2, <3>1
    <3> QED
      BY <3>1, <3>2
  <2> QED
    BY <1>2, <2>1
<1> QED
  BY <1>3 DEF Max

LEMMA SearchTypes ==
  ASSUME RunTypeOK
  PROVE  /\ UsedScripts \in SUBSET Deposits /\ Reachable(shown) \in SUBSET Deposits
         /\ HighestFound \in Counters
<1>1. UsedScripts \subseteq Deposits /\ Reachable(shown) \subseteq Deposits
  BY DEF UsedScripts, UsedCounters, Reachable, RunTypeOK
<1>2. Reachable(shown) \cup {0} \subseteq 0 .. MaxCounter
  BY <1>1
<1>3. HighestFound \in Reachable(shown) \cup {0}
  BY <1>2, MaxIsMember DEF HighestFound
<1> QED
  BY <1>1, <1>2, <1>3 DEF Counters

LEMMA RequestTypes ==
  ASSUME NEW p \in Procs, RunTypeOK, counter \in Deposits
  PROVE  RequestDesc(p) \in Descs
<1>1. tip[p] \in 0 .. MaxHeight
  BY DEF RunTypeOK
<1> QED
  BY <1>1 DEF RequestDesc, RecoverAt

(* Every step of a command or of sled is one that DescriptorDb allows. *)
LEMMA NextUsesDb ==
  ASSUME UseInv, [Next]_vars
  PROVE  [DbNext]_dbVars \/ LoseDatabase
<1>1. ASSUME NEW p \in Procs, DepositStep(p) PROVE [DbNext]_dbVars
  <2>1. CASE ReconstructCounter(p)
    BY <2>1, SearchTypes DEF ReconstructCounter, DbNext, UseInv
  <2>2. CASE SaveDescriptor(p)
    <3>1. counter \in Deposits
      BY <2>2 DEF SaveDescriptor, At, UseInv, CounterReady
    <3>2. RequestDesc(p) \in Descs
      BY <3>1, RequestTypes DEF UseInv
    <3> QED
      BY <2>2, <3>2 DEF SaveDescriptor, DbNext
  <2> QED
    BY <1>1, <2>1, <2>2 DEF DepositStep, DepositFee, OpenDeposit, BeginReconstruction,
       BeginSearch, CounterSaved, ReserveCounter, OutOfCounters, CounterReserved,
       DescriptorSaved, BroadcastDeposit, DbNext
<1>2. ASSUME NEW p \in Procs, RecoverStep(p) PROVE [DbNext]_dbVars
  <2>1. ASSUME NEW d \in todo, RemoveDesc(p, d) PROVE DbNext
    BY <2>1 DEF RemoveDesc, DbNext, UseInv, RunTypeOK
  <2>2. CASE RaiseCounter(p)
    BY <2>2 DEF RaiseCounter, DbNext, UseInv, RunTypeOK
  <2> QED
    BY <1>2, <2>1, <2>2 DEF RecoverStep, OpenRecover, RecoverFee, KeepDesc, DrainDesc,
       DrainDescRefused, BeginDiscovery, BeginSearch, SearchSeed, SkipCandidate,
       DrainCandidate, DrainCandidateRefused, CounterRaised, EndRecover, DbNext
<1>3. ASSUME NEW p \in Procs,
             StartDeposit(p) \/ StartRecover(p) \/ RecoverFeeRejected(p) \/ OpenRefused(p) \/ Fail(p)
      PROVE [DbNext]_dbVars
  BY <1>3 DEF StartDeposit, StartRecover, RecoverFeeRejected, OpenRefused, Fail, DbNext
<1>4. CASE Environment
  BY <1>4 DEF Environment, BridgeKeyChanges, Flusher, Mine, Slip, Drop, Claim, DbNext
<1>5. CASE UNCHANGED vars
  BY <1>5 DEF vars, dbVars
<1> QED
  BY <1>1, <1>2, <1>3, <1>4, <1>5 DEF Next

LEMMA DbKept ==
  ASSUME UseInv, [Next]_vars PROVE DbInv'
<1>1. CASE [DbNext]_dbVars
  BY <1>1, DbNextInv DEF UseInv
<1>2. CASE LoseDatabase
  <2>1. flushing = "idle" /\ adding = {}
    BY <1>2 DEF LoseDatabase, UseInv, DbInv, ClosedIsIdle
  <2> QED
    BY <1>2, <2>1 DEF LoseDatabase, UseInv, DbInv, DbTypeOK, HandedIsDurable, SavedIsDurable,
       MemoryAhead, SavedInMemory, ClosedIsIdle, NextIsFresh
<1> QED
  BY <1>1, <1>2, NextUsesDb

-----------------------------------------------------------------------------
(* The types of what the processes and the network hold. *)

LEMMA RunTypes ==
  ASSUME UseInv, [Next]_vars PROVE RunTypeOK'
<1> USE DEF UseInv, RunTypeOK, runVars, Goto, Exit, ForgetRun, DepositSteps, RecoverSteps
<1>0. 0 \in 0 .. MaxHeight /\ 0 \in Counters /\ height \in 0 .. MaxHeight
  BY DEF Counters, ChainTypeOK
<1>1. ASSUME NEW p \in Procs, DepositStep(p) PROVE RunTypeOK'
  <2>1. CASE BeginReconstruction(p) \/ ReconstructCounter(p)
    BY <1>1, <2>1, SearchTypes DEF BeginReconstruction, BeginSearch, ReconstructCounter
  <2>2. CASE DepositFee(p) \/ OpenDeposit(p) \/ OutOfCounters(p) \/ BroadcastDeposit(p)
    BY <1>0, <1>1, <2>2 DEF DepositFee, OpenDeposit, OutOfCounters, BroadcastDeposit
  <2>3. CASE CounterSaved(p) \/ ReserveCounter(p) \/ CounterReserved(p)
    BY <1>1, <2>3 DEF CounterSaved, ReserveCounter, CounterReserved
  <2>4. CASE SaveDescriptor(p) \/ DescriptorSaved(p)
    BY <1>1, <2>4 DEF SaveDescriptor, DescriptorSaved
  <2> QED
    BY <1>1, <2>1, <2>2, <2>3, <2>4 DEF DepositStep
<1>2. ASSUME NEW p \in Procs, RecoverStep(p) PROVE RunTypeOK'
  <2>1. CASE OpenRecover(p)
    <3>1. todo' \in SUBSET Descs
      BY <2>1 DEF OpenRecover, DueDescs, DbInv, DbTypeOK
    <3> QED
      BY <2>1, <3>1 DEF OpenRecover
  <2>2. ASSUME NEW d \in todo,
               KeepDesc(p, d) \/ RemoveDesc(p, d) \/ DrainDesc(p, d) \/ DrainDescRefused(p, d)
        PROVE RunTypeOK'
    <3>1. d.counter \in Deposits
      BY <2>2
    <3> QED
      BY <1>0, <2>2, <3>1 DEF KeepDesc, RemoveDesc, DrainDesc, DrainDescRefused
  <2>3. ASSUME NEW c \in candidates,
               SkipCandidate(p, c) \/ DrainCandidate(p, c) \/ DrainCandidateRefused(p, c)
        PROVE RunTypeOK'
    BY <1>0, <2>3 DEF SkipCandidate, DrainCandidate, DrainCandidateRefused
  <2>4. CASE SearchSeed(p)
    <3>1. candidates' \in SUBSET Deposits /\ highest' \in Counters
      BY <2>4, SearchTypes DEF SearchSeed
    <3> QED
      BY <2>4, <3>1 DEF SearchSeed
  <2>5. CASE RecoverFee(p) \/ RaiseCounter(p) \/ CounterRaised(p) \/ EndRecover(p)
             \/ BeginDiscovery(p)
    BY <1>0, <2>5, SearchTypes DEF RecoverFee, BeginDiscovery, BeginSearch, RaiseCounter,
       CounterRaised, EndRecover
  <2> QED
    BY <1>2, <2>1, <2>2, <2>3, <2>4, <2>5 DEF RecoverStep
<1>3. ASSUME NEW p \in Procs,
             StartDeposit(p) \/ StartRecover(p) \/ RecoverFeeRejected(p) \/ OpenRefused(p) \/ Fail(p)
      PROVE RunTypeOK'
  BY <1>0, <1>3 DEF StartDeposit, StartRecover, RecoverFeeRejected, OpenRefused, Fail
<1>4. CASE Environment
  BY <1>4 DEF Environment, LoseDatabase, BridgeKeyChanges, Flusher, Mine, Slip, Drop, Claim
<1>5. CASE UNCHANGED vars
  BY <1>5 DEF vars
<1> QED
  BY <1>1, <1>2, <1>3, <1>4, <1>5 DEF Next

LEMMA GhostTypes ==
  ASSUME UseInv, [Next]_vars PROVE GhostTypeOK'
<1> USE DEF UseInv, GhostTypeOK, ghostVars, budgets
<1>1. ASSUME NEW p \in Procs, DepositStep(p) PROVE GhostTypeOK'
  <2>1. CASE BroadcastDeposit(p)
    <3>1. counter \in Deposits
      BY <2>1 DEF BroadcastDeposit, At, CounterReady
    <3> QED
      BY <2>1, <3>1 DEF BroadcastDeposit
  <2> QED
    BY <1>1, <2>1 DEF DepositStep, DepositFee, OpenDeposit, BeginReconstruction,
       BeginSearch, ReconstructCounter, CounterSaved, ReserveCounter, OutOfCounters,
       CounterReserved, SaveDescriptor, DescriptorSaved
<1>2. ASSUME NEW p \in Procs, RecoverStep(p) PROVE GhostTypeOK'
  <2>1. ASSUME NEW d \in todo,
               KeepDesc(p, d) \/ RemoveDesc(p, d) \/ DrainDesc(p, d) \/ DrainDescRefused(p, d)
        PROVE GhostTypeOK'
    <3>1. d.counter \in Deposits
      BY <2>1 DEF RunTypeOK
    <3> QED
      BY <2>1, <3>1 DEF KeepDesc, RemoveDesc, DrainDesc, DrainDescRefused, NoteDrain
  <2>2. ASSUME NEW c \in candidates,
               SkipCandidate(p, c) \/ DrainCandidate(p, c) \/ DrainCandidateRefused(p, c)
        PROVE GhostTypeOK'
    BY <2>2 DEF SkipCandidate, DrainCandidate, DrainCandidateRefused, NoteDrain, RunTypeOK
  <2> QED
    BY <1>2, <2>1, <2>2 DEF RecoverStep, OpenRecover, RecoverFee, BeginDiscovery,
       BeginSearch, SearchSeed, RaiseCounter, CounterRaised, EndRecover
<1>3. ASSUME NEW p \in Procs,
             StartDeposit(p) \/ StartRecover(p) \/ RecoverFeeRejected(p) \/ OpenRefused(p) \/ Fail(p)
      PROVE GhostTypeOK'
  <2>1. CASE Fail(p)
    <3>1. faults' \in 0 .. MaxFaults
      BY <2>1 DEF Fail
    <3> QED
      BY <2>1, <3>1 DEF Fail
  <2> QED
    BY <1>3, <2>1 DEF StartDeposit, StartRecover, RecoverFeeRejected, OpenRefused
<1>4. CASE BridgeKeyChanges
  <2>1. UsedCounters \in SUBSET Deposits /\ UsedCounters \ former \in SUBSET (1 .. MaxCounter)
    BY DEF UsedCounters
  <2>2. Cardinality(UsedCounters \ former) \in Nat
    <3>1. IsFiniteSet(1 .. MaxCounter)
      BY FS_Interval
    <3>2. IsFiniteSet(UsedCounters \ former)
      BY <2>1, <3>1, FS_Subset
    <3> QED
      BY <3>2, FS_CardinalityType
  <2> QED
    BY SMTT(30), <1>4, <2>1, <2>2 DEF BridgeKeyChanges
<1>5. CASE Environment /\ ~ BridgeKeyChanges
  <2>1. CASE LoseDatabase
    <3>1. losses' \in 0 .. MaxDbLosses
      BY <2>1 DEF LoseDatabase
    <3> QED
      BY <2>1, <3>1 DEF LoseDatabase
  <2>2. ASSUME NEW c \in Deposits, Drop(c) PROVE GhostTypeOK'
    <3>1. faults' \in 0 .. MaxFaults
      BY <2>2 DEF Drop
    <3> QED
      BY <2>2, <3>1 DEF Drop
  <2>3. CASE Mine
    <3>1. PICK D \in SUBSET With("mempool"), R \in SUBSET With("pending") :
            MineBlock(D, R) /\ Slip(D)
      BY <2>3 DEF Mine
    <3>2. PICK S \in SUBSET (D \cap shown) :
            /\ missed' = IF counter = Missing THEN missed \cup S ELSE missed
            /\ faults + Cardinality(S) <= MaxFaults /\ faults' = faults + Cardinality(S)
      BY <3>1 DEF Slip
    <3>3. S \in SUBSET Deposits /\ Cardinality(S) \in Nat
      <4>1. S \subseteq 1 .. MaxCounter
        BY DEF RunTypeOK
      <4>2. IsFiniteSet(1 .. MaxCounter)
        BY FS_Interval
      <4> QED
        BY <4>1, <4>2, FS_Subset, FS_CardinalityType
    <3>4. faults' \in 0 .. MaxFaults
      BY <3>2, <3>3
    <3>5. missed' \in SUBSET Deposits
      BY <3>2, <3>3
    <3> QED
      BY <2>3, <3>4, <3>5 DEF Mine
  <2> QED
    BY <1>5, <2>1, <2>2, <2>3 DEF Environment, Flusher, Claim
<1>6. CASE UNCHANGED vars
  BY <1>6 DEF vars
<1> QED
  BY <1>1, <1>2, <1>3, <1>4, <1>5, <1>6 DEF Next

LEMMA ChainTypes ==
  ASSUME UseInv, [Next]_vars PROVE ChainTypeOK'
<1> USE DEF UseInv, ChainTypeOK, chainVars, Statuses
<1>1. ASSUME NEW c \in Deposits, AcceptReclaim(c) \/ DropDeposit(c) \/ DropReclaim(c) \/ BridgeClaims(c)
      PROVE ChainTypeOK'
  <2>1. height' = height /\ 0 \in 0 .. MaxHeight
    BY <1>1 DEF AcceptReclaim, DropDeposit, DropReclaim, BridgeClaims
  <2>2. status' \in [Deposits -> Statuses]
    BY <1>1 DEF AcceptReclaim, DropDeposit, DropReclaim, BridgeClaims
  <2>3. /\ builtAt' \in [Deposits -> 0 .. MaxHeight]
        /\ confirmedAt' \in [Deposits -> 0 .. MaxHeight]
    BY <1>1, <2>1 DEF AcceptReclaim, DropDeposit, DropReclaim, BridgeClaims
  <2> QED
    BY <2>1, <2>2, <2>3
<1>2. ASSUME NEW p \in Procs, DepositStep(p) PROVE ChainTypeOK'
  <2>1. CASE BroadcastDeposit(p)
    <3>1. tip[p] \in 0 .. MaxHeight
      BY DEF RunTypeOK
    <3>2. AcceptDeposit(counter, tip[p])
      BY <2>1 DEF BroadcastDeposit
    <3>3. 0 \in 0 .. MaxHeight /\ height' \in 0 .. MaxHeight
      BY <3>2 DEF AcceptDeposit
    <3>4. status' \in [Deposits -> Statuses]
      BY <3>2 DEF AcceptDeposit
    <3>5. /\ builtAt' \in [Deposits -> 0 .. MaxHeight]
          /\ confirmedAt' \in [Deposits -> 0 .. MaxHeight]
      BY <3>1, <3>2, <3>3 DEF AcceptDeposit
    <3> QED
      BY <3>3, <3>4, <3>5
  <2> QED
    BY <1>2, <2>1 DEF DepositStep, DepositFee, OpenDeposit, BeginReconstruction,
       BeginSearch, ReconstructCounter, CounterSaved, ReserveCounter, OutOfCounters,
       CounterReserved, SaveDescriptor, DescriptorSaved
<1>3. ASSUME NEW p \in Procs, RecoverStep(p) PROVE ChainTypeOK'
  <2>1. ASSUME NEW d \in todo, DrainDesc(p, d) PROVE ChainTypeOK'
    BY <1>1, <2>1 DEF DrainDesc, RunTypeOK
  <2>2. ASSUME NEW c \in candidates, DrainCandidate(p, c) PROVE ChainTypeOK'
    BY <1>1, <2>2 DEF DrainCandidate, RunTypeOK
  <2> QED
    BY <1>3, <2>1, <2>2 DEF RecoverStep, OpenRecover, RecoverFee, KeepDesc, RemoveDesc,
       DrainDescRefused, BeginDiscovery, BeginSearch, SearchSeed, SkipCandidate,
       DrainCandidateRefused, RaiseCounter, CounterRaised, EndRecover
<1>4. ASSUME NEW p \in Procs,
             StartDeposit(p) \/ StartRecover(p) \/ RecoverFeeRejected(p) \/ OpenRefused(p) \/ Fail(p)
      PROVE ChainTypeOK'
  BY <1>4 DEF StartDeposit, StartRecover, RecoverFeeRejected, OpenRefused, Fail
<1>5. CASE Mine
  <2>1. PICK D \in SUBSET With("mempool"), R \in SUBSET With("pending") : MineBlock(D, R)
    BY <1>5 DEF Mine
  <2>2. /\ height + 1 \in 0 .. MaxHeight /\ 0 \in 0 .. MaxHeight
        /\ height' = height + 1
    BY <2>1 DEF MineBlock
  <2>3. status' \in [Deposits -> Statuses]
    BY <2>1 DEF MineBlock
  <2>4. builtAt' \in [Deposits -> 0 .. MaxHeight]
    BY <2>1, <2>2 DEF MineBlock
  <2>5. confirmedAt' \in [Deposits -> 0 .. MaxHeight]
    BY <2>1, <2>2 DEF MineBlock
  <2> QED
    BY <2>2, <2>3, <2>4, <2>5
<1>6. CASE Environment /\ ~ Mine
  BY <1>1, <1>6 DEF Environment, LoseDatabase, BridgeKeyChanges, Flusher, Drop, Claim
<1>7. CASE UNCHANGED vars
  BY <1>7 DEF vars
<1> QED
  BY <1>2, <1>3, <1>4, <1>5, <1>6, <1>7 DEF Next

-----------------------------------------------------------------------------
(* Only the holder of the database is past its opening. *)

LEMMA HolderKept ==
  ASSUME UseInv, [Next]_vars PROVE HolderOnly'
<1> USE DEF UseInv, RunTypeOK, HolderOnly, Goto, At, Exit, DepositSteps, RecoverSteps
<1>1. ASSUME NEW p \in Procs, DepositStep(p) PROVE HolderOnly'
  BY <1>1 DEF DepositStep, DepositFee, OpenDeposit, BeginReconstruction, BeginSearch,
     ReconstructCounter, CounterSaved, ReserveCounter, OutOfCounters, CounterReserved,
     SaveDescriptor, DescriptorSaved, BroadcastDeposit, dbVars, Open,
     EnsureReclaimCounterAtLeast, FlushReturns, NextReclaimCounter, AddDesc, Release
<1>2. ASSUME NEW p \in Procs, RecoverStep(p) PROVE HolderOnly'
  BY <1>2 DEF RecoverStep, OpenRecover, RecoverFee, KeepDesc, RemoveDesc, DrainDesc,
     DrainDescRefused, BeginDiscovery, BeginSearch, SearchSeed, SkipCandidate,
     DrainCandidate, DrainCandidateRefused, RaiseCounter, CounterRaised, EndRecover,
     dbVars, Open, EnsureReclaimCounterAtLeast, FlushReturns, Remove, Release
<1>3. ASSUME NEW p \in Procs,
             StartDeposit(p) \/ StartRecover(p) \/ RecoverFeeRejected(p) \/ OpenRefused(p) \/ Fail(p)
      PROVE HolderOnly'
  BY <1>3 DEF StartDeposit, StartRecover, RecoverFeeRejected, OpenRefused, Fail, dbVars, Release
<1>4. CASE Environment
  BY <1>4 DEF Environment, LoseDatabase, BridgeKeyChanges, Flusher, Mine, Slip, Drop, Claim, dbVars,
     BackgroundFlush
<1>5. CASE UNCHANGED vars
  BY <1>5 DEF vars, dbVars
<1> QED
  BY <1>1, <1>2, <1>3, <1>4, <1>5 DEF Next

LEMMA ReadyKept ==
  ASSUME UseInv, [Next]_vars PROVE CounterReady'
<1> USE DEF UseInv, RunTypeOK, HolderOnly, CounterReady, Goto, At, Exit, DepositSteps, RecoverSteps
<1>1. ASSUME NEW p \in Procs, DepositStep(p) PROVE CounterReady'
  <2>1. CASE ReserveCounter(p)
    <3>1. counter' \in Deposits
      BY <2>1 DEF ReserveCounter, NextReclaimCounter, DbInv, DbTypeOK, Counters
    <3> QED
      BY <2>1, <3>1 DEF ReserveCounter, NextReclaimCounter
  <2>2. CASE OpenDeposit(p) \/ OutOfCounters(p) \/ BroadcastDeposit(p)
    BY <2>2, NoProcAssumption DEF OpenDeposit, OutOfCounters, BroadcastDeposit, Open, Release
  <2>3. CASE ReconstructCounter(p)
    BY <2>3 DEF BeginReconstruction, BeginSearch, ReconstructCounter, EnsureReclaimCounterAtLeast
  <2> QED
    BY <1>1, <2>1, <2>2, <2>3 DEF DepositStep, DepositFee, BeginReconstruction, BeginSearch,
       CounterSaved, CounterReserved,
       SaveDescriptor, DescriptorSaved, dbVars, mem, FlushReturns, AddDesc
<1>2. ASSUME NEW p \in Procs, RecoverStep(p) PROVE CounterReady'
  BY <1>2 DEF RecoverStep, OpenRecover, RecoverFee, KeepDesc, RemoveDesc, DrainDesc,
     DrainDescRefused, BeginDiscovery, BeginSearch, SearchSeed, SkipCandidate,
     DrainCandidate, DrainCandidateRefused, RaiseCounter, CounterRaised, EndRecover,
     dbVars, mem, Open, EnsureReclaimCounterAtLeast, FlushReturns, Remove, Release
<1>3. ASSUME NEW p \in Procs,
             StartDeposit(p) \/ StartRecover(p) \/ RecoverFeeRejected(p) \/ OpenRefused(p) \/ Fail(p)
      PROVE CounterReady'
  BY <1>3 DEF StartDeposit, StartRecover, RecoverFeeRejected, OpenRefused, Fail, dbVars, Release
<1>4. CASE Environment
  BY <1>4 DEF Environment, LoseDatabase, BridgeKeyChanges, Flusher, Mine, Slip, Drop,
     Claim, dbVars, mem, BackgroundFlush
<1>5. CASE UNCHANGED vars
  BY <1>5 DEF vars, dbVars
<1> QED
  BY <1>1, <1>2, <1>3, <1>4, <1>5 DEF Next

(***************************************************************************)
(* The types, the lock and the database's own invariant, also when the     *)
(* database is lost and started again.                                     *)
(***************************************************************************)
THEOREM UseInvariance == Spec => []UseInv
<1>1. Init => UseInv
  <2>1. Init => DbInv
    BY DbInitInv DEF Init
  <2>2. Init => RunTypeOK /\ GhostTypeOK /\ ChainTypeOK
    BY DEF Init, ChainInit, RunTypeOK, GhostTypeOK, ChainTypeOK, Statuses, Counters
  <2>3. Init => HolderOnly /\ CounterReady
    BY DEF Init, HolderOnly, CounterReady
  <2> QED
    BY <2>1, <2>2, <2>3 DEF UseInv
<1>2. UseInv /\ [Next]_vars => UseInv'
  <2> SUFFICES ASSUME UseInv, [Next]_vars PROVE UseInv'
    OBVIOUS
  <2>1. RunTypeOK' /\ GhostTypeOK' /\ ChainTypeOK' /\ DbInv'
    BY RunTypes, GhostTypes, ChainTypes, DbKept
  <2>2. HolderOnly' /\ CounterReady'
    BY HolderKept, ReadyKept
  <2> QED
    BY <2>1, <2>2 DEF UseInv
<1> QED
  BY <1>1, <1>2, PTL DEF Spec

(***************************************************************************)
(* While the database is not lost, deposit and recover, with any number of *)
(* invocations at once and any failure, are a run of the database: what    *)
(* is proved of DescriptorDb holds for the commands.                       *)
(***************************************************************************)
THEOREM CommandsUseDatabase ==
  ASSUME MaxDbLosses = 0 PROVE Spec => DbSpec
<1>1. UseInv /\ [Next]_vars => [DbNext]_dbVars
  <2>1. UseInv => ~ LoseDatabase
    BY DEF UseInv, GhostTypeOK, LoseDatabase
  <2> QED
    BY <2>1, NextUsesDb
<1>2. Init => DbInit
  BY DEF Init
<1> QED
  BY <1>1, <1>2, UseInvariance, PTL DEF Spec, DbSpec

(***************************************************************************)
(* Two commands at once, killed anywhere and retried, get their counters   *)
(* from one CounterAllocator: each is above all that were handed out       *)
(* before, to whichever invocation, so no two deposits derive one key.     *)
(***************************************************************************)
THEOREM CommandsAllocate ==
  ASSUME MaxDbLosses = 0 PROVE Spec => ImplementsAllocator
BY CommandsUseDatabase, AllocatorImplemented, PTL

(***************************************************************************)
(* Nor does any step of a command, of sled's flusher or of the network     *)
(* take the counter on disk back.                                          *)
(***************************************************************************)
THEOREM CommandsKeepCounter ==
  ASSUME MaxDbLosses = 0 PROVE Spec => CounterNeverRollsBack
BY CommandsUseDatabase, NoRollback, PTL

(***************************************************************************)
(* What holds of the database through every use of it holds when the       *)
(* database is lost and built up again from the seed as well: what a call  *)
(* returned is on disk, memory is ahead of the disk, and the counter that  *)
(* is about to be returned is above those returned since.                  *)
(***************************************************************************)
THEOREM DatabaseKept == Spec => []DbInv
<1>1. UseInv => DbInv
  BY DEF UseInv
<1> QED
  BY <1>1, UseInvariance, PTL

(***************************************************************************)
(* However often the database is lost, nothing but the loss itself lowers  *)
(* the counter on disk: the counter reconstruct_reclaim_counter and        *)
(* recover's raise put there is from then on only raised.                  *)
(***************************************************************************)
THEOREM OnlyLossLowersCounter ==
  Spec => [][losses' = losses /\ diskCounter # Missing
               => diskCounter' # Missing /\ diskCounter' >= diskCounter]_vars
<1> DEFINE NoLower == diskCounter # Missing =>
                        diskCounter' # Missing /\ diskCounter' >= diskCounter
<1>1. UseInv /\ [Next]_vars => [losses' = losses => NoLower]_vars
  <2> SUFFICES ASSUME UseInv, [Next]_vars, losses' = losses PROVE NoLower
    OBVIOUS
  <2>1. ~ LoseDatabase
    BY DEF LoseDatabase, UseInv, GhostTypeOK
  <2>2. [DbNext]_dbVars
    BY <2>1, NextUsesDb
  <2>3. diskCounter' = diskCounter \/ diskCounter' = counter
    BY <2>2 DEF DbNext, Open, NextReclaimCounter, EnsureReclaimCounterAtLeast, AddDesc,
       Remove, FlushReturns, BackgroundFlush, Release, disk, dbVars
  <2>4. diskCounter # Missing => diskCounter \in Nat
    BY CounterValues DEF UseInv, DbInv, DbTypeOK
  <2>5. CASE diskCounter' = counter
    BY <2>5 DEF UseInv, DbInv, MemoryAhead
  <2>6. CASE diskCounter' = diskCounter
    BY <2>4, <2>6
  <2> QED
    BY <2>3, <2>5, <2>6
<1>2. [losses' = losses => NoLower]_vars
        => [losses' = losses /\ diskCounter # Missing
              => diskCounter' # Missing /\ diskCounter' >= diskCounter]_vars
  OBVIOUS
<1> QED
  BY <1>1, <1>2, UseInvariance, PTL DEF Spec

-----------------------------------------------------------------------------
(* Every counter is fresh. *)

Known == diskDescs \cup descs

\* The counters the database knows of: none once it was lost.
Seen == IF losses = 0 THEN UsedCounters ELSE {}

\* No counter above the one on disk is described or, before a loss, used.
Covered ==
  /\ \A c \in Seen : diskCounter # Missing /\ c <= diskCounter
  /\ \A d \in Known : diskCounter # Missing /\ d.counter <= diskCounter

OneEach == \A d, e \in Known : d.counter = e.counter => d = e

UnusedCounter == counter # Missing /\ \A c \in Seen : c < counter

\* What the process that reserves a counter knows of it.
Reserves(p) ==
  /\ pc[p] \in {"saveReserve", "build", "saveDesc", "broadcast"} => UnusedCounter
  /\ pc[p] \in {"saveReserve", "build"} => \A d \in Known : d.counter < counter
  /\ pc[p] \in {"build", "saveDesc", "broadcast"} => diskCounter = counter
  /\ pc[p] \in {"saveDesc", "broadcast"} => RequestDesc(p) \in descs
  /\ pc[p] = "broadcast" => RequestDesc(p) \in diskDescs

FreshInv ==
  /\ Covered /\ OneEach
  /\ \A p \in Procs : Reserves(p)
  /\ losses = 0 => reused = {}

ReserveSteps == {"saveReserve", "build", "saveDesc", "broadcast"}

LEMMA Numbers ==
  ASSUME UseInv
  PROVE  /\ counter # Missing => counter \in Nat
         /\ diskCounter # Missing => /\ diskCounter \in Nat
                                     /\ counter # Missing /\ diskCounter <= counter
         /\ \A d \in Known : d \in Descs /\ d.counter \in Nat
         /\ \A c \in Seen : c \in Nat
<1>1. Known \subseteq Descs
  BY DEF UseInv, DbInv, DbTypeOK, Known
<1> QED
  BY <1>1 DEF UseInv, DbInv, DbTypeOK, MemoryAhead, UsedCounters, Seen, Counters

(* Steps that leave the database and make no counter used. *)
LEMMA AsideStep ==
  ASSUME UseInv, FreshInv, UNCHANGED <<dbVars, reused, losses>>,
         UsedCounters' \subseteq UsedCounters,
         \A q \in Procs : pc'[q] \in ReserveSteps => pc'[q] = pc[q] /\ tip'[q] = tip[q]
  PROVE  FreshInv'
<1>0. Seen' \subseteq Seen
  BY DEF Seen
<1>1. Covered' /\ OneEach' /\ (losses' = 0 => reused' = {})
  BY <1>0 DEF FreshInv, Covered, OneEach, Known, dbVars
<1>2. ASSUME NEW q \in Procs PROVE Reserves(q)'
  BY <1>0 DEF FreshInv, Reserves, UnusedCounter, Known, dbVars, ReserveSteps, RequestDesc
<1> QED
  BY <1>1, <1>2 DEF FreshInv

(* Steps of a process after which nobody has reserved a counter, and that leave *)
(* in memory and on disk no more than there was. *)
LEMMA ShrinkStep ==
  ASSUME UseInv, FreshInv, diskCounter' = diskCounter, diskDescs' = diskDescs,
         descs' \subseteq Known, UNCHANGED <<reused, losses>>,
         UsedCounters' \subseteq UsedCounters,
         \A q \in Procs : pc'[q] \notin ReserveSteps
  PROVE  FreshInv'
<1>1. Known' \subseteq Known /\ Seen' \subseteq Seen
  BY DEF Known, Seen
<1>2. Covered' /\ OneEach' /\ (losses' = 0 => reused' = {})
  BY <1>1 DEF FreshInv, Covered, OneEach
<1>3. ASSUME NEW q \in Procs PROVE Reserves(q)'
  BY DEF Reserves, ReserveSteps
<1> QED
  BY <1>2, <1>3 DEF FreshInv

(* The holder's memory reaches the disk. *)
LEMMA FlushStep ==
  ASSUME UseInv, FreshInv, diskCounter' = counter, diskDescs' = descs,
         UNCHANGED <<counter, descs, reused, losses, chainVars, tip>>,
         \A q \in Procs : pc'[q] \in ReserveSteps =>
           \/ pc'[q] = pc[q]
           \/ pc[q] = "saveReserve" /\ pc'[q] = "build"
           \/ pc[q] = "saveDesc" /\ pc'[q] = "broadcast"
  PROVE  FreshInv'
<1>1. Known' \subseteq Known /\ Seen' = Seen
  BY DEF Known, Seen, UsedCounters, With, chainVars
<1>2. Covered'
  BY <1>1, Numbers DEF FreshInv, Covered
<1>3. OneEach' /\ (losses' = 0 => reused' = {})
  BY <1>1 DEF FreshInv, OneEach
<1>4. ASSUME NEW q \in Procs PROVE Reserves(q)'
  BY <1>1 DEF FreshInv, Reserves, UnusedCounter, RequestDesc, ReserveSteps
<1> QED
  BY <1>2, <1>3, <1>4 DEF FreshInv

(* The network brings no new counter into use. *)
LEMMA UsedShrinks ==
  ASSUME UseInv
  PROVE  /\ UNCHANGED chainVars => UsedCounters' = UsedCounters
         /\ \A c \in Deposits : AcceptReclaim(c) \/ DropDeposit(c) \/ DropReclaim(c) \/ BridgeClaims(c)
              => UsedCounters' \subseteq UsedCounters
         /\ Mine => UsedCounters' \subseteq UsedCounters
<1>1. UNCHANGED chainVars => UsedCounters' = UsedCounters
  BY DEF chainVars, UsedCounters, With
<1>2. ASSUME NEW c \in Deposits,
             AcceptReclaim(c) \/ DropDeposit(c) \/ DropReclaim(c) \/ BridgeClaims(c)
      PROVE  UsedCounters' \subseteq UsedCounters
  BY <1>2 DEF AcceptReclaim, ReclaimValid, DropDeposit, DropReclaim, BridgeClaims, UsedCounters,
     With, UseInv, ChainTypeOK
<1>3. ASSUME Mine PROVE UsedCounters' \subseteq UsedCounters
  <2>1. PICK D \in SUBSET With("mempool"), R \in SUBSET With("pending") : MineBlock(D, R)
    BY <1>3 DEF Mine
  <2> QED
    BY <2>1 DEF MineBlock, UsedCounters, With
<1> QED
  BY <1>1, <1>2, <1>3

(* The counter that a process reserves is above all there were. *)
LEMMA ReserveFresh ==
  ASSUME UseInv, FreshInv, NEW p \in Procs, ReserveCounter(p)
  PROVE  FreshInv'
<1>1. /\ pc[p] \in {"counter", "reserve"} /\ counter # Missing /\ counter' = counter + 1
      /\ pc' = [pc EXCEPT ![p] = "saveReserve"]
      /\ UNCHANGED <<diskCounter, descs, diskDescs, chainVars, tip, reused, losses>>
  BY DEF ReserveCounter, At, NextReclaimCounter, disk, Goto, ghostVars, budgets
<1>2. Known' = Known /\ Seen' = Seen
  BY <1>1, UsedShrinks DEF Known, Seen
<1>3. Covered' /\ OneEach' /\ (losses' = 0 => reused' = {})
  BY <1>1, <1>2 DEF FreshInv, Covered, OneEach
<1>4. counter' # Missing /\ (\A c \in Seen : c < counter') /\ \A d \in Known : d.counter < counter'
  BY <1>1, Numbers, MissingAssumption DEF FreshInv, Covered
<1>5. ASSUME NEW q \in Procs PROVE Reserves(q)'
  <2>1. pc'[q] \in ReserveSteps => pc'[q] = "saveReserve"
    BY <1>1 DEF UseInv, HolderOnly, RunTypeOK, ReserveSteps
  <2> QED
    BY <1>2, <1>4, <2>1 DEF Reserves, UnusedCounter, ReserveSteps
<1> QED
  BY <1>3, <1>5 DEF FreshInv

LEMMA SaveFresh ==
  ASSUME UseInv, FreshInv, NEW p \in Procs, SaveDescriptor(p)
  PROVE  FreshInv'
<1>1. /\ pc[p] = "build" /\ descs' = descs \cup {RequestDesc(p)}
      /\ pc' = [pc EXCEPT ![p] = "saveDesc"]
      /\ UNCHANGED <<counter, diskCounter, diskDescs, chainVars, tip, reused, losses>>
  BY DEF SaveDescriptor, At, AddDesc, disk, Goto, ghostVars, budgets
<1>2. Known' = Known \cup {RequestDesc(p)} /\ Seen' = Seen
  BY <1>1, UsedShrinks DEF Known, Seen
<1>3. /\ counter # Missing /\ diskCounter = counter /\ RequestDesc(p).counter = counter
      /\ UnusedCounter /\ \A d \in Known : d.counter < counter
  BY <1>1 DEF FreshInv, Reserves, UnusedCounter, RequestDesc
<1>4. Covered' /\ OneEach' /\ (losses' = 0 => reused' = {})
  BY <1>1, <1>2, <1>3, Numbers DEF FreshInv, Covered, OneEach
<1>5. ASSUME NEW q \in Procs PROVE Reserves(q)'
  <2>1. pc'[q] \in ReserveSteps => q = p /\ pc'[q] = "saveDesc"
    BY <1>1 DEF UseInv, HolderOnly, RunTypeOK, ReserveSteps
  <2>2. RequestDesc(p)' = RequestDesc(p)
    BY <1>1 DEF RequestDesc
  <2> QED
    BY <1>1, <1>2, <1>3, <2>1, <2>2 DEF Reserves, UnusedCounter, ReserveSteps
<1> QED
  BY <1>4, <1>5 DEF FreshInv

LEMMA BroadcastFresh ==
  ASSUME UseInv, FreshInv, NEW p \in Procs, BroadcastDeposit(p)
  PROVE  FreshInv'
<1>1. /\ pc[p] = "broadcast" /\ AcceptDeposit(counter, tip[p])
      /\ pc' = [pc EXCEPT ![p] = "idle"] /\ descs' = diskDescs
      /\ UNCHANGED <<diskCounter, diskDescs, losses>>
      /\ reused' = IF counter \in Outstanding \ (former \cup missed)
                     THEN reused \cup {counter} ELSE reused
  BY DEF BroadcastDeposit, At, Release, disk, Exit
<1>2. UnusedCounter /\ diskCounter = counter
  BY <1>1 DEF FreshInv, Reserves
<1>3. Known' \subseteq Known /\ Seen' \subseteq Seen \cup {counter}
  BY <1>1 DEF Known, Seen, AcceptDeposit, UsedCounters, With, UseInv, ChainTypeOK
<1>4. losses = 0 => counter \notin Outstanding
  <2>1. losses = 0 => Outstanding \subseteq Seen
    BY DEF Outstanding, Seen, UsedCounters, With
  <2> QED
    BY <1>2, <2>1, Numbers DEF UnusedCounter
<1>5. Covered' /\ OneEach' /\ (losses' = 0 => reused' = {})
  BY <1>1, <1>2, <1>3, <1>4, Numbers DEF FreshInv, Covered, OneEach, UnusedCounter
<1>6. ASSUME NEW q \in Procs PROVE Reserves(q)'
  <2>1. pc'[q] \notin ReserveSteps
    BY <1>1 DEF UseInv, HolderOnly, RunTypeOK, ReserveSteps
  <2> QED
    BY <2>1 DEF Reserves, ReserveSteps
<1> QED
  BY <1>5, <1>6 DEF FreshInv

LEMMA LossesSame ==
  ASSUME [Next]_vars, ~ LoseDatabase PROVE losses' = losses
<1>1. ASSUME NEW p \in Procs, DepositStep(p) PROVE losses' = losses
  BY <1>1 DEF DepositStep, DepositFee, OpenDeposit, BeginReconstruction, BeginSearch,
     ReconstructCounter, CounterSaved, ReserveCounter, OutOfCounters, CounterReserved,
     SaveDescriptor, DescriptorSaved, BroadcastDeposit, budgets
<1>2. ASSUME NEW p \in Procs, RecoverStep(p) PROVE losses' = losses
  BY <1>2 DEF RecoverStep, OpenRecover, RecoverFee, KeepDesc, RemoveDesc, DrainDesc,
     DrainDescRefused, BeginDiscovery, BeginSearch, SearchSeed, SkipCandidate,
     DrainCandidate, DrainCandidateRefused, RaiseCounter, CounterRaised, EndRecover,
     budgets
<1>3. ASSUME NEW p \in Procs,
             StartDeposit(p) \/ StartRecover(p) \/ RecoverFeeRejected(p) \/ OpenRefused(p) \/ Fail(p)
      PROVE losses' = losses
  BY <1>3 DEF StartDeposit, StartRecover, RecoverFeeRejected, OpenRefused, Fail, budgets
<1>4. CASE Environment
  BY <1>4 DEF Environment, BridgeKeyChanges, Flusher, Mine, Slip, Drop, Claim, budgets
<1>5. CASE UNCHANGED vars
  BY <1>5 DEF vars, budgets
<1> QED
  BY <1>1, <1>2, <1>3, <1>4, <1>5 DEF Next

(* A database that was lost describes nothing, and nobody had it open. *)
LEMMA LossFresh ==
  ASSUME UseInv, FreshInv, LoseDatabase PROVE FreshInv'
<1>1. losses' # 0
  BY DEF LoseDatabase, UseInv, GhostTypeOK
<1>2. Seen' = {} /\ Known' = {}
  BY <1>1 DEF LoseDatabase, Seen, Known
<1>3. \A q \in Procs : pc'[q] \notin ReserveSteps
  BY DEF LoseDatabase, UseInv, HolderOnly, ReserveSteps
<1> QED
  BY <1>1, <1>2, <1>3 DEF FreshInv, Covered, OneEach, Reserves, ReserveSteps

LEMMA FreshNext ==
  ASSUME UseInv, FreshInv, [Next]_vars
  PROVE  FreshInv'
<1> SUFFICES ASSUME ~ LoseDatabase PROVE FreshInv'
  BY LossFresh
<1> USE LossesSame DEF Goto, At, Exit, ghostVars, disk, mem
<1>1. ASSUME NEW p \in Procs, DepositStep(p) PROVE FreshInv'
  <2>1. CASE DepositFee(p)
    <3>1. \A q \in Procs : pc'[q] \in ReserveSteps => pc'[q] = pc[q] /\ tip'[q] = tip[q]
      BY <2>1 DEF DepositFee, UseInv, RunTypeOK, ReserveSteps
    <3> QED
      BY <2>1, <3>1, AsideStep, UsedShrinks DEF DepositFee
  <2>4. CASE BeginReconstruction(p)
    <3>1. \A q \in Procs : pc'[q] \in ReserveSteps => pc'[q] = pc[q] /\ tip'[q] = tip[q]
      BY <2>4 DEF BeginReconstruction, BeginSearch, UseInv, RunTypeOK, ReserveSteps
    <3> QED
      BY <2>4, <3>1, AsideStep, UsedShrinks DEF BeginReconstruction, BeginSearch
  <2>2. CASE OpenDeposit(p) \/ ReconstructCounter(p) \/ OutOfCounters(p)
    <3>1. \A q \in Procs : pc'[q] \notin ReserveSteps
      BY <2>2 DEF OpenDeposit, ReconstructCounter, OutOfCounters, Open,
         EnsureReclaimCounterAtLeast, Holds, Release, UseInv, RunTypeOK, HolderOnly, ReserveSteps
    <3>2. diskCounter' = diskCounter /\ diskDescs' = diskDescs /\ descs' \subseteq Known
      BY <2>2 DEF OpenDeposit, BeginReconstruction, BeginSearch, ReconstructCounter,
         OutOfCounters, Open, EnsureReclaimCounterAtLeast, Release, Known
    <3>3. UNCHANGED chainVars /\ reused' = reused
      BY <2>2 DEF OpenDeposit, BeginReconstruction, BeginSearch, ReconstructCounter, OutOfCounters
    <3> QED
      BY <3>1, <3>2, <3>3, ShrinkStep, UsedShrinks
  <2>3. CASE CounterSaved(p) \/ CounterReserved(p) \/ DescriptorSaved(p)
    <3>1. \A q \in Procs : pc'[q] \in ReserveSteps =>
            \/ pc'[q] = pc[q]
            \/ pc[q] = "saveReserve" /\ pc'[q] = "build"
            \/ pc[q] = "saveDesc" /\ pc'[q] = "broadcast"
      BY <2>3 DEF CounterSaved, CounterReserved, DescriptorSaved, UseInv, RunTypeOK, ReserveSteps
    <3> QED
      BY <2>3, <3>1, FlushStep DEF CounterSaved, CounterReserved, DescriptorSaved, FlushReturns
  <2> QED
    BY <1>1, <2>1, <2>2, <2>3, <2>4, ReserveFresh, SaveFresh, BroadcastFresh DEF DepositStep
<1>2. ASSUME NEW p \in Procs, RecoverStep(p) PROVE FreshInv'
  <2>1. ASSUME UNCHANGED <<dbVars, reused, tip>>, UsedCounters' \subseteq UsedCounters,
               \/ UNCHANGED pc
               \/ pc' = [pc EXCEPT ![p] = "descs"]
               \/ pc' = [pc EXCEPT ![p] = "searchSeed"]
               \/ pc' = [pc EXCEPT ![p] = "seed"]
        PROVE  FreshInv'
    <3>1. \A q \in Procs : pc'[q] \in ReserveSteps => pc'[q] = pc[q] /\ tip'[q] = tip[q]
      BY <2>1 DEF UseInv, RunTypeOK, ReserveSteps
    <3> QED
      BY <2>1, <3>1, AsideStep
  <2>2. ASSUME diskCounter' = diskCounter, diskDescs' = diskDescs, descs' \subseteq Known,
               reused' = reused, UNCHANGED chainVars,
               lock = NoProc \/ lock = p, pc[p] \notin ReserveSteps,
               \/ UNCHANGED pc
               \/ \E step \in {"recoverFee", "saveHighest", "idle"} : pc' = [pc EXCEPT ![p] = step]
        PROVE  FreshInv'
    <3>1. \A q \in Procs : pc'[q] \notin ReserveSteps
      BY <2>2 DEF UseInv, RunTypeOK, HolderOnly, ReserveSteps
    <3> QED
      BY <2>2, <3>1, ShrinkStep, UsedShrinks
  <2>3. CASE OpenRecover(p) \/ RaiseCounter(p) \/ EndRecover(p)
    BY <2>2, <2>3 DEF OpenRecover, RaiseCounter, EndRecover, Open, EnsureReclaimCounterAtLeast,
       Holds, Release, Known, ReserveSteps
  <2>4. CASE RecoverFee(p) \/ BeginDiscovery(p) \/ SearchSeed(p)
    BY <2>1, <2>4, UsedShrinks DEF RecoverFee, BeginDiscovery, BeginSearch, SearchSeed
  <2>5. ASSUME NEW d \in todo, KeepDesc(p, d) \/ DrainDesc(p, d) PROVE FreshInv'
    <3>1. d.counter \in Deposits
      BY DEF UseInv, RunTypeOK
    <3> QED
      BY <2>1, <2>5, <3>1, UsedShrinks DEF KeepDesc, DrainDesc
  <2>6. ASSUME NEW d \in todo, RemoveDesc(p, d) \/ DrainDescRefused(p, d) PROVE FreshInv'
    BY <2>2, <2>6 DEF RemoveDesc, DrainDescRefused, Remove, Holds, Release, Known, ReserveSteps
  <2>7. ASSUME NEW c \in candidates, SkipCandidate(p, c) \/ DrainCandidate(p, c) PROVE FreshInv'
    <3>1. c \in Deposits
      BY DEF UseInv, RunTypeOK
    <3> QED
      BY <2>1, <2>7, <3>1, UsedShrinks DEF SkipCandidate, DrainCandidate
  <2>8. ASSUME NEW c \in candidates, DrainCandidateRefused(p, c) PROVE FreshInv'
    BY <2>2, <2>8 DEF DrainCandidateRefused, Release, Known, ReserveSteps
  <2>9. CASE CounterRaised(p)
    <3>1. \A q \in Procs : pc'[q] \in ReserveSteps => pc'[q] = pc[q]
      BY <2>9 DEF CounterRaised, UseInv, RunTypeOK, ReserveSteps
    <3> QED
      BY <2>9, <3>1, FlushStep DEF CounterRaised, FlushReturns
  <2> QED
    BY <1>2, <2>3, <2>4, <2>5, <2>6, <2>7, <2>8, <2>9 DEF RecoverStep
<1>3. ASSUME NEW p \in Procs, StartDeposit(p) \/ StartRecover(p) \/ OpenRefused(p) PROVE FreshInv'
  <2>1. \A q \in Procs : pc'[q] \in ReserveSteps => pc'[q] = pc[q] /\ tip'[q] = tip[q]
    BY <1>3 DEF StartDeposit, StartRecover, OpenRefused, UseInv, RunTypeOK, ReserveSteps
  <2> QED
    BY <1>3, <2>1, AsideStep, UsedShrinks DEF StartDeposit, StartRecover, OpenRefused
<1>4. ASSUME NEW p \in Procs, RecoverFeeRejected(p) \/ Fail(p) PROVE FreshInv'
  <2>1. UNCHANGED chainVars /\ reused' = reused /\ pc' = [pc EXCEPT ![p] = "idle"]
        /\ tip' = [tip EXCEPT ![p] = 0]
    BY <1>4 DEF RecoverFeeRejected, Fail
  <2>2. CASE Release(p)
    <3>1. \A q \in Procs : pc'[q] \notin ReserveSteps
      BY <2>1, <2>2 DEF Release, UseInv, RunTypeOK, HolderOnly, ReserveSteps
    <3> QED
      BY <2>1, <2>2, <3>1, ShrinkStep, UsedShrinks DEF Release, Known
  <2>3. CASE UNCHANGED dbVars
    <3>1. \A q \in Procs : pc'[q] \in ReserveSteps => pc'[q] = pc[q] /\ tip'[q] = tip[q]
      BY <2>1 DEF UseInv, RunTypeOK, ReserveSteps
    <3> QED
      BY <2>1, <2>3, <3>1, AsideStep, UsedShrinks
  <2> QED
    BY <1>4, <2>2, <2>3 DEF RecoverFeeRejected, Fail
<1>5. CASE Environment
  <2>1. CASE Flusher
    BY <2>1, FlushStep DEF Flusher, BackgroundFlush
  <2>2. CASE BridgeKeyChanges \/ Mine
    BY <2>2, AsideStep, UsedShrinks DEF BridgeKeyChanges, Mine
  <2>3. ASSUME NEW c \in Deposits, Drop(c) \/ Claim(c) PROVE FreshInv'
    BY <2>3, AsideStep, UsedShrinks DEF Drop, Claim
  <2> QED
    BY <1>5, <2>1, <2>2, <2>3 DEF Environment
<1>6. CASE UNCHANGED vars
  BY <1>6, AsideStep, UsedShrinks DEF vars
<1> QED
  BY <1>1, <1>2, <1>3, <1>4, <1>5, <1>6 DEF Next

\* Where no loss is allowed there is none.
LEMMA NoLoss ==
  ASSUME MaxDbLosses = 0 PROVE UseInv => losses = 0 /\ ~ LoseDatabase
BY DEF UseInv, GhostTypeOK, LoseDatabase

LEMMA FreshInvariance == Spec => [](UseInv /\ FreshInv)
<1>1. Init => FreshInv
  BY DEF Init, DbInit, ChainInit, FreshInv, Covered, OneEach, Known, Seen, Reserves, UsedCounters,
     With
<1>2. UseInv /\ FreshInv /\ [Next]_vars => FreshInv'
  BY FreshNext
<1> QED
  BY <1>1, <1>2, UseInvariance, PTL DEF Spec

(***************************************************************************)
(* While the database is not lost, no reclaim counter is used for a second *)
(* request, whatever fails, however many invocations run at once and       *)
(* however often the bridge's key changes.                                 *)
(***************************************************************************)
THEOREM CountersAreFresh ==
  ASSUME MaxDbLosses = 0 PROVE Spec => []NoReuse
<1>1. UseInv /\ FreshInv => NoReuse
  BY NoLoss DEF FreshInv, NoReuse
<1> QED
  BY <1>1, FreshInvariance, PTL

-----------------------------------------------------------------------------
(* A run of recover drains a counter once. *)

RunInv ==
  /\ lock = NoProc => drained = {}
  /\ \A p \in Procs :
       /\ pc[p] \in (Busy \cap DepositSteps) \cup {"recoverFee"} => drained = {}
       /\ pc[p] \in {"recoverFee", "descs"} =>
            todo \subseteq descs /\ \A d \in todo : d.counter \notin drained
       /\ pc[p] = "seed" => candidates \cap drained = {}
  /\ twice = {}

LEMMA RunNext ==
  ASSUME UseInv, FreshInv, RunInv, [Next]_vars
  PROVE  RunInv'
<1> USE DEF UseInv, RunTypeOK, HolderOnly, RunInv, Busy, DepositSteps, RecoverSteps,
        Goto, At, Exit, ForgetRun, runVars, ghostVars, disk, mem, dbVars
<1>1. ASSUME NEW p \in Procs, DepositStep(p) PROVE RunInv'
  <2>1. CASE DepositFee(p) \/ OpenDeposit(p) \/ BeginReconstruction(p) \/ ReconstructCounter(p)
    BY ZenonT(40), <2>1, NoProcAssumption DEF DepositFee, OpenDeposit, BeginReconstruction,
       BeginSearch, ReconstructCounter, Open, EnsureReclaimCounterAtLeast, Holds
  <2>2. CASE CounterSaved(p) \/ ReserveCounter(p) \/ OutOfCounters(p) \/ CounterReserved(p)
    BY ZenonT(40), <2>2, NoProcAssumption DEF CounterSaved, ReserveCounter, OutOfCounters,
       CounterReserved, FlushReturns, NextReclaimCounter, Holds, Release
  <2>3. CASE SaveDescriptor(p) \/ DescriptorSaved(p) \/ BroadcastDeposit(p)
    BY ZenonT(40), <2>3, NoProcAssumption DEF SaveDescriptor, DescriptorSaved, BroadcastDeposit,
       AddDesc, Holds, FlushReturns, Release
  <2> QED
    BY <1>1, <2>1, <2>2, <2>3 DEF DepositStep
<1>2. ASSUME NEW p \in Procs, RecoverStep(p) PROVE RunInv'
  <2>1. CASE OpenRecover(p)
    BY <2>1 DEF OpenRecover, Open, DueDescs
  <2>2. ASSUME NEW d \in todo, RemoveDesc(p, d) PROVE RunInv'
    BY <2>2 DEF RemoveDesc, Remove, Holds
  <2>3. ASSUME NEW d \in todo, DrainDesc(p, d) PROVE RunInv'
    <3>1. todo \subseteq descs /\ d.counter \notin drained
      BY <2>3 DEF DrainDesc
    <3>2. \A e \in todo' : e.counter \notin drained'
      BY <2>3, <3>1 DEF DrainDesc, FreshInv, OneEach, Known
    <3>3. twice' = {}
      BY <2>3, <3>1 DEF DrainDesc, NoteDrain
    <3> QED
      BY <2>3, <3>1, <3>2, <3>3, NoProcAssumption DEF DrainDesc
  <2>4. ASSUME NEW d \in todo, KeepDesc(p, d) \/ DrainDescRefused(p, d) PROVE RunInv'
    BY <2>4 DEF KeepDesc, DrainDescRefused, NoteDrain, Release
  <2>5. ASSUME NEW c \in candidates,
               SkipCandidate(p, c) \/ DrainCandidate(p, c) \/ DrainCandidateRefused(p, c)
        PROVE RunInv'
    BY <2>5 DEF SkipCandidate, DrainCandidate, DrainCandidateRefused, NoteDrain, Release
  <2>6. CASE RecoverFee(p) \/ BeginDiscovery(p) \/ SearchSeed(p)
    BY <2>6, NoProcAssumption DEF RecoverFee, BeginDiscovery, BeginSearch, SearchSeed
  <2>7. CASE RaiseCounter(p) \/ CounterRaised(p) \/ EndRecover(p)
    BY <2>7, NoProcAssumption DEF RaiseCounter, CounterRaised, EndRecover,
       EnsureReclaimCounterAtLeast, Holds, FlushReturns, Release
  <2> QED
    BY <1>2, <2>1, <2>2, <2>3, <2>4, <2>5, <2>6, <2>7 DEF RecoverStep
<1>3. ASSUME NEW p \in Procs,
             StartDeposit(p) \/ StartRecover(p) \/ RecoverFeeRejected(p) \/ OpenRefused(p) \/ Fail(p)
      PROVE RunInv'
  BY ZenonT(40), <1>3 DEF StartDeposit, StartRecover, RecoverFeeRejected, OpenRefused, Fail, Release
<1>4. CASE Environment
  BY <1>4 DEF Environment, LoseDatabase, BridgeKeyChanges, Flusher, Mine, Slip, Drop, Claim,
     BackgroundFlush
<1>5. CASE UNCHANGED vars
  BY <1>5 DEF vars
<1> QED
  BY <1>1, <1>2, <1>3, <1>4, <1>5 DEF Next

(***************************************************************************)
(* A run of recover drains no deposit twice: no two descriptors are of one *)
(* counter, also when the database was lost in between, and the seed's     *)
(* search leaves out what was drained.                                     *)
(***************************************************************************)
THEOREM DrainsOnce == Spec => []DrainedOnce
<1>1. Init => RunInv
  BY DEF Init, RunInv
<1>2. (UseInv /\ FreshInv) /\ RunInv /\ [Next]_vars => RunInv'
  BY RunNext
<1>3. RunInv => DrainedOnce
  BY DEF RunInv, DrainedOnce
<1> QED
  BY <1>1, <1>2, <1>3, FreshInvariance, PTL DEF Spec

-----------------------------------------------------------------------------
(* A command that runs can go on, and comes to its end. *)

\* The steps that await a flush.
SaveSteps == {"saveCounter", "saveReserve", "saveDesc", "saveHighest"}

LoopInv ==
  /\ lock # NoProc => pc[lock] \in Busy
  /\ \A p \in Procs :
       /\ pc[p] \in Busy => (flushing = "idle" <=> pc[p] \notin SaveSteps)
       /\ pc[p] \in {"saveCounter", "reserve"} => counter # Missing

LEMMA LoopNext ==
  ASSUME UseInv, LoopInv, [Next]_vars PROVE LoopInv'
<1> USE DEF UseInv, RunTypeOK, HolderOnly, LoopInv, SaveSteps, Busy, DepositSteps, RecoverSteps,
        Goto, At, Exit, ForgetRun, runVars, disk, mem, dbVars
<1>1. ASSUME NEW p \in Procs, DepositStep(p) PROVE LoopInv'
  <2>1. CASE OpenDeposit(p)
    BY <2>1, NoProcAssumption DEF OpenDeposit, Open, DbInv, ClosedIsIdle
  <2>7. CASE DepositFee(p)
    BY <2>7, NoProcAssumption DEF DepositFee, DbInv, DbTypeOK
  <2>8. CASE BeginReconstruction(p)
    BY <2>8, NoProcAssumption DEF BeginReconstruction, BeginSearch
  <2>2. CASE ReconstructCounter(p)
    <3>1. HighestFound \in Counters
      BY SearchTypes
    <3>2. counter' # Missing
      BY <2>2, <3>1, CounterValues DEF BeginReconstruction, BeginSearch,
         ReconstructCounter, EnsureReclaimCounterAtLeast, AtLeast
    <3> QED
      BY <2>2, <3>2, NoProcAssumption DEF BeginReconstruction, BeginSearch,
         ReconstructCounter, EnsureReclaimCounterAtLeast, Holds
  <2>3. CASE CounterSaved(p) \/ CounterReserved(p) \/ DescriptorSaved(p)
    BY <2>3, NoProcAssumption DEF CounterSaved, CounterReserved, DescriptorSaved, FlushReturns
  <2>4. CASE ReserveCounter(p)
    BY <2>4, NoProcAssumption DEF ReserveCounter, NextReclaimCounter, Holds
  <2>5. CASE OutOfCounters(p) \/ BroadcastDeposit(p)
    BY <2>5, NoProcAssumption DEF OutOfCounters, BroadcastDeposit, Release
  <2>6. CASE SaveDescriptor(p)
    BY <2>6, NoProcAssumption DEF SaveDescriptor, AddDesc, Holds
  <2> QED
    BY <1>1, <2>1, <2>2, <2>3, <2>4, <2>5, <2>6, <2>7, <2>8 DEF DepositStep
<1>2. ASSUME NEW p \in Procs, RecoverStep(p) PROVE LoopInv'
  <2>1. CASE OpenRecover(p) \/ RecoverFee(p) \/ BeginDiscovery(p) \/ SearchSeed(p)
    BY <2>1, NoProcAssumption DEF OpenRecover, RecoverFee, BeginDiscovery, BeginSearch,
       SearchSeed, Open, DbInv, ClosedIsIdle
  <2>2. ASSUME NEW d \in todo, KeepDesc(p, d) \/ RemoveDesc(p, d) \/ DrainDesc(p, d)
        PROVE LoopInv'
    BY <2>2 DEF KeepDesc, RemoveDesc, DrainDesc, Remove
  <2>3. ASSUME NEW c \in candidates, SkipCandidate(p, c) \/ DrainCandidate(p, c)
        PROVE LoopInv'
    BY <2>3 DEF SkipCandidate, DrainCandidate
  <2>4. ASSUME NEW x, DrainDescRefused(p, x) \/ DrainCandidateRefused(p, x) \/ EndRecover(p)
        PROVE LoopInv'
    BY <2>4, NoProcAssumption DEF DrainDescRefused, DrainCandidateRefused, EndRecover, Release
  <2>5. CASE RaiseCounter(p)
    BY <2>5, NoProcAssumption DEF RaiseCounter, EnsureReclaimCounterAtLeast, Holds
  <2>6. CASE CounterRaised(p)
    BY <2>6, NoProcAssumption DEF CounterRaised, FlushReturns
  <2> QED
    BY <1>2, <2>1, <2>2, <2>3, <2>4, <2>5, <2>6 DEF RecoverStep
<1>3. ASSUME NEW p \in Procs,
             StartDeposit(p) \/ StartRecover(p) \/ RecoverFeeRejected(p) \/ OpenRefused(p) \/ Fail(p)
      PROVE LoopInv'
  <2>1. CASE StartDeposit(p) \/ StartRecover(p)
    BY <2>1, NoProcAssumption DEF StartDeposit, StartRecover, DbInv, DbTypeOK
  <2>2. CASE OpenRefused(p)
    BY <2>2 DEF OpenRefused
  <2>3. CASE RecoverFeeRejected(p)
    BY <2>3, NoProcAssumption DEF RecoverFeeRejected, Release
  <2>4. CASE Fail(p)
    BY <2>4, NoProcAssumption DEF Fail, Release
  <2> QED
    BY <1>3, <2>1, <2>2, <2>3, <2>4
<1>4. CASE Environment
  BY <1>4 DEF Environment, LoseDatabase, BridgeKeyChanges, Flusher, Mine, Slip, Drop, Claim,
     BackgroundFlush
<1>5. CASE UNCHANGED vars
  BY <1>5 DEF vars
<1> QED
  BY <1>1, <1>2, <1>3, <1>4, <1>5 DEF Next

\* The guards of the steps a process may take while it has the database open.
CanGoOn(p) ==
  /\ lock = p
  /\ \/ pc[p] \in SaveSteps /\ flushing # "idle"
     \/ /\ flushing = "idle"
        /\ \/ pc[p] \in {"searchCounter", "build", "broadcast", "recoverFee", "searchSeed", "end"}
           \/ pc[p] = "counter" /\ counter \in Counters \cup {Missing}
           \/ pc[p] = "reserve" /\ counter \in Counters
           \/ pc[p] = "descs" /\ (todo = {} \/ \E d \in todo : NextDesc(d) /\ d \in descs)
           \/ pc[p] = "seed" /\ (candidates = {} \/ \E c \in candidates : NextCandidate(c))

(***************************************************************************)
(* The process that holds the database can always take a step of its own,  *)
(* so that nobody is kept out of it for good: a save awaits a flush that   *)
(* was asked for, a reconstructed counter is there when the next one is    *)
(* reserved, a descriptor that is due and not handled is still there to be *)
(* removed, and a descriptor or a candidate is next as long as one is      *)
(* left.  Of the steps' guards only these can fail in their place; whether *)
(* the network accepts a reclaim or refuses it, there is a step for either.*)
(***************************************************************************)
THEOREM HolderGoesOn == Spec => [](lock # NoProc => CanGoOn(lock))
<1>1. Init => RunInv /\ LoopInv
  BY DEF Init, DbInit, RunInv, LoopInv, Busy, DepositSteps, RecoverSteps
<1>2. (UseInv /\ FreshInv) /\ RunInv /\ LoopInv /\ [Next]_vars => RunInv' /\ LoopInv'
  BY RunNext, LoopNext
<1>3. UseInv /\ RunInv /\ LoopInv => (lock # NoProc => CanGoOn(lock))
  <2> SUFFICES ASSUME UseInv, RunInv, LoopInv, NEW p \in Procs, lock = p, p # NoProc
               PROVE  CanGoOn(p)
    BY DEF UseInv, DbInv, DbTypeOK
  <2> USE DEF CanGoOn, LoopInv
  <2>1. pc[p] \in Busy
    OBVIOUS
  <2>2. CASE pc[p] \in SaveSteps
    BY <2>1, <2>2
  <2>3. CASE pc[p] \in {"searchCounter", "build", "broadcast", "recoverFee", "searchSeed", "end"}
    BY <2>1, <2>3 DEF SaveSteps
  <2>4. CASE pc[p] \in {"counter", "reserve"}
    BY <2>1, <2>4 DEF SaveSteps, UseInv, DbInv, DbTypeOK
  <2>5. CASE pc[p] = "descs"
    <3>1. flushing = "idle"
      BY <2>1, <2>5 DEF SaveSteps
    <3>2. todo \subseteq descs
      BY <2>5 DEF RunInv
    <3>3. todo \subseteq Descs
      BY DEF UseInv, RunTypeOK
    <3>4. ASSUME todo # {} PROVE \E d \in todo : NextDesc(d)
      <4> DEFINE D == {d.recoverAt : d \in todo}
      <4>1. D \subseteq Nat /\ D # {}
        BY <3>3, <3>4 DEF RecoverAt
      <4>2. PICK n \in D : \A m \in D : n <= m
        <5> HIDE DEF D
        <5> QED
          BY <4>1, LeastNumber
      <4> QED
        BY <4>2 DEF NextDesc
    <3> QED
      BY <2>5, <3>1, <3>2, <3>4
  <2>6. CASE pc[p] = "seed"
    <3>1. flushing = "idle"
      BY <2>1, <2>6 DEF SaveSteps
    <3>2. candidates \subseteq Nat
      BY DEF UseInv, RunTypeOK
    <3>3. ASSUME candidates # {} PROVE \E c \in candidates : NextCandidate(c)
      BY <3>2, <3>3, LeastNumber DEF NextCandidate
    <3> QED
      BY <2>6, <3>1, <3>3
  <2> QED
    BY <2>1, <2>2, <2>3, <2>4, <2>5, <2>6 DEF Busy, SaveSteps, DepositSteps, RecoverSteps
<1> QED
  BY <1>1, <1>2, <1>3, FreshInvariance, PTL DEF Spec

\* How many steps a command has before it, at most, with t descriptors and c candidates
\* still to handle.
StepsFrom(step, t, c) ==
  CASE step = "idle" -> 0
    [] step \in {"broadcast", "end"} -> 1
    [] step \in {"saveDesc", "saveHighest"} -> 2
    [] step = "build" -> 3
    [] step = "saveReserve" -> 4
    [] step = "reserve" -> 5
    [] step = "saveCounter" -> 6
    [] step = "searchCounter" -> 7
    [] step = "counter" -> 8
    [] step = "openDeposit" -> 9
    [] step = "fee" -> 10
    [] step = "seed" -> 3 + c
    [] step = "searchSeed" -> MaxCounter + 4
    [] step = "descs" -> MaxCounter + 5 + t
    [] step = "recoverFee" -> MaxCounter + 6 + t
    [] step = "openRecover" -> MaxCounter + 7 + Cardinality(Descs)

StepsLeft(p) == StepsFrom(pc[p], Cardinality(todo), Cardinality(candidates))

\* A step of an invocation that has been started.
Runs(p) ==
  DepositStep(p) \/ RecoverStep(p) \/ RecoverFeeRejected(p) \/ OpenRefused(p) \/ Fail(p)

LEMMA DescsFinite == IsFiniteSet(Descs) /\ Cardinality(Descs) \in Nat
<1> DEFINE H == 0 .. RecoverAt(MaxHeight)
           f == [x \in Deposits \X H |-> [counter |-> x[1], recoverAt |-> x[2]]]
<1>1. IsFiniteSet(Deposits \X H)
  <2>1. IsFiniteSet(Deposits) /\ IsFiniteSet(H)
    <3>1. MaxCounter \in Int /\ RecoverAt(MaxHeight) \in Int
      BY DEF RecoverAt
    <3> QED
      BY <3>1, FS_Interval
  <2> HIDE DEF H
  <2> QED
    BY <2>1, FS_Product
<1>2. f \in Surjection(Deposits \X H, Descs)
  <2>1. f \in [Deposits \X H -> Descs]
    OBVIOUS
  <2>2. ASSUME NEW d \in Descs PROVE \E x \in Deposits \X H : f[x] = d
    <3>1. <<d.counter, d.recoverAt>> \in Deposits \X H
      BY <2>2
    <3>2. f[<<d.counter, d.recoverAt>>] = d
      BY <2>2
    <3> QED
      BY <3>1, <3>2
  <2> HIDE DEF f
  <2> QED
    BY <2>1, <2>2, Zenon DEF Surjection
<1> HIDE DEF f, H
<1>3. IsFiniteSet(Descs)
  BY <1>1, <1>2, FS_Surjection
<1> QED
  BY <1>3, FS_CardinalityType

LEMMA WorkFinite ==
  ASSUME NEW D, NEW C, D \in SUBSET Descs, C \in SUBSET Deposits
  PROVE  /\ IsFiniteSet(D) /\ Cardinality(D) \in 0 .. Cardinality(Descs)
         /\ IsFiniteSet(C) /\ Cardinality(C) \in 0 .. MaxCounter
<1>1. IsFiniteSet(D) /\ Cardinality(D) <= Cardinality(Descs)
  BY DescsFinite, FS_Subset
<1>2. IsFiniteSet(Deposits) /\ Cardinality(Deposits) = MaxCounter
  <2>1. MaxCounter \in Int /\ 1 \in Int /\ MaxCounter >= 0
    OBVIOUS
  <2>2. Cardinality(1 .. MaxCounter) = IF 1 > MaxCounter THEN 0 ELSE MaxCounter - 1 + 1
    BY <2>1, FS_Interval
  <2> QED
    BY <2>1, <2>2, FS_Interval
<1>3. IsFiniteSet(C) /\ Cardinality(C) <= MaxCounter
  BY <1>2, FS_Subset
<1>4. Cardinality(D) \in Nat /\ Cardinality(C) \in Nat
  BY <1>1, <1>3, FS_CardinalityType
<1> QED
  BY <1>1, <1>3, <1>4, DescsFinite

LEMMA OneLess ==
  ASSUME NEW S, NEW x \in S, IsFiniteSet(S)
  PROVE  Cardinality(S \ {x}) = Cardinality(S) - 1
BY FS_RemoveElement

\* The same as a table, which the provers read more easily.
DepositTable(t, c) ==
  /\ StepsFrom("idle", t, c) = 0
  /\ StepsFrom("fee", t, c) = 10 /\ StepsFrom("openDeposit", t, c) = 9
  /\ StepsFrom("counter", t, c) = 8 /\ StepsFrom("searchCounter", t, c) = 7
  /\ StepsFrom("saveCounter", t, c) = 6
  /\ StepsFrom("reserve", t, c) = 5 /\ StepsFrom("saveReserve", t, c) = 4
  /\ StepsFrom("build", t, c) = 3 /\ StepsFrom("saveDesc", t, c) = 2
  /\ StepsFrom("broadcast", t, c) = 1

RecoverTable(t, c) ==
  /\ StepsFrom("openRecover", t, c) = MaxCounter + 7 + Cardinality(Descs)
  /\ StepsFrom("recoverFee", t, c) = MaxCounter + 6 + t
  /\ StepsFrom("descs", t, c) = MaxCounter + 5 + t
  /\ StepsFrom("searchSeed", t, c) = MaxCounter + 4
  /\ StepsFrom("seed", t, c) = 3 + c
  /\ StepsFrom("saveHighest", t, c) = 2
  /\ StepsFrom("end", t, c) = 1

LEMMA StepsTables ==
  ASSUME NEW t, NEW c
  PROVE  DepositTable(t, c) /\ RecoverTable(t, c)
<1>1. StepsFrom("idle", t, c) = 0 /\ StepsFrom("fee", t, c) = 10
  BY DEF StepsFrom
<1>11. StepsFrom("searchCounter", t, c) = 7 /\ StepsFrom("searchSeed", t, c) = MaxCounter + 4
  BY DEF StepsFrom
<1>2. StepsFrom("openDeposit", t, c) = 9 /\ StepsFrom("counter", t, c) = 8
  BY DEF StepsFrom
<1>3. StepsFrom("saveCounter", t, c) = 6 /\ StepsFrom("reserve", t, c) = 5
  BY DEF StepsFrom
<1>4. StepsFrom("saveReserve", t, c) = 4 /\ StepsFrom("build", t, c) = 3
  BY DEF StepsFrom
<1>5. StepsFrom("saveDesc", t, c) = 2 /\ StepsFrom("broadcast", t, c) = 1
  BY DEF StepsFrom
<1>6. StepsFrom("openRecover", t, c) = MaxCounter + 7 + Cardinality(Descs)
  BY DEF StepsFrom
<1>7. StepsFrom("recoverFee", t, c) = MaxCounter + 6 + t
  BY DEF StepsFrom
<1>8. StepsFrom("descs", t, c) = MaxCounter + 5 + t
  BY DEF StepsFrom
<1>9. StepsFrom("seed", t, c) = 3 + c
  BY DEF StepsFrom
<1>10. StepsFrom("saveHighest", t, c) = 2 /\ StepsFrom("end", t, c) = 1
  BY DEF StepsFrom
<1> QED
  BY <1>1, <1>2, <1>3, <1>4, <1>5, <1>6, <1>7, <1>8, <1>9, <1>10, <1>11, Zenon
     DEF DepositTable, RecoverTable

LEMMA StepsFromType ==
  ASSUME NEW t \in Nat, NEW c \in Nat, NEW step \in DepositSteps \cup RecoverSteps
  PROVE  StepsFrom(step, t, c) \in Nat \ {0}
<1>1. DepositTable(t, c) /\ RecoverTable(t, c)
  BY StepsTables, Zenon
<1>2. CASE step \in DepositSteps
  BY <1>1, <1>2 DEF DepositTable, DepositSteps
<1>3. CASE step \in {"saveHighest", "end"}
  BY <1>1, <1>3 DEF RecoverTable
<1>4. CASE step = "seed"
  BY <1>1, <1>4 DEF RecoverTable
<1>5. CASE step = "descs" \/ step = "recoverFee" \/ step = "searchSeed"
  BY <1>1, <1>5 DEF RecoverTable
<1>6. CASE step = "openRecover"
  <2>1. PICK n \in Nat : n = Cardinality(Descs)
    BY DescsFinite
  <2> QED
    BY SMTT(30), <1>1, <1>6, <2>1 DEF RecoverTable
<1> QED
  BY <1>2, <1>3, <1>4, <1>5, <1>6 DEF RecoverSteps

LEMMA WorkTypes ==
  ASSUME UseInv
  PROVE  /\ IsFiniteSet(todo) /\ IsFiniteSet(candidates)
         /\ Cardinality(todo) \in Nat /\ Cardinality(todo) <= Cardinality(Descs)
         /\ Cardinality(candidates) \in Nat /\ Cardinality(candidates) <= MaxCounter
         /\ pc \in [Procs -> {"idle"} \cup DepositSteps \cup RecoverSteps]
<1>1. todo \in SUBSET Descs /\ candidates \in SUBSET Deposits
  BY DEF UseInv, RunTypeOK
<1>2. \A n \in Nat : \A k \in 0 .. n : k \in Nat /\ k <= n
  OBVIOUS
<1>3. pc \in [Procs -> {"idle"} \cup DepositSteps \cup RecoverSteps]
  BY DEF UseInv, RunTypeOK
<1> QED
  BY <1>1, <1>2, <1>3, WorkFinite, DescsFinite

LEMMA StepsLeftType ==
  ASSUME UseInv, NEW p \in Procs PROVE StepsLeft(p) \in Nat
<1>1. CASE pc[p] = "idle"
  BY <1>1, StepsTables DEF StepsLeft, DepositTable
<1>2. CASE pc[p] \in DepositSteps \cup RecoverSteps
  <2>1. StepsFrom(pc[p], Cardinality(todo), Cardinality(candidates)) \in Nat \ {0}
    BY <1>2, WorkTypes, StepsFromType
  <2> QED
    BY <2>1 DEF StepsLeft
<1> QED
  BY <1>1, <1>2, WorkTypes

LEMMA EveryStepLowers ==
  ASSUME UseInv, UseInv', NEW p \in Procs, Runs(p)
  PROVE  StepsLeft(p)' < StepsLeft(p)
<1>1. /\ IsFiniteSet(todo) /\ IsFiniteSet(candidates)
      /\ pc \in [Procs -> {"idle"} \cup DepositSteps \cup RecoverSteps]
  BY WorkTypes
<1>t. PICK t \in Nat : t = Cardinality(todo)
  BY WorkTypes
<1>c. PICK c \in Nat : c = Cardinality(candidates)
  BY WorkTypes
<1>2. todo' \in SUBSET Descs /\ candidates' \in SUBSET Deposits
  BY DEF UseInv, RunTypeOK
<1>u. PICK u \in Nat : u = Cardinality(todo') /\ u <= Cardinality(Descs)
  <2>1. \A n \in Nat : \A k \in 0 .. n : k \in Nat /\ k <= n
    OBVIOUS
  <2> QED
    BY <1>2, <2>1, WorkFinite, DescsFinite
<1>d. PICK d \in Nat : d = Cardinality(candidates') /\ d <= MaxCounter
  <2>1. \A n \in Nat : \A k \in 0 .. n : k \in Nat /\ k <= n
    OBVIOUS
  <2> QED
    BY <1>2, <2>1, WorkFinite
<1>3. StepsLeft(p) = StepsFrom(pc[p], t, c) /\ StepsLeft(p)' = StepsFrom(pc'[p], u, d)
  BY <1>t, <1>c, <1>u, <1>d DEF StepsLeft
<1>v. DepositTable(t, c) /\ RecoverTable(t, c) /\ DepositTable(u, d) /\ RecoverTable(u, d)
  BY StepsTables, Zenon
<1>4. ASSUME NEW x \in todo, todo' = todo \ {x} PROVE u = t - 1
  BY <1>1, <1>t, <1>u, <1>4, OneLess
<1>5. ASSUME NEW x \in candidates, candidates' = candidates \ {x} PROVE d = c - 1
  BY <1>1, <1>c, <1>d, <1>5, OneLess
<1> USE DEF Goto, At, Exit
<1>6. CASE pc'[p] = "idle" /\ pc[p] # "idle"
  <2>1. StepsFrom(pc[p], t, c) \in Nat \ {0}
    BY <1>1, <1>6, StepsFromType
  <2>2. StepsFrom(pc'[p], u, d) = 0
    BY <1>6, <1>v DEF DepositTable
  <2> QED
    BY <1>3, <2>1, <2>2
<1>7. CASE DepositStep(p)
  <2>1. CASE DepositFee(p) \/ OpenDeposit(p) \/ OutOfCounters(p) \/ BroadcastDeposit(p)
    <3>1. \/ pc'[p] = "idle" /\ pc[p] # "idle"
          \/ pc[p] = "fee" /\ pc'[p] = "openDeposit"
          \/ pc[p] = "openDeposit" /\ pc'[p] = "counter"
      BY <1>1, <2>1 DEF DepositFee, OpenDeposit, OutOfCounters, BroadcastDeposit
    <3> QED
      BY SMTT(30), <1>3, <1>v, <1>6, <3>1 DEF DepositTable
  <2>2. CASE \/ BeginReconstruction(p) \/ ReconstructCounter(p) \/ CounterSaved(p)
             \/ ReserveCounter(p) \/ CounterReserved(p)
    <3>1. \/ pc[p] = "counter" /\ pc'[p] = "searchCounter"
          \/ pc[p] = "searchCounter" /\ pc'[p] = "saveCounter"
          \/ pc[p] = "saveCounter" /\ pc'[p] = "reserve"
          \/ pc[p] \in {"counter", "reserve"} /\ pc'[p] = "saveReserve"
          \/ pc[p] = "saveReserve" /\ pc'[p] = "build"
      BY <1>1, <2>2 DEF BeginReconstruction, BeginSearch, ReconstructCounter, CounterSaved,
         ReserveCounter, CounterReserved
    <3> QED
      BY SMTT(30), <1>3, <1>v, <3>1 DEF DepositTable
  <2>3. CASE SaveDescriptor(p) \/ DescriptorSaved(p)
    <3>1. \/ pc[p] = "build" /\ pc'[p] = "saveDesc"
          \/ pc[p] = "saveDesc" /\ pc'[p] = "broadcast"
      BY <1>1, <2>3 DEF SaveDescriptor, DescriptorSaved
    <3> QED
      BY SMTT(30), <1>3, <1>v, <3>1 DEF DepositTable
  <2> QED
    BY <1>7, <2>1, <2>2, <2>3 DEF DepositStep
<1>8. CASE RecoverStep(p)
  <2>1. CASE OpenRecover(p)
    <3>1. pc[p] = "openRecover" /\ pc'[p] = "recoverFee"
      BY <1>1, <2>1 DEF OpenRecover
    <3>2. MaxCounter + 6 + u < MaxCounter + 7 + Cardinality(Descs)
      <4>1. \A n \in Nat : u <= n => MaxCounter + 6 + u < MaxCounter + 7 + n
        OBVIOUS
      <4> QED
        BY <1>u, <4>1, DescsFinite
    <3> QED
      BY <1>3, <1>v, <3>1, <3>2 DEF RecoverTable
  <2>2. CASE RecoverFee(p)
    <3>1. pc[p] = "recoverFee" /\ pc'[p] = "descs" /\ u = t
      BY <1>1, <1>t, <1>u, <2>2 DEF RecoverFee, runVars
    <3>2. MaxCounter + 5 + t < MaxCounter + 6 + t
      OBVIOUS
    <3> QED
      BY <1>3, <1>v, <3>1, <3>2 DEF RecoverTable
  <2>3. ASSUME NEW x \in todo, KeepDesc(p, x) \/ RemoveDesc(p, x) \/ DrainDesc(p, x)
        PROVE  StepsLeft(p)' < StepsLeft(p)
    <3>1. pc[p] = "descs" /\ pc'[p] = "descs" /\ todo' = todo \ {x}
      BY <1>1, <2>3 DEF KeepDesc, RemoveDesc, DrainDesc
    <3>2. MaxCounter + 5 + u < MaxCounter + 5 + t
      BY <1>4, <3>1
    <3> QED
      BY <1>3, <1>v, <3>1, <3>2 DEF RecoverTable
  <2>9. CASE BeginDiscovery(p)
    <3>1. pc[p] = "descs" /\ pc'[p] = "searchSeed"
      BY <1>1, <2>9 DEF BeginDiscovery
    <3>2. MaxCounter + 4 < MaxCounter + 5 + t
      OBVIOUS
    <3> QED
      BY <1>3, <1>v, <3>1, <3>2 DEF RecoverTable
  <2>4. CASE SearchSeed(p)
    <3>1. pc[p] = "searchSeed" /\ pc'[p] = "seed"
      BY <1>1, <2>4 DEF SearchSeed
    <3>2. 3 + d < MaxCounter + 4
      BY <1>d
    <3> QED
      BY <1>3, <1>v, <3>1, <3>2 DEF RecoverTable
  <2>5. ASSUME NEW x \in candidates, SkipCandidate(p, x) \/ DrainCandidate(p, x)
        PROVE  StepsLeft(p)' < StepsLeft(p)
    <3>1. pc[p] = "seed" /\ pc'[p] = "seed" /\ candidates' = candidates \ {x}
      BY <1>1, <2>5 DEF SkipCandidate, DrainCandidate
    <3>2. 3 + d < 3 + c
      BY <1>5, <3>1
    <3> QED
      BY <1>3, <1>v, <3>1, <3>2 DEF RecoverTable
  <2>6. CASE RaiseCounter(p)
    <3>1. pc[p] = "seed" /\ pc'[p] = "saveHighest"
      BY <1>1, <2>6 DEF RaiseCounter
    <3>2. 2 < 3 + c
      OBVIOUS
    <3> QED
      BY <1>3, <1>v, <3>1, <3>2 DEF RecoverTable
  <2>7. CASE CounterRaised(p)
    <3>1. pc[p] = "saveHighest" /\ pc'[p] = "end"
      BY <1>1, <2>7 DEF CounterRaised
    <3> QED
      BY <1>3, <1>v, <3>1 DEF RecoverTable
  <2>8. ASSUME NEW x, DrainDescRefused(p, x) \/ DrainCandidateRefused(p, x) \/ EndRecover(p)
        PROVE  StepsLeft(p)' < StepsLeft(p)
    BY <1>1, <1>6, <2>8 DEF DrainDescRefused, DrainCandidateRefused, EndRecover
  <2> QED
    BY <1>8, <2>1, <2>2, <2>3, <2>4, <2>5, <2>6, <2>7, <2>8, <2>9 DEF RecoverStep
<1>9. CASE RecoverFeeRejected(p) \/ OpenRefused(p) \/ Fail(p)
  BY <1>1, <1>6, <1>9 DEF RecoverFeeRejected, OpenRefused, Fail
<1> QED
  BY <1>7, <1>8, <1>9 DEF Runs

\* Nobody else's step changes how many are left to a process.
LEMMA OthersLeaveIt ==
  ASSUME UseInv, [Next]_vars, NEW p \in Procs, pc[p] # "idle", ~ Runs(p)
  PROVE  StepsLeft(p)' = StepsLeft(p)
<1> USE DEF UseInv, RunTypeOK, Goto, At, Exit, ForgetRun, runVars
<1>1. ASSUME pc'[p] = pc[p],
             pc[p] \in {"recoverFee", "descs", "seed"} => todo' = todo /\ candidates' = candidates
      PROVE  StepsLeft(p)' = StepsLeft(p)
  <2>1. CASE pc[p] \in {"recoverFee", "descs", "seed"}
    BY <1>1, <2>1 DEF StepsLeft
  <2>2. CASE pc[p] \in DepositSteps \cup {"openRecover", "searchSeed", "saveHighest", "end"}
    BY <1>1, <2>2, StepsTables DEF StepsLeft, DepositSteps, DepositTable, RecoverTable
  <2> QED
    BY <2>1, <2>2 DEF RecoverSteps
<1>2. ASSUME NEW q \in Procs, q # p,
             \/ DepositStep(q) \/ StartDeposit(q) \/ StartRecover(q) \/ OpenRefused(q)
      PROVE  pc'[p] = pc[p] /\ todo' = todo /\ candidates' = candidates
  BY <1>2 DEF DepositStep, DepositFee, OpenDeposit, BeginReconstruction, BeginSearch,
     ReconstructCounter, CounterSaved, ReserveCounter, OutOfCounters, CounterReserved,
     SaveDescriptor, DescriptorSaved, BroadcastDeposit, StartDeposit, StartRecover,
     OpenRefused
<1>3. ASSUME NEW q \in Procs, q # p, RecoverStep(q) \/ RecoverFeeRejected(q) \/ Fail(q)
      PROVE  pc'[p] = pc[p]
  BY <1>3 DEF RecoverStep, OpenRecover, RecoverFee, KeepDesc, RemoveDesc, DrainDesc,
     DrainDescRefused, BeginDiscovery, BeginSearch, SearchSeed, SkipCandidate,
     DrainCandidate, DrainCandidateRefused, RaiseCounter, CounterRaised, EndRecover,
     RecoverFeeRejected, Fail
<1>4. ASSUME NEW q \in Procs, q # p, RecoverStep(q) \/ RecoverFeeRejected(q) \/ Fail(q)
      PROVE  lock # p \/ (todo' = todo /\ candidates' = candidates)
  <2>1. CASE lock = NoProc \/ lock = q
    BY <1>4, <2>1, NoProcAssumption
  <2>2. CASE lock # NoProc /\ lock # q
    <3>1. pc[q] \in {"idle", "fee", "openDeposit", "openRecover"}
      BY <2>2 DEF HolderOnly
    <3> QED
      BY <1>4, <2>2, <3>1 DEF RecoverStep, OpenRecover, Open, RecoverFee, KeepDesc,
         RemoveDesc, DrainDesc, DrainDescRefused, BeginDiscovery, BeginSearch, SearchSeed,
         SkipCandidate, DrainCandidate, DrainCandidateRefused, RaiseCounter, CounterRaised,
         EndRecover, RecoverFeeRejected, Fail, Release
  <2> QED
    BY <2>1, <2>2
<1>5. pc[p] \in {"recoverFee", "descs", "seed"} => lock = p
  BY DEF HolderOnly
<1>6. CASE Environment \/ UNCHANGED vars
  BY <1>1, <1>6 DEF Environment, LoseDatabase, BridgeKeyChanges, Flusher, Mine, Slip, Drop,
     Claim, vars
<1>7. ~ StartDeposit(p) /\ ~ StartRecover(p)
  BY DEF StartDeposit, StartRecover
<1>8. CASE Next /\ ~ Environment
  <2>1. PICK q \in Procs :
          \/ DepositStep(q) \/ StartDeposit(q) \/ StartRecover(q) \/ OpenRefused(q)
          \/ RecoverStep(q) \/ RecoverFeeRejected(q) \/ Fail(q)
    BY <1>8 DEF Next
  <2>2. q # p
    BY <1>7, <2>1 DEF Runs
  <2> QED
    BY <1>1, <1>2, <1>3, <1>4, <1>5, <2>1, <2>2
<1> QED
  BY <1>6, <1>8

(***************************************************************************)
(* Every invocation of deposit or recover ends: the number of steps before *)
(* it is finite, each step it takes, failing ones included, lowers it, and *)
(* no other invocation, no block and no loss of the database raises it.    *)
(* With HolderGoesOn, and since one that finds the database taken ends, it *)
(* is why recover comes to every deposit that it has to look at.           *)
(***************************************************************************)
THEOREM CommandsAreFinite ==
  Spec => /\ [](\A p \in Procs : StepsLeft(p) \in Nat)
          /\ [][\A p \in Procs : pc[p] # "idle" =>
                  IF Runs(p) THEN StepsLeft(p)' < StepsLeft(p)
                             ELSE StepsLeft(p)' = StepsLeft(p)]_vars
<1> DEFINE Lower == \A p \in Procs : pc[p] # "idle" =>
                      IF Runs(p) THEN StepsLeft(p)' < StepsLeft(p)
                                 ELSE StepsLeft(p)' = StepsLeft(p)
<1>1. UseInv => \A p \in Procs : StepsLeft(p) \in Nat
  BY StepsLeftType
<1>2. UseInv /\ UseInv' /\ [Next]_vars => [Lower]_vars
  BY EveryStepLowers, OthersLeaveIt
<1> QED
  BY <1>1, <1>2, UseInvariance, PTL DEF Spec

-----------------------------------------------------------------------------
(* The descriptor of a deposit outlives it. *)

\* What S describes: the requests that wait, at the height they are due, and the
\* outputs nobody has spent.
Describes(S) ==
  /\ \A c \in With("mempool") :
       \E d \in S : d.counter = c /\ d.recoverAt = RecoverAt(builtAt[c])
  /\ \A c \in With("confirmed") : \E d \in S : d.counter = c

\* A request is in a block or dropped before its descriptor is old.
InTime ==
  /\ \A c \in With("mempool") : height < builtAt[c] + ConfirmWindow
  /\ \A p \in Procs :
       /\ tip[p] <= height
       /\ pc[p] \in DepositSteps => height < tip[p] + ConfirmWindow

KeptInv == Describes(diskDescs) /\ Describes(descs) /\ InTime

(* Commands do not age a request; a deposit starts at the height there is. *)
LEMMA InTimeSame ==
  ASSUME UseInv, InTime, UNCHANGED chainVars, RunTypeOK', NEW p \in Procs,
         \/ UNCHANGED tip /\ pc[p] \in RecoverSteps /\ pc'[p] \in RecoverSteps
         \/ UNCHANGED tip /\ pc[p] \in DepositSteps /\ pc'[p] \in DepositSteps
         \/ tip' = [tip EXCEPT ![p] = height] /\ pc'[p] # "idle"
         \/ tip' = [tip EXCEPT ![p] = 0] /\ pc'[p] = "idle",
         \A q \in Procs \ {p} : pc'[q] = pc[q]
  PROVE  InTime'
<1>1. height \in Nat /\ height' = height /\ \A q \in Procs : tip[q] \in Nat
  BY DEF UseInv, ChainTypeOK, RunTypeOK, chainVars
<1>2. \A c \in With("mempool")' : height' < builtAt'[c] + ConfirmWindow
  BY DEF InTime, With, chainVars
<1>3. ASSUME NEW q \in Procs
      PROVE  tip'[q] <= height' /\ (pc'[q] \in DepositSteps => height' < tip'[q] + ConfirmWindow)
  <2>1. tip'[q] \in {tip[q], height, 0}
    BY DEF UseInv, RunTypeOK
  <2>2. CASE q # p
    BY <1>1, <2>2 DEF UseInv, RunTypeOK, InTime
  <2>3. CASE q = p
    BY <1>1, <2>1, <2>3 DEF UseInv, RunTypeOK, InTime, DepositSteps, RecoverSteps
  <2> QED
    BY <2>2, <2>3
<1> QED
  BY <1>2, <1>3 DEF InTime

LEMMA InTimeNext ==
  ASSUME UseInv, InTime, [Next]_vars, ~ LoseDatabase
  PROVE  InTime'
<1> USE DEF Goto, At, Exit, chainVars
<1>0. RunTypeOK' /\ RunTypeOK
  BY RunTypes DEF UseInv
<1>1. ASSUME NEW c \in Deposits, AcceptReclaim(c) \/ DropDeposit(c) \/ DropReclaim(c) \/ BridgeClaims(c),
             UNCHANGED <<pc, tip>>
      PROVE  InTime'
  <2>1. /\ height' = height
        /\ \A e \in With("mempool")' : e \in With("mempool") /\ builtAt'[e] = builtAt[e]
    BY <1>1 DEF AcceptReclaim, DropDeposit, DropReclaim, BridgeClaims, With, UseInv, ChainTypeOK
  <2> QED
    BY <1>1, <2>1 DEF InTime
<1>2. ASSUME NEW p \in Procs, DepositStep(p) PROVE InTime'
  <2>1. CASE BroadcastDeposit(p)
    <3>1. /\ status' = [status EXCEPT ![counter] = "mempool"]
          /\ builtAt' = [builtAt EXCEPT ![counter] = tip[p]]
          /\ height' = height /\ height < tip[p] + ConfirmWindow
          /\ pc' = [pc EXCEPT ![p] = "idle"] /\ tip' = [tip EXCEPT ![p] = 0]
      BY <2>1 DEF BroadcastDeposit, AcceptDeposit, InTime, DepositSteps
    <3>2. \A c \in With("mempool")' : height' < builtAt'[c] + ConfirmWindow
      BY <3>1 DEF InTime, With, UseInv, ChainTypeOK
    <3>3. \A q \in Procs : tip'[q] <= height' /\
            (pc'[q] \in DepositSteps => height' < tip'[q] + ConfirmWindow)
      BY <1>0, <3>1 DEF InTime, UseInv, ChainTypeOK, RunTypeOK, DepositSteps
    <3> QED
      BY <3>2, <3>3 DEF InTime
  <2>2. CASE OutOfCounters(p)
    BY <1>0, <2>2, InTimeSame DEF OutOfCounters, RunTypeOK
  <2>3. CASE DepositFee(p)
    <3>1. pc[p] \in DepositSteps /\ pc'[p] \in DepositSteps \cup {"idle"}
      BY <1>0, <2>3 DEF DepositFee, RunTypeOK, DepositSteps
    <3>2. pc'[p] # "idle" => UNCHANGED tip
      BY <1>0, <2>3 DEF DepositFee, RunTypeOK
    <3>3. pc'[p] = "idle" => tip' = [tip EXCEPT ![p] = 0]
      BY <1>0, <2>3 DEF DepositFee, RunTypeOK
    <3>4. UNCHANGED chainVars /\ \A q \in Procs \ {p} : pc'[q] = pc[q]
      BY <1>0, <2>3 DEF DepositFee, RunTypeOK
    <3> QED
      BY <1>0, <3>1, <3>2, <3>3, <3>4, InTimeSame
  <2>4. CASE ~ (BroadcastDeposit(p) \/ OutOfCounters(p) \/ DepositFee(p))
    <3>1. /\ UNCHANGED <<chainVars, tip>> /\ pc[p] \in DepositSteps /\ pc'[p] \in DepositSteps
          /\ \A q \in Procs \ {p} : pc'[q] = pc[q]
      BY <1>0, <1>2, <2>4 DEF DepositStep, OpenDeposit, BeginReconstruction, BeginSearch,
         ReconstructCounter, CounterSaved, ReserveCounter, CounterReserved, SaveDescriptor,
         DescriptorSaved, DepositSteps, RunTypeOK
    <3> QED
      BY <1>0, <3>1, InTimeSame
  <2> QED
    BY <2>1, <2>2, <2>3, <2>4
<1>3. ASSUME NEW p \in Procs, RecoverStep(p) PROVE InTime'
  <2>1. ASSUME NEW d \in todo, DrainDesc(p, d) PROVE InTime'
    BY <1>0, <1>1, <2>1 DEF DrainDesc, RunTypeOK
  <2>2. ASSUME NEW c \in candidates, DrainCandidate(p, c) PROVE InTime'
    BY <1>0, <1>1, <2>2 DEF DrainCandidate, RunTypeOK
  <2>3. ASSUME UNCHANGED <<chainVars, tip>>, pc[p] \in RecoverSteps, pc'[p] \in RecoverSteps,
               \A q \in Procs \ {p} : pc'[q] = pc[q]
        PROVE  InTime'
    BY <1>0, <2>3, InTimeSame
  <2>4. CASE \/ OpenRecover(p) \/ RecoverFee(p) \/ BeginDiscovery(p) \/ SearchSeed(p)
             \/ RaiseCounter(p) \/ CounterRaised(p)
    BY <1>0, <2>3, <2>4 DEF OpenRecover, RecoverFee, BeginDiscovery, BeginSearch,
       SearchSeed, RaiseCounter, CounterRaised, RecoverSteps, RunTypeOK
  <2>5. ASSUME NEW d \in todo, KeepDesc(p, d) \/ RemoveDesc(p, d) PROVE InTime'
    BY <1>0, <2>3, <2>5 DEF KeepDesc, RemoveDesc, RecoverSteps, RunTypeOK
  <2>6. ASSUME NEW c \in candidates, SkipCandidate(p, c) PROVE InTime'
    BY <1>0, <2>3, <2>6 DEF SkipCandidate, RecoverSteps, RunTypeOK
  <2>7. ASSUME UNCHANGED chainVars, Exit(p) PROVE InTime'
    BY <1>0, <2>7, InTimeSame DEF RunTypeOK
  <2> QED
    BY <1>3, <2>1, <2>2, <2>4, <2>5, <2>6, <2>7 DEF RecoverStep, DrainDescRefused,
       DrainCandidateRefused, EndRecover
<1>4. ASSUME NEW p \in Procs, RecoverFeeRejected(p) \/ OpenRefused(p) \/ Fail(p) PROVE InTime'
  <2>1. UNCHANGED chainVars /\ Exit(p)
    BY <1>4 DEF RecoverFeeRejected, OpenRefused, Fail
  <2> QED
    BY <1>0, <2>1, InTimeSame DEF RunTypeOK
<1>5. ASSUME NEW p \in Procs, StartDeposit(p) \/ StartRecover(p) PROVE InTime'
  BY <1>0, <1>5, InTimeSame DEF StartDeposit, StartRecover, RunTypeOK
<1>6. CASE Mine
  BY SMTT(30), <1>0, <1>6 DEF Mine, Slip, MineBlock, InTime, With, UseInv, ChainTypeOK, RunTypeOK
<1>7. CASE Environment /\ ~ Mine
  <2>1. ASSUME NEW c \in Deposits, Drop(c) \/ Claim(c) PROVE InTime'
    BY <1>1, <2>1 DEF Drop, Claim
  <2>2. CASE UNCHANGED <<chainVars, pc, tip>>
    BY <2>2 DEF InTime, With
  <2> QED
    BY <1>7, <2>1, <2>2 DEF Environment, BridgeKeyChanges, Flusher
<1>8. CASE UNCHANGED vars
  BY <1>8 DEF vars, InTime, With
<1> QED
  BY <1>2, <1>3, <1>4, <1>5, <1>6, <1>7, <1>8 DEF Next

\* The network moves, or nothing does.
ChainMoves ==
  \/ UNCHANGED chainVars
  \/ \E c \in Deposits : AcceptReclaim(c) \/ DropDeposit(c) \/ DropReclaim(c) \/ BridgeClaims(c)
  \/ Mine

(* The network makes no output the user's again, if it keeps every reclaim. *)
LEMMA ChainDescribed ==
  ASSUME UseInv, ReclaimsStay, NEW S, Describes(S), ChainMoves,
         NEW T, S \subseteq T
  PROVE  /\ \A c \in With("mempool")' :
              \E d \in T : d.counter = c /\ d.recoverAt = RecoverAt(builtAt'[c])
         /\ \A c \in With("confirmed")' : \E d \in T : d.counter = c
<1> DEFINE Fewer == /\ \A e \in With("mempool")' : e \in With("mempool") /\ builtAt'[e] = builtAt[e]
                    /\ With("confirmed")' \subseteq With("confirmed") \cup With("mempool")
<1>1. ASSUME UNCHANGED chainVars PROVE Fewer
  BY <1>1 DEF chainVars, With
<1>2. ASSUME NEW c \in Deposits,
             AcceptReclaim(c) \/ DropDeposit(c) \/ DropReclaim(c) \/ BridgeClaims(c)
      PROVE  Fewer
  BY <1>2 DEF AcceptReclaim, DropDeposit, DropReclaim, BridgeClaims, With, UseInv, ChainTypeOK
<1>3. ASSUME Mine PROVE Fewer
  <2>1. PICK D \in SUBSET With("mempool"), R \in SUBSET With("pending") : MineBlock(D, R)
    BY <1>3 DEF Mine
  <2> QED
    BY <2>1 DEF MineBlock, With
<1>4. Fewer
  BY <1>1, <1>2, <1>3 DEF ChainMoves
<1> QED
  BY <1>4 DEF Describes

\* Memory and disk each hold what one of them held.
NothingRemoved ==
  /\ diskDescs \subseteq diskDescs' \/ descs \subseteq diskDescs'
  /\ diskDescs \subseteq descs' \/ descs \subseteq descs'

LEMMA MostStepsKeep ==
  ASSUME UseInv, [Next]_vars, ~ LoseDatabase,
         \A p \in Procs : ~ BroadcastDeposit(p) /\ \A d \in todo : ~ RemoveDesc(p, d)
  PROVE  ChainMoves /\ NothingRemoved
<1> USE DEF ChainMoves, NothingRemoved, dbVars, disk, mem
<1>1. ASSUME NEW p \in Procs, DepositStep(p) PROVE ChainMoves /\ NothingRemoved
  BY <1>1 DEF DepositStep, DepositFee, OpenDeposit, BeginReconstruction, BeginSearch,
     ReconstructCounter, CounterSaved, ReserveCounter, OutOfCounters, CounterReserved,
     SaveDescriptor, DescriptorSaved, Open, EnsureReclaimCounterAtLeast, FlushReturns,
     NextReclaimCounter, AddDesc, Release
<1>2. ASSUME NEW p \in Procs, RecoverStep(p) PROVE ChainMoves /\ NothingRemoved
  BY <1>2 DEF RecoverStep, OpenRecover, RecoverFee, KeepDesc, DrainDesc, DrainDescRefused,
     BeginDiscovery, BeginSearch, SearchSeed, SkipCandidate, DrainCandidate,
     DrainCandidateRefused, RaiseCounter, CounterRaised, EndRecover, Open,
     EnsureReclaimCounterAtLeast, FlushReturns, Release, UseInv, RunTypeOK
<1>3. ASSUME NEW p \in Procs,
             StartDeposit(p) \/ StartRecover(p) \/ RecoverFeeRejected(p) \/ OpenRefused(p) \/ Fail(p)
      PROVE ChainMoves /\ NothingRemoved
  BY <1>3 DEF StartDeposit, StartRecover, RecoverFeeRejected, OpenRefused, Fail, Release
<1>4. CASE Environment
  BY <1>4 DEF Environment, BridgeKeyChanges, Flusher, Drop, Claim, BackgroundFlush, Mine
<1>5. CASE UNCHANGED vars
  BY <1>5 DEF vars
<1> QED
  BY <1>1, <1>2, <1>3, <1>4, <1>5 DEF Next

(* A descriptor that cleanup removes is of a request that was dropped or of an output
   that is spent: another would have confirmed by now. *)
LEMMA RemoveKeeps ==
  ASSUME UseInv, FreshInv, RunInv, KeptInv, ReclaimsStay,
         ConfirmWindow <= RecoveryDelay + FinalityDepth + CleanupDelay,
         NEW p \in Procs, NEW d \in todo, RemoveDesc(p, d)
  PROVE  Describes(diskDescs)' /\ Describes(descs)'
<1>1. /\ status[d.counter] # "confirmed" /\ tip[p] >= d.recoverAt + CleanupDelay
      /\ d \in descs /\ descs' = descs \ {d} /\ diskDescs' = diskDescs
      /\ UNCHANGED chainVars
  BY DEF RemoveDesc, NoBalance, CleanupDelayElapsed, Remove, disk
<1>2. /\ d \in Descs /\ tip[p] \in Nat /\ height \in Nat
      /\ \A c \in Deposits : builtAt[c] \in Nat
  <2>1. d \in Descs /\ tip[p] \in 0 .. MaxHeight
    BY DEF UseInv, RunTypeOK
  <2>2. height \in 0 .. MaxHeight /\ \A c \in Deposits : builtAt[c] \in 0 .. MaxHeight
    BY DEF UseInv, ChainTypeOK
  <2> QED
    BY <2>1, <2>2
<1>3. status[d.counter] # "mempool"
  <2> SUFFICES ASSUME status[d.counter] = "mempool" PROVE FALSE
    OBVIOUS
  <2>1. d.counter \in With("mempool")
    BY <1>2 DEF With
  <2>2. d.recoverAt = RecoverAt(builtAt[d.counter])
    BY <1>1, <2>1 DEF KeptInv, Describes, FreshInv, OneEach, Known
  <2>3. height < builtAt[d.counter] + ConfirmWindow /\ tip[p] <= height
    BY <2>1 DEF KeptInv, InTime
  <2>4. builtAt[d.counter] \in Nat
    BY <1>2, <2>1 DEF With
  <2>5. /\ RecoveryDelay \in Nat /\ FinalityDepth \in Nat /\ CleanupDelay \in Nat
        /\ ConfirmWindow \in Nat
    OBVIOUS
  <2>6. tip[p] >= builtAt[d.counter] + RecoveryDelay + FinalityDepth + CleanupDelay
    BY <1>1, <2>2 DEF RecoverAt
  <2> QED
    BY SMTT(30), <1>2, <2>3, <2>4, <2>5, <2>6
<1>4. d.counter \notin With("mempool") \cup With("confirmed")
  BY <1>1, <1>3 DEF With
<1>5. With("mempool")' = With("mempool") /\ With("confirmed")' = With("confirmed") /\ builtAt' = builtAt
  BY <1>1 DEF With, chainVars
<1> QED
  BY <1>1, <1>4, <1>5 DEF KeptInv, Describes

(* A request is out only when its descriptor is on disk. *)
LEMMA BroadcastDescribed ==
  ASSUME UseInv, FreshInv, KeptInv, NEW p \in Procs, BroadcastDeposit(p)
  PROVE  Describes(diskDescs)' /\ Describes(descs)'
<1>1. /\ RequestDesc(p) \in diskDescs /\ diskDescs' = diskDescs /\ descs' = diskDescs
      /\ status' = [status EXCEPT ![counter] = "mempool"]
      /\ builtAt' = [builtAt EXCEPT ![counter] = tip[p]]
  BY DEF BroadcastDeposit, At, FreshInv, Reserves, Release, disk, AcceptDeposit
<1>2. RequestDesc(p).counter = counter /\ RequestDesc(p).recoverAt = RecoverAt(tip[p])
  BY DEF RequestDesc
<1>3. \A c \in With("mempool")' :
        \/ c = counter /\ builtAt'[c] = tip[p]
        \/ c \in With("mempool") /\ builtAt'[c] = builtAt[c]
  BY <1>1 DEF With, UseInv, ChainTypeOK
<1>4. With("confirmed")' \subseteq With("confirmed")
  BY <1>1 DEF With, UseInv, ChainTypeOK
<1> QED
  BY <1>1, <1>2, <1>3, <1>4 DEF KeptInv, Describes

(***************************************************************************)
(* While the database is not lost, the mempool keeps reclaims, and a       *)
(* request is in a block or dropped before its descriptor is cleaned up:   *)
(* the descriptor of a deposit that is still the user's is on disk.        *)
(***************************************************************************)
THEOREM DescriptorsOutlive ==
  ASSUME MaxDbLosses = 0, ReclaimsStay,
         ConfirmWindow <= RecoveryDelay + FinalityDepth + CleanupDelay
  PROVE  Spec => []DescriptorKept
<1>1. Init => RunInv /\ KeptInv
  BY DEF Init, DbInit, ChainInit, RunInv, KeptInv, Describes, InTime, With, DepositSteps
<1>2. (UseInv /\ FreshInv) /\ (RunInv /\ KeptInv) /\ [Next]_vars
        => (RunInv /\ KeptInv)'
  <2> SUFFICES ASSUME UseInv, FreshInv, ~ LoseDatabase, RunInv, KeptInv, [Next]_vars
               PROVE  RunInv' /\ KeptInv'
    BY NoLoss
  <2>1. RunInv' /\ InTime'
    BY RunNext, InTimeNext DEF KeptInv
  <2>2. ASSUME ChainMoves, NothingRemoved PROVE Describes(diskDescs)' /\ Describes(descs)'
    <3>1. Describes(diskDescs) /\ Describes(descs)
      BY DEF KeptInv
    <3>2. PICK S \in {diskDescs, descs} : S \subseteq diskDescs'
      BY <2>2 DEF NothingRemoved
    <3>3. PICK T \in {diskDescs, descs} : T \subseteq descs'
      BY <2>2 DEF NothingRemoved
    <3>4. Describes(S) /\ Describes(T)
      BY <3>1
    <3>5. Describes(diskDescs)'
      <4>1. /\ \A c \in With("mempool")' :
                \E d \in diskDescs' : d.counter = c /\ d.recoverAt = RecoverAt(builtAt'[c])
            /\ \A c \in With("confirmed")' : \E d \in diskDescs' : d.counter = c
        BY <2>2, <3>2, <3>4, ChainDescribed
      <4> QED
        BY <4>1 DEF Describes
    <3>6. Describes(descs)'
      <4>1. /\ \A c \in With("mempool")' :
                \E d \in descs' : d.counter = c /\ d.recoverAt = RecoverAt(builtAt'[c])
            /\ \A c \in With("confirmed")' : \E d \in descs' : d.counter = c
        BY <2>2, <3>3, <3>4, ChainDescribed
      <4> QED
        BY <4>1 DEF Describes
    <3> QED
      BY <3>5, <3>6
  <2>3. Describes(diskDescs)' /\ Describes(descs)'
    BY <2>2, MostStepsKeep, RemoveKeeps, BroadcastDescribed
  <2> QED
    BY <2>1, <2>3 DEF KeptInv
<1>3. KeptInv => DescriptorKept
  BY DEF KeptInv, Describes, DescriptorKept, Owed, HasDescriptor
<1> QED
  BY <1>1, <1>2, <1>3, FreshInvariance, PTL DEF Spec

-----------------------------------------------------------------------------
(* What the seed finds when the database is lost.  Every counter that was  *)
(* skipped has cost a fault, so that fewer faults than the gap limit leave *)
(* no gap the search would give up in.                                     *)

\* The counters up to n that a search at rest takes for unused.
Holes(n) == (1 .. n) \ UsedScripts

\* The used counters that the counter in the database must not fall behind.
Counted == UsedScripts \ missed

\* A counter that may follow n is above the counted ones and leaves no wide gap.
Spans(n) ==
  /\ \A c \in Counted : c <= n
  /\ Cardinality(Holes(n)) <= faults

Searching == \E p \in Procs : pc[p] \in {"searchCounter", "searchSeed"}

\* What a search under way is shown has no wide gap, and a counted script is among it.
ShownInv ==
  /\ ~ Searching => shown = {}
  /\ \A c \in shown : Cardinality(Holes(c)) <= faults
  /\ \A c \in shown : Cardinality((1 .. c) \ shown) <= faults
  /\ Searching /\ counter = Missing => Counted \subseteq shown

Reserving == \E p \in Procs : pc[p] \in ReserveSteps

SeedInv ==
  /\ \A c \in UsedScripts : Cardinality(Holes(c)) <= faults
  /\ diskCounter # Missing => Spans(diskCounter) \/ (Reserving /\ diskCounter = counter)
  /\ counter # Missing => Spans(counter) \/ Reserving
  /\ \A p \in Procs :
       /\ pc[p] \in ReserveSteps => counter # Missing /\ Spans(counter - 1)
       /\ pc[p] \in ReserveSteps \ {"saveReserve"} => diskCounter = counter
       /\ pc[p] = "searchCounter" => counter = Missing
       /\ pc[p] = "seed" => Cardinality(Holes(highest)) <= faults
       /\ pc[p] = "seed" /\ counter = Missing => Spans(highest)
  /\ reused = {}

LEMMA HolesFinite ==
  ASSUME NEW n \in Nat, NEW S
  PROVE  IsFiniteSet((1 .. n) \ S) /\ Cardinality((1 .. n) \ S) \in Nat
<1>1. IsFiniteSet(1 .. n)
  <2>1. 1 \in Int /\ n \in Int
    OBVIOUS
  <2> QED
    BY <2>1, FS_Interval
<1>2. IsFiniteSet((1 .. n) \ S)
  BY <1>1, FS_Subset
<1> QED
  BY <1>2, FS_CardinalityType

(* With one counter more below n, or out of use, there is one hole more. *)
LEMMA NoMoreHoles ==
  ASSUME NEW n \in Nat, NEW m \in Nat, NEW S, NEW T, (1 .. m) \ T \subseteq (1 .. n) \ S
  PROVE  Cardinality((1 .. m) \ T) <= Cardinality((1 .. n) \ S)
BY HolesFinite, FS_Subset

LEMMA OneMoreHole ==
  ASSUME NEW n \in Nat, NEW m \in Nat, NEW S, NEW T, NEW x,
         (1 .. m) \ T \subseteq ((1 .. n) \ S) \cup {x}
  PROVE  Cardinality((1 .. m) \ T) <= Cardinality((1 .. n) \ S) + 1
<1> DEFINE L == (1 .. n) \ S
           M == (1 .. m) \ T
<1>1. IsFiniteSet(L) /\ Cardinality(L) \in Nat /\ Cardinality(M) \in Nat
  BY HolesFinite
<1>2. /\ IsFiniteSet(L \cup {x})
      /\ Cardinality(L \cup {x}) = IF x \in L THEN Cardinality(L) ELSE Cardinality(L) + 1
  <2> HIDE DEF L
  <2> QED
    BY <1>1, FS_AddElement
<1>3. M \in SUBSET (L \cup {x})
  OBVIOUS
<1>4. Cardinality(M) <= Cardinality(L \cup {x})
  BY <1>2, <1>3, FS_Subset
<1> HIDE DEF L, M
<1>5. Cardinality(M) <= Cardinality(L) + 1
  BY <1>1, <1>2, <1>4
<1> QED
  BY <1>5 DEF L, M

LEMMA AtMostTheSum ==
  ASSUME NEW A, NEW B, NEW C, IsFiniteSet(A), IsFiniteSet(B), C \subseteq A \cup B
  PROVE  Cardinality(C) <= Cardinality(A) + Cardinality(B)
<1>1. IsFiniteSet(A \cup B) /\ IsFiniteSet(A \cap B)
  BY FS_Union, FS_Subset
<1>2. Cardinality(A \cup B) = Cardinality(A) + Cardinality(B) - Cardinality(A \cap B)
  BY FS_Union
<1>3. IsFiniteSet(C) /\ Cardinality(C) <= Cardinality(A \cup B)
  BY <1>1, FS_Subset
<1>4. /\ Cardinality(A) \in Nat /\ Cardinality(B) \in Nat /\ Cardinality(C) \in Nat
      /\ Cardinality(A \cap B) \in Nat /\ Cardinality(A \cup B) \in Nat
  BY <1>1, <1>3, FS_CardinalityType
<1> QED
  BY <1>2, <1>3, <1>4

LEMMA SeedNumbers ==
  ASSUME UseInv
  PROVE  /\ UsedScripts \subseteq Nat \ {0} /\ Counted \subseteq UsedScripts
         /\ shown \subseteq Nat \ {0}
         /\ faults \in Nat /\ faults <= MaxFaults /\ MaxFaults \in Nat
         /\ highest \in Nat
         /\ counter # Missing => counter \in Nat
         /\ diskCounter # Missing => diskCounter \in Nat /\ counter # Missing
         /\ \A p \in Procs : pc[p] \in ReserveSteps => counter \in Nat \ {0}
         /\ \A n \in Nat : Cardinality(Holes(n)) \in Nat
<1>1. /\ UsedScripts \subseteq Nat \ {0} /\ Counted \subseteq UsedScripts
      /\ shown \subseteq Nat \ {0} /\ highest \in Nat
  BY SearchTypes DEF UseInv, RunTypeOK, Counters, Counted
<1>2. faults \in Nat /\ faults <= MaxFaults /\ MaxFaults \in Nat
  BY DEF UseInv, GhostTypeOK
<1>3. \A p \in Procs : pc[p] \in ReserveSteps => counter \in Nat \ {0}
  BY DEF UseInv, CounterReady, ReserveSteps
<1>4. \A n \in Nat : Cardinality(Holes(n)) \in Nat
  BY HolesFinite DEF Holes
<1> QED
  BY <1>1, <1>2, <1>3, <1>4, Numbers

(* Numbers with fewer than GapLimit others between them are all reachable. *)
LEMMA FewHolesReachable ==
  ASSUME NEW U, U \subseteq Nat \ {0}, NEW k \in Nat, k < GapLimit,
         \A c \in U : Cardinality((1 .. c) \ U) <= k
  PROVE  U \subseteq Reachable(U)
<1>1. ASSUME NEW c \in U, NEW a \in 0 .. c - 1,
             \A u \in U : ~ (a < u /\ u <= a + GapLimit)
      PROVE  FALSE
  <2> DEFINE Gap == a + 1 .. a + GapLimit
             H == (1 .. c) \ U
  <2>1. c \in Nat /\ a \in Nat /\ a < c /\ GapLimit \in Nat
    OBVIOUS
  <2>2. a + GapLimit < c
    BY <1>1, <2>1
  <2>3. Gap \subseteq H
    BY <1>1, <2>1, <2>2
  <2>4. Cardinality(Gap) = GapLimit
    BY <2>1, FS_Interval
  <2>5. IsFiniteSet(H) /\ Cardinality(H) \in Nat
    BY <2>1, HolesFinite
  <2>6. Cardinality(H) <= k
    OBVIOUS
  <2> HIDE DEF Gap, H
  <2>7. GapLimit <= Cardinality(H)
    BY <2>3, <2>4, <2>5, FS_Subset
  <2> QED
    BY <2>1, <2>5, <2>6, <2>7
<1> QED
  BY <1>1 DEF Reachable

(* The used counters are reachable. *)
LEMMA UsedIsReachable ==
  ASSUME UseInv, SeedInv, MaxFaults < GapLimit
  PROVE  UsedScripts \subseteq Reachable(UsedScripts)
<1>1. /\ UsedScripts \subseteq Nat \ {0} /\ faults \in Nat /\ faults < GapLimit
      /\ \A c \in UsedScripts : Cardinality((1 .. c) \ UsedScripts) <= faults
  BY SeedNumbers DEF SeedInv, Holes
<1> QED
  BY <1>1, FewHolesReachable

(* The search that ends has found the highest of what it was shown. *)
LEMMA HighestSpans ==
  ASSUME UseInv, ShownInv, MaxFaults < GapLimit
  PROVE  /\ HighestFound \in Nat
         /\ Cardinality(Holes(HighestFound)) <= faults
         /\ Counted \subseteq shown => Spans(HighestFound)
<1> DEFINE T == Reachable(shown) \cup {0}
<1>1. T \subseteq 0 .. MaxCounter /\ T # {}
  BY SearchTypes DEF UseInv
<1>2. HighestFound \in T /\ \A x \in T : HighestFound >= x
  <2> HIDE DEF T
  <2>1. Max(T) \in T /\ \A x \in T : Max(T) >= x
    BY <1>1, MaxIsMember
  <2> QED
    BY <2>1 DEF HighestFound, T
<1>3. HighestFound \in Nat
  BY <1>1, <1>2
<1>4. \A c \in shown : c <= HighestFound
  <2>1. /\ shown \subseteq Nat \ {0} /\ faults \in Nat /\ faults < GapLimit
        /\ \A c \in shown : Cardinality((1 .. c) \ shown) <= faults
    <3>1. faults \in Nat /\ faults <= MaxFaults /\ MaxFaults \in Nat /\ GapLimit \in Nat
      BY SeedNumbers, GapLimitAssumption
    <3>2. faults < GapLimit
      BY <3>1
    <3> QED
      BY <3>1, <3>2, SeedNumbers DEF ShownInv
  <2>2. shown \subseteq Reachable(shown)
    BY <2>1, FewHolesReachable
  <2> QED
    BY <1>2, <1>3, <2>1, <2>2
<1>5. Cardinality(Holes(HighestFound)) <= faults
  <2>1. CASE HighestFound = 0
    <3>1. Holes(0) = {}
      BY DEF Holes
    <3>2. Cardinality(Holes(0)) = 0
      BY <3>1, FS_EmptySet
    <3> QED
      BY <2>1, <3>2, SeedNumbers
  <2>2. CASE HighestFound # 0
    <3>1. HighestFound \in shown
      BY <1>2, <2>2 DEF Reachable
    <3> QED
      BY <3>1 DEF ShownInv
  <2> QED
    BY <2>1, <2>2
<1> QED
  BY <1>3, <1>4, <1>5 DEF Spans

\* No counter comes into use, and one that goes out of use has cost a fault.
AtMostOneLost ==
  /\ UsedScripts' \subseteq UsedScripts /\ Counted' \subseteq Counted
  /\ \/ UsedScripts' = UsedScripts /\ faults' \in Nat /\ faults' >= faults
     \/ faults' = faults + 1 /\ \E x : UsedScripts \subseteq UsedScripts' \cup {x}

LEMMA SpansKept ==
  ASSUME UseInv, SeedInv, AtMostOneLost
  PROVE  /\ \A n \in Nat : Spans(n) => Spans(n)'
         /\ \A n \in Nat : Cardinality(Holes(n)) <= faults => Cardinality(Holes(n)') <= faults'
         /\ \A c \in UsedScripts' : Cardinality(Holes(c)') <= faults'
<1>1. ASSUME NEW n \in Nat, Cardinality(Holes(n)) <= faults PROVE Cardinality(Holes(n)') <= faults'
  <2>1. Holes(n)' = (1 .. n) \ UsedScripts' /\ Holes(n) = (1 .. n) \ UsedScripts
    BY DEF Holes
  <2>2. Cardinality(Holes(n)') \in Nat /\ Cardinality(Holes(n)) \in Nat
    BY <2>1, HolesFinite
  <2>3. CASE UsedScripts' = UsedScripts /\ faults' \in Nat /\ faults' >= faults
    <3>1. Holes(n)' = Holes(n)
      BY <2>1, <2>3
    <3>2. Cardinality(Holes(n)') <= faults
      BY <1>1, <3>1
    <3>3. faults \in Nat
      BY SeedNumbers
    <3> QED
      BY <2>2, <2>3, <3>2, <3>3
  <2>4. CASE faults' = faults + 1 /\ \E x : UsedScripts \subseteq UsedScripts' \cup {x}
    <3>1. PICK x : UsedScripts \subseteq UsedScripts' \cup {x}
      BY <2>4
    <3>2. (1 .. n) \ UsedScripts' \subseteq ((1 .. n) \ UsedScripts) \cup {x}
      BY <3>1
    <3>3. Cardinality((1 .. n) \ UsedScripts') <= Cardinality((1 .. n) \ UsedScripts) + 1
      BY <3>2, OneMoreHole
    <3>4. Cardinality(Holes(n)') <= Cardinality(Holes(n)) + 1
      BY <2>1, <3>3
    <3> QED
      BY <1>1, <2>2, <2>4, <3>4, SeedNumbers
  <2> QED
    BY <2>3, <2>4 DEF AtMostOneLost
<1>2. \A n \in Nat : Spans(n) => Spans(n)'
  BY <1>1 DEF Spans, AtMostOneLost
<1>3. \A c \in UsedScripts' : Cardinality(Holes(c)') <= faults'
  BY <1>1, SeedNumbers DEF SeedInv, AtMostOneLost
<1> QED
  BY <1>1, <1>2, <1>3

(* What the steps do to the counters in use. *)
LEMMA UsedScriptsMove ==
  ASSUME UseInv
  PROVE  /\ UNCHANGED <<chainVars, former>> => UsedScripts' = UsedScripts
         /\ UNCHANGED <<chainVars, former, missed>> => Counted' = Counted
         /\ \A c \in Deposits :
              UNCHANGED former /\ (AcceptReclaim(c) \/ DropReclaim(c) \/ BridgeClaims(c))
                => UsedScripts' = UsedScripts
         /\ Mine => UsedScripts' = UsedScripts
         /\ \A c \in Deposits :
              UNCHANGED former /\ DropDeposit(c)
                => UsedScripts' \subseteq UsedScripts /\ UsedScripts \subseteq UsedScripts' \cup {c}
<1> USE DEF UsedScripts, UsedCounters, With
<1>1. UNCHANGED <<chainVars, former>> => UsedScripts' = UsedScripts
  BY DEF chainVars
<1>2. ASSUME NEW c \in Deposits, UNCHANGED former,
             AcceptReclaim(c) \/ DropReclaim(c) \/ BridgeClaims(c)
      PROVE  UsedScripts' = UsedScripts
  BY <1>2 DEF AcceptReclaim, ReclaimValid, DropReclaim, BridgeClaims, UseInv, ChainTypeOK
<1>3. ASSUME Mine PROVE UsedScripts' = UsedScripts
  <2>1. PICK D \in SUBSET With("mempool"), R \in SUBSET With("pending") : MineBlock(D, R)
    BY <1>3 DEF Mine
  <2>2. \A c \in Deposits : status'[c] = "none" <=> status[c] = "none"
    BY <2>1 DEF MineBlock
  <2> QED
    BY <1>3, <2>2 DEF Mine, Slip, budgets
<1>4. ASSUME NEW c \in Deposits, UNCHANGED former, DropDeposit(c)
      PROVE  UsedScripts' \subseteq UsedScripts /\ UsedScripts \subseteq UsedScripts' \cup {c}
  BY <1>4 DEF DropDeposit, UseInv, ChainTypeOK
<1> QED
  BY <1>1, <1>2, <1>3, <1>4 DEF Counted

\* No process is at a step that knows more of the counters.
NobodyCounts == \A q \in Procs : pc[q] \notin ReserveSteps \cup {"seed", "searchCounter"}

(* Steps after which nobody has reserved a counter. *)
LEMMA SeedQuiet ==
  ASSUME UseInv, SeedInv, AtMostOneLost, NobodyCounts', reused' = reused,
         diskCounter' # Missing => Spans(diskCounter)',
         counter' # Missing => Spans(counter)'
  PROVE  SeedInv'
BY SpansKept DEF SeedInv, NobodyCounts

(* The holder gives up the database, or nobody had it and it is opened. *)
LEMMA SeedReleased ==
  ASSUME UseInv, SeedInv, AtMostOneLost, NobodyCounts', reused' = reused,
         diskCounter' = diskCounter, counter' = diskCounter,
         Reserving => faults' = faults + 1 /\ UsedScripts' = UsedScripts
  PROVE  SeedInv'
<1>1. ASSUME diskCounter # Missing PROVE Spans(diskCounter)'
  <2>1. CASE Spans(diskCounter)
    <3>1. \A c \in Counted' : c <= diskCounter'
      BY <2>1 DEF Spans, AtMostOneLost
    <3>2. Holes(diskCounter)' = (1 .. diskCounter) \ UsedScripts'
      BY DEF Holes
    <3>3. Cardinality((1 .. diskCounter) \ UsedScripts') <= faults'
      BY <1>1, <2>1, SpansKept, SeedNumbers DEF Spans, Holes
    <3> QED
      BY <3>1, <3>2, <3>3 DEF Spans
  <2>2. CASE ~ Spans(diskCounter)
    <3>1. Reserving /\ diskCounter = counter
      BY <1>1, <2>2 DEF SeedInv
    <3>2. counter \in Nat \ {0} /\ counter - 1 \in Nat /\ Spans(counter - 1)
      <4>1. PICK p \in Procs : pc[p] \in ReserveSteps
        BY <3>1 DEF Reserving
      <4>2. counter \in Nat \ {0} /\ Spans(counter - 1)
        BY <4>1, SeedNumbers DEF SeedInv
      <4> QED
        BY <4>2
    <3>3. \A c \in Counted' : c <= diskCounter'
      <4>1. Counted' \subseteq Nat
        BY SeedNumbers DEF AtMostOneLost
      <4>2. \A c \in Counted' : c <= counter - 1
        BY <3>2 DEF Spans, AtMostOneLost
      <4>3. counter - 1 <= diskCounter' /\ diskCounter' \in Nat
        BY <3>1, <3>2
      <4>4. ASSUME NEW c \in Counted' PROVE c <= diskCounter'
        <5>1. c \in Nat /\ c <= counter - 1
          BY <4>1, <4>2
        <5> QED
          BY <3>2, <4>3, <5>1
      <4> QED
        BY <4>4
    <3>4. (1 .. counter) \ UsedScripts' \subseteq ((1 .. counter - 1) \ UsedScripts) \cup {counter}
      BY <3>1, <3>2
    <3>5. Cardinality((1 .. counter) \ UsedScripts') <= Cardinality((1 .. counter - 1) \ UsedScripts) + 1
      BY <3>2, <3>4, OneMoreHole
    <3>6. /\ Cardinality((1 .. counter) \ UsedScripts') \in Nat
          /\ Cardinality((1 .. counter - 1) \ UsedScripts) \in Nat
      BY <3>2, HolesFinite
    <3>7. Cardinality((1 .. counter) \ UsedScripts') <= faults'
      BY <3>1, <3>2, <3>5, <3>6, SeedNumbers DEF Spans, Holes
    <3>8. Holes(diskCounter)' = (1 .. counter) \ UsedScripts'
      BY <3>1 DEF Holes
    <3> QED
      BY <3>3, <3>7, <3>8 DEF Spans
  <2> QED
    BY <2>1, <2>2
<1>2. counter' # Missing => Spans(counter)'
  <2>1. ASSUME diskCounter # Missing PROVE Spans(counter)'
    BY <1>1, <2>1 DEF Spans, Holes
  <2> QED
    BY <2>1
<1> QED
  BY <1>1, <1>2, SeedQuiet

(* The counters stay as they are, in memory and on disk or flushed to it. *)
LEMMA SeedAside ==
  ASSUME UseInv, SeedInv, AtMostOneLost, counter' = counter, reused' = reused,
         diskCounter' \in {diskCounter, counter},
         \A q \in Procs :
           /\ pc'[q] \in ReserveSteps <=> pc[q] \in ReserveSteps
           /\ pc'[q] \in ReserveSteps \ {"saveReserve"} =>
                pc[q] \in ReserveSteps \ {"saveReserve"} \/ diskCounter' = counter
           /\ pc'[q] = "searchCounter" => pc[q] = "searchCounter"
           /\ pc'[q] = "seed" => pc[q] = "seed" /\ highest' = highest
  PROVE  SeedInv'
<1>1. \A n \in Nat : Spans(n) => Spans(n)'
  BY SpansKept
<1>2. Reserving' <=> Reserving
  BY DEF Reserving
<1>3. counter' # Missing => Spans(counter)' \/ Reserving'
  <2>1. ASSUME Spans(counter), counter # Missing PROVE Spans(counter)'
    <3>1. PICK n \in Nat : n = counter
      BY <2>1, SeedNumbers
    <3>2. Spans(n)'
      BY <1>1, <2>1, <3>1
    <3> QED
      BY <3>1, <3>2 DEF Spans, Holes
  <2> QED
    BY <1>2, <2>1 DEF SeedInv
<1>4. diskCounter' # Missing => Spans(diskCounter)' \/ (Reserving' /\ diskCounter' = counter')
  <2>1. ASSUME Spans(diskCounter), diskCounter # Missing, diskCounter' = diskCounter
        PROVE  Spans(diskCounter)'
    <3>1. PICK n \in Nat : n = diskCounter
      BY <2>1, SeedNumbers
    <3>2. Spans(n)'
      BY <1>1, <2>1, <3>1
    <3> QED
      BY <2>1, <3>1, <3>2 DEF Spans, Holes
  <2>2. ASSUME diskCounter' = counter, Spans(counter)' PROVE Spans(diskCounter)'
    BY <2>2 DEF Spans, Holes
  <2> QED
    BY <1>2, <1>3, <2>1, <2>2 DEF SeedInv
<1>5. ASSUME NEW q \in Procs, pc'[q] \in ReserveSteps
      PROVE  counter' # Missing /\ Spans(counter - 1)'
  <2>0. counter \in Nat \ {0}
    BY <1>5, SeedNumbers
  <2>1. PICK n \in Nat : n = counter - 1
    BY <2>0
  <2>2. Spans(n)' /\ counter # Missing
    BY <1>1, <1>5, <2>1 DEF SeedInv
  <2> QED
    BY <2>1, <2>2 DEF Spans, Holes
<1>6. ASSUME NEW q \in Procs, pc'[q] \in ReserveSteps \ {"saveReserve"} PROVE diskCounter' = counter'
  BY <1>6 DEF SeedInv
<1>7. ASSUME NEW q \in Procs, pc'[q] = "seed"
      PROVE  /\ Cardinality(Holes(highest)') <= faults'
             /\ counter' = Missing => Spans(highest)'
  <2>1. PICK n \in Nat : n = highest
    BY SeedNumbers
  <2>2. Cardinality(Holes(n)') <= faults' /\ (counter' = Missing => Spans(n)') /\ highest' = highest
    BY <1>1, <1>7, <2>1, SpansKept DEF SeedInv
  <2> QED
    BY <2>1, <2>2 DEF Spans, Holes
<1>8. \A q \in Procs : pc'[q] = "searchCounter" => counter' = Missing
  BY DEF SeedInv
<1> QED
  BY <1>3, <1>4, <1>5, <1>6, <1>7, <1>8, SpansKept DEF SeedInv

(* A counter that is reserved is above all that are used. *)
LEMMA SeedReserve ==
  ASSUME UseInv, SeedInv, NEW p \in Procs, ReserveCounter(p)
  PROVE  SeedInv'
<1>1. /\ pc[p] \in {"counter", "reserve"} /\ counter # Missing /\ counter' = counter + 1
      /\ pc' = [pc EXCEPT ![p] = "saveReserve"]
      /\ UNCHANGED <<diskCounter, chainVars, highest, reused, missed, former, faults>>
  BY DEF ReserveCounter, At, NextReclaimCounter, disk, Goto, runVars, ghostVars, budgets
<1>2. ~ Reserving
  BY <1>1 DEF UseInv, HolderOnly, Reserving, ReserveSteps
<1>3. UsedScripts' = UsedScripts /\ Counted' = Counted
  BY <1>1, UsedScriptsMove
<1>4. AtMostOneLost
  BY <1>1, <1>3, SeedNumbers DEF AtMostOneLost
<1>5. counter \in Nat /\ counter' - 1 = counter /\ counter' # Missing /\ Spans(counter)
  BY <1>1, <1>2, SeedNumbers, MissingAssumption DEF SeedInv
<1>6. Spans(counter - 1)'
  BY <1>1, <1>3, <1>5 DEF Spans, Holes
<1>7. diskCounter' # Missing => Spans(diskCounter)'
  BY <1>1, <1>2, <1>3 DEF SeedInv, Spans, Holes
<1>8. /\ Reserving'
      /\ \A q \in Procs : pc'[q] \in ReserveSteps => pc'[q] = "saveReserve"
      /\ \A q \in Procs : pc'[q] \notin {"seed", "searchCounter"}
  BY <1>1 DEF UseInv, HolderOnly, RunTypeOK, Reserving, ReserveSteps
<1>9. \A c \in UsedScripts' : Cardinality(Holes(c)') <= faults'
  BY <1>4, SpansKept
<1> QED
  BY <1>1, <1>5, <1>6, <1>7, <1>8, <1>9 DEF SeedInv

(* A request that is out closes the gap that its reservation opened. *)
LEMMA SeedBroadcast ==
  ASSUME UseInv, SeedInv, NEW p \in Procs, BroadcastDeposit(p)
  PROVE  SeedInv'
<1>1. /\ pc[p] = "broadcast" /\ AcceptDeposit(counter, tip[p])
      /\ pc' = [pc EXCEPT ![p] = "idle"] /\ UNCHANGED <<diskCounter, faults>>
      /\ counter' = diskCounter
      /\ former' = former \ {counter} /\ missed' = missed \ {counter}
      /\ reused' = IF counter \in Outstanding \ (former \cup missed)
                     THEN reused \cup {counter} ELSE reused
  BY DEF BroadcastDeposit, At, Release, disk, Exit
<1>2. /\ counter \in Deposits /\ counter \in Nat \ {0} /\ counter - 1 \in Nat
      /\ Spans(counter - 1) /\ diskCounter = counter /\ counter # Missing
  <2>1. counter \in Deposits /\ Spans(counter - 1) /\ diskCounter = counter /\ counter # Missing
    BY <1>1 DEF UseInv, CounterReady, SeedInv, ReserveSteps
  <2> QED
    BY <2>1
<1>3. UsedScripts' = UsedScripts \cup {counter}
  BY <1>1, <1>2 DEF AcceptDeposit, UsedScripts, UsedCounters, With, UseInv, ChainTypeOK
<1>4. /\ UsedScripts \subseteq Nat \ {0} /\ faults \in Nat
      /\ \A c \in Counted : c < counter
      /\ Counted' = Counted \cup {counter}
  <2>1. UsedScripts \subseteq Nat \ {0} /\ Counted \subseteq Nat /\ faults \in Nat
    BY SeedNumbers
  <2>2. Counted' = Counted \cup {counter}
    BY <1>1, <1>3 DEF Counted
  <2>3. ASSUME NEW c \in Counted PROVE c < counter
    <3>1. c <= counter - 1 /\ c \in Nat
      BY <1>2, <2>1 DEF Spans
    <3> QED
      BY <1>2, <3>1
  <2> QED
    BY <2>1, <2>2, <2>3
<1>5. Cardinality(Holes(counter)') <= faults
  <2>1. (1 .. counter') \ UsedScripts' \subseteq (1 .. counter - 1) \ UsedScripts
    BY <1>1, <1>2, <1>3, <1>4
  <2>2. Cardinality((1 .. counter') \ UsedScripts') <= Cardinality((1 .. counter - 1) \ UsedScripts)
    BY <1>1, <1>2, <2>1, NoMoreHoles
  <2>3. /\ Cardinality((1 .. counter') \ UsedScripts') \in Nat
        /\ Cardinality((1 .. counter - 1) \ UsedScripts) \in Nat
    BY <1>1, <1>2, HolesFinite
  <2> QED
    BY <1>2, <1>4, <2>2, <2>3 DEF Spans, Holes
<1>6. Spans(counter)'
  <2>1. \A c \in Counted' : c <= counter
    <3>1. ASSUME NEW c \in Counted PROVE c <= counter
      <4>1. c \in Nat /\ c < counter
        BY <1>4, SeedNumbers
      <4> QED
        BY <1>2, <4>1
    <3> QED
      BY <1>2, <1>4, <3>1
  <2> QED
    BY <1>1, <1>2, <1>5, <2>1 DEF Spans
<1>7. ASSUME NEW c \in UsedScripts' PROVE Cardinality((1 .. c) \ UsedScripts') <= faults'
  <2>1. CASE c = counter
    BY <1>1, <1>2, <1>5, <2>1 DEF Holes
  <2>2. CASE c \in UsedScripts
    <3>1. (1 .. c) \ UsedScripts' \subseteq (1 .. c) \ UsedScripts /\ c \in Nat
      BY <1>3, <1>4, <2>2
    <3>2. Cardinality((1 .. c) \ UsedScripts') <= Cardinality((1 .. c) \ UsedScripts)
      BY <3>1, NoMoreHoles
    <3>3. /\ Cardinality((1 .. c) \ UsedScripts') \in Nat
          /\ Cardinality((1 .. c) \ UsedScripts) \in Nat
          /\ Cardinality((1 .. c) \ UsedScripts) <= faults
      BY <2>2, <3>1, HolesFinite DEF SeedInv, Holes
    <3> QED
      BY <1>1, <1>4, <3>2, <3>3
  <2> QED
    BY <1>3, <2>1, <2>2
<1>8. \A c \in UsedScripts' : Cardinality(Holes(c)') <= faults'
  BY <1>7 DEF Holes
<1>9. reused' = {}
  <2>1. Outstanding \ (former \cup missed) \subseteq Counted
    BY DEF Outstanding, Counted, UsedScripts, UsedCounters, With
  <2> QED
    BY <1>1, <1>2, <1>4, <2>1 DEF SeedInv
<1>10. \A q \in Procs : pc'[q] \notin ReserveSteps \cup {"seed", "searchCounter"}
  BY <1>1 DEF UseInv, HolderOnly, RunTypeOK, ReserveSteps
<1> QED
  BY <1>1, <1>2, <1>6, <1>8, <1>9, <1>10 DEF SeedInv, Spans, Holes

(* With the bridge's key changed the search takes every counter for unused. *)
LEMMA SeedKeyChange ==
  ASSUME UseInv, SeedInv, BridgeKeyChanges
  PROVE  SeedInv'
<1>1. /\ faults' = faults + Cardinality(UsedScripts) /\ UsedScripts' = {} /\ Counted' = {}
      /\ UNCHANGED <<counter, diskCounter, reused, pc>>
      /\ \A q \in Procs : pc[q] = "idle"
  BY DEF BridgeKeyChanges, UsedScripts, UsedCounters, With, dbVars, chainVars, ghostVars, Counted
<1>2. ASSUME NEW n \in Nat, Spans(n) PROVE Spans(n)'
  <2>1. 1 .. n \subseteq Holes(n) \cup UsedScripts
    BY DEF Holes
  <2>2. IsFiniteSet(Holes(n)) /\ Cardinality(Holes(n)) \in Nat /\ Cardinality(1 .. n) \in Nat
    <3>1. IsFiniteSet(1 .. n)
      BY FS_Interval
    <3> QED
      BY <3>1, HolesFinite, FS_CardinalityType DEF Holes
  <2>3. IsFiniteSet(UsedScripts) /\ Cardinality(UsedScripts) \in Nat
    <3>1. UsedScripts \subseteq 1 .. MaxCounter /\ IsFiniteSet(1 .. MaxCounter)
      BY SearchTypes, FS_Interval DEF UseInv
    <3> QED
      BY <3>1, FS_Subset, FS_CardinalityType
  <2>4. Cardinality(1 .. n) <= Cardinality(Holes(n)) + Cardinality(UsedScripts)
    BY <2>1, <2>2, <2>3, AtMostTheSum
  <2>5. Holes(n)' = 1 .. n
    BY <1>1 DEF Holes
  <2>6. faults \in Nat /\ Cardinality(Holes(n)) <= faults
    BY <1>2, SeedNumbers DEF Spans
  <2>7. Cardinality(1 .. n) <= faults + Cardinality(UsedScripts)
    BY <2>2, <2>3, <2>4, <2>6
  <2> QED
    BY <1>1, <2>5, <2>7 DEF Spans
<1>3. ~ Reserving /\ ~ Reserving'
  BY <1>1 DEF Reserving, ReserveSteps
<1>4. diskCounter' # Missing => Spans(diskCounter)'
  <2>1. ASSUME diskCounter # Missing PROVE Spans(diskCounter)'
    <3>1. PICK n \in Nat : n = diskCounter
      BY <2>1, SeedNumbers
    <3>2. Spans(n)'
      BY <1>2, <1>3, <2>1, <3>1 DEF SeedInv
    <3> QED
      BY <1>1, <3>1, <3>2 DEF Spans, Holes
  <2> QED
    BY <1>1, <2>1
<1>5. counter' # Missing => Spans(counter)'
  <2>1. ASSUME counter # Missing PROVE Spans(counter)'
    <3>1. PICK n \in Nat : n = counter
      BY <2>1, SeedNumbers
    <3>2. Spans(n)'
      BY <1>2, <1>3, <2>1, <3>1 DEF SeedInv
    <3> QED
      BY <1>1, <3>1, <3>2 DEF Spans, Holes
  <2> QED
    BY <1>1, <2>1
<1> QED
  BY <1>1, <1>3, <1>4, <1>5 DEF SeedInv, ReserveSteps

(* Steps that leave the chain, and those of a network that loses a request. *)
LEMMA NothingMoved ==
  ASSUME UseInv, UNCHANGED <<chainVars, former, missed>>, faults' \in {faults, faults + 1}
  PROVE  AtMostOneLost
BY UsedScriptsMove, SeedNumbers DEF AtMostOneLost

(* A search that replaces a lost counter counts every used one again. *)
LEMMA SeedBegins ==
  ASSUME UseInv, SeedInv, NEW p \in Procs, BeginReconstruction(p) \/ BeginDiscovery(p)
  PROVE  SeedInv'
<1>1. /\ UNCHANGED <<chainVars, former, faults, reused, counter, diskCounter, highest>>
      /\ missed' = IF counter = Missing THEN {} ELSE missed
      /\ \/ pc[p] = "counter" /\ counter = Missing /\ pc' = [pc EXCEPT ![p] = "searchCounter"]
         \/ pc[p] = "descs" /\ pc' = [pc EXCEPT ![p] = "searchSeed"]
  BY DEF BeginReconstruction, BeginDiscovery, BeginSearch, At, Goto, dbVars, mem, disk, budgets
<1>2. \A q \in Procs : pc'[q] \notin ReserveSteps \cup {"seed"} /\ pc[q] \notin ReserveSteps
  BY <1>1 DEF UseInv, RunTypeOK, HolderOnly, ReserveSteps
<1>3. UsedScripts' = UsedScripts
  BY <1>1, UsedScriptsMove
<1>4. \A c \in UsedScripts' : Cardinality(Holes(c)') <= faults'
  BY <1>1, <1>3 DEF SeedInv, Holes
<1>5. CASE counter = Missing
  <2>1. counter' = Missing /\ diskCounter' = Missing
    BY <1>1, <1>5, SeedNumbers
  <2> QED
    BY <1>1, <1>2, <1>4, <2>1 DEF SeedInv
<1>6. CASE counter # Missing
  <2>1. \A q \in Procs :
          /\ pc'[q] \in ReserveSteps <=> pc[q] \in ReserveSteps
          /\ pc'[q] \notin ReserveSteps
          /\ pc'[q] = "searchCounter" => pc[q] = "searchCounter"
          /\ pc'[q] # "seed"
    BY <1>1, <1>2, <1>6 DEF UseInv, RunTypeOK
  <2>2. AtMostOneLost
    BY <1>1, <1>6, NothingMoved
  <2> QED
    BY <1>1, <2>1, <2>2, SeedAside
<1> QED
  BY <1>5, <1>6

\* A counter that recover is about to have raised is not below what it found.
Raised ==
  \A p \in Procs : pc[p] = "saveHighest" => counter # Missing /\ highest <= counter

LEMMA RaisedAside ==
  ASSUME Raised, counter' = counter, highest' = highest,
         \A q \in Procs : pc'[q] = "saveHighest" => pc[q] = "saveHighest"
  PROVE  Raised'
BY DEF Raised

(* One that has the database open, or may open it, and is not about to do so. *)
LEMMA RaisedAlone ==
  ASSUME UseInv, NEW p \in Procs, lock \in {p, NoProc}, NEW step, step # "saveHighest",
         pc' = [pc EXCEPT ![p] = step]
  PROVE  Raised'
<1>1. \A q \in Procs \ {p} : pc[q] # "saveHighest" /\ pc'[q] = pc[q]
  BY DEF UseInv, RunTypeOK, HolderOnly
<1>2. pc'[p] # "saveHighest"
  BY DEF UseInv, RunTypeOK
<1> QED
  BY <1>1, <1>2 DEF Raised

LEMMA RaisedCommand ==
  ASSUME UseInv, Raised, NEW p \in Procs,
         \/ DepositStep(p) \/ RecoverStep(p) \/ StartDeposit(p) \/ StartRecover(p)
         \/ RecoverFeeRejected(p) \/ OpenRefused(p) \/ Fail(p)
  PROVE  Raised'
<1> USE DEF Goto, At, Exit, ForgetRun, disk, mem, dbVars, runVars, ghostVars, budgets
<1>1. ASSUME UNCHANGED <<counter, highest>>, NEW step, step # "saveHighest",
             pc' \in {pc, [pc EXCEPT ![p] = step]}
      PROVE  Raised'
  <2>1. \A q \in Procs : pc'[q] = "saveHighest" => pc[q] = "saveHighest"
    BY <1>1 DEF UseInv, RunTypeOK
  <2> QED
    BY <1>1, <2>1, RaisedAside
<1>2. CASE \/ DepositFee(p) \/ BeginReconstruction(p) \/ CounterSaved(p)
           \/ CounterReserved(p) \/ SaveDescriptor(p) \/ DescriptorSaved(p)
  BY <1>1, <1>2 DEF DepositFee, BeginReconstruction, BeginSearch, CounterSaved,
     CounterReserved, SaveDescriptor, DescriptorSaved, FlushReturns, AddDesc
<1>3. CASE StartDeposit(p) \/ StartRecover(p) \/ OpenRefused(p) \/ RecoverFee(p)
  BY <1>1, <1>3 DEF StartDeposit, StartRecover, OpenRefused, RecoverFee
<1>4. CASE BeginDiscovery(p) \/ CounterRaised(p)
  BY <1>1, <1>4 DEF BeginDiscovery, BeginSearch, CounterRaised, FlushReturns
<1>5. ASSUME NEW d \in todo, KeepDesc(p, d) \/ RemoveDesc(p, d) \/ DrainDesc(p, d)
      PROVE  Raised'
  BY <1>1, <1>5 DEF KeepDesc, RemoveDesc, DrainDesc, Remove
<1>6. ASSUME NEW c \in candidates, SkipCandidate(p, c) \/ DrainCandidate(p, c)
      PROVE  Raised'
  BY <1>1, <1>6 DEF SkipCandidate, DrainCandidate
<1>7. CASE OpenDeposit(p) \/ ReconstructCounter(p) \/ ReserveCounter(p)
  BY <1>7, RaisedAlone DEF OpenDeposit, ReconstructCounter, ReserveCounter, Open,
     EnsureReclaimCounterAtLeast, NextReclaimCounter, Holds
<1>8. CASE OutOfCounters(p) \/ BroadcastDeposit(p) \/ RecoverFeeRejected(p) \/ EndRecover(p)
  BY <1>8, RaisedAlone DEF OutOfCounters, BroadcastDeposit, RecoverFeeRejected, EndRecover,
     Release
<1>9. CASE OpenRecover(p) \/ SearchSeed(p)
  BY <1>9, RaisedAlone DEF OpenRecover, SearchSeed, Open, UseInv, HolderOnly
<1>10. ASSUME NEW d \in todo, DrainDescRefused(p, d) PROVE Raised'
  BY <1>10, RaisedAlone DEF DrainDescRefused, Release
<1>11. ASSUME NEW c \in candidates, DrainCandidateRefused(p, c) PROVE Raised'
  BY <1>11, RaisedAlone DEF DrainCandidateRefused, Release
<1>12. CASE RaiseCounter(p)
  <2>1. /\ counter' = AtLeast(counter, highest) /\ highest' = highest
        /\ lock = p /\ pc[p] = "seed" /\ pc' = [pc EXCEPT ![p] = "saveHighest"]
    BY <1>12 DEF RaiseCounter, EnsureReclaimCounterAtLeast, Holds
  <2>2. highest \in Nat /\ (counter # Missing => counter \in Nat)
    BY SeedNumbers
  <2>3. counter' # Missing /\ highest' <= counter'
    BY <2>1, <2>2 DEF AtLeast, Counters
  <2> QED
    BY <2>3 DEF Raised
<1>13. CASE Fail(p)
  <2>1. pc' = [pc EXCEPT ![p] = "idle"]
    BY <1>13 DEF Fail
  <2>2. CASE lock = p
    BY <2>1, <2>2, RaisedAlone
  <2>3. CASE lock # p
    <3>1. UNCHANGED <<counter, highest>>
      BY <1>13, <2>3 DEF Fail, Release
    <3> QED
      BY <1>1, <2>1, <3>1
  <2> QED
    BY <2>2, <2>3
<1> QED
  BY <1>2, <1>3, <1>4, <1>5, <1>6, <1>7, <1>8, <1>9, <1>10, <1>11, <1>12, <1>13
  DEF DepositStep, RecoverStep

LEMMA RaisedEnvironment ==
  ASSUME UseInv, Raised, Environment
  PROVE  Raised'
<1> USE DEF disk, mem, dbVars, runVars, ghostVars, budgets
<1>1. CASE LoseDatabase
  BY <1>1 DEF LoseDatabase, Raised, UseInv, HolderOnly
<1>2. CASE BridgeKeyChanges \/ Flusher
  BY <1>2, RaisedAside DEF BridgeKeyChanges, Flusher, BackgroundFlush
<1>3. CASE Mine
  BY <1>3, RaisedAside DEF Mine
<1>4. ASSUME NEW c \in Deposits, Drop(c) \/ Claim(c) PROVE Raised'
  BY <1>4, RaisedAside DEF Drop, Claim
<1> QED
  BY <1>1, <1>2, <1>3, <1>4 DEF Environment

LEMMA SeedDepositStep ==
  ASSUME UseInv, SeedInv, ShownInv, MaxFaults < GapLimit, NEW p \in Procs, DepositStep(p)
  PROVE  SeedInv'
<1> USE DEF Goto, At, Exit, disk, mem, dbVars, runVars, ghostVars, budgets
<1>1. CASE DepositFee(p) \/ SaveDescriptor(p)
  <2>1. /\ UNCHANGED <<chainVars, former, missed, faults, reused, counter, diskCounter, highest>>
        /\ \/ pc[p] = "fee" /\ pc' = [pc EXCEPT ![p] = "openDeposit"]
           \/ pc[p] = "fee" /\ pc' = [pc EXCEPT ![p] = "idle"]
           \/ pc[p] = "build" /\ pc' = [pc EXCEPT ![p] = "saveDesc"]
    BY <1>1 DEF DepositFee, SaveDescriptor, AddDesc
  <2>2. \A q \in Procs :
          /\ pc'[q] \in ReserveSteps <=> pc[q] \in ReserveSteps
          /\ pc'[q] \in ReserveSteps \ {"saveReserve"} => pc[q] \in ReserveSteps \ {"saveReserve"}
          /\ pc'[q] = "searchCounter" => pc[q] = "searchCounter"
          /\ pc'[q] = "seed" => pc[q] = "seed"
    BY <2>1 DEF UseInv, RunTypeOK, ReserveSteps
  <2> QED
    BY <2>1, <2>2, NothingMoved, SeedAside
<1>2. CASE OpenDeposit(p) \/ OutOfCounters(p)
  <2>1. /\ UNCHANGED <<chainVars, former, missed, faults, reused, diskCounter>> /\ counter' = diskCounter
        /\ lock \in {p, NoProc} /\ pc[p] \notin ReserveSteps \cup {"seed"}
        /\ \E step \in {"counter", "idle"} : pc' = [pc EXCEPT ![p] = step]
    BY <1>2 DEF OpenDeposit, OutOfCounters, Open, Release, ReserveSteps
  <2>2. ~ Reserving /\ NobodyCounts'
    BY <2>1 DEF UseInv, RunTypeOK, HolderOnly, Reserving, NobodyCounts, ReserveSteps
  <2> QED
    BY <2>1, <2>2, NothingMoved, SeedReleased
<1>3. CASE ReconstructCounter(p)
  <2>1. /\ UNCHANGED <<chainVars, former, missed, faults, reused, diskCounter>> /\ counter = Missing
        /\ counter' = HighestFound /\ lock = p /\ pc[p] = "searchCounter"
        /\ pc' = [pc EXCEPT ![p] = "saveCounter"]
    BY <1>3 DEF ReconstructCounter, EnsureReclaimCounterAtLeast, Holds, AtLeast, SeedInv
  <2>2. NobodyCounts'
    BY <2>1 DEF UseInv, RunTypeOK, HolderOnly, NobodyCounts, ReserveSteps
  <2>3. UsedScripts' = UsedScripts /\ Counted' = Counted
    BY <2>1, UsedScriptsMove
  <2>4. Spans(counter)'
    <3>1. Counted \subseteq shown
      BY <2>1 DEF ShownInv, Searching
    <3> QED
      BY <2>1, <2>3, <3>1, HighestSpans DEF Spans, Holes
  <2>5. diskCounter' = Missing
    BY <2>1, SeedNumbers
  <2> QED
    BY <2>1, <2>2, <2>4, <2>5, NothingMoved, SeedQuiet
<1>4. CASE CounterSaved(p) \/ CounterReserved(p) \/ DescriptorSaved(p)
  <2>1. /\ UNCHANGED <<chainVars, former, missed, faults, reused, counter, highest>>
        /\ diskCounter' = counter
        /\ \/ pc[p] = "saveCounter" /\ pc' = [pc EXCEPT ![p] = "reserve"]
           \/ pc[p] = "saveReserve" /\ pc' = [pc EXCEPT ![p] = "build"]
           \/ pc[p] = "saveDesc" /\ pc' = [pc EXCEPT ![p] = "broadcast"]
    BY <1>4 DEF CounterSaved, CounterReserved, DescriptorSaved, FlushReturns
  <2>2. \A q \in Procs :
          /\ pc'[q] \in ReserveSteps <=> pc[q] \in ReserveSteps
          /\ pc'[q] = "searchCounter" => pc[q] = "searchCounter"
          /\ pc'[q] = "seed" => pc[q] = "seed"
    BY <2>1 DEF UseInv, RunTypeOK, ReserveSteps
  <2> QED
    BY <2>1, <2>2, NothingMoved, SeedAside
<1> QED
  BY <1>1, <1>2, <1>3, <1>4, SeedBegins, SeedReserve, SeedBroadcast DEF DepositStep

LEMMA SeedRecoverStep ==
  ASSUME UseInv, SeedInv, ShownInv, Raised, MaxFaults < GapLimit, NEW p \in Procs, RecoverStep(p)
  PROVE  SeedInv'
<1> USE DEF Goto, At, Exit, ForgetRun, disk, mem, dbVars, runVars, ghostVars, budgets
<1>1. ASSUME UNCHANGED <<former, missed, faults, reused, counter, diskCounter, highest>>,
             UsedScripts' = UsedScripts,
             pc[p] \notin ReserveSteps,
             pc' \in {pc, [pc EXCEPT ![p] = "descs"]}
      PROVE  SeedInv'
  <2>1. \A q \in Procs :
          /\ pc'[q] \in ReserveSteps <=> pc[q] \in ReserveSteps
          /\ pc'[q] \in ReserveSteps \ {"saveReserve"} => pc[q] \in ReserveSteps \ {"saveReserve"}
          /\ pc'[q] = "searchCounter" => pc[q] = "searchCounter"
          /\ pc'[q] = "seed" => pc[q] = "seed"
    BY <1>1 DEF UseInv, RunTypeOK, ReserveSteps
  <2>2. AtMostOneLost
    BY <1>1, SeedNumbers DEF AtMostOneLost, Counted
  <2> QED
    BY <1>1, <2>1, <2>2, SeedAside
<1>2. ASSUME UNCHANGED <<chainVars, former, missed, faults, reused, diskCounter>>, counter' = diskCounter,
             lock \in {p, NoProc}, pc[p] \notin ReserveSteps,
             pc' \in {[pc EXCEPT ![p] = "recoverFee"], [pc EXCEPT ![p] = "idle"]}
      PROVE  SeedInv'
  <2>1. ~ Reserving /\ NobodyCounts'
    BY <1>2 DEF UseInv, RunTypeOK, HolderOnly, Reserving, NobodyCounts, ReserveSteps
  <2> QED
    BY <1>2, <2>1, NothingMoved, SeedReleased
<1>3. CASE OpenRecover(p) \/ EndRecover(p)
  BY <1>2, <1>3 DEF OpenRecover, EndRecover, Open, Release, ReserveSteps
<1>4. CASE RecoverFee(p)
  BY <1>1, <1>4, UsedScriptsMove DEF RecoverFee, ReserveSteps
<1>5. ASSUME NEW d \in todo, KeepDesc(p, d) \/ RemoveDesc(p, d) \/ DrainDesc(p, d) PROVE SeedInv'
  <2>1. UsedScripts' = UsedScripts
    BY <1>5, UsedScriptsMove DEF KeepDesc, RemoveDesc, DrainDesc, UseInv, RunTypeOK
  <2> QED
    BY <1>1, <1>5, <2>1 DEF KeepDesc, RemoveDesc, DrainDesc, Remove, ReserveSteps
<1>6. ASSUME NEW d \in todo, DrainDescRefused(p, d) PROVE SeedInv'
  BY <1>2, <1>6 DEF DrainDescRefused, Release, ReserveSteps
<1>7. ASSUME NEW c \in candidates, SkipCandidate(p, c) \/ DrainCandidate(p, c) PROVE SeedInv'
  <2>1. UsedScripts' = UsedScripts
    BY <1>7, UsedScriptsMove DEF SkipCandidate, DrainCandidate, UseInv, RunTypeOK
  <2> QED
    BY <1>1, <1>7, <2>1 DEF SkipCandidate, DrainCandidate, ReserveSteps
<1>8. ASSUME NEW c \in candidates, DrainCandidateRefused(p, c) PROVE SeedInv'
  BY <1>2, <1>8 DEF DrainCandidateRefused, Release, ReserveSteps
<1>9. CASE SearchSeed(p)
  <2>1. /\ UNCHANGED <<chainVars, former, missed, faults, reused, counter, diskCounter>>
        /\ highest' = HighestFound /\ pc[p] = "searchSeed" /\ pc' = [pc EXCEPT ![p] = "seed"]
    BY <1>9 DEF SearchSeed
  <2>2. UsedScripts' = UsedScripts /\ Counted' = Counted
    BY <2>1, UsedScriptsMove
  <2>3. Cardinality(Holes(highest)') <= faults' /\ (counter' = Missing => Spans(highest)')
    <3>1. counter = Missing => Counted \subseteq shown
      BY <2>1 DEF ShownInv, Searching
    <3> QED
      BY <2>1, <2>2, <3>1, HighestSpans DEF Spans, Holes
  <2>4. ~ Reserving /\ \A q \in Procs : pc'[q] \notin ReserveSteps \cup {"searchCounter"}
    BY <2>1 DEF UseInv, RunTypeOK, HolderOnly, Reserving, ReserveSteps
  <2>5. AtMostOneLost
    BY <2>1, <2>2, SeedNumbers DEF AtMostOneLost
  <2>6. /\ counter' # Missing => Spans(counter)'
        /\ diskCounter' # Missing => Spans(diskCounter)'
    BY <2>1, <2>2, <2>4 DEF SeedInv, Spans, Holes
  <2> QED
    BY <2>1, <2>3, <2>4, <2>5, <2>6, SpansKept DEF SeedInv
<1>10. CASE RaiseCounter(p)
  <2>1. /\ UNCHANGED <<chainVars, former, missed, faults, reused, diskCounter>>
        /\ counter = Missing => counter' = highest
        /\ counter # Missing => counter' = counter \/ (counter' = highest /\ counter <= highest)
        /\ lock = p /\ pc[p] = "seed" /\ pc' = [pc EXCEPT ![p] = "saveHighest"]
    BY <1>10, SeedNumbers DEF RaiseCounter, EnsureReclaimCounterAtLeast, Holds, AtLeast
  <2>2. ~ Reserving /\ NobodyCounts'
    BY <2>1 DEF UseInv, RunTypeOK, HolderOnly, Reserving, NobodyCounts, ReserveSteps
  <2>3. UsedScripts' = UsedScripts /\ Counted' = Counted
    BY <2>1, UsedScriptsMove
  <2>4. Spans(counter') /\ (diskCounter # Missing => Spans(diskCounter))
    <3>1. CASE counter' = counter \/ counter = Missing
      BY <2>1, <2>2, <3>1 DEF SeedInv
    <3>2. CASE counter # Missing /\ counter' = highest /\ counter <= highest
      <4>1. Counted \subseteq Nat /\ counter \in Nat /\ highest \in Nat
        BY <3>2, SeedNumbers
      <4>2. \A c \in Counted : c <= highest
        BY <2>2, <3>2, <4>1 DEF SeedInv, Spans
      <4>3. Cardinality(Holes(highest)) <= faults
        BY <2>1 DEF SeedInv
      <4> QED
        BY <2>2, <3>2, <4>2, <4>3 DEF SeedInv, Spans
    <3> QED
      BY <2>1, <3>1, <3>2
  <2>5. Spans(counter)' /\ (diskCounter' # Missing => Spans(diskCounter)')
    BY <2>1, <2>3, <2>4 DEF Spans, Holes
  <2> QED
    BY <2>1, <2>2, <2>5, NothingMoved, SeedQuiet
<1>11. CASE CounterRaised(p)
  <2>1. /\ UNCHANGED <<chainVars, former, faults, reused, counter, highest>>
        /\ diskCounter' = counter /\ missed' = {c \in missed : c > highest} /\ lock = p
        /\ pc[p] = "saveHighest" /\ pc' = [pc EXCEPT ![p] = "end"]
    BY <1>11 DEF CounterRaised, FlushReturns
  <2>2. ~ Reserving /\ NobodyCounts'
    BY <2>1 DEF UseInv, RunTypeOK, HolderOnly, Reserving, NobodyCounts, ReserveSteps
  <2>3. UsedScripts' = UsedScripts
    BY <2>1, UsedScriptsMove
  <2>4. /\ counter # Missing /\ counter \in Nat /\ highest \in Nat /\ highest <= counter
        /\ Counted \subseteq Nat /\ UsedScripts \subseteq Nat
    BY <2>1, SeedNumbers DEF Raised
  <2>5. Spans(counter)
    BY <2>2, <2>4 DEF SeedInv
  <2>6. \A c \in Counted' : c <= counter
    <3>1. SUFFICES ASSUME NEW c \in UsedScripts, c \notin missed' PROVE c <= counter
      BY <2>3 DEF Counted
    <3>2. CASE c \in missed
      <4>1. c \in Nat /\ ~ (c > highest)
        BY <2>1, <2>4, <3>1, <3>2
      <4> QED
        BY <2>4, <4>1
    <3>3. CASE c \notin missed
      BY <2>5, <3>3 DEF Spans, Counted
    <3> QED
      BY <3>2, <3>3
  <2>7. Spans(counter)' /\ Spans(diskCounter)'
    BY <2>1, <2>3, <2>5, <2>6 DEF Spans, Holes
  <2>8. \A c \in UsedScripts' : Cardinality(Holes(c)') <= faults'
    BY <2>1, <2>3 DEF SeedInv, Holes
  <2> QED
    BY <2>1, <2>2, <2>7, <2>8 DEF SeedInv, NobodyCounts
<1> QED
  BY <1>2, <1>3, <1>4, <1>5, <1>6, <1>7, <1>8, <1>9, <1>10, <1>11, SeedBegins DEF RecoverStep

(* A command that ends before it is done: what it reserved is a hole. *)
LEMMA SeedEnds ==
  ASSUME UseInv, SeedInv, NEW p \in Procs,
         StartDeposit(p) \/ StartRecover(p) \/ RecoverFeeRejected(p) \/ OpenRefused(p) \/ Fail(p)
  PROVE  SeedInv'
<1> USE DEF Goto, At, Exit, ForgetRun, disk, mem, dbVars, runVars, ghostVars, budgets
<1>1. /\ UNCHANGED <<chainVars, former, missed, reused>> /\ faults' \in {faults, faults + 1}
      /\ \E step \in {"fee", "openRecover", "idle"} : pc' = [pc EXCEPT ![p] = step]
  BY DEF StartDeposit, StartRecover, RecoverFeeRejected, OpenRefused, Fail
<1>2. AtMostOneLost
  BY <1>1, NothingMoved
<1>3. UsedScripts' = UsedScripts
  BY <1>1, UsedScriptsMove
<1>4. CASE Release(p)
  <2>1. diskCounter' = diskCounter /\ counter' = diskCounter /\ lock = p
    BY <1>4 DEF Release
  <2>2. NobodyCounts'
    BY <1>1, <2>1 DEF UseInv, RunTypeOK, HolderOnly, NobodyCounts, ReserveSteps
  <2>3. Reserving => pc[p] \in ReserveSteps
    BY <2>1 DEF UseInv, HolderOnly, Reserving, ReserveSteps
  <2>4. pc[p] \in ReserveSteps => faults' = faults + 1
    BY DEF StartDeposit, StartRecover, RecoverFeeRejected, OpenRefused, Fail, ReserveSteps
  <2> QED
    BY <1>1, <1>2, <1>3, <2>1, <2>2, <2>3, <2>4, SeedReleased
<1>5. CASE ~ Release(p)
  <2>1. /\ UNCHANGED <<counter, diskCounter, highest>>
        /\ lock # p \/ pc[p] \in {"idle", "openDeposit", "openRecover"}
    BY <1>5 DEF StartDeposit, StartRecover, RecoverFeeRejected, OpenRefused, Fail
  <2>2. pc[p] \notin ReserveSteps \cup {"seed", "searchCounter"}
    BY <2>1 DEF UseInv, HolderOnly, ReserveSteps
  <2>3. \A q \in Procs :
          /\ pc'[q] \in ReserveSteps <=> pc[q] \in ReserveSteps
          /\ pc'[q] \in ReserveSteps \ {"saveReserve"} => pc[q] \in ReserveSteps \ {"saveReserve"}
          /\ pc'[q] = "searchCounter" => pc[q] = "searchCounter"
          /\ pc'[q] = "seed" => pc[q] = "seed"
    BY <1>1, <2>2 DEF UseInv, RunTypeOK, ReserveSteps
  <2> QED
    BY <1>1, <1>2, <2>1, <2>3, SeedAside
<1> QED
  BY <1>4, <1>5

(* A block brings no counter into use; those that slip cost a fault each. *)
LEMMA MineMoves ==
  ASSUME UseInv, Mine
  PROVE  \E S \in SUBSET shown :
           /\ IsFiniteSet(S) /\ Cardinality(S) \in Nat
           /\ shown' = shown \ S /\ faults' = faults + Cardinality(S)
           /\ missed' = IF counter = Missing THEN missed \cup S ELSE missed
           /\ UsedScripts' = UsedScripts /\ faults' \in Nat /\ faults' >= faults
<1>1. PICK D \in SUBSET With("mempool") : Slip(D)
  BY DEF Mine
<1>2. PICK S \in SUBSET (D \cap shown) :
        /\ shown' = shown \ S /\ faults' = faults + Cardinality(S)
        /\ missed' = IF counter = Missing THEN missed \cup S ELSE missed
  BY <1>1 DEF Slip
<1>3. IsFiniteSet(S) /\ Cardinality(S) \in Nat
  <2>1. S \subseteq 1 .. MaxCounter
    BY DEF UseInv, RunTypeOK
  <2>2. IsFiniteSet(1 .. MaxCounter)
    <3>1. 1 \in Int /\ MaxCounter \in Int
      BY MaxCounterAssumption
    <3> QED
      BY <3>1, FS_Interval
  <2> QED
    BY <2>1, <2>2, FS_Subset, FS_CardinalityType
<1>4. UsedScripts' = UsedScripts /\ faults \in Nat
  BY UsedScriptsMove, SeedNumbers
<1>5. S \subseteq shown /\ faults' \in Nat /\ faults' >= faults
  BY <1>2, <1>3, <1>4
<1> QED
  BY <1>2, <1>3, <1>4, <1>5

LEMMA DropsCost ==
  ASSUME UseInv, NEW c \in Deposits, Drop(c) PROVE AtMostOneLost
<1>1. UNCHANGED <<former, missed>> /\ faults' = faults + 1
  BY DEF Drop, ghostVars
<1>2. UsedScripts' \subseteq UsedScripts /\ UsedScripts \subseteq UsedScripts' \cup {c}
  BY <1>1, UsedScriptsMove DEF Drop
<1> QED
  BY <1>1, <1>2 DEF AtMostOneLost, Counted

LEMMA ClaimsCostNothing ==
  ASSUME UseInv, NEW c \in Deposits, Claim(c) PROVE AtMostOneLost
<1>1. UNCHANGED <<former, missed, faults>>
  BY DEF Claim, ghostVars, budgets
<1>2. UsedScripts' = UsedScripts /\ faults \in Nat
  BY <1>1, UsedScriptsMove, SeedNumbers DEF Claim
<1> QED
  BY <1>1, <1>2 DEF AtMostOneLost, Counted

LEMMA SeedEnvironment ==
  ASSUME UseInv, SeedInv, Environment
  PROVE  SeedInv'
<1> USE DEF disk, mem, dbVars, runVars, ghostVars, budgets
<1>1. CASE LoseDatabase
  <2>1. /\ UNCHANGED <<chainVars, former, missed, faults, reused, pc>> /\ lock = NoProc
        /\ counter' = Missing /\ diskCounter' = Missing
    BY <1>1 DEF LoseDatabase
  <2>2. NobodyCounts'
    BY <2>1 DEF UseInv, HolderOnly, NobodyCounts, ReserveSteps
  <2> QED
    BY <2>1, <2>2, NothingMoved, SeedQuiet
<1>2. ASSUME AtMostOneLost, UNCHANGED <<counter, reused, pc, highest>>,
             diskCounter' \in {diskCounter, counter}
      PROVE  SeedInv'
  BY <1>2, SeedAside
<1>3. CASE Flusher
  <2>1. UNCHANGED <<chainVars, former, missed, faults>>
    BY <1>3 DEF Flusher
  <2> QED
    BY <1>2, <1>3, <2>1, NothingMoved DEF Flusher, BackgroundFlush
<1>4. CASE Mine
  <2>1. AtMostOneLost
    BY <1>4, MineMoves, SeedNumbers DEF AtMostOneLost, Counted
  <2> QED
    BY <1>2, <1>4, <2>1 DEF Mine
<1>5. ASSUME NEW c \in Deposits, Drop(c) \/ Claim(c) PROVE SeedInv'
  <2>1. AtMostOneLost
    BY <1>5, DropsCost, ClaimsCostNothing
  <2> QED
    BY <1>2, <1>5, <2>1 DEF Drop, Claim
<1> QED
  BY <1>1, <1>3, <1>4, <1>5, SeedKeyChange DEF Environment

(* The search, if there is one, is not touched, or there is none after the step. *)
LEMMA ShownAside ==
  ASSUME UseInv, SeedInv, ShownInv, AtMostOneLost, shown' = shown,
         Searching' => Searching /\ counter' = counter,
         ~ Searching' => shown' = {}
  PROVE  ShownInv'
<1>1. faults \in Nat /\ faults' \in Nat /\ faults' >= faults /\ shown \subseteq Nat
  <2>1. faults \in Nat /\ shown \subseteq Nat
    BY SeedNumbers
  <2>2. faults' \in Nat /\ faults' >= faults
    BY <2>1 DEF AtMostOneLost
  <2> QED
    BY <2>1, <2>2
<1>2. \A c \in shown : Cardinality(Holes(c)') <= faults'
  BY <1>1, SpansKept DEF ShownInv
<1>3. \A c \in shown : Cardinality((1 .. c) \ shown) <= faults'
  <2>1. \A c \in shown : Cardinality((1 .. c) \ shown) \in Nat
    BY <1>1, HolesFinite
  <2> QED
    BY <1>1, <2>1 DEF ShownInv
<1> QED
  BY <1>2, <1>3 DEF ShownInv, AtMostOneLost

LEMMA ShownNone ==
  ASSUME shown' = {}, ~ Searching' PROVE ShownInv'
BY DEF ShownInv

(* The steps of a command: it begins a search, it is not at one, or it ends one. *)
LEMMA ShownCommand ==
  ASSUME UseInv, SeedInv, ShownInv, NEW p \in Procs,
         \/ DepositStep(p) \/ RecoverStep(p) \/ StartDeposit(p) \/ StartRecover(p)
         \/ RecoverFeeRejected(p) \/ OpenRefused(p) \/ Fail(p)
  PROVE  ShownInv'
<1> USE DEF Goto, At, Exit, ForgetRun, disk, mem, dbVars, runVars, ghostVars, budgets
<1> DEFINE Aside == /\ UNCHANGED <<chainVars, former, missed, counter, shown>>
                    /\ faults' \in {faults, faults + 1}
                    /\ pc[p] \notin {"searchCounter", "searchSeed"}
                    /\ \E step : /\ pc' = [pc EXCEPT ![p] = step]
                                 /\ step \notin {"searchCounter", "searchSeed"}
           Alone == /\ lock \in {p, NoProc}
                    /\ \E step : /\ pc' = [pc EXCEPT ![p] = step] \/ UNCHANGED pc
                                 /\ pc'[p] \notin {"searchCounter", "searchSeed"}
                    /\ \/ shown' = {}
                       \/ shown' = shown /\ pc[p] \notin {"searchCounter", "searchSeed"}
<1>1. ASSUME Aside PROVE ShownInv'
  <2>1. Searching' <=> Searching
    BY <1>1 DEF Searching, UseInv, RunTypeOK
  <2>2. AtMostOneLost
    BY <1>1, NothingMoved
  <2> QED
    BY <1>1, <2>1, <2>2, ShownAside DEF ShownInv
<1>2. ASSUME Alone PROVE ShownInv'
  <2>1. \A q \in Procs \ {p} : pc[q] \notin {"searchCounter", "searchSeed"} /\ pc'[q] = pc[q]
    BY <1>2 DEF UseInv, RunTypeOK, HolderOnly
  <2>2. ~ Searching'
    BY <1>2, <2>1 DEF Searching
  <2>3. shown' = {}
    BY <1>2, <2>1 DEF ShownInv, Searching
  <2> QED
    BY <2>2, <2>3, ShownNone
<1> USE DEF UseInv, RunTypeOK
<1>3. CASE BeginReconstruction(p) \/ BeginDiscovery(p)
  <2>1. /\ UNCHANGED <<chainVars, former, faults>> /\ shown' = UsedScripts
        /\ \E step \in {"searchCounter", "searchSeed"} : pc' = [pc EXCEPT ![p] = step]
    BY <1>3 DEF BeginReconstruction, BeginDiscovery, BeginSearch
  <2>2. UsedScripts' = UsedScripts /\ Counted' \subseteq UsedScripts'
    BY <2>1, UsedScriptsMove DEF Counted
  <2>3. Searching'
    BY <2>1 DEF Searching
  <2>4. \A c \in shown' : Cardinality(Holes(c)') <= faults'
    BY <2>1, <2>2 DEF SeedInv, Holes
  <2>5. \A c \in shown' : Cardinality((1 .. c) \ shown') <= faults'
    BY <2>1, <2>2, <2>4 DEF Holes
  <2> QED
    BY <2>1, <2>2, <2>3, <2>4, <2>5 DEF ShownInv
<1>4. CASE DepositFee(p) \/ StartDeposit(p) \/ StartRecover(p) \/ OpenRefused(p)
  BY <1>1, <1>4 DEF DepositFee, StartDeposit, StartRecover, OpenRefused
<1>5. CASE OpenDeposit(p) \/ CounterSaved(p) \/ ReserveCounter(p)
  <2>1. lock \in {p, NoProc} /\ shown' = shown /\ pc[p] \notin {"searchCounter", "searchSeed"}
    BY <1>5 DEF OpenDeposit, CounterSaved, ReserveCounter, Open, FlushReturns,
       NextReclaimCounter, Holds
  <2>2. \E step \in {"counter", "reserve", "saveReserve"} : pc' = [pc EXCEPT ![p] = step]
    BY <1>5 DEF OpenDeposit, CounterSaved, ReserveCounter
  <2> QED
    BY <1>2, <2>1, <2>2
<1>11. CASE ReconstructCounter(p) \/ SearchSeed(p)
  <2>1. lock = p /\ shown' = {}
    BY <1>11 DEF ReconstructCounter, SearchSeed, EnsureReclaimCounterAtLeast, Holds, HolderOnly
  <2>2. \E step \in {"saveCounter", "seed"} : pc' = [pc EXCEPT ![p] = step]
    BY <1>11 DEF ReconstructCounter, SearchSeed
  <2> QED
    BY <1>2, <2>1, <2>2
<1>6. CASE \/ OutOfCounters(p) \/ CounterReserved(p) \/ SaveDescriptor(p)
           \/ DescriptorSaved(p) \/ BroadcastDeposit(p)
  BY <1>2, <1>6 DEF OutOfCounters, CounterReserved, SaveDescriptor, DescriptorSaved,
     BroadcastDeposit, HolderOnly
<1>7. CASE \/ OpenRecover(p) \/ RecoverFee(p) \/ RaiseCounter(p)
           \/ CounterRaised(p) \/ EndRecover(p) \/ RecoverFeeRejected(p)
  <2>1. /\ lock \in {p, NoProc} /\ shown' \in {shown, {}}
        /\ pc[p] \notin {"searchCounter", "searchSeed"}
    BY <1>7 DEF OpenRecover, RecoverFee, RaiseCounter, CounterRaised, EndRecover,
       RecoverFeeRejected, Open, HolderOnly
  <2>2. \E step \in {"recoverFee", "descs", "saveHighest", "end", "idle"} :
          pc' = [pc EXCEPT ![p] = step]
    BY <1>7 DEF OpenRecover, RecoverFee, RaiseCounter, CounterRaised, EndRecover,
       RecoverFeeRejected
  <2> QED
    BY <1>2, <2>1, <2>2
<1>8. ASSUME NEW d \in todo,
             KeepDesc(p, d) \/ RemoveDesc(p, d) \/ DrainDesc(p, d) \/ DrainDescRefused(p, d)
      PROVE  ShownInv'
  BY <1>2, <1>8 DEF KeepDesc, RemoveDesc, DrainDesc, DrainDescRefused, HolderOnly
<1>9. ASSUME NEW c \in candidates,
             SkipCandidate(p, c) \/ DrainCandidate(p, c) \/ DrainCandidateRefused(p, c)
      PROVE  ShownInv'
  BY <1>2, <1>9 DEF SkipCandidate, DrainCandidate, DrainCandidateRefused, HolderOnly
<1>10. CASE Fail(p)
  <2>1. pc' = [pc EXCEPT ![p] = "idle"] /\ UNCHANGED <<chainVars, former, missed>> /\ faults' = faults + 1
    BY <1>10 DEF Fail
  <2>2. CASE lock = p
    <3>1. shown' = {}
      BY <1>10, <2>2 DEF Fail
    <3> QED
      BY <1>2, <2>1, <2>2, <3>1
  <2>3. CASE lock # p
    <3>1. UNCHANGED <<counter, shown>>
      BY <1>10, <2>3 DEF Fail, Release
    <3>2. pc[p] \notin {"searchCounter", "searchSeed"}
      BY <2>3 DEF HolderOnly
    <3>3. Aside
      <4>1. \E step : pc' = [pc EXCEPT ![p] = step] /\ step \notin {"searchCounter", "searchSeed"}
        <5>1. "idle" \notin {"searchCounter", "searchSeed"}
          OBVIOUS
        <5>2. WITNESS "idle"
        <5> QED
          BY <2>1, <5>1
      <4>2. UNCHANGED <<former, missed>> /\ faults' \in {faults, faults + 1} /\ chainVars' = chainVars
        BY <2>1
      <4> QED
        BY <3>1, <3>2, <4>1, <4>2
    <3> QED
      BY <1>1, <3>3
  <2> QED
    BY <2>2, <2>3
<1> QED
  BY <1>3, <1>4, <1>5, <1>6, <1>7, <1>8, <1>9, <1>10, <1>11 DEF DepositStep, RecoverStep

(* The network in the middle of a search: what it hides from it costs faults. *)
LEMMA ShownEnvironment ==
  ASSUME UseInv, SeedInv, ShownInv, Environment
  PROVE  ShownInv'
<1> USE DEF disk, mem, dbVars, runVars, ghostVars, budgets
<1>1. ASSUME UNCHANGED <<pc, shown, counter>>, AtMostOneLost PROVE ShownInv'
  <2>1. Searching' <=> Searching
    BY <1>1 DEF Searching
  <2> QED
    BY <1>1, <2>1, ShownAside DEF ShownInv
<1>2. CASE LoseDatabase \/ BridgeKeyChanges
  <2>1. ~ Searching /\ ~ Searching' /\ shown' = shown
    BY <1>2 DEF LoseDatabase, BridgeKeyChanges, Searching, UseInv, HolderOnly
  <2> QED
    BY <2>1, ShownNone DEF ShownInv
<1>3. CASE Flusher
  BY <1>1, <1>3, NothingMoved DEF Flusher, BackgroundFlush
<1>4. CASE Mine
  <2>1. PICK S \in SUBSET shown :
           /\ IsFiniteSet(S) /\ Cardinality(S) \in Nat
           /\ shown' = shown \ S /\ faults' = faults + Cardinality(S)
           /\ missed' = IF counter = Missing THEN missed \cup S ELSE missed
           /\ UsedScripts' = UsedScripts /\ faults' \in Nat /\ faults' >= faults
    BY <1>4, MineMoves
  <2>2. UNCHANGED <<pc, counter>> /\ (Searching' <=> Searching)
    BY <1>4 DEF Mine, Searching
  <2>3. shown \subseteq Nat /\ faults \in Nat
    BY SeedNumbers
  <2>4. AtMostOneLost
    BY <2>1 DEF AtMostOneLost, Counted
  <2>5. \A c \in shown' : Cardinality(Holes(c)') <= faults'
    BY <2>1, <2>3, <2>4, SpansKept DEF ShownInv
  <2>6. ASSUME NEW c \in shown' PROVE Cardinality((1 .. c) \ shown') <= faults'
    <3>1. (1 .. c) \ shown' \subseteq ((1 .. c) \ shown) \cup S /\ c \in shown /\ c \in Nat
      BY <2>1, <2>3
    <3>2. /\ Cardinality((1 .. c) \ shown') \in Nat
          /\ IsFiniteSet((1 .. c) \ shown) /\ Cardinality((1 .. c) \ shown) \in Nat
      BY <3>1, HolesFinite
    <3>3. Cardinality((1 .. c) \ shown') <= Cardinality((1 .. c) \ shown) + Cardinality(S)
      BY <2>1, <3>1, <3>2, AtMostTheSum
    <3>4. Cardinality((1 .. c) \ shown) <= faults
      BY <3>1 DEF ShownInv
    <3> QED
      BY <2>1, <2>3, <3>2, <3>3, <3>4
  <2>7. Searching /\ counter = Missing => Counted' \subseteq shown'
    BY <2>1 DEF ShownInv, Counted
  <2>8. ~ Searching => shown' = {}
    BY <2>1 DEF ShownInv
  <2> QED
    BY <2>2, <2>5, <2>6, <2>7, <2>8 DEF ShownInv
<1>5. ASSUME NEW c \in Deposits, Claim(c) PROVE ShownInv'
  <2>1. AtMostOneLost
    BY <1>5, ClaimsCostNothing
  <2> QED
    BY <1>1, <1>5, <2>1 DEF Claim
<1>6. ASSUME NEW c \in Deposits, Drop(c) PROVE ShownInv'
  <2>1. AtMostOneLost
    BY <1>6, DropsCost
  <2>2. /\ UNCHANGED <<pc, counter>> /\ (Searching' <=> Searching)
        /\ faults' = faults + 1 /\ shown' \in {shown, shown \ {c}}
    BY <1>6 DEF Drop, Searching
  <2>3. CASE shown' = shown
    BY <1>1, <2>1, <2>2, <2>3
  <2>4. CASE shown' # shown
    <3>1. shown' = shown \ {c} /\ c \notin UsedScripts'
      BY <1>6, <2>2, <2>4 DEF Drop, DropDeposit, UsedScripts, UsedCounters, With, UseInv,
         ChainTypeOK
    <3>2. shown \subseteq Nat /\ faults \in Nat
      BY SeedNumbers
    <3>3. \A x \in shown' : Cardinality(Holes(x)') <= faults'
      BY <2>1, <3>1, <3>2, SpansKept DEF ShownInv
    <3>4. ASSUME NEW x \in shown' PROVE Cardinality((1 .. x) \ shown') <= faults'
      <4>1. (1 .. x) \ shown' \subseteq ((1 .. x) \ shown) \cup {c} /\ x \in shown /\ x \in Nat
        BY <3>1, <3>2
      <4>2. Cardinality((1 .. x) \ shown') <= Cardinality((1 .. x) \ shown) + 1
        BY <4>1, OneMoreHole
      <4>3. /\ Cardinality((1 .. x) \ shown') \in Nat /\ Cardinality((1 .. x) \ shown) \in Nat
            /\ Cardinality((1 .. x) \ shown) <= faults
        BY <4>1, HolesFinite DEF ShownInv
      <4> QED
        BY <2>2, <3>2, <4>2, <4>3
    <3>5. Searching /\ counter = Missing => Counted' \subseteq shown'
      BY <2>1, <3>1 DEF ShownInv, AtMostOneLost, Counted
    <3>6. ~ Searching => shown' = {}
      BY <3>1 DEF ShownInv
    <3> QED
      BY <2>2, <3>3, <3>4, <3>5, <3>6 DEF ShownInv
  <2> QED
    BY <2>3, <2>4
<1> QED
  BY <1>2, <1>3, <1>4, <1>5, <1>6 DEF Environment

LEMMA SeedInvariance ==
  ASSUME MaxFaults < GapLimit PROVE Spec => [](SeedInv /\ ShownInv /\ Raised)
<1>1. Init => SeedInv /\ ShownInv /\ Raised
  <2> SUFFICES ASSUME Init PROVE SeedInv /\ ShownInv /\ Raised
    OBVIOUS
  <2>1. UsedScripts = {} /\ shown = {} /\ ~ Searching
    BY DEF Init, ChainInit, UsedScripts, UsedCounters, With, Searching
  <2>2. ShownInv
    BY <2>1 DEF ShownInv
  <2> QED
    BY <2>1, <2>2 DEF Init, DbInit, SeedInv, Raised, ReserveSteps
<1>2. /\ UseInv /\ (SeedInv /\ ShownInv /\ Raised) /\ [Next]_vars
      => (SeedInv /\ ShownInv /\ Raised)'
  <2> SUFFICES ASSUME UseInv, SeedInv, ShownInv, Raised, [Next]_vars
               PROVE  SeedInv' /\ ShownInv' /\ Raised'
    OBVIOUS
  <2>1. CASE UNCHANGED vars
    <3>1. UsedScripts' = UsedScripts /\ Counted' = Counted
      BY <2>1, UsedScriptsMove DEF vars, budgets, ghostVars
    <3>2. SeedInv'
      BY <2>1, <3>1 DEF vars, dbVars, runVars, ghostVars, budgets, SeedInv, Spans, Holes, Reserving
    <3>3. ShownInv'
      BY <2>1, <3>1 DEF vars, dbVars, mem, runVars, budgets, ShownInv, Searching, Holes
    <3>4. Raised'
      BY <2>1 DEF vars, dbVars, mem, runVars, Raised
    <3> QED
      BY <3>2, <3>3, <3>4
  <2>2. ASSUME NEW p \in Procs,
               \/ DepositStep(p) \/ RecoverStep(p) \/ StartDeposit(p) \/ StartRecover(p)
               \/ RecoverFeeRejected(p) \/ OpenRefused(p) \/ Fail(p)
        PROVE  SeedInv' /\ ShownInv' /\ Raised'
    BY <2>2, SeedDepositStep, SeedRecoverStep, SeedEnds, ShownCommand, RaisedCommand
  <2>3. CASE Environment
    BY <2>3, SeedEnvironment, ShownEnvironment, RaisedEnvironment
  <2> QED
    BY <2>1, <2>2, <2>3 DEF Next
<1> QED
  BY <1>1, <1>2, UseInvariance, PTL DEF Spec

(***************************************************************************)
(* With fewer faults than the gap limit every outstanding request that was *)
(* made for the bridge's present key is found from the seed, however often *)
(* the database is lost, the key changes or a command ends half-way.       *)
(***************************************************************************)
THEOREM DepositsAreFound ==
  ASSUME MaxFaults < GapLimit PROVE Spec => []NothingStranded
<1>1. ASSUME UseInv, SeedInv PROVE NothingStranded
  <2>1. \A c \in Outstanding : c \in UsedScripts \/ c \in former
    BY DEF Outstanding, UsedScripts, UsedCounters, With
  <2> QED
    BY <1>1, <2>1, UsedIsReachable DEF NothingStranded, SeedFinds
<1> QED
  BY <1>1, UseInvariance, SeedInvariance, PTL

(***************************************************************************)
(* And no counter is used for a second request while an output of it for   *)
(* the present key is outstanding, though the database was lost: what the  *)
(* search finds replaces what was on disk.  What that search missed, on    *)
(* Bitcoin Core, while blocks came is excepted until recover found it.     *)
(***************************************************************************)
THEOREM LostCountersAreFresh ==
  ASSUME MaxFaults < GapLimit PROVE Spec => []NoReuse
<1>1. SeedInv => NoReuse
  BY DEF SeedInv, NoReuse
<1> QED
  BY <1>1, SeedInvariance, PTL

(***************************************************************************)
(* Every variable of the commands, the database and the network keeps its  *)
(* type.                                                                   *)
(***************************************************************************)
THEOREM CommandsTyped == Spec => []TypeOK
<1>1. UseInv => TypeOK
  BY DEF UseInv, RunTypeOK, GhostTypeOK, DbInv, TypeOK
<1> QED
  BY <1>1, UseInvariance, PTL
=============================================================================
