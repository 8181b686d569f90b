--------------------------- MODULE SeedVaultProofs --------------------------
(***************************************************************************)
(* Proofs about SeedVault, for any number of invocations, seeds, passwords *)
(* and profiles: an invocation that nothing has overtaken knows what the   *)
(* credential store holds, and that is why no seed is lost by it, and why  *)
(* a reset removes no data of a seed in use.                               *)
(***************************************************************************)
EXTENDS SeedVault, TLAPS

USE VaultAssumption

\* What an invocation has in memory is a seed.
MemoryInv ==
  \A p \in Procs :
    /\ pc[p] = "password" => entry[p] \in Entries
    /\ pc[p] \in {"save", "run", "wallet"} => seed[p] \in Seeds

\* What it has read is still what the store holds, if nothing overtook it.
CurrentInv ==
  \A p \in Procs \ overtaken :
    /\ pc[p] = "password" => StoredSeeds = {entry[p].seed}
    /\ pc[p] \in {"discard", "create", "save", "wipe"} => StoredSeeds = {}
    /\ pc[p] \in {"run", "wallet"} => StoredSeeds = {seed[p]}

Kept == StoredSeeds \cup backedUp \cup removed

\* A seed a command works with, or may come to work with, is not lost.
KeptInv ==
  /\ funded \subseteq Kept
  /\ \A p \in Procs :
       /\ pc[p] = "password" => entry[p].seed \in Kept
       /\ pc[p] \in {"run", "wallet"} => seed[p] \in Kept

IInv == OwnWallet /\ MemoryInv /\ CurrentInv /\ KeptInv

LEMMA InitInv == Init => IInv
<1> SUFFICES ASSUME Init PROVE IInv
  OBVIOUS
<1>1. NoProfile \in Profiles
  BY DEF NoProfile
<1> QED
  BY <1>1 DEF Init, IInv, OwnWallet, VaultTypeOK, MemoryInv, CurrentInv, KeptInv, Kept,
     Steps, StoredSeeds, SeedIn

LEMMA LoadEntryInv ==
  ASSUME NEW p \in Procs, IInv, LoadEntry(p) PROVE IInv'
<1> USE DEF IInv, LoadEntry, Goto, store
<1>0. NoProfile \in Profiles
  BY DEF NoProfile
<1>1. VaultTypeOK'
  BY <1>0 DEF OwnWallet, VaultTypeOK, MemoryInv, Entries, Steps
<1>2. OwnWallet'
  BY <1>1 DEF OwnWallet, VaultTypeOK, MemoryInv
<1>3. MemoryInv'
  BY DEF OwnWallet, VaultTypeOK, MemoryInv, Entries
<1>4. CurrentInv'
  BY DEF OwnWallet, VaultTypeOK, MemoryInv, CurrentInv, StoredSeeds, SeedIn, Entries
<1>5. KeptInv'
  BY DEF OwnWallet, VaultTypeOK, MemoryInv, CurrentInv, KeptInv, Kept, StoredSeeds, SeedIn, Entries
<1> QED
  BY <1>2, <1>3, <1>4, <1>5

LEMMA DiscardInv ==
  ASSUME NEW p \in Procs, IInv, Discard(p) PROVE IInv'
<1> USE DEF IInv, Discard, Goto, Replace, Others
<1>0. NoProfile \in Profiles
  BY DEF NoProfile
<1>1. VaultTypeOK'
  <2>1. StoredSeeds \subseteq Seeds
    BY DEF OwnWallet, VaultTypeOK, StoredSeeds, SeedIn, Entries
  <2>2. vault' \in Entries \cup {NoEntry, Unreadable}
    BY DEF OwnWallet, VaultTypeOK, MemoryInv, Entries
  <2>3. removed' \in SUBSET Seeds /\ overtaken' \subseteq Procs
    BY <2>1 DEF OwnWallet, VaultTypeOK
  <2> QED
    BY <1>0, <2>2, <2>3 DEF OwnWallet, VaultTypeOK, Steps
<1>2. OwnWallet'
  BY <1>1 DEF OwnWallet, VaultTypeOK, MemoryInv
<1>3. MemoryInv'
  BY DEF OwnWallet, VaultTypeOK, MemoryInv, Entries
<1>4. CurrentInv'
  BY DEF OwnWallet, VaultTypeOK, MemoryInv, CurrentInv, StoredSeeds, SeedIn, Entries
<1>5. KeptInv'
  BY DEF OwnWallet, VaultTypeOK, MemoryInv, CurrentInv, KeptInv, Kept, StoredSeeds, SeedIn, Entries
<1> QED
  BY <1>2, <1>3, <1>4, <1>5

LEMMA UnlockInv ==
  ASSUME NEW p \in Procs, NEW w \in Passwords, IInv, Unlock(p, w) PROVE IInv'
<1> USE DEF IInv, Unlock, Goto, store, ghosts
<1>0. NoProfile \in Profiles
  BY DEF NoProfile
<1>1. VaultTypeOK'
  BY <1>0 DEF OwnWallet, VaultTypeOK, MemoryInv, Entries, Steps
<1>2. OwnWallet'
  BY <1>1 DEF OwnWallet, VaultTypeOK, MemoryInv
<1>3. MemoryInv'
  BY DEF OwnWallet, VaultTypeOK, MemoryInv, Entries
<1>4. CurrentInv'
  BY DEF OwnWallet, VaultTypeOK, MemoryInv, CurrentInv, StoredSeeds, SeedIn, Entries
<1>5. KeptInv'
  BY DEF OwnWallet, VaultTypeOK, MemoryInv, CurrentInv, KeptInv, Kept, StoredSeeds, SeedIn, Entries
<1> QED
  BY <1>2, <1>3, <1>4, <1>5

(* The end of an invocation that has changed nothing in its last step. *)
LEMMA ExitInv ==
  ASSUME NEW p \in Procs, IInv, Exit(p), UNCHANGED <<store, backedUp, funded, removed>>,
         faults' \in 0 .. MaxFaults
  PROVE  IInv'
<1> USE DEF IInv, Exit, Forget, Goto, store
<1>0. NoProfile \in Profiles
  BY DEF NoProfile
<1>1. VaultTypeOK'
  BY <1>0 DEF OwnWallet, VaultTypeOK, MemoryInv, Entries, Steps
<1>2. OwnWallet'
  BY <1>1 DEF OwnWallet, VaultTypeOK, MemoryInv
<1>3. MemoryInv'
  BY DEF OwnWallet, VaultTypeOK, MemoryInv, Entries
<1>4. CurrentInv'
  BY DEF OwnWallet, VaultTypeOK, MemoryInv, CurrentInv, StoredSeeds, SeedIn, Entries
<1>5. KeptInv'
  BY DEF OwnWallet, VaultTypeOK, MemoryInv, CurrentInv, KeptInv, Kept, StoredSeeds, SeedIn, Entries
<1> QED
  BY <1>2, <1>3, <1>4, <1>5

LEMMA GenerateInv ==
  ASSUME NEW p \in Procs, NEW s \in Seeds, IInv, Generate(p, s) PROVE IInv'
<1> USE DEF IInv, Generate, Goto, store, ghosts
<1>0. NoProfile \in Profiles
  BY DEF NoProfile
<1>1. VaultTypeOK'
  BY <1>0 DEF OwnWallet, VaultTypeOK, MemoryInv, Entries, Steps
<1>2. OwnWallet'
  BY <1>1 DEF OwnWallet, VaultTypeOK, MemoryInv
<1>3. MemoryInv'
  BY DEF OwnWallet, VaultTypeOK, MemoryInv, Entries
<1>4. CurrentInv'
  BY DEF OwnWallet, VaultTypeOK, MemoryInv, CurrentInv, StoredSeeds, SeedIn, Entries
<1>5. KeptInv'
  BY DEF OwnWallet, VaultTypeOK, MemoryInv, CurrentInv, KeptInv, Kept, StoredSeeds, SeedIn, Entries
<1> QED
  BY <1>2, <1>3, <1>4, <1>5

LEMMA RestoreInv ==
  ASSUME NEW p \in Procs, NEW s \in Seeds, IInv, Restore(p, s) PROVE IInv'
<1> USE DEF IInv, Restore, Goto, store, ghosts
<1>0. NoProfile \in Profiles
  BY DEF NoProfile
<1>1. VaultTypeOK'
  BY <1>0 DEF OwnWallet, VaultTypeOK, MemoryInv, Entries, Steps
<1>2. OwnWallet'
  BY <1>1 DEF OwnWallet, VaultTypeOK, MemoryInv
<1>3. MemoryInv'
  BY DEF OwnWallet, VaultTypeOK, MemoryInv, Entries
<1>4. CurrentInv'
  BY DEF OwnWallet, VaultTypeOK, MemoryInv, CurrentInv, StoredSeeds, SeedIn, Entries
<1>5. KeptInv'
  BY DEF OwnWallet, VaultTypeOK, MemoryInv, CurrentInv, KeptInv, Kept, StoredSeeds, SeedIn, Entries
<1> QED
  BY <1>2, <1>3, <1>4, <1>5

LEMMA SaveSeedInv ==
  ASSUME NEW p \in Procs, NEW w \in Passwords, IInv, SaveSeed(p, w) PROVE IInv'
<1> USE DEF IInv, SaveSeed, Goto, Replace, Others
<1>0. NoProfile \in Profiles
  BY DEF NoProfile
<1>1. VaultTypeOK'
  <2>1. StoredSeeds \subseteq Seeds
    BY DEF OwnWallet, VaultTypeOK, StoredSeeds, SeedIn, Entries
  <2>2. vault' \in Entries \cup {NoEntry, Unreadable}
    BY DEF OwnWallet, VaultTypeOK, MemoryInv, Entries
  <2>3. removed' \in SUBSET Seeds /\ overtaken' \subseteq Procs
    BY <2>1 DEF OwnWallet, VaultTypeOK
  <2> QED
    BY <1>0, <2>2, <2>3 DEF OwnWallet, VaultTypeOK, Steps
<1>2. OwnWallet'
  BY <1>1 DEF OwnWallet, VaultTypeOK, MemoryInv
<1>3. MemoryInv'
  BY DEF OwnWallet, VaultTypeOK, MemoryInv, Entries
<1>4. CurrentInv'
  BY DEF OwnWallet, VaultTypeOK, MemoryInv, CurrentInv, StoredSeeds, SeedIn, Entries
<1>5. KeptInv'
  BY DEF OwnWallet, VaultTypeOK, MemoryInv, CurrentInv, KeptInv, Kept, StoredSeeds, SeedIn, Entries
<1> QED
  BY <1>2, <1>3, <1>4, <1>5

LEMMA BackupInv ==
  ASSUME NEW p \in Procs, IInv, Backup(p) PROVE IInv'
<1> USE DEF IInv, Backup, Exit, Forget, Goto, store
<1>0. NoProfile \in Profiles
  BY DEF NoProfile
<1>1. VaultTypeOK'
  BY <1>0 DEF OwnWallet, VaultTypeOK, MemoryInv, Entries, Steps
<1>2. OwnWallet'
  BY <1>1 DEF OwnWallet, VaultTypeOK, MemoryInv
<1>3. MemoryInv'
  BY DEF OwnWallet, VaultTypeOK, MemoryInv, Entries
<1>4. CurrentInv'
  BY DEF OwnWallet, VaultTypeOK, MemoryInv, CurrentInv, StoredSeeds, SeedIn, Entries
<1>5. KeptInv'
  BY DEF OwnWallet, VaultTypeOK, MemoryInv, CurrentInv, KeptInv, Kept, StoredSeeds, SeedIn, Entries
<1> QED
  BY <1>2, <1>3, <1>4, <1>5

LEMMA ChangePasswordInv ==
  ASSUME NEW p \in Procs, NEW w \in Passwords, IInv, ChangePassword(p, w) PROVE IInv'
<1> USE DEF IInv, ChangePassword, Forget, Goto, Replace, Others
<1>0. NoProfile \in Profiles
  BY DEF NoProfile
<1>1. VaultTypeOK'
  <2>1. StoredSeeds \subseteq Seeds
    BY DEF OwnWallet, VaultTypeOK, StoredSeeds, SeedIn, Entries
  <2>2. vault' \in Entries \cup {NoEntry, Unreadable}
    BY DEF OwnWallet, VaultTypeOK, MemoryInv, Entries
  <2>3. removed' \in SUBSET Seeds /\ overtaken' \subseteq Procs
    BY <2>1 DEF OwnWallet, VaultTypeOK
  <2> QED
    BY <1>0, <2>2, <2>3 DEF OwnWallet, VaultTypeOK, Steps
<1>2. OwnWallet'
  BY <1>1 DEF OwnWallet, VaultTypeOK, MemoryInv
<1>3. MemoryInv'
  BY DEF OwnWallet, VaultTypeOK, MemoryInv, Entries
<1>4. CurrentInv'
  BY DEF OwnWallet, VaultTypeOK, MemoryInv, CurrentInv, StoredSeeds, SeedIn, Entries
<1>5. KeptInv'
  BY DEF OwnWallet, VaultTypeOK, MemoryInv, CurrentInv, KeptInv, Kept, StoredSeeds, SeedIn, Entries
<1> QED
  BY <1>2, <1>3, <1>4, <1>5

LEMMA OpenWalletInv ==
  ASSUME NEW p \in Procs, IInv, OpenWallet(p) PROVE IInv'
<1> USE DEF IInv, OpenWallet, Goto, ghosts
<1>0. NoProfile \in Profiles
  BY DEF NoProfile
<1>1. VaultTypeOK'
  BY <1>0 DEF OwnWallet, VaultTypeOK, MemoryInv, Entries, Steps
<1>2. OwnWallet'
  BY <1>1 DEF OwnWallet, VaultTypeOK, MemoryInv
<1>3. MemoryInv'
  BY DEF OwnWallet, VaultTypeOK, MemoryInv, Entries
<1>4. CurrentInv'
  BY DEF OwnWallet, VaultTypeOK, MemoryInv, CurrentInv, StoredSeeds, SeedIn, Entries
<1>5. KeptInv'
  BY DEF OwnWallet, VaultTypeOK, MemoryInv, CurrentInv, KeptInv, Kept, StoredSeeds, SeedIn, Entries
<1> QED
  BY <1>2, <1>3, <1>4, <1>5

LEMMA ReceiveInv ==
  ASSUME NEW p \in Procs, NEW deposit \in BOOLEAN, IInv, Receive(p, deposit) PROVE IInv'
<1> USE DEF IInv, Receive, Exit, Forget, Goto
<1>0. NoProfile \in Profiles
  BY DEF NoProfile
<1>1. VaultTypeOK'
  BY <1>0 DEF OwnWallet, VaultTypeOK, MemoryInv, Entries, Steps
<1>2. OwnWallet'
  BY <1>1 DEF OwnWallet, VaultTypeOK, MemoryInv
<1>3. MemoryInv'
  BY DEF OwnWallet, VaultTypeOK, MemoryInv, Entries
<1>4. CurrentInv'
  BY DEF OwnWallet, VaultTypeOK, MemoryInv, CurrentInv, StoredSeeds, SeedIn, Entries
<1>5. KeptInv'
  BY DEF OwnWallet, VaultTypeOK, MemoryInv, CurrentInv, KeptInv, Kept, StoredSeeds, SeedIn, Entries
<1> QED
  BY <1>2, <1>3, <1>4, <1>5

LEMMA DeleteEntryInv ==
  ASSUME NEW p \in Procs, IInv, DeleteEntry(p) PROVE IInv'
<1> USE DEF IInv, DeleteEntry, Goto, Others
<1>0. NoProfile \in Profiles
  BY DEF NoProfile
<1>1. VaultTypeOK'
  <2>1. StoredSeeds \subseteq Seeds
    BY DEF OwnWallet, VaultTypeOK, StoredSeeds, SeedIn, Entries
  <2>2. vault' \in Entries \cup {NoEntry, Unreadable}
    BY DEF OwnWallet, VaultTypeOK, MemoryInv, Entries
  <2>3. removed' \in SUBSET Seeds /\ overtaken' \subseteq Procs
    BY <2>1 DEF OwnWallet, VaultTypeOK
  <2> QED
    BY <1>0, <2>2, <2>3 DEF OwnWallet, VaultTypeOK, Steps
<1>2. OwnWallet'
  BY <1>1 DEF OwnWallet, VaultTypeOK, MemoryInv
<1>3. MemoryInv'
  BY DEF OwnWallet, VaultTypeOK, MemoryInv, Entries
<1>4. CurrentInv'
  BY DEF OwnWallet, VaultTypeOK, MemoryInv, CurrentInv, StoredSeeds, SeedIn, Entries
<1>5. KeptInv'
  BY DEF OwnWallet, VaultTypeOK, MemoryInv, CurrentInv, KeptInv, Kept, StoredSeeds, SeedIn, Entries
<1> QED
  BY <1>2, <1>3, <1>4, <1>5

LEMMA WipeFileInv ==
  ASSUME NEW p \in Procs, NEW f \in Profiles, IInv, WipeFile(p, f) PROVE IInv'
<1> USE DEF IInv, WipeFile, runVars, Others
<1>0. NoProfile \in Profiles
  BY DEF NoProfile
<1>1. VaultTypeOK'
  BY <1>0 DEF OwnWallet, VaultTypeOK, MemoryInv, Entries, Steps
<1>2. OwnWallet'
  BY <1>1 DEF OwnWallet, VaultTypeOK, MemoryInv
<1>3. MemoryInv'
  BY DEF OwnWallet, VaultTypeOK, MemoryInv, Entries
<1>4. CurrentInv'
  BY DEF OwnWallet, VaultTypeOK, MemoryInv, CurrentInv, StoredSeeds, SeedIn, Entries
<1>5. KeptInv'
  BY DEF OwnWallet, VaultTypeOK, MemoryInv, CurrentInv, KeptInv, Kept, StoredSeeds, SeedIn, Entries
<1> QED
  BY <1>2, <1>3, <1>4, <1>5

LEMMA StartInv ==
  ASSUME NEW p \in Procs, NEW f \in Profiles, NEW step \in Steps, IInv, Start(p, f, step) PROVE IInv'
<1> USE DEF IInv, Start, Goto, store, ghosts
<1>0. NoProfile \in Profiles
  BY DEF NoProfile
<1>1. VaultTypeOK'
  BY <1>0 DEF OwnWallet, VaultTypeOK, MemoryInv, Entries, Steps
<1>2. OwnWallet'
  BY <1>1 DEF OwnWallet, VaultTypeOK, MemoryInv
<1>3. MemoryInv'
  BY DEF OwnWallet, VaultTypeOK, MemoryInv, Entries
<1>4. CurrentInv'
  BY DEF OwnWallet, VaultTypeOK, MemoryInv, CurrentInv, StoredSeeds, SeedIn, Entries
<1>5. KeptInv'
  BY DEF OwnWallet, VaultTypeOK, MemoryInv, CurrentInv, KeptInv, Kept, StoredSeeds, SeedIn, Entries
<1> QED
  BY <1>2, <1>3, <1>4, <1>5

LEMMA NextInv == IInv /\ [Next]_vars => IInv'
<1> SUFFICES ASSUME IInv, [Next]_vars PROVE IInv'
  OBVIOUS
<1>1. ASSUME NEW p \in Procs, Step(p) PROVE IInv'
  <2>1. CASE (\E w \in Passwords : WrongPassword(p, w)) \/ OpenWalletPanics(p) \/ EndCommand(p)
    <3>1. Exit(p) /\ UNCHANGED <<store, backedUp, funded, removed, faults>>
      BY <2>1 DEF WrongPassword, OpenWalletPanics, EndCommand
    <3> QED
      BY <3>1, ExitInv DEF IInv, OwnWallet, VaultTypeOK
  <2> QED
    BY <1>1, <2>1, LoadEntryInv, DiscardInv, UnlockInv, GenerateInv, RestoreInv, SaveSeedInv,
       BackupInv, ChangePasswordInv, OpenWalletInv, ReceiveInv DEF Step
<1>2. ASSUME NEW p \in Procs, ResetStep(p) PROVE IInv'
  <2>1. CASE EndReset(p)
    BY <2>1, ExitInv DEF EndReset, IInv, OwnWallet, VaultTypeOK
  <2> QED
    BY <1>2, <2>1, DeleteEntryInv, WipeFileInv DEF ResetStep
<1>3. ASSUME NEW p \in Procs, LeavePrompt(p) \/ Fail(p) PROVE IInv'
  <2>1. faults' \in 0 .. MaxFaults
    BY <1>3 DEF LeavePrompt, Fail, IInv, OwnWallet, VaultTypeOK
  <2> QED
    BY <1>3, <2>1, ExitInv DEF LeavePrompt, Fail
<1>4. CASE UNCHANGED vars
  BY <1>4 DEF vars, store, runVars, ghosts, IInv, OwnWallet, VaultTypeOK, MemoryInv,
     CurrentInv, KeptInv, Kept, StoredSeeds, SeedIn
<1> QED
  BY <1>1, <1>2, <1>3, <1>4, StartInv DEF Next

(***************************************************************************)
(* The inductive invariant: the types, what is in memory, what is known of *)
(* the store and what is kept.                                             *)
(***************************************************************************)
THEOREM VaultInvariance == Spec => []IInv
<1> QED
  BY InitInv, NextInv, PTL DEF Spec

(***************************************************************************)
(* A command works on a wallet file of its own seed, whatever an           *)
(* interrupted reset left behind, unless something overtook it.            *)
(***************************************************************************)
THEOREM CommandsOwnTheirWallet == Spec => []OwnWallet
<1>1. IInv => OwnWallet
  BY DEF IInv
<1> QED
  BY <1>1, VaultInvariance, PTL

(***************************************************************************)
(* load_or_create, change-password and reset lose no seed that gave out an *)
(* address but by a confirmed reset, or by an invocation that had read the *)
(* credential store before the seed was saved.                             *)
(***************************************************************************)
THEOREM SeedsAreKept == Spec => []NoSeedLost
<1>1. IInv => NoSeedLost
  BY DEF IInv, KeptInv, Kept, NoSeedLost
<1> QED
  BY <1>1, VaultInvariance, PTL

(***************************************************************************)
(* reset removes data only after its seed has left the store, unless the   *)
(* seed was saved while the reset was running.                             *)
(***************************************************************************)
THEOREM DataGoesLast == Spec => DataOutlivesSeed
<1> DEFINE Keeps ==
      \A p \in Procs, f \in Profiles : WipeFile(p, f) =>
        \/ p \in overtaken
        \/ /\ wallet[f] # wallet'[f] => wallet[f] \notin StoredSeeds
           /\ \A s \in descs[f] \ descs'[f] : s \notin StoredSeeds
<1>1. IInv => Keeps
  BY DEF IInv, CurrentInv, WipeFile
<1>2. IInv /\ [Next]_vars => [Keeps]_vars
  BY <1>1
<1> QED
  BY <1>2, VaultInvariance, PTL DEF Spec, DataOutlivesSeed

(***************************************************************************)
(* A reset that ends (EndReset: wipe_data_root has returned) leaves no     *)
(* file in any profile that the store cannot open, and no seed either      *)
(* unless another invocation saved one meanwhile.                          *)
(***************************************************************************)
THEOREM ResetLeavesNothing ==
  Spec => [][\A p \in Procs : EndReset(p) =>
               ~ Foreign' /\ (p \in overtaken \/ StoredSeeds' = {})]_vars
<1> DEFINE Clean ==
      \A p \in Procs : EndReset(p) => ~ Foreign' /\ (p \in overtaken \/ StoredSeeds' = {})
<1>1. IInv => Clean
  BY DEF IInv, CurrentInv, EndReset, Wiped, Foreign, store, StoredSeeds, SeedIn
<1>2. IInv /\ [Next]_vars => [Clean]_vars
  BY <1>1
<1> QED
  BY <1>2, VaultInvariance, PTL DEF Spec

-----------------------------------------------------------------------------
(* Seeds leave the store by a reset or an overtaken invocation, whatever   *)
(* the user has written down.                                              *)

Held == StoredSeeds \cup removed

\* A seed that a command works with, or that has files or addresses, is held.
HeldInv ==
  /\ funded \subseteq Held
  /\ \A f \in Profiles : wallet[f] \in Held \cup {NoSeed} /\ descs[f] \subseteq Held
  /\ \A p \in Procs :
       /\ pc[p] = "password" => entry[p].seed \in Held
       /\ pc[p] \in {"run", "wallet"} => seed[p] \in Held

(* What writes over the store without having been overtaken writes the     *)
(* seed that is there, or finds none.                                      *)
LEMMA HeldGrows == ASSUME IInv, [Next]_vars PROVE Held \subseteq Held'
<1> USE DEF Held, StoredSeeds, SeedIn
<1>1. ASSUME NEW p \in Procs, NEW v, Replace(p, v),
             p \notin overtaken => StoredSeeds \subseteq SeedIn(v)
      PROVE  Held \subseteq Held'
  BY <1>1 DEF Replace
<1>2. ASSUME NEW p \in Procs, Discard(p) PROVE Held \subseteq Held'
  <2>1. PICK v \in {vault, NoEntry} : Replace(p, v)
    BY <1>2 DEF Discard
  <2>2. p \notin overtaken => StoredSeeds = {}
    BY <1>2 DEF Discard, IInv, CurrentInv
  <2> QED
    BY <1>1, <2>1, <2>2
<1>3. ASSUME NEW p \in Procs, NEW w \in Passwords, SaveSeed(p, w) \/ ChangePassword(p, w)
      PROVE  Held \subseteq Held'
  <2> DEFINE v == [seed |-> seed[p], password |-> w]
  <2>1. Replace(p, v) /\ pc[p] \in {"save", "run"}
    BY <1>3 DEF SaveSeed, ChangePassword
  <2>2. v \in Entries /\ v.seed = seed[p]
    BY <2>1 DEF Entries, IInv, MemoryInv
  <2>3. p \notin overtaken => StoredSeeds \subseteq {seed[p]}
    BY <2>1 DEF IInv, CurrentInv
  <2>4. SeedIn(v) = {seed[p]}
    BY <2>2
  <2> HIDE DEF v
  <2> QED
    BY <1>1, <2>1, <2>3, <2>4
<1>4. ASSUME NEW p \in Procs, DeleteEntry(p) PROVE Held \subseteq Held'
  BY <1>4 DEF DeleteEntry
<1>5. ASSUME NEW p \in Procs, Step(p), ~ Discard(p),
             ~ \E w \in Passwords : SaveSeed(p, w) \/ ChangePassword(p, w)
      PROVE  Held \subseteq Held'
  BY <1>5 DEF Step, LoadEntry, Unlock, WrongPassword, Generate, Restore, Backup, OpenWallet,
     OpenWalletPanics, Receive, EndCommand, store, ghosts
<1>6. ASSUME NEW p \in Procs,
             \/ \E f \in Profiles, step \in Steps : Start(p, f, step)
             \/ LeavePrompt(p) \/ Fail(p)
             \/ ResetStep(p) /\ ~ DeleteEntry(p)
      PROVE  Held \subseteq Held'
  BY <1>6 DEF Start, LeavePrompt, Fail, ResetStep, WipeFile, EndReset, store, ghosts
<1>7. CASE UNCHANGED vars
  BY <1>7 DEF vars, store, ghosts
<1> QED
  BY <1>2, <1>3, <1>4, <1>5, <1>6, <1>7 DEF Next

LEMMA HeldNext == ASSUME IInv, HeldInv, [Next]_vars PROVE HeldInv'
<1> USE DEF HeldInv
<1>1. Held \subseteq Held'
  BY HeldGrows
<1>2. /\ wallet \in [Profiles -> Seeds \cup {NoSeed}] /\ descs \in [Profiles -> SUBSET Seeds]
      /\ pc \in [Procs -> Steps] /\ profile \in [Procs -> Profiles]
      /\ entry \in [Procs -> Entries \cup {NoEntry}] /\ seed \in [Procs -> Seeds \cup {NoSeed}]
  BY DEF IInv, OwnWallet, VaultTypeOK
<1>3. ASSUME NEW p \in Procs, Exit(p) \/ Forget(p), UNCHANGED <<wallet, descs, funded>>
      PROVE  HeldInv'
  BY <1>1, <1>2, <1>3 DEF Exit, Forget, Goto
<1>4. ASSUME NEW p \in Procs, LoadEntry(p) PROVE HeldInv'
  <2>1. pc'[p] = "password" => entry'[p].seed \in Held'
    BY <1>2, <1>4 DEF LoadEntry, Goto, Held, StoredSeeds, SeedIn, IInv, OwnWallet, VaultTypeOK, store
  <2> QED
    BY <1>1, <1>2, <1>4, <2>1 DEF LoadEntry, Goto, store
<1>5. ASSUME NEW p \in Procs, NEW w \in Passwords, Unlock(p, w) PROVE HeldInv'
  BY <1>1, <1>2, <1>5 DEF Unlock, Goto, store, ghosts
<1>6. ASSUME NEW p \in Procs, NEW w \in Passwords, SaveSeed(p, w) PROVE HeldInv'
  <2>1. vault' = [seed |-> seed[p], password |-> w] /\ seed[p] \in Seeds
    BY <1>6 DEF SaveSeed, Replace, IInv, MemoryInv
  <2>2. seed[p] \in Held'
    BY <2>1 DEF Held, StoredSeeds, SeedIn, Entries
  <2> QED
    BY <1>1, <1>2, <1>6, <2>2 DEF SaveSeed, Goto
<1>7. ASSUME NEW p \in Procs, OpenWallet(p) PROVE HeldInv'
  BY <1>1, <1>2, <1>7 DEF OpenWallet, Goto, ghosts
<1>8. ASSUME NEW p \in Procs, NEW deposit \in BOOLEAN, Receive(p, deposit) PROVE HeldInv'
  BY <1>1, <1>2, <1>8 DEF Receive, Exit, Forget, Goto
<1>9. ASSUME NEW p \in Procs, NEW f \in Profiles, WipeFile(p, f) PROVE HeldInv'
  BY <1>1, <1>2, <1>9 DEF WipeFile, runVars
<1>10. ASSUME NEW p \in Procs,
              \/ Discard(p) \/ DeleteEntry(p)
              \/ \E s \in Seeds : Generate(p, s) \/ Restore(p, s)
              \/ \E f \in Profiles, step \in Steps : Start(p, f, step)
       PROVE  HeldInv'
  BY <1>1, <1>2, <1>10 DEF Discard, DeleteEntry, Generate, Restore, Start, Goto, store, ghosts
<1>11. ASSUME NEW p \in Procs,
              \/ \E w \in Passwords : WrongPassword(p, w) \/ ChangePassword(p, w)
              \/ Backup(p) \/ OpenWalletPanics(p) \/ EndCommand(p) \/ EndReset(p)
              \/ LeavePrompt(p) \/ Fail(p)
       PROVE  HeldInv'
  BY <1>3, <1>11 DEF WrongPassword, ChangePassword, Backup, OpenWalletPanics, EndCommand,
     EndReset, LeavePrompt, Fail, store
<1>12. CASE UNCHANGED vars
  BY <1>1, <1>12 DEF vars, store, runVars, ghosts
<1> QED
  BY <1>4, <1>5, <1>6, <1>7, <1>8, <1>9, <1>10, <1>11, <1>12 DEF Next, Step, ResetStep

(***************************************************************************)
(* Every file in a data directory, and every seed that gave out an         *)
(* address, belongs to the seed in the store or to one that a confirmed    *)
(* reset or an overtaken invocation took out of it: NoSeedLost without the *)
(* user's backups.  A foreign file has no other origin.                    *)
(***************************************************************************)
THEOREM SeedsAreHeld ==
  Spec => [](/\ funded \subseteq StoredSeeds \cup removed
             /\ \A f \in Profiles : descs[f] \subseteq StoredSeeds \cup removed
             /\ \A f \in Profiles : wallet[f] # NoSeed => wallet[f] \in StoredSeeds \cup removed)
<1>1. Init => HeldInv
  BY DEF Init, HeldInv
<1>2. IInv /\ HeldInv /\ [Next]_vars => HeldInv'
  BY HeldNext
<1>3. HeldInv =>
        /\ funded \subseteq StoredSeeds \cup removed
        /\ \A f \in Profiles : descs[f] \subseteq StoredSeeds \cup removed
        /\ \A f \in Profiles : wallet[f] # NoSeed => wallet[f] \in StoredSeeds \cup removed
  BY DEF HeldInv, Held
<1> QED
  BY <1>1, <1>2, <1>3, VaultInvariance, PTL DEF Spec
=============================================================================
