----------------------------- MODULE SeedVault ------------------------------
(***************************************************************************)
(* The life of the seed: the encrypted entry in the credential store       *)
(* (crates/keystore/src/keychain.rs), the seed's creation, restore and     *)
(* unlocking (bin/alpen/src/seed.rs), the commands that change it (backup, *)
(* change-password, reset) and the data directories that belong to it, one *)
(* per profile: the wallet's SQLite file and the descriptor database.      *)
(* Encryption is modelled by what it does: an entry opens with the         *)
(* password it was made with and no other.                                 *)
(*                                                                         *)
(* Nothing is locked: an invocation acts on the credential as it has read  *)
(* it.  overtaken says that another one has changed the store since then.  *)
(***************************************************************************)
EXTENDS Integers, FiniteSets

CONSTANTS
  Procs,      \* invocations that may run at the same time
  Seeds,
  Passwords,
  Profiles,   \* deployment profiles: one data directory each
  NoSeed,
  NoEntry,    \* no credential in the store
  Unreadable, \* a credential that is no encrypted seed: other length, encoding
  MaxFaults   \* bound: failed commands, and commands started while another runs

Entries == [seed : Seeds, password : Passwords]

ASSUME VaultAssumption ==
  /\ NoSeed \notin Seeds
  /\ NoEntry \notin Entries /\ Unreadable \notin Entries /\ NoEntry # Unreadable
  /\ Profiles # {} /\ MaxFaults \in Nat

VARIABLES
  vault,    \* the credential
  wallet,   \* per profile: the seed the SQLite file was created for
  descs,    \* per profile: the seeds whose descriptors are in the database
  pc,
  profile,  \* profile of an invocation, fixed when its settings are loaded
  entry,    \* the credential an invocation has read
  seed,     \* the seed it has in memory
  backedUp, \* seeds whose mnemonic the user has
  funded,   \* seeds that gave out an address
  removed,  \* seeds that a confirmed reset or an overtaken invocation took out of the store
  overtaken, \* the invocations whose store another one changed after they had read the entry
  faults

store == <<vault, wallet, descs>>
runVars == <<pc, profile, entry, seed>>
ghosts == <<backedUp, funded, removed, overtaken>>
vars == <<store, runVars, ghosts, faults>>

NoProfile == CHOOSE f \in Profiles : TRUE
Steps == {"idle", "load", "discard", "password", "create", "save", "run", "wallet", "reset", "wipe"}

VaultTypeOK ==
  /\ vault \in Entries \cup {NoEntry, Unreadable}
  /\ wallet \in [Profiles -> Seeds \cup {NoSeed}]
  /\ descs \in [Profiles -> SUBSET Seeds]
  /\ pc \in [Procs -> Steps]
  /\ profile \in [Procs -> Profiles]
  /\ entry \in [Procs -> Entries \cup {NoEntry}]
  /\ seed \in [Procs -> Seeds \cup {NoSeed}]
  /\ backedUp \in SUBSET Seeds
  /\ funded \in SUBSET Seeds
  /\ removed \in SUBSET Seeds
  /\ overtaken \subseteq Procs
  /\ faults \in 0 .. MaxFaults

Init ==
  /\ vault \in {NoEntry, Unreadable}
  /\ wallet = [f \in Profiles |-> NoSeed]
  /\ descs = [f \in Profiles |-> {}]
  /\ pc = [p \in Procs |-> "idle"]
  /\ profile = [p \in Procs |-> NoProfile]
  /\ entry = [p \in Procs |-> NoEntry]
  /\ seed = [p \in Procs |-> NoSeed]
  /\ backedUp = {} /\ funded = {} /\ removed = {} /\ overtaken = {}
  /\ faults = 0

SeedIn(v) == IF v \in Entries THEN {v.seed} ELSE {}
StoredSeeds == SeedIn(vault)

Goto(p, step) == pc' = [pc EXCEPT ![p] = step]

\* The invocation is over; its copies of the seed are gone.
Forget(p) ==
  /\ Goto(p, "idle")
  /\ entry' = [entry EXCEPT ![p] = NoEntry]
  /\ seed' = [seed EXCEPT ![p] = NoSeed]
  /\ profile' = [profile EXCEPT ![p] = NoProfile]

Exit(p) == Forget(p) /\ overtaken' = overtaken \ {p}

-----------------------------------------------------------------------------
(* main: settings first, then reset, or the seed and a command.            *)

Start(p, f, step) ==
  /\ pc[p] = "idle"
  /\ step \in {"load", "reset"}
  /\ profile' = [profile EXCEPT ![p] = f]
  /\ Goto(p, step)
  /\ faults' = IF \A q \in Procs : pc[q] = "idle" THEN faults ELSE faults + 1
  /\ faults' <= MaxFaults
  /\ UNCHANGED <<store, entry, seed, ghosts>>

LoadEntry(p) ==
  /\ pc[p] = "load"
  /\ entry' = [entry EXCEPT ![p] = IF vault = Unreadable THEN NoEntry ELSE vault]
  /\ Goto(p, CASE vault = Unreadable -> "discard"
               [] vault = NoEntry -> "create"
               [] OTHER -> "password")
  /\ overtaken' = overtaken \ {p}
  /\ UNCHANGED <<store, profile, seed, backedUp, funded, removed, faults>>

\* The invocations that work with what they have read.
Others(p) == {q \in Procs \ {p} : pc[q] \notin {"idle", "load", "reset"}}

\* What p does to the credential changes the store under the others, and a seed
\* p has not read is lost if p writes over it.
Replace(p, v) ==
  /\ vault' = v
  /\ overtaken' = IF v = vault THEN overtaken ELSE (overtaken \cup Others(p)) \ {p}
  /\ removed' = IF p \in overtaken THEN removed \cup (StoredSeeds \ SeedIn(v)) ELSE removed

\* What cannot be a seed is deleted, if the store allows it, and is no entry.
Discard(p) ==
  /\ pc[p] = "discard"
  /\ \E v \in {vault, NoEntry} : Replace(p, v)
  /\ Goto(p, "create")
  /\ UNCHANGED <<wallet, descs, profile, entry, seed, backedUp, funded, faults>>

Unlock(p, w) ==
  /\ pc[p] = "password"
  /\ w = entry[p].password
  /\ seed' = [seed EXCEPT ![p] = entry[p].seed]
  /\ entry' = [entry EXCEPT ![p] = NoEntry]
  /\ Goto(p, "run")
  /\ UNCHANGED <<store, profile, ghosts, faults>>

WrongPassword(p, w) ==
  /\ pc[p] = "password"
  /\ w # entry[p].password
  /\ Exit(p)
  /\ UNCHANGED <<store, backedUp, funded, removed, faults>>

\* A seed that nobody has or has ever used.
Fresh(s) ==
  /\ s \notin StoredSeeds \cup backedUp \cup funded \cup removed
  /\ \A q \in Procs : seed[q] # s
  /\ \A f \in Profiles : wallet[f] # s

\* Seed::generate; two generated seeds are never the same.
Generate(p, s) ==
  /\ pc[p] = "create"
  /\ Fresh(s)
  /\ seed' = [seed EXCEPT ![p] = s]
  /\ Goto(p, "save")
  /\ UNCHANGED <<store, profile, entry, ghosts, faults>>

\* The mnemonic of a seed the user has written down.
Restore(p, s) ==
  /\ pc[p] = "create"
  /\ s \in backedUp
  /\ seed' = [seed EXCEPT ![p] = s]
  /\ Goto(p, "save")
  /\ UNCHANGED <<store, profile, entry, ghosts, faults>>

\* Mutant: a failure to save the new seed is not noticed.
SaveMayFail(p, w) ==
  /\ pc[p] = "save"
  /\ \E v \in {vault, [seed |-> seed[p], password |-> w]} : Replace(p, v)
  /\ Goto(p, "run")
  /\ UNCHANGED <<wallet, descs, profile, entry, seed, backedUp, funded, faults>>

SaveSeed(p, w) ==
  /\ pc[p] = "save"
  /\ Replace(p, [seed |-> seed[p], password |-> w])
  /\ Goto(p, "run")
  /\ UNCHANGED <<wallet, descs, profile, entry, seed, backedUp, funded, faults>>

-----------------------------------------------------------------------------
(* Commands with the seed.                                                 *)

Backup(p) ==
  /\ pc[p] = "run"
  /\ backedUp' = backedUp \cup {seed[p]}
  /\ Exit(p)
  /\ UNCHANGED <<store, funded, removed, faults>>

ChangePassword(p, w) ==
  /\ pc[p] = "run"
  /\ Replace(p, [seed |-> seed[p], password |-> w])
  /\ Forget(p)
  /\ UNCHANGED <<wallet, descs, backedUp, funded, faults>>

\* Mutant: the file is loaded without a check of its descriptors.
OpensAny(p) ==
  /\ pc[p] = "run"
  /\ wallet' = IF wallet[profile[p]] = NoSeed
               THEN [wallet EXCEPT ![profile[p]] = seed[p]] ELSE wallet
  /\ Goto(p, "wallet")
  /\ UNCHANGED <<vault, descs, profile, entry, seed, ghosts, faults>>

\* BitcoinWallet::new loads the file of this seed or creates it.
OpenWallet(p) ==
  /\ pc[p] = "run"
  /\ wallet[profile[p]] \in {NoSeed, seed[p]}
  /\ wallet' = [wallet EXCEPT ![profile[p]] = seed[p]]
  /\ Goto(p, "wallet")
  /\ UNCHANGED <<vault, descs, profile, entry, seed, ghosts, faults>>

\* A file created for other descriptors does not load: the expect aborts.
OpenWalletPanics(p) ==
  /\ pc[p] = "run"
  /\ wallet[profile[p]] \notin {NoSeed, seed[p]}
  /\ Exit(p)
  /\ UNCHANGED <<store, backedUp, funded, removed, faults>>

\* The seed's addresses are paid, without a deposit or with one, whose
\* descriptor is saved under the seed's key, in vain if the files are gone.
Receive(p, deposit) ==
  /\ pc[p] = "wallet"
  /\ funded' = funded \cup {seed[p]}
  /\ \/ deposit /\ descs' = [descs EXCEPT ![profile[p]] = @ \cup {seed[p]}]
     \/ (deposit => p \in overtaken) /\ UNCHANGED descs
  /\ Exit(p)
  /\ UNCHANGED <<vault, wallet, backedUp, removed, faults>>

\* A command that gives out no address, or fails before it does.
EndCommand(p) ==
  /\ pc[p] = "wallet"
  /\ Exit(p)
  /\ UNCHANGED <<store, backedUp, funded, removed, faults>>

-----------------------------------------------------------------------------
(* reset: no seed and no password is needed.                               *)

\* Mutant: the data directory goes first.
WipesFirst(p) ==
  /\ pc[p] = "reset"
  /\ Goto(p, "wipe")
  /\ UNCHANGED <<store, profile, entry, seed, ghosts, faults>>

DeleteEntry(p) ==
  /\ pc[p] = "reset"
  /\ vault' = NoEntry
  /\ removed' = removed \cup StoredSeeds
  /\ overtaken' = (IF vault = NoEntry THEN overtaken ELSE overtaken \cup Others(p)) \ {p}
  /\ Goto(p, "wipe")
  /\ UNCHANGED <<wallet, descs, profile, entry, seed, backedUp, funded, faults>>

\* wipe_data_root removes the whole tree, one file after another.
WipeFile(p, f) ==
  /\ pc[p] = "wipe"
  /\ \/ wallet[f] # NoSeed /\ wallet' = [wallet EXCEPT ![f] = NoSeed] /\ UNCHANGED descs
     \/ descs[f] # {} /\ descs' = [descs EXCEPT ![f] = {}] /\ UNCHANGED wallet
  /\ overtaken' = overtaken \cup {q \in Others(p) : pc[q] # "wipe"}
  /\ UNCHANGED <<vault, runVars, backedUp, funded, removed, faults>>

\* Mutant: only the directory of the active profile is wiped.
WipedActive(p) == wallet[profile[p]] = NoSeed /\ descs[profile[p]] = {}

Wiped(p) == \A f \in Profiles : wallet[f] = NoSeed /\ descs[f] = {}

EndReset(p) ==
  /\ pc[p] = "wipe"
  /\ Wiped(p)
  /\ Exit(p)
  /\ UNCHANGED <<store, backedUp, funded, removed, faults>>

Prompts == {"password", "create", "save", "reset"}

\* The user leaves a prompt or does not confirm the reset, or what follows it
\* fails before it has changed anything.
LeavePrompt(p) ==
  /\ pc[p] \in Prompts
  /\ Exit(p)
  /\ UNCHANGED <<store, backedUp, funded, removed, faults>>

\* The store or the file system fails, or a kill.
Fail(p) ==
  /\ pc[p] \notin Prompts \cup {"idle", "wallet"}
  /\ faults < MaxFaults
  /\ faults' = faults + 1
  /\ Exit(p)
  /\ UNCHANGED <<store, backedUp, funded, removed>>

Step(p) ==
  \/ LoadEntry(p) \/ Discard(p)
  \/ \E w \in Passwords : Unlock(p, w) \/ WrongPassword(p, w) \/ SaveSeed(p, w)
                            \/ ChangePassword(p, w)
  \/ \E s \in Seeds : Generate(p, s) \/ Restore(p, s)
  \/ Backup(p)
  \/ OpenWallet(p) \/ OpenWalletPanics(p)
  \/ \E deposit \in BOOLEAN : Receive(p, deposit)
  \/ EndCommand(p)

ResetStep(p) ==
  \/ DeleteEntry(p)
  \/ \E f \in Profiles : WipeFile(p, f)
  \/ EndReset(p)

Next ==
  \E p \in Procs :
    \/ \E f \in Profiles, step \in Steps : Start(p, f, step)
    \/ Step(p) \/ ResetStep(p)
    \/ LeavePrompt(p) \/ Fail(p)

Spec == Init /\ [][Next]_vars

-----------------------------------------------------------------------------

(***************************************************************************)
(* A seed whose addresses were given out is in the credential store, or    *)
(* the user has its mnemonic, or erased it by a reset, or an invocation    *)
(* wrote over it that had read the store before it was saved:              *)
(* load_or_create saves a seed before anything is derived from it, and no  *)
(* failed command leaves the store without it.                             *)
(***************************************************************************)
NoSeedLost == funded \subseteq StoredSeeds \cup backedUp \cup removed

(***************************************************************************)
(* A command works on a wallet file of its own seed, whatever an           *)
(* interrupted reset left in the data directory, unless a reset is running *)
(* at the same time; what it has read from the store is an entry.          *)
(***************************************************************************)
OwnWallet ==
  /\ VaultTypeOK
  /\ \A p \in Procs : pc[p] = "wallet" => wallet[profile[p]] = seed[p] \/ p \in overtaken

(***************************************************************************)
(* Data is removed only after the seed it belongs to has left the store: a *)
(* seed that is still in use never loses its descriptors to a reset that   *)
(* was interrupted, unless it was saved while the reset was running.       *)
(***************************************************************************)
DataOutlivesSeed ==
  [][\A p \in Procs, f \in Profiles : WipeFile(p, f) =>
       \/ p \in overtaken
       \/ /\ wallet[f] # wallet'[f] => wallet[f] \notin StoredSeeds
          /\ \A s \in descs[f] \ descs'[f] : s \notin StoredSeeds]_vars

\* Files in the data directories that no seed in the store can open.
Foreign ==
  \E f \in Profiles :
    \/ wallet[f] \notin StoredSeeds \cup {NoSeed}
    \/ ~ descs[f] \subseteq StoredSeeds

\* A user who runs into a foreign file runs reset, in any profile, and confirms
\* it, until it has ended.
FairSpec ==
  /\ Spec
  /\ \A p \in Procs : WF_vars(Step(p) \/ ResetStep(p) \/ LeavePrompt(p))
  /\ SF_vars(\E p \in Procs, f \in Profiles : Start(p, f, "reset"))
  /\ SF_vars(\E p \in Procs : DeleteEntry(p))

(***************************************************************************)
(* What an interrupted reset left, in any profile, is removed in the end:  *)
(* reset needs neither the seed nor the wallet that fails to load.         *)
(***************************************************************************)
ResetCleans == Foreign ~> ~ Foreign
=============================================================================
