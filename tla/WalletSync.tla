----------------------------- MODULE WalletSync -----------------------------
(***************************************************************************)
(* The Bitcoin wallet of the CLI (crates/bitcoin-wallet/src/lib.rs,        *)
(* BitcoinWallet) over its SQLite file (persist.rs) and its two backends   *)
(* (backend.rs): which payments a wallet knows, which addresses it has     *)
(* revealed, and how a full scan after a restore becomes plain syncs.      *)
(*                                                                         *)
(* Addresses are numbered from 1 in derivation order; the two keychains    *)
(* are treated alike and one is modelled.  The blocks are those that pay   *)
(* the seed's addresses, each of them one.  Every command is an invocation *)
(* by one process: load the wallet, sync or scan, persist, and then        *)
(* perhaps reveal an address, persist it and show it (print it or          *)
(* broadcast a transaction to it).                                         *)
(*                                                                         *)
(* Nothing locks the file.  Blocks and payments are merged into it, but    *)
(* the index of the last revealed address is replaced by that of whoever   *)
(* persists a change of it.  An invocation is stale when another has       *)
(* changed that index since it loaded the wallet, and the ghost raced      *)
(* says that a stale one has written: what the properties promise, they    *)
(* promise until then.                                                     *)
(***************************************************************************)
EXTENDS GapReach, Sequences

CONSTANTS
  Procs,            \* invocations that may run at the same time
  Backends,         \* of "esplora" and "core": those a user may have configured
  DefaultLookahead, \* DEFAULT_LOOKAHEAD of the wallet library
  AnyHistory,       \* whether payments may leave gaps a restore is not meant for
  MaxAddress,       \* bound: the last address
  MaxGiven,         \* bound: the last address given out before the restore
  MaxRestored,      \* bound: blocks there are when the wallet is restored
  MaxBlocks,        \* bound: blocks in all
  MaxFaults         \* bound: failed commands, and commands that start beside another

ASSUME BackendsAssumption == Backends \subseteq {"esplora", "core"}
ASSUME BoundsAssumption ==
  /\ {DefaultLookahead, MaxAddress, MaxGiven, MaxRestored, MaxBlocks, MaxFaults} \subseteq Nat
  /\ MaxGiven <= MaxAddress
  /\ MaxRestored <= MaxBlocks
  /\ GapLimit > 0   \* BitcoinWallet::new refuses 0
  /\ AnyHistory \in BOOLEAN

VARIABLES
  backend,    \* the configured backend, the same throughout
  chain,      \* the address paid by each block
  restoredAt, \* how many blocks there were at the restore
  given,      \* how many addresses had been given out before it
  done,       \* on disk: full_scan_state.completed
  revealed,   \* on disk: how many addresses are revealed
  known,      \* on disk: the blocks with a payment the wallet knows
  checkpoint, \* on disk: height of the wallet's latest checkpoint
  pc,
  cmd,        \* the command a process runs: sync, scan or receive
  mem,        \* the wallet in memory: revealed, known, checkpoint, lookahead,
              \* and whether a change of revealed is staged for the file
  scan,       \* a full scan of Esplora: the next address it asks for, how many
              \* in a row had no history, the blocks there were when it began
  shown,      \* addresses that were printed or paid
  repeated,   \* ghost: addresses that were shown twice
  due,        \* ghost: blocks that pay what the file says is the wallet's: those
              \* before the restore, and to an address revealed when it was mined
  stale,      \* ghost: invocations that loaded an older revealed index
  raced,      \* ghost: a stale invocation has written its wallet over the file
  faults

disk == <<done, revealed, known, checkpoint>>
fixed == <<backend, restoredAt, given>>
ghosts == <<due, stale, raced>>
vars == <<chain, fixed, disk, pc, cmd, mem, scan, shown, repeated, ghosts, faults>>

Addresses == 1 .. MaxAddress
Commands == {"sync", "scan", "receive"}
Steps == {"idle", "loaded", "plain", "full", "applied", "appliedFull", "mark",
          "synced", "revealed", "show"}
Wallets == [revealed : 0 .. MaxAddress, known : SUBSET (1 .. MaxBlocks),
            checkpoint : 0 .. MaxBlocks, lookahead : Nat, staged : BOOLEAN]
Scans == [next : Nat, unused : Nat, start : 0 .. MaxBlocks]

NoWallet == [revealed |-> 0, known |-> {}, checkpoint |-> 0, lookahead |-> 0,
             staged |-> FALSE]
NoScan == [next |-> 1, unused |-> 0, start |-> 0]

WalletTypeOK ==
  /\ backend \in Backends
  /\ chain \in Seq(Addresses) /\ Len(chain) <= MaxBlocks
  /\ restoredAt \in 0 .. MaxRestored
  /\ given \in 0 .. MaxGiven
  /\ done \in BOOLEAN
  /\ revealed \in 0 .. MaxAddress
  /\ known \in SUBSET (1 .. MaxBlocks)
  /\ checkpoint \in 0 .. MaxBlocks
  /\ pc \in [Procs -> Steps]
  /\ cmd \in [Procs -> Commands]
  /\ mem \in [Procs -> Wallets]
  /\ scan \in [Procs -> Scans]
  /\ shown \in SUBSET Addresses
  /\ repeated \in SUBSET Addresses
  /\ due \in SUBSET (1 .. MaxBlocks)
  /\ stale \in SUBSET Procs
  /\ raced \in BOOLEAN
  /\ faults \in 0 .. MaxFaults

-----------------------------------------------------------------------------
(* Payments and what a backend finds of them.                              *)

Paid(c) == {c[h] : h \in DOMAIN c}

\* Every payment is at most GapLimit addresses beyond an earlier one.
InOrder(c) ==
  \A h \in DOMAIN c :
    c[h] <= GapLimit \/ \E g \in 1 .. h - 1 : c[h] <= c[g] + GapLimit

\* The histories a restore is meant for: of a wallet whose addresses were paid
\* without a gap, and for Bitcoin Core also in an order without one.
Restorable(c) ==
  \/ AnyHistory
  \/ /\ Paid(c) = Reachable(Paid(c))
     /\ backend = "core" => InOrder(c)

PaymentsTo(c, A) == {h \in DOMAIN c : c[h] \in A}

-----------------------------------------------------------------------------

Init ==
  /\ backend \in Backends
  /\ chain \in {c \in UNION {[1 .. n -> 1 .. MaxGiven] : n \in 0 .. MaxRestored} :
                  Restorable(c)}
  /\ restoredAt = Len(chain)
  /\ given \in {n \in 0 .. MaxGiven : Paid(chain) \subseteq 1 .. n}
  /\ done = FALSE
  /\ revealed = 0
  /\ known = {}
  /\ checkpoint = 0
  /\ pc = [p \in Procs |-> "idle"]
  /\ cmd = [p \in Procs |-> "sync"]
  /\ mem = [p \in Procs |-> NoWallet]
  /\ scan = [p \in Procs |-> NoScan]
  /\ shown = {}
  /\ repeated = {}
  /\ due = DOMAIN chain
  /\ stale = {}
  /\ raced = FALSE
  /\ faults = 0

Goto(p, step) == pc' = [pc EXCEPT ![p] = step]

\* The process is gone and its wallet with it.
Exit(p) ==
  /\ Goto(p, "idle")
  /\ mem' = [mem EXCEPT ![p] = NoWallet]
  /\ scan' = [scan EXCEPT ![p] = NoScan]
  /\ cmd' = [cmd EXCEPT ![p] = "sync"]
  /\ stale' = stale \ {p}
  /\ UNCHANGED <<due, raced>>

\* Mutant: the recovery cache is never used.
AlwaysDefault(completed) == DefaultLookahead

\* lookahead_for_scan_state
Lookahead(completed) == IF completed THEN DefaultLookahead ELSE GapLimit

\* (Bound: an invocation while another runs counts as a fault.)
Load(p, c) ==
  /\ pc[p] = "idle"
  /\ LET others == \E q \in Procs \ {p} : pc[q] # "idle"
     IN  /\ others => faults < MaxFaults
         /\ faults' = IF others THEN faults + 1 ELSE faults
  /\ cmd' = [cmd EXCEPT ![p] = c]
  /\ mem' = [mem EXCEPT ![p] = [revealed |-> revealed, known |-> known,
                                checkpoint |-> checkpoint,
                                lookahead |-> Lookahead(done), staged |-> FALSE]]
  /\ Goto(p, "loaded")
  /\ UNCHANGED <<chain, fixed, disk, scan, shown, repeated, ghosts>>

\* sync reads the flag, scan does not.
ChooseScan(p) ==
  /\ pc[p] = "loaded"
  /\ \/ /\ cmd[p] = "scan" \/ ~ done
        /\ Goto(p, "full")
        /\ scan' = [scan EXCEPT ![p] = [NoScan EXCEPT !.start = Len(chain)]]
     \/ /\ cmd[p] # "scan" /\ done
        /\ Goto(p, "plain")
        /\ UNCHANGED scan
  /\ UNCHANGED <<chain, fixed, disk, cmd, mem, shown, repeated, ghosts, faults>>

AfterScan(p) == IF pc[p] = "full" THEN "appliedFull" ELSE "applied"

\* The wallet w with the payments of the blocks H, revealed up to address a.
Updated(w, H, a) ==
  [w EXCEPT !.known = @ \cup H,
            !.revealed = IF @ < a THEN a ELSE @,
            !.staged = @ \/ w.revealed < a]

\* Esplora's full scan asks for the addresses upwards, while blocks are mined, and
\* reveals up to the last that has a history.
AskAddress(p) ==
  /\ backend = "esplora"
  /\ pc[p] = "full"
  /\ scan[p].unused < GapLimit
  /\ LET a == scan[p].next
         paying == PaymentsTo(chain, {a})
     IN  /\ mem' = [mem EXCEPT ![p] = Updated(@, paying, IF paying = {} THEN 0 ELSE a)]
         /\ scan' = [scan EXCEPT ![p] =
              [next |-> a + 1, unused |-> IF paying = {} THEN @.unused + 1 ELSE 0,
               start |-> @.start]]
  /\ UNCHANGED <<chain, fixed, disk, pc, cmd, shown, repeated, ghosts, faults>>

\* Mutant: the scan stops after the wallet library's default, not the setting.
StopsAtDefault(p) ==
  /\ backend = "esplora"
  /\ pc[p] = "full"
  /\ scan[p].unused = DefaultLookahead
  /\ mem' = [mem EXCEPT ![p].checkpoint = Len(chain)]
  /\ Goto(p, AfterScan(p))
  /\ UNCHANGED <<chain, fixed, disk, cmd, scan, shown, repeated, ghosts, faults>>

\* GapLimit addresses in a row have none: the scan is over.
EndFullScan(p) ==
  /\ backend = "esplora"
  /\ pc[p] = "full"
  /\ scan[p].unused = GapLimit
  /\ mem' = [mem EXCEPT ![p].checkpoint = Len(chain)]
  /\ Goto(p, AfterScan(p))
  /\ UNCHANGED <<chain, fixed, disk, cmd, scan, shown, repeated, ghosts, faults>>

\* A plain sync on Esplora asks for the revealed addresses only.
EsploraSync(p) ==
  /\ backend = "esplora"
  /\ pc[p] = "plain"
  /\ mem' = [mem EXCEPT
       ![p].known = @ \cup PaymentsTo(chain, 1 .. mem[p].revealed),
       ![p].checkpoint = Len(chain)]
  /\ Goto(p, AfterScan(p))
  /\ UNCHANGED <<chain, fixed, disk, cmd, scan, shown, repeated, ghosts, faults>>

\* Bitcoin Core emits the blocks after the wallet's checkpoint, for a scan as for
\* a sync; the wallet recognises the addresses in its cache.
CoreBlock(p) ==
  /\ backend = "core"
  /\ pc[p] \in {"full", "plain"}
  /\ mem[p].checkpoint < Len(chain)
  /\ LET h == mem[p].checkpoint + 1
         ours == chain[h] <= mem[p].revealed + mem[p].lookahead
     IN  mem' = [mem EXCEPT
           ![p] = [Updated(@, IF ours THEN {h} ELSE {}, IF ours THEN chain[h] ELSE 0)
                     EXCEPT !.checkpoint = h]]
  /\ UNCHANGED <<chain, fixed, disk, pc, cmd, scan, shown, repeated, ghosts, faults>>

\* No block is left; the mempool ends the stream.
CoreEnd(p) ==
  /\ backend = "core"
  /\ pc[p] \in {"full", "plain"}
  /\ mem[p].checkpoint = Len(chain)
  /\ Goto(p, AfterScan(p))
  /\ UNCHANGED <<chain, fixed, disk, cmd, mem, scan, shown, repeated, ghosts, faults>>

\* The wallet's changes go into the file in one transaction: blocks and payments are
\* added, the revealed index is replaced if a change of it is staged.
Save(p) ==
  /\ known' = known \cup mem[p].known
  /\ revealed' = IF mem[p].staged THEN mem[p].revealed ELSE revealed
  /\ checkpoint' = IF checkpoint < mem[p].checkpoint THEN mem[p].checkpoint ELSE checkpoint
  /\ mem' = [mem EXCEPT ![p].staged = FALSE]
  /\ stale' = IF revealed' = revealed THEN stale
              ELSE stale \cup {q \in Procs \ {p} : pc[q] # "idle"}
  /\ raced' = (raced \/ (p \in stale /\ (mem[p].staged \/ backend = "core")))
  /\ UNCHANGED due

\* Mutant: the completion of the scan is recorded before its results.
MarksFirst(p) ==
  \/ /\ pc[p] = "appliedFull"
     /\ done' = TRUE
     /\ Goto(p, "applied")
     /\ UNCHANGED <<chain, fixed, revealed, known, checkpoint, cmd, mem, scan, shown, repeated,
                    ghosts, faults>>
  \/ /\ pc[p] = "applied"
     /\ Save(p)
     /\ Goto(p, "synced")
     /\ UNCHANGED <<chain, fixed, done, cmd, scan, shown, repeated, faults>>

Persist(p) ==
  /\ pc[p] \in {"applied", "appliedFull"}
  /\ Save(p)
  /\ Goto(p, IF pc[p] = "appliedFull" THEN "mark" ELSE "synced")
  /\ scan' = [scan EXCEPT ![p] = NoScan]
  /\ UNCHANGED <<chain, fixed, done, cmd, shown, repeated, faults>>

MarkFullScanCompleted(p) ==
  /\ pc[p] = "mark"
  /\ done' = TRUE
  /\ Goto(p, "synced")
  /\ UNCHANGED <<chain, fixed, revealed, known, checkpoint, cmd, mem, scan, shown, repeated,
                 ghosts, faults>>

\* sync and scan end here: balance, scan, drain.
Finish(p) ==
  /\ pc[p] = "synced"
  /\ cmd[p] # "receive"
  /\ Exit(p)
  /\ UNCHANGED <<chain, fixed, disk, shown, repeated, faults>>

\* receive, withdraw, and the change of send and deposit. (Bound: MaxAddress.)
Reveal(p) ==
  /\ pc[p] = "synced"
  /\ cmd[p] = "receive"
  /\ mem[p].revealed < MaxAddress
  /\ mem' = [mem EXCEPT ![p] = Updated(@, {}, mem[p].revealed + 1)]
  /\ Goto(p, "revealed")
  /\ UNCHANGED <<chain, fixed, disk, cmd, scan, shown, repeated, ghosts, faults>>

\* Bound: the model has no address above MaxAddress.
OutOfAddresses(p) ==
  /\ pc[p] = "synced"
  /\ cmd[p] = "receive"
  /\ mem[p].revealed = MaxAddress
  /\ Exit(p)
  /\ UNCHANGED <<chain, fixed, disk, shown, repeated, faults>>

\* Mutant: the address is shown before the wallet is persisted.
ShowsUnsaved(p) ==
  /\ pc[p] = "revealed"
  /\ Goto(p, "show")
  /\ UNCHANGED <<chain, fixed, disk, cmd, mem, scan, shown, repeated, ghosts, faults>>

PersistReveal(p) ==
  /\ pc[p] = "revealed"
  /\ Save(p)
  /\ Goto(p, "show")
  /\ UNCHANGED <<chain, fixed, done, cmd, scan, shown, repeated, faults>>

Show(p) ==
  /\ pc[p] = "show"
  /\ shown' = shown \cup {mem[p].revealed}
  /\ repeated' = repeated \cup (shown \cap {mem[p].revealed})
  /\ Exit(p)
  /\ UNCHANGED <<chain, fixed, disk, faults>>

\* The backend or the file fails, the aborting panic, or a kill.
Fail(p) ==
  /\ pc[p] # "idle"
  /\ faults < MaxFaults
  /\ faults' = faults + 1
  /\ Exit(p)
  /\ UNCHANGED <<chain, fixed, disk, shown, repeated>>

\* A block pays an address that was shown since the restore or given out before it.
NewBlock(a) ==
  /\ Len(chain) < MaxBlocks
  /\ a \in shown \cup 1 .. given
  /\ chain' = Append(chain, a)
  /\ due' = IF a <= revealed THEN due \cup {Len(chain) + 1} ELSE due
  /\ UNCHANGED <<fixed, disk, pc, cmd, mem, scan, shown, repeated, stale, raced, faults>>

SyncStep(p) ==
  \/ ChooseScan(p)
  \/ AskAddress(p) \/ EndFullScan(p) \/ EsploraSync(p)
  \/ CoreBlock(p) \/ CoreEnd(p)
  \/ Persist(p) \/ MarkFullScanCompleted(p)
  \/ Finish(p)

RevealStep(p) ==
  \/ Reveal(p) \/ OutOfAddresses(p) \/ PersistReveal(p) \/ Show(p)

Next ==
  \/ \E p \in Procs :
       \/ \E c \in Commands : Load(p, c)
       \/ SyncStep(p) \/ RevealStep(p)
       \/ Fail(p)
  \/ \E a \in Addresses : NewBlock(a)

Spec == Init /\ [][Next]_vars

\* A command that runs takes its next step, and the user asks for the balance
\* again and again. (On Esplora a scan may find less than a sync: it stops at a
\* gap of revealed addresses that were not paid.)
FairSpec ==
  /\ Spec
  /\ \A p \in Procs : SF_vars(Load(p, "sync")) /\ WF_vars(SyncStep(p) \/ RevealStep(p))

-----------------------------------------------------------------------------

(***************************************************************************)
(* Once the full scan is recorded as completed, every payment there was    *)
(* when the wallet was restored is on disk, through crashes between the    *)
(* scan, its persistence and the record ("a crash in between leaves us     *)
(* re-scanning", sync): no later command would look for it.                *)
(***************************************************************************)
RestoreComplete == done => 1 .. restoredAt \subseteq known

(***************************************************************************)
(* On Bitcoin Core, where a block is emitted once, the wallet on disk      *)
(* knows every payment up to its checkpoint that was due to it, whichever  *)
(* cache of addresses the command that saw the block was loaded with.  Not *)
(* due is a payment after the restore to an address given out before it    *)
(* that the file has not revealed again: beyond the cache it stays missed. *)
(***************************************************************************)
NothingMissed ==
  backend = "core" => raced \/ \A h \in due : h <= checkpoint => h \in known

(***************************************************************************)
(* An address somebody was given since the restore is revealed on disk, so *)
(* that later syncs, which ask for revealed addresses only, ask for it;    *)
(* and the variables keep their types.                                     *)
(***************************************************************************)
ShownIsRevealed == WalletTypeOK /\ (raced \/ shown \subseteq 1 .. revealed)

(***************************************************************************)
(* No address is shown twice ("prints a new address", receive), by no two  *)
(* invocations, unless one wrote that was stale.                           *)
(***************************************************************************)
AddressesFresh == raced \/ repeated = {}

(***************************************************************************)
(* Every payment before the restore, and every later one to an address     *)
(* that is revealed on disk when it is mined, is found in the end.         *)
(***************************************************************************)
PaymentsFound == \A h \in 1 .. MaxBlocks : h \in due ~> (h \in known \/ raced)

(***************************************************************************)
(* "Performs a full scan of the Bitcoin wallet" (scan): on Esplora, where  *)
(* it asks for one address after another while blocks are mined, it ends   *)
(* with every payment that could be reached within the gap limit when it   *)
(* began.                                                                  *)
(***************************************************************************)
ScanIsFull ==
  \A p \in Procs : backend = "esplora" /\ pc[p] = "appliedFull" =>
    LET seen == SubSeq(chain, 1, scan[p].start)
    IN  PaymentsTo(seen, Reachable(Paid(seen))) \subseteq mem[p].known

(***************************************************************************)
(* "It has no effect [...] when using the Esplora backend" (the setting    *)
(* recovery_lookahead): a scan finds what it would with any other value.   *)
(***************************************************************************)
LookaheadInert ==
  \A p \in Procs : backend = "esplora" /\ pc[p] = "appliedFull" =>
    PaymentsTo(SubSeq(chain, 1, scan[p].start), Addresses) \subseteq mem[p].known
=============================================================================
