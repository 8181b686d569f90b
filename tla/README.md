# Alpen CLI: specification, model checking and proofs

TLA+ modules for the Alpen CLI, a command-line wallet for Bitcoin and the Alpen
rollup (`src/bin/alpen`, `src/crates`). The program is a sequence of short-lived
processes: each command loads settings, unlocks the seed, talks to a Bitcoin
backend, changes a few files and ends. What is hard about it is not inside one
command but between them: what a command that failed half-way has left for the
next one, what two commands at once do to each other's files, and what the
Bitcoin network did in the meantime. That is what the modules describe.

Paths below are relative to the repository. `recovery.rs`, `recover.rs`,
`backend.rs`, `persist.rs` and `lib.rs` without a directory are those of
`src/crates/bitcoin-wallet/src`.

## 1. Inventory

| Component | State it keeps | Operations | Modules |
|---|---|---|---|
| Descriptor database (`recovery.rs`) | sled files: the reclaim counter, one encrypted descriptor per deposit; memory not yet flushed | `open`, `next_reclaim_counter`, `ensure_reclaim_counter_at_least`, `add_desc`, `read_descs`, `remove` | `CounterAllocator`, `DescriptorDb` |
| `alpen deposit` (`cmd/deposit.rs`, `bridge/mod.rs`) | none of its own | sync, fee, reconstruct and reserve a counter, save the descriptor, broadcast | `DepositRecovery` |
| `alpen recover` (`recover.rs`) | none of its own | drain or clean up due descriptors, search the seed's counters, drain, raise the counter | `DepositRecovery` |
| Seed discovery (`recover.rs:297`) | a loop's variables | batched gap-limit search | `GapReach`, `SeedDiscovery` |
| Bitcoin network, bridge operators | blocks, mempool, claims | confirm, drop, claim, accept or refuse | `BitcoinChain` (external) |
| Bitcoin wallet (`lib.rs`, `persist.rs`, `backend.rs`) | SQLite: known payments, revealed addresses, checkpoint, `full_scan_state` | load, sync, scan, persist, reveal | `WalletSync` |
| Seed store (`keystore`, `seed.rs`, `reset`, `change-password`, `backup`) | one credential; data directories | load, create, restore, save, change, delete, wipe | `SeedVault` |
| Settings and profiles (`settings.rs`, `cmd/network.rs`) | root file, profile files, data directories | load, validate, `network use` | `Profiles` |
| Fee rate and amounts (`lib.rs:105`, `transfer.rs:21`, `settings.rs:509`, `withdrawal.rs`) | none | pure functions | `Transfers`, `AlpenAccount` |
| Bitcoin transfers (`transfer.rs`, `cmd/send.rs`, `cmd/drain.rs`) | the coins the wallet knows | sync, fee rate, select coins, broadcast | `Transfers` |
| Alpen wallet (`crates/alpen-wallet`, `cmd/send.rs`, `cmd/drain.rs`, `cmd/withdraw.rs`) | none of its own: one account on a node | send, drain, withdraw | `AlpenAccount` |
| Keys and passwords (`crates/keys`) | none | derive, encrypt, decrypt | encryption in `SeedVault` |
| Argument parsing, links, progress | none | output | not modelled |

How they interact. A command owns no state but its local variables; everything
that survives it is on disk (the database, the SQLite file, the credential, the
configuration) or on the network. `deposit` and `recover` share the database
under sled's exclusive lock, and the database, the seed and the chain together
decide whether a deposit can be taken back: a descriptor finds it directly, the
seed finds it if its counter is within a gap limit of the others. The wallet's
SQLite file is shared without a lock: payments are added to it, but the index of the last
revealed address is replaced by that of whoever persists (`REPLACE` in the wallet library).
`reset` removes what all of the others wrote. The settings decide which directory, network and gap limit they use.

What makes it hard, with lines, is the list `hazards` of `PROJECT.json`: crashes
between an update and its flush, counters burned by failing commands, a tip or a
cache of addresses that is stale when it is used, a mempool that drops what was
sent, a lagging backend, loss of the database, interrupted resets, power losses
while the configuration is replaced, an account whose balance, nonce and gas price move
between the requests of one command, and pairs of commands that run at once.

What each component must do to be correct:

- database: what a call returned survives every crash; the counter never goes
  back; no counter is returned twice;
- deposit and recover: no deposit is out of reach of both the descriptors and
  the seed; no counter is used for two outstanding requests; a descriptor stays
  as long as its deposit is owed; a deposit is drained once and in the end;
- discovery: it finds exactly the counters reachable without a gap, and ends;
- wallet: nothing is recorded as scanned that is not on disk; no payment that is due is
  missed for good; an address that is shown is new and will be asked for;
- seed: no seed in use is lost, data goes after its seed, a reset can be
  completed, commands work on files of their own seed;
- profiles: the configuration is whole, the user's edits stay, what `network use`
  accepts can be loaded, networks are never mixed;
- Alpen account: an undisturbed drain leaves nothing but what arrived, a reported
  transaction stands, a withdrawal pays an address the wallet will find again;
- transfers: a payment that was reported stands, a drain leaves nothing, no coin is
  spent that is gone, the wallet forgets nothing that stands, the coins of every view add up.

## 2. Modules and how they correspond to the code

**`CounterAllocator`**: the abstract promise of `next_reclaim_counter`: a
sequence of counters that increases strictly.

**`DescriptorDb`**: the database as the code drives it. `diskCounter` and
`diskDescs` are the files, `counter` and `descs` the holder's memory; `Open` takes
sled's lock, `NextReclaimCounter` and its siblings change memory,
`FlushReturns` is the return of `flush_async`, `BackgroundFlush` sled's timer,
`Release` the end of the process (memory that was not flushed is gone). It
implements `CounterAllocator` (`handed` maps to `issued`).

**`GapReach`**: which numbers a search of a gap limit can reach: a counter is
reached if between it and the previous used one fewer than a gap limit of
numbers are unused. Shared by the counters of deposits and the addresses of the
wallet.

**`SeedDiscovery`**: `discover_seed_candidates`: one backend scan per batch of
the gap limit, one action per candidate that is classified, the count of
consecutive unused candidates running across batches, `checked_add` at the end
of the width. A scan is not one moment: an Esplora server is asked script by script
(`EsploraScan`, `EsploraAnswers`), Bitcoin Core for its blocks and then for its mempool
(`CoreBlocks`, `CoreMempool`), while transactions appear (`Appears`) and are mined
(`Mined`). What is mined between the two halves of a scan of Core is in neither; these
counters are `slipped`, and the property says that nothing else is missed. Keys are
derived for 31 bits only (`HasReclaimKey`): a batch beyond them aborts (`ScanPanics`).

**`BitcoinChain`**: external. For every counter the life of the output of a
request with it: `none`, `mempool`, `confirmed`, `pending` (its reclaim is in the
mempool), `reclaimed`, `claimed`. The mempool may drop requests and reclaims.

**`DepositRecovery`**: both commands over the database and the chain, one
action per step at which another process, the network or a failure can come in
between. `tip` is the height a process synced to, `todo` the due descriptors
not handled yet, `candidates` and `highest` the result of the search, `drained` is
`drained_recovery_scripts`. `Fail` ends a process at any step. Building a
transaction is abstracted to success or failure, a wallet to its counter.
A search for the seed's counters takes many requests and blocks come meanwhile. `BeginSearch` starts one
and `ReconstructCounter` or `SearchSeed` ends it: it returns `Reachable(shown)`, where `shown` is what
its scans show as used. That is what was used when it began, which `SeedDiscovery` is shown to find, but
for a request that is dropped meanwhile and, on Bitcoin Core (`TwoPartScan`), one that is mined between
the two halves of its scan (`Slip`). Each of these counts as a fault, as it widens the gap to the
others. `missed` are the counters that slipped through the search which replaced a lost counter: until
a run of `recover` has found them and raised the counter (`CounterRaised`), the program hands them out
again, and `NoReuse` excepts them by name.
`read_descs` does not return a descriptor at the very height it is due (`WithinRange`: its
upper bound is the height alone and every key is longer), so one is drained a block later.
`BridgeKeyChanges` gives the network another bridge key: the scripts of a search are
made with the key of today, and the deposits under the one before (`former`) are out of its
sight, as `recover.rs:376` says.

**`WalletSync`**: `BitcoinWallet` over the SQLite file on Esplora or on Bitcoin
Core. `mem` is the wallet in a process's memory with the cache of addresses it
was loaded with; `Persist` and `PersistReveal` write it into the file (`Save`), `MarkFullScanCompleted`
writes the flag. `CoreBlock` is one emitted block, `EsploraSync` the answer to a plain sync; a full scan of
Esplora asks for one address after another (`AskAddress`) until a gap limit of them has no history
(`EndFullScan`), while blocks are mined. `Reveal`, `PersistReveal`, `Show` are the three moments of an address.
`Save` adds payments and blocks, but replaces the revealed index if a change of it is `staged`. So an
invocation that loaded an older index (`stale`) takes the file's back when it persists one; `raced` records
that this has happened, and the properties about addresses hold until then. Blocks pay addresses shown since
the restore and addresses `given` out before it. `due` are the payments the program can be held to: those
before the restore, and those to an address that the file has revealed when they are mined. One to an
earlier address that is not revealed again yet is not asked for on Esplora (`lib.rs:799`) and is recognised
on Core within the default cache only (`lib.rs:767`).

**`SeedVault`**: the credential, the files of every profile and the commands
that create, unlock, change and delete them. Encryption is what it does: an
entry opens with its password only. Nothing locks the credential: an
invocation works with what it read (`entry`, `seed`), and `overtaken` says that
another one has changed the store since. `LoadEntry` and `Discard` are two steps: a
credential that is no seed may be replaced by one before it is deleted. `removed` collects the
seeds that a confirmed reset or an overtaken invocation took out of the store.

**`Profiles`**: the root file (flat or a selector), the profiles' files, and
`network use`: validate, read and replace, write and sync a temporary file,
rename. Of a file's settings the model keeps the network and which groups of the
others are mistaken, because `load` checks more of them (`Checked`) than
`network use` does (`Validated`). A command reads the selector, then the profile's file, then
opens the data (`LoadSelector`, `LoadProfile`, `OpenWallet`, `SaveDescriptor`), each
a step of its own. `durable` is the set of contents a power loss may leave. `data` records
which networks' data every file has received; `authored` what the user wrote in the
root file apart from the selector, `slipped` whether a save fell into a replacement,
`vouched` the profiles `network use` accepted.

**`Transfers`**: `send`, `drain` and the payment of `deposit`. `stored` is what the wallet file
takes for standing, `job[p].view` what a process loaded and then synced. Syncing differs
by backend. An Esplora server is asked for every transaction the wallet expects, so
one that was dropped is noticed (`EsploraSync`). Bitcoin Core is read in two steps, blocks
(`ReadBlocks`) and then the mempool (`ReadMempool`): what is mined in between is in neither, and `missed`
names it. Nothing is expected of its mempool (`NO_EXPECTED_MEMPOOL_TXS`), so what is known stands until
another transaction conflicts (`CoreView`). `Apply` puts what was read into the wallet and persists it.
`GetFeeRate` is the set of rates a command may go on with; `Payment`, `BuildTransfer`,
`BuildDrain` and `BuildDepositRequest` are the transactions it may build, over any
selection of coins that is large enough. The network (`Accepts`, `Replaced`, `Confirm`,
`DropFromMempool`) is external. `overtaken` records for a process whether the network's
transactions changed since its sync.

**`AlpenAccount`**: `send`, `drain` and `withdraw` on the one account of the seed. Every request to
the node is a step: `ReadBalance`, `ReadGasPrice`, `EstimateGas`, `Fill` (nonce and price),
`Submit`. `job[p]` is what a command has read and decided; for a drain `overtaken` is whether another
transaction of the account came with or after its first read. The node is external:
`PendingNonces`, `Accepts` and `Replaced` are its pool, `Arrive` and `PriceMoves` what moves
meanwhile; a call may use less gas than was estimated, a transaction may revert or be
dropped. `withdraw` first reveals an address of the Bitcoin wallet and writes it to disk
(`RevealAddress`), or takes the one the user gives, and then may still be refused for its amount.
`receive`, and `recover` for every deposit it takes back, reveal addresses of the same keychain (`Receive`). Each
of them writes the count it holds over the one on disk (`Reveal`), so one that loaded the wallet earlier may
lower it; `high` is the highest the count ever was. `outrun` is whether a transaction came after a command
got its nonce.

**`MC*`**: instances for TLC. **`*Proofs`**: theorems.

Properties are at the end of each module; the definitions marked `Mutant` next
to an action are faulty variants of it, used to confirm that the properties
notice such a fault.

## 3. Runs

| Run | Question | Instance |
|---|---|---|
| `discovery` | is the search exact but for what Bitcoin Core mines in the middle of a scan, does it end | either backend, any use of 5 counters, gap 2, keys to 7, width 9 |
| `deposit` | can every deposit be taken back, is no counter reused but what a search of Bitcoin Core missed, is it drained once | 3 counters, gap 2, 3 blocks, 1 fault, 1 loss of the database, 1 change of the bridge key, lagging backend, scans in two halves |
| `concurrent` | two commands at once, stale tips: is what the database returned on disk whatever crashes, does it implement the allocator, does a descriptor outlive its deposit | 2 processes, 2 counters, 3 blocks, 1 fault |
| `reclaimed` | is every confirmed deposit taken back in the end | 2 counters, 4 blocks, 1 fault, 1 loss |
| `wallet` | is every due payment found, is nothing recorded too early, is a scan full, what do two invocations do to each other's addresses | either backend, 2 invocations, 2 addresses of which any may be given out before, 2 blocks, gap 2, default cache 1, 1 fault |
| `seed_vault` | is no seed lost, can a reset be completed | 2 invocations at once, 2 seeds, 2 passwords, 2 profiles, 2 faults |
| `profiles` | is the configuration whole, do edits survive, does what is accepted load, are networks apart | 2 processes, 3 networks, a mistake that `network use` sees and one it does not, 1 edit, any number of power losses |
| `transfers` | does what was sent stand, does a drain leave nothing, does the wallet know what stands, do the coins of every view add up | 2 processes, either backend, 2 coins, 2 transactions, 2 fee rates, 1 drop |
| `alpen` | does a drain leave nothing, does what was sent stand, is every payout within reach | 2 commands, balance 6, gap 3, 2 gas prices, 2 transactions, 1 arrival, 1 `receive`, 1 failure |

A run's type invariant is a conjunct of one of its properties (`SearchInv`, `AccountInv`,
`ConfigWhole`, `OwnWallet`, `ShownIsRevealed`, `DbInv`).

Runs that show a statement of the code base which the code does not keep:

| Run | Statement | What happens |
|---|---|---|
| `matured` | recover "recovers deposits whose reclaim path has matured" (`recover.rs:73`) | `recover_at` counts from the tip at the time of the deposit, not from its block: a deposit that confirmed late is drained too early, the backend refuses and the run ends |
| `removes_claimed` | cleanup removes an "already-claimed descriptor" (`recover.rs:68`) | also one whose request or reclaim is still in the mempool |
| `lookahead_inert` | `recovery_lookahead` has no effect on Esplora (`settings.rs:176`) | it is the stop gap of the full scan |

More can be seen by changing a line or two:

- `MaxFaults = 2` in `MCDeposit.cfg` without `NothingStranded` (which fails first): as many failed deposits as the gap limit, then
  the loss of the database, and the counter of an outstanding deposit is handed
  out again (`NoReuse`), against `keys/src/lib.rs:166`, "`counter` must never be reused
  for a live deposit request".
- `ScanIsFull` without its condition on the backend and `AnyHistory = TRUE` in `MCWallet.cfg`:
  on Bitcoin Core
  `alpen scan` resumes at the wallet's checkpoint (`lib.rs:751`, "the emitter resumes
  from the agreed tip"), so a payment that was missed stays missed, although the
  command "performs a full scan" (`cmd/scan.rs:6`).
- `AddressesFresh` without `raced`: two invocations of `receive` at once print the same address.
  `ShownIsRevealed` without it: the one that loaded the wallet first persists last, and the
  address of the other is no longer revealed.
- `NothingMissed` with `DOMAIN chain` for `due`: a payment after the restore to an address given
  out before it, beyond the default cache, is missed for good, although the full scan is done.
- `DrainTakesAll` without its condition on the backend: on Bitcoin Core a payment that the
  mempool dropped counts as standing for ever, and a drain that reports "Drained Bitcoin
  wallet" (`cmd/drain.rs:126`) leaves its coins. Nor does a scan bring them back.
- `Lagging = TRUE` in `MCTransfers.cfg`: a server that shows blocks before its mempool lets a
  second payment replace the first (`SentStands`) or be refused (`RefusedOnlyIfOvertaken`).
- `TransfersInv` without `missed`: on Bitcoin Core a payment that is mined between the two reads of a
  sync is not in the view of a command that nothing has overtaken. `MoneyConserved` without
  `Whole`: what builds on it is, and its coins are counted a second time until the next sync.
- In `Payment`, which no property is about in this respect: change below the dust limit is added to the
  fee after the rate was compared with the cap, so the rate paid can be above "the highest Bitcoin fee rate [...] that commands will
  pay" (`settings.rs:183`), by less than the dust limit in all.
- `FindsReachable` without `slipped`: on Bitcoin Core a deposit that is mined between the
  last block of a scan and the read of the mempool is in neither (`backend.rs:313`). Its
  counter counts as unused, and `reconstruct_reclaim_counter`, which relies on the search
  when the database is lost, may start below it: `NoReuse` without `missed` in `MCDeposit.cfg` shows the
  counter used again. Reading the mempool first would close this.
- `NothingStranded` and `NoReuse` without `former` in `MCDeposit.cfg`: after a change of the
  bridge key the older deposits are not seen by the search. `recover.rs:376` says that they
  are not found; that their counters are handed out again if the database is lost as well is
  written nowhere.
- `GapLimit = 2` in `MCAlpenAccount.cfg`: withdrawals that failed after they had revealed an
  address and addresses that `receive` revealed, together as many as the gap limit, put the next payout
  out of a restored wallet's reach (`WithdrawalsReachable`). `PayoutsRevealed` without `revealed < high`: a
  command that had loaded the wallet before writes its own count over that of a withdrawal.
- `NoSeedLost` without `removed`: two invocations that both found no seed create one each, and the
  second save overwrites the first (`seed.rs:107`).

### Bounds and why they are enough

- `MaxCounter`, `MaxAddress`, `UsedLimit`: every interesting case is about two
  used numbers and the gap between them, or about the last one; gap limits of two
  and three with up to nine numbers contain runs shorter than, equal to and longer
  than the limit, on both sides of a batch border.
- `MaxHeight`: delays of one block make a deposit due, mature and past cleanup
  within three to five blocks, each also one block early and one late.
- `MaxFaults`: in `deposit` it is below the gap limit, which is the condition of
  the property, and a sharp one (see above). `ConfirmBy`, `ConfirmWindow` and
  `ReclaimsStay` are assumptions about the network and are named in the
  configurations that need them: `concurrent` assumes that a request is in a block
  or dropped before its descriptor is cleaned up and that the mempool keeps
  reclaims. Without them `removes_claimed` shows what happens.
- `MaxFaults`, `MaxDbLosses`, `MaxEdits`, `MaxBlocks` bound what the environment
  does. One fault reaches every pair of a half-done command and the one after it.
- `transfers`: two accepted transactions are a payment and one that conflicts with it or
  builds on it; a third may still be built and refused. Coins of 6, payments of 3 and
  rates of 1 and 2 give change, dust that becomes a fee, and fees above the amount.
- `alpen`: two commands and two transactions hold every pair of a command and one that
  overtakes it; a balance of 6 pays for one of them at either gas price. One failure and one `receive` are
  the most that a gap limit of 3 allows.
- `wallet`: a command that starts beside another counts as the fault, so one fault is either a failure
  at any step or one overlap of any two commands at any steps.
- `seed_vault`: a fault is a failure or a command started while another runs, so two
  faults hold every interleaving of two invocations, and a failure in one of them.
- `profiles`, `transfers` and `alpen` use the symmetry of their two processes (safety properties only).

### Fairness

A process that runs takes its next step (weak fairness of the steps): nothing
in the program waits for another one but the database's lock, and that makes a
command fail, not wait. The user is assumed to ask again: `reclaimed` lets
`recover` start, and its fee request succeed, if they can infinitely often;
`WalletSync` lets the balance be asked for again and again; `SeedVault` lets a
confirmed reset be started again until one ends. Nothing is assumed of failures, of
the mempool or of the bridge; blocks arrive up to the bound. Without the user
coming back no liveness holds in a program that is not running, and the
properties say what the program adds: that coming back is enough.

## 4. Proofs

**`DescriptorDbProofs`** (for any sets of processes and descriptors, and any bound on counters):
`DbTypeCorrect`, `DbInvariance`, `CountersDurable`, `DescriptorsDurable`, `NoRollback`,
`AllocatorImplemented`. `HandedIsDurable` is not inductive: a process that has just
raised the counter in memory is about to return it. `DbInv` adds that memory is
never behind the disk (`MemoryAhead`), that saved entries are in memory
(`SavedInMemory`), that nothing is in progress while nobody has the files open
(`ClosedIsIdle`) and that a counter whose flush is awaited is above all that were handed
out (`NextIsFresh`). One step of the proof per action; crashes are `Release`,
where the disk part of the invariant alone must carry. Refinement and absence of
rollback follow from the same invariant.

**`SeedDiscoveryProofs`** (for any gap limit and any finite use of counters):
`SearchInvariance` proves the loop's invariant: what was examined so far is
classified as `Reachable` says, and the count of unused candidates is the distance
to the last discovered one. `DiscoveryIsExact` concludes that the search ends with
exactly the reachable counters of the set it saw, all of those used before it
began included; `QuietDiscoveryIsExact` is the case of a chain at rest. What the search is
compared with is not taken on trust: `ReachableStopsAtGap` shows that `Reachable`, which is
defined by the previous used counter, is the used counters below which no run of unused ones
is as wide as the limit, and `ReachableIsLargest` that it is the largest set without one.
`SearchIsFinite` is the part of `Terminates` that needs no fairness: `StepsLeft`, which counts the
scan's answers, and the candidates and batches up to a gap limit above the last counter that can be
used, is a number, every step of the search lowers it and nothing on the chain raises it. `SearchGoesOn`
adds that the search is stuck nowhere before its end.

**`TransfersProofs`** (for any processes, coins, amounts, rates and caps). On a backend that
shows its mempool (`Lagging = FALSE`): `ViewsStayCurrent`, `ReportedPaymentsStand`,
`DrainsTakeAll`, `RefusalsAreExplained`. That nothing is replaced is a fact about
one step, and holds because of what the process learned two steps before:
`TransfersInv` carries it (while nothing has overtaken a process, its view contains what stands,
and then its transaction shares no coin with it), together with the closure of the
network's transactions under what they build on, without which a conflict-free
transaction could still evict others. On Bitcoin Core the view contains what stands but for `missed`.

On any backend, lagging ones included: `MoneyIsConserved` (`MoneyConserved`), `TransfersTyped`
(`TransfersTypeOK`) and `StandingPaymentsStayKnown` (`StandingStaysKnown`). In the network's view, in the wallet file's and in that of
every command, the worth of the unspent coins and what the standing transactions paid, fees included,
add up to what the wallet began with, if the view has what its transactions build on. It holds of every such
set of transactions in which no two spend one coin, and so it is enough that `Apply`,
`CoreView`, `EsploraView` and `Replaced` keep views without conflicts; the mutant that
never gives up what was replaced breaks it. It is why a selection of coins, and with it an amount or a fee,
is never above what the wallet owned, which `TransfersTypeOK` says. That nothing which stands is
forgotten rests on the order of the transactions: one that stands is the last of those that spend its coins,
so no view that has it gives it up. The worth of coins is a fold over
a set. The library's induction theorems have an operator as a parameter and cannot be used; the lemmas
about sums (`SetsByInduction` and those after it) are proved by a counterexample of least cardinality
instead, over a *set* of those for which the claim holds.

**`DepositRecoveryProofs`** (for any number of invocations, deposits, faults, blocks and changes
of the bridge key, any delays and gap limit): `UseInvariance`, that only the holder of the
lock is past the point where it is taken and that the database's own invariant holds, also when
the database is lost; `CommandsTyped` (`TypeOK`).

While the database is not lost (`MaxDbLosses = 0`): `CommandsUseDatabase` (the commands implement
`DescriptorDb`, and through it `CounterAllocator`), `CountersAreFresh` (`NoReuse`),
`DescriptorsOutlive` (`DescriptorKept`), and what follows from the first: `CommandsAllocate`
(`ImplementsAllocator`) and `CommandsKeepCounter` (`CounterNeverRollsBack`). The argument: every counter that was used or described
is at most the one on disk (`Covered`), because the counter is flushed before it is used
and the lock is held until the request is out; so the next is new (`Reserves`), no two
descriptors are of one counter (`OneEach`), nothing is drained by a second descriptor
(`RunInv`), and a descriptor that cleanup removes describes a request that was
dropped or is spent (`KeptInv`). The last needs the two assumptions of the run `concurrent`:
`ConfirmWindow` is at most the age of cleanup, and the mempool keeps reclaims. `DrainsOnce`
(`DrainedOnce`) holds through losses as well: what is said of descriptors starts anew with the database.
So do `DatabaseKept` (`DbInv`) and `OnlyLossLowersCounter`: nothing but the loss takes the counter back.

Of the commands' progress, what needs no fairness: `HolderGoesOn` and `CommandsAreFinite`. The process
that holds the database can always take a step: where it awaits a flush one was asked for (and only
there), a counter that was reconstructed is there to be incremented, a due descriptor that is not
handled is still there to be removed, and while descriptors or candidates are left one of them is next
(`LoopInv`, `RunInv`). `StepsLeft(p)`, the steps of the text after `pc[p]` and one for each descriptor and
candidate that is left, falls with every step of `p` and is changed by nobody else's, because only the
holder of the lock has descriptors to handle. So no command runs or keeps the others out for ever; what
`EventuallyReclaimed` adds is that the user comes back and that blocks arrive.

Through any number of losses, with fewer faults than the gap limit (`MaxFaults < GapLimit`):
`DepositsAreFound` (`NothingStranded`) and `LostCountersAreFresh` (`NoReuse`). `SeedInv` counts
the unused counters below a used one, or below one that may be handed out next (`Spans`): each
has cost a fault, but for the one a process is just about to use. So no gap is as wide as the
limit (`UsedIsReachable`). `ShownInv` says the same of what a search is being shown: it lacks at most what cost
a fault each. So the highest counter the search finds is above all that are used but those in `missed`
(`HighestSpans`), and the counter reconstructed from it is as good as the lost one but for these.
`Raised`: a run of `recover` that comes to save its counter has one at least as high as what it found, so
what it found of `missed` is below the counter again. On Esplora nothing is ever missed. A change of
the bridge key leaves nothing in use and is counted as that many faults at once.

**`WalletSyncProofs`** (for any number of invocations, addresses and blocks, any gap limit and cache,
either backend): `WalletInvariance`, `ShownAddressesAreKept`, `ScansAreFull`, `RestoresAreComplete`,
`CoreMissesNothing`, `AddressesAreNew`. `DiskInv` says what the file holds, `MemInv`
what an invocation has in memory at each step: what a scan has found is in memory
until it is persisted, and only then recorded. In the middle of a scan of Esplora (`Scanned`) what was
asked for so far is known, and the run of empty addresses at its end is below the gap limit; so when
it is as long, nothing that was reachable when the scan began is beyond it. What is said of a restored history is
proved for those a restore is meant for (`~ AnyHistory`: no gap beyond the limit, on Bitcoin
Core in an order without one), whoever writes the file. What is said of addresses that are shown, and of later
payments on Core, is proved until a stale invocation has written (`raced`): as long as none has, an invocation
that is not stale holds in memory the index of the file or the next one.

**`SeedVaultProofs`** (for any number of invocations, seeds, passwords and profiles):
`VaultInvariance`, `CommandsOwnTheirWallet`, `SeedsAreKept`, `DataGoesLast`, `ResetLeavesNothing`,
`SeedsAreHeld`. An invocation that nothing
overtook knows what the store holds (`CurrentInv`): from that follows that it writes over no
seed but its own, and that what a reset wipes is not in use. `ResetLeavesNothing` is the part of `ResetCleans`
that needs no fairness: a reset that ends has left no data which the store cannot open. `SeedsAreHeld` is
stronger than `NoSeedLost` in that it does not count on backups, and extends to every file: whatever a
seed was used for belongs to one that is stored, or that `removed` accounts for.

**`ProfilesProofs`** (for any processes, edits and mistakes): `RootFileWhole`, `UserEditsSurvive`,
`AcceptedProfilesLoad`, `BitcoinApart`, `ProfilesOwnDirectory`. A command that runs in a profile's
directory runs with the profile's network (`SettingsMatch`), whatever was edited since; the
names tell the networks apart in the flat layout (`Separate`); a replacement
under way holds the rest of the root file as it is (`TempKeepsRest`).

**`AlpenAccountProofs`** (for any commands, amounts and prices): `AccountTyped`,
`AccountInvariance`, `DrainRefusalsExplained`, `DrainsAreExact`, `ReportsStand`, `PayoutsAreRevealed`,
`WithdrawalsArePayable`. While
nothing has overtaken a drain the pool is as it read it and the balance has grown by
what arrived only; so the value it computed and the gas it reserved are the balance
it read, to the wei, until the transaction is executed. A nonce that no transaction has `outrun` is free in
the pool, whichever kind of command holds it: so nothing reported is replaced (`ReportsStand`). With
`MaxFaults + MaxReceived < GapLimit`, `WithdrawalsAreReachable`: every address below the highest that was
ever revealed, and that no withdrawal pays, has cost a failure or was revealed by `receive` (`Lost`
has at most so many members), so the gap below a paid one is within the limit; a count that is written over makes
commands reveal the same addresses again and leaves no new one out.
`WithdrawalsArePayable`: on the way from an amount in satoshi to a transaction in wei, through prompts and
failures, the check of `validate_withdrawal_amount` is lost nowhere.

The assumptions are those named in the modules (`NoProcAssumption`,
`ParametersAssumption`, `BoundsAssumption` and so on); every one is evaluated by a run. The
hypotheses above are `ASSUME`s of single theorems.

Every invariant and every action property that a run checks is also stated by a theorem.
Only model-checked is liveness under fairness (`Terminates`, `EventuallyReclaimed`,
`PaymentsFound`, `ResetCleans`), which is out of the prover's reach; of the first, the second and the
last, the parts without fairness are proved as said above. `CommandsUseDatabase` and the theorems from
it need that the database is not lost, because a loss is no step of the database.

## 5. Not modelled, and why

- Chain reorganisations: the code has no handling of its own, the wallet library
  follows them; the deposit logic would need `confirmedAt` to move back.
- In `WalletSync` the mempool and the second keychain, which the code treats like the first;
  in `Transfers` coins that wait for their confirmation from others, addresses, and
  transactions others rebroadcast. A request dropped from the mempool does not come back.
- A plain sync of the wallet on Esplora sees one state of the chain, although it is several
  requests: they are made inside the wallet library. The order in which a scan asks for addresses in
  parallel is the order of the addresses here.
- A search of the seed that is under way in `DepositRecovery` shows what was used when it began; a request that
  appears while it runs may be found or not (`SeedDiscovery`), but only the command that holds the
  database broadcasts requests, and it is the one that searches.
- Parsing of single settings, transaction construction, key derivation, password
  strength: data without control, abstracted to success or failure or to which
  group of settings is mistaken.
- `alpen network show`, `config`, `debug`, argument parsing, links and progress bars: they
  read and print.

## 6. Plan

1. *(done)* every component that changes state, with its runs; inductive proofs of
   the safety of each.
2. *(done)* proofs of what counts faults: `WithdrawalsReachable`, `NothingStranded`, `NoReuse`.
3. Reorganisations in `BitcoinChain`: a request that returns to the mempool while its descriptor is
   being cleaned up.
4. The mempool in `WalletSync`, which would join it with `Transfers`.
