-------------------------- MODULE WalletSyncProofs --------------------------
(***************************************************************************)
(* Proofs about WalletSync, for any gap limit, default cache and number of *)
(* addresses, blocks and invocations: what a restored wallet is recorded   *)
(* to know it knows, whoever writes the file; a scan of Esplora finds what *)
(* it should, whatever is mined meanwhile; and as long as no stale         *)
(* invocation writes (raced), no address somebody was given is missing on  *)
(* disk or given twice, and on Bitcoin Core no payment is missed.          *)
(***************************************************************************)
EXTENDS WalletSync, SequenceTheorems, TLAPS

USE GapLimitAssumption, BackendsAssumption, BoundsAssumption

\* What there was at the restore.
Hist == [h \in 1 .. restoredAt |-> chain[h]]

\* The restored wallet's payments are in K; are to the first r addresses.
Restored(K) == 1 .. restoredAt \subseteq K
Covered(r) == \A h \in 1 .. restoredAt : chain[h] <= r

\* A wallet with checkpoint k, payments K and r addresses has missed nothing of
\* what there was at the restore; of what was due to it.
SeenRestored(k, K, r) == \A h \in 1 .. k : h <= restoredAt => h \in K /\ chain[h] <= r
SeenDue(k, K) == \A h \in due : h <= k => h \in K

\* A scan of Esplora that saw k blocks found in K what the gap limit reaches.
Scanned(k, K) ==
  LET seen == SubSeq(chain, 1, k)
  IN  PaymentsTo(seen, Reachable(Paid(seen))) \subseteq K

\* While it runs it has found what was paid before it began to the addresses it
\* asked for, and nothing to the last of them that it counts as unused.
Asked(s, K) ==
  /\ s.unused <= GapLimit /\ s.unused < s.next
  /\ \A h \in 1 .. s.start : chain[h] < s.next => h \in K /\ chain[h] < s.next - s.unused

\* What was given out since the restore and what is due is revealed.
DiskInv ==
  /\ restoredAt <= Len(chain) /\ checkpoint <= Len(chain)
  /\ due \subseteq 1 .. Len(chain)
  /\ ~ raced => /\ \A h \in due : h > restoredAt => chain[h] <= revealed
                /\ shown \subseteq 1 .. revealed /\ repeated = {}

\* The record of the full scan is true; on Bitcoin Core nothing was missed.
DiskKnows ==
  /\ Restorable(Hist)
  /\ done => Restored(known) /\ restoredAt <= checkpoint
  /\ backend = "core" =>
       /\ SeenRestored(checkpoint, known, revealed)
       /\ ~ raced => SeenDue(checkpoint, known)

\* An invocation that is not stale knows what is revealed and reveals what nobody
\* has; what it is about to show nobody else shows.
Fresh(p) ==
  /\ pc[p] # "idle" /\ p \notin stale =>
       /\ mem[p].revealed >= revealed
       /\ pc[p] = "revealed" => mem[p].revealed > revealed
  /\ pc[p] = "show" =>
       /\ mem[p].revealed \in 1 .. revealed /\ mem[p].revealed \notin shown
       /\ \A q \in Procs \ {p} : pc[q] = "show" => mem[q].revealed # mem[p].revealed

MemInv(p) ==
  /\ mem[p].checkpoint <= Len(chain) /\ scan[p].start <= Len(chain)
  /\ pc[p] = "revealed" => mem[p].staged
  /\ pc[p] \in {"revealed", "show"} => mem[p].revealed >= 1
  /\ backend = "esplora" /\ pc[p] = "full" => Asked(scan[p], mem[p].known)
  /\ backend = "esplora" /\ pc[p] = "appliedFull" => Scanned(scan[p].start, mem[p].known)
  /\ ~ raced => Fresh(p)

\* The steps that lead to the record of the full scan; on Bitcoin Core the cache
\* is large enough while restored blocks are emitted, and a wallet that does not
\* replace the revealed index leaves one that covers them.
MemKnows(p) ==
  /\ backend = "esplora" /\ pc[p] = "full" => restoredAt <= scan[p].start
  /\ pc[p] = "appliedFull" => Restored(mem[p].known) /\ restoredAt <= mem[p].checkpoint
  /\ pc[p] = "mark" => Restored(known) /\ restoredAt <= checkpoint
  /\ backend = "core" =>
       /\ SeenRestored(mem[p].checkpoint, mem[p].known, mem[p].revealed)
       /\ pc[p] \in {"loaded", "full", "plain"} =>
            mem[p].lookahead = GapLimit \/ restoredAt <= mem[p].checkpoint
       /\ pc[p] \notin {"idle", "loaded", "full", "plain"} => restoredAt <= mem[p].checkpoint
       /\ pc[p] # "idle" /\ ~ mem[p].staged => mem[p].revealed <= revealed \/ Covered(revealed)
       /\ ~ raced /\ pc[p] # "idle" /\ p \notin stale => SeenDue(mem[p].checkpoint, mem[p].known)

IInv ==
  /\ WalletTypeOK /\ DiskInv /\ \A p \in Procs : MemInv(p)
  /\ ~ AnyHistory => DiskKnows /\ \A p \in Procs : MemKnows(p)

-----------------------------------------------------------------------------
(* Facts about the operators. *)

(* What is appended to the chain changes nothing of what it holds. *)
LEMMA ChainGrows ==
  ASSUME NEW c \in Seq(Addresses), NEW a \in Addresses
  PROVE  /\ Append(c, a) \in Seq(Addresses)
         /\ Len(Append(c, a)) = Len(c) + 1
         /\ Append(c, a)[Len(c) + 1] = a
         /\ \A h \in 1 .. Len(c) : Append(c, a)[h] = c[h] /\ c[h] \in Addresses
BY AppendProperties, ElementOfSeq

(* What the types give. *)
LEMMA TypeFacts ==
  ASSUME NEW p \in Procs, WalletTypeOK
  PROVE  /\ revealed \in 0 .. MaxAddress /\ checkpoint \in 0 .. MaxBlocks
         /\ known \in SUBSET (1 .. MaxBlocks) /\ restoredAt \in 0 .. MaxRestored
         /\ mem[p] \in Wallets /\ scan[p] \in Scans
         /\ mem[p].revealed \in 0 .. MaxAddress /\ mem[p].checkpoint \in 0 .. MaxBlocks
         /\ mem[p].known \in SUBSET (1 .. MaxBlocks) /\ mem[p].lookahead \in Nat
         /\ mem[p].staged \in BOOLEAN
         /\ scan[p].next \in Nat /\ scan[p].unused \in Nat /\ scan[p].start \in 0 .. MaxBlocks
         /\ Len(chain) \in 0 .. MaxBlocks /\ DOMAIN chain = 1 .. Len(chain)
         /\ \A h \in 1 .. Len(chain) : chain[h] \in 1 .. MaxAddress
<1>1. mem[p] \in Wallets /\ scan[p] \in Scans
  BY DEF WalletTypeOK
<1>2. /\ mem[p].revealed \in 0 .. MaxAddress /\ mem[p].checkpoint \in 0 .. MaxBlocks
      /\ mem[p].known \in SUBSET (1 .. MaxBlocks) /\ mem[p].lookahead \in Nat
      /\ mem[p].staged \in BOOLEAN
  BY <1>1 DEF Wallets
<1>3. scan[p].next \in Nat /\ scan[p].unused \in Nat /\ scan[p].start \in 0 .. MaxBlocks
  BY <1>1 DEF Scans
<1>4. Len(chain) \in Nat /\ DOMAIN chain = 1 .. Len(chain)
  BY LenProperties DEF WalletTypeOK
<1>5. \A h \in 1 .. Len(chain) : chain[h] \in 1 .. MaxAddress
  BY ElementOfSeq DEF WalletTypeOK, Addresses
<1>6. /\ revealed \in 0 .. MaxAddress /\ checkpoint \in 0 .. MaxBlocks
      /\ known \in SUBSET (1 .. MaxBlocks)
      /\ restoredAt \in 0 .. MaxRestored /\ Len(chain) <= MaxBlocks
  BY DEF WalletTypeOK
<1> QED
  BY <1>1, <1>2, <1>3, <1>4, <1>5, <1>6

(* The same of the invariant, with the numbers as such.                    *)
LEMMA Facts ==
  ASSUME NEW p \in Procs, IInv
  PROVE  /\ WalletTypeOK /\ DiskInv /\ MemInv(p)
         /\ revealed \in 0 .. MaxAddress /\ checkpoint \in 0 .. MaxBlocks
         /\ known \in SUBSET (1 .. MaxBlocks) /\ restoredAt \in 0 .. MaxRestored
         /\ mem[p] \in Wallets /\ scan[p] \in Scans
         /\ mem[p].revealed \in 0 .. MaxAddress /\ mem[p].checkpoint \in 0 .. MaxBlocks
         /\ mem[p].known \in SUBSET (1 .. MaxBlocks) /\ mem[p].lookahead \in Nat
         /\ mem[p].staged \in BOOLEAN
         /\ scan[p].next \in Nat /\ scan[p].unused \in Nat /\ scan[p].start \in 0 .. MaxBlocks
         /\ Len(chain) \in 0 .. MaxBlocks /\ DOMAIN chain = 1 .. Len(chain)
         /\ \A h \in 1 .. Len(chain) : chain[h] \in 1 .. MaxAddress
         /\ {revealed, checkpoint, restoredAt, mem[p].revealed, mem[p].checkpoint,
             scan[p].start, Len(chain)} \subseteq Nat
<1>1. WalletTypeOK /\ DiskInv /\ MemInv(p)
  BY DEF IInv
<1>2. /\ revealed \in 0 .. MaxAddress /\ checkpoint \in 0 .. MaxBlocks
      /\ restoredAt \in 0 .. MaxRestored /\ Len(chain) \in 0 .. MaxBlocks
      /\ mem[p].revealed \in 0 .. MaxAddress /\ mem[p].checkpoint \in 0 .. MaxBlocks
      /\ scan[p].start \in 0 .. MaxBlocks
  BY <1>1, TypeFacts
<1>3. {revealed, checkpoint, restoredAt, mem[p].revealed, mem[p].checkpoint,
       scan[p].start, Len(chain)} \subseteq Nat
  BY <1>2
<1> QED
  BY <1>1, <1>3, TypeFacts

(* What Updated does to a wallet. *)
LEMMA UpdatedFacts ==
  ASSUME NEW w \in Wallets, NEW H \in SUBSET (1 .. MaxBlocks), NEW a \in 0 .. MaxAddress
  PROVE  /\ Updated(w, H, a) \in Wallets
         /\ Updated(w, H, a).known = w.known \cup H
         /\ Updated(w, H, a).revealed = IF w.revealed < a THEN a ELSE w.revealed
         /\ Updated(w, H, a).checkpoint = w.checkpoint
         /\ Updated(w, H, a).lookahead = w.lookahead
         /\ Updated(w, H, a).staged = (w.staged \/ w.revealed < a)
<1>1. (IF w.revealed < a THEN a ELSE w.revealed) \in 0 .. MaxAddress
  BY DEF Wallets
<1>2. (w.staged \/ w.revealed < a) \in BOOLEAN
  OBVIOUS
<1>3. Updated(w, H, a) =
        [revealed |-> IF w.revealed < a THEN a ELSE w.revealed, known |-> w.known \cup H,
         checkpoint |-> w.checkpoint, lookahead |-> w.lookahead,
         staged |-> (w.staged \/ w.revealed < a)]
  <2> DEFINE r == IF w.revealed < a THEN a ELSE w.revealed
             b == (w.staged \/ w.revealed < a)
  <2>1. w = [revealed |-> w.revealed, known |-> w.known, checkpoint |-> w.checkpoint,
             lookahead |-> w.lookahead, staged |-> w.staged]
    BY DEF Wallets
  <2>2. Updated(w, H, a) = [w EXCEPT !.known = w.known \cup H, !.revealed = r, !.staged = b]
    BY DEF Updated, Wallets
  <2> HIDE DEF r, b
  <2>3. Updated(w, H, a) = [revealed |-> r, known |-> w.known \cup H,
          checkpoint |-> w.checkpoint, lookahead |-> w.lookahead, staged |-> b]
    BY <2>1, <2>2
  <2> QED
    BY <2>3 DEF r, b
<1>4. w.known \cup H \in SUBSET (1 .. MaxBlocks)
  BY DEF Wallets
<1> DEFINE r == IF w.revealed < a THEN a ELSE w.revealed
           b == (w.staged \/ w.revealed < a)
<1>5. w.checkpoint \in 0 .. MaxBlocks /\ w.lookahead \in Nat
  BY DEF Wallets
<1>6. r \in 0 .. MaxAddress /\ b \in BOOLEAN
  BY <1>1, <1>2
<1>7. Updated(w, H, a) =
        [revealed |-> r, known |-> w.known \cup H,
         checkpoint |-> w.checkpoint, lookahead |-> w.lookahead, staged |-> b]
  BY <1>3
<1>8. Updated(w, H, a).revealed = r /\ Updated(w, H, a).staged = b
  <2> HIDE DEF r, b
  <2> QED
    BY <1>7
<1>9. /\ Updated(w, H, a) \in Wallets
      /\ Updated(w, H, a).known = w.known \cup H
      /\ Updated(w, H, a).checkpoint = w.checkpoint
      /\ Updated(w, H, a).lookahead = w.lookahead
  <2> HIDE DEF r, b
  <2> QED
    BY <1>4, <1>5, <1>6, <1>7 DEF Wallets
<1> QED
  BY <1>8, <1>9

-----------------------------------------------------------------------------
(* The initial states, and what the steps have in common. *)

LEMMA InitInv == Init => IInv
<1> SUFFICES ASSUME Init PROVE IInv
  OBVIOUS
<1>1. PICK n \in 0 .. MaxRestored : chain \in [1 .. n -> 1 .. MaxGiven]
  BY DEF Init
<1>2. chain \in Seq(Addresses) /\ Len(chain) = n /\ restoredAt = n
  <2>1. 1 .. MaxGiven \subseteq Addresses
    BY DEF Addresses
  <2>2. chain \in [1 .. n -> Addresses]
    BY <1>1, <2>1
  <2> QED
    BY <1>1, <2>2 DEF Init
<1>3. Hist = chain
  BY <1>1, <1>2 DEF Hist
<1>4. WalletTypeOK
  <2>1. NoWallet \in Wallets /\ NoScan \in Scans
    BY DEF NoWallet, Wallets, NoScan, Scans
  <2>2. restoredAt \in 0 .. MaxRestored /\ Len(chain) <= MaxBlocks
    BY <1>2
  <2>3. /\ pc \in [Procs -> Steps] /\ cmd \in [Procs -> Commands]
        /\ mem \in [Procs -> Wallets] /\ scan \in [Procs -> Scans]
    BY <2>1 DEF Init, Steps, Commands
  <2>4. /\ revealed \in 0 .. MaxAddress /\ checkpoint \in 0 .. MaxBlocks
        /\ faults \in 0 .. MaxFaults
    BY DEF Init
  <2>5. due \in SUBSET (1 .. MaxBlocks) /\ stale \in SUBSET Procs /\ raced \in BOOLEAN
    <3>1. due = 1 .. n
      BY <1>1 DEF Init
    <3>2. n \in Nat /\ n <= MaxBlocks
      OBVIOUS
    <3>3. \A h \in 1 .. n : h \in 1 .. MaxBlocks
      BY <3>2
    <3>4. stale = {} /\ raced = FALSE
      BY DEF Init
    <3> QED
      BY <3>1, <3>3, <3>4
  <2> QED
    BY <1>2, <2>2, <2>3, <2>4, <2>5 DEF Init, WalletTypeOK
<1>5. DiskInv /\ \A p \in Procs : MemInv(p)
  <2>1. due = 1 .. n
    BY <1>1 DEF Init
  <2>2. DiskInv
    BY <1>2, <2>1 DEF Init, DiskInv
  <2> QED
    BY <1>2, <2>2 DEF Init, MemInv, Fresh, NoWallet, NoScan
<1>6. DiskKnows /\ \A p \in Procs : MemKnows(p)
  <2>1. due = 1 .. n
    BY <1>1 DEF Init
  <2> QED
    BY <1>2, <1>3, <2>1 DEF Init, DiskKnows, MemKnows, NoWallet, SeenRestored, SeenDue
<1> QED
  BY <1>4, <1>5, <1>6 DEF IInv

(* A step in one invocation's memory. *)
LEMMA MemoryStep ==
  ASSUME NEW p \in Procs, IInv,
         UNCHANGED <<chain, fixed, disk, shown, repeated, due, raced>>,
         WalletTypeOK', MemInv(p)', ~ AnyHistory => MemKnows(p)',
         pc'[p] # "show", stale' \in {stale, stale \ {p}},
         \A q \in Procs \ {p} : pc'[q] = pc[q] /\ mem'[q] = mem[q] /\ scan'[q] = scan[q]
  PROVE  IInv'
<1>1. DiskInv'
  BY DEF IInv, DiskInv, disk, fixed
<1>2. ~ AnyHistory => DiskKnows'
  BY DEF IInv, DiskKnows, disk, fixed, Hist, Restorable, InOrder, Restored, SeenRestored, SeenDue
<1>3. ASSUME NEW q \in Procs PROVE MemInv(q)'
  <2>1. CASE q # p
    <3>1. MemInv(q)
      BY DEF IInv
    <3>2. (~ raced => Fresh(q))'
      BY <2>1, <3>1 DEF MemInv, Fresh, disk
    <3> QED
      BY <2>1, <3>1, <3>2 DEF MemInv, disk, fixed, Scanned, Asked
  <2> QED
    BY <2>1
<1>4. ASSUME NEW q \in Procs, ~ AnyHistory PROVE MemKnows(q)'
  <2>1. CASE q # p
    <3>1. MemKnows(q)
      BY <1>4 DEF IInv
    <3> QED
      BY <2>1, <3>1 DEF MemKnows, disk, fixed, Restored, SeenRestored, SeenDue, Covered
  <2> QED
    BY <1>4, <2>1
<1> QED
  BY <1>1, <1>2, <1>3, <1>4 DEF IInv

(* The file takes in what the wallet in memory has. *)
LEMMA SaveStep ==
  ASSUME NEW p \in Procs, IInv, Save(p),
         UNCHANGED <<chain, fixed, done, shown, repeated>>,
         WalletTypeOK',
         \/ pc[p] = "applied" /\ pc'[p] = "synced"
         \/ pc[p] = "appliedFull" /\ pc'[p] = "mark"
         \/ pc[p] = "revealed" /\ pc'[p] = "show",
         scan'[p].start <= Len(chain),
         \A q \in Procs \ {p} : pc'[q] = pc[q] /\ scan'[q] = scan[q]
  PROVE  IInv'
<1>0. /\ revealed \in Nat /\ checkpoint \in Nat /\ restoredAt \in Nat
      /\ mem[p].revealed \in Nat /\ mem[p].checkpoint \in Nat /\ Len(chain) \in Nat
      /\ mem[p].staged \in BOOLEAN
      /\ \A h \in 1 .. Len(chain) : chain[h] \in Nat
  BY Facts
<1>1. /\ known' = known \cup mem[p].known
      /\ revealed' = IF mem[p].staged THEN mem[p].revealed ELSE revealed
      /\ checkpoint' = IF checkpoint < mem[p].checkpoint THEN mem[p].checkpoint ELSE checkpoint
      /\ raced' = (raced \/ (p \in stale /\ (mem[p].staged \/ backend = "core")))
      /\ due' = due
  BY DEF Save
<1>2. /\ mem'[p].revealed = mem[p].revealed /\ mem'[p].known = mem[p].known
      /\ mem'[p].checkpoint = mem[p].checkpoint /\ mem'[p].lookahead = mem[p].lookahead
      /\ ~ mem'[p].staged
      /\ \A q \in Procs \ {p} : mem'[q] = mem[q]
  <2>1. mem \in [Procs -> Wallets] /\ mem[p] \in Wallets
    BY DEF IInv, WalletTypeOK
  <2> QED
    BY <2>1 DEF Save, Wallets
<1>3. /\ stale' = IF revealed' = revealed THEN stale
                  ELSE stale \cup {q \in Procs \ {p} : pc[q] # "idle"}
      /\ pc[p] # "idle"
  BY DEF Save
<1> HIDE DEF Save
<1>4. ASSUME ~ raced'
      PROVE  /\ ~ raced /\ revealed <= revealed'
             /\ mem[p].staged \/ backend = "core" => p \notin stale
             /\ pc[p] = "revealed" => revealed' = mem[p].revealed /\ revealed < revealed'
             /\ p \notin stale => revealed' <= mem[p].revealed
  <2>1. ~ raced /\ Fresh(p) /\ (mem[p].staged \/ backend = "core" => p \notin stale)
    BY <1>1, <1>4 DEF IInv, MemInv
  <2>2. pc[p] = "revealed" => mem[p].staged
    BY DEF IInv, MemInv
  <2> QED
    BY <1>0, <1>1, <1>3, <2>1, <2>2 DEF Fresh
<1>5. DiskInv'
  <2>1. (restoredAt <= Len(chain) /\ checkpoint <= Len(chain) /\ due \subseteq 1 .. Len(chain))'
    BY <1>0, <1>1 DEF IInv, DiskInv, MemInv, fixed
  <2>2. ASSUME ~ raced'
        PROVE  /\ \A h \in due : h > restoredAt => chain[h] <= revealed'
               /\ shown \subseteq 1 .. revealed' /\ repeated = {}
    <3>1. /\ \A h \in due : h > restoredAt => chain[h] <= revealed
          /\ shown \subseteq 1 .. revealed /\ repeated = {}
          /\ due \subseteq 1 .. Len(chain)
      BY <1>4, <2>2 DEF IInv, DiskInv
    <3>2. revealed' \in Nat /\ revealed <= revealed'
      BY <1>0, <1>1, <1>4, <2>2
    <3> QED
      BY <1>0, <3>1, <3>2
  <2> QED
    BY <1>1, <2>1, <2>2 DEF DiskInv, fixed
<1>6. ASSUME ~ AnyHistory PROVE DiskKnows' /\ MemKnows(p) /\ (backend = "core" => Covered(revealed'))
  <2>0. DiskKnows /\ MemKnows(p) /\ restoredAt <= Len(chain)
    BY <1>6 DEF IInv, DiskInv
  <2>1. Restorable(Hist)'
    BY <2>0 DEF DiskKnows, fixed, Hist, Restorable, InOrder
  <2>2. (done => Restored(known) /\ restoredAt <= checkpoint)'
    BY <1>0, <1>1, <2>0 DEF DiskKnows, fixed, Restored
  <2>3. ASSUME backend = "core" PROVE Covered(revealed')
    <3>1. /\ SeenRestored(mem[p].checkpoint, mem[p].known, mem[p].revealed)
          /\ restoredAt <= mem[p].checkpoint
          /\ ~ mem[p].staged => mem[p].revealed <= revealed \/ Covered(revealed)
      BY <1>3, <2>0, <2>3 DEF MemKnows
    <3>2. Covered(mem[p].revealed)
      BY <1>0, <3>1 DEF SeenRestored, Covered
    <3>3. CASE mem[p].staged
      BY <1>1, <3>2, <3>3
    <3>4. CASE ~ mem[p].staged
      <4>1. revealed' = revealed
        BY <1>1, <3>4
      <4>2. restoredAt <= Len(chain)
        BY <2>0
      <4>3. \A h \in 1 .. restoredAt : chain[h] \in Nat
        <5>1. \A h \in 1 .. restoredAt : h \in 1 .. Len(chain)
          BY <1>0, <4>2
        <5> QED
          BY <1>0, <5>1
      <4>4. CASE mem[p].revealed <= revealed
        BY <1>0, <3>2, <4>1, <4>3, <4>4 DEF Covered
      <4> QED
        BY <3>1, <3>4, <4>1, <4>4
    <3> QED
      BY <3>3, <3>4
  <2>4. ASSUME backend = "core" PROVE SeenRestored(checkpoint, known, revealed)'
    <3>1. SeenRestored(mem[p].checkpoint, mem[p].known, mem[p].revealed) /\ restoredAt <= mem[p].checkpoint
      BY <1>3, <2>0, <2>4 DEF MemKnows
    <3>2. Covered(revealed')
      BY <2>3, <2>4
    <3> QED
      BY <1>0, <1>1, <3>1, <3>2 DEF SeenRestored, Covered, fixed
  <2>5. ASSUME backend = "core", ~ raced' PROVE SeenDue(checkpoint, known)'
    <3>1. SeenDue(checkpoint, known) /\ SeenDue(mem[p].checkpoint, mem[p].known)
      BY <1>3, <1>4, <2>0, <2>5 DEF DiskKnows, MemKnows
    <3> QED
      BY <1>0, <1>1, <3>1 DEF SeenDue
  <2> QED
    BY <2>0, <2>1, <2>2, <2>3, <2>4, <2>5 DEF DiskKnows, fixed
<1>7. ASSUME NEW q \in Procs PROVE MemInv(q)'
  <2>0. MemInv(q)
    BY DEF IInv
  <2>1. CASE q = p
    <3>1. ASSUME ~ raced' PROVE Fresh(p)'
      <4>1. Fresh(p) /\ shown \subseteq 1 .. revealed /\ p \in stale' => p \in stale
        BY <1>3, <1>4, <3>1 DEF IInv, MemInv, DiskInv
      <4>2. ASSUME pc'[p] = "show"
            PROVE  /\ mem[p].revealed \in 1 .. revealed' /\ mem[p].revealed \notin shown
                   /\ \A r \in Procs \ {p} : pc[r] = "show" => mem[r].revealed # mem[p].revealed
        <5>1. revealed' = mem[p].revealed /\ revealed < revealed'
          BY <1>4, <3>1, <4>2
        <5>2. \A r \in Procs : pc[r] = "show" => mem[r].revealed \in 1 .. revealed
          BY <1>4, <3>1 DEF IInv, MemInv, Fresh
        <5>3. shown \subseteq 1 .. revealed
          BY <1>4, <3>1 DEF IInv, DiskInv
        <5>4. \A n : n \in 1 .. revealed => n # mem[p].revealed
          BY <1>0, <5>1
        <5> QED
          BY <1>0, <5>1, <5>2, <5>3, <5>4
      <4>3. p \notin stale' => mem[p].revealed >= revealed'
        BY <1>0, <1>1, <1>3, <1>4, <3>1
      <4>4. pc'[p] # "revealed"
        OBVIOUS
      <4> QED
        BY <1>2, <4>2, <4>3, <4>4 DEF Fresh
    <3> QED
      BY <1>1, <1>2, <2>0, <2>1, <3>1 DEF MemInv, fixed
  <2>2. CASE q # p
    <3>1. mem'[q] = mem[q] /\ pc'[q] = pc[q] /\ scan'[q] = scan[q]
      BY <1>2, <2>2
    <3>2. ASSUME ~ raced' PROVE Fresh(q)'
      <4>1. Fresh(q) /\ mem[q].revealed \in Nat
        BY <1>4, <2>0, <3>2, Facts DEF MemInv
      <4>2. pc[q] # "idle" /\ q \notin stale' => q \notin stale /\ revealed' = revealed
        BY <1>3, <2>2
      <4>3. pc[q] = "show" =>
              /\ mem[q].revealed \in 1 .. revealed' /\ mem[q].revealed \notin shown
              /\ pc'[p] = "show" => mem[p].revealed # mem[q].revealed
        BY <1>0, <1>1, <1>4, <3>2, <4>1 DEF Fresh
      <4>4. \A r \in Procs \ {q, p} : mem'[r] = mem[r] /\ pc'[r] = pc[r]
        BY <1>2
      <4> QED
        BY <1>2, <2>2, <3>1, <4>1, <4>2, <4>3, <4>4 DEF Fresh
    <3> QED
      BY <2>0, <3>1, <3>2 DEF MemInv, fixed, Scanned, Asked
  <2> QED
    BY <2>1, <2>2
<1>8. ASSUME NEW q \in Procs, ~ AnyHistory PROVE MemKnows(q)'
  <2>1. MemKnows(q) /\ MemKnows(p) /\ DiskInv
    BY <1>8 DEF IInv
  <2>2. (pc[q] = "appliedFull" => Restored(mem[q].known) /\ restoredAt <= mem[q].checkpoint)'
    BY <1>2, <2>1 DEF MemKnows, fixed, Restored
  <2>3. (pc[q] = "mark" => Restored(known) /\ restoredAt <= checkpoint)'
    BY <1>0, <1>1, <2>1 DEF MemKnows, fixed, Restored
  <2>4. (backend = "core" => SeenRestored(mem[q].checkpoint, mem[q].known, mem[q].revealed))'
    BY <1>2, <2>1 DEF MemKnows, fixed, SeenRestored
  <2>5. (backend = "core" => (pc[q] \in {"loaded", "full", "plain"} =>
           mem[q].lookahead = GapLimit \/ restoredAt <= mem[q].checkpoint))'
    BY <1>2, <2>1 DEF MemKnows, fixed
  <2>6. (backend = "core" => (pc[q] \notin {"idle", "loaded", "full", "plain"} =>
           restoredAt <= mem[q].checkpoint))'
    BY <1>2, <2>1 DEF MemKnows, fixed
  <2>7. (backend = "core" => (pc[q] # "idle" /\ ~ mem[q].staged =>
           mem[q].revealed <= revealed \/ Covered(revealed)))'
    BY <1>6, <1>8 DEF Covered, fixed
  <2>8. (backend = "core" /\ ~ raced /\ pc[q] # "idle" /\ q \notin stale =>
           SeenDue(mem[q].checkpoint, mem[q].known))'
    <3>1. ~ raced' => ~ raced
      BY <1>4
    <3>2. q \notin stale' => q \notin stale
      BY <1>3
    <3>3. pc'[q] # "idle" => pc[q] # "idle"
      BY <1>3
    <3> QED
      BY <1>1, <1>2, <2>1, <3>1, <3>2, <3>3 DEF MemKnows, fixed, SeenDue
  <2>9. (backend = "esplora" /\ pc[q] = "full" => restoredAt <= scan[q].start)'
    BY <2>1 DEF MemKnows, fixed
  <2> QED
    BY <2>2, <2>3, <2>4, <2>5, <2>6, <2>7, <2>8, <2>9 DEF MemKnows
<1> QED
  BY <1>5, <1>6, <1>7, <1>8 DEF IInv

-----------------------------------------------------------------------------
(* The actions. *)

LEMMA LoadInv ==
  ASSUME NEW p \in Procs, NEW c \in Commands, IInv, Load(p, c)
  PROVE  IInv'
<1> DEFINE w == [revealed |-> revealed, known |-> known, checkpoint |-> checkpoint,
                 lookahead |-> Lookahead(done), staged |-> FALSE]
<1>1. /\ mem' = [mem EXCEPT ![p] = w] /\ pc' = [pc EXCEPT ![p] = "loaded"]
      /\ UNCHANGED <<chain, fixed, disk, scan, shown, repeated, ghosts>>
      /\ cmd' = [cmd EXCEPT ![p] = c] /\ faults' \in 0 .. MaxFaults
  BY DEF Load, Goto, IInv, WalletTypeOK
<1>2. w \in Wallets
  BY DEF IInv, WalletTypeOK, Wallets, Lookahead
<1>3. mem'[p] = w /\ pc'[p] = "loaded"
  BY <1>1 DEF IInv, WalletTypeOK
<1>4. WalletTypeOK'
  BY <1>1, <1>2 DEF IInv, WalletTypeOK, Steps, fixed, disk, ghosts
<1>5. MemInv(p)'
  <2>1. scan[p].start <= Len(chain) /\ checkpoint <= Len(chain) /\ revealed \in Nat
    BY Facts DEF MemInv, DiskInv
  <2> QED
    BY <1>1, <1>3, <2>1 DEF MemInv, Fresh, fixed, disk, ghosts
<1>6. ASSUME ~ AnyHistory PROVE MemKnows(p)'
  <2>1. DiskKnows /\ revealed \in Nat
    BY <1>6, Facts DEF IInv
  <2> QED
    BY <1>1, <1>3, <2>1 DEF DiskKnows, MemKnows, fixed, disk, ghosts, Lookahead,
       SeenRestored, SeenDue
<1>7. \A q \in Procs \ {p} : pc'[q] = pc[q] /\ mem'[q] = mem[q] /\ scan'[q] = scan[q]
  BY <1>1 DEF IInv, WalletTypeOK
<1> QED
  BY <1>1, <1>3, <1>4, <1>5, <1>6, <1>7, MemoryStep DEF ghosts

(* An invocation goes on with the same wallet. *)
LEMMA ChooseScanInv ==
  ASSUME NEW p \in Procs, IInv, ChooseScan(p)
  PROVE  IInv'
<1>0. [NoScan EXCEPT !.start = Len(chain)] = [next |-> 1, unused |-> 0, start |-> Len(chain)]
  BY DEF NoScan
<1>1. /\ pc[p] = "loaded" /\ pc'[p] \in {"full", "plain"}
      /\ pc' \in [Procs -> Steps] /\ \A q \in Procs \ {p} : pc'[q] = pc[q]
      /\ UNCHANGED <<chain, fixed, disk, cmd, mem, shown, repeated, ghosts, faults>>
  BY DEF ChooseScan, Goto, IInv, WalletTypeOK, Steps
<1>2. /\ \/ scan' = scan /\ pc'[p] # "full"
         \/ scan' = [scan EXCEPT ![p] = [next |-> 1, unused |-> 0, start |-> Len(chain)]]
  BY <1>0 DEF ChooseScan, Goto, IInv, WalletTypeOK
<1>3. /\ scan' \in [Procs -> Scans] /\ \A q \in Procs \ {p} : scan'[q] = scan[q]
      /\ scan'[p].start <= Len(chain)
      /\ pc'[p] = "full" => scan'[p].start = Len(chain) /\ scan'[p].next = 1 /\ scan'[p].unused = 0
  <2>1. scan \in [Procs -> Scans] /\ Len(chain) \in 0 .. MaxBlocks /\ scan[p].start <= Len(chain)
    BY Facts DEF WalletTypeOK, MemInv
  <2>2. [next |-> 1, unused |-> 0, start |-> Len(chain)] \in Scans
    BY <2>1 DEF Scans
  <2> QED
    BY <1>2, <2>1, <2>2
<1>4. WalletTypeOK'
  BY <1>1, <1>3 DEF IInv, WalletTypeOK, fixed, disk, ghosts
<1>5. MemInv(p)'
  <2>1. \A h \in 1 .. Len(chain) : ~ chain[h] < 1
    BY Facts
  <2> QED
    BY <1>1, <1>3, <2>1 DEF IInv, MemInv, Fresh, Asked, fixed, disk, ghosts
<1>6. ASSUME ~ AnyHistory PROVE MemKnows(p)'
  BY <1>1, <1>3, <1>6 DEF IInv, DiskInv, MemKnows, fixed, disk, ghosts, SeenRestored, SeenDue, Covered
<1> QED
  BY <1>1, <1>3, <1>4, <1>5, <1>6, MemoryStep DEF ghosts

LEMMA CoreEndInv ==
  ASSUME NEW p \in Procs, IInv, CoreEnd(p)
  PROVE  IInv'
<1>1. /\ pc[p] \in {"full", "plain"} /\ pc'[p] \in {"applied", "appliedFull"}
      /\ backend = "core" /\ mem[p].checkpoint = Len(chain)
      /\ pc' \in [Procs -> Steps] /\ \A q \in Procs \ {p} : pc'[q] = pc[q]
      /\ UNCHANGED <<chain, fixed, disk, cmd, mem, scan, shown, repeated, ghosts, faults>>
  BY DEF CoreEnd, Goto, AfterScan, IInv, WalletTypeOK, Steps
<1>2. WalletTypeOK'
  BY <1>1 DEF IInv, WalletTypeOK, fixed, disk, ghosts
<1>3. MemInv(p)'
  BY <1>1 DEF IInv, MemInv, Fresh, fixed, disk, ghosts
<1>4. ASSUME ~ AnyHistory PROVE MemKnows(p)'
  <2>1. Restored(mem[p].known) /\ restoredAt <= mem[p].checkpoint
    BY <1>1, <1>4, Facts DEF IInv, DiskInv, MemKnows, SeenRestored, Restored
  <2> QED
    BY <1>1, <1>4, <2>1 DEF IInv, MemKnows, fixed, disk, ghosts, SeenRestored, SeenDue, Restored,
       Covered
<1> QED
  BY <1>1, <1>2, <1>3, <1>4, MemoryStep DEF ghosts

LEMMA ExitInv ==
  ASSUME NEW p \in Procs, IInv, Exit(p), faults' \in 0 .. MaxFaults,
         UNCHANGED <<chain, fixed, disk, shown, repeated>>
  PROVE  IInv'
<1>1. /\ pc'[p] = "idle" /\ mem'[p] = NoWallet /\ scan'[p] = NoScan
      /\ \A q \in Procs \ {p} : pc'[q] = pc[q] /\ mem'[q] = mem[q] /\ scan'[q] = scan[q]
      /\ stale' = stale \ {p} /\ UNCHANGED <<due, raced>>
  BY DEF Exit, Goto, IInv, WalletTypeOK
<1>2. WalletTypeOK'
  <2>1. NoWallet \in Wallets /\ NoScan \in Scans
    BY DEF NoWallet, Wallets, NoScan, Scans
  <2> QED
    BY <2>1 DEF Exit, Goto, IInv, WalletTypeOK, Steps, Commands, fixed, disk
<1>3. MemInv(p)'
  <2>1. 0 <= Len(chain)
    BY Facts
  <2> QED
    BY <1>1, <2>1 DEF MemInv, Fresh, NoWallet, NoScan
<1>4. MemKnows(p)'
  BY <1>1 DEF MemKnows, NoWallet, SeenRestored
<1> QED
  BY <1>1, <1>2, <1>3, <1>4, MemoryStep

LEMMA RevealInv ==
  ASSUME NEW p \in Procs, IInv, Reveal(p)
  PROVE  IInv'
<1> DEFINE w == Updated(mem[p], {}, mem[p].revealed + 1)
<1>0. mem[p] \in Wallets /\ mem[p].revealed \in 0 .. MaxAddress /\ mem[p].staged \in BOOLEAN
  BY Facts
<1>1. /\ pc[p] = "synced" /\ mem' = [mem EXCEPT ![p] = w] /\ pc' = [pc EXCEPT ![p] = "revealed"]
      /\ mem[p].revealed < MaxAddress
      /\ UNCHANGED <<chain, fixed, disk, cmd, scan, shown, repeated, ghosts, faults>>
  BY DEF Reveal, Goto
<1>2. /\ w.revealed = mem[p].revealed + 1 /\ w.known = mem[p].known
      /\ w.checkpoint = mem[p].checkpoint /\ w.staged /\ w \in Wallets
  <2>1. mem[p].revealed + 1 \in 0 .. MaxAddress /\ mem[p].revealed < mem[p].revealed + 1
    BY <1>0, <1>1
  <2> DEFINE a == mem[p].revealed + 1
  <2>2. a \in 0 .. MaxAddress /\ mem[p].revealed < a /\ {} \in SUBSET (1 .. MaxBlocks)
    BY <2>1
  <2> HIDE DEF a
  <2>3. /\ Updated(mem[p], {}, a) \in Wallets /\ Updated(mem[p], {}, a).known = mem[p].known \cup {}
        /\ Updated(mem[p], {}, a).revealed = a /\ Updated(mem[p], {}, a).staged
        /\ Updated(mem[p], {}, a).checkpoint = mem[p].checkpoint
    BY <1>0, <2>2, UpdatedFacts
  <2> QED
    BY <2>3 DEF a
<1> HIDE DEF w
<1>3. /\ mem'[p] = w /\ pc'[p] = "revealed"
      /\ \A q \in Procs \ {p} : pc'[q] = pc[q] /\ mem'[q] = mem[q] /\ scan'[q] = scan[q]
  BY <1>1 DEF IInv, WalletTypeOK
<1>4. WalletTypeOK'
  BY <1>1, <1>2 DEF IInv, WalletTypeOK, Steps, fixed, disk, ghosts
<1>5. MemInv(p)'
  <2>1. MemInv(p) /\ revealed \in Nat
    BY Facts
  <2> QED
    BY <1>0, <1>1, <1>2, <1>3, <2>1 DEF MemInv, Fresh, fixed, disk, ghosts
<1>6. ASSUME ~ AnyHistory PROVE MemKnows(p)'
  <2>1. MemKnows(p)
    BY <1>6 DEF IInv
  <2>2. backend = "core" => SeenRestored(w.checkpoint, w.known, w.revealed)
    <3>1. /\ mem[p].checkpoint <= Len(chain) /\ mem[p].checkpoint \in Nat
          /\ mem[p].revealed \in Nat /\ Len(chain) \in Nat
          /\ \A h \in 1 .. Len(chain) : chain[h] \in Nat
      BY Facts DEF MemInv
    <3> QED
      BY <1>2, <2>1, <3>1 DEF MemKnows, SeenRestored
  <2> QED
    BY <1>1, <1>2, <1>3, <2>1, <2>2 DEF MemKnows, fixed, disk, ghosts, SeenRestored, SeenDue
<1> QED
  BY <1>1, <1>3, <1>4, <1>5, <1>6, MemoryStep DEF ghosts

(* One address more: what was paid to it when the scan began is known after that. *)
LEMMA AskAddressInv ==
  ASSUME NEW p \in Procs, IInv, AskAddress(p)
  PROVE  IInv'
<1> DEFINE a == scan[p].next
           paying == PaymentsTo(chain, {a})
           top == IF paying = {} THEN 0 ELSE a
           w == Updated(mem[p], paying, top)
<1>0. /\ mem[p] \in Wallets /\ mem[p].revealed \in 0 .. MaxAddress /\ scan[p] \in Scans
      /\ a \in Nat /\ scan[p].unused \in Nat /\ scan[p].start \in Nat /\ revealed \in Nat
      /\ mem[p].checkpoint \in Nat /\ DOMAIN chain = 1 .. Len(chain) /\ Len(chain) \in 0 .. MaxBlocks
      /\ \A h \in 1 .. Len(chain) : chain[h] \in 1 .. MaxAddress
  BY Facts
<1>1. /\ pc[p] = "full" /\ backend = "esplora" /\ scan[p].unused < GapLimit
      /\ mem' = [mem EXCEPT ![p] = w]
      /\ scan' = [scan EXCEPT ![p] =
           [next |-> a + 1, unused |-> IF paying = {} THEN scan[p].unused + 1 ELSE 0,
            start |-> scan[p].start]]
      /\ UNCHANGED <<chain, fixed, disk, pc, cmd, shown, repeated, ghosts, faults>>
  BY DEF AskAddress
<1>2. paying \in SUBSET (1 .. MaxBlocks) /\ top \in 0 .. MaxAddress
      /\ \A h \in 1 .. Len(chain) : h \in paying <=> chain[h] = a
  BY <1>0 DEF PaymentsTo
<1>3. /\ w \in Wallets /\ w.known = mem[p].known \cup paying
      /\ w.revealed = IF mem[p].revealed < top THEN top ELSE mem[p].revealed
      /\ w.checkpoint = mem[p].checkpoint
  <2> HIDE DEF paying, top
  <2>1. mem[p] \in Wallets /\ paying \in SUBSET (1 .. MaxBlocks) /\ top \in 0 .. MaxAddress
    BY <1>0, <1>2
  <2>2. /\ Updated(mem[p], paying, top) \in Wallets
        /\ Updated(mem[p], paying, top).known = mem[p].known \cup paying
        /\ Updated(mem[p], paying, top).revealed =
             IF mem[p].revealed < top THEN top ELSE mem[p].revealed
        /\ Updated(mem[p], paying, top).checkpoint = mem[p].checkpoint
    <3> HIDE DEF w
    <3>1. \A v \in Wallets, G \in SUBSET (1 .. MaxBlocks), b \in 0 .. MaxAddress :
            /\ Updated(v, G, b) \in Wallets
            /\ Updated(v, G, b).known = v.known \cup G
            /\ Updated(v, G, b).revealed = IF v.revealed < b THEN b ELSE v.revealed
            /\ Updated(v, G, b).checkpoint = v.checkpoint
      BY UpdatedFacts
    <3> QED
      BY <2>1, <3>1
  <2> QED
    BY <2>2 DEF w
<1>4. /\ scan'[p] \in Scans /\ scan'[p].next = a + 1 /\ scan'[p].start = scan[p].start
      /\ scan'[p].unused = IF paying = {} THEN scan[p].unused + 1 ELSE 0
      /\ scan' \in [Procs -> Scans] /\ \A q \in Procs \ {p} : scan'[q] = scan[q]
  <2>1. scan \in [Procs -> Scans]
    BY DEF IInv, WalletTypeOK
  <2> DEFINE u == IF paying = {} THEN scan[p].unused + 1 ELSE 0
             t == [next |-> a + 1, unused |-> u, start |-> scan[p].start]
  <2>2. u \in Nat /\ a + 1 \in Nat /\ scan[p].start \in 0 .. MaxBlocks
    <3> HIDE DEF paying
    <3>1. scan[p].unused + 1 \in Nat /\ a + 1 \in Nat
      BY <1>0
    <3>2. scan[p].start \in 0 .. MaxBlocks
      BY Facts
    <3> QED
      BY <3>1, <3>2
  <2>5. t \in Scans /\ t.next = a + 1 /\ t.start = scan[p].start /\ t.unused = u
    <3> HIDE DEF u
    <3> QED
      BY <2>2 DEF Scans
  <2> HIDE DEF t
  <2>6. scan' = [scan EXCEPT ![p] = t]
    BY <1>1 DEF t
  <2> QED
    BY <2>1, <2>5, <2>6
<1> HIDE DEF w
<1>5. mem'[p] = w /\ \A q \in Procs \ {p} : mem'[q] = mem[q]
  BY <1>1 DEF IInv, WalletTypeOK
<1>6. WalletTypeOK'
  BY <1>1, <1>3, <1>4 DEF IInv, WalletTypeOK, Steps, fixed, disk, ghosts
<1>7. Asked(scan'[p], w.known)
  <2>1. Asked(scan[p], mem[p].known) /\ scan[p].start <= Len(chain)
    BY <1>1 DEF IInv, MemInv
  <2>2. scan'[p].unused <= GapLimit /\ scan'[p].unused < scan'[p].next
    <3>1. scan[p].unused < a
      BY <2>1 DEF Asked
    <3> HIDE DEF paying, a
    <3> QED
      BY <1>0, <1>1, <1>4, <3>1
  <2>3. ASSUME NEW h \in 1 .. scan[p].start, chain[h] < a + 1
        PROVE  h \in w.known /\ chain[h] < scan'[p].next - scan'[p].unused
    <3>0. h \in 1 .. Len(chain) /\ chain[h] \in Nat
      BY <1>0, <2>1
    <3>1. CASE chain[h] = a
      <4>1. h \in paying
        BY <1>2, <3>0, <3>1
      <4> HIDE DEF paying, a
      <4> QED
        BY <1>0, <1>3, <1>4, <3>1, <4>1
    <3>2. CASE chain[h] # a
      <4>1. h \in mem[p].known /\ chain[h] < a - scan[p].unused /\ chain[h] < a
        BY <1>0, <2>1, <2>3, <3>0, <3>2 DEF Asked
      <4> HIDE DEF paying, a
      <4> QED
        BY <1>0, <1>3, <1>4, <3>0, <4>1
    <3> QED
      BY <3>1, <3>2
  <2> QED
    BY <1>4, <2>2, <2>3 DEF Asked
<1>8. MemInv(p)'
  <2>1. MemInv(p)
    BY DEF IInv
  <2>2. mem[p].revealed <= w.revealed /\ w.revealed \in Nat
    <3> HIDE DEF paying, top
    <3> QED
      BY <1>0, <1>2, <1>3
  <2>3. Asked(scan[p], mem[p].known)'
    BY <1>1, <1>5, <1>7 DEF Asked
  <2>4. (~ raced => Fresh(p))'
    BY <1>0, <1>1, <1>5, <2>1, <2>2 DEF MemInv, Fresh, disk, ghosts
  <2> QED
    BY <1>1, <1>3, <1>4, <1>5, <2>1, <2>3, <2>4 DEF MemInv, fixed
<1>9. ASSUME ~ AnyHistory PROVE MemKnows(p)'
  BY <1>1, <1>4, <1>9 DEF IInv, MemKnows, fixed
<1>10. pc'[p] # "show" /\ \A q \in Procs \ {p} : pc'[q] = pc[q]
  BY <1>1
<1> QED
  BY <1>1, <1>4, <1>5, <1>6, <1>8, <1>9, <1>10, MemoryStep DEF ghosts

(* As many unused addresses as the limit: none beyond them is reachable. *)
LEMMA EndFullScanInv ==
  ASSUME NEW p \in Procs, IInv, EndFullScan(p)
  PROVE  IInv'
<1> DEFINE n == scan[p].start
           seen == SubSeq(chain, 1, n)
<1>0. /\ mem[p] \in Wallets /\ scan[p].next \in Nat /\ scan[p].unused \in Nat
      /\ n \in 0 .. MaxBlocks /\ n <= Len(chain) /\ Len(chain) \in 0 .. MaxBlocks
      /\ mem[p].checkpoint \in Nat /\ chain \in Seq(Addresses)
      /\ \A h \in 1 .. Len(chain) : chain[h] \in 1 .. MaxAddress
  <2>1. WalletTypeOK /\ MemInv(p)
    BY DEF IInv
  <2>2. n <= Len(chain)
    BY <2>1 DEF MemInv
  <2>3. chain \in Seq(Addresses)
    BY <2>1 DEF WalletTypeOK
  <2>4. mem[p].checkpoint \in Nat /\ n \in 0 .. MaxBlocks
    <3>1. mem[p].checkpoint \in 0 .. MaxBlocks
      BY <2>1, TypeFacts
    <3> QED
      BY <2>1, <3>1, TypeFacts
  <2> QED
    BY <2>1, <2>2, <2>3, <2>4, TypeFacts
<1>1. /\ pc[p] = "full" /\ backend = "esplora" /\ scan[p].unused = GapLimit
      /\ mem' = [mem EXCEPT ![p].checkpoint = Len(chain)]
      /\ pc' = [pc EXCEPT ![p] = "appliedFull"]
      /\ UNCHANGED <<chain, fixed, disk, cmd, scan, shown, repeated, ghosts, faults>>
  BY DEF EndFullScan, Goto, AfterScan
<1>2. /\ mem'[p].known = mem[p].known /\ mem'[p].checkpoint = Len(chain)
      /\ mem'[p].revealed = mem[p].revealed /\ mem'[p].staged = mem[p].staged
      /\ mem'[p] \in Wallets /\ pc'[p] = "appliedFull"
      /\ \A q \in Procs \ {p} : mem'[q] = mem[q] /\ pc'[q] = pc[q]
  BY <1>0, <1>1 DEF IInv, WalletTypeOK, Wallets
<1>3. WalletTypeOK'
  BY <1>1, <1>2 DEF IInv, WalletTypeOK, Steps, fixed, disk, ghosts
<1>4. DOMAIN seen = 1 .. n /\ \A h \in 1 .. n : seen[h] = chain[h]
  BY <1>0
<1>5. Asked(scan[p], mem[p].known)
  BY <1>1 DEF IInv, MemInv
<1>6. \A h \in 1 .. n : seen[h] \in Reachable(Paid(seen)) => chain[h] < scan[p].next
  <2> SUFFICES ASSUME NEW h \in 1 .. n, seen[h] \in Reachable(Paid(seen)), chain[h] >= scan[p].next
               PROVE  FALSE
    BY <1>0
  <2>1. chain[h] \in Nat /\ seen[h] = chain[h]
    BY <1>0, <1>4
  <2> DEFINE b == scan[p].next - GapLimit - 1
  <2>2. b \in 0 .. chain[h] - 1
    <3>1. GapLimit < scan[p].next
      BY <1>1, <1>5 DEF Asked
    <3>2. scan[p].next \in Nat /\ chain[h] \in Nat /\ scan[p].next <= chain[h]
      BY <1>0, <2>1
    <3>3. \A m, c \in Nat : GapLimit < m /\ m <= c => m - GapLimit - 1 \in 0 .. c - 1
      OBVIOUS
    <3> QED
      BY <3>1, <3>2, <3>3
  <2>3. PICK u \in Paid(seen) : b < u /\ u <= b + GapLimit
    BY <2>1, <2>2 DEF Reachable
  <2>4. PICK g \in 1 .. n : u = chain[g]
    BY <1>4, <2>3 DEF Paid
  <2>5. chain[g] < scan[p].next /\ chain[g] \in Nat
    <3>1. g \in 1 .. Len(chain)
      BY <1>0, <2>4
    <3>2. chain[g] \in Nat /\ chain[g] <= scan[p].next - GapLimit - 1 + GapLimit
      BY <1>0, <2>3, <2>4, <3>1
    <3> QED
      BY <1>0, <3>2
  <2>6. chain[g] < scan[p].next - GapLimit
    BY <1>1, <1>5, <2>5 DEF Asked
  <2>7. b < chain[g] /\ b = scan[p].next - GapLimit - 1 /\ scan[p].next - GapLimit \in Int
    BY <1>0, <2>3, <2>4
  <2> HIDE DEF b
  <2> QED
    BY <2>5, <2>6, <2>7
<1>7. Scanned(n, mem[p].known)
  <2> SUFFICES ASSUME NEW h \in DOMAIN seen, seen[h] \in Reachable(Paid(seen))
               PROVE  h \in mem[p].known
    BY DEF Scanned, PaymentsTo
  <2>1. h \in 1 .. n /\ chain[h] < scan[p].next
    BY <1>4, <1>6
  <2> QED
    BY <1>5, <2>1 DEF Asked
<1> HIDE DEF seen, n
<1>8. MemInv(p)'
  <2>1. Scanned(scan[p].start, mem[p].known)'
    BY <1>1, <1>2, <1>7 DEF Scanned, n
  <2>2. MemInv(p) /\ Len(chain) <= Len(chain)
    BY <1>0 DEF IInv
  <2>3. (~ raced => Fresh(p))'
    BY <1>1, <1>2, <2>2 DEF MemInv, Fresh, disk, ghosts
  <2> QED
    BY <1>1, <1>2, <2>1, <2>2, <2>3 DEF MemInv, n
<1>9. ASSUME ~ AnyHistory PROVE MemKnows(p)'
  <2>1. Restored(mem[p].known)
    <3> SUFFICES ASSUME NEW h \in 1 .. restoredAt PROVE h \in mem[p].known
      BY DEF Restored
    <3>1. restoredAt <= n /\ restoredAt \in Nat /\ Restorable(Hist)
      BY <1>1, <1>9, Facts DEF IInv, MemKnows, DiskKnows, n
    <3>2. h \in 1 .. n /\ seen[h] = chain[h]
      BY <1>0, <1>4, <3>1
    <3>3. Paid(Hist) = Reachable(Paid(Hist)) /\ chain[h] \in Paid(Hist)
      BY <1>9, <3>1 DEF Restorable, Paid, Hist
    <3>4. Paid(Hist) \subseteq Paid(seen)
      <4>1. \A g \in 1 .. restoredAt : g \in DOMAIN seen /\ seen[g] = chain[g]
        BY <1>0, <1>4, <3>1
      <4> QED
        BY <4>1 DEF Paid, Hist
    <3>5. chain[h] \in Reachable(Paid(seen))
      BY <3>3, <3>4 DEF Reachable
    <3>6. chain[h] < scan[p].next
      BY <1>6, <3>2, <3>5
    <3> QED
      BY <1>5, <3>2, <3>6 DEF Asked, n
  <2>2. restoredAt <= Len(chain)
    BY DEF IInv, DiskInv
  <2> QED
    BY <1>1, <1>2, <2>1, <2>2 DEF MemKnows, fixed, Restored
<1> QED
  BY <1>1, <1>2, <1>3, <1>8, <1>9, MemoryStep DEF ghosts

LEMMA EsploraSyncInv ==
  ASSUME NEW p \in Procs, IInv, EsploraSync(p)
  PROVE  IInv'
<1> DEFINE w == [mem[p] EXCEPT !.known = @ \cup PaymentsTo(chain, 1 .. mem[p].revealed),
                               !.checkpoint = Len(chain)]
<1>1. /\ pc[p] = "plain" /\ backend = "esplora"
      /\ mem' = [mem EXCEPT ![p] = w] /\ pc' = [pc EXCEPT ![p] = "applied"]
      /\ UNCHANGED <<chain, fixed, disk, cmd, scan, shown, repeated, ghosts, faults>>
  BY DEF EsploraSync, Goto, AfterScan
<1>2. /\ w.checkpoint = Len(chain) /\ w.revealed = mem[p].revealed
      /\ w \in Wallets
  <2>1. PaymentsTo(chain, 1 .. mem[p].revealed) \subseteq 1 .. MaxBlocks
    BY Facts DEF PaymentsTo
  <2> QED
    BY <2>1, Facts DEF Wallets
<1> HIDE DEF w
<1>3. /\ mem'[p] = w /\ pc'[p] = "applied"
      /\ \A q \in Procs \ {p} : pc'[q] = pc[q] /\ mem'[q] = mem[q]
  BY <1>1 DEF IInv, WalletTypeOK
<1>4. WalletTypeOK'
  BY <1>1, <1>2 DEF IInv, WalletTypeOK, Steps, fixed, disk, ghosts
<1>5. MemInv(p)'
  <2>1. MemInv(p) /\ Len(chain) <= Len(chain)
    BY Facts
  <2> QED
    BY <1>1, <1>2, <1>3, <2>1 DEF MemInv, Fresh, fixed, disk, ghosts
<1>6. MemKnows(p)'
  BY <1>1, <1>3 DEF MemKnows, fixed
<1> QED
  BY <1>1, <1>3, <1>4, <1>5, <1>6, MemoryStep DEF ghosts

(* A restored block pays an address of the cache. *)
LEMMA CacheSuffices ==
  ASSUME NEW p \in Procs, IInv, ~ AnyHistory, backend = "core",
         pc[p] \in {"full", "plain"}, mem[p].checkpoint + 1 <= restoredAt
  PROVE  chain[mem[p].checkpoint + 1] <= mem[p].revealed + mem[p].lookahead
<1> DEFINE h == mem[p].checkpoint + 1
<1>1. /\ restoredAt <= Len(chain) /\ Len(chain) \in Nat /\ restoredAt \in Nat
      /\ mem[p].checkpoint \in Nat /\ mem[p].revealed \in Nat
      /\ \A g \in 1 .. Len(chain) : chain[g] \in Nat
  BY Facts DEF DiskInv
<1>2. \A g \in 1 .. restoredAt : Hist[g] = chain[g] /\ chain[g] \in Nat
  BY <1>1 DEF Hist
<1>3. /\ SeenRestored(mem[p].checkpoint, mem[p].known, mem[p].revealed)
      /\ mem[p].lookahead = GapLimit
  BY <1>1 DEF IInv, MemKnows
<1>4. h \in 1 .. restoredAt
  BY <1>1
<1>5. Hist[h] <= GapLimit \/ \E g \in 1 .. h - 1 : Hist[h] <= Hist[g] + GapLimit
  <2>1. InOrder(Hist) /\ DOMAIN Hist = 1 .. restoredAt
    BY DEF IInv, DiskKnows, Restorable, Hist
  <2> HIDE DEF h
  <2> QED
    BY <1>4, <2>1 DEF InOrder
<1>6. Hist[h] = chain[h] /\ chain[h] \in Nat
  BY <1>2, <1>4
<1>7. CASE Hist[h] <= GapLimit
  <2> HIDE DEF h
  <2>1. chain[h] <= mem[p].revealed + mem[p].lookahead
    BY <1>1, <1>3, <1>6, <1>7
  <2> QED
    BY <2>1 DEF h
<1>8. ASSUME NEW g \in 1 .. h - 1, Hist[h] <= Hist[g] + GapLimit
      PROVE  chain[h] <= mem[p].revealed + mem[p].lookahead
  <2>1. g \in 1 .. mem[p].checkpoint /\ g \in 1 .. restoredAt /\ g <= restoredAt
    <3>1. g \in Int /\ 1 <= g /\ g <= mem[p].checkpoint
      BY <1>1
    <3>2. mem[p].checkpoint + 1 <= restoredAt
      BY <1>1, <1>4
    <3> HIDE DEF h
    <3> QED
      BY <1>1, <3>1, <3>2
  <2>2. chain[g] <= mem[p].revealed /\ Hist[g] = chain[g] /\ chain[g] \in Nat
    BY <1>2, <1>3, <2>1 DEF SeenRestored
  <2> HIDE DEF h
  <2>3. chain[h] \in Nat /\ chain[h] <= chain[g] + GapLimit /\ GapLimit \in Nat
    BY <1>6, <1>8, <2>2, GapLimitAssumption
  <2>4. mem[p].revealed \in Nat /\ mem[p].lookahead = GapLimit
    BY <1>1, <1>3
  <2>5. \A x, y, m, l \in Nat : x <= y + l /\ y <= m => x <= m + l
    OBVIOUS
  <2> QED
    BY <2>2, <2>3, <2>4, <2>5
<1> QED
  BY <1>5, <1>7, <1>8

LEMMA CoreBlockInv ==
  ASSUME NEW p \in Procs, IInv, CoreBlock(p)
  PROVE  IInv'
<1> DEFINE h == mem[p].checkpoint + 1
           ours == chain[h] <= mem[p].revealed + mem[p].lookahead
           H == IF ours THEN {h} ELSE {}
           a == IF ours THEN chain[h] ELSE 0
           u == Updated(mem[p], H, a)
           w == [u EXCEPT !.checkpoint = h]
<1>1. /\ pc[p] \in {"full", "plain"} /\ backend = "core" /\ mem[p].checkpoint < Len(chain)
      /\ mem' = [mem EXCEPT ![p] = w]
      /\ UNCHANGED <<chain, fixed, disk, pc, cmd, scan, shown, repeated, ghosts, faults>>
  BY DEF CoreBlock
<1>2. /\ mem[p].checkpoint \in Nat /\ mem[p].revealed \in 0 .. MaxAddress
      /\ mem[p].lookahead \in Nat /\ Len(chain) \in 0 .. MaxBlocks
      /\ mem[p].staged \in BOOLEAN /\ mem[p] \in Wallets
      /\ revealed \in Nat /\ restoredAt \in Nat
      /\ \A g \in 1 .. Len(chain) : chain[g] \in 1 .. MaxAddress
  BY Facts
<1>3. h \in 1 .. Len(chain) /\ chain[h] \in 1 .. MaxAddress /\ h \in 1 .. MaxBlocks
  <2> HIDE DEF w
  <2>0. mem[p].checkpoint < Len(chain) /\ mem[p].checkpoint \in Nat
        /\ Len(chain) \in 0 .. MaxBlocks
    BY <1>1, <1>2
  <2>1. h \in 1 .. Len(chain) /\ h \in 1 .. MaxBlocks
    BY <2>0, BoundsAssumption
  <2> HIDE DEF h
  <2> QED
    BY <1>2, <2>1
<1>4. H \in SUBSET (1 .. MaxBlocks) /\ a \in 0 .. MaxAddress
  <2> HIDE DEF h, ours
  <2> QED
    BY <1>3
<1>5. /\ u \in Wallets /\ u.known = mem[p].known \cup H
      /\ u.revealed = IF mem[p].revealed < a THEN a ELSE mem[p].revealed
      /\ u.checkpoint = mem[p].checkpoint /\ u.lookahead = mem[p].lookahead
      /\ u.staged = (mem[p].staged \/ mem[p].revealed < a)
  <2> HIDE DEF H, a
  <2> QED
    BY <1>2, <1>4, UpdatedFacts
<1> HIDE DEF u
<1>6. /\ w \in Wallets /\ w.known = u.known /\ w.revealed = u.revealed /\ w.checkpoint = h
      /\ w.lookahead = u.lookahead /\ w.staged = u.staged
  <2>1. h \in 0 .. MaxBlocks
    BY <1>3
  <2> HIDE DEF h
  <2> QED
    BY <1>5, <2>1 DEF Wallets
<1> HIDE DEF w
<1>7. /\ w.known = mem[p].known \cup H /\ w.lookahead = mem[p].lookahead
      /\ w.revealed \in Nat /\ mem[p].revealed <= w.revealed /\ a <= w.revealed
      /\ ~ w.staged => ~ mem[p].staged /\ w.revealed = mem[p].revealed
  <2> HIDE DEF H, a
  <2>1. mem[p].revealed \in Nat /\ a \in Nat
    BY <1>2, <1>4
  <2>2. w.revealed = IF mem[p].revealed < a THEN a ELSE mem[p].revealed
    BY <1>5, <1>6
  <2>3. w.revealed \in Nat /\ mem[p].revealed <= w.revealed /\ a <= w.revealed
    BY <2>1, <2>2
  <2>4. ~ w.staged => ~ mem[p].staged /\ w.revealed = mem[p].revealed
    BY <1>5, <1>6, <2>2
  <2> QED
    BY <1>5, <1>6, <2>3, <2>4
<1>8. mem'[p] = w /\ \A q \in Procs \ {p} : mem'[q] = mem[q]
  BY <1>1 DEF IInv, WalletTypeOK
<1>9. WalletTypeOK'
  BY <1>1, <1>6 DEF IInv, WalletTypeOK, fixed, disk, ghosts
<1>10. MemInv(p)'
  <2>1. MemInv(p)
    BY DEF IInv
  <2>2. (~ raced => Fresh(p))'
    BY <1>1, <1>2, <1>7, <1>8, <2>1 DEF MemInv, Fresh, disk, ghosts
  <2>3. w.checkpoint <= Len(chain)
    BY <1>3, <1>6
  <2> QED
    BY <1>1, <1>8, <2>1, <2>2, <2>3 DEF MemInv, fixed
<1>11. ASSUME ~ AnyHistory PROVE MemKnows(p)'
  <2>1. MemKnows(p) /\ DiskInv /\ MemInv(p)
    BY <1>11 DEF IInv
  <2>2. h <= restoredAt => ours
    BY <1>1, <1>11, CacheSuffices
  <2>3. ~ raced /\ p \notin stale /\ h \in due => ours
    <3>1. ASSUME ~ raced, p \notin stale, h \in due, h > restoredAt PROVE ours
      <4>1. chain[h] <= revealed
        BY <2>1, <3>1 DEF DiskInv
      <4>2. revealed <= mem[p].revealed
        BY <1>1, <1>2, <2>1, <3>1 DEF MemInv, Fresh
      <4> HIDE DEF h
      <4> QED
        BY <1>2, <1>3, <4>1, <4>2
    <3>2. h <= restoredAt \/ h > restoredAt
      BY <1>2, <1>3
    <3> HIDE DEF ours, h
    <3> QED
      BY <2>2, <3>1, <3>2
  <2>4. SeenRestored(w.checkpoint, w.known, w.revealed)
    <3> SUFFICES ASSUME NEW g \in 1 .. h, g <= restoredAt
                 PROVE  g \in w.known /\ chain[g] <= w.revealed
      BY <1>6 DEF SeenRestored
    <3>1. CASE g = h
      <4>1. ours
        BY <2>2, <3>1
      <4> HIDE DEF ours, h
      <4> QED
        BY <1>7, <3>1, <4>1
    <3>2. CASE g # h
      <4>1. g \in 1 .. mem[p].checkpoint /\ chain[g] \in Nat
        <5>1. g \in 1 .. mem[p].checkpoint /\ g \in 1 .. Len(chain)
          BY <1>1, <1>2, <3>2
        <5> QED
          BY <1>2, <5>1
      <4>2. g \in mem[p].known /\ chain[g] <= mem[p].revealed
        BY <1>1, <2>1, <4>1 DEF MemKnows, SeenRestored
      <4> HIDE DEF H
      <4> QED
        BY <1>2, <1>7, <4>1, <4>2
    <3> QED
      BY <3>1, <3>2
  <2>5. ~ raced /\ p \notin stale => SeenDue(w.checkpoint, w.known)
    <3> SUFFICES ASSUME ~ raced, p \notin stale, NEW g \in due, g <= h
                 PROVE  g \in w.known
      BY <1>6 DEF SeenDue
    <3>1. CASE g = h
      <4>1. ours
        BY <2>3, <3>1
      <4> HIDE DEF ours, h
      <4> QED
        BY <1>7, <3>1, <4>1
    <3>2. CASE g # h
      <4>1. g <= mem[p].checkpoint
        <5>1. g \in Nat
          BY <1>2, <2>1 DEF DiskInv
        <5> QED
          BY <1>2, <3>2, <5>1
      <4>2. g \in mem[p].known
        BY <1>1, <2>1, <4>1 DEF MemKnows, SeenDue
      <4> HIDE DEF H
      <4> QED
        BY <1>7, <4>2
    <3> QED
      BY <3>1, <3>2
  <2>6. w.lookahead = GapLimit \/ restoredAt <= w.checkpoint
    <3>1. mem[p].lookahead = GapLimit \/ restoredAt <= mem[p].checkpoint
      BY <1>1, <2>1 DEF MemKnows
    <3> QED
      BY <1>2, <1>6, <1>7, <3>1
  <2>7. ~ w.staged => w.revealed <= revealed \/ Covered(revealed)
    BY <1>1, <1>7, <2>1 DEF MemKnows
  <2> HIDE DEF ours, h
  <2> QED
    BY <1>1, <1>8, <2>4, <2>5, <2>6, <2>7 DEF MemKnows, SeenRestored, SeenDue, Covered, fixed,
       disk, ghosts
<1>12. pc'[p] # "show" /\ \A q \in Procs \ {p} : pc'[q] = pc[q] /\ scan'[q] = scan[q]
  BY <1>1
<1> QED
  BY <1>1, <1>8, <1>9, <1>10, <1>11, <1>12, MemoryStep DEF ghosts

LEMMA PersistInv ==
  ASSUME NEW p \in Procs, IInv, Persist(p) \/ PersistReveal(p)
  PROVE  IInv'
<1>0. NoScan \in Scans /\ 0 <= Len(chain) /\ scan[p].start <= Len(chain)
  BY Facts DEF MemInv, NoScan, Scans
<1>1. /\ Save(p)
      /\ UNCHANGED <<chain, fixed, done, cmd, shown, repeated, faults>>
      /\ pc' \in [Procs -> Steps] /\ \A q \in Procs \ {p} : pc'[q] = pc[q] /\ scan'[q] = scan[q]
      /\ \/ pc[p] = "applied" /\ pc'[p] = "synced"
         \/ pc[p] = "appliedFull" /\ pc'[p] = "mark"
         \/ pc[p] = "revealed" /\ pc'[p] = "show"
      /\ scan' \in [Procs -> Scans] /\ scan'[p].start <= Len(chain)
  BY <1>0 DEF Persist, PersistReveal, Goto, IInv, WalletTypeOK, Steps, NoScan
<1>2. /\ known' \in SUBSET (1 .. MaxBlocks) /\ revealed' \in 0 .. MaxAddress
      /\ checkpoint' \in 0 .. MaxBlocks /\ mem' \in [Procs -> Wallets]
      /\ stale' \in SUBSET Procs /\ raced' \in BOOLEAN /\ due' = due
  <2>1. [mem[p] EXCEPT !.staged = FALSE] \in Wallets
    BY Facts DEF Wallets
  <2>2. mem' = [mem EXCEPT ![p] = [mem[p] EXCEPT !.staged = FALSE]]
    BY <1>1 DEF Save
  <2>3. mem' \in [Procs -> Wallets]
    BY <2>1, <2>2 DEF IInv, WalletTypeOK
  <2>4. known' \in SUBSET (1 .. MaxBlocks) /\ revealed' \in 0 .. MaxAddress
        /\ checkpoint' \in 0 .. MaxBlocks
    BY <1>1, Facts DEF Save
  <2>5. stale' \in SUBSET Procs /\ raced' \in BOOLEAN /\ due' = due
    BY <1>1 DEF IInv, WalletTypeOK, Save
  <2> QED
    BY <2>3, <2>4, <2>5
<1>3. WalletTypeOK'
  BY <1>1, <1>2 DEF IInv, WalletTypeOK, fixed
<1> QED
  BY <1>1, <1>3, SaveStep

LEMMA MarkInv ==
  ASSUME NEW p \in Procs, IInv, MarkFullScanCompleted(p)
  PROVE  IInv'
<1>1. /\ pc[p] = "mark" /\ done' = TRUE /\ pc' = [pc EXCEPT ![p] = "synced"]
      /\ UNCHANGED <<chain, fixed, revealed, known, checkpoint, cmd, mem, scan, shown, repeated,
                     ghosts, faults>>
  BY DEF MarkFullScanCompleted, Goto
<1>2. pc'[p] = "synced" /\ \A q \in Procs \ {p} : pc'[q] = pc[q]
  BY <1>1 DEF IInv, WalletTypeOK
<1>3. WalletTypeOK'
  BY <1>1 DEF IInv, WalletTypeOK, Steps, fixed, ghosts
<1>4. DiskInv'
  BY <1>1 DEF IInv, DiskInv, fixed, ghosts
<1>5. ASSUME NEW q \in Procs PROVE MemInv(q)'
  <2>1. MemInv(q)
    BY DEF IInv
  <2>2. (~ raced => Fresh(q))'
    BY <1>1, <1>2, <2>1 DEF MemInv, Fresh, ghosts
  <2> QED
    BY <1>1, <1>2, <2>1, <2>2 DEF MemInv, fixed, Scanned, Asked
<1>6. ASSUME ~ AnyHistory PROVE DiskKnows'
  <2>1. Restored(known) /\ restoredAt <= checkpoint
    BY <1>1, <1>6 DEF IInv, MemKnows
  <2> QED
    BY <1>1, <1>6, <2>1 DEF IInv, DiskKnows, fixed, ghosts, Hist, Restorable, InOrder, Restored,
       SeenRestored, SeenDue
<1>7. ASSUME NEW q \in Procs, ~ AnyHistory PROVE MemKnows(q)'
  <2>1. MemKnows(q)
    BY <1>7 DEF IInv
  <2> QED
    BY <1>1, <1>2, <2>1 DEF MemKnows, fixed, ghosts, Restored, SeenRestored, SeenDue, Covered
<1> QED
  BY <1>3, <1>4, <1>5, <1>6, <1>7 DEF IInv

LEMMA ShowInv ==
  ASSUME NEW p \in Procs, IInv, Show(p)
  PROVE  IInv'
<1>1. /\ pc[p] = "show" /\ shown' = shown \cup {mem[p].revealed}
      /\ repeated' = repeated \cup (shown \cap {mem[p].revealed})
      /\ UNCHANGED <<chain, fixed, disk, faults, due, raced>>
  BY DEF Show, Exit
<1>2. /\ pc'[p] = "idle" /\ mem'[p] = NoWallet /\ scan'[p] = NoScan
      /\ \A q \in Procs \ {p} : pc'[q] = pc[q] /\ mem'[q] = mem[q] /\ scan'[q] = scan[q]
      /\ stale' = stale \ {p}
  BY DEF Show, Exit, Goto, IInv, WalletTypeOK
<1>3. mem[p].revealed \in Addresses
  <2>1. mem[p].revealed >= 1
    BY <1>1 DEF IInv, MemInv
  <2> QED
    BY <2>1, Facts DEF Addresses
<1>4. WalletTypeOK'
  <2>1. NoWallet \in Wallets /\ NoScan \in Scans
    BY DEF NoWallet, Wallets, NoScan, Scans
  <2>2. /\ pc' \in [Procs -> Steps] /\ cmd' \in [Procs -> Commands]
        /\ mem' \in [Procs -> Wallets] /\ scan' \in [Procs -> Scans]
    BY <2>1 DEF Show, Exit, Goto, IInv, WalletTypeOK, Steps, Commands
  <2> QED
    BY <1>1, <1>2, <1>3, <2>2 DEF IInv, WalletTypeOK, fixed, disk
<1>5. DiskInv'
  <2>1. ~ raced => mem[p].revealed \in 1 .. revealed /\ mem[p].revealed \notin shown
    BY <1>1 DEF IInv, MemInv, Fresh
  <2> QED
    BY <1>1, <2>1 DEF IInv, DiskInv, fixed, disk
<1>6. ASSUME NEW q \in Procs PROVE MemInv(q)'
  <2>0. MemInv(q) /\ MemInv(p)
    BY DEF IInv
  <2>1. CASE q = p
    <3>1. 0 <= Len(chain)
      BY Facts
    <3> QED
      BY <1>1, <1>2, <2>1, <3>1 DEF MemInv, Fresh, NoWallet, NoScan
  <2>2. CASE q # p
    <3>1. (~ raced => Fresh(q))'
      BY <1>1, <1>2, <2>0, <2>2 DEF MemInv, Fresh, disk
    <3> QED
      BY <1>1, <1>2, <2>0, <2>2, <3>1 DEF MemInv, fixed, disk, Scanned, Asked
  <2> QED
    BY <2>1, <2>2
<1>7. ASSUME ~ AnyHistory PROVE DiskKnows'
  BY <1>1, <1>7 DEF IInv, DiskKnows, fixed, disk, Hist, Restorable, InOrder, Restored,
     SeenRestored, SeenDue
<1>8. ASSUME NEW q \in Procs, ~ AnyHistory PROVE MemKnows(q)'
  <2>1. MemKnows(q)
    BY <1>8 DEF IInv
  <2>2. CASE q = p
    BY <1>2, <2>2 DEF MemKnows, NoWallet, SeenRestored
  <2>3. CASE q # p
    BY <1>1, <1>2, <2>1, <2>3 DEF MemKnows, fixed, disk, Restored, SeenRestored, SeenDue, Covered
  <2> QED
    BY <2>2, <2>3
<1> QED
  BY <1>4, <1>5, <1>6, <1>7, <1>8 DEF IInv

LEMMA NewBlockInv ==
  ASSUME NEW a \in Addresses, IInv, NewBlock(a)
  PROVE  IInv'
<1>1. /\ Len(chain) < MaxBlocks /\ chain' = Append(chain, a)
      /\ due' = IF a <= revealed THEN due \cup {Len(chain) + 1} ELSE due
      /\ UNCHANGED <<fixed, disk, pc, cmd, mem, scan, shown, repeated, stale, raced, faults>>
  BY DEF NewBlock
<1>2. /\ chain' \in Seq(Addresses) /\ Len(chain) \in Nat /\ Len(chain') = Len(chain) + 1
      /\ chain'[Len(chain) + 1] = a
      /\ \A h \in 1 .. Len(chain) : chain'[h] = chain[h]
  <2>1. chain \in Seq(Addresses)
    BY DEF IInv, WalletTypeOK
  <2> QED
    BY <1>1, <2>1, ChainGrows, LenProperties
<1>3. /\ restoredAt \in Nat /\ restoredAt <= Len(chain) /\ checkpoint \in Nat
      /\ checkpoint <= Len(chain) /\ revealed \in Nat /\ due \subseteq 1 .. Len(chain)
      /\ \A p \in Procs : /\ mem[p].checkpoint \in Nat /\ mem[p].checkpoint <= Len(chain)
                           /\ scan[p].start \in Nat /\ scan[p].start <= Len(chain)
  <2>1. \A p \in Procs : mem[p].checkpoint \in Nat /\ scan[p].start \in Nat
    BY Facts
  <2> QED
    BY <2>1 DEF IInv, DiskInv, MemInv, WalletTypeOK
<1>4. WalletTypeOK'
  <2>1. Len(chain') <= MaxBlocks /\ Len(chain) + 1 \in 1 .. MaxBlocks
    BY <1>1, <1>2
  <2> QED
    BY <1>1, <1>2, <2>1 DEF IInv, WalletTypeOK, fixed, disk
<1>5. ASSUME NEW k \in Nat, k <= Len(chain) PROVE \A h \in 1 .. k : chain'[h] = chain[h]
  <2>1. \A h \in 1 .. k : h \in 1 .. Len(chain)
    BY <1>2, <1>5
  <2> QED
    BY <1>2, <2>1
<1>6. \A h \in due' : h <= Len(chain) => h \in due
  BY <1>1, <1>2
<1>7. DiskInv'
  <2>1. (restoredAt <= Len(chain) /\ checkpoint <= Len(chain))'
    BY <1>1, <1>2, <1>3 DEF fixed, disk
  <2>2. due' \subseteq 1 .. Len(chain')
    <3>1. \A h \in 1 .. Len(chain) : h \in 1 .. Len(chain')
      BY <1>2
    <3>2. Len(chain) + 1 \in 1 .. Len(chain')
      BY <1>2
    <3> QED
      BY <1>1, <1>3, <3>1, <3>2
  <2>3. ASSUME ~ raced, NEW h \in due', h > restoredAt PROVE chain'[h] <= revealed
    <3>1. CASE h \in due
      BY <1>2, <1>3, <2>3, <3>1 DEF IInv, DiskInv
    <3>2. CASE h \notin due
      BY <1>1, <1>2, <3>2
    <3> QED
      BY <3>1, <3>2
  <2>4. ~ raced => shown \subseteq 1 .. revealed /\ repeated = {}
    BY DEF IInv, DiskInv
  <2> QED
    BY <1>1, <2>1, <2>2, <2>3, <2>4 DEF DiskInv, fixed, disk
<1>8. ASSUME NEW q \in Procs PROVE MemInv(q)'
  <2>0. MemInv(q)
    BY DEF IInv
  <2>1. SubSeq(chain', 1, scan[q].start) = SubSeq(chain, 1, scan[q].start)
    <3>1. \A h \in 1 .. scan[q].start : chain'[h] = chain[h]
      BY <1>3, <1>5
    <3>2. chain \in Seq(Addresses)
      BY DEF IInv, WalletTypeOK
    <3> QED
      BY <1>2, <1>3, <3>1, <3>2
  <2>2. (backend = "esplora" /\ pc[q] = "appliedFull" => Scanned(scan[q].start, mem[q].known))'
    BY <1>1, <2>0, <2>1 DEF MemInv, fixed, Scanned
  <2>3. (backend = "esplora" /\ pc[q] = "full" => Asked(scan[q], mem[q].known))'
    BY <1>1, <1>3, <1>5, <2>0 DEF MemInv, fixed, Asked
  <2>4. (mem[q].checkpoint <= Len(chain) /\ scan[q].start <= Len(chain))'
    BY <1>1, <1>2, <1>3
  <2>5. (~ raced => Fresh(q))'
    BY <1>1, <2>0 DEF MemInv, Fresh, disk
  <2> QED
    BY <1>1, <2>0, <2>2, <2>3, <2>4, <2>5 DEF MemInv, fixed, disk
<1>9. \A h \in 1 .. restoredAt : chain'[h] = chain[h]
  BY <1>3, <1>5
<1>10. ASSUME ~ AnyHistory PROVE DiskKnows'
  <2>1. Hist' = Hist
    BY <1>1, <1>9 DEF Hist, fixed
  <2>2. \A h \in 1 .. checkpoint : chain'[h] = chain[h]
    BY <1>3, <1>5
  <2>3. DiskKnows
    BY <1>10 DEF IInv
  <2>4. Restorable(Hist)'
    BY <1>1, <2>1, <2>3 DEF DiskKnows, Restorable, InOrder, fixed
  <2>5. SeenDue(checkpoint, known) => SeenDue(checkpoint, known)'
    <3>1. \A h \in due' : h <= checkpoint => h \in due
      BY <1>1, <1>2, <1>3
    <3> QED
      BY <1>1, <3>1 DEF SeenDue, disk
  <2> QED
    BY <1>1, <2>2, <2>3, <2>4, <2>5 DEF DiskKnows, Restored, SeenRestored, fixed, disk
<1>11. ASSUME NEW q \in Procs, ~ AnyHistory PROVE MemKnows(q)'
  <2>1. \A h \in 1 .. mem[q].checkpoint : chain'[h] = chain[h]
    BY <1>3, <1>5
  <2>2. MemKnows(q)
    BY <1>11 DEF IInv
  <2>3. SeenDue(mem[q].checkpoint, mem[q].known) => SeenDue(mem[q].checkpoint, mem[q].known)'
    <3>1. \A h \in due' : h <= mem[q].checkpoint => h \in due
      BY <1>1, <1>2, <1>3
    <3> QED
      BY <1>1, <3>1 DEF SeenDue
  <2>4. Covered(revealed) => Covered(revealed)'
    BY <1>1, <1>9 DEF Covered, fixed, disk
  <2>5. SeenRestored(mem[q].checkpoint, mem[q].known, mem[q].revealed) =>
          SeenRestored(mem[q].checkpoint, mem[q].known, mem[q].revealed)'
    BY <1>1, <2>1 DEF SeenRestored, fixed
  <2> QED
    BY <1>1, <2>2, <2>3, <2>4, <2>5 DEF MemKnows, Restored, fixed, disk
<1> QED
  BY <1>4, <1>7, <1>8, <1>10, <1>11 DEF IInv

LEMMA NextInv == IInv /\ [Next]_vars => IInv'
<1> SUFFICES ASSUME IInv, [Next]_vars PROVE IInv'
  OBVIOUS
<1>1. ASSUME NEW p \in Procs, SyncStep(p) PROVE IInv'
  <2>1. CASE Finish(p)
    BY <2>1, ExitInv DEF Finish, IInv, WalletTypeOK
  <2> QED
    BY <1>1, <2>1, ChooseScanInv, AskAddressInv, EndFullScanInv, EsploraSyncInv, CoreBlockInv,
       CoreEndInv, PersistInv, MarkInv DEF SyncStep
<1>2. ASSUME NEW p \in Procs, RevealStep(p) PROVE IInv'
  <2>1. CASE OutOfAddresses(p)
    BY <2>1, ExitInv DEF OutOfAddresses, IInv, WalletTypeOK
  <2> QED
    BY <1>2, <2>1, RevealInv, PersistInv, ShowInv DEF RevealStep
<1>3. ASSUME NEW p \in Procs, Fail(p) PROVE IInv'
  <2>1. faults' \in 0 .. MaxFaults
    BY <1>3 DEF Fail, IInv, WalletTypeOK
  <2> QED
    BY <1>3, <2>1, ExitInv DEF Fail
<1>4. CASE UNCHANGED vars
  <2>1. WalletTypeOK' /\ DiskInv'
    BY <1>4 DEF vars, fixed, disk, ghosts, IInv, WalletTypeOK, DiskInv
  <2>2. ASSUME NEW p \in Procs PROVE MemInv(p)'
    BY <1>4 DEF vars, fixed, disk, ghosts, IInv, MemInv, Fresh, Scanned, Asked
  <2>3. ASSUME ~ AnyHistory PROVE DiskKnows'
    BY <1>4, <2>3 DEF vars, fixed, disk, ghosts, IInv, DiskKnows, Hist, Restorable, InOrder,
       Restored, SeenRestored, SeenDue
  <2>4. ASSUME NEW p \in Procs, ~ AnyHistory PROVE MemKnows(p)'
    <3>1. MemKnows(p)
      BY <2>4 DEF IInv
    <3> QED
      BY <1>4, <3>1 DEF vars, fixed, disk, ghosts, MemKnows, Restored, SeenRestored, SeenDue, Covered
  <2> QED
    BY <2>1, <2>2, <2>3, <2>4 DEF IInv
<1> QED
  BY <1>1, <1>2, <1>3, <1>4, LoadInv, NewBlockInv DEF Next

-----------------------------------------------------------------------------

(***************************************************************************)
(* The inductive invariant: what is on disk and what each invocation has   *)
(* in memory at each of its steps.                                         *)
(***************************************************************************)
THEOREM WalletInvariance == Spec => []IInv
<1> QED
  BY InitInv, NextInv, PTL DEF Spec

(***************************************************************************)
(* An address that was printed or paid is revealed in the wallet's file,   *)
(* for any number of invocations, until a stale one has written.           *)
(***************************************************************************)
THEOREM ShownAddressesAreKept == Spec => []ShownIsRevealed
<1>1. IInv => ShownIsRevealed
  BY DEF IInv, DiskInv, ShownIsRevealed
<1> QED
  BY <1>1, WalletInvariance, PTL

(***************************************************************************)
(* A full scan of Esplora, which asks for one address after the other      *)
(* while blocks are mined and gives up after the gap limit, ends with all  *)
(* that the limit could reach when it began, for any history and any       *)
(* number of invocations at once.                                          *)
(***************************************************************************)
THEOREM ScansAreFull == Spec => []ScanIsFull
<1>1. IInv => ScanIsFull
  BY DEF IInv, MemInv, Scanned, ScanIsFull
<1> QED
  BY <1>1, WalletInvariance, PTL

(***************************************************************************)
(* full_scan_state says completed only once every payment from before the  *)
(* restore is on disk, for a history that a restore is meant for, on       *)
(* either backend and whoever writes over whom.                            *)
(***************************************************************************)
THEOREM RestoresAreComplete ==
  ASSUME ~ AnyHistory PROVE Spec => []RestoreComplete
<1>1. IInv => RestoreComplete
  BY DEF IInv, DiskKnows, Restored, RestoreComplete
<1> QED
  BY <1>1, WalletInvariance, PTL

(***************************************************************************)
(* On Bitcoin Core the file knows every payment up to its checkpoint that  *)
(* was due to the wallet, until a stale invocation has written: it may     *)
(* have seen the block with a cache that does not hold the address.        *)
(***************************************************************************)
THEOREM CoreMissesNothing ==
  ASSUME ~ AnyHistory PROVE Spec => []NothingMissed
<1>1. IInv => NothingMissed
  BY DEF IInv, DiskKnows, SeenDue, NothingMissed
<1> QED
  BY <1>1, WalletInvariance, PTL

(***************************************************************************)
(* receive prints no address twice, in whatever order invocations load,    *)
(* reveal, persist and show, until a stale one has written.                *)
(***************************************************************************)
THEOREM AddressesAreNew == Spec => []AddressesFresh
<1>1. IInv => AddressesFresh
  BY DEF IInv, DiskInv, AddressesFresh
<1> QED
  BY <1>1, WalletInvariance, PTL
=============================================================================
