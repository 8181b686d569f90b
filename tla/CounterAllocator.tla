-------------------------- MODULE CounterAllocator --------------------------
(***************************************************************************)
(* What a caller of the reclaim-counter allocator relies on, and nothing   *)
(* else: counters are handed out one at a time, and each is larger than    *)
(* every counter handed out before it, whatever processes came and went in *)
(* between.  A reclaim key is derived from its counter, so this is what    *)
(* keeps two deposit requests from sharing a key.  DescriptorDb, the       *)
(* allocator the program keeps in its descriptor database, implements it.  *)
(***************************************************************************)
EXTENDS Naturals, Sequences

CONSTANT Counters   \* the counters that can be handed out

VARIABLE issued     \* the counters handed out so far, in order

TypeOK == issued \in Seq(Counters)

Init == issued = << >>

Issue(c) ==
  /\ \A i \in 1 .. Len(issued) : issued[i] < c
  /\ issued' = Append(issued, c)

Next == \E c \in Counters : Issue(c)

Spec == Init /\ [][Next]_issued
=============================================================================
