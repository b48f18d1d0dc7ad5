----------------------------- MODULE BucketLayout -----------------------------
(***************************************************************************)
(* The invariant between the phases of a partitioning step, which empty    *)
(* block movement establishes and block permutation relies on: "All        *)
(* buckets must consist of full blocks followed by empty blocks."          *)
(* Positions are slots of one block.  A layout is a record of              *)
(*   first[b]    the slot at which the area of bucket b begins             *)
(*   last[b]     the last full block in the area of bucket b               *)
(*   max_off     the first slot that blocks must not be written to         *)
(*   bucket[x]   the bucket that block x belongs to                        *)
(*   content[s]  the block in slot s, or NoBlock                           *)
(*   large       the buckets that are larger than one block                *)
(***************************************************************************)
EXTENDS Integers, FiniteSets

CONSTANT NumBuckets  (* num_buckets_ *)

Buckets == 0 .. NumBuckets - 1
NoBlock == -1

BlocksOf(l, b) == {x \in DOMAIN l.bucket : l.bucket[x] = b}

IsLayout(l) ==
  LET Blocks == DOMAIN l.bucket IN
  /\ l.first \in [0 .. NumBuckets -> Nat]
  /\ \A a, b \in 0 .. NumBuckets : a <= b => l.first[a] <= l.first[b]
  /\ l.max_off \in Nat
  /\ l.first[NumBuckets] \in {l.max_off, l.max_off + 1}
  /\ \A s \in 0 .. l.max_off - 1 :
       \E b \in Buckets : l.first[b] <= s /\ s < l.first[b + 1]
  /\ Blocks \subseteq Nat /\ IsFiniteSet(Blocks)
  /\ l.bucket \in [Blocks -> Buckets]
  (* Every block is in one slot, and its bucket has a slot for it. *)
  /\ l.content \in [0 .. l.max_off - 1 -> Blocks \cup {NoBlock}]
  /\ \A x \in Blocks : \E s \in DOMAIN l.content : l.content[s] = x
  /\ \A r, s \in DOMAIN l.content :
       l.content[r] = l.content[s] /\ l.content[r] # NoBlock => r = s
  /\ \A b \in Buckets : Cardinality(BlocksOf(l, b)) <= l.first[b + 1] - l.first[b]
  (* Full blocks, then empty slots. *)
  /\ l.last \in [Buckets -> Int]
  /\ \A b \in Buckets :
       /\ l.first[b] - 1 <= l.last[b] /\ l.last[b] < l.first[b + 1]
       /\ l.last[b] < l.max_off \/ l.last[b] = l.first[b] - 1
       /\ \A s \in DOMAIN l.content :
            l.first[b] <= s /\ s < l.first[b + 1] =>
              (l.content[s] # NoBlock <=> s <= l.last[b])
  (* A block is flushed only for a further element; the buckets after the  *)
  (* last full slot share less than a block.                               *)
  /\ l.large \subseteq {b \in Buckets : l.first[b] <= l.max_off}
  /\ \A x \in Blocks : l.bucket[x] \in l.large

===============================================================================
