-------------------------- MODULE BlockPermutation ---------------------------
(***************************************************************************)
(* The block permutation phase (block_permutation.hpp, bucket_pointers.hpp)*)
(* in which all threads move the full blocks to their buckets, in place.   *)
(*                                                                         *)
(* A bucket's area is a range of slots: full blocks of any bucket, then    *)
(* empty slots.  Its write and read pointers are the two halves of one     *)
(* atomic word: a thread reads a block from the end of the full blocks     *)
(* (decRead) and claims the slot for the block in its hand at the front    *)
(* (incWrite).  num_reading_ keeps a writer from an empty slot whose block *)
(* another thread has claimed and not yet taken.                           *)
(*                                                                         *)
(* Every access to a pointer word, to num_reading_ or to a slot is a step. *)
(* Pointers count slots; the swap buffer in use is the thread's hand.      *)
(***************************************************************************)
EXTENDS BucketLayout

CONSTANTS
  NumThreads,  (* num_threads_                                             *)
  Layouts      (* what classification and empty block movement may leave   *)

Threads == 0 .. NumThreads - 1

ASSUME PermutationAssumption ==
  /\ NumThreads \in Nat \ {0} /\ NumBuckets \in Nat \ {0}
  /\ \A l \in Layouts : IsLayout(l)

VARIABLES
  layout,       (* the layout at the start; it does not change             *)
  write, read,  (* the two halves of each bucket's pointer word            *)
  num_reading,  (* num_reading_ of each bucket                             *)
  content,      (* the block in each slot                                  *)
  pc,           (* where each thread is                                    *)
  read_bucket,  (* the bucket a thread reads from                          *)
  count,        (* the buckets it has yet to go through                    *)
  hand,         (* the block in its swap buffer, or NoBlock                *)
  dest_bucket,  (* the bucket of that block                                *)
  slot,         (* the slot it has claimed                                 *)
  overflow      (* the block in its overflow buffer, or NoBlock            *)

vars == << layout, write, read, num_reading, content, pc, read_bucket, count,
           hand, dest_bucket, slot, overflow >>

PCs == {"startRead", "decRead", "noMoreBlocks", "readBlock", "stopRead",
        "incWrite", "isReading", "writeBlock", "inspect", "swapBlocks", "done"}

Init ==
  /\ layout \in Layouts
  /\ write       = [b \in Buckets |-> layout.first[b]]
  /\ read        = layout.last
  /\ num_reading = [b \in Buckets |-> 0]
  /\ content     = layout.content
  /\ pc          = [t \in Threads |-> "startRead"]
  /\ read_bucket = [t \in Threads |-> ((t * NumBuckets) \div NumThreads) % NumBuckets]
  /\ count       = [t \in Threads |-> NumBuckets]
  /\ hand        = [t \in Threads |-> NoBlock]
  /\ dest_bucket = [t \in Threads |-> 0]
  /\ slot        = [t \in Threads |-> 0]
  /\ overflow    = [t \in Threads |-> NoBlock]

Goto(t, p) == pc' = [pc EXCEPT ![t] = p]

------------------------------------------------------------------------------
(* decRead: first num_reading_ ...                                         *)
StartRead(t) ==
  /\ pc[t] = "startRead"
  /\ num_reading' = [num_reading EXCEPT ![read_bucket[t]] = @ + 1]
  /\ Goto(t, "decRead")
  /\ UNCHANGED << layout, write, read, content, read_bucket, count, hand,
                  dest_bucket, slot, overflow >>

(* ... then the read pointer.                                              *)
DecRead(t) ==
  LET b == read_bucket[t] IN
  /\ pc[t] = "decRead"
  /\ read' = [read EXCEPT ![b] = @ - 1]
  /\ slot' = [slot EXCEPT ![t] = read[b]]
  /\ Goto(t, IF read[b] < write[b] THEN "noMoreBlocks" ELSE "readBlock")
  /\ UNCHANGED << layout, write, num_reading, content, read_bucket, count, hand,
                  dest_bucket, overflow >>

(* Faulty variant: no stopRead.                                            *)
NoMoreBlocksKeepsReading(t) ==
  /\ pc[t] = "noMoreBlocks"
  /\ read_bucket' = [read_bucket EXCEPT ![t] = (@ + 1) % NumBuckets]
  /\ count'       = [count EXCEPT ![t] = @ - 1]
  /\ Goto(t, IF count[t] = 1 THEN "done" ELSE "startRead")
  /\ UNCHANGED << layout, write, read, num_reading, content, hand, dest_bucket,
                  slot, overflow >>

(* Faulty variant: one round too many.                                     *)
NoMoreBlocksOnceMore(t) ==
  /\ pc[t] = "noMoreBlocks"
  /\ num_reading' = [num_reading EXCEPT ![read_bucket[t]] = @ - 1]
  /\ read_bucket' = [read_bucket EXCEPT ![t] = (@ + 1) % NumBuckets]
  /\ count'       = [count EXCEPT ![t] = @ - 1]
  /\ Goto(t, IF count[t] = 0 THEN "done" ELSE "startRead")
  /\ UNCHANGED << layout, write, read, content, hand, dest_bucket, slot, overflow >>

(* Faulty variant: the thread leaves with its first bucket.                *)
NoMoreBlocksInFirst(t) ==
  /\ pc[t] = "noMoreBlocks"
  /\ num_reading' = [num_reading EXCEPT ![read_bucket[t]] = @ - 1]
  /\ read_bucket' = [read_bucket EXCEPT ![t] = (@ + 1) % NumBuckets]
  /\ count'       = [count EXCEPT ![t] = @ - 1]
  /\ Goto(t, "done")
  /\ UNCHANGED << layout, write, read, content, hand, dest_bucket, slot, overflow >>

(* stopRead in a bucket that has no more blocks; on to the next bucket.    *)
NoMoreBlocks(t) ==
  /\ pc[t] = "noMoreBlocks"
  /\ num_reading' = [num_reading EXCEPT ![read_bucket[t]] = @ - 1]
  /\ read_bucket' = [read_bucket EXCEPT ![t] = (@ + 1) % NumBuckets]
  /\ count'       = [count EXCEPT ![t] = @ - 1]
  /\ Goto(t, IF count[t] = 1 THEN "done" ELSE "startRead")
  /\ UNCHANGED << layout, write, read, content, hand, dest_bucket, slot, overflow >>

(* The block is moved to the swap buffer.                                  *)
ReadBlock(t) ==
  /\ pc[t] = "readBlock"
  /\ hand'    = [hand EXCEPT ![t] = content[slot[t]]]
  /\ content' = [content EXCEPT ![slot[t]] = NoBlock]
  /\ Goto(t, "stopRead")
  /\ UNCHANGED << layout, write, read, num_reading, read_bucket, count,
                  dest_bucket, slot, overflow >>

StopRead(t) ==
  /\ pc[t] = "stopRead"
  /\ num_reading' = [num_reading EXCEPT ![read_bucket[t]] = @ - 1]
  /\ dest_bucket' = [dest_bucket EXCEPT ![t] = layout.bucket[hand[t]]]
  /\ Goto(t, "incWrite")
  /\ UNCHANGED << layout, write, read, content, read_bucket, count, hand, slot,
                  overflow >>

(* Faulty variant: the last full block counts as an empty slot.            *)
IncWriteOverLastBlock(t) ==
  LET b == dest_bucket[t]
      w == write[b]
  IN
  /\ pc[t] = "incWrite"
  /\ write' = [write EXCEPT ![b] = @ + 1]
  /\ slot'  = [slot EXCEPT ![t] = w]
  /\ \/ /\ w >= read[b] /\ w >= layout.max_off
        /\ overflow' = [overflow EXCEPT ![t] = hand[t]]
        /\ hand'     = [hand EXCEPT ![t] = NoBlock]
        /\ Goto(t, "startRead")
     \/ /\ w >= read[b] /\ w < layout.max_off
        /\ Goto(t, "isReading")
        /\ UNCHANGED << overflow, hand >>
     \/ /\ w < read[b]
        /\ Goto(t, "inspect")
        /\ UNCHANGED << overflow, hand >>
  /\ UNCHANGED << layout, read, num_reading, content, read_bucket, count,
                  dest_bucket >>

(* incWrite claims a slot; if it is out of bounds, the block goes to the   *)
(* overflow buffer.                                                        *)
IncWrite(t) ==
  LET b == dest_bucket[t]
      w == write[b]
  IN
  /\ pc[t] = "incWrite"
  /\ write' = [write EXCEPT ![b] = @ + 1]
  /\ slot'  = [slot EXCEPT ![t] = w]
  /\ \/ /\ w > read[b] /\ w >= layout.max_off
        /\ overflow' = [overflow EXCEPT ![t] = hand[t]]
        /\ hand'     = [hand EXCEPT ![t] = NoBlock]
        /\ Goto(t, "startRead")
     \/ /\ w > read[b] /\ w < layout.max_off
        /\ Goto(t, "isReading")
        /\ UNCHANGED << overflow, hand >>
     \/ /\ w <= read[b]
        /\ Goto(t, "inspect")
        /\ UNCHANGED << overflow, hand >>
  /\ UNCHANGED << layout, read, num_reading, content, read_bucket, count,
                  dest_bucket >>

(* Faulty variant: the claimed slot is written without a look at the       *)
(* readers.                                                                *)
IsReadingUnchecked(t) ==
  /\ pc[t] = "isReading"
  /\ Goto(t, "writeBlock")
  /\ UNCHANGED << layout, write, read, num_reading, content, read_bucket, count,
                  hand, dest_bucket, slot, overflow >>

(* "Make sure no one is currently reading this block."                     *)
IsReading(t) ==
  /\ pc[t] = "isReading"
  /\ num_reading[dest_bucket[t]] = 0
  /\ Goto(t, "writeBlock")
  /\ UNCHANGED << layout, write, read, num_reading, content, read_bucket, count,
                  hand, dest_bucket, slot, overflow >>

(* The thread spins while there are readers.                               *)
Spin(t) ==
  /\ pc[t] = "isReading"
  /\ num_reading[dest_bucket[t]] # 0
  /\ UNCHANGED vars

WriteBlock(t) ==
  /\ pc[t] = "writeBlock"
  /\ content' = [content EXCEPT ![slot[t]] = hand[t]]
  /\ hand'    = [hand EXCEPT ![t] = NoBlock]
  /\ Goto(t, "startRead")
  /\ UNCHANGED << layout, write, read, num_reading, read_bucket, count,
                  dest_bucket, slot, overflow >>

(* Faulty variant: the block is compared with the bucket of the last read. *)
InspectReadBucket(t) ==
  /\ pc[t] = "inspect"
  /\ Goto(t, IF layout.bucket[content[slot[t]]] = read_bucket[t]
             THEN "incWrite" ELSE "swapBlocks")
  /\ UNCHANGED << layout, write, read, num_reading, content, read_bucket, count,
                  hand, dest_bucket, slot, overflow >>

(* "Check if block needs to be moved": one that is in its bucket stays.    *)
Inspect(t) ==
  /\ pc[t] = "inspect"
  /\ Goto(t, IF layout.bucket[content[slot[t]]] = dest_bucket[t]
             THEN "incWrite" ELSE "swapBlocks")
  /\ UNCHANGED << layout, write, read, num_reading, content, read_bucket, count,
                  hand, dest_bucket, slot, overflow >>

SwapBlocks(t) ==
  /\ pc[t] = "swapBlocks"
  /\ hand'        = [hand EXCEPT ![t] = content[slot[t]]]
  /\ content'     = [content EXCEPT ![slot[t]] = hand[t]]
  /\ dest_bucket' = [dest_bucket EXCEPT ![t] = layout.bucket[content[slot[t]]]]
  /\ Goto(t, "incWrite")
  /\ UNCHANGED << layout, write, read, num_reading, read_bucket, count, slot,
                  overflow >>

(* All threads have left permuteBlocks.                                    *)
Finished ==
  /\ \A t \in Threads : pc[t] = "done"
  /\ UNCHANGED vars

Step(t) ==
  \/ StartRead(t) \/ DecRead(t) \/ NoMoreBlocks(t) \/ ReadBlock(t) \/ StopRead(t)
  \/ IncWrite(t) \/ IsReading(t) \/ Spin(t) \/ WriteBlock(t) \/ Inspect(t)
  \/ SwapBlocks(t)

Next == (\E t \in Threads : Step(t)) \/ Finished

Spec == Init /\ [][Next]_vars

(* The operating system keeps running every thread.                        *)
FairSpec == Spec /\ \A t \in Threads : WF_vars(Step(t))

------------------------------------------------------------------------------
Blocks == DOMAIN layout.bucket
Area(b) == layout.first[b] .. layout.first[b + 1] - 1

(* The threads that are between the two accesses to num_reading_ of b.     *)
Readers(b) ==
  {t \in Threads : pc[t] \in {"decRead", "noMoreBlocks", "readBlock", "stopRead"}
                    /\ read_bucket[t] = b}

(* The threads that have claimed a slot of bucket b to write to.           *)
Writers(b) ==
  {t \in Threads : pc[t] \in {"isReading", "writeBlock", "inspect", "swapBlocks"}
                    /\ dest_bucket[t] = b}

(* The threads that read or write the slot they have claimed.              *)
Accessing ==
  {t \in Threads : pc[t] \in {"readBlock", "writeBlock", "inspect", "swapBlocks"}}

TypeOK ==
  /\ write \in [Buckets -> Nat]
  /\ read \in [Buckets -> Int]
  /\ num_reading \in [Buckets -> 0 .. NumThreads]
  /\ content \in [0 .. layout.max_off - 1 -> Blocks \cup {NoBlock}]
  /\ pc \in [Threads -> PCs]
  /\ read_bucket \in [Threads -> Buckets]
  /\ count \in [Threads -> 0 .. NumBuckets]
  /\ hand \in [Threads -> Blocks \cup {NoBlock}]
  /\ dest_bucket \in [Threads -> Buckets]
  /\ slot \in [Threads -> Int]
  /\ overflow \in [Threads -> Blocks \cup {NoBlock}]

(* A slot is never accessed by two threads at the same time, and it lies   *)
(* in the area of the bucket for which it was claimed: the accesses need   *)
(* no lock, since the claims and num_reading_ keep the threads apart.      *)
ExclusiveAccess ==
  /\ \A s, t \in Accessing : s # t => slot[s] # slot[t]
  /\ \A t \in Accessing :
       /\ slot[t] \in DOMAIN content
       /\ slot[t] \in Area(IF pc[t] = "readBlock" THEN read_bucket[t] ELSE dest_bucket[t])

(* Every block is in exactly one place: no block is overwritten or read    *)
(* twice.                                                                  *)
OnePlace ==
  \A x \in Blocks :
    Cardinality({s \in DOMAIN content : content[s] = x})
      + Cardinality({t \in Threads : hand[t] = x})
      + Cardinality({t \in Threads : overflow[t] = x}) = 1

(* What a write pointer has passed is settled: the slot holds a block of   *)
(* its bucket, or the thread that claimed it is about to put one there.    *)
Settled ==
  \A b \in Buckets : \A s \in (layout.first[b] .. write[b] - 1) \cap DOMAIN content :
    \/ content[s] \in Blocks /\ layout.bucket[content[s]] = b
    \/ \E t \in Writers(b) : slot[t] = s

(* Faulty variant: the first bucket of more than one block.                *)
ComputeFirstLargeBucket ==
  IF layout.large = {} THEN -1
  ELSE CHOOSE b \in layout.large : \A c \in layout.large : b <= c

(* "Computes which bucket can cause an overflow, i.e., the last bucket     *)
(* that has more than one full block."                                     *)
ComputeOverflowBucket ==
  IF layout.large = {} THEN -1
  ELSE CHOOSE b \in layout.large : \A c \in layout.large : c <= b

(* At most one block overflows.  It belongs to the overflow bucket, the    *)
(* only one for which the cleanup looks for it, and then the pointer of    *)
(* this bucket is at its end, as the cleanup assumes.                      *)
Overflow ==
  \A t \in Threads : overflow[t] # NoBlock =>
    /\ \A s \in Threads : overflow[s] # NoBlock => s = t
    /\ layout.bucket[overflow[t]] = ComputeOverflowBucket
    /\ write[ComputeOverflowBucket] = layout.first[ComputeOverflowBucket + 1]

(* When the phase is over, the slots before a bucket's write pointer hold  *)
(* all blocks of the bucket, but for the one in the overflow buffer, and   *)
(* the other slots are empty.                                              *)
Permuted ==
  (\A t \in Threads : pc[t] = "done") =>
    \A b \in Buckets :
      /\ write[b] - layout.first[b] = Cardinality(BlocksOf(layout, b))
      /\ \A s \in Area(b) \cap DOMAIN content :
           IF s < write[b] THEN content[s] \in Blocks /\ layout.bucket[content[s]] = b
                           ELSE content[s] = NoBlock

(* Every thread gets through the phase: a writer that waits for readers    *)
(* is let go, and no thread goes on claiming slots for ever.               *)
AllThreadsDone == <>(\A t \in Threads : pc[t] = "done")

==============================================================================
