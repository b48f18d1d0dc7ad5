------------------------- MODULE LocalClassification -------------------------
(***************************************************************************)
(* What the classification phase (local_classification.hpp, buffers.hpp)   *)
(* leaves behind, as functions of the input.  An input maps the positions  *)
(* 0..n-1 to the bucket that the classifier gives for the element there.   *)
(* Sizes and positions are counted in elements, blocks in slots of         *)
(* BlockSize elements.                                                     *)
(***************************************************************************)
EXTENDS BucketLayout, SequencesExt

CONSTANTS
  BlockSize,   (* kBlockSize    *)
  NumThreads   (* num_threads_  *)

ASSUME ClassificationAssumption ==
  BlockSize \in Nat \ {0} /\ NumBuckets \in Nat \ {0} /\ NumThreads \in Nat \ {0}

Threads == 0 .. NumThreads - 1

SizeOf(input) == Cardinality(DOMAIN input)

(* alignToNextBlock, and the same in slots.                                *)
SlotsUpTo(p)        == (p + BlockSize - 1) \div BlockSize
AlignToNextBlock(p) == SlotsUpTo(p) * BlockSize

(* The stripe of a thread: my_begin and my_end of parallelClassification.  *)
MyBegin(n, id) == AlignToNextBlock((2 * id * n + NumThreads) \div (2 * NumThreads))
MyEnd(n, id)   == IF n < MyBegin(n, id + 1) THEN n ELSE MyBegin(n, id + 1)

(* The buffers of a thread: size[b] elements in the one of bucket b, and   *)
(* the buckets of the blocks flushed to the front of the stripe so far.    *)
IsFull(st, b)  == st.size[b] = BlockSize
WriteTo(st, b) == [size |-> [st.size EXCEPT ![b] = 0], flushed |-> Append(st.flushed, b)]
Push(st, b)    == [st EXCEPT !.size[b] = @ + 1]

(* What classifyLocally does with an element of bucket b: "Only flush      *)
(* buffers on overflow".                                                   *)
Yield(st, b) == Push(IF IsFull(st, b) THEN WriteTo(st, b) ELSE st, b)

(* The fill of the buffers and the buckets of the flushed blocks, in order,*)
(* after a thread has classified elements of these buckets.                *)
ClassifyAll(buckets) ==
  LET after[k \in 0 .. Len(buckets)] ==
        IF k = 0 THEN [size |-> [b \in Buckets |-> 0], flushed |-> << >>]
        ELSE Yield(after[k - 1], buckets[k])
  IN  after[Len(buckets)]

(* classifyLocally on the stripe of a thread.                              *)
ClassifyLocally(input, id) ==
  LET lo == MyBegin(SizeOf(input), id)
      hi == MyEnd(SizeOf(input), id)
  IN  ClassifyAll([i \in 1 .. hi - lo |-> input[lo + i - 1]])

(* What the threads know when all of them have classified their stripes.  *)
(* A block is named by the slot it was flushed to.                         *)
Classified(input) ==
  LET n       == SizeOf(input)
      flushed == [id \in Threads |-> ClassifyLocally(input, id).flushed]
      empty   == [id \in Threads |-> MyBegin(n, id) + BlockSize * Len(flushed[id])]
      holds(id, s) == MyBegin(n, id) <= s * BlockSize /\ s * BlockSize < empty[id]
      owner(s) == CHOOSE id \in Threads : holds(id, s)
  IN [n            |-> n,
      my_begin     |-> [id \in Threads |-> MyBegin(n, id)],
      my_end       |-> [id \in Threads |-> MyEnd(n, id)],
      first_empty  |-> empty,
      bucket_start |-> [b \in 0 .. NumBuckets |->
                          Cardinality({i \in DOMAIN input : input[i] < b})],
      bucket       |-> [s \in {s \in 0 .. n \div BlockSize : \E id \in Threads : holds(id, s)} |->
                          flushed[owner(s)][s - MyBegin(n, owner(s)) \div BlockSize + 1]]]

==============================================================================
