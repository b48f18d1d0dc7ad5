------------------------------- MODULE Cleanup -------------------------------
(***************************************************************************)
(* The cleanup phase (cleanup_margins.hpp, the end of partition): after    *)
(* the block permutation, bucket b's full blocks lie from the first block  *)
(* boundary in the bucket to its write pointer, but for the one that may   *)
(* be in an overflow buffer.  They may reach over the end of the bucket.   *)
(* The rest of its elements is in the buffers of the threads.  Every       *)
(* thread completes a range of buckets.                                    *)
(*                                                                         *)
(* Elements are << bucket, number >>; Junk is what has no value any more.  *)
(* A bucket is written in one step: NoSharedElement shows that no other    *)
(* thread accesses its places meanwhile.                                   *)
(***************************************************************************)
EXTENDS Integers, FiniteSets, SequencesExt

CONSTANTS
  BlockSize,     (* kBlockSize                                             *)
  SingleLevel,   (* kSingleLevelThreshold                                  *)
  BaseCaseSize,  (* kBaseCaseSize                                          *)
  Trivial,       (* elements can be moved from and still have their value  *)
  Steps          (* partitioning steps after the permutation: records of   *)
                 (* threads, n, bucket_start, blocks[b], the full blocks   *)
                 (* of a bucket, and left[t][b], how many of its elements  *)
                 (* are in buffers of threads before t                     *)

(* A buffer is flushed when one more element comes: a bucket that has      *)
(* blocks has elements in buffers as well.                                 *)
ASSUME CleanupAssumption ==
  /\ BlockSize \in Nat \ {0} /\ SingleLevel \in Nat /\ BaseCaseSize \in Nat
  /\ Trivial \in BOOLEAN
  /\ \A s \in Steps :
       LET k == Cardinality(DOMAIN s.blocks)
       IN /\ s.threads \in Nat \ {0} /\ s.n \in Nat /\ k \in Nat \ {0}
          /\ s.bucket_start \in [0 .. k -> Nat] /\ s.blocks \in [0 .. k - 1 -> Nat]
          /\ s.left \in [0 .. s.threads -> [0 .. k - 1 -> Nat]]
          /\ s.bucket_start[0] = 0 /\ s.bucket_start[k] = s.n
          /\ \A b \in 0 .. k - 1 :
               /\ s.left[0][b] = 0
               /\ \A t \in 0 .. s.threads - 1 : s.left[t + 1][b] - s.left[t][b] \in 0 .. BlockSize
               /\ s.blocks[b] > 0 => s.left[s.threads][b] > 0
               /\ s.bucket_start[b + 1] - s.bucket_start[b]
                    = s.blocks[b] * BlockSize + s.left[s.threads][b]

VARIABLES
  step,      (* the step; it does not change                               *)
  arr,       (* the elements from begin_ to end_                           *)
  overflow,  (* the overflow buffer that is in use                         *)
  buffers,   (* buffers[t][b]                                              *)
  swap,      (* local_.swap[0] of each thread                              *)
  saved,     (* the bucket for which a thread has saved elements, or -1    *)
  pc,        (* "save", or "write" once a thread has saved its margin      *)
  next,      (* the bucket it writes next                                  *)
  touched    (* the places it has accessed while writing (history)         *)

vars == << step, arr, overflow, buffers, swap, saved, pc, next, touched >>

Junk == << >>

Threads    == 0 .. step.threads - 1
NumBuckets == Cardinality(DOMAIN step.blocks)
IsParallel == step.threads > 1

Align(x)   == ((x + BlockSize - 1) \div BlockSize) * BlockSize
Bstart(i)  == step.bucket_start[i]
Bend(i)    == step.bucket_start[i + 1]
Bsize(i)   == Bend(i) - Bstart(i)

(* getWrite(): where the permutation left the write pointer.               *)
Bwrite(i)  == Align(Bstart(i)) + step.blocks[i] * BlockSize

(* Blocks at max_off or behind went to the overflow buffer.                *)
MaxOff     == (step.n \div BlockSize) * BlockSize

(* The buckets with a block there: the last bucket that has any, if any.   *)
Over == {i \in DOMAIN step.blocks : step.blocks[i] > 0 /\ Bwrite(i) > MaxOff}

(* Faulty variant: the first bucket of more than one block.                *)
FirstLargeBucket ==
  LET large == {b \in DOMAIN step.blocks : Bsize(b) > BlockSize}
  IN IF large = {} THEN -1 ELSE CHOOSE b \in large : \A c \in large : b <= c

(* computeOverflowBucket.                                                  *)
OverflowBucket ==
  LET large == {b \in DOMAIN step.blocks : Bsize(b) > BlockSize}
  IN IF large = {} THEN -1 ELSE CHOOSE b \in large : \A c \in large : c <= b

(* "Distribute buckets among threads."                                     *)
BucketsPerThread == (NumBuckets + step.threads - 1) \div step.threads
AtMostAll(b)     == IF NumBuckets < b THEN NumBuckets ELSE b
FirstBucket(t)   == AtMostAll(t * BucketsPerThread)
LastBucket(t)    == AtMostAll((t + 1) * BucketsPerThread)

Segment(i)    == Bstart(i) .. Bend(i) - 1
Elements(i)   == {<< i, k >> : k \in 1 .. Bsize(i)}
Numbers(i, k, m) == [j \in 1 .. m |-> << i, k + j >>]

-----------------------------------------------------------------------------
Init ==
  /\ step \in Steps
  /\ arr = [p \in 0 .. step.n - 1 |->
              IF \E i \in DOMAIN step.blocks : Align(Bstart(i)) <= p /\ p < Bwrite(i) /\ p < MaxOff
                THEN LET i == CHOOSE i \in DOMAIN step.blocks :
                                Align(Bstart(i)) <= p /\ p < Bwrite(i)
                     IN << i, p - Align(Bstart(i)) + 1 >>
                ELSE Junk]
  /\ overflow = IF Over = {} THEN << >>
                ELSE LET i == CHOOSE i \in Over : TRUE
                     IN Numbers(i, (step.blocks[i] - 1) * BlockSize, BlockSize)
  /\ buffers = [t \in Threads |-> [i \in DOMAIN step.blocks |->
                  Numbers(i, step.blocks[i] * BlockSize + step.left[t][i],
                          step.left[t + 1][i] - step.left[t][i])]]
  /\ swap  = [t \in Threads |-> << >>]
  /\ saved = [t \in Threads |-> -1]
  /\ pc    = [t \in Threads |-> IF IsParallel THEN "save" ELSE "write"]
  /\ next  = [t \in Threads |-> FirstBucket(t)]
  /\ touched = [t \in Threads |-> {}]

Slice(from, to) == [k \in 1 .. to - from |-> arr[from + k - 1]]

(* arr after elements have been moved out of a range.                      *)
MovedFrom(from, to) ==
  [p \in DOMAIN arr |-> IF ~Trivial /\ from <= p /\ p < to THEN Junk ELSE arr[p]]

(* "Find bucket this last block belongs to": the block before the boundary *)
(* end, left of bucket last.                                               *)
LastBlockBucket(last, end) ==
  CHOOSE b \in 0 .. last - 1 :
    /\ Bstart(b) <= end - BlockSize
    /\ \A c \in b + 1 .. last - 1 : Bstart(c) > end - BlockSize

(* Faulty variant: it always is the bucket on the left.                    *)
SavedMarginOfLast(last) ==
  LET end == Align(step.bucket_start[last])
  IN IF step.bucket_start[last] = end \/ end > step.n THEN -1
     ELSE IF Bwrite(last - 1) < end THEN -1 ELSE last - 1

(* The bucket for which saveMargins saves elements, or -1.                 *)
SavedMargin(last) ==
  LET tail == step.bucket_start[last]
      end  == Align(tail)
  IN IF tail = end \/ end > step.n THEN -1
     ELSE LET b == LastBlockBucket(last, end)
          IN IF Bwrite(b) < end THEN -1 ELSE b

(* saveMargins.                                                            *)
SaveMargins(t) ==
  /\ pc[t] = "save"
  /\ LET b   == SavedMargin(LastBucket(t))
         end == Align(step.bucket_start[LastBucket(t)])
     IN IF b = -1 THEN UNCHANGED << arr, swap, saved >>
        ELSE /\ swap'  = [swap EXCEPT ![t] = Slice(Bend(b), end)]
             /\ arr'   = MovedFrom(Bend(b), end)
             /\ saved' = [saved EXCEPT ![t] = b]
  /\ pc' = [pc EXCEPT ![t] = "write"]
  /\ UNCHANGED << step, overflow, buffers, next, touched >>

(* Faulty variant: there is no barrier.                                    *)
MayWriteAtOnce(t) == pc[t] = "write"

(* The barrier before the margins are written.                             *)
MayWrite(t) == \A u \in Threads : pc[u] = "write"

(* The cases of writeMargins.                                              *)
HasOverflow(i) == i = OverflowBucket /\ overflow # << >>
HasSaved(t, i) == ~HasOverflow(i) /\ i = saved[t]

ReachesOver(t, i) ==
  /\ ~HasOverflow(i) /\ ~HasSaved(t, i)
  /\ Bwrite(i) > Bend(i) /\ Bsize(i) > BlockSize

Room(i) == Align(Bstart(i)) - Bstart(i)

(* What is there besides the buffers: it comes first.                      *)
Excess(t, i) == CASE HasOverflow(i)    -> overflow
                  [] HasSaved(t, i)    -> swap[t]
                  [] ReachesOver(t, i) -> Slice(Bend(i), Bwrite(i))
                  [] OTHER             -> << >>

Buffered(i) == FlattenSeq([k \in 1 .. step.threads |-> buffers[k - 1][i]])

(* "Perform final base case sort here, while the data is still cached."    *)
SortsBucket(i) ==
  step.n <= SingleLevel \/ (Bsize(i) <= 2 * BaseCaseSize /\ ~IsParallel)

(* What is written, and where: the head of the bucket is filled, then it   *)
(* goes on behind the blocks, or where the block from the overflow buffer  *)
(* belongs.                                                                *)
Items(t, i)   == Excess(t, i) \o Buffered(i)
TailStart(i) == Bwrite(i) - (IF HasOverflow(i) THEN BlockSize ELSE 0)
Place(i, k) ==
  IF k <= Room(i) THEN Bstart(i) + k - 1 ELSE TailStart(i) + k - Room(i) - 1

(* One round of writeMargins.                                              *)
WriteMargin(t) ==
  LET i     == next[t]
      items == Items(t, i)
      from  == IF ReachesOver(t, i) THEN MovedFrom(Bend(i), Bwrite(i)) ELSE arr
  IN
  /\ MayWrite(t) /\ i < LastBucket(t)
  /\ arr' = [p \in DOMAIN arr |->
               IF \E k \in 1 .. Len(items) : Place(i, k) = p
                 THEN items[CHOOSE k \in 1 .. Len(items) : Place(i, k) = p]
                 ELSE from[p]]
  /\ touched' = [touched EXCEPT ![t] = @ \cup {Place(i, k) : k \in 1 .. Len(items)}
                   \cup (IF ReachesOver(t, i) THEN Bend(i) .. Bwrite(i) - 1 ELSE {})
                   \cup (IF SortsBucket(i) THEN Segment(i) ELSE {})]
  /\ overflow' = IF HasOverflow(i) THEN << >> ELSE overflow
  /\ swap'     = IF HasSaved(t, i) THEN [swap EXCEPT ![t] = << >>] ELSE swap
  /\ buffers'  = [u \in Threads |-> [buffers[u] EXCEPT ![i] = << >>]]
  /\ next'     = [next EXCEPT ![t] = i + 1]
  /\ UNCHANGED << step, saved, pc >>

Finished ==
  /\ \A t \in Threads : pc[t] = "write" /\ next[t] = LastBucket(t)
  /\ UNCHANGED vars

Next == (\E t \in Threads : SaveMargins(t) \/ WriteMargin(t)) \/ Finished

Spec == Init /\ [][Next]_vars

-----------------------------------------------------------------------------
(* What the code assumes of the bucket that a thread is about to write     *)
(* (IPS4OML_ASSUME_NOT, a promise to the compiler): a block that overflows *)
(* or reaches over the end is the last one, and what does not fit into the *)
(* tail fits into the head.                                                *)
AssumptionsHold ==
  \A t \in Threads : MayWrite(t) /\ next[t] < LastBucket(t) =>
    LET i == next[t] IN
    /\ HasOverflow(i) => /\ Align(Bend(i)) = Bwrite(i)
                         /\ Bend(i) - (Bwrite(i) - BlockSize) + Room(i) >= BlockSize
    /\ HasSaved(t, i) => Len(swap[t]) <= Room(i)
    /\ ReachesOver(t, i) => Align(Bend(i)) = Bwrite(i) /\ Bwrite(i) - Bend(i) <= Room(i)

(* No two threads access the same element while they write, nor one out of *)
(* bounds, although the blocks of a bucket reach into the next one.        *)
NoSharedElement ==
  \A t \in Threads :
    /\ touched[t] \subseteq DOMAIN arr
    /\ \A u \in Threads \ {t} : touched[t] \cap touched[u] = {}

(* From when a thread has written a bucket, exactly the elements of the    *)
(* bucket are where it belongs, and none of them is in a buffer.  Only     *)
(* then is it sorted, or a task for other threads.                         *)
BucketComplete ==
  \A t \in Threads : \A i \in FirstBucket(t) .. next[t] - 1 :
    /\ {arr[p] : p \in Segment(i)} = Elements(i)
    /\ \A u \in Threads : buffers[u][i] = << >>
=============================================================================
