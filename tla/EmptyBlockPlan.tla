---------------------------- MODULE EmptyBlockPlan ----------------------------
(***************************************************************************)
(* What moveEmptyBlocks (empty_block_movement.hpp) makes each thread do, as*)
(* functions of what the threads have published about their stripes: a     *)
(* record c of Classified.  The threads compute it without communicating.  *)
(* Positions are counted in elements as in the code; moves and pointers are*)
(* given in slots of BlockSize elements.                                   *)
(***************************************************************************)
EXTENDS LocalClassification

(* alignToNextBlock(bucket_start_[b])                                      *)
Start(c, b) == AlignToNextBlock(c.bucket_start[b])

MinOf(a, b) == IF a <= b THEN a ELSE b
MaxOf(a, b) == IF a <= b THEN b ELSE a

(* f[a] + ... + f[b - 1] for a count f of each stripe.                     *)
Before(f) ==
  LET sum[p \in 0 .. NumThreads] == IF p = 0 THEN 0 ELSE sum[p - 1] + f[p - 1] IN sum
Sum(f, a, b) == Before(f)[b] - Before(f)[a]

(* A stripe without elements ("less than two blocks per thread").          *)
HasStripe(c, id) == c.my_begin[id] < c.my_end[id]

(* bucket_range_start and bucket_range_end: the buckets that begin in this *)
(* stripe.  The last thread also takes those at the end of the input.      *)
RangeStart(c, id) ==
  CHOOSE i \in 0 .. NumBuckets :
    /\ Start(c, i) >= c.my_begin[id]
    /\ \A j \in 0 .. i - 1 : Start(c, j) < c.my_begin[id]

(* Faulty variant: no exception for the last thread.                       *)
RangeEndInStripe(c, id) ==
  CHOOSE i \in RangeStart(c, id) .. NumBuckets :
    /\ i = NumBuckets \/ Start(c, i) >= c.my_end[id]
    /\ \A j \in RangeStart(c, id) .. i - 1 : Start(c, j) < c.my_end[id]

RangeEnd(c, id) ==
  IF id = NumThreads - 1 THEN NumBuckets
  ELSE CHOOSE i \in RangeStart(c, id) .. NumBuckets :
         /\ i = NumBuckets \/ Start(c, i) >= c.my_end[id]
         /\ \A j \in RangeStart(c, id) .. i - 1 : Start(c, j) < c.my_end[id]

BucketEnd(c, id)   == Start(c, RangeEnd(c, id))
Overlapping(c, id) == BucketEnd(c, id) > c.my_end[id]
(* overlapping_bucket and its bucket_start.                                *)
LastBucket(c, id)  == RangeEnd(c, id) - 1
LastStart(c, id)   == Start(c, LastBucket(c, id))

(* The full blocks that the stripes hold of the overlapping bucket, counted*)
(* in elements: those of the threads to the left, the thread's own, and    *)
(* those of the threads to the right, the readable ones.                   *)
Flushed(c) == [p \in Threads |-> c.first_empty[p] - c.my_begin[p]]

FlushedLeft(c, id) ==
  IF LastStart(c, id) >= c.my_begin[id] THEN 0
  ELSE LET first == CHOOSE p \in 0 .. id - 1 :
                      /\ LastStart(c, id) >= c.my_begin[p]
                      /\ \A q \in p + 1 .. id - 1 : LastStart(c, id) < c.my_begin[q]
       IN  Sum(Flushed(c), first + 1, id) + MaxOf(0, c.first_empty[first] - LastStart(c, id))

FlushedOwn(c, id) ==
  MaxOf(0, c.first_empty[id] - MaxOf(c.my_begin[id], LastStart(c, id)))

(* read_from_thread: the stripe of the bucket's last block, "off by one".  *)
ReadBound(c, id) ==
  CHOOSE r \in id + 1 .. NumThreads :
    /\ r = NumThreads \/ BucketEnd(c, id) <= c.my_begin[r]
    /\ \A p \in id + 1 .. r - 1 : BucketEnd(c, id) > c.my_begin[p]

(* Faulty variant: blocks of the buckets that follow are read, too.        *)
ReadEndOfStripe(c, id, p) == c.first_empty[p]

ReadEnd(c, id, p) == MinOf(c.first_empty[p], BucketEnd(c, id))

Readable(c, id) == [p \in Threads |-> ReadEnd(c, id, p) - c.my_begin[p]]

FlushedRight(c, id) == Sum(Readable(c, id), id + 1, ReadBound(c, id))

(* Faulty variant: no thread has priority.                                 *)
ReservedNothing(c, id) == 0

(* elements_reserved: "Threads to the left of us get priority".            *)
Reserved(c, id) ==
  IF c.my_begin[id] > LastStart(c, id)
  THEN c.my_begin[id] - LastStart(c, id) - FlushedLeft(c, id)
  ELSE 0

(* first_empty_block_in_bucket, once every thread has moved its blocks.    *)
FirstEmptyInBucket(c, id) ==
  LastStart(c, id) + FlushedLeft(c, id) + FlushedOwn(c, id) + FlushedRight(c, id)

(* "The range of blocks we want to fill".                                  *)
FillBegin(c, id) == MaxOf(c.first_empty[id], LastStart(c, id))
FillEnd(c, id)   == MinOf(FirstEmptyInBucket(c, id), c.my_end[id])

(* The std::move of size elements that end at read_ptr, block by block.    *)
BlockMoves(read_ptr, size, write_ptr) ==
  [k \in 1 .. size \div BlockSize |->
     [from |-> (read_ptr - size) \div BlockSize + k - 1,
      to   |-> write_ptr \div BlockSize + k - 1]]

(* One round of "Read from other stripes until we filled our blocks".      *)
ReadFrom(c, id, st, p) ==
  LET range == Readable(c, id)[p]
      size  == MinOf(range - st.reserved, FillEnd(c, id) - st.write_ptr)
  IN  IF st.write_ptr >= FillEnd(c, id) THEN st
      ELSE IF st.reserved >= range THEN [st EXCEPT !.reserved = @ - range]
      ELSE [reserved  |-> 0,
            write_ptr |-> st.write_ptr + size,
            moves     |-> st.moves \o
                          BlockMoves(ReadEnd(c, id, p) - st.reserved, size, st.write_ptr)]

(* The state of the reading loop after each round.  Nothing but the counts *)
(* stops read_from_thread at the thread's own stripe.                      *)
Reading(c, id) ==
  LET after[k \in 0 .. ReadBound(c, id)] ==
        IF k = 0 THEN [reserved |-> Reserved(c, id), write_ptr |-> FillBegin(c, id),
                       moves |-> << >>]
        ELSE ReadFrom(c, id, after[k - 1], ReadBound(c, id) - k)
  IN  after

(* The block moves of a thread, in order.                                  *)
Moves(c, id) ==
  IF ~HasStripe(c, id) \/ ~Overlapping(c, id) THEN << >>
  ELSE Reading(c, id)[ReadBound(c, id)].moves

(* Faulty variant: no case for a bucket without full blocks.               *)
FullUpToFirstEmpty(c, id, b) == MinOf(c.first_empty[id], Start(c, b + 1))

(* Case 1: the end of the full blocks of a bucket within the stripe.       *)
FullUpTo(c, id, b) == MaxOf(Start(c, b), MinOf(c.first_empty[id], Start(c, b + 1)))

(* The pointers that a thread sets, for its buckets: case 1 for those that *)
(* end in its stripe, and the overlapping one if it begins there.          *)
Pointers(c, id) ==
  LET whole == RangeStart(c, id) ..
                 (IF Overlapping(c, id) THEN LastBucket(c, id) - 1 ELSE LastBucket(c, id))
      last  == IF Overlapping(c, id) /\ c.my_begin[id] <= LastStart(c, id)
               THEN {LastBucket(c, id)} ELSE {}
      full(b) == IF b \in last THEN FirstEmptyInBucket(c, id)
                 ELSE FullUpTo(c, id, b)
  IN  IF ~HasStripe(c, id) THEN << >>
      ELSE [b \in whole \cup last |->
              [write |-> Start(c, b) \div BlockSize, read |-> full(b) \div BlockSize - 1]]

(* The slots after all moves.  No two of them touch the same slot (see     *)
(* EmptyBlockMovement), so their order does not matter.                    *)
Slots(c) == 0 .. c.n \div BlockSize - 1

ContentAfterMoves(c) ==
  LET all   == UNION {Range(Moves(c, id)) : id \in Threads}
      start == [s \in Slots(c) |-> IF s \in DOMAIN c.bucket THEN s ELSE NoBlock]
  IN  [s \in Slots(c) |->
         IF \E m \in all : m.to = s THEN start[(CHOOSE m \in all : m.to = s).from]
         ELSE IF \E m \in all : m.from = s THEN NoBlock
         ELSE start[s]]

(* The layout that slots and the read pointers of the buckets describe.    *)
LayoutOf(c, content, last) ==
  [first   |-> [b \in 0 .. NumBuckets |-> SlotsUpTo(c.bucket_start[b])],
   last    |-> last,
   max_off |-> c.n \div BlockSize,
   bucket  |-> c.bucket,
   content |-> content,
   large   |-> {b \in Buckets : c.bucket_start[b + 1] - c.bucket_start[b] > BlockSize}]

LayoutAfterMoves(c) ==
  LET setter(b) == CHOOSE id \in Threads : b \in DOMAIN Pointers(c, id)
  IN  LayoutOf(c, ContentAfterMoves(c), [b \in Buckets |-> Pointers(c, setter(b))[b].read])

===============================================================================
