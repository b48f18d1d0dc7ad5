------------------------ MODULE BlockPermutationProofs ------------------------
(***************************************************************************)
(* The permutation phase is right, for every number of threads and every   *)
(* layout: the accesses of the threads exclude each other, no block is     *)
(* lost, at most one overflows, and in the end each bucket has its blocks. *)
(*                                                                         *)
(* A slot of a bucket is claimed by decRead while it is at or after the    *)
(* write pointer, or by incWrite.  A slot with a block at or before the    *)
(* read pointer goes to one of them only.  A slot after the read pointer   *)
(* may be claimed by a writer while a reader that claimed it earlier has   *)
(* not yet taken its block: ReaderClaims says that such a writer is still  *)
(* waiting for num_reading_ to become zero.  That a bucket's write pointer *)
(* stays in the bucket's area is a matter of counting: each slot it has    *)
(* passed stands for another block of the bucket (StandsFor), and the      *)
(* block that a thread is about to place is none of these.                 *)
(***************************************************************************)
EXTENDS BlockPermutation, FiniteSetTheorems, TLAPS

Carrying == {"stopRead", "incWrite", "isReading", "writeBlock", "inspect", "swapBlocks"}
Writing  == {"isReading", "writeBlock", "inspect", "swapBlocks"}

(* num_reading_ counts the readers.                                        *)
CountsReaders == \A b \in Buckets : num_reading[b] = Cardinality(Readers(b))

(* A thread has a block in its hand from readBlock to the end of the swap, *)
(* and knows the bucket of this block from stopRead on.                    *)
Hands ==
  \A t \in Threads :
    /\ hand[t] # NoBlock <=> pc[t] \in Carrying
    /\ pc[t] \in Carrying \ {"stopRead"} => dest_bucket[t] = layout.bucket[hand[t]]
    /\ pc[t] # "done" => count[t] # 0

(* No block is in two places ...                                           *)
Apart ==
  /\ \A r, s \in DOMAIN content : content[r] = content[s] /\ content[r] # NoBlock => r = s
  /\ \A s, t \in Threads : hand[s] = hand[t] /\ hand[s] # NoBlock => s = t
  /\ \A s, t \in Threads : overflow[s] = overflow[t] /\ overflow[s] # NoBlock => s = t
  /\ \A s \in DOMAIN content, t \in Threads :
       content[s] # NoBlock => content[s] # hand[t] /\ content[s] # overflow[t]
  /\ \A s, t \in Threads : hand[s] # NoBlock => hand[s] # overflow[t]

(* ... and each is somewhere.                                              *)
Somewhere ==
  \A x \in Blocks :
    \/ \E s \in DOMAIN content : content[s] = x
    \/ \E t \in Threads : hand[t] = x
    \/ \E t \in Threads : overflow[t] = x

(* The pointers stay in the area of their bucket.  Between them there are  *)
(* blocks; the slots after both are empty or about to be emptied.          *)
Pointers ==
  \A b \in Buckets :
    /\ layout.first[b] <= write[b] /\ write[b] <= layout.first[b + 1]
    /\ read[b] <= layout.last[b]
    /\ \A s \in DOMAIN content : write[b] <= s /\ s <= read[b] => content[s] # NoBlock
    /\ \A s \in DOMAIN content :
         write[b] <= s /\ read[b] < s /\ s < layout.first[b + 1] =>
           \/ content[s] = NoBlock
           \/ \E r \in Threads : pc[r] = "readBlock" /\ slot[r] = s

(* What a thread that has claimed a slot to read from relies on.           *)
ReaderClaims ==
  /\ \A t \in Threads : pc[t] = "readBlock" =>
       LET b == read_bucket[t] IN
       /\ layout.first[b] <= slot[t] /\ slot[t] <= layout.last[b] /\ read[b] < slot[t]
       /\ content[slot[t]] # NoBlock
       /\ slot[t] < write[b] =>
            \E w \in Threads : pc[w] = "isReading" /\ dest_bucket[w] = b /\ slot[w] = slot[t]
  /\ \A s, t \in Threads :
       pc[s] = "readBlock" /\ pc[t] = "readBlock" /\ slot[s] = slot[t] => s = t

(* What a thread that has claimed a slot to write to relies on.            *)
WriterClaims ==
  /\ \A t \in Threads : pc[t] \in Writing =>
       /\ layout.first[dest_bucket[t]] <= slot[t] /\ slot[t] < write[dest_bucket[t]]
       /\ slot[t] < layout.max_off
  /\ \A t \in Threads : pc[t] = "isReading" =>
       \/ content[slot[t]] = NoBlock
       \/ \E r \in Threads : pc[r] = "readBlock" /\ slot[r] = slot[t]
  /\ \A t \in Threads : pc[t] = "writeBlock" => content[slot[t]] = NoBlock
  /\ \A t \in Threads : pc[t] \in {"inspect", "swapBlocks"} =>
       /\ content[slot[t]] # NoBlock
       /\ \A r \in Threads : pc[r] = "readBlock" => slot[r] # slot[t]
  /\ \A s, t \in Threads :
       pc[s] \in Writing /\ pc[t] \in Writing /\ slot[s] = slot[t] => s = t

(* A write pointer beyond the last slot stands for the overflow block.     *)
OverflowClaim ==
  /\ \A b \in Buckets : write[b] > layout.max_off /\ layout.first[b] <= layout.max_off =>
       \E t \in Threads : overflow[t] # NoBlock /\ layout.bucket[overflow[t]] = b
  /\ \A t \in Threads : overflow[t] # NoBlock =>
       /\ layout.first[layout.bucket[overflow[t]]] <= layout.max_off
       /\ write[layout.bucket[overflow[t]]] = layout.max_off + 1
       /\ \A s \in Threads : overflow[s] # NoBlock => s = t

IInv ==
  /\ layout \in Layouts
  /\ TypeOK
  /\ CountsReaders
  /\ Hands
  /\ Apart
  /\ Somewhere
  /\ Pointers
  /\ ReaderClaims
  /\ WriterClaims
  /\ Settled
  /\ OverflowClaim

------------------------------------------------------------------------------
(* The layout at the start, in the terms in which the proofs need it.      *)
LEMMA LayoutFacts ==
  ASSUME layout \in Layouts
  PROVE  /\ layout.max_off \in Nat
         /\ layout.content \in [0 .. layout.max_off - 1 -> Blocks \cup {NoBlock}]
         /\ layout.bucket \in [Blocks -> Buckets]
         /\ layout.last \in [Buckets -> Int]
         /\ NoBlock \notin Blocks
         /\ IsFiniteSet(Blocks)
         /\ \A b \in Buckets :
              /\ layout.first[b] \in Nat /\ layout.first[b + 1] \in Nat
              /\ layout.first[b] <= layout.first[b + 1]
              /\ layout.first[b + 1] <= layout.max_off + 1
              /\ layout.first[b] - 1 <= layout.last[b]
              /\ layout.last[b] < layout.first[b + 1]
              /\ layout.last[b] < layout.max_off \/ layout.last[b] = layout.first[b] - 1
              /\ Cardinality(BlocksOf(layout, b)) <= layout.first[b + 1] - layout.first[b]
         /\ \A a, b \in Buckets : a < b => layout.first[a + 1] <= layout.first[b]
<1>1. IsLayout(layout) /\ NumBuckets \in Nat \ {0}
  BY PermutationAssumption
<1>2. /\ layout.first \in [0 .. NumBuckets -> Nat]
      /\ layout.first[NumBuckets] <= layout.max_off + 1
      /\ layout.max_off \in Nat
      /\ \A a, b \in 0 .. NumBuckets : a <= b => layout.first[a] <= layout.first[b]
  <2>1. /\ layout.first \in [0 .. NumBuckets -> Nat]
        /\ layout.first[NumBuckets] \in {layout.max_off, layout.max_off + 1}
        /\ layout.max_off \in Nat
        /\ \A a, b \in 0 .. NumBuckets : a <= b => layout.first[a] <= layout.first[b]
    BY <1>1, Zenon DEF IsLayout
  <2>. QED  BY <2>1
<1>3. ASSUME NEW b \in Buckets
      PROVE  /\ b \in 0 .. NumBuckets /\ b + 1 \in 0 .. NumBuckets
             /\ layout.first[b] \in Nat /\ layout.first[b + 1] \in Nat
             /\ layout.first[b] <= layout.first[b + 1]
             /\ layout.first[b + 1] <= layout.max_off + 1
  <2>1. /\ b \in 0 .. NumBuckets /\ b + 1 \in 0 .. NumBuckets
        /\ NumBuckets \in 0 .. NumBuckets /\ b <= b + 1 /\ b + 1 <= NumBuckets
    BY <1>1 DEF Buckets
  <2>2. layout.first[b] \in Nat /\ layout.first[b + 1] \in Nat /\ layout.first[NumBuckets] \in Nat
    BY <1>2, <2>1
  <2>3. layout.first[b] <= layout.first[b + 1] /\ layout.first[b + 1] <= layout.first[NumBuckets]
    BY <1>2, <2>1
  <2>. QED  BY <1>2, <2>1, <2>2, <2>3
<1>4. ASSUME NEW a \in Buckets, NEW b \in Buckets, a < b
      PROVE  layout.first[a + 1] <= layout.first[b]
  <2>1. a + 1 \in 0 .. NumBuckets /\ b \in 0 .. NumBuckets /\ a + 1 <= b
    BY <1>1, <1>4 DEF Buckets
  <2>. QED  BY <1>2, <2>1
<1>5. NoBlock \notin Blocks
  BY <1>1 DEF IsLayout, Blocks, NoBlock
<1>6. /\ layout.content \in [0 .. layout.max_off - 1 -> Blocks \cup {NoBlock}]
      /\ layout.bucket \in [Blocks -> Buckets]
      /\ layout.last \in [Buckets -> Int]
      /\ IsFiniteSet(Blocks)
      /\ \A b \in Buckets :
              /\ layout.first[b] - 1 <= layout.last[b]
              /\ layout.last[b] < layout.first[b + 1]
              /\ layout.last[b] < layout.max_off \/ layout.last[b] = layout.first[b] - 1
              /\ Cardinality(BlocksOf(layout, b)) <= layout.first[b + 1] - layout.first[b]
  BY <1>1, Zenon DEF IsLayout, Blocks
<1>. QED  BY <1>2, <1>3, <1>4, <1>5, <1>6

(* The areas of the buckets are disjoint.                                  *)
LEMMA AreasDisjoint ==
  ASSUME layout \in Layouts, NEW a \in Buckets, NEW b \in Buckets, NEW s \in Int,
         layout.first[a] <= s, s < layout.first[a + 1],
         layout.first[b] <= s, s < layout.first[b + 1]
  PROVE  a = b
<1>1. /\ layout.first[a] \in Nat /\ layout.first[a + 1] \in Nat
      /\ layout.first[b] \in Nat /\ layout.first[b + 1] \in Nat
      /\ a < b => layout.first[a + 1] <= layout.first[b]
      /\ b < a => layout.first[b + 1] <= layout.first[a]
  BY LayoutFacts
<1>2. ~(a < b) /\ ~(b < a)
  BY <1>1
<1>. QED  BY <1>2, PermutationAssumption DEF Buckets

Reading == {"decRead", "noMoreBlocks", "readBlock", "stopRead"}

LEMMA ReaderSets ==
  ASSUME NEW b \in Buckets
  PROVE  /\ IsFiniteSet(Readers(b))
         /\ Cardinality(Readers(b)) \in 0 .. NumThreads
<1>1. IsFiniteSet(Threads) /\ Cardinality(Threads) = NumThreads
  BY PermutationAssumption, FS_Interval DEF Threads
<1>2. Readers(b) \subseteq Threads
  BY DEF Readers
<1>3. IsFiniteSet(Readers(b)) /\ Cardinality(Readers(b)) <= NumThreads
  BY <1>1, <1>2, FS_Subset
<1>. QED  BY <1>3, FS_CardinalityType, PermutationAssumption

(* No reader is counted anew or dropped by a thread that goes from reading *)
(* to reading, or from not reading to not reading.                         *)
LEMMA SameReaders ==
  ASSUME CountsReaders, NEW t \in Threads, NEW p,
         pc \in [Threads -> PCs],
         pc' = [pc EXCEPT ![t] = p], p \in Reading <=> pc[t] \in Reading,
         read_bucket' = read_bucket, num_reading' = num_reading
  PROVE  CountsReaders'
<1>1. ASSUME NEW b \in Buckets  PROVE  Readers(b)' = Readers(b)
  BY DEF Readers, Reading
<1>. QED  BY <1>1 DEF CountsReaders

(* A thread that stops to read is no longer counted.                       *)
LEMMA LessReaders ==
  ASSUME CountsReaders, NEW t \in Threads, NEW p,
         pc \in [Threads -> PCs], read_bucket \in [Threads -> Buckets],
         num_reading \in [Buckets -> 0 .. NumThreads],
         pc' = [pc EXCEPT ![t] = p], p \notin Reading, pc[t] \in Reading,
         \A u \in Threads : u # t => read_bucket'[u] = read_bucket[u],
         num_reading' = [num_reading EXCEPT ![read_bucket[t]] = @ - 1]
  PROVE  CountsReaders' /\ num_reading' \in [Buckets -> 0 .. NumThreads]
<1>1. ASSUME NEW b \in Buckets
      PROVE  Readers(b)' = IF b = read_bucket[t] THEN Readers(b) \ {t} ELSE Readers(b)
  BY DEF Readers, Reading
<1>2. t \in Readers(read_bucket[t])
  BY DEF Readers, Reading
<1>3. ASSUME NEW b \in Buckets
      PROVE  num_reading'[b] = Cardinality(Readers(b)') /\ num_reading'[b] \in 0 .. NumThreads
  <2>1. CASE b = read_bucket[t]
    <3>1. Cardinality(Readers(b) \ {t}) = Cardinality(Readers(b)) - 1
      BY <1>2, <2>1, ReaderSets, FS_RemoveElement
    <3>2. IsFiniteSet(Readers(b) \ {t})
      BY <1>2, <2>1, ReaderSets, FS_RemoveElement
    <3>3. num_reading'[b] = num_reading[b] - 1 /\ num_reading[b] = Cardinality(Readers(b))
      BY <2>1 DEF CountsReaders
    <3>4. Cardinality(Readers(b) \ {t}) \in Nat
      BY <3>2, FS_CardinalityType
    <3>5. Readers(b)' = Readers(b) \ {t}
      BY <1>1, <2>1
    <3>6. num_reading'[b] \in 0 .. NumThreads
      BY <3>1, <3>3, <3>4, ReaderSets, PermutationAssumption
    <3>7. num_reading'[b] = Cardinality(Readers(b)')
      BY <3>1, <3>3, <3>5
    <3>. QED  BY <3>6, <3>7
  <2>2. CASE b # read_bucket[t]
    BY <1>1, <2>2 DEF CountsReaders
  <2>. QED  BY <2>1, <2>2
<1>4. num_reading' = [b \in Buckets |-> num_reading'[b]]
  OBVIOUS
<1>. QED  BY <1>3, <1>4 DEF CountsReaders

(* A thread that begins to read is counted.                                *)
LEMMA MoreReaders ==
  ASSUME CountsReaders, NEW t \in Threads, NEW p,
         pc \in [Threads -> PCs], read_bucket \in [Threads -> Buckets],
         num_reading \in [Buckets -> 0 .. NumThreads],
         pc' = [pc EXCEPT ![t] = p], p \in Reading, pc[t] \notin Reading,
         read_bucket' = read_bucket,
         num_reading' = [num_reading EXCEPT ![read_bucket[t]] = @ + 1]
  PROVE  CountsReaders' /\ num_reading' \in [Buckets -> 0 .. NumThreads]
<1>1. ASSUME NEW b \in Buckets
      PROVE  Readers(b)' = IF b = read_bucket[t] THEN Readers(b) \cup {t} ELSE Readers(b)
  BY DEF Readers, Reading
<1>2. t \notin Readers(read_bucket[t])
  BY DEF Readers, Reading
<1>3. ASSUME NEW b \in Buckets
      PROVE  num_reading'[b] = Cardinality(Readers(b)') /\ num_reading'[b] \in 0 .. NumThreads
  <2>1. CASE b = read_bucket[t]
    <3>1. Cardinality(Readers(b) \cup {t}) = Cardinality(Readers(b)) + 1
      BY <1>2, <2>1, ReaderSets, FS_AddElement
    <3>2. IsFiniteSet(Threads) /\ Cardinality(Threads) = NumThreads
      BY PermutationAssumption, FS_Interval DEF Threads
    <3>3. Readers(b) \cup {t} \subseteq Threads
      BY DEF Readers
    <3>4. Cardinality(Readers(b) \cup {t}) <= NumThreads
      BY <3>2, <3>3, FS_Subset
    <3>5. num_reading'[b] = num_reading[b] + 1 /\ num_reading[b] = Cardinality(Readers(b))
      BY <2>1 DEF CountsReaders
    <3>6. Readers(b)' = Readers(b) \cup {t}
      BY <1>1, <2>1
    <3>7. num_reading'[b] \in 0 .. NumThreads
      BY <3>1, <3>4, <3>5, ReaderSets, PermutationAssumption
    <3>8. num_reading'[b] = Cardinality(Readers(b)')
      BY <3>1, <3>5, <3>6
    <3>. QED  BY <3>7, <3>8
  <2>2. CASE b # read_bucket[t]
    BY <1>1, <2>2 DEF CountsReaders
  <2>. QED  BY <2>1, <2>2
<1>4. num_reading' = [b \in Buckets |-> num_reading'[b]]
  OBVIOUS
<1>. QED  BY <1>3, <1>4 DEF CountsReaders

------------------------------------------------------------------------------
(* Block x is the one that slot s of bucket b was passed for: it is in the *)
(* hand of the writer that claimed s, or in s, or in the overflow buffer.  *)
StandsFor(b, s, x) ==
  \/ \E w \in Writers(b) : slot[w] = s /\ hand[w] = x
  \/ /\ \A w \in Writers(b) : slot[w] # s
     /\ s \in DOMAIN content /\ content[s] = x
  \/ s = layout.max_off /\ \E t \in Threads : overflow[t] = x

Passed(b) == layout.first[b] .. write[b] - 1

LEMMA PassedSlotHasBlock ==
  ASSUME IInv, NEW b \in Buckets, NEW s \in Passed(b)
  PROVE  \E x \in BlocksOf(layout, b) : StandsFor(b, s, x)
<1>1. /\ layout \in Layouts /\ TypeOK
      /\ write[b] \in Nat /\ layout.first[b] \in Nat /\ layout.max_off \in Nat
      /\ layout.first[b] <= s /\ s < write[b] /\ s \in Nat
      /\ write[b] <= layout.max_off + 1
      /\ layout.bucket \in [Blocks -> Buckets]
  <2>1. layout \in Layouts /\ TypeOK
    BY DEF IInv
  <2>2. /\ layout.first[b] \in Nat /\ layout.first[b + 1] \in Nat /\ layout.max_off \in Nat
        /\ layout.first[b + 1] <= layout.max_off + 1
        /\ layout.bucket \in [Blocks -> Buckets]
    BY <2>1, LayoutFacts
  <2>3. write[b] \in Nat /\ write[b] <= layout.first[b + 1]
    BY <2>1 DEF IInv, TypeOK, Pointers
  <2>. QED  BY <2>1, <2>2, <2>3 DEF Passed
<1>2. DOMAIN content = 0 .. layout.max_off - 1
  BY <1>1 DEF TypeOK
<1>3. CASE \E w \in Writers(b) : slot[w] = s
  <2>1. PICK w \in Writers(b) : slot[w] = s
    BY <1>3
  <2>2. w \in Threads /\ hand[w] # NoBlock /\ layout.bucket[hand[w]] = b
    BY <2>1 DEF IInv, Hands, Writers, Carrying
  <2>3. hand[w] \in Blocks
    BY <1>1, <2>2 DEF TypeOK
  <2>. QED  BY <2>1, <2>2, <2>3 DEF StandsFor, BlocksOf, Blocks
<1>4. CASE s < layout.max_off /\ \A w \in Writers(b) : slot[w] # s
  <2>1. s \in DOMAIN content
    BY <1>1, <1>2, <1>4
  <2>2. content[s] \in Blocks /\ layout.bucket[content[s]] = b
    BY <1>1, <1>4, <2>1 DEF IInv, Settled
  <2>. QED  BY <1>4, <2>1, <2>2 DEF StandsFor, BlocksOf, Blocks
<1>5. CASE s >= layout.max_off
  <2>1. s = layout.max_off /\ write[b] > layout.max_off /\ layout.first[b] <= layout.max_off
    BY <1>1, <1>5
  <2>2. PICK t \in Threads : overflow[t] # NoBlock /\ layout.bucket[overflow[t]] = b
    BY <2>1 DEF IInv, OverflowClaim
  <2>3. overflow[t] \in Blocks
    BY <1>1, <2>2 DEF TypeOK
  <2>. QED  BY <2>1, <2>2, <2>3 DEF StandsFor, BlocksOf, Blocks
<1>. QED  BY <1>1, <1>3, <1>4, <1>5

LEMMA OneSlotPerBlock ==
  ASSUME IInv, NEW b \in Buckets, NEW r \in Passed(b), NEW s \in Passed(b),
         NEW x \in BlocksOf(layout, b), StandsFor(b, r, x), StandsFor(b, s, x)
  PROVE  r = s
<1>1. x # NoBlock
  BY LayoutFacts DEF IInv, BlocksOf, Blocks
<1>2. \A w \in Writers(b) : w \in Threads
  BY DEF Writers
<1>. QED  BY <1>1, <1>2 DEF StandsFor, IInv, Apart

(* There is a slot left in the bucket of a block that is not yet placed.   *)
LEMMA RoomForBlock ==
  ASSUME IInv, NEW t \in Threads, pc[t] = "incWrite"
  PROVE  /\ dest_bucket[t] \in Buckets
         /\ write[dest_bucket[t]] < layout.first[dest_bucket[t] + 1]
<1>. DEFINE b == dest_bucket[t]
            Free == BlocksOf(layout, b) \ {hand[t]}
            f == [s \in Passed(b) |-> CHOOSE x \in BlocksOf(layout, b) : StandsFor(b, s, x)]
<1>1. /\ layout \in Layouts /\ b \in Buckets /\ hand[t] \in BlocksOf(layout, b)
      /\ write[b] \in Nat /\ layout.first[b] \in Nat /\ layout.first[b] <= write[b]
  <2>1. layout \in Layouts /\ b \in Buckets /\ hand[t] # NoBlock /\ layout.bucket[hand[t]] = b
    BY DEF IInv, TypeOK, Hands, Carrying
  <2>2. hand[t] \in Blocks
    BY <2>1 DEF IInv, TypeOK
  <2>. QED  BY <2>1, <2>2, LayoutFacts DEF IInv, TypeOK, Pointers, BlocksOf, Blocks
<1>. HIDE DEF b
<1>2. \A s \in Passed(b) : f[s] \in BlocksOf(layout, b) /\ StandsFor(b, s, f[s])
  BY <1>1, PassedSlotHasBlock
<1>3. ASSUME NEW s \in Passed(b)  PROVE  f[s] # hand[t]
  <2>1. ~ StandsFor(b, s, hand[t])
    <3>1. t \notin Writers(b) /\ \A w \in Writers(b) : w \in Threads
      BY DEF Writers
    <3>2. hand[t] # NoBlock
      BY <1>1, LayoutFacts DEF BlocksOf, Blocks
    <3>. QED  BY <3>1, <3>2 DEF StandsFor, IInv, Apart
  <2>. QED  BY <1>2, <2>1
<1>4. f \in Injection(Passed(b), Free)
  <2>1. \A s \in Passed(b) : f[s] \in Free
    BY <1>2, <1>3
  <2>2. \A r, s \in Passed(b) : f[r] = f[s] => r = s
    BY <1>1, <1>2, OneSlotPerBlock
  <2>3. f \in [Passed(b) -> Free]
    BY <2>1
  <2>. HIDE DEF f
  <2>. QED  BY <2>2, <2>3 DEF Injection, IsInjective
<1>5. /\ IsFiniteSet(Free)
      /\ Cardinality(Free) = Cardinality(BlocksOf(layout, b)) - 1
  <2>1. BlocksOf(layout, b) \subseteq Blocks /\ IsFiniteSet(Blocks)
    BY <1>1, LayoutFacts DEF BlocksOf, Blocks
  <2>2. IsFiniteSet(BlocksOf(layout, b))
    BY <2>1, FS_Subset
  <2>. QED  BY <1>1, <2>2, FS_RemoveElement
<1>6. Cardinality(Passed(b)) <= Cardinality(Free)
  BY <1>4, <1>5, FS_Injection
<1>7. Cardinality(Passed(b)) = write[b] - layout.first[b]
  <2>1. write[b] - 1 \in Int /\ layout.first[b] \in Int
    BY <1>1
  <2>2. Cardinality(Passed(b)) = IF layout.first[b] > write[b] - 1
                                 THEN 0 ELSE (write[b] - 1) - layout.first[b] + 1
    BY <2>1, FS_Interval, Zenon DEF Passed
  <2>. QED  BY <1>1, <2>2
<1>8. /\ Cardinality(BlocksOf(layout, b)) <= layout.first[b + 1] - layout.first[b]
      /\ layout.first[b + 1] \in Nat
      /\ Cardinality(BlocksOf(layout, b)) \in Nat
  <2>1. BlocksOf(layout, b) \subseteq Blocks /\ IsFiniteSet(Blocks)
    BY <1>1, LayoutFacts DEF BlocksOf, Blocks
  <2>2. IsFiniteSet(BlocksOf(layout, b))
    BY <2>1, FS_Subset
  <2>. QED  BY <1>1, <2>2, LayoutFacts, FS_CardinalityType
<1>9. write[b] < layout.first[b + 1]
  BY <1>1, <1>5, <1>6, <1>7, <1>8
<1>. QED  BY <1>1, <1>9 DEF b

------------------------------------------------------------------------------
(* Claimed slots are in the area of the bucket they were claimed in.       *)
LEMMA ReaderInArea ==
  ASSUME IInv, NEW t \in Threads, pc[t] = "readBlock"
  PROVE  /\ slot[t] \in DOMAIN content /\ slot[t] \in Nat /\ read_bucket[t] \in Buckets
         /\ layout.first[read_bucket[t]] <= slot[t] /\ slot[t] < layout.first[read_bucket[t] + 1]
<1>1. /\ layout \in Layouts /\ TypeOK /\ read_bucket[t] \in Buckets
      /\ slot[t] \in Int /\ DOMAIN content = 0 .. layout.max_off - 1
  BY DEF IInv, TypeOK
<1>2. layout.first[read_bucket[t]] <= slot[t] /\ slot[t] <= layout.last[read_bucket[t]]
  BY DEF IInv, ReaderClaims
<1>3. /\ layout.first[read_bucket[t]] \in Nat /\ layout.last[read_bucket[t]] \in Int
      /\ layout.max_off \in Nat /\ layout.first[read_bucket[t] + 1] \in Nat
      /\ layout.last[read_bucket[t]] < layout.first[read_bucket[t] + 1]
      /\ \/ layout.last[read_bucket[t]] < layout.max_off
         \/ layout.last[read_bucket[t]] = layout.first[read_bucket[t]] - 1
  BY <1>1, LayoutFacts
<1>. QED  BY <1>1, <1>2, <1>3

LEMMA WriterInArea ==
  ASSUME IInv, NEW t \in Threads, pc[t] \in Writing
  PROVE  /\ slot[t] \in DOMAIN content /\ slot[t] \in Nat /\ dest_bucket[t] \in Buckets
         /\ layout.first[dest_bucket[t]] <= slot[t] /\ slot[t] < layout.first[dest_bucket[t] + 1]
<1>1. /\ layout \in Layouts /\ TypeOK /\ dest_bucket[t] \in Buckets
      /\ slot[t] \in Int /\ DOMAIN content = 0 .. layout.max_off - 1
      /\ write[dest_bucket[t]] \in Nat
  BY DEF IInv, TypeOK
<1>2. /\ layout.first[dest_bucket[t]] <= slot[t] /\ slot[t] < write[dest_bucket[t]]
      /\ slot[t] < layout.max_off
  BY DEF IInv, WriterClaims
<1>3. write[dest_bucket[t]] <= layout.first[dest_bucket[t] + 1]
  BY <1>1 DEF IInv, Pointers
<1>4. /\ layout.first[dest_bucket[t]] \in Nat /\ layout.first[dest_bucket[t] + 1] \in Nat
      /\ layout.max_off \in Nat
  BY <1>1, LayoutFacts
<1>. QED  BY <1>1, <1>2, <1>3, <1>4

------------------------------------------------------------------------------
(* Each step preserves the invariant.                                      *)
LEMMA StartReadPreserves ==
  ASSUME IInv, NEW t \in Threads, StartRead(t)
  PROVE  IInv'
<1>1. TypeOK /\ pc \in [Threads -> PCs] /\ read_bucket \in [Threads -> Buckets]
      /\ num_reading \in [Buckets -> 0 .. NumThreads]
  BY DEF IInv, TypeOK
<1>2. CountsReaders' /\ num_reading' \in [Buckets -> 0 .. NumThreads]
  BY <1>1, MoreReaders DEF IInv, StartRead, Goto, Reading
<1>3. layout' \in Layouts /\ TypeOK'
  BY <1>1, <1>2 DEF IInv, TypeOK, StartRead, Goto, PCs, Blocks
<1>4. Hands'
  BY <1>1 DEF IInv, Hands, StartRead, Goto, Carrying
<1>5. Apart' /\ Somewhere'
  BY DEF IInv, Apart, Somewhere, StartRead, Blocks
<1>6. Pointers'
  BY <1>1 DEF IInv, Pointers, StartRead, Goto
<1>7. ReaderClaims'
  BY <1>1 DEF IInv, ReaderClaims, StartRead, Goto
<1>8. WriterClaims'
  BY <1>1 DEF IInv, WriterClaims, StartRead, Goto, Writing
<1>9. Settled'
  BY <1>1 DEF IInv, Settled, Writers, StartRead, Goto, Blocks
<1>10. OverflowClaim'
  BY DEF IInv, OverflowClaim, StartRead
<1>. QED  BY <1>2, <1>3, <1>4, <1>5, <1>6, <1>7, <1>8, <1>9, <1>10 DEF IInv

LEMMA DecReadPreserves ==
  ASSUME IInv, NEW t \in Threads, DecRead(t)
  PROVE  IInv'
<1>. DEFINE b == read_bucket[t]
<1>1. /\ TypeOK /\ pc \in [Threads -> PCs] /\ read_bucket \in [Threads -> Buckets]
      /\ slot \in [Threads -> Int] /\ read \in [Buckets -> Int] /\ write \in [Buckets -> Nat]
      /\ b \in Buckets /\ read[b] \in Int /\ write[b] \in Nat /\ layout \in Layouts
      /\ DOMAIN content = 0 .. layout.max_off - 1
  BY DEF IInv, TypeOK
<1>2. /\ layout' = layout /\ write' = write /\ num_reading' = num_reading
      /\ content' = content /\ read_bucket' = read_bucket /\ count' = count
      /\ hand' = hand /\ dest_bucket' = dest_bucket /\ overflow' = overflow
      /\ read' = [read EXCEPT ![b] = @ - 1] /\ slot' = [slot EXCEPT ![t] = read[b]]
      /\ pc[t] = "decRead"
      /\ pc' = [pc EXCEPT ![t] = IF read[b] < write[b] THEN "noMoreBlocks" ELSE "readBlock"]
  BY DEF DecRead, Goto
<1>3. CountsReaders'
  BY <1>1, <1>2, SameReaders DEF IInv, Reading
<1>4. layout' \in Layouts /\ TypeOK'
  BY <1>1, <1>2 DEF TypeOK, PCs, Blocks
<1>5. Hands'
  BY <1>1, <1>2 DEF IInv, Hands, Carrying
<1>6. Apart' /\ Somewhere'
  BY <1>2 DEF IInv, Apart, Somewhere, Blocks
<1>7. ASSUME ~(read[b] < write[b])
      PROVE  /\ layout.first[b] <= read[b] /\ read[b] <= layout.last[b]
             /\ read[b] \in DOMAIN content /\ content[read[b]] # NoBlock
             /\ read[b] < layout.first[b + 1]
  <2>1. layout.first[b] <= read[b] /\ read[b] <= layout.last[b]
    BY <1>1, <1>7, LayoutFacts DEF IInv, Pointers
  <2>2. /\ layout.first[b] \in Nat /\ layout.last[b] \in Int /\ layout.max_off \in Nat
        /\ layout.first[b + 1] \in Nat /\ layout.last[b] < layout.first[b + 1]
        /\ layout.last[b] < layout.max_off \/ layout.last[b] = layout.first[b] - 1
    BY <1>1, LayoutFacts
  <2>3. read[b] \in DOMAIN content /\ read[b] < layout.first[b + 1]
    BY <1>1, <2>1, <2>2
  <2>4. \A s \in DOMAIN content : write[b] <= s /\ s <= read[b] => content[s] # NoBlock
    BY <1>1 DEF IInv, Pointers
  <2>5. write[b] <= read[b] /\ read[b] <= read[b]
    BY <1>1, <1>7
  <2>6. content[read[b]] # NoBlock
    BY <2>3, <2>4, <2>5
  <2>. QED  BY <2>1, <2>3, <2>6
<1>8. Pointers'
  <2>1. ASSUME NEW c \in Buckets
        PROVE  read'[c] <= layout.last[c] /\ read'[c] <= read[c] /\ read[c] \in Int /\ read'[c] \in Int
    BY <1>1, <1>2, LayoutFacts DEF IInv, Pointers
  <2>2. ASSUME NEW c \in Buckets, NEW s \in DOMAIN content,
               write[c] <= s, read'[c] < s, s < layout.first[c + 1]
        PROVE  content[s] = NoBlock \/ \E r \in Threads : pc'[r] = "readBlock" /\ slot'[r] = s
    <3>1. CASE read[c] < s
      BY <1>1, <1>2, <2>2, <3>1 DEF IInv, Pointers
    <3>2. CASE ~(read[c] < s)
      <4>1. c = b /\ s = read[b] /\ ~(read[b] < write[b])
        BY <1>1, <1>2, <2>1, <2>2, <3>2
      <4>. QED  BY <1>1, <1>2, <4>1
    <3>. QED  BY <3>1, <3>2
  <2>3. ASSUME NEW c \in Buckets, NEW s \in DOMAIN content, write[c] <= s, s <= read'[c]
        PROVE  content[s] # NoBlock
    BY <1>1, <2>1, <2>3 DEF IInv, Pointers
  <2>. QED  BY <1>2, <2>1, <2>2, <2>3 DEF IInv, Pointers
<1>9. ASSUME NEW u \in Threads, pc[u] = "readBlock" \/ pc[u] \in {"inspect", "swapBlocks"},
             ~(read[b] < write[b])
      PROVE  slot[u] # read[b]
  <2>0. ~(read[b] < write[b])
    BY <1>9
  <2>1. CASE pc[u] = "readBlock"
    <3>1. /\ slot[u] \in Nat /\ read_bucket[u] \in Buckets
          /\ layout.first[read_bucket[u]] <= slot[u] /\ slot[u] < layout.first[read_bucket[u] + 1]
          /\ read[read_bucket[u]] < slot[u]
      BY <1>1, <2>1, ReaderInArea DEF IInv, ReaderClaims
    <3>2. SUFFICES ASSUME slot[u] = read[b]  PROVE  read_bucket[u] = b
      BY <1>1, <3>1
    <3>. QED  BY <1>1, <1>7, <2>0, <3>1, <3>2, AreasDisjoint
  <2>2. CASE pc[u] \in {"inspect", "swapBlocks"}
    <3>1. /\ slot[u] \in Nat /\ dest_bucket[u] \in Buckets
          /\ layout.first[dest_bucket[u]] <= slot[u] /\ slot[u] < layout.first[dest_bucket[u] + 1]
          /\ slot[u] < write[dest_bucket[u]]
      BY <1>1, <2>2, WriterInArea DEF IInv, WriterClaims, Writing
    <3>2. SUFFICES ASSUME slot[u] = read[b]  PROVE  dest_bucket[u] = b
      BY <1>1, <2>0, <3>1
    <3>. QED  BY <1>1, <1>7, <2>0, <3>1, <3>2, AreasDisjoint
  <2>. QED  BY <1>9, <2>1, <2>2
<1>10. ReaderClaims'
  <2>1. ASSUME NEW u \in Threads, pc'[u] = "readBlock"
        PROVE  LET c == read_bucket[u] IN
               /\ layout.first[c] <= slot'[u] /\ slot'[u] <= layout.last[c] /\ read'[c] < slot'[u]
               /\ content[slot'[u]] # NoBlock
               /\ slot'[u] < write[c] =>
                    \E w \in Threads : pc'[w] = "isReading" /\ dest_bucket[w] = c /\ slot'[w] = slot'[u]
    <3>1. CASE u = t
      BY <1>1, <1>2, <1>7, <2>1, <3>1
    <3>2. CASE u # t
      <4>1. /\ pc[u] = "readBlock" /\ slot'[u] = slot[u] /\ read_bucket[u] \in Buckets
            /\ slot[u] \in Int /\ read[read_bucket[u]] \in Int
            /\ read'[read_bucket[u]] <= read[read_bucket[u]] /\ read'[read_bucket[u]] \in Int
        BY <1>1, <1>2, <2>1, <3>2
      <4>2. \A w \in Threads : pc[w] = "isReading" => pc'[w] = "isReading" /\ slot'[w] = slot[w]
        BY <1>1, <1>2
      <4>. QED  BY <4>1, <4>2 DEF IInv, ReaderClaims
    <3>. QED  BY <3>1, <3>2
  <2>2. ASSUME NEW u \in Threads, NEW v \in Threads,
               pc'[u] = "readBlock", pc'[v] = "readBlock", slot'[u] = slot'[v]
        PROVE  u = v
    BY <1>1, <1>2, <1>9, <2>2 DEF IInv, ReaderClaims
  <2>. QED  BY <1>2, <2>1, <2>2 DEF ReaderClaims
<1>11. WriterClaims'
  <2>1. \A u \in Threads : pc'[u] \in Writing =>
          pc[u] = pc'[u] /\ pc[u] \in Writing /\ slot'[u] = slot[u] /\ u # t
    BY <1>1, <1>2 DEF Writing
  <2>2. \A u \in Threads : pc[u] = "readBlock" => pc'[u] = "readBlock" /\ slot'[u] = slot[u]
    BY <1>1, <1>2
  <2>3. \A u \in Threads : pc'[u] \in {"inspect", "swapBlocks"} =>
          /\ content[slot[u]] # NoBlock
          /\ \A r \in Threads : pc'[r] = "readBlock" => slot'[r] # slot[u]
    <3>1. ASSUME NEW u \in Threads, pc'[u] \in {"inspect", "swapBlocks"},
                 NEW r \in Threads, pc'[r] = "readBlock"
          PROVE  slot'[r] # slot[u]
      <4>1. pc[u] = pc'[u]
        BY <2>1, <3>1 DEF Writing
      <4>2. CASE r = t
        BY <1>1, <1>2, <1>9, <3>1, <4>1, <4>2
      <4>3. CASE r # t
        BY <1>1, <1>2, <3>1, <4>1, <4>3 DEF IInv, WriterClaims
      <4>. QED  BY <4>2, <4>3
    <3>. QED  BY <2>1, <3>1 DEF IInv, WriterClaims, Writing
  <2>. QED  BY <1>2, <2>1, <2>2, <2>3 DEF IInv, WriterClaims, Writing
<1>12. Settled'
  <2>1. \A c \in Buckets : \A w \in Writers(c) : w \in Writers(c)' /\ slot'[w] = slot[w]
    BY <1>1, <1>2 DEF Writers
  <2>. QED  BY <1>2, <2>1 DEF IInv, Settled, Blocks
<1>13. OverflowClaim'
  BY <1>2 DEF IInv, OverflowClaim
<1>. QED  BY <1>3, <1>4, <1>5, <1>6, <1>8, <1>10, <1>11, <1>12, <1>13 DEF IInv

LEMMA NoMoreBlocksPreserves ==
  ASSUME IInv, NEW t \in Threads, NoMoreBlocks(t)
  PROVE  IInv'
<1>1. /\ TypeOK /\ pc \in [Threads -> PCs] /\ read_bucket \in [Threads -> Buckets]
      /\ num_reading \in [Buckets -> 0 .. NumThreads] /\ count \in [Threads -> 0 .. NumBuckets]
      /\ count[t] # 0 /\ NumBuckets \in Nat \ {0} /\ read_bucket[t] \in Buckets
  BY PermutationAssumption DEF IInv, TypeOK, Hands, NoMoreBlocks
<1>2. /\ layout' = layout /\ write' = write /\ read' = read /\ content' = content
      /\ hand' = hand /\ dest_bucket' = dest_bucket /\ overflow' = overflow /\ slot' = slot
      /\ num_reading' = [num_reading EXCEPT ![read_bucket[t]] = @ - 1]
      /\ read_bucket' = [read_bucket EXCEPT ![t] = (@ + 1) % NumBuckets]
      /\ count' = [count EXCEPT ![t] = @ - 1] /\ pc[t] = "noMoreBlocks"
      /\ pc' = [pc EXCEPT ![t] = IF count[t] = 1 THEN "done" ELSE "startRead"]
  BY DEF NoMoreBlocks, Goto
<1>3. CountsReaders' /\ num_reading' \in [Buckets -> 0 .. NumThreads]
  <2>. DEFINE p == IF count[t] = 1 THEN "done" ELSE "startRead"
  <2>1. /\ p \notin Reading /\ pc[t] \in Reading /\ CountsReaders
        /\ \A u \in Threads : u # t => read_bucket'[u] = read_bucket[u]
    BY <1>1, <1>2 DEF Reading, IInv
  <2>2. pc' = [pc EXCEPT ![t] = p]
    BY <1>2
  <2>. HIDE DEF p
  <2>. QED  BY <1>1, <1>2, <2>1, <2>2, LessReaders
<1>4. (read_bucket[t] + 1) % NumBuckets \in Buckets
  BY <1>1 DEF Buckets
<1>5. layout' \in Layouts /\ TypeOK'
  <2>1. read_bucket' \in [Threads -> Buckets] /\ count' \in [Threads -> 0 .. NumBuckets]
    BY <1>1, <1>2, <1>4
  <2>. QED  BY <1>1, <1>2, <1>3, <2>1 DEF IInv, TypeOK, PCs, Blocks
<1>6. Hands'
  BY <1>1, <1>2 DEF IInv, Hands, Carrying
<1>7. Apart' /\ Somewhere'
  BY <1>2 DEF IInv, Apart, Somewhere, Blocks
<1>8. \A u \in Threads : /\ pc[u] = "readBlock" \/ pc'[u] = "readBlock" => pc'[u] = pc[u] /\ u # t
                         /\ pc'[u] \in Writing \/ pc[u] \in Writing => pc'[u] = pc[u] /\ u # t
                         /\ u # t => read_bucket'[u] = read_bucket[u]
  BY <1>1, <1>2 DEF Writing
<1>9. Pointers'
  BY <1>2, <1>8 DEF IInv, Pointers
<1>10. ReaderClaims'
  BY <1>2, <1>8 DEF IInv, ReaderClaims, Writing
<1>11. WriterClaims'
  BY <1>2, <1>8 DEF IInv, WriterClaims, Writing
<1>12. Settled'
  <2>1. \A c \in Buckets : Writers(c)' = Writers(c)
    BY <1>2, <1>8 DEF Writers, Writing
  <2>. QED  BY <1>2, <2>1 DEF IInv, Settled, Blocks
<1>13. OverflowClaim'
  BY <1>2 DEF IInv, OverflowClaim
<1>. QED  BY <1>3, <1>5, <1>6, <1>7, <1>9, <1>10, <1>11, <1>12, <1>13 DEF IInv

LEMMA ReadBlockPreserves ==
  ASSUME IInv, NEW t \in Threads, ReadBlock(t)
  PROVE  IInv'
<1>1. /\ TypeOK /\ pc \in [Threads -> PCs] /\ read_bucket \in [Threads -> Buckets]
      /\ content \in [0 .. layout.max_off - 1 -> Blocks \cup {NoBlock}]
      /\ hand \in [Threads -> Blocks \cup {NoBlock}] /\ pc[t] = "readBlock"
      /\ slot[t] \in DOMAIN content /\ content[slot[t]] # NoBlock /\ hand[t] = NoBlock
  BY ReaderInArea DEF IInv, TypeOK, ReadBlock, ReaderClaims, Hands, Carrying
<1>2. /\ layout' = layout /\ write' = write /\ read' = read /\ num_reading' = num_reading
      /\ read_bucket' = read_bucket /\ count' = count
      /\ dest_bucket' = dest_bucket /\ overflow' = overflow /\ slot' = slot
      /\ hand' = [hand EXCEPT ![t] = content[slot[t]]]
      /\ content' = [content EXCEPT ![slot[t]] = NoBlock]
      /\ pc' = [pc EXCEPT ![t] = "stopRead"]
  BY DEF ReadBlock, Goto
<1>3. /\ DOMAIN content' = DOMAIN content
      /\ \A s \in DOMAIN content : content'[s] = IF s = slot[t] THEN NoBlock ELSE content[s]
      /\ \A u \in Threads : hand'[u] = IF u = t THEN content[slot[t]] ELSE hand[u]
      /\ \A u \in Threads : u # t => pc'[u] = pc[u]
      /\ pc'[t] = "stopRead"
  BY <1>1, <1>2
<1>4. CountsReaders'
  BY <1>1, <1>2, SameReaders DEF IInv, Reading
<1>5. layout' \in Layouts /\ TypeOK'
  <2>1. /\ content' \in [0 .. layout.max_off - 1 -> Blocks \cup {NoBlock}]
        /\ hand' \in [Threads -> Blocks \cup {NoBlock}]
    BY <1>1, <1>2
  <2>. QED  BY <1>1, <1>2, <2>1 DEF IInv, TypeOK, PCs, Blocks
<1>6. Hands'
  BY <1>1, <1>2, <1>3 DEF IInv, Hands, Carrying
<1>7. Apart'
  BY <1>1, <1>2, <1>3 DEF IInv, Apart
<1>8. Somewhere'
  BY <1>1, <1>2, <1>3 DEF IInv, Somewhere, Blocks
<1>9. Pointers'
  <2>1. ASSUME NEW b \in Buckets, NEW s \in DOMAIN content, write[b] <= s, s <= read[b]
        PROVE  s # slot[t]
    <3>1. /\ slot[t] \in Nat /\ read_bucket[t] \in Buckets
          /\ layout.first[read_bucket[t]] <= slot[t] /\ slot[t] < layout.first[read_bucket[t] + 1]
          /\ read[read_bucket[t]] < slot[t]
      BY <1>1, ReaderInArea DEF IInv, ReaderClaims
    <3>2. /\ layout.first[b] <= s /\ s < layout.first[b + 1] /\ read[b] \in Int /\ s \in Int
          /\ read[read_bucket[t]] \in Int
      <4>1. /\ layout.first[b] \in Nat /\ layout.first[b + 1] \in Nat /\ layout.last[b] \in Int
            /\ layout.last[b] < layout.first[b + 1]
        BY LayoutFacts DEF IInv
      <4>2. layout.first[b] <= write[b] /\ read[b] <= layout.last[b]
        BY DEF IInv, Pointers
      <4>3. write[b] \in Nat /\ read[b] \in Int /\ s \in Int /\ read[read_bucket[t]] \in Int
        BY <1>1, <3>1 DEF TypeOK
      <4>. QED  BY <2>1, <4>1, <4>2, <4>3
    <3>3. SUFFICES ASSUME s = slot[t]  PROVE  FALSE
      OBVIOUS
    <3>4. b = read_bucket[t]
      BY <3>1, <3>2, <3>3, AreasDisjoint DEF IInv
    <3>. QED  BY <2>1, <3>1, <3>2, <3>3, <3>4
  <2>2. \A s \in DOMAIN content : s # slot[t] =>
          ((\E r \in Threads : pc[r] = "readBlock" /\ slot[r] = s)
             => \E r \in Threads : pc'[r] = "readBlock" /\ slot'[r] = s)
    BY <1>2, <1>3
  <2>. QED  BY <1>2, <1>3, <2>1, <2>2 DEF IInv, Pointers
<1>10. ReaderClaims'
  <2>1. \A u \in Threads : pc'[u] = "readBlock" =>
          /\ pc[u] = "readBlock" /\ u # t /\ slot[u] # slot[t] /\ slot[u] \in DOMAIN content
          /\ content'[slot[u]] = content[slot[u]]
    BY <1>1, <1>3, ReaderInArea DEF IInv, ReaderClaims
  <2>2. \A u \in Threads : pc[u] = "isReading" => pc'[u] = "isReading"
    BY <1>1, <1>3
  <2>. QED  BY <1>2, <2>1, <2>2 DEF IInv, ReaderClaims
<1>11. WriterClaims'
  <2>1. \A u \in Threads : pc'[u] \in Writing \/ pc[u] \in Writing =>
          u # t /\ pc'[u] = pc[u] /\ slot[u] \in DOMAIN content
    BY <1>1, <1>3, WriterInArea DEF Writing
  <2>2. \A u \in Threads : pc'[u] = "readBlock" => pc[u] = "readBlock"
    BY <1>3
  <2>3. ASSUME NEW u \in Threads, pc'[u] = "isReading"
        PROVE  \/ content'[slot[u]] = NoBlock
               \/ \E r \in Threads : pc'[r] = "readBlock" /\ slot[r] = slot[u]
    <3>1. pc[u] = "isReading" /\ slot[u] \in DOMAIN content
      BY <2>1, <2>3 DEF Writing
    <3>2. CASE slot[u] = slot[t]
      BY <1>3, <3>1, <3>2
    <3>3. CASE slot[u] # slot[t]
      BY <1>3, <3>1, <3>3 DEF IInv, WriterClaims
    <3>. QED  BY <3>2, <3>3
  <2>4. ASSUME NEW u \in Threads, pc'[u] \in {"inspect", "swapBlocks"}
        PROVE  /\ content'[slot[u]] # NoBlock
               /\ \A r \in Threads : pc'[r] = "readBlock" => slot[r] # slot[u]
    <3>1. pc[u] \in {"inspect", "swapBlocks"} /\ slot[u] \in DOMAIN content
      BY <2>1, <2>4 DEF Writing
    <3>2. content[slot[u]] # NoBlock /\ \A r \in Threads : pc[r] = "readBlock" => slot[r] # slot[u]
      BY <3>1 DEF IInv, WriterClaims
    <3>. QED  BY <1>1, <1>3, <2>2, <3>1, <3>2
  <2>5. \A u \in Threads : pc'[u] = "writeBlock" => content'[slot[u]] = NoBlock
    BY <1>3, <2>1 DEF IInv, WriterClaims, Writing
  <2>6. \A u \in Threads : pc'[u] \in Writing =>
          /\ layout.first[dest_bucket[u]] <= slot[u] /\ slot[u] < write[dest_bucket[u]]
          /\ slot[u] < layout.max_off
    BY <2>1 DEF IInv, WriterClaims
  <2>7. \A u, v \in Threads :
          pc'[u] \in Writing /\ pc'[v] \in Writing /\ slot[u] = slot[v] => u = v
    BY <2>1 DEF IInv, WriterClaims
  <2>. QED  BY <1>2, <2>3, <2>4, <2>5, <2>6, <2>7 DEF WriterClaims
<1>12. Settled'
  <2>1. \A c \in Buckets : Writers(c)' = Writers(c)
    BY <1>1, <1>2, <1>3 DEF Writers
  <2>2. ASSUME NEW b \in Buckets, NEW s \in layout.first[b] .. write[b] - 1, s \in DOMAIN content
        PROVE  \/ content'[s] \in Blocks /\ layout.bucket[content'[s]] = b
               \/ \E w \in Writers(b) : slot[w] = s
    <3>1. CASE s # slot[t]
      BY <1>3, <2>2, <3>1 DEF IInv, Settled
    <3>2. CASE s = slot[t]
      <4>1. /\ layout.first[b] <= s /\ s < write[b] /\ s \in Int /\ s < layout.first[b + 1]
        <5>1. /\ layout.first[b] \in Nat /\ layout.first[b + 1] \in Nat
          BY LayoutFacts DEF IInv
        <5>2. write[b] \in Nat /\ write[b] <= layout.first[b + 1]
          BY DEF IInv, Pointers, TypeOK
        <5>. QED  BY <5>1, <5>2
      <4>2. b = read_bucket[t]
        BY <1>1, <3>2, <4>1, ReaderInArea, AreasDisjoint DEF IInv
      <4>3. PICK w \in Threads : pc[w] = "isReading" /\ dest_bucket[w] = b /\ slot[w] = slot[t]
        BY <1>1, <3>2, <4>1, <4>2 DEF IInv, ReaderClaims
      <4>. QED  BY <3>2, <4>3 DEF Writers
    <3>. QED  BY <3>1, <3>2
  <2>. QED  BY <1>2, <1>3, <2>1, <2>2 DEF Settled, Blocks
<1>13. OverflowClaim'
  BY <1>2 DEF IInv, OverflowClaim
<1>. QED  BY <1>4, <1>5, <1>6, <1>7, <1>8, <1>9, <1>10, <1>11, <1>12, <1>13 DEF IInv

LEMMA StopReadPreserves ==
  ASSUME IInv, NEW t \in Threads, StopRead(t)
  PROVE  IInv'
<1>1. /\ TypeOK /\ pc \in [Threads -> PCs] /\ read_bucket \in [Threads -> Buckets]
      /\ num_reading \in [Buckets -> 0 .. NumThreads] /\ dest_bucket \in [Threads -> Buckets]
      /\ pc[t] = "stopRead" /\ hand[t] \in Blocks /\ layout \in Layouts
  BY DEF IInv, TypeOK, StopRead, Hands, Carrying
<1>2. /\ layout' = layout /\ write' = write /\ read' = read /\ content' = content
      /\ read_bucket' = read_bucket /\ count' = count /\ hand' = hand
      /\ overflow' = overflow /\ slot' = slot
      /\ num_reading' = [num_reading EXCEPT ![read_bucket[t]] = @ - 1]
      /\ dest_bucket' = [dest_bucket EXCEPT ![t] = layout.bucket[hand[t]]]
      /\ pc' = [pc EXCEPT ![t] = "incWrite"]
  BY DEF StopRead, Goto
<1>3. CountsReaders' /\ num_reading' \in [Buckets -> 0 .. NumThreads]
  BY <1>1, <1>2, LessReaders DEF IInv, Reading
<1>4. layout' \in Layouts /\ TypeOK'
  <2>1. dest_bucket' \in [Threads -> Buckets]
    BY <1>1, <1>2, LayoutFacts
  <2>. QED  BY <1>1, <1>2, <1>3, <2>1 DEF IInv, TypeOK, PCs, Blocks
<1>5. Hands'
  BY <1>1, <1>2 DEF IInv, Hands, Carrying
<1>6. Apart' /\ Somewhere'
  BY <1>2 DEF IInv, Apart, Somewhere, Blocks
<1>7. \A u \in Threads : /\ pc[u] = "readBlock" \/ pc'[u] = "readBlock" => pc'[u] = pc[u] /\ u # t
                         /\ pc'[u] \in Writing \/ pc[u] \in Writing => pc'[u] = pc[u] /\ u # t
                         /\ u # t => dest_bucket'[u] = dest_bucket[u]
  BY <1>1, <1>2 DEF Writing
<1>8. Pointers'
  BY <1>2, <1>7 DEF IInv, Pointers
<1>9. ReaderClaims'
  BY <1>2, <1>7 DEF IInv, ReaderClaims, Writing
<1>10. WriterClaims'
  BY <1>2, <1>7 DEF IInv, WriterClaims, Writing
<1>11. Settled'
  <2>1. \A c \in Buckets : Writers(c)' = Writers(c)
    BY <1>2, <1>7 DEF Writers, Writing
  <2>. QED  BY <1>2, <2>1 DEF IInv, Settled, Blocks
<1>12. OverflowClaim'
  BY <1>2 DEF IInv, OverflowClaim
<1>. QED  BY <1>3, <1>4, <1>5, <1>6, <1>8, <1>9, <1>10, <1>11, <1>12 DEF IInv

LEMMA IncWritePreserves ==
  ASSUME IInv, NEW t \in Threads, IncWrite(t)
  PROVE  IInv'
<1>. DEFINE b == dest_bucket[t]
            w == write[b]
<1>1. /\ TypeOK /\ layout \in Layouts /\ pc \in [Threads -> PCs]
      /\ read_bucket \in [Threads -> Buckets] /\ write \in [Buckets -> Nat]
      /\ read \in [Buckets -> Int] /\ slot \in [Threads -> Int]
      /\ hand \in [Threads -> Blocks \cup {NoBlock}]
      /\ overflow \in [Threads -> Blocks \cup {NoBlock}]
      /\ DOMAIN content = 0 .. layout.max_off - 1
      /\ pc[t] = "incWrite" /\ hand[t] \in Blocks /\ layout.bucket[hand[t]] = b
      /\ b \in Buckets /\ w \in Nat /\ read[b] \in Int
  BY DEF IInv, TypeOK, IncWrite, Hands, Carrying
<1>2. /\ layout' = layout /\ read' = read /\ num_reading' = num_reading /\ content' = content
      /\ read_bucket' = read_bucket /\ count' = count /\ dest_bucket' = dest_bucket
      /\ write' = [write EXCEPT ![b] = w + 1] /\ slot' = [slot EXCEPT ![t] = w]
  BY DEF IncWrite
<1>3. PICK p \in {"startRead", "isReading", "inspect"} :
      /\ pc' = [pc EXCEPT ![t] = p]
      /\ p = "startRead" => /\ w > read[b] /\ w >= layout.max_off
                            /\ overflow' = [overflow EXCEPT ![t] = hand[t]]
                            /\ hand' = [hand EXCEPT ![t] = NoBlock]
      /\ p # "startRead" => overflow' = overflow /\ hand' = hand
      /\ p = "isReading" => w > read[b] /\ w < layout.max_off
      /\ p = "inspect" => w <= read[b]
  BY DEF IncWrite, Goto
<1>4. /\ layout.first[b] \in Nat /\ layout.first[b + 1] \in Nat /\ layout.max_off \in Nat
      /\ w \in Nat /\ layout.first[b] <= w /\ w < layout.first[b + 1] /\ w <= layout.max_off
      /\ w <= read[b] => w < layout.max_off
      /\ w < layout.max_off => w \in DOMAIN content
  <2>1. /\ layout.first[b] \in Nat /\ layout.first[b + 1] \in Nat /\ layout.max_off \in Nat
        /\ layout.first[b + 1] <= layout.max_off + 1 /\ layout.last[b] \in Int
        /\ layout.last[b] < layout.max_off \/ layout.last[b] = layout.first[b] - 1
    BY <1>1, LayoutFacts
  <2>2. layout.first[b] <= w /\ read[b] <= layout.last[b]
    BY <1>1 DEF IInv, Pointers
  <2>3. w < layout.first[b + 1]
    BY <1>1, RoomForBlock
  <2>4. w \in Nat /\ read[b] \in Int /\ DOMAIN content = 0 .. layout.max_off - 1
    BY <1>1
  <2>. HIDE DEF b, w
  <2>. QED  BY <2>1, <2>2, <2>3, <2>4
<1>5. /\ \A u \in Threads : u # t => pc'[u] = pc[u] /\ slot'[u] = slot[u]
      /\ pc'[t] = p /\ slot'[t] = w
      /\ \A c \in Buckets : c # b => write'[c] = write[c]
      /\ write'[b] = w + 1
  BY <1>1, <1>2, <1>3
<1>6. \A u \in Threads :
        /\ pc[u] = "readBlock" \/ pc'[u] = "readBlock" => u # t /\ pc'[u] = pc[u]
        /\ pc[u] \in Writing => u # t /\ pc'[u] = pc[u]
        /\ pc'[u] \in Writing => u = t \/ pc[u] = pc'[u]
  BY <1>1, <1>5 DEF Writing
<1>. HIDE DEF b, w
(* Nobody has claimed slot w of this bucket before. *)
<1>7. ASSUME NEW u \in Threads, pc[u] \in Writing  PROVE  slot[u] # w
  <2>1. /\ slot[u] \in Nat /\ dest_bucket[u] \in Buckets
        /\ layout.first[dest_bucket[u]] <= slot[u] /\ slot[u] < layout.first[dest_bucket[u] + 1]
        /\ slot[u] < write[dest_bucket[u]]
    BY <1>7, WriterInArea DEF IInv, WriterClaims
  <2>2. SUFFICES ASSUME slot[u] = w  PROVE  FALSE
    OBVIOUS
  <2>3. dest_bucket[u] = b
    BY <1>1, <1>4, <2>1, <2>2, AreasDisjoint
  <2>. QED  BY <1>1, <2>1, <2>2, <2>3 DEF w
<1>8. ASSUME NEW u \in Threads, pc[u] = "readBlock", slot[u] = w
      PROVE  read_bucket[u] = b /\ p = "isReading"
  <2>1. /\ slot[u] \in Nat /\ read_bucket[u] \in Buckets /\ slot[u] \in DOMAIN content
        /\ layout.first[read_bucket[u]] <= slot[u] /\ slot[u] < layout.first[read_bucket[u] + 1]
        /\ read[read_bucket[u]] < slot[u]
    BY <1>8, ReaderInArea DEF IInv, ReaderClaims
  <2>2. read_bucket[u] = b
    BY <1>1, <1>4, <1>8, <2>1, AreasDisjoint
  <2>. QED  BY <1>1, <1>3, <1>4, <1>8, <2>1, <2>2
<1>9. CountsReaders'
  BY <1>1, <1>2, <1>3, SameReaders DEF IInv, Reading
<1>10. layout' \in Layouts /\ TypeOK'
  <2>1. /\ write' \in [Buckets -> Nat] /\ slot' \in [Threads -> Int] /\ pc' \in [Threads -> PCs]
        /\ hand' \in [Threads -> Blocks \cup {NoBlock}]
        /\ overflow' \in [Threads -> Blocks \cup {NoBlock}]
    <3>1. write' \in [Buckets -> Nat] /\ slot' \in [Threads -> Int]
      BY <1>1, <1>2
    <3>2. pc' \in [Threads -> PCs]
      BY <1>1, <1>3 DEF PCs
    <3>3. /\ hand' \in [Threads -> Blocks \cup {NoBlock}]
          /\ overflow' \in [Threads -> Blocks \cup {NoBlock}]
      BY <1>1, <1>3
    <3>. QED  BY <3>1, <3>2, <3>3
  <2>. QED  BY <1>1, <1>2, <2>1 DEF IInv, TypeOK, Blocks
<1>11. Hands'
  <2>1. \A u \in Threads : u # t => pc'[u] = pc[u] /\ hand'[u] = hand[u]
    BY <1>1, <1>3, <1>5
  <2>2. pc'[t] \in Carrying <=> hand'[t] # NoBlock
    BY <1>1, <1>3, <1>5, LayoutFacts DEF Carrying
  <2>3. hand'[t] # NoBlock => hand'[t] = hand[t]
    BY <1>1, <1>3
  <2>4. dest_bucket[t] = layout.bucket[hand[t]] /\ count[t] # 0
    BY <1>1 DEF b, IInv, Hands
  <2>. QED  BY <1>2, <2>1, <2>2, <2>3, <2>4 DEF IInv, Hands
(* There is no overflow block yet if this one overflows. *)
<1>12. ASSUME p = "startRead"
       PROVE  w = layout.max_off /\ \A u \in Threads : overflow[u] = NoBlock
  <2>1. w = layout.max_off
    BY <1>1, <1>3, <1>4, <1>12
  <2>2. ASSUME NEW u \in Threads, overflow[u] # NoBlock  PROVE  FALSE
    <3>. DEFINE c == layout.bucket[overflow[u]]
    <3>1. c \in Buckets
      BY <1>1, <2>2, LayoutFacts
    <3>2. layout.first[c] <= layout.max_off /\ write[c] = layout.max_off + 1
      BY <2>2 DEF IInv, OverflowClaim
    <3>3. write[c] <= layout.first[c + 1]
      BY <3>1 DEF IInv, Pointers
    <3>. HIDE DEF c
    <3>4. /\ layout.first[c] \in Nat /\ layout.first[c + 1] \in Nat /\ c \in Int /\ b \in Int
      <4>1. layout.first[c] \in Nat /\ layout.first[c + 1] \in Nat
        BY <1>1, <3>1, LayoutFacts
      <4>2. c \in Int /\ b \in Int
        BY <1>1, <3>1, PermutationAssumption DEF Buckets
      <4>. QED  BY <4>1, <4>2
    <3>5. c # b
      BY <1>1, <1>4, <2>1, <3>2 DEF w
    <3>6. CASE c < b
      <4>1. layout.first[c + 1] <= layout.first[b]
        BY <1>1, <3>1, <3>6, LayoutFacts
      <4>. QED  BY <1>4, <2>1, <3>2, <3>3, <3>4, <4>1
    <3>7. CASE b < c
      <4>1. layout.first[b + 1] <= layout.first[c]
        BY <1>1, <3>1, <3>7, LayoutFacts
      <4>. QED  BY <1>4, <2>1, <3>2, <3>4, <4>1
    <3>. QED  BY <3>4, <3>5, <3>6, <3>7
  <2>. QED  BY <2>1, <2>2
<1>13. Apart' /\ Somewhere'
  <2>1. CASE p # "startRead"
    BY <1>2, <1>3, <2>1 DEF IInv, Apart, Somewhere, Blocks
  <2>2. CASE p = "startRead"
    <3>1. /\ \A u \in Threads : hand'[u] = IF u = t THEN NoBlock ELSE hand[u]
          /\ \A u \in Threads : overflow'[u] = IF u = t THEN hand[t] ELSE NoBlock
          /\ hand[t] # NoBlock
      BY <1>1, <1>3, <1>12, <2>2, LayoutFacts
    <3>2. Apart'
      BY <1>2, <3>1 DEF IInv, Apart
    <3>3. Somewhere'
      <4>1. ASSUME NEW x \in Blocks
            PROVE  \/ \E s \in DOMAIN content : content[s] = x
                   \/ \E u \in Threads : hand'[u] = x
                   \/ \E u \in Threads : overflow'[u] = x
        <5>1. x # NoBlock
          BY <1>1, LayoutFacts
        <5>2. \/ \E s \in DOMAIN content : content[s] = x
              \/ \E u \in Threads : hand[u] = x
          BY <1>12, <2>2, <5>1 DEF IInv, Somewhere
        <5>3. ASSUME NEW u \in Threads, hand[u] = x
              PROVE  hand'[u] = x \/ overflow'[t] = x
          BY <3>1, <5>3
        <5>. QED  BY <5>2, <5>3
      <4>. QED  BY <1>2, <4>1 DEF Somewhere, Blocks
    <3>. QED  BY <3>2, <3>3
  <2>. QED  BY <2>1, <2>2
<1>14. Pointers'
  <2>1. ASSUME NEW c \in Buckets
        PROVE  /\ layout.first[c] <= write'[c] /\ write'[c] <= layout.first[c + 1]
               /\ write[c] <= write'[c] /\ write[c] \in Nat /\ write'[c] \in Nat
    <3>1. CASE c = b
      <4>1. /\ write'[c] = w + 1 /\ write[c] = w /\ w \in Nat
            /\ layout.first[c] <= w /\ w < layout.first[c + 1] /\ layout.first[c + 1] \in Nat
            /\ layout.first[c] \in Nat
        BY <1>4, <1>5, <3>1 DEF w
      <4>. QED  BY <4>1
    <3>2. CASE c # b
      <4>1. write'[c] = write[c] /\ write[c] \in Nat
        BY <1>1, <1>5, <3>2
      <4>2. layout.first[c] <= write[c] /\ write[c] <= layout.first[c + 1]
        BY DEF IInv, Pointers
      <4>. QED  BY <4>1, <4>2
    <3>. QED  BY <3>1, <3>2
  <2>2. \A s \in DOMAIN content : (\E r \in Threads : pc[r] = "readBlock" /\ slot[r] = s)
          => \E r \in Threads : pc'[r] = "readBlock" /\ slot'[r] = s
    BY <1>5, <1>6
  <2>3. ASSUME NEW c \in Buckets, NEW s \in DOMAIN content, write'[c] <= s
        PROVE  write[c] <= s
    BY <1>1, <2>1, <2>3
  <2>. QED  BY <1>2, <2>1, <2>2, <2>3 DEF IInv, Pointers
<1>15. ReaderClaims'
  <2>1. ASSUME NEW u \in Threads, pc'[u] = "readBlock"
        PROVE  LET c == read_bucket[u] IN
               /\ layout.first[c] <= slot'[u] /\ slot'[u] <= layout.last[c] /\ read[c] < slot'[u]
               /\ content[slot'[u]] # NoBlock
               /\ slot'[u] < write'[c] =>
                    \E v \in Threads : pc'[v] = "isReading" /\ dest_bucket[v] = c /\ slot'[v] = slot'[u]
    <3>1. /\ pc[u] = "readBlock" /\ slot'[u] = slot[u]
          /\ read_bucket[u] \in Buckets /\ slot[u] \in Int
      BY <1>1, <1>5, <1>6, <2>1
    <3>2. CASE slot[u] < write[read_bucket[u]]
      <4>1. PICK v \in Threads : pc[v] = "isReading" /\ dest_bucket[v] = read_bucket[u] /\ slot[v] = slot[u]
        BY <3>1, <3>2 DEF IInv, ReaderClaims
      <4>2. pc'[v] = "isReading" /\ slot'[v] = slot[v]
        BY <1>5, <1>6, <4>1 DEF Writing
      <4>. QED  BY <3>1, <4>1, <4>2 DEF IInv, ReaderClaims
    <3>3. CASE ~(slot[u] < write[read_bucket[u]]) /\ slot[u] < write'[read_bucket[u]]
      <4>1. read_bucket[u] = b /\ slot[u] = w
        BY <1>1, <1>5, <3>1, <3>3 DEF w
      <4>2. p = "isReading"
        BY <1>8, <3>1, <4>1
      <4>3. pc'[t] = "isReading" /\ dest_bucket[t] = read_bucket[u] /\ slot'[t] = slot'[u]
        BY <1>5, <3>1, <4>1, <4>2 DEF b
      <4>. QED  BY <3>1, <4>3 DEF IInv, ReaderClaims
    <3>4. CASE ~(slot[u] < write'[read_bucket[u]])
      BY <3>1, <3>4 DEF IInv, ReaderClaims
    <3>. QED  BY <3>2, <3>3, <3>4
  <2>2. \A u, v \in Threads :
          pc'[u] = "readBlock" /\ pc'[v] = "readBlock" /\ slot'[u] = slot'[v] => u = v
    BY <1>5, <1>6 DEF IInv, ReaderClaims
  <2>. QED  BY <1>2, <2>1, <2>2 DEF ReaderClaims
<1>16. WriterClaims'
  <2>1. ASSUME NEW u \in Threads, pc'[u] \in Writing
        PROVE  /\ layout.first[dest_bucket[u]] <= slot'[u] /\ slot'[u] < write'[dest_bucket[u]]
               /\ slot'[u] < layout.max_off
    <3>1. CASE u = t
      <4>1. p # "startRead" /\ dest_bucket[u] = b /\ slot'[u] = w /\ write'[b] = w + 1
        BY <1>5, <2>1, <3>1 DEF b, Writing
      <4>2. w < layout.max_off
        BY <1>3, <1>4, <4>1
      <4>. QED  BY <1>1, <1>4, <4>1, <4>2
    <3>2. CASE u # t
      <4>1. /\ slot'[u] = slot[u] /\ pc[u] \in Writing /\ dest_bucket[u] \in Buckets /\ slot[u] \in Int
        BY <1>1, <1>5, <1>6, <2>1, <3>2 DEF TypeOK
      <4>2. write[dest_bucket[u]] \in Nat /\ write'[dest_bucket[u]] \in Nat
            /\ write[dest_bucket[u]] <= write'[dest_bucket[u]]
        <5>1. CASE dest_bucket[u] = b
          BY <1>1, <1>5, <5>1 DEF w
        <5>2. CASE dest_bucket[u] # b
          BY <1>1, <1>5, <4>1, <5>2
        <5>. QED  BY <5>1, <5>2
      <4>. QED  BY <4>1, <4>2 DEF IInv, WriterClaims
    <3>. QED  BY <3>1, <3>2
  <2>2. ASSUME NEW u \in Threads, pc'[u] = "isReading"
        PROVE  content[slot'[u]] = NoBlock \/ \E r \in Threads : pc'[r] = "readBlock" /\ slot'[r] = slot'[u]
    <3>1. \A s : (\E r \in Threads : pc[r] = "readBlock" /\ slot[r] = s)
          => \E r \in Threads : pc'[r] = "readBlock" /\ slot'[r] = s
      BY <1>5, <1>6
    <3>2. CASE u = t
      <4>1. w > read[b] /\ w \in DOMAIN content /\ slot'[u] = w
        BY <1>3, <1>4, <1>5, <2>2, <3>2
      <4>2. content[w] = NoBlock \/ \E r \in Threads : pc[r] = "readBlock" /\ slot[r] = w
        <5>1. write[b] <= w /\ read[b] < w /\ w < layout.first[b + 1]
          BY <1>1, <1>4, <4>1 DEF w
        <5>. QED  BY <1>1, <4>1, <5>1 DEF IInv, Pointers
      <4>. QED  BY <3>1, <4>1, <4>2
    <3>3. CASE u # t
      BY <1>5, <2>2, <3>1, <3>3 DEF IInv, WriterClaims
    <3>. QED  BY <3>2, <3>3
  <2>3. ASSUME NEW u \in Threads, pc'[u] = "writeBlock"  PROVE  content[slot'[u]] = NoBlock
    BY <1>3, <1>5, <2>3 DEF IInv, WriterClaims
  <2>4. ASSUME NEW u \in Threads, pc'[u] \in {"inspect", "swapBlocks"}
        PROVE  /\ content[slot'[u]] # NoBlock
               /\ \A r \in Threads : pc'[r] = "readBlock" => slot'[r] # slot'[u]
    <3>1. CASE u = t
      <4>1. p = "inspect" /\ w <= read[b] /\ slot'[u] = w /\ w \in DOMAIN content /\ write[b] <= w
        BY <1>1, <1>3, <1>4, <1>5, <2>4, <3>1 DEF w
      <4>2. content[w] # NoBlock
        BY <1>1, <4>1 DEF IInv, Pointers
      <4>3. \A r \in Threads : pc[r] = "readBlock" => slot[r] # w
        BY <1>8, <4>1
      <4>. QED  BY <1>5, <1>6, <4>1, <4>2, <4>3
    <3>2. CASE u # t
      BY <1>5, <1>6, <2>4, <3>2 DEF IInv, WriterClaims
    <3>. QED  BY <3>1, <3>2
  <2>5. ASSUME NEW u \in Threads, NEW v \in Threads,
               pc'[u] \in Writing, pc'[v] \in Writing, slot'[u] = slot'[v]
        PROVE  u = v
    <3>1. CASE u # t /\ v # t
      BY <1>5, <2>5, <3>1 DEF IInv, WriterClaims
    <3>2. CASE u = t /\ v # t
      BY <1>5, <1>7, <2>5, <3>2
    <3>3. CASE u # t /\ v = t
      BY <1>5, <1>7, <2>5, <3>3
    <3>. QED  BY <3>1, <3>2, <3>3
  <2>. QED  BY <1>2, <2>1, <2>2, <2>3, <2>4, <2>5 DEF WriterClaims
<1>17. Settled'
  <2>1. ASSUME NEW c \in Buckets, NEW s \in layout.first[c] .. write'[c] - 1, s \in DOMAIN content
        PROVE  \/ content[s] \in Blocks /\ layout.bucket[content[s]] = c
               \/ \E v \in Writers(c)' : slot'[v] = s
    <3>1. CASE s \in layout.first[c] .. write[c] - 1
      <4>1. \A v \in Writers(c) : v \in Writers(c)' /\ slot'[v] = slot[v]
        BY <1>1, <1>2, <1>5 DEF Writers
      <4>. QED  BY <2>1, <3>1, <4>1 DEF IInv, Settled
    <3>2. CASE s \notin layout.first[c] .. write[c] - 1
      <4>1. c = b /\ s = w
        <5>1. write[c] \in Nat /\ layout.first[c] \in Nat
          BY <1>1, LayoutFacts
        <5>2. CASE c = b
          BY <1>5, <2>1, <3>2, <5>1, <5>2 DEF w
        <5>3. CASE c # b
          BY <1>5, <2>1, <3>2, <5>3
        <5>. QED  BY <5>2, <5>3
      <4>2. p # "startRead"
        BY <1>1, <1>3, <1>4, <2>1, <4>1
      <4>3. t \in Writers(c)' /\ slot'[t] = s
        BY <1>2, <1>5, <4>1, <4>2 DEF Writers, b
      <4>. QED  BY <4>3
    <3>. QED  BY <3>1, <3>2
  <2>. QED  BY <1>2, <2>1 DEF Settled, Blocks
<1>18. OverflowClaim'
  <2>1. CASE p # "startRead"
    <3>1. w < layout.max_off
      BY <1>3, <1>4, <2>1
    <3>2. overflow' = overflow
      BY <1>3, <2>1
    <3>3. ASSUME NEW c \in Buckets, write'[c] > layout.max_off  PROVE  write[c] > layout.max_off
      <4>1. c # b
        BY <1>1, <1>4, <1>5, <3>1, <3>3
      <4>. QED  BY <1>5, <3>3, <4>1
    <3>4. ASSUME NEW u \in Threads, overflow[u] # NoBlock
          PROVE  write'[layout.bucket[overflow[u]]] = layout.max_off + 1
      <4>1. layout.bucket[overflow[u]] \in Buckets /\ write[layout.bucket[overflow[u]]] = layout.max_off + 1
        BY <1>1, <3>4, LayoutFacts DEF IInv, OverflowClaim
      <4>2. layout.bucket[overflow[u]] # b
        BY <1>1, <1>4, <3>1, <4>1 DEF w
      <4>. QED  BY <1>5, <4>1, <4>2
    <3>. QED  BY <1>2, <3>2, <3>3, <3>4 DEF IInv, OverflowClaim
  <2>2. CASE p = "startRead"
    <3>1. /\ \A u \in Threads : overflow'[u] = IF u = t THEN hand[t] ELSE NoBlock
          /\ overflow'[t] # NoBlock /\ layout.bucket[overflow'[t]] = b
          /\ layout.first[b] <= layout.max_off /\ write'[b] = layout.max_off + 1
      <4>1. /\ overflow' = [overflow EXCEPT ![t] = hand[t]]
            /\ \A u \in Threads : overflow[u] = NoBlock
            /\ w = layout.max_off
        BY <1>3, <1>12, <2>2
      <4>2. \A u \in Threads : overflow'[u] = IF u = t THEN hand[t] ELSE NoBlock
        BY <1>1, <4>1
      <4>3. hand[t] # NoBlock /\ layout.bucket[hand[t]] = b
        BY <1>1, LayoutFacts
      <4>. QED  BY <1>4, <1>5, <4>1, <4>2, <4>3
    <3>2. ASSUME NEW c \in Buckets, write'[c] > layout.max_off, layout.first[c] <= layout.max_off
          PROVE  c = b
      BY <1>5, <1>12, <2>2, <3>2 DEF IInv, OverflowClaim
    <3>. QED  BY <1>2, <3>1, <3>2 DEF OverflowClaim
  <2>. QED  BY <2>1, <2>2
<1>. QED  BY <1>9, <1>10, <1>11, <1>13, <1>14, <1>15, <1>16, <1>17, <1>18 DEF IInv

LEMMA IsReadingPreserves ==
  ASSUME IInv, NEW t \in Threads, IsReading(t)
  PROVE  IInv'
<1>1. /\ TypeOK /\ pc \in [Threads -> PCs] /\ dest_bucket[t] \in Buckets
      /\ pc[t] = "isReading" /\ num_reading[dest_bucket[t]] = 0
  BY DEF IInv, TypeOK, IsReading
<1>2. /\ layout' = layout /\ write' = write /\ read' = read /\ num_reading' = num_reading
      /\ content' = content /\ read_bucket' = read_bucket /\ count' = count /\ hand' = hand
      /\ dest_bucket' = dest_bucket /\ overflow' = overflow /\ slot' = slot
      /\ pc' = [pc EXCEPT ![t] = "writeBlock"]
  BY DEF IsReading, Goto
<1>3. \A u \in Threads : pc[u] = "readBlock" => read_bucket[u] # dest_bucket[t]
  <2>1. Cardinality(Readers(dest_bucket[t])) = 0 /\ IsFiniteSet(Readers(dest_bucket[t]))
    BY <1>1, ReaderSets DEF IInv, CountsReaders
  <2>2. Readers(dest_bucket[t]) = {}
    BY <2>1, FS_EmptySet
  <2>. QED  BY <2>2 DEF Readers
(* The slot that t has claimed is empty, and nobody else claimed it. *)
<1>4. \A u \in Threads : pc[u] = "readBlock" => slot[u] # slot[t]
  <2>1. ASSUME NEW u \in Threads, pc[u] = "readBlock", slot[u] = slot[t]
        PROVE  read_bucket[u] = dest_bucket[t]
    <3>1. pc[t] \in Writing
      BY <1>1 DEF Writing
    <3>. QED  BY <2>1, <3>1, ReaderInArea, WriterInArea, AreasDisjoint DEF IInv
  <2>. QED  BY <1>3, <2>1
<1>5. content[slot[t]] = NoBlock
  BY <1>1, <1>4 DEF IInv, WriterClaims
<1>6. \A u \in Threads : u # t => pc'[u] = pc[u]
  BY <1>1, <1>2
<1>7. pc'[t] = "writeBlock"
  BY <1>1, <1>2
<1>8. CountsReaders'
  BY <1>1, <1>2, SameReaders DEF IInv, Reading
<1>9. layout' \in Layouts /\ TypeOK'
  BY <1>1, <1>2 DEF IInv, TypeOK, PCs, Blocks
<1>10. Hands'
  BY <1>1, <1>2 DEF IInv, Hands, Carrying
<1>11. Apart' /\ Somewhere'
  BY <1>2 DEF IInv, Apart, Somewhere, Blocks
<1>12. Pointers'
  BY <1>1, <1>2, <1>6 DEF IInv, Pointers
<1>13. ReaderClaims'
  <2>1. ASSUME NEW u \in Threads, pc[u] = "readBlock", slot[u] < write[read_bucket[u]]
        PROVE  \E w \in Threads : pc'[w] = "isReading" /\ dest_bucket[w] = read_bucket[u] /\ slot[w] = slot[u]
    <3>1. PICK w \in Threads : pc[w] = "isReading" /\ dest_bucket[w] = read_bucket[u] /\ slot[w] = slot[u]
      BY <2>1 DEF IInv, ReaderClaims
    <3>. QED  BY <1>4, <1>6, <2>1, <3>1
  <2>2. \A u \in Threads : pc'[u] = "readBlock" => pc[u] = "readBlock"
    BY <1>6, <1>7
  <2>. QED  BY <1>2, <2>1, <2>2 DEF IInv, ReaderClaims
<1>14. WriterClaims'
  <2>1. \A u \in Threads : /\ pc'[u] = "readBlock" <=> pc[u] = "readBlock"
                           /\ pc'[u] \in Writing <=> pc[u] \in Writing
    BY <1>1, <1>6, <1>7 DEF Writing
  <2>. QED  BY <1>1, <1>2, <1>5, <1>6, <1>7, <2>1 DEF IInv, WriterClaims
<1>15. Settled'
  <2>1. \A c \in Buckets : Writers(c)' = Writers(c)
    BY <1>1, <1>2, <1>6, <1>7 DEF Writers
  <2>. QED  BY <1>2, <2>1 DEF IInv, Settled, Blocks
<1>16. OverflowClaim'
  BY <1>2 DEF IInv, OverflowClaim
<1>. QED  BY <1>8, <1>9, <1>10, <1>11, <1>12, <1>13, <1>14, <1>15, <1>16 DEF IInv

LEMMA WriteBlockPreserves ==
  ASSUME IInv, NEW t \in Threads, WriteBlock(t)
  PROVE  IInv'
<1>. DEFINE b == dest_bucket[t]
<1>1. /\ TypeOK /\ layout \in Layouts /\ pc \in [Threads -> PCs] /\ b \in Buckets
      /\ content \in [0 .. layout.max_off - 1 -> Blocks \cup {NoBlock}]
      /\ hand \in [Threads -> Blocks \cup {NoBlock}]
      /\ pc[t] = "writeBlock" /\ pc[t] \in Writing
      /\ content[slot[t]] = NoBlock /\ hand[t] \in Blocks /\ layout.bucket[hand[t]] = b
  BY DEF IInv, TypeOK, WriteBlock, WriterClaims, Hands, Carrying, Writing
<1>2. /\ slot[t] \in DOMAIN content /\ slot[t] \in Nat
      /\ layout.first[b] <= slot[t] /\ slot[t] < layout.first[b + 1]
      /\ slot[t] < write[b]
  BY <1>1, WriterInArea DEF IInv, WriterClaims
<1>3. /\ layout' = layout /\ write' = write /\ read' = read /\ num_reading' = num_reading
      /\ read_bucket' = read_bucket /\ count' = count
      /\ dest_bucket' = dest_bucket /\ overflow' = overflow /\ slot' = slot
      /\ hand' = [hand EXCEPT ![t] = NoBlock]
      /\ content' = [content EXCEPT ![slot[t]] = hand[t]]
      /\ pc' = [pc EXCEPT ![t] = "startRead"]
  BY DEF WriteBlock, Goto
<1>4. /\ DOMAIN content' = DOMAIN content
      /\ \A s \in DOMAIN content : content'[s] = IF s = slot[t] THEN hand[t] ELSE content[s]
      /\ \A u \in Threads : hand'[u] = IF u = t THEN NoBlock ELSE hand[u]
      /\ \A u \in Threads : u # t => pc'[u] = pc[u]
      /\ pc'[t] = "startRead" /\ hand[t] # NoBlock
  BY <1>1, <1>2, <1>3, LayoutFacts
<1>5. CountsReaders'
  BY <1>1, <1>3, SameReaders DEF IInv, Reading
<1>6. layout' \in Layouts /\ TypeOK'
  <2>1. /\ content' \in [0 .. layout.max_off - 1 -> Blocks \cup {NoBlock}]
        /\ hand' \in [Threads -> Blocks \cup {NoBlock}]
    BY <1>1, <1>3
  <2>. QED  BY <1>1, <1>3, <2>1 DEF IInv, TypeOK, PCs, Blocks
<1>7. Hands'
  BY <1>1, <1>3, <1>4 DEF IInv, Hands, Carrying
<1>8. Apart'
  BY <1>1, <1>2, <1>3, <1>4 DEF IInv, Apart
<1>9. Somewhere'
  <2>1. ASSUME NEW x \in Blocks
        PROVE  \/ \E s \in DOMAIN content : content'[s] = x
               \/ \E u \in Threads : hand'[u] = x
               \/ \E u \in Threads : overflow[u] = x
    <3>1. x # NoBlock
      BY <1>1, LayoutFacts
    <3>2. ASSUME NEW s \in DOMAIN content, content[s] = x  PROVE  content'[s] = x
      BY <1>1, <1>4, <3>1, <3>2
    <3>3. ASSUME NEW u \in Threads, hand[u] = x
          PROVE  hand'[u] = x \/ content'[slot[t]] = x
      BY <1>2, <1>4, <3>3
    <3>. QED  BY <1>2, <3>2, <3>3 DEF IInv, Somewhere
  <2>. QED  BY <1>3, <1>4, <2>1 DEF Somewhere, Blocks
<1>10. ASSUME NEW c \in Buckets, write[c] <= slot[t], slot[t] < layout.first[c + 1]  PROVE  FALSE
  <2>1. /\ write[c] \in Nat /\ write[b] \in Nat /\ layout.first[c] <= write[c]
        /\ layout.first[c] \in Nat
    BY <1>1, LayoutFacts DEF IInv, TypeOK, Pointers
  <2>2. layout.first[c] <= slot[t]
    BY <1>2, <1>10, <2>1
  <2>3. c = b
    BY <1>1, <1>2, <1>10, <2>2, AreasDisjoint
  <2>. QED  BY <1>2, <1>10, <2>1, <2>3
<1>11. Pointers'
  <2>1. ASSUME NEW c \in Buckets, NEW s \in DOMAIN content, write[c] <= s, s <= read[c]
        PROVE  content'[s] # NoBlock
    BY <1>4, <2>1 DEF IInv, Pointers
  <2>2. ASSUME NEW c \in Buckets, NEW s \in DOMAIN content,
               write[c] <= s, read[c] < s, s < layout.first[c + 1]
        PROVE  content'[s] = NoBlock \/ \E r \in Threads : pc'[r] = "readBlock" /\ slot[r] = s
    <3>1. s # slot[t]
      BY <1>10, <2>2
    <3>2. content[s] = NoBlock \/ \E r \in Threads : pc[r] = "readBlock" /\ slot[r] = s
      BY <2>2 DEF IInv, Pointers
    <3>3. \A r \in Threads : pc[r] = "readBlock" => pc'[r] = "readBlock"
      BY <1>1, <1>4
    <3>. QED  BY <1>4, <2>2, <3>1, <3>2, <3>3
  <2>. QED  BY <1>3, <1>4, <2>1, <2>2 DEF IInv, Pointers
<1>12. ReaderClaims'
  <2>1. \A u \in Threads : pc'[u] = "readBlock" =>
          /\ pc[u] = "readBlock" /\ slot[u] \in DOMAIN content
          /\ content'[slot[u]] # NoBlock
    BY <1>1, <1>4, ReaderInArea DEF IInv, ReaderClaims
  <2>2. \A u \in Threads : pc[u] = "isReading" => pc'[u] = "isReading"
    BY <1>1, <1>4
  <2>. QED  BY <1>3, <2>1, <2>2 DEF IInv, ReaderClaims
<1>13. WriterClaims'
  <2>1. \A u \in Threads : pc'[u] \in Writing =>
          /\ u # t /\ pc'[u] = pc[u] /\ pc[u] \in Writing /\ slot[u] \in DOMAIN content
          /\ slot[u] # slot[t] /\ content'[slot[u]] = content[slot[u]]
    BY <1>1, <1>4, WriterInArea DEF Writing, IInv, WriterClaims
  <2>2. \A u \in Threads : pc'[u] = "readBlock" <=> pc[u] = "readBlock"
    BY <1>1, <1>4
  <2>3. \A u \in Threads : pc'[u] = "isReading" =>
          \/ content'[slot[u]] = NoBlock
          \/ \E r \in Threads : pc'[r] = "readBlock" /\ slot[r] = slot[u]
    BY <2>1, <2>2 DEF IInv, WriterClaims, Writing
  <2>4. \A u \in Threads : pc'[u] \in {"inspect", "swapBlocks"} =>
          /\ content'[slot[u]] # NoBlock
          /\ \A r \in Threads : pc'[r] = "readBlock" => slot[r] # slot[u]
    BY <2>1, <2>2 DEF IInv, WriterClaims, Writing
  <2>5. \A u \in Threads : pc'[u] = "writeBlock" => content'[slot[u]] = NoBlock
    BY <2>1 DEF IInv, WriterClaims, Writing
  <2>. QED  BY <1>3, <2>1, <2>3, <2>4, <2>5 DEF IInv, WriterClaims
<1>14. Settled'
  <2>1. \A c \in Buckets : \A w \in Writers(c) : w # t => w \in Writers(c)'
    BY <1>3, <1>4 DEF Writers
  <2>2. ASSUME NEW c \in Buckets, NEW s \in layout.first[c] .. write[c] - 1, s \in DOMAIN content
        PROVE  \/ content'[s] \in Blocks /\ layout.bucket[content'[s]] = c
               \/ \E w \in Writers(c)' : slot[w] = s
    <3>1. CASE s # slot[t]
      BY <1>4, <2>1, <2>2, <3>1 DEF IInv, Settled
    <3>2. CASE s = slot[t]
      <4>1. /\ layout.first[c] <= s /\ s < layout.first[c + 1] /\ s \in Int
        <5>1. /\ layout.first[c] \in Nat /\ layout.first[c + 1] \in Nat
          BY <1>1, LayoutFacts
        <5>2. write[c] \in Nat /\ write[c] <= layout.first[c + 1]
          BY DEF IInv, Pointers, TypeOK
        <5>. QED  BY <5>1, <5>2
      <4>2. c = b
        BY <1>1, <1>2, <3>2, <4>1, AreasDisjoint
      <4>. QED  BY <1>1, <1>4, <2>2, <3>2, <4>2
    <3>. QED  BY <3>1, <3>2
  <2>. QED  BY <1>3, <1>4, <2>2 DEF Settled, Blocks
<1>15. OverflowClaim'
  BY <1>3 DEF IInv, OverflowClaim
<1>. QED  BY <1>5, <1>6, <1>7, <1>8, <1>9, <1>11, <1>12, <1>13, <1>14, <1>15 DEF IInv

LEMMA InspectPreserves ==
  ASSUME IInv, NEW t \in Threads, Inspect(t)
  PROVE  IInv'
<1>. DEFINE b == dest_bucket[t]
<1>1. /\ TypeOK /\ layout \in Layouts /\ pc \in [Threads -> PCs] /\ b \in Buckets
      /\ content \in [0 .. layout.max_off - 1 -> Blocks \cup {NoBlock}]
      /\ pc[t] = "inspect" /\ pc[t] \in Writing /\ content[slot[t]] # NoBlock
  BY DEF IInv, TypeOK, Inspect, WriterClaims, Writing
<1>2. /\ slot[t] \in DOMAIN content /\ slot[t] \in Nat /\ content[slot[t]] \in Blocks
      /\ layout.first[b] <= slot[t] /\ slot[t] < layout.first[b + 1]
  BY <1>1, WriterInArea
<1>3. /\ layout' = layout /\ write' = write /\ read' = read /\ num_reading' = num_reading
      /\ content' = content /\ read_bucket' = read_bucket /\ count' = count /\ hand' = hand
      /\ dest_bucket' = dest_bucket /\ overflow' = overflow /\ slot' = slot
  BY DEF Inspect
<1>4. PICK p \in {"incWrite", "swapBlocks"} :
        pc' = [pc EXCEPT ![t] = p] /\ (p = "incWrite" => layout.bucket[content[slot[t]]] = b)
  BY DEF Inspect, Goto
<1>5. /\ \A u \in Threads : u # t => pc'[u] = pc[u]
      /\ pc'[t] = p
  BY <1>1, <1>4
<1>6. CountsReaders'
  BY <1>1, <1>3, <1>4, SameReaders DEF IInv, Reading
<1>7. layout' \in Layouts /\ TypeOK'
  BY <1>1, <1>3, <1>4 DEF IInv, TypeOK, PCs, Blocks
<1>8. Hands'
  BY <1>1, <1>3, <1>4, <1>5 DEF IInv, Hands, Carrying
<1>9. Apart' /\ Somewhere'
  BY <1>3 DEF IInv, Apart, Somewhere, Blocks
<1>10. \A u \in Threads : /\ pc'[u] = "readBlock" <=> pc[u] = "readBlock"
                          /\ pc'[u] = "isReading" <=> pc[u] = "isReading"
                          /\ pc'[u] = "writeBlock" <=> pc[u] = "writeBlock"
                          /\ pc'[u] \in Writing => pc[u] \in Writing
                          /\ pc'[u] \in {"inspect", "swapBlocks"} => pc[u] \in {"inspect", "swapBlocks"}
  BY <1>1, <1>5 DEF Writing
<1>11. Pointers'
  BY <1>3, <1>10 DEF IInv, Pointers
<1>12. ReaderClaims'
  BY <1>3, <1>10 DEF IInv, ReaderClaims
<1>13. WriterClaims'
  BY <1>3, <1>10 DEF IInv, WriterClaims
<1>14. Settled'
  <2>1. ASSUME NEW c \in Buckets, NEW s \in layout.first[c] .. write[c] - 1, s \in DOMAIN content
        PROVE  \/ content[s] \in Blocks /\ layout.bucket[content[s]] = c
               \/ \E w \in Writers(c)' : slot[w] = s
    <3>1. \A w \in Writers(c) : w # t => w \in Writers(c)'
      BY <1>3, <1>5 DEF Writers
    <3>2. CASE t \notin Writers(c) \/ slot[t] # s
      BY <2>1, <3>1, <3>2 DEF IInv, Settled
    <3>3. CASE t \in Writers(c) /\ slot[t] = s
      <4>1. c = b
        BY <3>3 DEF Writers
      <4>2. CASE p = "incWrite"
        BY <1>2, <1>4, <3>3, <4>1, <4>2
      <4>3. CASE p = "swapBlocks"
        BY <1>3, <1>5, <3>3, <4>1, <4>3 DEF Writers
      <4>. QED  BY <4>2, <4>3
    <3>. QED  BY <3>2, <3>3
  <2>. QED  BY <1>3, <2>1 DEF Settled, Blocks
<1>15. OverflowClaim'
  BY <1>3 DEF IInv, OverflowClaim
<1>. QED  BY <1>6, <1>7, <1>8, <1>9, <1>11, <1>12, <1>13, <1>14, <1>15 DEF IInv

LEMMA SwapBlocksPreserves ==
  ASSUME IInv, NEW t \in Threads, SwapBlocks(t)
  PROVE  IInv'
<1>. DEFINE b == dest_bucket[t]
<1>1. /\ TypeOK /\ layout \in Layouts /\ pc \in [Threads -> PCs] /\ b \in Buckets
      /\ content \in [0 .. layout.max_off - 1 -> Blocks \cup {NoBlock}]
      /\ hand \in [Threads -> Blocks \cup {NoBlock}] /\ dest_bucket \in [Threads -> Buckets]
      /\ pc[t] = "swapBlocks" /\ pc[t] \in Writing
      /\ content[slot[t]] # NoBlock /\ hand[t] \in Blocks /\ layout.bucket[hand[t]] = b
  BY DEF IInv, TypeOK, SwapBlocks, WriterClaims, Hands, Carrying, Writing
<1>2. /\ slot[t] \in DOMAIN content /\ slot[t] \in Nat /\ content[slot[t]] \in Blocks
      /\ layout.first[b] <= slot[t] /\ slot[t] < layout.first[b + 1]
      /\ slot[t] < write[b]
  BY <1>1, WriterInArea DEF IInv, WriterClaims
<1>3. /\ layout' = layout /\ write' = write /\ read' = read /\ num_reading' = num_reading
      /\ read_bucket' = read_bucket /\ count' = count
      /\ overflow' = overflow /\ slot' = slot
      /\ hand' = [hand EXCEPT ![t] = content[slot[t]]]
      /\ content' = [content EXCEPT ![slot[t]] = hand[t]]
      /\ dest_bucket' = [dest_bucket EXCEPT ![t] = layout.bucket[content[slot[t]]]]
      /\ pc' = [pc EXCEPT ![t] = "incWrite"]
  BY DEF SwapBlocks, Goto
<1>4. /\ DOMAIN content' = DOMAIN content
      /\ \A s \in DOMAIN content : content'[s] = IF s = slot[t] THEN hand[t] ELSE content[s]
      /\ \A u \in Threads : hand'[u] = IF u = t THEN content[slot[t]] ELSE hand[u]
      /\ \A u \in Threads : u # t => pc'[u] = pc[u] /\ dest_bucket'[u] = dest_bucket[u]
      /\ pc'[t] = "incWrite" /\ hand[t] # NoBlock
      /\ dest_bucket'[t] = layout.bucket[content[slot[t]]]
  BY <1>1, <1>2, <1>3, LayoutFacts
<1>5. CountsReaders'
  BY <1>1, <1>3, SameReaders DEF IInv, Reading
<1>6. layout' \in Layouts /\ TypeOK'
  <2>1. /\ content' \in [0 .. layout.max_off - 1 -> Blocks \cup {NoBlock}]
        /\ hand' \in [Threads -> Blocks \cup {NoBlock}]
    BY <1>1, <1>2, <1>3
  <2>2. dest_bucket' \in [Threads -> Buckets]
    BY <1>1, <1>2, <1>3, LayoutFacts
  <2>. QED  BY <1>1, <1>3, <2>1, <2>2 DEF IInv, TypeOK, PCs, Blocks
<1>7. Hands'
  BY <1>1, <1>3, <1>4 DEF IInv, Hands, Carrying
<1>8. Apart'
  BY <1>1, <1>2, <1>3, <1>4 DEF IInv, Apart
<1>9. Somewhere'
  BY <1>1, <1>2, <1>3, <1>4 DEF IInv, Somewhere, Blocks
<1>10. Pointers'
  <2>1. ASSUME NEW c \in Buckets, NEW s \in DOMAIN content
        PROVE  /\ content[s] # NoBlock => content'[s] # NoBlock
               /\ write[c] <= s /\ s < layout.first[c + 1] => content'[s] = content[s]
    <3>1. CASE s # slot[t]
      BY <1>4, <3>1
    <3>2. CASE s = slot[t]
      <4>1. ASSUME write[c] <= s, s < layout.first[c + 1]  PROVE  FALSE
        <5>1. /\ write[c] \in Nat /\ write[b] \in Nat /\ layout.first[c] <= write[c]
              /\ layout.first[c] \in Nat
          BY <1>1, LayoutFacts DEF IInv, TypeOK, Pointers
        <5>2. layout.first[c] <= slot[t]
          BY <1>2, <3>2, <4>1, <5>1
        <5>3. c = b
          BY <1>1, <1>2, <3>2, <4>1, <5>2, AreasDisjoint
        <5>. QED  BY <1>2, <3>2, <4>1, <5>1, <5>3
      <4>. QED  BY <1>4, <3>2, <4>1
    <3>. QED  BY <3>1, <3>2
  <2>2. \A r \in Threads : pc[r] = "readBlock" => pc'[r] = "readBlock"
    BY <1>1, <1>4
  <2>. QED  BY <1>3, <1>4, <2>1, <2>2 DEF IInv, Pointers
<1>11. ReaderClaims'
  <2>1. \A u \in Threads : pc'[u] = "readBlock" =>
          /\ pc[u] = "readBlock" /\ slot[u] \in DOMAIN content
          /\ content'[slot[u]] # NoBlock
    BY <1>1, <1>4, ReaderInArea DEF IInv, ReaderClaims
  <2>2. \A u \in Threads : pc[u] = "isReading" => pc'[u] = "isReading" /\ dest_bucket'[u] = dest_bucket[u]
    BY <1>1, <1>4
  <2>. QED  BY <1>3, <2>1, <2>2 DEF IInv, ReaderClaims
<1>12. WriterClaims'
  <2>1. \A u \in Threads : pc'[u] \in Writing =>
          /\ u # t /\ pc'[u] = pc[u] /\ pc[u] \in Writing /\ slot[u] \in DOMAIN content
          /\ slot[u] # slot[t] /\ content'[slot[u]] = content[slot[u]]
          /\ dest_bucket'[u] = dest_bucket[u]
    BY <1>1, <1>4, WriterInArea DEF Writing, IInv, WriterClaims
  <2>2. \A u \in Threads : pc'[u] = "readBlock" <=> pc[u] = "readBlock"
    BY <1>1, <1>4
  <2>3. \A u \in Threads : pc'[u] = "isReading" =>
          \/ content'[slot[u]] = NoBlock
          \/ \E r \in Threads : pc'[r] = "readBlock" /\ slot[r] = slot[u]
    BY <2>1, <2>2 DEF IInv, WriterClaims, Writing
  <2>4. \A u \in Threads : pc'[u] \in {"inspect", "swapBlocks"} =>
          /\ content'[slot[u]] # NoBlock
          /\ \A r \in Threads : pc'[r] = "readBlock" => slot[r] # slot[u]
    BY <2>1, <2>2 DEF IInv, WriterClaims, Writing
  <2>5. \A u \in Threads : pc'[u] = "writeBlock" => content'[slot[u]] = NoBlock
    BY <2>1 DEF IInv, WriterClaims, Writing
  <2>. QED  BY <1>3, <2>1, <2>3, <2>4, <2>5 DEF IInv, WriterClaims
<1>13. Settled'
  <2>1. \A c \in Buckets : \A w \in Writers(c) : w # t => w \in Writers(c)'
    BY <1>4 DEF Writers
  <2>2. ASSUME NEW c \in Buckets, NEW s \in layout.first[c] .. write[c] - 1, s \in DOMAIN content
        PROVE  \/ content'[s] \in Blocks /\ layout.bucket[content'[s]] = c
               \/ \E w \in Writers(c)' : slot[w] = s
    <3>1. CASE s # slot[t]
      BY <1>4, <2>1, <2>2, <3>1 DEF IInv, Settled
    <3>2. CASE s = slot[t]
      <4>1. /\ layout.first[c] <= s /\ s < layout.first[c + 1] /\ s \in Int
        <5>1. /\ layout.first[c] \in Nat /\ layout.first[c + 1] \in Nat
          BY <1>1, LayoutFacts
        <5>2. write[c] \in Nat /\ write[c] <= layout.first[c + 1]
          BY DEF IInv, Pointers, TypeOK
        <5>. QED  BY <5>1, <5>2
      <4>2. c = b
        BY <1>1, <1>2, <3>2, <4>1, AreasDisjoint
      <4>. QED  BY <1>1, <1>4, <2>2, <3>2, <4>2
    <3>. QED  BY <3>1, <3>2
  <2>. QED  BY <1>3, <1>4, <2>2 DEF Settled, Blocks
<1>14. OverflowClaim'
  BY <1>3 DEF IInv, OverflowClaim
<1>. QED  BY <1>5, <1>6, <1>7, <1>8, <1>9, <1>10, <1>11, <1>12, <1>13, <1>14 DEF IInv

------------------------------------------------------------------------------
LEMMA InitInv == Init => IInv
<1>. SUFFICES ASSUME Init  PROVE  IInv
  OBVIOUS
<1>1. /\ layout \in Layouts /\ NumBuckets \in Nat \ {0} /\ NumThreads \in Nat \ {0}
      /\ write = [b \in Buckets |-> layout.first[b]] /\ read = layout.last
      /\ content = layout.content
      /\ num_reading = [b \in Buckets |-> 0]
      /\ pc = [t \in Threads |-> "startRead"]
      /\ count = [t \in Threads |-> NumBuckets]
      /\ hand = [t \in Threads |-> NoBlock] /\ overflow = [t \in Threads |-> NoBlock]
      /\ dest_bucket = [t \in Threads |-> 0] /\ slot = [t \in Threads |-> 0]
  BY PermutationAssumption DEF Init
<1>2. /\ \A x \in Blocks : \E s \in DOMAIN content : content[s] = x
      /\ \A r, s \in DOMAIN content : content[r] = content[s] /\ content[r] # NoBlock => r = s
      /\ \A b \in Buckets : \A s \in DOMAIN content :
            layout.first[b] <= s /\ s < layout.first[b + 1] =>
              (content[s] # NoBlock <=> s <= layout.last[b])
  <2>1. IsLayout(layout)
    BY <1>1, PermutationAssumption
  <2>. QED  BY <1>1, <2>1, Zenon DEF IsLayout, Blocks
<1>3. TypeOK
  <2>1. read_bucket \in [Threads -> Buckets]
    <3>1. ASSUME NEW n \in Nat, NEW N \in Nat \ {0}, NEW K \in Nat \ {0}
          PROVE  (n \div N) % K \in 0 .. K - 1
      OBVIOUS
    <3>2. ASSUME NEW t \in Threads
          PROVE  ((t * NumBuckets) \div NumThreads) % NumBuckets \in Buckets
      <4>1. t * NumBuckets \in Nat
        BY <1>1 DEF Threads
      <4>. QED  BY <1>1, <3>1, <4>1 DEF Buckets
    <3>3. read_bucket = [t \in Threads |-> ((t * NumBuckets) \div NumThreads) % NumBuckets]
      BY DEF Init
    <3>. QED  BY <3>2, <3>3
  <2>2. write \in [Buckets -> Nat] /\ read \in [Buckets -> Int]
        /\ content \in [0 .. layout.max_off - 1 -> Blocks \cup {NoBlock}]
    BY <1>1, LayoutFacts
  <2>3. /\ pc \in [Threads -> PCs]
        /\ num_reading \in [Buckets -> 0 .. NumThreads]
        /\ count \in [Threads -> 0 .. NumBuckets]
        /\ dest_bucket \in [Threads -> Buckets] /\ slot \in [Threads -> Int]
    BY <1>1 DEF PCs, Buckets
  <2>4. hand \in [Threads -> Blocks \cup {NoBlock}] /\ overflow \in [Threads -> Blocks \cup {NoBlock}]
    BY <1>1
  <2>. QED  BY <2>1, <2>2, <2>3, <2>4 DEF TypeOK
<1>4. CountsReaders
  <2>1. \A b \in Buckets : Readers(b) = {}
    BY <1>1 DEF Readers
  <2>. QED  BY <1>1, <2>1, FS_EmptySet DEF CountsReaders
<1>5. Hands
  BY <1>1 DEF Hands, Carrying
<1>6. Apart /\ Somewhere
  BY <1>1, <1>2 DEF Apart, Somewhere
<1>7. Pointers
  <2>1. \A b \in Buckets : write[b] = layout.first[b] /\ read[b] = layout.last[b]
    BY <1>1
  <2>2. ASSUME NEW b \in Buckets, NEW s \in DOMAIN content
        PROVE  /\ write[b] <= s /\ s <= read[b] => content[s] # NoBlock
               /\ write[b] <= s /\ read[b] < s /\ s < layout.first[b + 1] => content[s] = NoBlock
    <3>1. /\ layout.first[b] \in Nat /\ layout.first[b + 1] \in Nat /\ layout.last[b] \in Int
          /\ layout.last[b] < layout.first[b + 1] /\ s \in Int
      BY <1>1, <1>3, LayoutFacts DEF TypeOK
    <3>. QED  BY <1>2, <2>1, <3>1
  <2>3. \A b \in Buckets :
          /\ layout.first[b] \in Nat /\ layout.last[b] \in Int
          /\ layout.first[b] <= layout.first[b + 1]
    BY <1>1, LayoutFacts
  <2>4. \A b \in Buckets : layout.first[b] <= write[b] /\ read[b] <= layout.last[b]
    BY <2>1, <2>3
  <2>. QED  BY <2>1, <2>2, <2>3, <2>4 DEF Pointers
<1>8. ReaderClaims /\ WriterClaims
  BY <1>1 DEF ReaderClaims, WriterClaims, Writing
<1>9. Settled
  <2>1. \A b \in Buckets : layout.first[b] .. write[b] - 1 = {}
    BY <1>1, LayoutFacts
  <2>. QED  BY <2>1 DEF Settled
<1>10. OverflowClaim
  <2>1. \A b \in Buckets : write[b] = layout.first[b] /\ layout.first[b] \in Nat
    BY <1>1, LayoutFacts
  <2>2. layout.max_off \in Nat
    BY <1>1, LayoutFacts
  <2>. QED  BY <1>1, <2>1, <2>2 DEF OverflowClaim
<1>. QED  BY <1>1, <1>3, <1>4, <1>5, <1>6, <1>7, <1>8, <1>9, <1>10 DEF IInv

LEMMA StutterInv == IInv /\ UNCHANGED vars => IInv'
<1>. SUFFICES ASSUME IInv, UNCHANGED vars  PROVE  IInv'
  OBVIOUS
<1>1. /\ layout' = layout /\ write' = write /\ read' = read /\ num_reading' = num_reading
      /\ content' = content /\ pc' = pc /\ read_bucket' = read_bucket /\ count' = count
      /\ hand' = hand /\ dest_bucket' = dest_bucket /\ overflow' = overflow /\ slot' = slot
  BY DEF vars
<1>2. \A b \in Buckets : Readers(b)' = Readers(b) /\ Writers(b)' = Writers(b)
  BY <1>1 DEF Readers, Writers
<1>3. TypeOK' /\ Hands' /\ Apart' /\ Somewhere' /\ Pointers' /\ OverflowClaim'
  BY <1>1 DEF IInv, TypeOK, Hands, Apart, Somewhere, Pointers, OverflowClaim, Blocks
<1>4. ReaderClaims' /\ WriterClaims'
  BY <1>1 DEF IInv, ReaderClaims, WriterClaims
<1>5. CountsReaders' /\ Settled'
  BY <1>1, <1>2 DEF IInv, CountsReaders, Settled, Blocks
<1>. QED  BY <1>1, <1>3, <1>4, <1>5 DEF IInv

LEMMA Invariance == Spec => []IInv
<1>1. IInv /\ [Next]_vars => IInv'
  <2>. SUFFICES ASSUME IInv, [Next]_vars  PROVE  IInv'
    OBVIOUS
  <2>1. ASSUME NEW t \in Threads, Step(t)  PROVE  IInv'
    <3>1. CASE StartRead(t)     BY <3>1, StartReadPreserves
    <3>2. CASE DecRead(t)       BY <3>2, DecReadPreserves
    <3>3. CASE NoMoreBlocks(t)  BY <3>3, NoMoreBlocksPreserves
    <3>4. CASE ReadBlock(t)     BY <3>4, ReadBlockPreserves
    <3>5. CASE StopRead(t)      BY <3>5, StopReadPreserves
    <3>6. CASE IncWrite(t)      BY <3>6, IncWritePreserves
    <3>7. CASE IsReading(t)     BY <3>7, IsReadingPreserves
    <3>8. CASE Spin(t)          BY <3>8, StutterInv DEF Spin
    <3>9. CASE WriteBlock(t)    BY <3>9, WriteBlockPreserves
    <3>10. CASE Inspect(t)      BY <3>10, InspectPreserves
    <3>11. CASE SwapBlocks(t)   BY <3>11, SwapBlocksPreserves
    <3>. QED  BY <2>1, <3>1, <3>2, <3>3, <3>4, <3>5, <3>6, <3>7, <3>8, <3>9, <3>10, <3>11 DEF Step
  <2>2. CASE Finished  BY <2>2, StutterInv DEF Finished
  <2>3. CASE UNCHANGED vars  BY <2>3, StutterInv
  <2>. QED  BY <2>1, <2>2, <2>3 DEF Next
<1>. QED  BY <1>1, InitInv, PTL DEF Spec

------------------------------------------------------------------------------
LEMMA InvExclusive == IInv => ExclusiveAccess
<1>. SUFFICES ASSUME IInv  PROVE  ExclusiveAccess
  OBVIOUS
<1>1. \A t \in Accessing : t \in Threads /\ (pc[t] = "readBlock" \/ pc[t] \in Writing \ {"isReading"})
  BY DEF Accessing, Writing
<1>2. ASSUME NEW s \in Accessing, NEW t \in Accessing, slot[s] = slot[t]
      PROVE  s = t
  <2>1. CASE pc[s] = "readBlock" /\ pc[t] = "readBlock"
    BY <1>1, <1>2, <2>1 DEF IInv, ReaderClaims
  <2>2. CASE pc[s] \in Writing /\ pc[t] \in Writing
    BY <1>1, <1>2, <2>2 DEF IInv, WriterClaims
  <2>3. ASSUME NEW r \in Threads, NEW w \in Threads,
               pc[r] = "readBlock", pc[w] \in Writing \ {"isReading"}
        PROVE  slot[r] # slot[w]
    BY <2>3 DEF IInv, ReaderClaims, WriterClaims, Writing
  <2>. QED  BY <1>1, <1>2, <2>1, <2>2, <2>3
<1>3. ASSUME NEW t \in Accessing
      PROVE  /\ slot[t] \in DOMAIN content
             /\ slot[t] \in Area(IF pc[t] = "readBlock" THEN read_bucket[t] ELSE dest_bucket[t])
  <2>1. CASE pc[t] = "readBlock"
    <3>1. /\ slot[t] \in DOMAIN content /\ slot[t] \in Nat /\ read_bucket[t] \in Buckets
          /\ layout.first[read_bucket[t]] <= slot[t] /\ slot[t] < layout.first[read_bucket[t] + 1]
      BY <1>1, <2>1, ReaderInArea
    <3>2. layout.first[read_bucket[t]] \in Nat /\ layout.first[read_bucket[t] + 1] \in Nat
      BY <3>1, LayoutFacts DEF IInv
    <3>. QED  BY <2>1, <3>1, <3>2 DEF Area
  <2>2. CASE pc[t] # "readBlock"
    <3>1. /\ slot[t] \in DOMAIN content /\ slot[t] \in Nat /\ dest_bucket[t] \in Buckets
          /\ layout.first[dest_bucket[t]] <= slot[t] /\ slot[t] < layout.first[dest_bucket[t] + 1]
      BY <1>1, <2>2, WriterInArea DEF IInv, TypeOK
    <3>2. layout.first[dest_bucket[t]] \in Nat /\ layout.first[dest_bucket[t] + 1] \in Nat
      BY <3>1, LayoutFacts DEF IInv
    <3>. QED  BY <2>2, <3>1, <3>2 DEF Area
  <2>. QED  BY <2>1, <2>2
<1>. QED  BY <1>2, <1>3 DEF ExclusiveAccess

LEMMA InvOnePlace == IInv => OnePlace
<1>. SUFFICES ASSUME IInv, NEW x \in Blocks
              PROVE  Cardinality({s \in DOMAIN content : content[s] = x})
                       + Cardinality({t \in Threads : hand[t] = x})
                       + Cardinality({t \in Threads : overflow[t] = x}) = 1
  BY DEF OnePlace
<1>. DEFINE S == {s \in DOMAIN content : content[s] = x}
            H == {t \in Threads : hand[t] = x}
            O == {t \in Threads : overflow[t] = x}
<1>1. x # NoBlock
  BY LayoutFacts DEF IInv
<1>2. /\ Cardinality({}) = 0
      /\ \A s : Cardinality({s}) = 1
  BY FS_EmptySet, FS_Singleton
<1>3. CASE \E s \in DOMAIN content : content[s] = x
  <2>1. PICK s \in DOMAIN content : content[s] = x
    BY <1>3
  <2>2. S = {s} /\ H = {} /\ O = {}
    BY <1>1, <2>1 DEF IInv, Apart
  <2>3. Cardinality(S) = 1 /\ Cardinality(H) = 0 /\ Cardinality(O) = 0
    BY <1>2, <2>2
  <2>. QED  BY <2>3
<1>4. CASE \E t \in Threads : hand[t] = x
  <2>1. PICK t \in Threads : hand[t] = x
    BY <1>4
  <2>2. S = {} /\ H = {t} /\ O = {}
    BY <1>1, <2>1 DEF IInv, Apart
  <2>3. Cardinality(S) = 0 /\ Cardinality(H) = 1 /\ Cardinality(O) = 0
    BY <1>2, <2>2
  <2>. QED  BY <2>3
<1>5. CASE \E t \in Threads : overflow[t] = x
  <2>1. PICK t \in Threads : overflow[t] = x
    BY <1>5
  <2>2. S = {} /\ H = {} /\ O = {t}
    BY <1>1, <2>1 DEF IInv, Apart
  <2>3. Cardinality(S) = 0 /\ Cardinality(H) = 0 /\ Cardinality(O) = 1
    BY <1>2, <2>2
  <2>. QED  BY <2>3
<1>. QED  BY <1>3, <1>4, <1>5 DEF IInv, Somewhere

LEMMA InvOverflow == IInv => Overflow
<1>. SUFFICES ASSUME IInv, NEW t \in Threads, overflow[t] # NoBlock
              PROVE  /\ \A s \in Threads : overflow[s] # NoBlock => s = t
                     /\ layout.bucket[overflow[t]] = ComputeOverflowBucket
                     /\ write[ComputeOverflowBucket] = layout.first[ComputeOverflowBucket + 1]
  BY DEF Overflow
<1>. DEFINE b == layout.bucket[overflow[t]]
<1>1. layout \in Layouts /\ overflow[t] \in Blocks /\ b \in Buckets
  BY LayoutFacts DEF IInv, TypeOK
<1>2. /\ layout.first[b] <= layout.max_off /\ write[b] = layout.max_off + 1
      /\ \A s \in Threads : overflow[s] # NoBlock => s = t
  BY DEF IInv, OverflowClaim
<1>3. /\ b \in layout.large
      /\ \A c \in layout.large : c \in Buckets /\ layout.first[c] <= layout.max_off
  <2>1. IsLayout(layout)
    BY <1>1, PermutationAssumption
  <2>2. /\ layout.large \subseteq {c \in Buckets : layout.first[c] <= layout.max_off}
        /\ \A x \in Blocks : layout.bucket[x] \in layout.large
    BY <2>1, Zenon DEF IsLayout, Blocks
  <2>. QED  BY <1>1, <2>2
<1>. HIDE DEF b
<1>4. write[b] = layout.first[b + 1]
  <2>1. /\ layout.max_off \in Nat /\ layout.first[b + 1] \in Nat
        /\ layout.first[b + 1] <= layout.max_off + 1
    BY <1>1, LayoutFacts
  <2>2. write[b] <= layout.first[b + 1]
    BY <1>1 DEF IInv, Pointers
  <2>. QED  BY <1>2, <2>1, <2>2
<1>5. ASSUME NEW c \in layout.large  PROVE  c <= b
  <2>1. b \in Int /\ c \in Int /\ layout.max_off \in Nat /\ layout.first[c] \in Nat
    BY <1>1, <1>3, LayoutFacts, PermutationAssumption DEF Buckets
  <2>2. ~(b < c)
    <3>1. SUFFICES ASSUME b < c  PROVE  FALSE
      OBVIOUS
    <3>2. layout.first[b + 1] <= layout.first[c]
      BY <1>1, <1>3, <3>1, LayoutFacts
    <3>. QED  BY <1>2, <1>3, <1>4, <2>1, <3>2
  <2>. QED  BY <2>1, <2>2
<1>6. ComputeOverflowBucket = b
  <2>1. ASSUME NEW d \in layout.large, \A c \in layout.large : c <= d  PROVE  d = b
    <3>1. b \in Int /\ d \in Int /\ d <= b /\ b <= d
      BY <1>1, <1>3, <1>5, <2>1, PermutationAssumption DEF Buckets
    <3>. QED  BY <3>1
  <2>2. b \in layout.large /\ \A c \in layout.large : c <= b
    BY <1>3, <1>5
  <2>3. layout.large # {}
    BY <1>3
  <2>. QED  BY <2>1, <2>2, <2>3, Zenon DEF ComputeOverflowBucket
<1>. QED  BY <1>2, <1>4, <1>6 DEF b

(* ExclusiveAccess: while a thread reads or writes the slot it claimed     *)
(* with decRead or incWrite, no other thread touches it.                   *)
THEOREM ExclusiveAccesses == Spec => [](TypeOK /\ ExclusiveAccess)
<1>1. IInv => TypeOK
  BY DEF IInv
<1>. QED  BY <1>1, Invariance, InvExclusive, PTL

(* TypeOK: a thread visits each bucket at most once more than it has found *)
(* empty, and num_reading_ never counts more threads than there are.       *)
THEOREM TypeCorrect == Spec => []TypeOK
  BY ExclusiveAccesses, PTL

(* OnePlace and Settled: no block is lost or doubled by readBlock,         *)
(* writeBlock and swapBlocks, and what a write pointer has passed belongs  *)
(* to its bucket, or a writer is about to see to that.                     *)
THEOREM NoBlockLost == Spec => [](OnePlace /\ Settled)
<1>1. IInv => Settled
  BY DEF IInv
<1>. QED  BY <1>1, Invariance, InvOnePlace, PTL

(* Settled: behind a bucket's write pointer there are only blocks of that  *)
(* bucket, or blocks that a claim is about to put there.                   *)
THEOREM PassedSlotsSettled == Spec => []Settled
  BY NoBlockLost, PTL

(* Overflow: at most one block goes to an overflow buffer, and it is of    *)
(* the bucket that computeOverflowBucket names.                            *)
THEOREM OneOverflow == Spec => []Overflow
  BY Invariance, InvOverflow, PTL

------------------------------------------------------------------------------
(* How many buckets after the one it reads from a thread comes to b.       *)
Distance(t, b) ==
  IF b < read_bucket[t] THEN b + NumBuckets - read_bucket[t] ELSE b - read_bucket[t]

(* The buckets that a thread has left behind have no more blocks to read,  *)
(* and a thread leaves the phase when it has left all of them behind.      *)
Exhausted ==
  \A t \in Threads :
    /\ pc[t] = "done" => count[t] = 0
    /\ pc[t] = "noMoreBlocks" => read[read_bucket[t]] < write[read_bucket[t]]
    /\ \A b \in Buckets : Distance(t, b) >= count[t] => read[b] < write[b]

(* A bucket without blocks to read stays so.                               *)
LEMMA PointersCross ==
  ASSUME TypeOK, NEW t \in Threads, Step(t), NEW b \in Buckets, read[b] < write[b]
  PROVE  read'[b] < write'[b]
<1>1. /\ read \in [Buckets -> Int] /\ write \in [Buckets -> Nat]
      /\ read_bucket[t] \in Buckets /\ dest_bucket[t] \in Buckets
  BY DEF TypeOK
<1>2. CASE DecRead(t)
  <2>1. write' = write /\ read' = [read EXCEPT ![read_bucket[t]] = @ - 1]
    BY <1>2 DEF DecRead
  <2>. QED  BY <1>1, <2>1
<1>3. CASE IncWrite(t)
  <2>1. read' = read /\ write' = [write EXCEPT ![dest_bucket[t]] = @ + 1]
    BY <1>3 DEF IncWrite
  <2>. QED  BY <1>1, <2>1
<1>4. CASE ~ DecRead(t) /\ ~ IncWrite(t)
  <2>1. read' = read /\ write' = write
    BY <1>4 DEF Step, StartRead, NoMoreBlocks, ReadBlock, StopRead, IsReading, Spin,
                WriteBlock, Inspect, SwapBlocks, vars
  <2>. QED  BY <2>1
<1>. QED  BY <1>2, <1>3, <1>4

LEMMA StepExhausted ==
  ASSUME IInv, Exhausted, NEW t \in Threads, Step(t)
  PROVE  Exhausted'
<1>1. /\ TypeOK /\ pc \in [Threads -> PCs] /\ read_bucket \in [Threads -> Buckets]
      /\ read \in [Buckets -> Int] /\ write \in [Buckets -> Nat]
      /\ count \in [Threads -> 0 .. NumBuckets] /\ NumBuckets \in Nat \ {0}
  BY PermutationAssumption DEF IInv, TypeOK
<1>2. \A b \in Buckets : read[b] < write[b] => read'[b] < write'[b]
  BY <1>1, PointersCross
<1>3. CASE NoMoreBlocks(t)
  <2>1. /\ pc[t] = "noMoreBlocks" /\ read' = read /\ write' = write
        /\ read_bucket' = [read_bucket EXCEPT ![t] = (@ + 1) % NumBuckets]
        /\ count' = [count EXCEPT ![t] = @ - 1]
        /\ pc' = [pc EXCEPT ![t] = IF count[t] = 1 THEN "done" ELSE "startRead"]
    BY <1>3 DEF NoMoreBlocks, Goto
  <2>2. \A u \in Threads : u # t =>
          /\ pc'[u] = pc[u] /\ count'[u] = count[u] /\ read_bucket'[u] = read_bucket[u]
    BY <1>1, <2>1
  <2>3. /\ pc'[t] = "done" => count[t] = 1
        /\ pc'[t] # "noMoreBlocks" /\ count'[t] = count[t] - 1
        /\ read_bucket'[t] = (read_bucket[t] + 1) % NumBuckets
        /\ count[t] \in 1 .. NumBuckets /\ read_bucket[t] \in 0 .. NumBuckets - 1
    BY <1>1, <2>1 DEF IInv, Hands, Buckets
  <2>4. read_bucket'[t] = IF read_bucket[t] + 1 = NumBuckets THEN 0 ELSE read_bucket[t] + 1
    <3>1. ASSUME NEW K \in Nat \ {0}, NEW i \in 0 .. K - 1
          PROVE  (i + 1) % K = IF i + 1 = K THEN 0 ELSE i + 1
      BY <3>1
    <3>. QED  BY <1>1, <2>3, <3>1
  <2>5. ASSUME NEW b \in Buckets, Distance(t, b)' >= count'[t]
        PROVE  read[b] < write[b]
    <3>1. b \in 0 .. NumBuckets - 1
      BY DEF Buckets
    <3>2. b = read_bucket[t] \/ Distance(t, b) >= count[t]
      BY <1>1, <2>3, <2>4, <2>5, <3>1 DEF Distance
    <3>. QED  BY <2>1, <3>2 DEF Exhausted
  <2>6. ASSUME NEW u \in Threads, NEW b \in Buckets, Distance(u, b)' >= count'[u]
        PROVE  read'[b] < write'[b]
    <3>1. CASE u = t
      BY <2>1, <2>5, <2>6, <3>1
    <3>2. CASE u # t
      <4>1. Distance(u, b) >= count[u]
        BY <2>2, <2>6, <3>2 DEF Distance
      <4>. QED  BY <1>2, <4>1 DEF Exhausted
    <3>. QED  BY <3>1, <3>2
  <2>7. ASSUME NEW u \in Threads
        PROVE  /\ pc'[u] = "done" => count'[u] = 0
               /\ pc'[u] = "noMoreBlocks" => read'[read_bucket'[u]] < write'[read_bucket'[u]]
    <3>1. CASE u = t
      BY <2>3, <3>1
    <3>2. CASE u # t
      BY <1>1, <1>2, <2>2, <3>2 DEF Exhausted
    <3>. QED  BY <3>1, <3>2
  <2>. QED  BY <2>6, <2>7 DEF Exhausted
<1>4. CASE ~ NoMoreBlocks(t)
  <2>1. read_bucket' = read_bucket /\ count' = count
    BY <1>4 DEF Step, StartRead, DecRead, ReadBlock, StopRead, IncWrite, IsReading, Spin,
                WriteBlock, Inspect, SwapBlocks, vars
  <2>2. \A u \in Threads, b \in Buckets : Distance(u, b)' = Distance(u, b)
    BY <2>1 DEF Distance
  <2>3. ASSUME NEW u \in Threads, pc'[u] = "done"  PROVE  pc[u] = "done"
    BY <1>1, <1>4, <2>3 DEF Step, StartRead, DecRead, ReadBlock, StopRead, IncWrite, IsReading,
                Spin, WriteBlock, Inspect, SwapBlocks, vars, Goto
  <2>4. ASSUME NEW u \in Threads, pc'[u] = "noMoreBlocks"
        PROVE  read'[read_bucket[u]] < write'[read_bucket[u]]
    <3>1. CASE pc[u] = "noMoreBlocks"
      BY <1>1, <1>2, <3>1 DEF Exhausted
    <3>2. CASE pc[u] # "noMoreBlocks"
      <4>1. u = t /\ DecRead(t)
        BY <1>1, <1>4, <2>4, <3>2 DEF Step, StartRead, ReadBlock, StopRead, IncWrite, IsReading,
                Spin, WriteBlock, Inspect, SwapBlocks, vars, Goto, DecRead
      <4>2. read[read_bucket[t]] < write[read_bucket[t]]
        BY <1>1, <2>4, <4>1 DEF DecRead, Goto
      <4>. QED  BY <1>1, <1>2, <4>1, <4>2
    <3>. QED  BY <3>1, <3>2
  <2>. QED  BY <1>2, <2>1, <2>2, <2>3, <2>4 DEF Exhausted
<1>. QED  BY <1>3, <1>4

LEMMA AlwaysExhausted == Spec => []Exhausted
<1>1. Init => Exhausted
  <2>. SUFFICES ASSUME Init  PROVE  Exhausted
    OBVIOUS
  <2>1. TypeOK /\ NumBuckets \in Nat \ {0}
    BY InitInv, PermutationAssumption DEF IInv
  <2>2. /\ pc = [t \in Threads |-> "startRead"] /\ count = [t \in Threads |-> NumBuckets]
    BY DEF Init
  <2>3. \A t \in Threads, b \in Buckets : ~(Distance(t, b) >= count[t])
    <3>1. \A t \in Threads : read_bucket[t] \in 0 .. NumBuckets - 1
      BY <2>1 DEF TypeOK, Buckets
    <3>. QED  BY <2>1, <2>2, <3>1 DEF Distance, Buckets
  <2>. QED  BY <2>2, <2>3 DEF Exhausted
<1>2. IInv /\ Exhausted /\ [Next]_vars => Exhausted'
  <2>. SUFFICES ASSUME IInv, Exhausted, [Next]_vars  PROVE  Exhausted'
    OBVIOUS
  <2>1. ASSUME NEW t \in Threads, Step(t)  PROVE  Exhausted'
    BY <2>1, StepExhausted
  <2>2. CASE UNCHANGED vars
    BY <2>2 DEF vars, Exhausted, Distance
  <2>. QED  BY <2>1, <2>2 DEF Next, Finished
<1>. QED  BY <1>1, <1>2, Invariance, PTL DEF Spec

(* When no thread holds a claim, a bucket has passed as many slots as it   *)
(* has blocks.                                                             *)
LEMMA InvPermuted == IInv /\ Exhausted => Permuted
<1>. SUFFICES ASSUME IInv, Exhausted, \A t \in Threads : pc[t] = "done", NEW b \in Buckets
              PROVE  /\ write[b] - layout.first[b] = Cardinality(BlocksOf(layout, b))
                     /\ \A s \in Area(b) \cap DOMAIN content :
                          IF s < write[b] THEN content[s] \in Blocks /\ layout.bucket[content[s]] = b
                                          ELSE content[s] = NoBlock
  BY DEF Permuted
<1>1. /\ TypeOK /\ layout \in Layouts /\ layout.max_off \in Nat
      /\ DOMAIN content = 0 .. layout.max_off - 1
      /\ \A c \in Buckets : /\ write[c] \in Nat /\ read[c] \in Int /\ layout.first[c] \in Nat
                            /\ layout.first[c + 1] \in Nat /\ layout.first[c] <= write[c]
  BY LayoutFacts DEF IInv, TypeOK, Pointers
<1>2. \A c \in Buckets : read[c] < write[c]
  <2>1. \A t \in Threads, c \in Buckets : Distance(t, c) >= count[t]
    <3>1. \A t \in Threads : count[t] = 0 /\ read_bucket[t] \in 0 .. NumBuckets - 1
      BY <1>1 DEF Exhausted, TypeOK, Buckets
    <3>. QED  BY <3>1, PermutationAssumption DEF Distance, Buckets
  <2>2. 0 \in Threads
    BY PermutationAssumption DEF Threads
  <2>. QED  BY <2>1, <2>2 DEF Exhausted
<1>3. /\ \A c \in Buckets : Writers(c) = {}
      /\ \A t \in Threads : pc[t] # "readBlock" /\ hand[t] = NoBlock
  BY DEF Writers, IInv, Hands, Carrying
<1>4. ASSUME NEW c \in Buckets, NEW s \in DOMAIN content,
             layout.first[c] <= s, s < layout.first[c + 1]
      PROVE  IF s < write[c] THEN content[s] \in Blocks /\ layout.bucket[content[s]] = c
                             ELSE content[s] = NoBlock
  <2>1. CASE s < write[c]
    <3>1. s \in layout.first[c] .. write[c] - 1
      BY <1>1, <1>4, <2>1
    <3>. QED  BY <1>3, <1>4, <2>1, <3>1 DEF IInv, Settled
  <2>2. CASE ~(s < write[c])
    <3>1. write[c] <= s /\ read[c] < s
      BY <1>1, <1>2, <1>4, <2>2
    <3>. QED  BY <1>3, <1>4, <2>2, <3>1 DEF IInv, Pointers
  <2>. QED  BY <2>1, <2>2
<1>5. \A s \in Passed(b) : \E x \in BlocksOf(layout, b) : StandsFor(b, s, x)
  BY PassedSlotHasBlock
<1>6. ASSUME NEW x \in BlocksOf(layout, b)  PROVE  \E s \in Passed(b) : StandsFor(b, s, x)
  <2>1. x \in Blocks /\ layout.bucket[x] = b /\ x # NoBlock
    BY <1>1, LayoutFacts DEF BlocksOf, Blocks
  <2>2. CASE \E s \in DOMAIN content : content[s] = x
    <3>1. PICK s \in DOMAIN content : content[s] = x
      BY <2>2
    <3>2. PICK c \in Buckets : layout.first[c] <= s /\ s < layout.first[c + 1]
      <4>1. IsLayout(layout)
        BY <1>1, PermutationAssumption
      <4>2. \A r \in 0 .. layout.max_off - 1 :
              \E c \in Buckets : layout.first[c] <= r /\ r < layout.first[c + 1]
        BY <4>1, Zenon DEF IsLayout
      <4>. QED  BY <1>1, <3>1, <4>2
    <3>3. c = b /\ s < write[b]
      BY <1>4, <2>1, <3>1, <3>2
    <3>4. s \in Passed(b)
      BY <1>1, <3>1, <3>2, <3>3 DEF Passed
    <3>. QED  BY <1>3, <3>1, <3>4 DEF StandsFor
  <2>3. CASE \E t \in Threads : overflow[t] = x
    <3>1. PICK t \in Threads : overflow[t] = x
      BY <2>3
    <3>2. layout.first[b] <= layout.max_off /\ write[b] = layout.max_off + 1
      BY <2>1, <3>1 DEF IInv, OverflowClaim
    <3>3. layout.max_off \in Passed(b)
      BY <1>1, <3>2 DEF Passed
    <3>. QED  BY <3>1, <3>3 DEF StandsFor
  <2>. QED  BY <1>3, <2>1, <2>2, <2>3 DEF IInv, Somewhere
<1>7. ASSUME NEW s \in Passed(b), NEW x \in BlocksOf(layout, b), NEW y \in BlocksOf(layout, b),
             StandsFor(b, s, x), StandsFor(b, s, y)
      PROVE  x = y
  <2>1. x # NoBlock /\ y # NoBlock
    BY <1>1, LayoutFacts DEF BlocksOf, Blocks
  <2>2. CASE s \in DOMAIN content
    <3>1. s # layout.max_off
      BY <1>1, <2>2
    <3>. QED  BY <1>3, <1>7, <3>1 DEF StandsFor
  <2>3. CASE s \notin DOMAIN content
    BY <1>3, <1>7, <2>1, <2>3 DEF StandsFor, IInv, OverflowClaim
  <2>. QED  BY <2>2, <2>3
<1>8. IsFiniteSet(BlocksOf(layout, b)) /\ IsFiniteSet(Passed(b))
  <2>1. BlocksOf(layout, b) \subseteq Blocks /\ IsFiniteSet(Blocks)
    BY <1>1, LayoutFacts DEF BlocksOf, Blocks
  <2>2. layout.first[b] \in Int /\ write[b] - 1 \in Int
    BY <1>1
  <2>. QED  BY <2>1, <2>2, FS_Subset, FS_Interval DEF Passed
<1>9. Cardinality(Passed(b)) <= Cardinality(BlocksOf(layout, b))
  <2>. DEFINE f == [s \in Passed(b) |-> CHOOSE x \in BlocksOf(layout, b) : StandsFor(b, s, x)]
  <2>1. \A s \in Passed(b) : f[s] \in BlocksOf(layout, b) /\ StandsFor(b, s, f[s])
    BY <1>5
  <2>2. f \in [Passed(b) -> BlocksOf(layout, b)]
    BY <2>1
  <2>. HIDE DEF f
  <2>3. \A r, s \in Passed(b) : f[r] = f[s] => r = s
    BY <2>1, OneSlotPerBlock
  <2>4. f \in Injection(Passed(b), BlocksOf(layout, b))
    BY <2>2, <2>3 DEF Injection, IsInjective
  <2>. QED  BY <1>8, <2>4, FS_Injection
<1>10. Cardinality(BlocksOf(layout, b)) <= Cardinality(Passed(b))
  <2>. DEFINE g == [x \in BlocksOf(layout, b) |-> CHOOSE s \in Passed(b) : StandsFor(b, s, x)]
  <2>1. \A x \in BlocksOf(layout, b) : g[x] \in Passed(b) /\ StandsFor(b, g[x], x)
    BY <1>6
  <2>2. g \in [BlocksOf(layout, b) -> Passed(b)]
    BY <2>1
  <2>. HIDE DEF g
  <2>3. \A x, y \in BlocksOf(layout, b) : g[x] = g[y] => x = y
    BY <1>7, <2>1
  <2>4. g \in Injection(BlocksOf(layout, b), Passed(b))
    BY <2>2, <2>3 DEF Injection, IsInjective
  <2>. QED  BY <1>8, <2>4, FS_Injection
<1>11. Cardinality(Passed(b)) = write[b] - layout.first[b]
  <2>1. write[b] - 1 \in Int /\ layout.first[b] \in Int
    BY <1>1
  <2>2. Cardinality(Passed(b)) = IF layout.first[b] > write[b] - 1
                                 THEN 0 ELSE (write[b] - 1) - layout.first[b] + 1
    BY <2>1, FS_Interval, Zenon DEF Passed
  <2>. QED  BY <1>1, <2>2
<1>12. write[b] - layout.first[b] = Cardinality(BlocksOf(layout, b))
  BY <1>8, <1>9, <1>10, <1>11, FS_CardinalityType
<1>13. \A s \in Area(b) \cap DOMAIN content : layout.first[b] <= s /\ s < layout.first[b + 1]
  BY <1>1 DEF Area
<1>. QED  BY <1>4, <1>12, <1>13

(* Permuted: when all threads have left permuteBlocks, the blocks of each  *)
(* bucket are at the front of its area, and the pointers say how many.     *)
THEOREM BlocksPermuted == Spec => []Permuted
  BY Invariance, AlwaysExhausted, InvPermuted, PTL

===============================================================================
