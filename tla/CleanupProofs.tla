---------------------------- MODULE CleanupProofs ----------------------------
(***************************************************************************)
(* The cleanup phase, for every number of threads and buckets, every block *)
(* size and every outcome of classification and permutation.  The blocks   *)
(* of a bucket end at most at the first block boundary behind the bucket;  *)
(* where they end behind it, the whole last block belongs to the bucket.   *)
(* So what reaches into a next bucket is as much as has room in front of   *)
(* the bucket's own blocks, once its buffers are empty.                    *)
(*                                                                         *)
(* Every thread writes places of its own buckets only (Shape).  Buckets    *)
(* that are not written yet have their blocks where the permutation left   *)
(* them, or what reaches over in a swap buffer (Contents), unless two      *)
(* threads have saved the same margin.                                     *)
(***************************************************************************)
EXTENDS Cleanup, SequenceTheorems, WellFoundedInduction, TLAPS

(* A place of an element or of nothing.                                    *)
Values == {<< i, k >> : i \in Nat, k \in Nat} \cup {Junk}

Unwritten(t) == next[t] .. LastBucket(t) - 1
Written(t)   == FirstBucket(t) .. next[t] - 1

(* How many of a bucket's elements are in its blocks, and in buffers.      *)
InBlocks(i) == step.blocks[i] * BlockSize
InBuffers(i) == step.left[step.threads][i]

SavedEnd(t) == Align(step.bucket_start[LastBucket(t)])

TypeOK ==
  /\ step \in Steps
  /\ arr \in [0 .. step.n - 1 -> Values]
  /\ swap \in [Threads -> Seq(Values)]
  /\ saved \in [Threads -> Int] /\ pc \in [Threads -> {"save", "write"}]
  /\ next \in [Threads -> Nat]
  /\ touched \in [Threads -> SUBSET Int]
  /\ DOMAIN buffers = Threads /\ \A t \in Threads : DOMAIN buffers[t] = DOMAIN step.blocks

Progress ==
  /\ \A t \in Threads : FirstBucket(t) <= next[t] /\ next[t] <= LastBucket(t)
  /\ (\E u \in Threads : pc[u] = "save") => \A t \in Threads : next[t] = FirstBucket(t)
  /\ \A t \in Threads : saved[t] = IF pc[t] = "write" THEN SavedMargin(LastBucket(t)) ELSE -1

(* What waits to be written.                                               *)
Waiting ==
  /\ overflow # << >> => Over # {}
  /\ \A t \in Threads : \A i \in Unwritten(t) \cap Over :
       overflow = Numbers(i, InBlocks(i) - BlockSize, BlockSize)
  /\ \A t \in Threads : saved[t] \in Unwritten(t) => Len(swap[t]) = SavedEnd(t) - Bend(saved[t])
  /\ \A t, u \in Threads : \A i \in Unwritten(t) :
       buffers[u][i] = Numbers(i, InBlocks(i) + step.left[u][i], step.left[u + 1][i] - step.left[u][i])
  /\ \A t, u \in Threads : \A i \in Written(t) : buffers[u][i] = << >>

OwnPlaces ==
  \A t \in Threads :
    touched[t] \subseteq step.bucket_start[FirstBucket(t)] .. step.bucket_start[LastBucket(t)] - 1

Shape == TypeOK /\ Progress /\ Waiting /\ OwnPlaces

(* No two threads find the same margin to save.                            *)
SavedOnce ==
  \A t, u \in Threads :
    t # u /\ SavedMargin(LastBucket(t)) = SavedMargin(LastBucket(u)) => SavedMargin(LastBucket(t)) = -1

Contents ==
  \A t \in Threads :
    /\ \A i \in Unwritten(t) : \A p \in Align(Bstart(i)) .. Bwrite(i) - 1 :
         p < MaxOff /\ (p < Bend(i) \/ saved[t] # i) => arr[p] = << i, p - Align(Bstart(i)) + 1 >>
    /\ saved[t] \in Unwritten(t) =>
         \A k \in 1 .. Len(swap[t]) :
           swap[t][k] = << saved[t], Bend(saved[t]) - Align(Bstart(saved[t])) + k >>
    /\ \A i \in Written(t) : {arr[p] : p \in Segment(i)} = Elements(i)

IInv == Shape /\ (Trivial \/ SavedOnce => Contents)

-----------------------------------------------------------------------------
(* Multiples of the block size.                                            *)
Multiples == {q * BlockSize : q \in Int}

LEMMA MultipleFacts ==
  /\ BlockSize \in Nat \ {0} /\ BlockSize \in Multiples /\ 0 \in Multiples
  /\ \A x, y \in Multiples : x \in Int /\ x + y \in Multiples /\ x - y \in Multiples
  /\ \A x, y \in Multiples : x < y => x + BlockSize <= y
<1>1. BlockSize \in Nat \ {0}
  BY CleanupAssumption
<1>2. \A x : x \in Multiples <=> \E q \in Int : x = q * BlockSize
  BY DEF Multiples
<1> DEFINE B == BlockSize
<1> HIDE DEF B
<1>3. B \in Nat \ {0} /\ \A x : x \in Multiples <=> \E q \in Int : x = q * B
  BY <1>1, <1>2 DEF B
<1>4. B = 1 * B /\ 0 = 0 * B
  BY <1>3
<1>5. ASSUME NEW x \in Multiples, NEW y \in Multiples
      PROVE  x \in Int /\ x + y \in Multiples /\ x - y \in Multiples
  <2>1. PICK q \in Int : x = q * B
    BY <1>3
  <2>2. PICK r \in Int : y = r * B
    BY <1>3
  <2>3. q + r \in Int /\ q - r \in Int /\ x + y = (q + r) * B /\ x - y = (q - r) * B /\ x \in Int
    BY <1>3, <2>1, <2>2, SMT
  <2> QED
    BY <1>3, <2>3
<1>6. ASSUME NEW x \in Multiples, NEW y \in Multiples, x < y
      PROVE  x + B <= y
  <2>1. PICK q \in Int : x = q * B
    BY <1>3
  <2>2. PICK r \in Int : y = r * B
    BY <1>3
  <2>3. q < r
    <3> SUFFICES ASSUME r <= q PROVE FALSE
      OBVIOUS
    <3>1. r * B <= q * B
      BY <1>3, SMT
    <3> QED
      BY <1>3, <1>6, <2>1, <2>2, <3>1, SMT
  <2>4. (q + 1) * B <= r * B /\ (q + 1) * B = q * B + B
    BY <1>3, <2>3, SMT
  <2> QED
    BY <1>3, <2>1, <2>2, <2>4, SMT
<1>7. BlockSize \in Multiples /\ 0 \in Multiples
  <2>1. \E q \in Int : B = q * B
    BY <1>4
  <2>2. \E q \in Int : 0 = q * B
    BY <1>4
  <2>3. B \in Multiples /\ 0 \in Multiples
    BY <1>3, <2>1, <2>2, Zenon
  <2> QED
    BY <2>3 DEF B
<1>8. \A x, y \in Multiples : x < y => x + BlockSize <= y
  BY <1>6 DEF B
<1> QED
  BY <1>1, <1>5, <1>7, <1>8

LEMMA Quotients ==
  ASSUME NEW a \in Nat
  PROVE  /\ (a \div BlockSize) * BlockSize \in Multiples \cap Nat
         /\ (a \div BlockSize) * BlockSize <= a /\ a < (a \div BlockSize) * BlockSize + BlockSize
<1> DEFINE B == BlockSize
<1>1. B \in Nat \ {0}
  BY MultipleFacts
<1> HIDE DEF B
<1>2. a = B * (a \div B) + (a % B) /\ a % B \in 0 .. B - 1 /\ a \div B \in Nat
  BY <1>1, SMT
<1>3. B * (a \div B) = (a \div B) * B /\ (a \div B) * B \in Nat
  BY <1>1, <1>2, SMT
<1>4. (a \div B) * B \in Multiples
  BY <1>2 DEF Multiples, B
<1> QED
  BY <1>1, <1>2, <1>3, <1>4 DEF B

LEMMA AlignFacts ==
  ASSUME NEW x \in Nat
  PROVE  Align(x) \in Multiples \cap Nat /\ x <= Align(x) /\ Align(x) < x + BlockSize
<1> DEFINE a == x + BlockSize - 1
<1>1. BlockSize \in Nat \ {0} /\ a \in Nat
  BY MultipleFacts
<1>2. Align(x) = (a \div BlockSize) * BlockSize
  BY DEF Align
<1> HIDE DEF a
<1>3. Align(x) \in Multiples \cap Nat /\ Align(x) <= a /\ a < Align(x) + BlockSize
  BY <1>1, <1>2, Quotients
<1> QED
  BY <1>1, <1>3 DEF a

LEMMA AlignMonotone ==
  ASSUME NEW x \in Nat, NEW y \in Nat, x <= y
  PROVE  Align(x) <= Align(y)
<1>1. Align(x) \in Multiples \cap Nat /\ Align(x) < x + BlockSize
  BY AlignFacts
<1>2. Align(y) \in Multiples \cap Nat /\ y <= Align(y)
  BY AlignFacts
<1>3. Align(y) < Align(x) => Align(y) + BlockSize <= Align(x)
  BY <1>1, <1>2, MultipleFacts
<1> QED
  BY <1>1, <1>2, <1>3, MultipleFacts

-----------------------------------------------------------------------------
(* What the step says of threads and buckets.                              *)
LEMMA StepFacts ==
  ASSUME step \in Steps
  PROVE  /\ step.threads \in Nat \ {0} /\ step.n \in Nat
         /\ NumBuckets \in Nat \ {0} /\ DOMAIN step.blocks = 0 .. NumBuckets - 1
         /\ \A j \in 0 .. NumBuckets : step.bucket_start[j] \in Nat
         /\ step.bucket_start[0] = 0 /\ step.bucket_start[NumBuckets] = step.n
         /\ \A i \in 0 .. NumBuckets - 1 :
              /\ step.blocks[i] \in Nat
              /\ \A t \in 0 .. step.threads : step.left[t][i] \in Nat
              /\ step.left[0][i] = 0
              /\ \A t \in Threads : step.left[t + 1][i] - step.left[t][i] \in Nat
              /\ step.blocks[i] > 0 => InBuffers(i) > 0
              /\ Bend(i) - Bstart(i) = InBlocks(i) + InBuffers(i)
<1> DEFINE s == step
           k == Cardinality(DOMAIN s.blocks)
<1>1. /\ s.threads \in Nat \ {0} /\ s.n \in Nat /\ k \in Nat \ {0}
      /\ s.bucket_start \in [0 .. k -> Nat] /\ s.blocks \in [0 .. k - 1 -> Nat]
      /\ s.left \in [0 .. s.threads -> [0 .. k - 1 -> Nat]]
      /\ s.bucket_start[0] = 0 /\ s.bucket_start[k] = s.n
      /\ \A b \in 0 .. k - 1 :
           /\ s.left[0][b] = 0
           /\ \A t \in 0 .. s.threads - 1 : s.left[t + 1][b] - s.left[t][b] \in 0 .. BlockSize
           /\ s.blocks[b] > 0 => s.left[s.threads][b] > 0
           /\ s.bucket_start[b + 1] - s.bucket_start[b] = s.blocks[b] * BlockSize + s.left[s.threads][b]
  BY CleanupAssumption, Zenon
<1>2. k = NumBuckets
  BY DEF NumBuckets
<1>3. BlockSize \in Nat \ {0}
  BY MultipleFacts
<1>4. \A t \in 0 .. s.threads - 1 : t \in 0 .. s.threads /\ t + 1 \in 0 .. s.threads
  BY <1>1
<1>5. DOMAIN s.blocks = 0 .. k - 1
  BY <1>1
<1> HIDE DEF k
<1>6. ASSUME NEW i \in 0 .. NumBuckets - 1
      PROVE  /\ s.blocks[i] \in Nat /\ \A t \in 0 .. s.threads : s.left[t][i] \in Nat
             /\ s.left[0][i] = 0
             /\ \A t \in Threads : s.left[t + 1][i] - s.left[t][i] \in Nat
             /\ s.blocks[i] > 0 => InBuffers(i) > 0
             /\ Bend(i) - Bstart(i) = InBlocks(i) + InBuffers(i)
  <2>1. i \in 0 .. k - 1
    BY <1>2
  <2>2. s.blocks[i] \in Nat
    BY <1>1, <2>1
  <2>3. ASSUME NEW t \in 0 .. s.threads PROVE s.left[t][i] \in Nat
    <3>1. s.left[t] \in [0 .. k - 1 -> Nat]
      BY <1>1
    <3> QED
      BY <2>1, <3>1
  <2>4. \A t \in Threads : s.left[t + 1][i] - s.left[t][i] \in Nat
    <3>1. \A t \in 0 .. s.threads - 1 : s.left[t + 1][i] - s.left[t][i] \in 0 .. BlockSize
      BY <1>1, <2>1
    <3> QED
      BY <1>3, <3>1 DEF Threads
  <2>5. s.left[0][i] = 0 /\ (s.blocks[i] > 0 => s.left[s.threads][i] > 0)
        /\ s.bucket_start[i + 1] - s.bucket_start[i] = s.blocks[i] * BlockSize + s.left[s.threads][i]
    BY <1>1, <2>1
  <2> QED
    BY <2>2, <2>3, <2>4, <2>5 DEF InBuffers, InBlocks, Bend, Bstart
<1>7. \A j \in 0 .. NumBuckets : s.bucket_start[j] \in Nat
  BY <1>1, <1>2
<1> QED
  BY <1>1, <1>2, <1>5, <1>6, <1>7

LEMMA BucketFacts ==
  ASSUME step \in Steps, NEW i \in 0 .. NumBuckets - 1
  PROVE  /\ Bstart(i) \in Nat /\ Bend(i) \in Nat /\ Bsize(i) = Bend(i) - Bstart(i)
         /\ InBlocks(i) \in Multiples /\ InBlocks(i) \in Nat /\ InBuffers(i) \in Nat
         /\ Bend(i) = Bstart(i) + InBlocks(i) + InBuffers(i)
         /\ step.blocks[i] > 0 <=> InBlocks(i) > 0
         /\ InBlocks(i) > 0 => InBlocks(i) >= BlockSize /\ InBuffers(i) > 0
         /\ Align(Bstart(i)) \in Multiples /\ Align(Bstart(i)) \in Nat
         /\ Align(Bend(i)) \in Multiples /\ Align(Bend(i)) \in Nat
         /\ Bwrite(i) \in Multiples /\ Bwrite(i) \in Nat
         /\ Bwrite(i) = Align(Bstart(i)) + InBlocks(i)
         /\ Room(i) = Align(Bstart(i)) - Bstart(i) /\ Room(i) \in Nat /\ Room(i) < BlockSize
<1>1. /\ step.blocks[i] \in Nat /\ InBuffers(i) \in Nat
      /\ step.blocks[i] > 0 => InBuffers(i) > 0
      /\ Bend(i) - Bstart(i) = InBlocks(i) + InBuffers(i)
  <2>1. step.threads \in 0 .. step.threads
    BY StepFacts
  <2> QED
    BY <2>1, StepFacts DEF InBuffers
<1>2. Bstart(i) \in Nat /\ Bend(i) \in Nat
  <2>1. i \in 0 .. NumBuckets /\ i + 1 \in 0 .. NumBuckets
    BY StepFacts
  <2> QED
    BY <2>1, StepFacts DEF Bstart, Bend
<1>3. InBlocks(i) \in Multiples
  BY <1>1 DEF InBlocks, Multiples
<1>4. InBlocks(i) \in Nat /\ (step.blocks[i] > 0 <=> InBlocks(i) > 0)
  <2> DEFINE b == step.blocks[i]
             B == BlockSize
  <2>1. b \in Nat /\ B \in Nat \ {0} /\ InBlocks(i) = b * B
    BY <1>1, MultipleFacts DEF InBlocks
  <2> HIDE DEF b, B
  <2>2. b * B \in Nat /\ (b > 0 <=> b * B > 0)
    BY <2>1, SMT
  <2> QED
    BY <2>1, <2>2 DEF b
<1>5. InBlocks(i) > 0 => InBlocks(i) >= BlockSize
  BY <1>3, <1>4, MultipleFacts
<1>6. /\ Align(Bstart(i)) \in Multiples \cap Nat /\ Align(Bend(i)) \in Multiples \cap Nat
      /\ Bstart(i) <= Align(Bstart(i)) /\ Align(Bstart(i)) < Bstart(i) + BlockSize
  BY <1>2, AlignFacts
<1>7. Bwrite(i) = Align(Bstart(i)) + InBlocks(i)
  BY DEF Bwrite, InBlocks
<1>8. Bwrite(i) \in Multiples /\ Bwrite(i) \in Nat
  <2>1. Align(Bstart(i)) \in Multiples /\ Align(Bstart(i)) \in Nat
    BY <1>6
  <2>2. Align(Bstart(i)) + InBlocks(i) \in Multiples
    BY <1>3, <2>1, MultipleFacts, Zenon
  <2> QED
    BY <1>4, <1>7, <2>1, <2>2
<1>9. Bend(i) = Bstart(i) + InBlocks(i) + InBuffers(i)
  BY <1>1, <1>2, <1>4
<1>10. Room(i) = Align(Bstart(i)) - Bstart(i) /\ Room(i) \in Nat /\ Room(i) < BlockSize
  <2> DEFINE a == Align(Bstart(i))
  <2>1. a \in Nat /\ Bstart(i) <= a /\ a < Bstart(i) + BlockSize
    BY <1>6
  <2>2. Room(i) = a - Bstart(i)
    BY DEF Room
  <2> HIDE DEF a
  <2>3. Room(i) \in Nat /\ Room(i) < BlockSize
    BY <1>2, <2>1, <2>2, MultipleFacts
  <2> QED
    BY <2>2, <2>3 DEF a
<1>11. Bsize(i) = Bend(i) - Bstart(i)
  BY DEF Bsize
<1>12. Align(Bstart(i)) \in Multiples /\ Align(Bstart(i)) \in Nat /\ Align(Bend(i)) \in Multiples /\ Align(Bend(i)) \in Nat
  BY <1>6
<1> QED
  BY <1>1, <1>2, <1>3, <1>4, <1>5, <1>7, <1>8, <1>9, <1>10, <1>11, <1>12

(* The blocks of a bucket end at most at the boundary behind the bucket.   *)
LEMMA BlocksEnd ==
  ASSUME step \in Steps, NEW i \in 0 .. NumBuckets - 1
  PROVE  /\ Align(Bstart(i)) <= Bwrite(i) /\ Bwrite(i) <= Align(Bend(i))
         /\ Align(Bend(i)) < Bend(i) + BlockSize /\ Bend(i) <= Align(Bend(i))
         /\ Bwrite(i) - Bend(i) = Room(i) - InBuffers(i)
         /\ Bwrite(i) > Bend(i) => Bwrite(i) = Align(Bend(i))
         /\ InBlocks(i) > 0 => /\ Align(Bstart(i)) < Bend(i) /\ Bsize(i) > BlockSize
                               /\ Bstart(i) <= Bwrite(i) - BlockSize
                               /\ Bwrite(i) - BlockSize < Bend(i)
         /\ InBlocks(i) = 0 => Bwrite(i) = Align(Bstart(i))
<1> DEFINE s == Bstart(i)
           e == Bend(i)
           a == Align(Bstart(i))
           z == Align(Bend(i))
           w == Bwrite(i)
           d == InBlocks(i)
           l == InBuffers(i)
           r == Room(i)
           B == BlockSize
<1>1. /\ s \in Nat /\ e \in Nat /\ Bsize(i) = e - s /\ d \in Multiples /\ d \in Nat /\ l \in Nat
      /\ e = s + d + l /\ (d > 0 => d >= B /\ l > 0)
      /\ a \in Multiples /\ a \in Nat /\ z \in Multiples /\ z \in Nat
      /\ w \in Multiples /\ w \in Nat /\ w = a + d /\ r = a - s /\ r \in Nat /\ r < B
  BY BucketFacts
<1>2. e <= z /\ z < e + B /\ B \in Nat \ {0}
  BY <1>1, AlignFacts, MultipleFacts
<1>3. z < w => z + B <= w
  BY <1>1, MultipleFacts
<1>4. w < z => w + B <= z
  BY <1>1, MultipleFacts
<1> HIDE DEF s, e, a, z, w, d, l, r, B
<1>5. /\ a <= w /\ w <= z /\ z < e + B /\ e <= z /\ w - e = r - l
      /\ (w > e => w = z) /\ (d > 0 => a < e /\ e - s > B /\ s <= w - B /\ w - B < e) /\ (d = 0 => w = a)
  BY <1>1, <1>2, <1>3, <1>4
<1> QED
  BY <1>1, <1>5 DEF s, e, a, z, w, d, l, r, B

LEMMA Least ==
  ASSUME NEW T, T \subseteq Nat, T # {}
  PROVE  \E x \in T : \A y \in T : x <= y
<1> DEFINE R == OpToRel(<, Nat)
<1>1. IsWellFoundedOn(R, Nat)
  BY NatLessThanWellFounded
<1>2. \A x, y \in Nat : y < x => << y, x >> \in R
  BY DEF OpToRel
<1> HIDE DEF R
<1>3. PICK x \in T : \A y \in T : ~(<< y, x >> \in R)
  BY <1>1, WFMin
<1>4. \A y \in T : ~(y < x)
  BY <1>2, <1>3
<1>5. \A y \in T : x <= y
  BY <1>4
<1> QED
  BY <1>5

LEMMA StartsAscend ==
  ASSUME step \in Steps, NEW i \in 0 .. NumBuckets, NEW j \in 0 .. NumBuckets, i <= j
  PROVE  /\ step.bucket_start[i] \in Nat /\ step.bucket_start[j] \in Nat
         /\ step.bucket_start[i] <= step.bucket_start[j] /\ step.bucket_start[j] <= step.n
<1>1. NumBuckets \in Nat \ {0} /\ \A x \in 0 .. NumBuckets : step.bucket_start[x] \in Nat
  BY StepFacts
<1>2. ASSUME NEW x \in 0 .. NumBuckets, NEW y \in 0 .. NumBuckets, x <= y
      PROVE  step.bucket_start[x] <= step.bucket_start[y]
  <2> DEFINE Wrong == {z \in x .. NumBuckets : step.bucket_start[z] < step.bucket_start[x]}
  <2> SUFFICES ASSUME Wrong # {} PROVE FALSE
    BY <1>1, <1>2
  <2>1. Wrong \subseteq Nat
    BY <1>1
  <2> HIDE DEF Wrong
  <2>2. PICK z \in Wrong : \A u \in Wrong : z <= u
    BY <2>1, Least
  <2>3. z \in x .. NumBuckets /\ step.bucket_start[z] < step.bucket_start[x]
    BY <2>2 DEF Wrong
  <2>4. z # x /\ z - 1 \in x .. NumBuckets /\ z - 1 \in 0 .. NumBuckets - 1 /\ (z - 1) + 1 = z
    BY <1>1, <2>3
  <2>5. step.bucket_start[x] <= step.bucket_start[z - 1]
    <3>1. z - 1 \notin Wrong
      BY <2>2, <2>4
    <3> QED
      BY <1>1, <2>4, <3>1 DEF Wrong
  <2>6. /\ Bstart(z - 1) \in Nat /\ InBlocks(z - 1) \in Nat /\ InBuffers(z - 1) \in Nat
        /\ Bend(z - 1) = Bstart(z - 1) + InBlocks(z - 1) + InBuffers(z - 1)
    BY <2>4, BucketFacts
  <2>7. Bend(z - 1) = step.bucket_start[z] /\ Bstart(z - 1) = step.bucket_start[z - 1]
    BY <2>4 DEF Bend, Bstart
  <2> QED
    BY <1>1, <2>3, <2>4, <2>5, <2>6, <2>7
<1>3. step.bucket_start[NumBuckets] = step.n /\ j <= NumBuckets /\ NumBuckets \in 0 .. NumBuckets
  BY <1>1, StepFacts
<1> QED
  BY <1>1, <1>2, <1>3

(* A bucket lies in front of the next ones, and within the input.          *)
LEMMA BucketsAscend ==
  ASSUME step \in Steps, NEW i \in 0 .. NumBuckets - 1
  PROVE  /\ \A j \in 0 .. NumBuckets : i < j => Bend(i) <= step.bucket_start[j]
         /\ \A j \in 0 .. NumBuckets - 1 : i < j => Bend(i) <= Bstart(j) /\ Align(Bend(i)) <= Align(Bstart(j))
         /\ Bend(i) <= step.n /\ Bstart(i) <= Bend(i)
         /\ \A j \in 0 .. NumBuckets : j <= i => step.bucket_start[j] <= Bstart(i)
<1>1. NumBuckets \in Nat \ {0} /\ i \in 0 .. NumBuckets /\ i + 1 \in 0 .. NumBuckets /\ i <= i + 1
  BY StepFacts
<1>2. ASSUME NEW j \in 0 .. NumBuckets, i < j
      PROVE  Bend(i) <= step.bucket_start[j] /\ Bend(i) \in Nat /\ step.bucket_start[j] \in Nat
  <2>1. i + 1 <= j
    BY <1>1, <1>2
  <2> QED
    BY <1>1, <2>1, StartsAscend DEF Bend
<1>3. ASSUME NEW j \in 0 .. NumBuckets - 1, i < j
      PROVE  Bend(i) <= Bstart(j) /\ Align(Bend(i)) <= Align(Bstart(j))
  <2>1. j \in 0 .. NumBuckets
    BY <1>1
  <2>2. Bend(i) <= Bstart(j) /\ Bend(i) \in Nat /\ Bstart(j) \in Nat
    BY <1>2, <1>3, <2>1 DEF Bstart
  <2> QED
    BY <2>2, AlignMonotone
<1>4. Bend(i) <= step.n /\ Bstart(i) <= Bend(i)
  BY <1>1, StartsAscend DEF Bend, Bstart
<1>5. ASSUME NEW j \in 0 .. NumBuckets, j <= i PROVE step.bucket_start[j] <= Bstart(i)
  BY <1>1, <1>5, StartsAscend DEF Bstart
<1> QED
  BY <1>2, <1>3, <1>4, <1>5

-----------------------------------------------------------------------------
(* Where blocks end: in an overflow buffer, or behind a thread's buckets.  *)
LEMMA MaxOffFacts ==
  ASSUME step \in Steps
  PROVE  MaxOff \in Multiples /\ MaxOff \in Nat /\ MaxOff <= step.n /\ step.n < MaxOff + BlockSize
<1>1. step.n \in Nat
  BY StepFacts
<1> QED
  BY <1>1, Quotients DEF MaxOff

(* The blocks of two buckets do not meet.                                  *)
LEMMA AreasApart ==
  ASSUME step \in Steps, NEW i \in 0 .. NumBuckets - 1, NEW j \in 0 .. NumBuckets - 1, i < j
  PROVE  Bwrite(i) <= Align(Bstart(j))
<1>1. Bwrite(i) <= Align(Bend(i)) /\ Align(Bend(i)) <= Align(Bstart(j))
  BY BlocksEnd, BucketsAscend
<1>2. Bwrite(i) \in Nat /\ Align(Bend(i)) \in Nat /\ Align(Bstart(j)) \in Nat
  BY BucketFacts
<1> QED
  BY <1>1, <1>2

LEMMA OverBlock ==
  ASSUME step \in Steps, NEW i \in Over
  PROVE  /\ i \in 0 .. NumBuckets - 1 /\ InBlocks(i) >= BlockSize
         /\ Bwrite(i) = MaxOff + BlockSize /\ Bwrite(i) = Align(Bend(i)) /\ MaxOff < Bend(i)
<1>1. i \in 0 .. NumBuckets - 1 /\ InBlocks(i) > 0 /\ InBlocks(i) >= BlockSize /\ Bwrite(i) > MaxOff
  BY StepFacts, BucketFacts DEF Over
<1> DEFINE e == Bend(i)
           z == Align(Bend(i))
           w == Bwrite(i)
           m == MaxOff
           B == BlockSize
<1>2. /\ e \in Nat /\ z \in Nat /\ w \in Nat /\ z \in Multiples /\ w \in Multiples
      /\ w <= z /\ z < e + B /\ e <= step.n
  BY <1>1, BucketFacts, BlocksEnd, BucketsAscend
<1>3. m \in Multiples /\ m \in Nat /\ m <= step.n /\ step.n < m + B /\ B \in Nat \ {0} /\ step.n \in Nat
  BY MaxOffFacts, MultipleFacts, StepFacts
<1>4. m + B <= w
  BY <1>1, <1>2, <1>3, MultipleFacts
<1>5. m + B \in Multiples
  BY <1>3, MultipleFacts
<1>6. m + B < z => (m + B) + B <= z
  BY <1>2, <1>5, MultipleFacts
<1> HIDE DEF e, z, w, m, B
<1>7. w = m + B /\ w = z /\ m < e
  BY <1>2, <1>3, <1>4, <1>6
<1> QED
  BY <1>1, <1>7 DEF e, z, w, m, B

(* It is the bucket that computeOverflowBucket names.                      *)
LEMMA OverFacts ==
  ASSUME step \in Steps, NEW i \in Over
  PROVE  OverflowBucket = i /\ \A j \in Over : j = i
<1>1. \A j \in Over : j \in 0 .. NumBuckets - 1 /\ InBlocks(j) >= BlockSize
                      /\ Bwrite(j) = MaxOff + BlockSize /\ MaxOff < Bend(j)
  BY OverBlock
<1>2. BlockSize \in Nat \ {0} /\ MaxOff \in Nat /\ NumBuckets \in Nat \ {0} /\ step.n \in Nat
      /\ step.n < MaxOff + BlockSize
  BY MultipleFacts, MaxOffFacts, StepFacts
<1>3. ASSUME NEW j \in Over, NEW k \in Over, j < k PROVE FALSE
  <2>1. j \in 0 .. NumBuckets - 1 /\ k \in 0 .. NumBuckets - 1
    BY <1>1
  <2>2. Bwrite(j) <= Align(Bstart(k))
    BY <1>3, <2>1, AreasApart
  <2>3. Bwrite(k) = Align(Bstart(k)) + InBlocks(k) /\ Align(Bstart(k)) \in Nat /\ InBlocks(k) \in Nat
    BY <2>1, BucketFacts
  <2>4. Bwrite(j) = MaxOff + BlockSize /\ Bwrite(k) = MaxOff + BlockSize /\ InBlocks(k) >= BlockSize
    BY <1>1
  <2> QED
    BY <1>2, <2>2, <2>3, <2>4
<1>4. \A j \in Over : j = i
  BY <1>1, <1>2, <1>3
<1> DEFINE large == {b \in DOMAIN step.blocks : Bsize(b) > BlockSize}
<1>5. i \in large
  <2>1. i \in DOMAIN step.blocks /\ i \in 0 .. NumBuckets - 1 /\ InBlocks(i) > 0
    <3>1. i \in DOMAIN step.blocks
      BY DEF Over
    <3>2. i \in 0 .. NumBuckets - 1 /\ InBlocks(i) >= BlockSize
      BY <1>1
    <3>3. InBlocks(i) \in Nat
      BY <3>2, BucketFacts
    <3> QED
      BY <1>2, <3>1, <3>2, <3>3
  <2> QED
    BY <2>1, BlocksEnd
<1>6. ASSUME NEW c \in large, i < c PROVE FALSE
  <2>1. c \in 0 .. NumBuckets - 1 /\ Bsize(c) > BlockSize
    BY StepFacts
  <2>2. /\ Bend(i) <= Bstart(c) /\ Bend(c) <= step.n /\ Bsize(c) = Bend(c) - Bstart(c)
        /\ Bend(i) \in Nat /\ Bstart(c) \in Nat /\ Bend(c) \in Nat
    BY <1>1, <1>6, <2>1, BucketsAscend, BucketFacts
  <2>3. MaxOff < Bend(i)
    BY <1>1
  <2> QED
    BY <1>2, <2>1, <2>2, <2>3
<1>7. \A b \in large : b \in Int
  <2>1. \A b \in DOMAIN step.blocks : b \in Int
    BY <1>2, StepFacts
  <2> QED
    BY <2>1
<1>8. i \in large /\ (\A c \in large : c <= i)
  BY <1>5, <1>6, <1>7
<1> HIDE DEF large
<1>9. \A b \in large : (\A c \in large : c <= b) => b = i
  BY <1>7, <1>8
<1>10. (CHOOSE b \in large : \A c \in large : c <= b) = i
  BY <1>8, <1>9
<1>11. OverflowBucket = i
  BY <1>8, <1>10 DEF OverflowBucket, large
<1> QED
  BY <1>4, <1>11

LEMMA LastBlockFound ==
  ASSUME step \in Steps, NEW last \in 1 .. NumBuckets, NEW end \in Nat, end >= BlockSize
  PROVE  LET b == LastBlockBucket(last, end)
         IN /\ b \in 0 .. last - 1 /\ Bstart(b) <= end - BlockSize
            /\ \A c \in b + 1 .. last - 1 : Bstart(c) > end - BlockSize
<1> DEFINE Low(b) == Bstart(b) <= end - BlockSize
           From == {b \in 0 .. last - 1 : \A c \in b + 1 .. last - 1 : ~Low(c)}
<1>1. last - 1 \in 0 .. last - 1 /\ BlockSize \in Nat \ {0} /\ NumBuckets \in Nat
  BY StepFacts, MultipleFacts
<1>2. \A b \in 0 .. last - 1 : Bstart(b) \in Nat
  BY <1>1, BucketFacts
<1>3. Low(0)
  <2>1. Bstart(0) = 0
    BY StepFacts DEF Bstart
  <2> QED
    BY <1>1, <2>1
<1>4. \A c \in 0 .. last - 1 : ~Low(c) <=> Bstart(c) > end - BlockSize
  BY <1>1, <1>2
<1> HIDE DEF Low
<1>5. last - 1 \in From
  <2>1. \A c \in (last - 1) + 1 .. last - 1 : FALSE
    OBVIOUS
  <2> QED
    BY <1>1, <2>1
<1>6. From \subseteq Nat
  OBVIOUS
<1>7. \A b : b \in From <=> b \in 0 .. last - 1 /\ \A c \in b + 1 .. last - 1 : ~Low(c)
  OBVIOUS
<1> HIDE DEF From
<1>8. PICK b \in From : \A y \in From : b <= y
  BY <1>5, <1>6, Least
<1>9. b \in 0 .. last - 1 /\ \A c \in b + 1 .. last - 1 : ~Low(c)
  BY <1>7, <1>8
<1>10. Low(b)
  <2>1. CASE b = 0
    BY <1>3, <2>1
  <2>2. CASE b # 0
    <3>1. b - 1 \in 0 .. last - 1 /\ b - 1 \notin From
      BY <1>6, <1>8, <1>9, <2>2
    <3>2. PICK c \in (b - 1) + 1 .. last - 1 : Low(c)
      BY <1>7, <3>1
    <3>3. c = b
      BY <1>9, <3>2
    <3> QED
      BY <3>2, <3>3
  <2> QED
    BY <2>1, <2>2
<1>11. \A c \in b + 1 .. last - 1 : c \in 0 .. last - 1
  BY <1>9
<1>12. /\ b \in 0 .. last - 1 /\ Bstart(b) <= end - BlockSize
       /\ \A c \in b + 1 .. last - 1 : Bstart(c) > end - BlockSize
  BY <1>4, <1>9, <1>10, <1>11 DEF Low
<1> HIDE DEF Low
<1>13. \E x \in 0 .. last - 1 : /\ Bstart(x) <= end - BlockSize
                                /\ \A c \in x + 1 .. last - 1 : Bstart(c) > end - BlockSize
  BY <1>12
<1> QED
  BY <1>13, Zenon DEF LastBlockBucket

(* A block that reaches over the last bucket of a thread is saved.         *)
LEMMA MarginSaved ==
  ASSUME step \in Steps, NEW last \in 0 .. NumBuckets, NEW i \in 0 .. last - 1,
         InBlocks(i) > 0, step.bucket_start[last] < Bwrite(i), Bwrite(i) <= step.n
  PROVE  SavedMargin(last) = i
<1> DEFINE tail == step.bucket_start[last]
           end  == Align(tail)
           w    == Bwrite(i)
           B    == BlockSize
<1>1. last \in 1 .. NumBuckets /\ i \in 0 .. NumBuckets - 1 /\ NumBuckets \in Nat /\ B \in Nat \ {0}
  BY StepFacts, MultipleFacts
<1>2. tail \in Nat /\ Bend(i) <= tail /\ Bend(i) \in Nat
  <2>1. last \in 0 .. NumBuckets /\ i < last
    BY <1>1
  <2>2. tail \in Nat
    BY <2>1, StepFacts
  <2>3. Bend(i) <= tail
    BY <1>1, <2>1, BucketsAscend
  <2> QED
    BY <1>1, <2>2, <2>3, BucketFacts
<1>3. end \in Multiples \cap Nat /\ tail <= end /\ end < tail + B
  BY <1>2, AlignFacts
<1>4. Align(Bend(i)) <= end
  BY <1>2, AlignMonotone
<1>5. /\ w \in Multiples /\ w \in Nat /\ w <= Align(Bend(i)) /\ Align(Bend(i)) \in Nat
      /\ Bstart(i) <= w - B /\ w - B < Bend(i) /\ Bstart(i) \in Nat
  BY <1>1, BlocksEnd, BucketFacts
<1>6. w < end => w + B <= end
  BY <1>3, <1>5, MultipleFacts
<1>7. end = w
  <2>1. end \in Nat
    BY <1>3
  <2> HIDE DEF tail, end, w, B
  <2>2. tail < w
    BY DEF tail, w
  <2> QED
    BY <1>1, <1>2, <1>3, <1>4, <1>5, <1>6, <2>1, <2>2
<1>8. end >= B /\ end <= step.n /\ tail # end
  <2>1. step.n \in Nat
    BY StepFacts
  <2> HIDE DEF B
  <2> QED
    BY <1>1, <1>5, <1>7, <2>1
<1> DEFINE b == LastBlockBucket(last, end)
<1>9. /\ b \in 0 .. last - 1 /\ Bstart(b) <= end - B
      /\ \A c \in b + 1 .. last - 1 : Bstart(c) > end - B
  <2>1. end \in Nat
    BY <1>3
  <2> QED
    BY <1>1, <1>8, <2>1, LastBlockFound
<1>10. b = i
  <2>1. Bstart(i) <= end - B
    BY <1>5, <1>7
  <2>2. ASSUME b < i PROVE FALSE
    <3>1. i \in b + 1 .. last - 1
      BY <1>1, <1>9, <2>2
    <3>2. Bstart(i) > end - B
      BY <1>9, <3>1
    <3> QED
      BY <1>1, <1>5, <1>7, <2>1, <3>2
  <2>3. ASSUME i < b PROVE FALSE
    <3>1. Bend(i) <= Bstart(b)
      BY <1>1, <1>9, <2>3, BucketsAscend
    <3>2. Bstart(b) \in Nat
      BY <1>1, <1>9, BucketFacts
    <3> QED
      BY <1>1, <1>2, <1>5, <1>7, <1>9, <3>1, <3>2
  <2>4. b \in Int /\ i \in Int
    BY <1>1, <1>9
  <2> QED
    BY <2>2, <2>3, <2>4
<1>11. ~(tail = end \/ end > step.n) /\ ~(Bwrite(b) < end)
  BY <1>5, <1>7, <1>8, <1>10, StepFacts
<1> HIDE DEF b
<1>12. SavedMargin(last) = b
  BY <1>11 DEF SavedMargin, b
<1> QED
  BY <1>10, <1>12

(* Only a block that reaches over is saved.                                *)
LEMMA MarginFacts ==
  ASSUME step \in Steps, NEW last \in 0 .. NumBuckets, SavedMargin(last) # -1
  PROVE  LET b == SavedMargin(last)
         IN /\ b \in 0 .. last - 1 /\ b \in 0 .. NumBuckets - 1 /\ InBlocks(b) > 0
            /\ Bwrite(b) = Align(step.bucket_start[last]) /\ Bwrite(b) = Align(Bend(b))
            /\ step.bucket_start[last] < Bwrite(b) /\ Bend(b) < Bwrite(b) /\ Bwrite(b) <= step.n
            /\ b \notin Over /\ Bwrite(b) <= MaxOff
<1> DEFINE tail == step.bucket_start[last]
           end  == Align(tail)
           b    == LastBlockBucket(last, end)
           w    == Bwrite(b)
           B    == BlockSize
<1>1. tail # end /\ ~(end > step.n) /\ ~(w < end) /\ SavedMargin(last) = b
  BY DEF SavedMargin
<1>2. tail \in Nat /\ step.n \in Nat /\ B \in Nat \ {0} /\ NumBuckets \in Nat /\ step.bucket_start[0] = 0
  BY StepFacts, MultipleFacts
<1>3. end \in Multiples \cap Nat /\ tail <= end /\ end < tail + B
  BY <1>2, AlignFacts
<1>4. end > 0 /\ end \in Nat /\ end >= B
  <2>1. 0 \in Multiples /\ end \in Nat /\ end \in Multiples
    BY <1>3, MultipleFacts
  <2>2. end > 0
    BY <1>1, <1>2, <1>3, <2>1
  <2>3. 0 < end => 0 + B <= end
    BY <2>1, MultipleFacts, Zenon
  <2> QED
    BY <1>2, <2>1, <2>2, <2>3
<1>5. last \in 1 .. NumBuckets
  <2>1. last # 0
    <3> SUFFICES ASSUME last = 0 PROVE FALSE
      OBVIOUS
    <3>1. tail = 0
      BY <1>2
    <3>2. end < B
      BY <1>3, <3>1, <1>2
    <3> QED
      BY <1>2, <1>4, <3>2
  <2> QED
    BY <1>2, <2>1
<1>6. b \in 0 .. last - 1 /\ Bstart(b) <= end - B
  BY <1>4, <1>5, LastBlockFound
<1>7. b \in 0 .. NumBuckets - 1
  BY <1>2, <1>5, <1>6
<1> HIDE DEF b
<1>8. Bend(b) <= tail /\ Bend(b) \in Nat /\ Bstart(b) \in Nat
  BY <1>2, <1>6, <1>7, BucketsAscend, BucketFacts
<1>9. Align(Bend(b)) <= end /\ Align(Bend(b)) \in Nat
  BY <1>2, <1>7, <1>8, AlignMonotone, BucketFacts
<1>10. w \in Nat /\ w <= Align(Bend(b)) /\ Align(Bstart(b)) \in Nat /\ Align(Bstart(b)) < Bstart(b) + B
  BY <1>7, <1>8, BlocksEnd, BucketFacts, AlignFacts
<1>11. w = end /\ w = Align(Bend(b)) /\ tail < w /\ Bend(b) < w /\ w <= step.n
  <2>1. end \in Nat
    BY <1>4
  <2> HIDE DEF w, end, tail
  <2> QED
    BY <1>1, <1>2, <1>3, <1>8, <1>9, <1>10, <2>1
<1>12. InBlocks(b) > 0
  <2> SUFFICES ASSUME InBlocks(b) = 0 PROVE FALSE
    BY <1>7, BucketFacts
  <2>1. w = Align(Bstart(b))
    BY <1>7, BlocksEnd
  <2> QED
    BY <1>2, <1>6, <1>8, <1>10, <1>11, <2>1
<1>13. w <= MaxOff
  <2>1. MaxOff \in Multiples /\ MaxOff \in Nat /\ step.n < MaxOff + B /\ w \in Multiples
    BY <1>7, MaxOffFacts, BucketFacts
  <2>2. MaxOff < w => MaxOff + B <= w
    BY <2>1, MultipleFacts
  <2> QED
    BY <1>2, <1>10, <1>11, <2>1, <2>2
<1>14. b \notin Over
  BY <1>10, <1>13, MaxOffFacts DEF Over
<1> QED
  BY <1>1, <1>6, <1>7, <1>11, <1>12, <1>13, <1>14

LEMMA MarginIsBucket ==
  ASSUME step \in Steps, NEW last \in 0 .. NumBuckets
  PROVE  SavedMargin(last) \in Int
<1>1. CASE SavedMargin(last) = -1
  BY <1>1
<1>2. CASE SavedMargin(last) # -1
  BY <1>2, MarginFacts, StepFacts
<1> QED
  BY <1>1, <1>2

-----------------------------------------------------------------------------
(* The threads' ranges of buckets, and their buffers in a row.             *)
LEMMA Ranges ==
  ASSUME step \in Steps
  PROVE  /\ \A t \in Threads : /\ FirstBucket(t) \in 0 .. NumBuckets /\ LastBucket(t) \in 0 .. NumBuckets
                               /\ FirstBucket(t) <= LastBucket(t) /\ t \in Nat
         /\ \A t, u \in Threads : t < u => LastBucket(t) <= FirstBucket(u)
<1> DEFINE q == BucketsPerThread
<1>1. NumBuckets \in Nat \ {0} /\ step.threads \in Nat \ {0}
  BY StepFacts
<1>2. q \in Nat
  BY <1>1 DEF BucketsPerThread
<1>3. Threads = 0 .. step.threads - 1
  BY DEF Threads
<1> HIDE DEF q
<1>4. \A t, u \in Nat : t <= u => t * q <= u * q /\ t * q \in Nat /\ u * q \in Nat
  BY <1>2, SMT
<1>5. \A t : FirstBucket(t) = AtMostAll(t * q) /\ LastBucket(t) = AtMostAll((t + 1) * q)
  BY DEF FirstBucket, LastBucket, q
<1>6. ASSUME NEW x \in Nat, NEW y \in Nat, x <= y
      PROVE  /\ AtMostAll(x) \in 0 .. NumBuckets /\ AtMostAll(y) \in 0 .. NumBuckets
             /\ AtMostAll(x) <= AtMostAll(y)
  BY <1>1, <1>6 DEF AtMostAll
<1>7. ASSUME NEW t \in Threads
      PROVE  /\ FirstBucket(t) \in 0 .. NumBuckets /\ LastBucket(t) \in 0 .. NumBuckets
             /\ FirstBucket(t) <= LastBucket(t) /\ t \in Nat
  <2>1. t \in Nat /\ t + 1 \in Nat /\ t <= t + 1
    BY <1>1, <1>3
  <2>2. t * q <= (t + 1) * q /\ t * q \in Nat /\ (t + 1) * q \in Nat
    BY <1>4, <2>1
  <2> QED
    BY <1>5, <1>6, <2>1, <2>2
<1>8. ASSUME NEW t \in Threads, NEW u \in Threads, t < u
      PROVE  LastBucket(t) <= FirstBucket(u)
  <2>1. t + 1 \in Nat /\ u \in Nat /\ t + 1 <= u
    BY <1>1, <1>3, <1>8
  <2>2. (t + 1) * q <= u * q /\ u * q \in Nat /\ (t + 1) * q \in Nat
    BY <1>4, <2>1
  <2> QED
    BY <1>5, <1>6, <2>1, <2>2
<1> QED
  BY <1>7, <1>8

(* A single thread has all buckets and saves nothing.                      *)
LEMMA SequentialSavesNothing ==
  ASSUME step \in Steps, step.threads = 1
  PROVE  Threads = {0} /\ SavedMargin(LastBucket(0)) = -1
<1>1. NumBuckets \in Nat \ {0} /\ step.n \in Nat /\ step.bucket_start[NumBuckets] = step.n
  BY StepFacts
<1>2. LastBucket(0) = NumBuckets
  BY <1>1 DEF LastBucket, AtMostAll, BucketsPerThread
<1>3. step.n <= Align(step.n) /\ Align(step.n) \in Nat
  BY <1>1, AlignFacts
<1>4. SavedMargin(NumBuckets) = -1
  BY <1>1, <1>3 DEF SavedMargin
<1> QED
  BY <1>2, <1>4 DEF Threads

LEMMA NumbersFacts ==
  ASSUME NEW i \in Nat, NEW a \in Nat, NEW m \in Nat
  PROVE  /\ Numbers(i, a, m) \in Seq(Values) /\ Len(Numbers(i, a, m)) = m
         /\ \A k \in 1 .. m : Numbers(i, a, m)[k] = << i, a + k >>
<1>1. \A k \in 1 .. m : << i, a + k >> \in Values
  BY DEF Values
<1> QED
  BY <1>1, IsASeq DEF Numbers

LEMMA NumbersInRow ==
  ASSUME NEW i \in Nat, NEW a \in Nat, NEW m \in Nat, NEW l \in Nat
  PROVE  Numbers(i, a, m) \o Numbers(i, a + m, l) = Numbers(i, a, m + l)
<1> DEFINE s == Numbers(i, a, m)
           r == Numbers(i, a + m, l)
           c == Numbers(i, a, m + l)
<1>0. a + m \in Nat /\ m + l \in Nat
  OBVIOUS
<1>1. /\ s \in Seq(Values) /\ Len(s) = m /\ \A k \in 1 .. m : s[k] = << i, a + k >>
  BY NumbersFacts
<1>2. /\ r \in Seq(Values) /\ Len(r) = l /\ \A k \in 1 .. l : r[k] = << i, a + m + k >>
  BY <1>0, NumbersFacts
<1>3. /\ c \in Seq(Values) /\ Len(c) = m + l /\ \A k \in 1 .. m + l : c[k] = << i, a + k >>
  BY <1>0, NumbersFacts
<1> HIDE DEF s, r, c
<1>4. /\ s \o r \in Seq(Values) /\ Len(s \o r) = m + l
      /\ \A k \in 1 .. m + l : (s \o r)[k] = IF k <= m THEN s[k] ELSE r[k - m]
  BY <1>1, <1>2, ConcatProperties
<1>5. ASSUME NEW k \in 1 .. m + l PROVE (s \o r)[k] = c[k]
  <2>1. c[k] = << i, a + k >>
    BY <1>3
  <2>2. CASE k <= m
    BY <1>1, <1>4, <2>1, <2>2
  <2>3. CASE ~(k <= m)
    <3>1. k - m \in 1 .. l /\ a + m + (k - m) = a + k
      BY <2>3
    <3>2. r[k - m] = << i, a + m + (k - m) >>
      BY <1>2, <3>1
    <3> QED
      BY <1>4, <2>1, <2>3, <3>1, <3>2
  <2> QED
    BY <2>2, <2>3
<1>6. s \o r = c
  BY <1>3, <1>4, <1>5, SeqEqual
<1> QED
  BY <1>6 DEF s, r, c

(* FlattenSeq is defined by recursion: what it returns is shown by the     *)
(* least number of sequences for which it would be something else.         *)
LEMMA FlattenNumbers ==
  ASSUME step \in Steps, NEW i \in 0 .. NumBuckets - 1, NEW f,
         f = [k \in 1 .. step.threads |-> f[k]],
         \A k \in 1 .. step.threads :
           f[k] = Numbers(i, InBlocks(i) + step.left[k - 1][i], step.left[k][i] - step.left[k - 1][i])
  PROVE  FlattenSeq(f) = Numbers(i, InBlocks(i), InBuffers(i))
<1> DEFINE n == step.threads
           a == InBlocks(i)
           left(k) == step.left[k][i]
<1>a. /\ n \in Nat \ {0} /\ i \in Nat /\ a \in Nat /\ left(0) = 0 /\ InBuffers(i) = left(n)
      /\ \A k \in 0 .. n : left(k) \in Nat
  <2>1. n \in Nat \ {0} /\ left(0) = 0 /\ \A k \in 0 .. n : left(k) \in Nat
    BY StepFacts
  <2>2. i \in Nat /\ a \in Nat
    BY BucketFacts
  <2>3. InBuffers(i) = left(n)
    BY DEF InBuffers
  <2> QED
    BY <2>1, <2>2, <2>3
<1>b. \A k \in 0 .. n - 1 : left(k + 1) - left(k) \in Nat
  <2>1. \A k \in Threads : left(k + 1) - left(k) \in Nat
    BY StepFacts
  <2> QED
    BY <2>1 DEF Threads
<1>c. f = [k \in 1 .. n |-> f[k]] /\ \A k \in 1 .. n : f[k] = Numbers(i, a + left(k - 1), left(k) - left(k - 1))
  OBVIOUS
<1> HIDE DEF n, a, left
<1> USE <1>a, <1>b, <1>c
<1> DEFINE g == [k \in 1 .. n |-> Numbers(i, a, left(k))]
           Is(h) == h = [k \in 1 .. n |-> IF k = 1 THEN f[k] ELSE h[k - 1] \o f[k]]
<1>0. \A p, q \in Nat : Numbers(i, a, p) \o Numbers(i, a + p, q) = Numbers(i, a, p + q)
  BY NumbersInRow
<1>1. Len(f) = n /\ Len(f) # 0
  <2> DEFINE S == {f[k] : k \in 1 .. n}
  <2>1. DOMAIN f = 1 .. n /\ f \in [1 .. n -> S]
    OBVIOUS
  <2> HIDE DEF S
  <2>2. f \in Seq(S)
    BY <2>1, SeqDef
  <2>3. Len(f) \in Nat /\ DOMAIN f = 1 .. Len(f)
    BY <2>2, LenProperties
  <2> QED
    BY ONLY <2>1, <2>3, n \in Nat \ {0}
<1>2. \A k \in 1 .. n : f[k] = Numbers(i, a + left(k - 1), left(k) - left(k - 1))
  OBVIOUS
<1>3. ASSUME NEW k \in 1 .. n, k # 1
      PROVE  Numbers(i, a, left(k - 1)) \o f[k] = Numbers(i, a, left(k))
  <2>1. k - 1 \in 0 .. n - 1 /\ k - 1 \in 0 .. n /\ k \in 0 .. n /\ (k - 1) + 1 = k
    BY <1>3
  <2>2. left(k - 1) \in Nat /\ left(k) - left(k - 1) \in Nat /\ left(k) \in Nat
    BY <2>1
  <2> DEFINE m == left(k - 1)
             l == left(k) - left(k - 1)
  <2>3. m \in Nat /\ l \in Nat /\ m + l = left(k)
    BY <2>2
  <2>4. f[k] = Numbers(i, a + m, l)
    BY <1>2
  <2> HIDE DEF m, l
  <2>5. Numbers(i, a, m) \o Numbers(i, a + m, l) = Numbers(i, a, m + l)
    BY ONLY <1>0, <2>3
  <2>6. Numbers(i, a, m) \o f[k] = Numbers(i, a, left(k))
    BY <2>3, <2>4, <2>5
  <2> QED
    BY <2>6 DEF m
<1>4. f[1] = Numbers(i, a, left(1))
  <2>1. 1 \in 1 .. n /\ 0 \in 0 .. n /\ 1 \in 0 .. n /\ 1 - 1 = 0
    OBVIOUS
  <2>2. a + left(1 - 1) = a /\ left(1) - left(1 - 1) = left(1)
    BY <2>1
  <2> QED
    BY <1>2, <2>1, <2>2
<1>5. Is(g)
  <2>1. ASSUME NEW k \in 1 .. n PROVE g[k] = IF k = 1 THEN f[k] ELSE g[k - 1] \o f[k]
    <3>1. CASE k = 1
      BY <1>4, <3>1
    <3>2. CASE k # 1
      <4>1. k - 1 \in 1 .. n
        BY <3>2
      <4>2. g[k - 1] = Numbers(i, a, left(k - 1)) /\ g[k] = Numbers(i, a, left(k))
        BY <4>1
      <4> QED
        BY <1>3, <3>2, <4>2
    <3> QED
      BY <3>1, <3>2
  <2> QED
    BY <2>1
<1>6. ASSUME NEW h, Is(h) PROVE h[n] = Numbers(i, a, left(n))
  <2> DEFINE Wrong == {k \in 1 .. n : h[k] # Numbers(i, a, left(k))}
  <2> SUFFICES ASSUME Wrong # {} PROVE FALSE
    BY n \in 1 .. n
  <2>1. \A k \in 1 .. n : h[k] = IF k = 1 THEN f[k] ELSE h[k - 1] \o f[k]
    BY <1>6
  <2>2. Wrong \subseteq Nat
    OBVIOUS
  <2>3. \A k : k \in Wrong <=> k \in 1 .. n /\ h[k] # Numbers(i, a, left(k))
    OBVIOUS
  <2> HIDE DEF Wrong
  <2>4. PICK k \in Wrong : \A y \in Wrong : k <= y
    BY <2>2, Least
  <2>5. CASE k = 1
    BY <1>4, <2>1, <2>3, <2>4, <2>5
  <2>6. CASE k # 1
    <3>1. k \in 1 .. n /\ k - 1 \in 1 .. n /\ k - 1 \notin Wrong
      BY <2>2, <2>3, <2>4, <2>6
    <3>2. h[k - 1] = Numbers(i, a, left(k - 1))
      BY <2>3, <3>1
    <3>3. h[k] = h[k - 1] \o f[k]
      BY <2>1, <2>6, <3>1
    <3>4. h[k] = Numbers(i, a, left(k))
      BY <1>3, <2>6, <3>1, <3>2, <3>3
    <3> QED
      BY <2>3, <2>4, <3>4
  <2> QED
    BY <2>5, <2>6
<1>7. FlattenSeq(f) = (CHOOSE h : Is(h))[n]
  BY <1>1 DEF FlattenSeq
<1> HIDE DEF g, Is
<1>8. Is(CHOOSE h : Is(h))
  BY <1>5
<1>9. FlattenSeq(f) = Numbers(i, a, left(n))
  BY <1>6, <1>7, <1>8
<1> QED
  BY <1>9 DEF a

-----------------------------------------------------------------------------
(* A bucket about to be written: t writes i.                               *)
Writes(t, i) == t \in Threads /\ MayWrite(t) /\ i = next[t] /\ i < LastBucket(t)

(* How many of its elements are where they belong, behind its head.        *)
InPlace(t, i) ==
  IF HasOverflow(i) THEN InBlocks(i) - BlockSize
  ELSE IF HasSaved(t, i) \/ ReachesOver(t, i) THEN Bend(i) - Align(Bstart(i))
  ELSE InBlocks(i)

LEMMA OwnBucket ==
  ASSUME Shape, NEW t \in Threads, NEW i \in FirstBucket(t) .. LastBucket(t) - 1
  PROVE  /\ i \in 0 .. NumBuckets - 1 /\ i \in 0 .. LastBucket(t) - 1 /\ i \in Nat
         /\ LastBucket(t) \in 0 .. NumBuckets
         /\ step.bucket_start[FirstBucket(t)] <= Bstart(i) /\ Bstart(i) <= Bend(i)
         /\ Bend(i) <= step.bucket_start[LastBucket(t)] /\ step.bucket_start[LastBucket(t)] <= step.n
         /\ step.bucket_start[FirstBucket(t)] \in Nat /\ step.bucket_start[LastBucket(t)] \in Nat
         /\ \A u \in Threads \ {t} : i \notin FirstBucket(u) .. LastBucket(u) - 1
<1>1. step \in Steps
  BY DEF Shape, TypeOK
<1>2. NumBuckets \in Nat \ {0}
  BY <1>1, StepFacts
<1>3. /\ \A u \in Threads : /\ FirstBucket(u) \in 0 .. NumBuckets /\ LastBucket(u) \in 0 .. NumBuckets
                            /\ FirstBucket(u) <= LastBucket(u) /\ u \in Nat
      /\ \A v, u \in Threads : v < u => LastBucket(v) <= FirstBucket(u)
  BY <1>1, Ranges
<1>4. /\ i \in 0 .. NumBuckets - 1 /\ i \in 0 .. LastBucket(t) - 1 /\ i \in Nat /\ i < LastBucket(t)
      /\ FirstBucket(t) <= i
  BY <1>2, <1>3
<1>5. ASSUME NEW u \in Threads \ {t}, i \in FirstBucket(u) .. LastBucket(u) - 1
      PROVE  FALSE
  <2>1. t < u \/ u < t
    BY <1>3
  <2>2. t < u => LastBucket(t) <= FirstBucket(u)
    BY <1>3
  <2>3. u < t => LastBucket(u) <= FirstBucket(t)
    BY <1>3
  <2>4. /\ FirstBucket(u) \in 0 .. NumBuckets /\ LastBucket(u) \in 0 .. NumBuckets
        /\ FirstBucket(t) \in 0 .. NumBuckets /\ LastBucket(t) \in 0 .. NumBuckets
    BY <1>3
  <2> QED
    BY <1>4, <1>5, <2>1, <2>2, <2>3, <2>4
<1>6. /\ step.bucket_start[FirstBucket(t)] <= Bstart(i) /\ Bstart(i) <= Bend(i)
      /\ Bend(i) <= step.bucket_start[LastBucket(t)]
  BY <1>1, <1>3, <1>4, BucketsAscend
<1>7. step.bucket_start[LastBucket(t)] <= step.n
  BY <1>1, <1>3, StartsAscend
<1>8. step.bucket_start[FirstBucket(t)] \in Nat /\ step.bucket_start[LastBucket(t)] \in Nat
  BY <1>1, <1>3, StepFacts
<1> QED
  BY <1>3, <1>4, <1>5, <1>6, <1>7, <1>8

LEMMA NextBucket ==
  ASSUME Shape, NEW t, NEW i, Writes(t, i)
  PROVE  /\ step \in Steps /\ t \in Threads
         /\ i \in FirstBucket(t) .. LastBucket(t) - 1 /\ i \in 0 .. NumBuckets - 1 /\ i \in Nat
         /\ i \in Unwritten(t) /\ saved[t] = SavedMargin(LastBucket(t))
         /\ LastBucket(t) \in 0 .. NumBuckets /\ i \in 0 .. LastBucket(t) - 1
<1>1. step \in Steps /\ t \in Threads /\ next[t] \in Nat /\ i = next[t] /\ i < LastBucket(t)
  BY DEF Shape, TypeOK, Writes
<1>2. FirstBucket(t) <= i /\ pc[t] = "write"
  BY <1>1 DEF Shape, Progress, Writes, MayWrite
<1>3. FirstBucket(t) \in 0 .. NumBuckets /\ LastBucket(t) \in 0 .. NumBuckets /\ NumBuckets \in Nat
  BY <1>1, Ranges, StepFacts
<1>4. i \in FirstBucket(t) .. LastBucket(t) - 1 /\ i \in Unwritten(t)
  BY <1>1, <1>2, <1>3 DEF Unwritten
<1>5. saved[t] = SavedMargin(LastBucket(t))
  BY <1>1, <1>2 DEF Shape, Progress
<1> QED
  BY <1>1, <1>3, <1>4, <1>5, OwnBucket

(* The cases of writeMargins.                                              *)
LEMMA OverflowCase ==
  ASSUME Shape, NEW t, NEW i, Writes(t, i)
  PROVE  /\ HasOverflow(i) <=> i \in Over
         /\ i \in Over => overflow = Numbers(i, InBlocks(i) - BlockSize, BlockSize)
<1>1. step \in Steps /\ t \in Threads /\ i \in Unwritten(t) /\ i \in Nat
  BY NextBucket
<1>2. ASSUME i \in Over
      PROVE  overflow = Numbers(i, InBlocks(i) - BlockSize, BlockSize) /\ HasOverflow(i)
  <2>1. overflow = Numbers(i, InBlocks(i) - BlockSize, BlockSize)
    BY <1>1, <1>2 DEF Shape, Waiting
  <2>2. BlockSize \in Nat \ {0} /\ InBlocks(i) - BlockSize \in Nat
    <3>1. i \in 0 .. NumBuckets - 1 /\ InBlocks(i) >= BlockSize
      BY <1>1, <1>2, OverBlock
    <3>2. InBlocks(i) \in Nat
      BY <1>1, <3>1, BucketFacts
    <3> QED
      BY <3>1, <3>2, MultipleFacts
  <2>3. Len(overflow) = BlockSize
    BY <1>1, <2>1, <2>2, NumbersFacts
  <2>4. overflow # << >>
    BY <2>2, <2>3
  <2>5. OverflowBucket = i
    BY <1>1, <1>2, OverFacts
  <2> QED
    BY <2>1, <2>4, <2>5 DEF HasOverflow
<1>3. ASSUME HasOverflow(i) PROVE i \in Over
  <2>1. overflow # << >> /\ i = OverflowBucket
    BY <1>3 DEF HasOverflow
  <2>2. PICK o \in Over : TRUE
    BY <2>1 DEF Shape, Waiting
  <2>3. OverflowBucket = o
    BY <1>1, <2>2, OverFacts
  <2> QED
    BY <2>1, <2>2, <2>3
<1> QED
  BY <1>2, <1>3

LEMMA SavedCase ==
  ASSUME Shape, NEW t, NEW i, Writes(t, i), HasSaved(t, i)
  PROVE  /\ i \notin Over /\ InBlocks(i) > 0 /\ Bend(i) < Bwrite(i) /\ Bwrite(i) <= step.n
         /\ Len(swap[t]) = Bwrite(i) - Bend(i) /\ saved[t] = i
<1>1. /\ step \in Steps /\ t \in Threads /\ i \in Unwritten(t) /\ i \in Nat
      /\ saved[t] = SavedMargin(LastBucket(t)) /\ LastBucket(t) \in 0 .. NumBuckets
  BY NextBucket
<1>2. saved[t] = i /\ SavedMargin(LastBucket(t)) = i /\ i # -1
  BY <1>1 DEF HasSaved
<1>3. /\ i \notin Over /\ InBlocks(i) > 0 /\ Bend(i) < Bwrite(i) /\ Bwrite(i) <= step.n
      /\ Bwrite(i) = Align(step.bucket_start[LastBucket(t)])
  BY <1>1, <1>2, MarginFacts
<1>4. Len(swap[t]) = SavedEnd(t) - Bend(i)
  BY <1>1, <1>2 DEF Shape, Waiting
<1> QED
  BY <1>2, <1>3, <1>4 DEF SavedEnd

LEMMA ReachingCase ==
  ASSUME Shape, NEW t, NEW i, Writes(t, i), ReachesOver(t, i)
  PROVE  /\ i \notin Over /\ InBlocks(i) > 0 /\ Bend(i) < Bwrite(i)
         /\ Bwrite(i) <= step.bucket_start[LastBucket(t)]
<1>1. /\ step \in Steps /\ t \in Threads /\ i \in Unwritten(t) /\ i \in Nat
      /\ i \in 0 .. NumBuckets - 1 /\ i \in 0 .. LastBucket(t) - 1
      /\ saved[t] = SavedMargin(LastBucket(t)) /\ LastBucket(t) \in 0 .. NumBuckets
  BY NextBucket
<1>2. ~HasOverflow(i) /\ ~HasSaved(t, i) /\ Bwrite(i) > Bend(i) /\ Bsize(i) > BlockSize
  BY DEF ReachesOver
<1>3. i \notin Over
  BY <1>2, OverflowCase
<1>4. InBlocks(i) > 0
  <2>1. /\ InBlocks(i) \in Nat /\ Bwrite(i) - Bend(i) = Room(i) - InBuffers(i) /\ Room(i) < BlockSize
        /\ Bsize(i) = Bend(i) - Bstart(i) /\ Bend(i) = Bstart(i) + InBlocks(i) + InBuffers(i)
        /\ Bend(i) \in Nat /\ Bstart(i) \in Nat /\ Bwrite(i) \in Nat /\ Room(i) \in Nat /\ InBuffers(i) \in Nat
    BY <1>1, BucketFacts, BlocksEnd
  <2> QED
    BY <1>2, <2>1, MultipleFacts
<1>5. Bwrite(i) <= MaxOff /\ Bwrite(i) \in Nat /\ MaxOff <= step.n /\ MaxOff \in Nat /\ step.n \in Nat
  <2>1. i \in DOMAIN step.blocks /\ step.blocks[i] > 0
    BY <1>1, <1>4, BucketFacts, StepFacts
  <2>2. ~(Bwrite(i) > MaxOff)
    BY <1>3, <2>1 DEF Over
  <2>3. Bwrite(i) \in Nat
    BY <1>1, BucketFacts
  <2>4. MaxOff <= step.n /\ MaxOff \in Nat /\ step.n \in Nat
    BY <1>1, MaxOffFacts, StepFacts
  <2> QED
    BY <2>2, <2>3, <2>4
<1>6. ASSUME step.bucket_start[LastBucket(t)] < Bwrite(i) PROVE FALSE
  <2>1. Bwrite(i) <= step.n
    BY <1>5
  <2>2. SavedMargin(LastBucket(t)) = i
    BY <1>1, <1>4, <1>6, <2>1, MarginSaved
  <2> QED
    BY <1>1, <1>2, <2>2 DEF HasSaved
<1>7. step.bucket_start[LastBucket(t)] \in Nat
  BY <1>1, StepFacts
<1> QED
  BY <1>2, <1>3, <1>4, <1>5, <1>6, <1>7

LEMMA OtherCase ==
  ASSUME Shape, NEW t, NEW i, Writes(t, i), ~HasOverflow(i), ~HasSaved(t, i), ~ReachesOver(t, i)
  PROVE  i \notin Over /\ (Bwrite(i) <= Bend(i) \/ InBlocks(i) = 0)
<1>1. step \in Steps /\ i \in 0 .. NumBuckets - 1
  BY NextBucket
<1>2. i \notin Over
  BY OverflowCase
<1>3. Bwrite(i) \in Nat /\ Bend(i) \in Nat /\ InBlocks(i) \in Nat
  BY <1>1, BucketFacts
<1>4. InBlocks(i) > 0 => Bsize(i) > BlockSize
  BY <1>1, BlocksEnd
<1> QED
  BY <1>2, <1>3, <1>4 DEF ReachesOver

LEMMA InPlaceFacts ==
  ASSUME Shape, NEW t, NEW i, Writes(t, i)
  PROVE  LET m == InPlace(t, i) IN
         /\ m \in Nat /\ Align(Bstart(i)) + m <= Bwrite(i)
         /\ \/ Align(Bstart(i)) + m <= Bend(i)
            \/ m = 0 /\ Bend(i) < Align(Bstart(i))
         /\ m > 0 => Align(Bstart(i)) + m <= MaxOff
         /\ HasSaved(t, i) \/ ReachesOver(t, i) => Align(Bstart(i)) + m = Bend(i)
         /\ ~(HasSaved(t, i) \/ ReachesOver(t, i)) => TailStart(i) = Align(Bstart(i)) + m
<1> DEFINE s == Bstart(i)
           e == Bend(i)
           a == Align(Bstart(i))
           w == Bwrite(i)
           d == InBlocks(i)
           l == InBuffers(i)
           m == InPlace(t, i)
           f == MaxOff
           B == BlockSize
<1>1. step \in Steps /\ i \in 0 .. NumBuckets - 1
  BY NextBucket
<1>2. /\ s \in Nat /\ e \in Nat /\ d \in Nat /\ l \in Nat /\ e = s + d + l /\ (d > 0 => d >= B)
      /\ a \in Nat /\ w \in Nat /\ w = a + d /\ f \in Nat /\ B \in Nat \ {0}
      /\ (d > 0 => a < e) /\ w <= Align(e) /\ Align(e) < e + B /\ Align(e) \in Nat
  BY <1>1, BucketFacts, BlocksEnd, MaxOffFacts, MultipleFacts
<1>3. i \notin Over /\ d > 0 => w <= f
  <2>1. d > 0 => i \in DOMAIN step.blocks /\ step.blocks[i] > 0
    BY <1>1, BucketFacts, StepFacts
  <2> QED
    BY <1>2, <2>1 DEF Over
<1>4. CASE HasOverflow(i)
  <2>1. i \in Over /\ ~HasSaved(t, i) /\ ~ReachesOver(t, i) /\ m = d - B /\ TailStart(i) = w - B
    BY <1>4, OverflowCase DEF HasSaved, ReachesOver, InPlace, TailStart
  <2>2. d >= B /\ w = f + B /\ f < e
    BY <1>1, <2>1, OverBlock
  <2> HIDE DEF s, e, a, w, d, l, m, f, B
  <2>3. m \in Nat /\ a + m <= w /\ a + m <= e /\ a + m <= f /\ w - B = a + m
    BY <1>2, <2>1, <2>2
  <2> QED
    BY <2>1, <2>3 DEF s, e, a, w, d, l, m, f, B
<1>5. CASE HasSaved(t, i) \/ ReachesOver(t, i)
  <2>1. i \notin Over /\ d > 0 /\ e < w
    BY <1>5, SavedCase, ReachingCase
  <2>2. m = e - a
    BY <1>5 DEF InPlace, HasSaved, ReachesOver
  <2> HIDE DEF s, e, a, w, d, l, m, f, B
  <2>3. m \in Nat /\ a + m <= w /\ a + m <= f /\ a + m = e
    BY <1>2, <1>3, <2>1, <2>2
  <2>4. /\ m \in Nat /\ a + m <= w /\ (a + m <= e \/ (m = 0 /\ e < a)) /\ (m > 0 => a + m <= f)
        /\ a + m = e
    BY <1>2, <2>3
  <2> QED
    BY <1>5, <2>4 DEF s, e, a, w, d, l, m, f, B
<1>6. CASE ~HasOverflow(i) /\ ~HasSaved(t, i) /\ ~ReachesOver(t, i)
  <2>1. i \notin Over /\ (w <= e \/ d = 0)
    BY <1>6, OtherCase
  <2>2. m = d /\ TailStart(i) = w - 0
    BY <1>6 DEF InPlace, TailStart
  <2> HIDE DEF s, e, a, w, d, l, m, f, B
  <2>3. /\ m \in Nat /\ a + m <= w /\ (a + m <= e \/ (m = 0 /\ e < a)) /\ (m > 0 => a + m <= f)
        /\ w - 0 = a + m
    BY <1>2, <1>3, <2>1, <2>2
  <2> QED
    BY <1>6, <2>2, <2>3 DEF s, e, a, w, d, l, m, f, B
<1> QED
  BY <1>4, <1>5, <1>6

-----------------------------------------------------------------------------
(* What is written, and where.                                             *)
LEMMA BufferedFacts ==
  ASSUME Shape, NEW t, NEW i, Writes(t, i)
  PROVE  Buffered(i) = Numbers(i, InBlocks(i), InBuffers(i))
<1>1. step \in Steps /\ t \in Threads /\ i \in Unwritten(t) /\ i \in Nat /\ i \in 0 .. NumBuckets - 1
  BY NextBucket
<1> DEFINE f == [k \in 1 .. step.threads |-> buffers[k - 1][i]]
<1>2. step.threads \in Nat \ {0}
  BY <1>1, StepFacts
<1>3. ASSUME NEW k \in 1 .. step.threads
      PROVE  f[k] = Numbers(i, InBlocks(i) + step.left[k - 1][i], step.left[k][i] - step.left[k - 1][i])
  <2>1. k - 1 \in Threads /\ (k - 1) + 1 = k
    BY <1>2 DEF Threads
  <2>2. buffers[k - 1][i] = Numbers(i, InBlocks(i) + step.left[k - 1][i], step.left[(k - 1) + 1][i] - step.left[k - 1][i])
    BY <1>1, <2>1 DEF Shape, Waiting
  <2> QED
    BY <2>1, <2>2
<1>4. Buffered(i) = FlattenSeq(f) /\ f = [k \in 1 .. step.threads |-> f[k]]
  BY DEF Buffered
<1> HIDE DEF f
<1> QED
  BY <1>1, <1>3, <1>4, FlattenNumbers

LEMMA SliceFacts ==
  ASSUME arr \in [0 .. step.n - 1 -> Values], step.n \in Nat,
         NEW x \in Nat, NEW y \in Nat, x <= y, y <= step.n
  PROVE  /\ Slice(x, y) \in Seq(Values) /\ Len(Slice(x, y)) = y - x
         /\ \A k \in 1 .. y - x : Slice(x, y)[k] = arr[x + k - 1]
<1> DEFINE m == y - x
<1>1. m \in Nat /\ \A k \in 1 .. m : x + k - 1 \in 0 .. step.n - 1
  OBVIOUS
<1>2. Slice(x, y) = [k \in 1 .. m |-> arr[x + k - 1]]
  BY DEF Slice
<1>3. \A k \in 1 .. m : arr[x + k - 1] \in Values
  BY <1>1
<1> HIDE DEF m
<1>4. Slice(x, y) \in [1 .. m -> Values]
  BY <1>2, <1>3
<1>5. Slice(x, y) \in Seq(Values)
  BY <1>1, <1>4, SeqDef
<1>6. Len(Slice(x, y)) = m
  BY <1>1, <1>4, <1>5, LenProperties
<1>7. \A k \in 1 .. m : Slice(x, y)[k] = arr[x + k - 1]
  BY <1>2
<1> QED
  BY <1>5, <1>6, <1>7 DEF m

LEMMA ExcessFacts ==
  ASSUME Shape, NEW t, NEW i, Writes(t, i)
  PROVE  /\ Excess(t, i) \in Seq(Values)
         /\ InPlace(t, i) + Len(Excess(t, i)) = InBlocks(i)
<1>1. /\ step \in Steps /\ t \in Threads /\ i \in Nat /\ i \in 0 .. NumBuckets - 1 /\ step.n \in Nat
      /\ arr \in [0 .. step.n - 1 -> Values] /\ swap[t] \in Seq(Values)
      /\ LastBucket(t) \in 0 .. NumBuckets
  BY NextBucket, StepFacts DEF Shape, TypeOK
<1>2. /\ Bend(i) \in Nat /\ Bwrite(i) \in Nat /\ InBlocks(i) \in Nat /\ Align(Bstart(i)) \in Nat
      /\ Bwrite(i) = Align(Bstart(i)) + InBlocks(i)
  BY <1>1, BucketFacts
<1>3. CASE HasOverflow(i)
  <2>1. i \in Over /\ overflow = Numbers(i, InBlocks(i) - BlockSize, BlockSize)
    BY <1>3, OverflowCase
  <2>2. BlockSize \in Nat /\ InBlocks(i) - BlockSize \in Nat
    <3>1. InBlocks(i) >= BlockSize
      BY <1>1, <2>1, OverBlock
    <3>2. BlockSize \in Nat
      BY MultipleFacts
    <3> QED
      BY <1>2, <3>1, <3>2
  <2>3. overflow \in Seq(Values) /\ Len(overflow) = BlockSize
    BY <1>1, <2>1, <2>2, NumbersFacts
  <2>4. Excess(t, i) = overflow /\ InPlace(t, i) = InBlocks(i) - BlockSize
    BY <1>3 DEF Excess, InPlace, HasSaved, ReachesOver
  <2> QED
    BY <1>2, <2>2, <2>3, <2>4
<1>4. CASE HasSaved(t, i)
  <2>1. Len(swap[t]) = Bwrite(i) - Bend(i)
    BY <1>4, SavedCase
  <2>2. Excess(t, i) = swap[t] /\ InPlace(t, i) = Bend(i) - Align(Bstart(i))
    BY <1>4 DEF Excess, InPlace, HasSaved, ReachesOver
  <2> QED
    BY <1>1, <1>2, <2>1, <2>2
<1>5. CASE ReachesOver(t, i)
  <2>1. Bend(i) < Bwrite(i) /\ Bwrite(i) <= step.bucket_start[LastBucket(t)]
    BY <1>5, ReachingCase
  <2>2. Bwrite(i) <= step.n /\ Bend(i) <= Bwrite(i)
    <3>1. step.bucket_start[LastBucket(t)] <= step.n /\ step.bucket_start[LastBucket(t)] \in Nat
      BY <1>1, StartsAscend
    <3> QED
      BY <1>1, <1>2, <2>1, <3>1
  <2>3. /\ Slice(Bend(i), Bwrite(i)) \in Seq(Values)
        /\ Len(Slice(Bend(i), Bwrite(i))) = Bwrite(i) - Bend(i)
    BY <1>1, <1>2, <2>2, SliceFacts
  <2>4. Excess(t, i) = Slice(Bend(i), Bwrite(i)) /\ InPlace(t, i) = Bend(i) - Align(Bstart(i))
    BY <1>5 DEF Excess, InPlace, ReachesOver
  <2> QED
    BY <1>2, <2>3, <2>4
<1>6. CASE ~HasOverflow(i) /\ ~HasSaved(t, i) /\ ~ReachesOver(t, i)
  <2>1. Excess(t, i) = << >> /\ InPlace(t, i) = InBlocks(i)
    BY <1>6 DEF Excess, InPlace
  <2>2. << >> \in Seq(Values) /\ Len(<< >>) = 0
    BY EmptySeq
  <2> QED
    BY <1>2, <2>1, <2>2
<1> QED
  BY <1>3, <1>4, <1>5, <1>6

LEMMA ItemsFacts ==
  ASSUME Shape, NEW t, NEW i, Writes(t, i)
  PROVE  /\ Items(t, i) \in Seq(Values)
         /\ Len(Items(t, i)) = Bsize(i) - InPlace(t, i) /\ Bsize(i) - InPlace(t, i) \in Nat
         /\ \A k \in 1 .. Len(Items(t, i)) :
              /\ Items(t, i)[k] \in Values
              /\ Items(t, i)[k] = IF k <= Len(Excess(t, i)) THEN Excess(t, i)[k] ELSE << i, InPlace(t, i) + k >>
<1> DEFINE d == InBlocks(i)
           l == InBuffers(i)
           m == InPlace(t, i)
           x == Excess(t, i)
           y == Numbers(i, d, l)
<1>1. /\ d \in Nat /\ l \in Nat /\ Bsize(i) = d + l /\ m \in Nat /\ i \in Nat
      /\ x \in Seq(Values) /\ m + Len(x) = d
  <2>1. step \in Steps /\ i \in 0 .. NumBuckets - 1 /\ i \in Nat
    BY NextBucket
  <2>2. /\ Bsize(i) = Bend(i) - Bstart(i) /\ Bend(i) = Bstart(i) + d + l /\ Bstart(i) \in Nat /\ Bend(i) \in Nat
        /\ d \in Nat /\ l \in Nat
    BY <2>1, BucketFacts
  <2>3. Bsize(i) = d + l
    BY <2>2
  <2> QED
    BY <2>1, <2>2, <2>3, InPlaceFacts, ExcessFacts
<1>2. y \in Seq(Values) /\ Len(y) = l /\ \A k \in 1 .. l : y[k] = << i, d + k >>
  BY <1>1, NumbersFacts
<1>3. Items(t, i) = x \o y
  BY BufferedFacts DEF Items
<1> HIDE DEF x, y, m, l, d
<1>4. Len(x) \in Nat
  BY <1>1, LenProperties
<1>5. /\ x \o y \in Seq(Values) /\ Len(x \o y) = Len(x) + l
      /\ \A k \in 1 .. Len(x) + l : (x \o y)[k] = IF k <= Len(x) THEN x[k] ELSE y[k - Len(x)]
  BY <1>1, <1>2, ConcatProperties
<1>6. Len(x) + l = Bsize(i) - m /\ Bsize(i) - m \in Nat
  BY <1>1, <1>4
<1>7. ASSUME NEW k \in 1 .. Len(x) + l
      PROVE  (x \o y)[k] = IF k <= Len(x) THEN x[k] ELSE << i, m + k >>
  <2>1. CASE k <= Len(x)
    BY <1>5, <2>1
  <2>2. CASE ~(k <= Len(x))
    <3>1. k - Len(x) \in 1 .. l /\ d + (k - Len(x)) = m + k
      BY <1>1, <1>4, <2>2
    <3>2. y[k - Len(x)] = << i, d + (k - Len(x)) >>
      BY <1>2, <3>1
    <3> QED
      BY <1>5, <2>2, <3>1, <3>2
  <2> QED
    BY <2>1, <2>2
<1>8. \A k \in 1 .. Len(x) + l : (x \o y)[k] \in Values
  BY <1>5, LenProperties
<1> QED
  BY <1>3, <1>5, <1>6, <1>7, <1>8 DEF x, m

(* The places are those of the bucket that are not filled yet.             *)
LEMMA PlaceFacts ==
  ASSUME Shape, NEW t, NEW i, Writes(t, i)
  PROVE  LET m == InPlace(t, i)
             a == Align(Bstart(i))
             c == Bsize(i) - m
         IN /\ \A k \in 1 .. c :
                 /\ Place(i, k) \in Segment(i)
                 /\ ~(a <= Place(i, k) /\ Place(i, k) < a + m)
                 /\ \A j \in 1 .. c : Place(i, j) = Place(i, k) => j = k
            /\ \A p \in Segment(i) :
                 \/ a <= p /\ p < a + m
                 \/ \E k \in 1 .. c : Place(i, k) = p
<1> DEFINE s == Bstart(i)
           e == Bend(i)
           a == Align(Bstart(i))
           m == InPlace(t, i)
           r == Room(i)
           c == Bsize(i) - m
<1>1. /\ s \in Nat /\ e \in Nat /\ a \in Nat /\ m \in Nat /\ r = a - s /\ r \in Nat /\ c = e - s - m /\ c \in Nat
      /\ (a + m <= e \/ (m = 0 /\ e < a)) /\ s <= e
  <2>1. step \in Steps /\ i \in 0 .. NumBuckets - 1
    BY NextBucket
  <2>2. s \in Nat /\ e \in Nat /\ a \in Nat /\ r = a - s /\ r \in Nat /\ Bsize(i) = e - s /\ s <= e
    BY <2>1, BucketFacts, BucketsAscend
  <2> QED
    BY <2>2, InPlaceFacts, ItemsFacts
<1>2. ASSUME NEW k \in 1 .. c
      PROVE  Place(i, k) = IF k <= r THEN s + k - 1 ELSE a + m + k - r - 1
  <2>1. CASE k <= r
    BY <2>1 DEF Place
  <2>2. CASE ~(k <= r)
    <3>1. ~(HasSaved(t, i) \/ ReachesOver(t, i))
      <4> SUFFICES ASSUME HasSaved(t, i) \/ ReachesOver(t, i) PROVE FALSE
        OBVIOUS
      <4>1. a + m = e
        BY InPlaceFacts
      <4>2. c \in Nat /\ k \in 1 .. c /\ ~(k <= r)
        BY <1>1, <2>2
      <4> HIDE DEF s, e, a, m, r, c
      <4> QED
        BY <1>1, <4>1, <4>2
    <3>2. TailStart(i) = a + m
      BY <3>1, InPlaceFacts
    <3> QED
      BY <2>2, <3>2 DEF Place
  <2> QED
    BY <2>1, <2>2
<1>3. Segment(i) = s .. e - 1
  BY DEF Segment
<1> HIDE DEF s, e, a, m, r, c
<1>4. ASSUME NEW k \in 1 .. c
      PROVE  /\ Place(i, k) \in Segment(i)
             /\ ~(a <= Place(i, k) /\ Place(i, k) < a + m)
             /\ \A j \in 1 .. c : Place(i, j) = Place(i, k) => j = k
  <2> DEFINE x == Place(i, k)
  <2>1. x = IF k <= r THEN s + k - 1 ELSE a + m + k - r - 1
    BY <1>2
  <2> HIDE DEF x
  <2>2. x \in s .. e - 1 /\ ~(a <= x /\ x < a + m) /\ (k <= r <=> x < a)
    BY <1>1, <2>1
  <2>3. ASSUME NEW j \in 1 .. c, Place(i, j) = x PROVE j = k
    <3>1. x = IF j <= r THEN s + j - 1 ELSE a + m + j - r - 1
      BY <1>2, <2>3
    <3> QED
      BY <1>1, <2>1, <3>1
  <2> QED
    BY <1>3, <2>2, <2>3 DEF x
<1>5. ASSUME NEW p \in Segment(i), ~(a <= p /\ p < a + m)
      PROVE  \E k \in 1 .. c : Place(i, k) = p
  <2>1. p \in s .. e - 1
    BY <1>3
  <2>2. CASE p < a
    <3>1. p - s + 1 \in 1 .. c /\ p - s + 1 <= r /\ s + (p - s + 1) - 1 = p
      BY <1>1, <2>1, <2>2
    <3>2. Place(i, p - s + 1) = p
      BY <1>2, <3>1
    <3> QED
      BY <3>1, <3>2
  <2>3. CASE ~(p < a)
    <3> DEFINE k == p - a - m + r + 1
    <3>1. k \in 1 .. c /\ ~(k <= r) /\ a + m + k - r - 1 = p
      BY <1>1, <1>5, <2>1, <2>3
    <3> HIDE DEF k
    <3>2. Place(i, k) = p
      BY <1>2, <3>1
    <3> QED
      BY <3>1, <3>2
  <2> QED
    BY <2>2, <2>3
<1> QED
  BY <1>4, <1>5 DEF a, m, c

-----------------------------------------------------------------------------
(* The invariant holds initially, and when a margin is saved.              *)
LEMMA InitShape ==
  ASSUME Init
  PROVE  Shape
<1>1. /\ step \in Steps /\ step.n \in Nat /\ NumBuckets \in Nat \ {0} /\ DOMAIN step.blocks = 0 .. NumBuckets - 1
      /\ step.threads \in Nat \ {0}
  BY StepFacts DEF Init
<1>2. \A i \in 0 .. NumBuckets - 1 : Align(Bstart(i)) \in Nat
  BY <1>1, BucketFacts
<1>3. arr \in [0 .. step.n - 1 -> Values]
  <2> DEFINE In(i, p) == Align(Bstart(i)) <= p /\ p < Bwrite(i)
             E(p) == IF \E i \in DOMAIN step.blocks : Align(Bstart(i)) <= p /\ p < Bwrite(i) /\ p < MaxOff
                       THEN LET i == CHOOSE i \in DOMAIN step.blocks : In(i, p)
                            IN << i, p - Align(Bstart(i)) + 1 >>
                       ELSE Junk
  <2>1. arr = [p \in 0 .. step.n - 1 |-> E(p)]
    BY DEF Init
  <2>2. ASSUME NEW p \in 0 .. step.n - 1 PROVE E(p) \in Values
    <3>1. CASE \E i \in DOMAIN step.blocks : Align(Bstart(i)) <= p /\ p < Bwrite(i) /\ p < MaxOff
      <4> DEFINE i == CHOOSE i \in DOMAIN step.blocks : In(i, p)
      <4>1. i \in DOMAIN step.blocks /\ Align(Bstart(i)) <= p
        <5>1. \E j \in DOMAIN step.blocks : In(j, p)
          BY <3>1
        <5>2. i \in DOMAIN step.blocks /\ In(i, p)
          BY <5>1, Zenon
        <5> QED
          BY <5>2
      <4>2. E(p) = << i, p - Align(Bstart(i)) + 1 >>
        BY <3>1
      <4> HIDE DEF i, E
      <4>3. i \in Nat /\ p - Align(Bstart(i)) + 1 \in Nat
        BY <1>1, <1>2, <4>1
      <4> QED
        BY <4>2, <4>3 DEF Values
    <3>2. CASE ~\E i \in DOMAIN step.blocks : Align(Bstart(i)) <= p /\ p < Bwrite(i) /\ p < MaxOff
      <4>1. E(p) = Junk
        BY <3>2, Zenon
      <4> QED
        BY <4>1 DEF Values
    <3> QED
      BY <3>1, <3>2
  <2> HIDE DEF E
  <2> QED
    BY <2>1, <2>2
<1>4. \A t \in Threads : next[t] = FirstBucket(t) /\ saved[t] = -1 /\ swap[t] = << >> /\ touched[t] = {}
  BY DEF Init
<1>5. \A t \in Threads : FirstBucket(t) \in 0 .. NumBuckets /\ LastBucket(t) \in 0 .. NumBuckets
                         /\ FirstBucket(t) <= LastBucket(t)
  BY <1>1, Ranges
<1>6. TypeOK
  <2>1. swap \in [Threads -> Seq(Values)]
    BY EmptySeq DEF Init
  <2>2. next \in [Threads -> Nat]
    <3>1. next = [t \in Threads |-> FirstBucket(t)]
      BY DEF Init
    <3>2. \A t \in Threads : FirstBucket(t) \in Nat
      BY <1>5
    <3> QED
      BY <3>1, <3>2
  <2>3. saved \in [Threads -> Int] /\ pc \in [Threads -> {"save", "write"}] /\ touched \in [Threads -> SUBSET Int]
    BY DEF Init
  <2>4. DOMAIN buffers = Threads /\ \A t \in Threads : DOMAIN buffers[t] = DOMAIN step.blocks
    BY DEF Init
  <2> QED
    BY <1>1, <1>3, <2>1, <2>2, <2>3, <2>4 DEF TypeOK
<1>7. Progress
  <2>1. \A t \in Threads : FirstBucket(t) <= next[t] /\ next[t] <= LastBucket(t)
    BY <1>4, <1>5
  <2>2. ASSUME NEW t \in Threads PROVE saved[t] = IF pc[t] = "write" THEN SavedMargin(LastBucket(t)) ELSE -1
    <3>1. CASE pc[t] = "write"
      <4>1. step.threads = 1
        <5>1. ~(step.threads > 1)
          <6>1. pc[t] = IF step.threads > 1 THEN "save" ELSE "write"
            BY DEF Init, IsParallel
          <6> QED
            BY <3>1, <6>1
        <5> QED
          BY <1>1, <5>1
      <4>2. t = 0 /\ SavedMargin(LastBucket(0)) = -1
        BY <1>1, <4>1, SequentialSavesNothing
      <4> QED
        BY <1>4, <3>1, <4>2
    <3>2. CASE pc[t] # "write"
      BY <1>4, <3>2
    <3> QED
      BY <3>1, <3>2
  <2> QED
    BY <1>4, <2>1, <2>2 DEF Progress
<1>8. Waiting
  <2>1. overflow # << >> => Over # {}
    BY DEF Init
  <2>2. ASSUME NEW i \in Over
        PROVE  overflow = Numbers(i, InBlocks(i) - BlockSize, BlockSize)
    <3>1. \A j \in Over : j = i
      BY <1>1, OverFacts
    <3>2. (CHOOSE j \in Over : TRUE) = i
      BY <3>1
    <3>3. overflow = Numbers(i, (step.blocks[i] - 1) * BlockSize, BlockSize)
      BY <3>2 DEF Init
    <3>4. (step.blocks[i] - 1) * BlockSize = InBlocks(i) - BlockSize
      <4>1. step.blocks[i] \in Nat /\ BlockSize \in Nat
        BY <1>1, OverBlock, StepFacts, MultipleFacts
      <4> DEFINE x == step.blocks[i]
                 y == BlockSize
      <4>2. x \in Nat /\ y \in Nat
        BY <4>1
      <4> HIDE DEF x, y
      <4>3. (x - 1) * y = x * y - y
        BY <4>2, SMT
      <4> QED
        BY <4>3 DEF x, y, InBlocks
    <3> QED
      BY <3>3, <3>4
  <2>3. ASSUME NEW t \in Threads PROVE saved[t] \notin Unwritten(t)
    BY <1>4, <1>5 DEF Unwritten
  <2>4. ASSUME NEW t \in Threads, NEW u \in Threads, NEW i \in Unwritten(t)
        PROVE  buffers[u][i] = Numbers(i, InBlocks(i) + step.left[u][i], step.left[u + 1][i] - step.left[u][i])
    <3>1. i \in DOMAIN step.blocks
      BY <1>1, <1>4, <1>5 DEF Unwritten
    <3>2. buffers[u] = [j \in DOMAIN step.blocks |->
             Numbers(j, step.blocks[j] * BlockSize + step.left[u][j], step.left[u + 1][j] - step.left[u][j])]
      BY DEF Init
    <3> QED
      BY <3>1, <3>2 DEF InBlocks
  <2>5. ASSUME NEW t \in Threads, NEW i \in Written(t) PROVE FALSE
    BY <1>4, <1>5, <2>5 DEF Written
  <2> QED
    BY <2>1, <2>2, <2>3, <2>4, <2>5 DEF Waiting
<1>9. OwnPlaces
  BY <1>4 DEF OwnPlaces
<1> QED
  BY <1>6, <1>7, <1>8, <1>9 DEF Shape

(* A place among the blocks of a bucket is not among those of another one. *)
LEMMA AreaOfOne ==
  ASSUME step \in Steps, NEW i \in 0 .. NumBuckets - 1, NEW j \in 0 .. NumBuckets - 1, NEW p \in Int,
         Align(Bstart(i)) <= p, p < Bwrite(i), Align(Bstart(j)) <= p, p < Bwrite(j)
  PROVE  i = j
<1>1. /\ Align(Bstart(i)) \in Nat /\ Bwrite(i) \in Nat /\ Align(Bstart(j)) \in Nat /\ Bwrite(j) \in Nat
  BY BucketFacts
<1>2. i < j => Bwrite(i) <= Align(Bstart(j))
  BY AreasApart
<1>3. j < i => Bwrite(j) <= Align(Bstart(i))
  BY AreasApart
<1>4. NumBuckets \in Nat
  BY StepFacts
<1> QED
  BY <1>1, <1>2, <1>3, <1>4

LEMMA InitContents ==
  ASSUME Init, Shape
  PROVE  Contents
<1>1. /\ step \in Steps /\ step.n \in Nat /\ NumBuckets \in Nat \ {0} /\ DOMAIN step.blocks = 0 .. NumBuckets - 1
  BY StepFacts DEF Init
<1>2. \A t \in Threads : next[t] = FirstBucket(t) /\ saved[t] = -1
  BY DEF Init
<1>3. \A t \in Threads : FirstBucket(t) \in 0 .. NumBuckets /\ LastBucket(t) \in 0 .. NumBuckets
                         /\ FirstBucket(t) <= LastBucket(t)
  BY <1>1, Ranges
<1>4. ASSUME NEW t \in Threads, NEW i \in Unwritten(t), NEW p \in Align(Bstart(i)) .. Bwrite(i) - 1, p < MaxOff
      PROVE  arr[p] = << i, p - Align(Bstart(i)) + 1 >>
  <2>1. i \in 0 .. NumBuckets - 1 /\ i \in DOMAIN step.blocks
    BY <1>1, <1>2, <1>3 DEF Unwritten
  <2>2. Align(Bstart(i)) \in Nat /\ Bwrite(i) \in Nat /\ MaxOff \in Nat /\ MaxOff <= step.n
    BY <1>1, <2>1, BucketFacts, MaxOffFacts
  <2>3. p \in 0 .. step.n - 1 /\ Align(Bstart(i)) <= p /\ p < Bwrite(i) /\ p \in Int
    BY <1>1, <1>4, <2>2
  <2> DEFINE In(j) == Align(Bstart(j)) <= p /\ p < Bwrite(j)
  <2>4. \A j \in DOMAIN step.blocks : In(j) => j = i
    BY <1>1, <2>1, <2>3, AreaOfOne
  <2>5. (CHOOSE j \in DOMAIN step.blocks : In(j)) = i
    <3>1. In(i)
      BY <2>3
    <3> HIDE DEF In
    <3> QED
      BY <2>1, <2>4, <3>1
  <2>6. arr[p] = IF \E j \in DOMAIN step.blocks : Align(Bstart(j)) <= p /\ p < Bwrite(j) /\ p < MaxOff
                   THEN LET j == CHOOSE j \in DOMAIN step.blocks : In(j)
                        IN << j, p - Align(Bstart(j)) + 1 >>
                   ELSE Junk
    BY <2>3 DEF Init
  <2>7. \E j \in DOMAIN step.blocks : Align(Bstart(j)) <= p /\ p < Bwrite(j) /\ p < MaxOff
    BY <1>4, <2>1, <2>3
  <2> QED
    BY <2>5, <2>6, <2>7
<1>5. ASSUME NEW t \in Threads PROVE saved[t] \notin Unwritten(t)
  BY <1>2, <1>3 DEF Unwritten
<1>6. ASSUME NEW t \in Threads, NEW i \in Written(t) PROVE FALSE
  BY <1>2, <1>3, <1>6 DEF Written
<1> QED
  BY <1>4, <1>5, <1>6 DEF Contents

LEMMA MovedFacts ==
  ASSUME arr \in [0 .. step.n - 1 -> Values], NEW x, NEW y
  PROVE  /\ MovedFrom(x, y) \in [0 .. step.n - 1 -> Values]
         /\ \A p \in 0 .. step.n - 1 :
              MovedFrom(x, y)[p] = IF ~Trivial /\ x <= p /\ p < y THEN Junk ELSE arr[p]
<1>1. Junk \in Values /\ \A p \in 0 .. step.n - 1 : arr[p] \in Values
  BY DEF Values
<1>2. MovedFrom(x, y) = [p \in 0 .. step.n - 1 |-> IF ~Trivial /\ x <= p /\ p < y THEN Junk ELSE arr[p]]
  BY DEF MovedFrom
<1> QED
  BY <1>1, <1>2

(* What SaveMargins does when there is a margin to save.                   *)
LEMMA SaveFacts ==
  ASSUME Shape, NEW t \in Threads, SaveMargins(t), SavedMargin(LastBucket(t)) # -1
  PROVE  LET b   == SavedMargin(LastBucket(t))
             end == Bwrite(b)
         IN /\ b \in 0 .. NumBuckets - 1 /\ InBlocks(b) > 0 /\ end = SavedEnd(t)
            /\ Bend(b) \in Nat /\ end \in Nat /\ Bend(b) < end /\ end <= step.n /\ end <= MaxOff
            /\ Align(Bstart(b)) \in Nat /\ Align(Bstart(b)) < Bend(b)
            /\ swap' = [swap EXCEPT ![t] = Slice(Bend(b), end)]
            /\ arr' = MovedFrom(Bend(b), end) /\ saved' = [saved EXCEPT ![t] = b]
            /\ Slice(Bend(b), end) \in Seq(Values) /\ Len(Slice(Bend(b), end)) = end - Bend(b)
            /\ \A k \in 1 .. end - Bend(b) : Slice(Bend(b), end)[k] = arr[Bend(b) + k - 1]
<1> DEFINE b == SavedMargin(LastBucket(t))
<1>1. step \in Steps /\ step.n \in Nat /\ LastBucket(t) \in 0 .. NumBuckets /\ arr \in [0 .. step.n - 1 -> Values]
  BY StepFacts, Ranges DEF Shape, TypeOK
<1>2. /\ b \in 0 .. NumBuckets - 1 /\ InBlocks(b) > 0 /\ Bwrite(b) = SavedEnd(t)
      /\ Bend(b) < Bwrite(b) /\ Bwrite(b) <= step.n /\ Bwrite(b) <= MaxOff
  BY <1>1, MarginFacts DEF SavedEnd
<1>3. /\ Bend(b) \in Nat /\ Bwrite(b) \in Nat /\ Align(Bstart(b)) \in Nat /\ Align(Bstart(b)) < Bend(b)
  BY <1>1, <1>2, BucketFacts, BlocksEnd
<1>4. /\ swap' = [swap EXCEPT ![t] = Slice(Bend(b), SavedEnd(t))]
      /\ arr' = MovedFrom(Bend(b), SavedEnd(t)) /\ saved' = [saved EXCEPT ![t] = b]
  BY DEF SaveMargins, SavedEnd
<1>5. /\ Slice(Bend(b), Bwrite(b)) \in Seq(Values) /\ Len(Slice(Bend(b), Bwrite(b))) = Bwrite(b) - Bend(b)
      /\ \A k \in 1 .. Bwrite(b) - Bend(b) : Slice(Bend(b), Bwrite(b))[k] = arr[Bend(b) + k - 1]
  <2>1. Bend(b) <= Bwrite(b)
    BY <1>2, <1>3
  <2> QED
    BY <1>1, <1>2, <1>3, <2>1, SliceFacts
<1> HIDE DEF b
<1> QED
  BY <1>2, <1>3, <1>4, <1>5 DEF b

LEMMA SaveShape ==
  ASSUME Shape, NEW t \in Threads, SaveMargins(t)
  PROVE  Shape'
<1> DEFINE b == SavedMargin(LastBucket(t))
<1>1. /\ step \in Steps /\ LastBucket(t) \in 0 .. NumBuckets /\ arr \in [0 .. step.n - 1 -> Values]
      /\ swap \in [Threads -> Seq(Values)] /\ saved \in [Threads -> Int] /\ pc \in [Threads -> {"save", "write"}]
  BY Ranges DEF Shape, TypeOK
<1>2. /\ pc[t] = "save" /\ pc' = [pc EXCEPT ![t] = "write"]
      /\ UNCHANGED << step, overflow, buffers, next, touched >>
  BY DEF SaveMargins
<1>3. saved[t] = -1
  BY <1>2 DEF Shape, Progress
<1>4. b = -1 => UNCHANGED << arr, swap, saved >>
  BY DEF SaveMargins
<1>5. saved' = [saved EXCEPT ![t] = b]
  <2>1. CASE b = -1
    BY <1>1, <1>3, <1>4, <2>1
  <2>2. CASE b # -1
    BY <2>2, SaveFacts
  <2> QED
    BY <2>1, <2>2
<1>a. saved' \in [Threads -> Int]
  BY <1>1, <1>5, MarginIsBucket
<1>6. arr' \in [0 .. step.n - 1 -> Values] /\ swap' \in [Threads -> Seq(Values)]
  <2>1. CASE b = -1
    BY <1>1, <1>4, <2>1
  <2>2. CASE b # -1
    <3>1. arr' = MovedFrom(Bend(b), Bwrite(b)) /\ swap' = [swap EXCEPT ![t] = Slice(Bend(b), Bwrite(b))]
          /\ Slice(Bend(b), Bwrite(b)) \in Seq(Values)
      BY <2>2, SaveFacts
    <3>2. arr' \in [0 .. step.n - 1 -> Values]
      BY <1>1, <3>1, MovedFacts
    <3> QED
      BY <1>1, <3>1, <3>2
  <2> QED
    BY <2>1, <2>2
<1>7. Threads' = Threads /\ NumBuckets' = NumBuckets /\ Over' = Over
  BY <1>2 DEF Threads, NumBuckets, Over, Bwrite, Bstart, MaxOff
<1>8. \A u : /\ FirstBucket(u)' = FirstBucket(u) /\ LastBucket(u)' = LastBucket(u) /\ SavedEnd(u)' = SavedEnd(u)
             /\ Unwritten(u)' = Unwritten(u) /\ Written(u)' = Written(u)
  BY <1>2 DEF FirstBucket, LastBucket, AtMostAll, BucketsPerThread, NumBuckets, SavedEnd, Unwritten, Written
<1>9. \A i : Bend(i)' = Bend(i) /\ InBlocks(i)' = InBlocks(i)
  BY <1>2 DEF Bend, InBlocks
<1>10. \A k : SavedMargin(k)' = SavedMargin(k)
  BY <1>2 DEF SavedMargin, LastBlockBucket, Bwrite, Bstart
<1>11. TypeOK'
  BY <1>1, <1>2, <1>6, <1>7, <1>a DEF Shape, TypeOK
<1>12. Progress'
  <2>1. ASSUME NEW u \in Threads
        PROVE  saved'[u] = IF pc'[u] = "write" THEN SavedMargin(LastBucket(u)) ELSE -1
    BY <1>1, <1>2, <1>5 DEF Shape, Progress
  <2>2. \A u \in Threads : FirstBucket(u) <= next[u] /\ next[u] <= LastBucket(u)
    BY DEF Shape, Progress
  <2>3. \A u \in Threads : next[u] = FirstBucket(u)
    BY <1>2 DEF Shape, Progress
  <2> QED
    BY <1>2, <1>7, <1>8, <1>10, <2>1, <2>2, <2>3 DEF Progress
<1>13. Waiting'
  <2>1. ASSUME NEW u \in Threads, saved'[u] \in Unwritten(u)
        PROVE  Len(swap'[u]) = SavedEnd(u) - Bend(saved'[u])
    <3>1. CASE u = t /\ b # -1
      <4>1. saved'[u] = b /\ swap'[u] = Slice(Bend(b), Bwrite(b)) /\ Bwrite(b) = SavedEnd(t)
            /\ Len(Slice(Bend(b), Bwrite(b))) = Bwrite(b) - Bend(b)
        BY <1>1, <3>1, SaveFacts
      <4> QED
        BY <3>1, <4>1
    <3>2. CASE u = t /\ b = -1
      BY <1>4, <2>1, <3>2 DEF Shape, Waiting
    <3>3. CASE u # t
      <4>1. saved'[u] = saved[u]
        BY <1>5, <3>3
      <4>2. swap'[u] = swap[u]
        <5>1. CASE b = -1
          BY <1>4, <5>1
        <5>2. CASE b # -1
          BY <1>1, <3>3, <5>2, SaveFacts
        <5> QED
          BY <5>1, <5>2
      <4> QED
        BY <2>1, <4>1, <4>2 DEF Shape, Waiting
    <3> QED
      BY <3>1, <3>2, <3>3
  <2> QED
    BY <1>2, <1>7, <1>8, <1>9, <2>1 DEF Shape, Waiting
<1>14. OwnPlaces'
  BY <1>2, <1>7, <1>8 DEF Shape, OwnPlaces
<1> QED
  BY <1>11, <1>12, <1>13, <1>14 DEF Shape

(* Another thread that saves the margin of a bucket than the bucket's own  *)
(* saves it a second time.                                                 *)
LEMMA SavedByOwner ==
  ASSUME Shape, NEW t \in Threads, NEW u \in Threads, NEW b \in FirstBucket(u) .. LastBucket(u) - 1,
         SavedMargin(LastBucket(t)) = b
  PROVE  SavedMargin(LastBucket(u)) = b
<1>1. /\ step \in Steps /\ b \in 0 .. NumBuckets - 1 /\ b \in 0 .. LastBucket(u) - 1 /\ b \in Nat
      /\ LastBucket(u) \in 0 .. NumBuckets
  BY OwnBucket DEF Shape, TypeOK
<1>2. /\ \A v \in Threads : /\ FirstBucket(v) \in 0 .. NumBuckets /\ LastBucket(v) \in 0 .. NumBuckets
                            /\ FirstBucket(v) <= LastBucket(v) /\ v \in Nat
      /\ \A v, w \in Threads : v < w => LastBucket(v) <= FirstBucket(w)
  BY <1>1, Ranges
<1>3. /\ b \in 0 .. LastBucket(t) - 1 /\ InBlocks(b) > 0 /\ Bwrite(b) <= step.n
      /\ step.bucket_start[LastBucket(t)] < Bwrite(b)
  BY <1>1, <1>2, MarginFacts
<1>4. LastBucket(u) <= LastBucket(t)
  <2>1. CASE u = t
    BY <1>2, <2>1
  <2>2. CASE u < t
    <3>1. LastBucket(u) <= FirstBucket(t) /\ FirstBucket(t) <= LastBucket(t)
      BY <1>2, <2>2
    <3>2. FirstBucket(t) \in 0 .. NumBuckets /\ LastBucket(t) \in 0 .. NumBuckets
      BY <1>2
    <3> QED
      BY <1>1, <3>1, <3>2
  <2>3. CASE t < u
    <3>1. LastBucket(t) <= FirstBucket(u)
      BY <1>2, <2>3
    <3>2. FirstBucket(u) \in 0 .. NumBuckets /\ LastBucket(t) \in 0 .. NumBuckets /\ NumBuckets \in Nat
      BY <1>1, <1>2, StepFacts
    <3> QED
      BY <1>1, <1>3, <3>1, <3>2
  <2> QED
    BY <1>2, <2>1, <2>2, <2>3
<1>5. step.bucket_start[LastBucket(u)] <= step.bucket_start[LastBucket(t)]
      /\ step.bucket_start[LastBucket(u)] \in Nat /\ step.bucket_start[LastBucket(t)] \in Nat
  BY <1>1, <1>2, <1>4, StartsAscend
<1>6. step.bucket_start[LastBucket(u)] < Bwrite(b)
  <2>1. Bwrite(b) \in Nat
    BY <1>1, BucketFacts
  <2> QED
    BY <1>3, <1>5, <2>1
<1> QED
  BY <1>1, <1>3, <1>6, MarginSaved

LEMMA SaveContents ==
  ASSUME Shape, Contents, Trivial \/ SavedOnce, NEW t \in Threads, SaveMargins(t)
  PROVE  Contents'
<1> DEFINE b == SavedMargin(LastBucket(t))
<1>1. /\ step \in Steps /\ arr \in [0 .. step.n - 1 -> Values] /\ NumBuckets \in Nat /\ step.n \in Nat
      /\ swap \in [Threads -> Seq(Values)] /\ saved \in [Threads -> Int]
  BY StepFacts DEF Shape, TypeOK
<1>2. pc[t] = "save" /\ UNCHANGED << step, overflow, buffers, next, touched >>
  BY DEF SaveMargins
<1>3. saved[t] = -1 /\ \A u \in Threads : next[u] = FirstBucket(u)
  BY <1>2 DEF Shape, Progress
<1>4. b = -1 => UNCHANGED << arr, swap, saved >>
  BY DEF SaveMargins
<1>5. Threads' = Threads /\ MaxOff' = MaxOff
  BY <1>2 DEF Threads, MaxOff
<1>6. \A u : /\ FirstBucket(u)' = FirstBucket(u) /\ LastBucket(u)' = LastBucket(u)
             /\ Unwritten(u)' = Unwritten(u) /\ Written(u)' = Written(u)
  BY <1>2 DEF FirstBucket, LastBucket, AtMostAll, BucketsPerThread, NumBuckets, Unwritten, Written
<1>7. \A i : Bend(i)' = Bend(i) /\ Bstart(i)' = Bstart(i) /\ Bwrite(i)' = Bwrite(i) /\ Align(Bstart(i))' = Align(Bstart(i))
  BY <1>2 DEF Bend, Bstart, Bwrite, Align
<1>8. \A u \in Threads : /\ FirstBucket(u) \in 0 .. NumBuckets /\ LastBucket(u) \in 0 .. NumBuckets
                         /\ Unwritten(u) = FirstBucket(u) .. LastBucket(u) - 1
  BY <1>1, <1>3, Ranges DEF Unwritten
<1>9. ASSUME NEW u \in Threads, NEW i \in Unwritten(u), NEW p \in Align(Bstart(i)) .. Bwrite(i) - 1,
             p < MaxOff, p < Bend(i) \/ saved'[u] # i
      PROVE  arr'[p] = << i, p - Align(Bstart(i)) + 1 >>
  <2>1. i \in 0 .. NumBuckets - 1 /\ i \in FirstBucket(u) .. LastBucket(u) - 1 /\ i \in Nat
    <3> DEFINE lo == FirstBucket(u)
               hi == LastBucket(u)
    <3>1. lo \in 0 .. NumBuckets /\ hi \in 0 .. NumBuckets /\ i \in lo .. hi - 1 /\ NumBuckets \in Nat
      BY <1>8, StepFacts, <1>1
    <3> HIDE DEF lo, hi
    <3>2. i \in 0 .. NumBuckets - 1 /\ i \in Nat
      BY ONLY <3>1
    <3> QED
      BY <3>1, <3>2 DEF lo, hi
  <2>2. Align(Bstart(i)) \in Nat /\ Bwrite(i) \in Nat /\ Bend(i) \in Nat /\ MaxOff \in Nat /\ MaxOff <= step.n
    BY <1>1, <2>1, BucketFacts, MaxOffFacts
  <2>3. p \in 0 .. step.n - 1 /\ p \in Int /\ Align(Bstart(i)) <= p /\ p < Bwrite(i)
    BY <1>1, <1>9, <2>2
  <2>4. p < Bend(i) \/ saved[u] # i
    <3>1. CASE u = t
      BY <1>3, <2>1, <3>1
    <3>2. CASE u # t
      <4>1. saved'[u] = saved[u]
        <5>1. CASE b = -1
          BY <1>4, <5>1
        <5>2. CASE b # -1
          BY <1>1, <3>2, <5>2, SaveFacts
        <5> QED
          BY <5>1, <5>2
      <4> QED
        BY <1>9, <4>1
    <3> QED
      BY <3>1, <3>2
  <2>5. arr[p] = << i, p - Align(Bstart(i)) + 1 >>
    BY <1>9, <2>4 DEF Contents
  <2>6. arr'[p] = arr[p]
    <3>1. CASE b = -1
      BY <1>4, <3>1
    <3>2. CASE b # -1
      <4>1. /\ b \in 0 .. NumBuckets - 1 /\ Bend(b) \in Nat /\ Align(Bstart(b)) \in Nat
            /\ Align(Bstart(b)) < Bend(b) /\ arr' = MovedFrom(Bend(b), Bwrite(b))
            /\ saved' = [saved EXCEPT ![t] = b]
        BY <3>2, SaveFacts
      <4> HIDE DEF b
      <4>2. arr'[p] = IF ~Trivial /\ Bend(b) <= p /\ p < Bwrite(b) THEN Junk ELSE arr[p]
        BY <1>1, <2>3, <4>1, MovedFacts
      <4>3. ASSUME ~Trivial, Bend(b) <= p, p < Bwrite(b) PROVE FALSE
        <5>1. i = b
          <6>1. Align(Bstart(b)) <= p
            BY <2>3, <4>1, <4>3
          <6> QED
            BY <1>1, <2>1, <2>3, <4>1, <4>3, <6>1, AreaOfOne
        <5>2. saved'[u] # b
          BY <1>9, <2>2, <2>3, <4>3, <5>1
        <5>3. u # t
          BY <1>1, <4>1, <5>2
        <5>4. SavedMargin(LastBucket(t)) = b
          BY DEF b
        <5>5. SavedMargin(LastBucket(u)) = b
          BY <2>1, <5>1, <5>4, SavedByOwner
        <5>6. SavedOnce
          BY <4>3
        <5> QED
          BY <3>2, <5>3, <5>4, <5>5, <5>6 DEF SavedOnce
      <4> QED
        BY <4>2, <4>3
    <3> QED
      BY <3>1, <3>2
  <2> QED
    BY <2>5, <2>6
<1>10. ASSUME NEW u \in Threads, saved'[u] \in Unwritten(u), NEW k \in 1 .. Len(swap'[u])
       PROVE  swap'[u][k] = << saved'[u], Bend(saved'[u]) - Align(Bstart(saved'[u])) + k >>
  <2>1. CASE u = t /\ b # -1
    <3>1. /\ b \in 0 .. NumBuckets - 1 /\ Bend(b) \in Nat /\ Bwrite(b) \in Nat /\ Align(Bstart(b)) \in Nat
          /\ Align(Bstart(b)) < Bend(b) /\ Bend(b) < Bwrite(b) /\ Bwrite(b) <= MaxOff
          /\ saved' = [saved EXCEPT ![t] = b] /\ swap' = [swap EXCEPT ![t] = Slice(Bend(b), Bwrite(b))]
          /\ Len(Slice(Bend(b), Bwrite(b))) = Bwrite(b) - Bend(b)
          /\ \A j \in 1 .. Bwrite(b) - Bend(b) : Slice(Bend(b), Bwrite(b))[j] = arr[Bend(b) + j - 1]
      BY <2>1, SaveFacts
    <3> HIDE DEF b
    <3>2. saved'[u] = b /\ swap'[u] = Slice(Bend(b), Bwrite(b))
      BY <1>1, <2>1, <3>1
    <3>3. k \in 1 .. Bwrite(b) - Bend(b) /\ swap'[u][k] = arr[Bend(b) + k - 1]
      BY <1>10, <3>1, <3>2
    <3> DEFINE p == Bend(b) + k - 1
    <3>4. p \in Align(Bstart(b)) .. Bwrite(b) - 1 /\ p < MaxOff /\ b # -1
      <4>1. MaxOff \in Nat
        BY <1>1, MaxOffFacts
      <4> QED
        BY <3>1, <3>3, <4>1
    <3>5. p - Align(Bstart(b)) + 1 = Bend(b) - Align(Bstart(b)) + k
      BY <3>1, <3>3
    <3> HIDE DEF p
    <3>6. b \in Unwritten(t) /\ saved[t] # b
      BY <1>3, <1>10, <2>1, <3>2, <3>4
    <3>7. arr[p] = << b, p - Align(Bstart(b)) + 1 >>
      BY <3>4, <3>6 DEF Contents
    <3> QED
      BY <3>2, <3>3, <3>5, <3>7 DEF p
  <2>2. CASE ~(u = t /\ b # -1)
    <3>1. saved'[u] = saved[u] /\ swap'[u] = swap[u]
      <4>1. CASE b = -1
        BY <1>4, <4>1
      <4>2. CASE b # -1
        BY <1>1, <2>2, <4>2, SaveFacts
      <4> QED
        BY <4>1, <4>2
    <3>2. saved[u] \in Unwritten(u) /\ k \in 1 .. Len(swap[u])
      BY <1>10, <3>1
    <3>3. swap[u][k] = << saved[u], Bend(saved[u]) - Align(Bstart(saved[u])) + k >>
      BY <3>2 DEF Contents
    <3> QED
      BY <3>1, <3>3
  <2> QED
    BY <2>1, <2>2
<1>11. ASSUME NEW u \in Threads, NEW i \in Written(u) PROVE FALSE
  BY <1>3, <1>8, <1>11 DEF Written
<1> QED
  BY <1>5, <1>6, <1>7, <1>9, <1>10, <1>11 DEF Contents

-----------------------------------------------------------------------------
(* What writing a bucket changes.                                          *)
LEMMA StepSame ==
  ASSUME step' = step
  PROVE  /\ Threads' = Threads /\ NumBuckets' = NumBuckets /\ Over' = Over /\ MaxOff' = MaxOff
         /\ \A u : /\ FirstBucket(u)' = FirstBucket(u) /\ LastBucket(u)' = LastBucket(u)
                   /\ SavedEnd(u)' = SavedEnd(u)
         /\ \A j : /\ Bend(j)' = Bend(j) /\ Bstart(j)' = Bstart(j) /\ Bwrite(j)' = Bwrite(j)
                   /\ Align(Bstart(j))' = Align(Bstart(j)) /\ InBlocks(j)' = InBlocks(j)
                   /\ Segment(j)' = Segment(j) /\ Elements(j)' = Elements(j)
         /\ \A k : SavedMargin(k)' = SavedMargin(k)
<1>1. Threads' = Threads /\ NumBuckets' = NumBuckets /\ Over' = Over /\ MaxOff' = MaxOff
  BY DEF Threads, NumBuckets, Over, Bwrite, Bstart, MaxOff
<1>2. \A u : /\ FirstBucket(u)' = FirstBucket(u) /\ LastBucket(u)' = LastBucket(u)
             /\ SavedEnd(u)' = SavedEnd(u)
  BY DEF FirstBucket, LastBucket, AtMostAll, BucketsPerThread, NumBuckets, SavedEnd
<1>3. \A j : /\ Bend(j)' = Bend(j) /\ Bstart(j)' = Bstart(j) /\ Bwrite(j)' = Bwrite(j)
             /\ Align(Bstart(j))' = Align(Bstart(j)) /\ InBlocks(j)' = InBlocks(j)
  BY DEF Bend, Bstart, Bwrite, Align, InBlocks
<1>4. \A j : Segment(j)' = Segment(j) /\ Elements(j)' = Elements(j)
  BY DEF Segment, Elements, Bsize, Bstart, Bend
<1>5. \A k : SavedMargin(k)' = SavedMargin(k)
  BY DEF SavedMargin, LastBlockBucket, Bwrite, Bstart
<1> QED
  BY <1>1, <1>2, <1>3, <1>4, <1>5

LEMMA WriteArr ==
  ASSUME Shape, NEW t, NEW i, Writes(t, i), WriteMargin(t)
  PROVE  LET a == Align(Bstart(i))
             m == InPlace(t, i)
             moved == ReachesOver(t, i) /\ ~Trivial
         IN /\ arr' \in [0 .. step.n - 1 -> Values]
            /\ Segment(i) \subseteq 0 .. step.n - 1
            /\ \A k \in 1 .. Len(Items(t, i)) :
                 Place(i, k) \in Segment(i) /\ arr'[Place(i, k)] = Items(t, i)[k]
            /\ \A p \in Segment(i) : a <= p /\ p < a + m => arr'[p] = arr[p]
            /\ \A p \in 0 .. step.n - 1 :
                 p \notin Segment(i) /\ ~(moved /\ Bend(i) <= p /\ p < Bwrite(i)) => arr'[p] = arr[p]
<1> DEFINE a == Align(Bstart(i))
           m == InPlace(t, i)
           moved == ReachesOver(t, i) /\ ~Trivial
           L == Len(Items(t, i))
           it == Items(t, i)
           D == 0 .. step.n - 1
           from == IF ReachesOver(t, i) THEN MovedFrom(Bend(i), Bwrite(i)) ELSE arr
           c(p) == CHOOSE k \in 1 .. L : Place(i, k) = p
<1>1. /\ step \in Steps /\ t \in Threads /\ i \in FirstBucket(t) .. LastBucket(t) - 1
      /\ arr \in [D -> Values] /\ i = next[t]
  BY NextBucket DEF Shape, TypeOK, Writes
<1>2. /\ Bstart(i) \in Nat /\ Bend(i) \in Nat /\ Bwrite(i) \in Nat /\ Bend(i) <= step.n /\ step.n \in Nat
      /\ a \in Nat
  <2>1. i \in 0 .. NumBuckets - 1
    BY NextBucket
  <2> QED
    BY <1>1, <2>1, BucketFacts, BucketsAscend, StepFacts
<1>3. Segment(i) \subseteq D
  BY <1>2 DEF Segment
<1>4. arr' = [p \in D |-> IF \E k \in 1 .. L : Place(i, k) = p THEN it[c(p)] ELSE from[p]]
  BY <1>1 DEF WriteMargin
<1>5. /\ from \in [D -> Values]
      /\ \A p \in D : from[p] = IF moved /\ Bend(i) <= p /\ p < Bwrite(i) THEN Junk ELSE arr[p]
  BY <1>1, MovedFacts
<1>6. L = Bsize(i) - m /\ \A k \in 1 .. L : it[k] \in Values
  BY ItemsFacts
<1>7. \A k \in 1 .. L : /\ Place(i, k) \in Segment(i)
                        /\ ~(a <= Place(i, k) /\ Place(i, k) < a + m)
                        /\ \A j \in 1 .. L : Place(i, j) = Place(i, k) => j = k
  BY <1>6, PlaceFacts
<1> HIDE DEF L, it, from, moved, m, a, D
<1>8. \A p : (\E k \in 1 .. L : Place(i, k) = p) => c(p) \in 1 .. L /\ Place(i, c(p)) = p
  OBVIOUS
<1> HIDE DEF c
<1>9. arr' \in [D -> Values]
  <2>1. \A p \in D : (IF \E k \in 1 .. L : Place(i, k) = p THEN it[c(p)] ELSE from[p]) \in Values
    BY <1>5, <1>6, <1>8
  <2> QED
    BY <1>4, <2>1
<1>10. ASSUME NEW k \in 1 .. L
       PROVE  Place(i, k) \in Segment(i) /\ arr'[Place(i, k)] = it[k]
  <2>1. c(Place(i, k)) = k
    BY <1>7, <1>8
  <2>2. Place(i, k) \in D
    BY <1>3, <1>7
  <2> QED
    BY <1>4, <1>7, <2>1, <2>2
<1>11. ASSUME NEW p \in Segment(i), a <= p /\ p < a + m
       PROVE  arr'[p] = arr[p]
  <2>1. ~\E k \in 1 .. L : Place(i, k) = p
    BY <1>7, <1>11
  <2>2. p \in D /\ p < Bend(i) /\ p \in Int
    BY <1>2, <1>3 DEF Segment
  <2>3. ~(Bend(i) <= p)
    BY <1>2, <2>2
  <2> QED
    BY <1>4, <1>5, <2>1, <2>2, <2>3
<1>12. ASSUME NEW p \in D, p \notin Segment(i), ~(moved /\ Bend(i) <= p /\ p < Bwrite(i))
       PROVE  arr'[p] = arr[p]
  <2>1. ~\E k \in 1 .. L : Place(i, k) = p
    BY <1>7, <1>12
  <2> QED
    BY <1>4, <1>5, <1>12, <2>1
<1> QED
  BY <1>3, <1>9, <1>10, <1>11, <1>12 DEF L, it, moved, m, a, D

(* Saved margins of another thread or an overflow buffer stay as they are. *)
LEMMA WriteKeeps ==
  ASSUME Shape, NEW t, NEW i, Writes(t, i), WriteMargin(t)
  PROVE  /\ step' = step /\ saved' = saved /\ pc' = pc
         /\ next' = [next EXCEPT ![t] = i + 1]
         /\ \A u \in Threads : Unwritten(u)' = Unwritten(u) \ {i}
         /\ Written(t)' = Written(t) \cup {i}
         /\ \A u \in Threads \ {t} : Written(u)' = Written(u)
         /\ \A u \in Threads : i \notin Written(u) /\ (u # t => i \notin Unwritten(u))
         /\ \A u, v \in Threads : \A j \in Unwritten(u)' \cup Written(u) : j # i /\ buffers'[v][j] = buffers[v][j]
         /\ \A u \in Threads : buffers'[u][i] = << >>
         /\ \A u \in Threads : saved[u] \in Unwritten(u)' => swap'[u] = swap[u]
<1>1. /\ step \in Steps /\ t \in Threads /\ i = next[t] /\ i \in FirstBucket(t) .. LastBucket(t) - 1
      /\ i \in 0 .. NumBuckets - 1 /\ i \in Nat /\ next \in [Threads -> Nat]
      /\ swap \in [Threads -> Seq(Values)] /\ DOMAIN buffers = Threads
      /\ \A u \in Threads : DOMAIN buffers[u] = DOMAIN step.blocks
  BY NextBucket DEF Shape, TypeOK, Writes
<1>2. /\ step' = step /\ saved' = saved /\ pc' = pc /\ next' = [next EXCEPT ![t] = i + 1]
      /\ swap' = (IF HasSaved(t, i) THEN [swap EXCEPT ![t] = << >>] ELSE swap)
      /\ buffers' = [u \in Threads |-> [buffers[u] EXCEPT ![i] = << >>]]
  BY <1>1 DEF WriteMargin
<1>3. \A u \in Threads : /\ FirstBucket(u) \in 0 .. NumBuckets /\ LastBucket(u) \in 0 .. NumBuckets
                         /\ FirstBucket(u) <= next[u] /\ next[u] <= LastBucket(u)
  BY <1>1, Ranges DEF Shape, Progress
<1>4. NumBuckets \in Nat
  BY <1>1, StepFacts
<1>5. \A u \in Threads \ {t} : i \notin FirstBucket(u) .. LastBucket(u) - 1
  BY <1>1, OwnBucket
<1>6. ASSUME NEW u \in Threads
      PROVE  /\ Unwritten(u)' = Unwritten(u) \ {i} /\ i \notin Written(u)
             /\ u # t => Written(u)' = Written(u) /\ i \notin Unwritten(u)
             /\ u = t => Written(u)' = Written(u) \cup {i}
  <2>1. Unwritten(u)' = next'[u] .. LastBucket(u) - 1 /\ Written(u)' = FirstBucket(u) .. next'[u] - 1
    BY <1>2, StepSame DEF Unwritten, Written
  <2>2. next[u] \in Nat
    BY <1>1
  <2>3. CASE u = t
    <3>1. next[u] = i /\ next'[u] = i + 1
      BY <1>1, <1>2, <2>3
    <3> DEFINE f == FirstBucket(u)
               l == LastBucket(u)
    <3>2. f \in Nat /\ l \in Nat /\ f <= i /\ i < l /\ i \in Nat
      BY <1>1, <1>3, <1>4, <2>3, <3>1
    <3>3. /\ Unwritten(u) = i .. l - 1 /\ Unwritten(u)' = i + 1 .. l - 1
          /\ Written(u) = f .. i - 1 /\ Written(u)' = f .. (i + 1) - 1
      BY <2>1, <3>1 DEF Unwritten, Written
    <3> HIDE DEF f, l
    <3>4. i + 1 .. l - 1 = (i .. l - 1) \ {i} /\ f .. (i + 1) - 1 = (f .. i - 1) \cup {i} /\ i \notin f .. i - 1
      BY <3>2
    <3> QED
      BY <2>3, <3>3, <3>4
  <2>4. CASE u # t
    <3>1. next'[u] = next[u] /\ i \notin FirstBucket(u) .. LastBucket(u) - 1
      BY <1>1, <1>2, <1>5, <2>4
    <3>2. i \notin Unwritten(u) /\ i \notin Written(u)
      BY <1>1, <1>3, <1>4, <2>2, <3>1 DEF Unwritten, Written
    <3> QED
      BY <2>1, <2>4, <3>1, <3>2 DEF Unwritten, Written
  <2> QED
    BY <2>3, <2>4
<1>7. ASSUME NEW u \in Threads, NEW j
      PROVE  /\ buffers'[u][i] = << >>
             /\ j # i => buffers'[u][j] = buffers[u][j]
  <2>1. buffers'[u] = [buffers[u] EXCEPT ![i] = << >>]
    BY <1>2
  <2>2. i \in DOMAIN buffers[u]
    BY <1>1, StepFacts
  <2> QED
    BY <2>1, <2>2
<1>8. ASSUME NEW u \in Threads, saved[u] \in Unwritten(u)'
      PROVE  swap'[u] = swap[u]
  <2>1. saved[u] # i
    BY <1>6, <1>8
  <2>2. u = t => ~HasSaved(t, i)
    BY <2>1 DEF HasSaved
  <2> QED
    BY <1>1, <1>2, <2>2
<1> QED
  BY <1>1, <1>2, <1>6, <1>7, <1>8

(* A thread accesses places of its own buckets only.                       *)
LEMMA WriteTouches ==
  ASSUME Shape, NEW t, NEW i, Writes(t, i), WriteMargin(t)
  PROVE  /\ touched' \in [Threads -> SUBSET Int]
         /\ \A u \in Threads :
              touched'[u] \subseteq step.bucket_start[FirstBucket(u)] .. step.bucket_start[LastBucket(u)] - 1
<1> DEFINE own(u) == step.bucket_start[FirstBucket(u)] .. step.bucket_start[LastBucket(u)] - 1
           L == Len(Items(t, i))
           X == {Place(i, k) : k \in 1 .. L}
           Y == IF ReachesOver(t, i) THEN Bend(i) .. Bwrite(i) - 1 ELSE {}
           Z == IF SortsBucket(i) THEN Segment(i) ELSE {}
<1>1. /\ step \in Steps /\ t \in Threads /\ i = next[t] /\ i \in FirstBucket(t) .. LastBucket(t) - 1
      /\ i \in 0 .. NumBuckets - 1 /\ touched \in [Threads -> SUBSET Int]
  BY NextBucket DEF Shape, TypeOK, Writes
<1>2. touched' = [touched EXCEPT ![t] = @ \cup X \cup Y \cup Z]
  BY <1>1 DEF WriteMargin
<1>3. /\ step.bucket_start[FirstBucket(t)] <= Bstart(i) /\ Bend(i) <= step.bucket_start[LastBucket(t)]
      /\ step.bucket_start[FirstBucket(t)] \in Nat /\ step.bucket_start[LastBucket(t)] \in Nat
      /\ Bstart(i) \in Nat /\ Bend(i) \in Nat /\ Bwrite(i) \in Nat /\ Bstart(i) <= Bend(i)
  BY <1>1, OwnBucket, BucketFacts
<1>4. Segment(i) \subseteq own(t)
  BY <1>3 DEF Segment
<1>5. X \subseteq own(t)
  BY <1>4, WriteArr
<1>6. Y \subseteq own(t)
  <2>1. ReachesOver(t, i) => Bwrite(i) <= step.bucket_start[LastBucket(t)]
    BY ReachingCase
  <2> QED
    BY <1>3, <2>1
<1>7. Z \subseteq own(t)
  BY <1>4
<1>8. \A u \in Threads : own(u) \subseteq Int /\ touched[u] \subseteq own(u)
  <2>1. ASSUME NEW u \in Threads PROVE own(u) \subseteq Int
    BY <1>1, Ranges, StepFacts
  <2> QED
    BY <2>1 DEF Shape, OwnPlaces
<1> HIDE DEF X, Y, Z, own
<1>9. \A u \in Threads : touched'[u] \subseteq own(u)
  BY <1>1, <1>2, <1>5, <1>6, <1>7, <1>8
<1>10. touched' \in [Threads -> SUBSET Int]
  <2>1. touched[t] \cup X \cup Y \cup Z \in SUBSET Int
    BY <1>1, <1>5, <1>6, <1>7, <1>8
  <2> QED
    BY <1>1, <1>2, <2>1
<1> QED
  BY <1>9, <1>10 DEF own

LEMMA WriteShape ==
  ASSUME Shape, NEW t, NEW i, Writes(t, i), WriteMargin(t)
  PROVE  Shape'
<1>1. /\ step \in Steps /\ t \in Threads /\ i = next[t] /\ i \in FirstBucket(t) .. LastBucket(t) - 1
      /\ i \in 0 .. NumBuckets - 1 /\ i \in Nat /\ i < LastBucket(t) /\ FirstBucket(t) <= i
      /\ swap \in [Threads -> Seq(Values)] /\ saved \in [Threads -> Int] /\ pc \in [Threads -> {"save", "write"}]
      /\ next \in [Threads -> Nat] /\ DOMAIN buffers = Threads
      /\ \A u \in Threads : DOMAIN buffers[u] = DOMAIN step.blocks
  BY NextBucket DEF Shape, TypeOK, Writes, Progress
<1>2. /\ step' = step /\ saved' = saved /\ pc' = pc /\ next' = [next EXCEPT ![t] = i + 1]
      /\ \A u \in Threads : Unwritten(u)' = Unwritten(u) \ {i}
      /\ Written(t)' = Written(t) \cup {i}
      /\ \A u \in Threads \ {t} : Written(u)' = Written(u)
      /\ \A u, v \in Threads : \A j \in Unwritten(u)' \cup Written(u) : j # i /\ buffers'[v][j] = buffers[v][j]
      /\ \A u \in Threads : buffers'[u][i] = << >>
      /\ \A u \in Threads : saved[u] \in Unwritten(u)' => swap'[u] = swap[u]
  BY WriteKeeps
<1>3. /\ swap' = (IF HasSaved(t, i) THEN [swap EXCEPT ![t] = << >>] ELSE swap)
      /\ buffers' = [u \in Threads |-> [buffers[u] EXCEPT ![i] = << >>]]
      /\ overflow' = (IF HasOverflow(i) THEN << >> ELSE overflow)
  BY <1>1 DEF WriteMargin
<1>4. /\ Threads' = Threads /\ Over' = Over
      /\ \A u : FirstBucket(u)' = FirstBucket(u) /\ LastBucket(u)' = LastBucket(u) /\ SavedEnd(u)' = SavedEnd(u)
      /\ \A j : Bend(j)' = Bend(j) /\ InBlocks(j)' = InBlocks(j)
      /\ \A k : SavedMargin(k)' = SavedMargin(k)
  BY <1>2, StepSame
<1>5. TypeOK'
  <2>1. arr' \in [0 .. step.n - 1 -> Values]
    BY WriteArr
  <2>2. swap' \in [Threads -> Seq(Values)]
    BY <1>1, <1>3, EmptySeq
  <2>3. next' \in [Threads -> Nat]
    BY <1>1, <1>2
  <2>4. touched' \in [Threads -> SUBSET Int]
    BY WriteTouches
  <2>5. DOMAIN buffers' = Threads /\ \A u \in Threads : DOMAIN buffers'[u] = DOMAIN step.blocks
    BY <1>1, <1>3
  <2> QED
    BY <1>1, <1>2, <1>4, <2>1, <2>2, <2>3, <2>4, <2>5 DEF TypeOK
<1>6. Progress'
  <2>1. ASSUME NEW u \in Threads PROVE FirstBucket(u) <= next'[u] /\ next'[u] <= LastBucket(u)
    <3>1. FirstBucket(u) \in 0 .. NumBuckets /\ LastBucket(u) \in 0 .. NumBuckets /\ NumBuckets \in Nat
      BY <1>1, Ranges, StepFacts
    <3>2. CASE u = t
      BY <1>1, <1>2, <3>1, <3>2
    <3>3. CASE u # t
      BY <1>1, <1>2, <3>3 DEF Shape, Progress
    <3> QED
      BY <3>2, <3>3
  <2>2. ~\E u \in Threads : pc[u] = "save"
    <3>1. \A u \in Threads : pc[u] = "write"
      BY DEF Writes, MayWrite
    <3> QED
      BY <3>1
  <2>3. \A u \in Threads : saved[u] = IF pc[u] = "write" THEN SavedMargin(LastBucket(u)) ELSE -1
    BY DEF Shape, Progress
  <2> QED
    BY <1>2, <1>4, <2>1, <2>2, <2>3 DEF Progress
<1>7. Waiting'
  <2>1. overflow' # << >> => Over # {}
    BY <1>3 DEF Shape, Waiting
  <2>2. ASSUME NEW u \in Threads, NEW j \in Unwritten(u)' \cap Over
        PROVE  overflow' = Numbers(j, InBlocks(j) - BlockSize, BlockSize)
    <3>1. j \in Unwritten(u) /\ j # i /\ j \in Over
      BY <1>2
    <3>2. i \notin Over
      BY <1>1, <3>1, OverFacts
    <3>3. ~HasOverflow(i)
      BY <3>2, OverflowCase
    <3>4. overflow = Numbers(j, InBlocks(j) - BlockSize, BlockSize)
      BY <3>1 DEF Shape, Waiting
    <3> QED
      BY <1>3, <3>3, <3>4
  <2>3. ASSUME NEW u \in Threads, saved[u] \in Unwritten(u)'
        PROVE  Len(swap'[u]) = SavedEnd(u) - Bend(saved[u])
    <3>1. saved[u] \in Unwritten(u) /\ swap'[u] = swap[u]
      BY <1>2, <2>3
    <3> QED
      BY <3>1 DEF Shape, Waiting
  <2>4. ASSUME NEW u \in Threads, NEW v \in Threads, NEW j \in Unwritten(u)'
        PROVE  buffers'[v][j] = Numbers(j, InBlocks(j) + step.left[v][j], step.left[v + 1][j] - step.left[v][j])
    <3>1. j \in Unwritten(u) /\ buffers'[v][j] = buffers[v][j]
      BY <1>2
    <3> QED
      BY <3>1 DEF Shape, Waiting
  <2>5. ASSUME NEW u \in Threads, NEW v \in Threads, NEW j \in Written(u)'
        PROVE  buffers'[v][j] = << >>
    <3>1. CASE j = i
      BY <1>2, <3>1
    <3>2. CASE j # i
      <4>1. j \in Written(u)
        BY <1>2, <3>2
      <4>2. buffers[v][j] = << >>
        BY <4>1 DEF Shape, Waiting
      <4> QED
        BY <1>2, <4>1, <4>2
    <3> QED
      BY <3>1, <3>2
  <2> QED
    BY <1>2, <1>4, <2>1, <2>2, <2>3, <2>4, <2>5 DEF Waiting
<1>8. OwnPlaces'
  BY <1>2, <1>4, WriteTouches DEF OwnPlaces
<1> QED
  BY <1>5, <1>6, <1>7, <1>8 DEF Shape

(* The number of every element that is written.                            *)
LEMMA ItemsInOrder ==
  ASSUME Shape, Contents, NEW t, NEW i, Writes(t, i), NEW k \in 1 .. Len(Items(t, i))
  PROVE  Items(t, i)[k] = << i, InPlace(t, i) + k >>
<1> DEFINE x == Excess(t, i)
           a == Align(Bstart(i))
<1>1. /\ step \in Steps /\ t \in Threads /\ i \in 0 .. NumBuckets - 1 /\ i \in Nat /\ i \in Unwritten(t)
      /\ arr \in [0 .. step.n - 1 -> Values] /\ LastBucket(t) \in 0 .. NumBuckets /\ step.n \in Nat
  BY NextBucket, StepFacts DEF Shape, TypeOK
<1>2. /\ Bend(i) \in Nat /\ Bwrite(i) \in Nat /\ InBlocks(i) \in Nat /\ a \in Nat
      /\ Bwrite(i) = a + InBlocks(i) /\ MaxOff \in Nat /\ MaxOff <= step.n
  BY <1>1, BucketFacts, MaxOffFacts
<1>3. /\ Len(Items(t, i)) \in Nat /\ Len(x) \in Nat
      /\ Items(t, i)[k] = IF k <= Len(x) THEN x[k] ELSE << i, InPlace(t, i) + k >>
  BY ItemsFacts, ExcessFacts, LenProperties
<1>4. ASSUME k <= Len(x)
      PROVE  x[k] = << i, InPlace(t, i) + k >>
  <2>1. CASE HasOverflow(i)
    <3>1. i \in Over /\ overflow = Numbers(i, InBlocks(i) - BlockSize, BlockSize)
      BY <2>1, OverflowCase
    <3>2. BlockSize \in Nat /\ InBlocks(i) - BlockSize \in Nat
      <4>1. InBlocks(i) >= BlockSize /\ BlockSize \in Nat
        BY <1>1, <3>1, OverBlock, MultipleFacts
      <4> QED
        BY <1>2, <4>1
    <3>3. x = overflow /\ InPlace(t, i) = InBlocks(i) - BlockSize
      BY <2>1 DEF Excess, InPlace, HasSaved, ReachesOver
    <3>4. Len(overflow) = BlockSize /\ \A j \in 1 .. BlockSize : overflow[j] = << i, InBlocks(i) - BlockSize + j >>
      BY <1>1, <3>1, <3>2, NumbersFacts
    <3>5. k \in 1 .. BlockSize
      BY <1>3, <1>4, <3>2, <3>3, <3>4
    <3> QED
      BY <3>3, <3>4, <3>5
  <2>2. CASE HasSaved(t, i)
    <3>1. x = swap[t] /\ InPlace(t, i) = Bend(i) - a /\ saved[t] = i
      BY <2>2 DEF Excess, InPlace, HasSaved, ReachesOver
    <3>2. k \in 1 .. Len(swap[t])
      BY <1>3, <1>4, <3>1
    <3>3. swap[t][k] = << i, Bend(i) - a + k >>
      BY <1>1, <3>1, <3>2 DEF Contents
    <3> QED
      BY <3>1, <3>3
  <2>3. CASE ReachesOver(t, i)
    <3>1. /\ i \notin Over /\ InBlocks(i) > 0 /\ Bend(i) < Bwrite(i) /\ a < Bend(i)
      BY <1>1, <2>3, ReachingCase, BlocksEnd
    <3>2. Bwrite(i) <= MaxOff
      <4>1. i \in DOMAIN step.blocks /\ step.blocks[i] > 0
        BY <1>1, <3>1, BucketFacts, StepFacts
      <4> QED
        BY <1>2, <3>1, <4>1 DEF Over
    <3>3. /\ Len(Slice(Bend(i), Bwrite(i))) = Bwrite(i) - Bend(i)
          /\ \A j \in 1 .. Bwrite(i) - Bend(i) : Slice(Bend(i), Bwrite(i))[j] = arr[Bend(i) + j - 1]
      <4>1. Bend(i) <= Bwrite(i) /\ Bwrite(i) <= step.n
        BY <1>1, <1>2, <3>1, <3>2
      <4> QED
        BY <1>1, <1>2, <4>1, SliceFacts
    <3>4. x = Slice(Bend(i), Bwrite(i)) /\ InPlace(t, i) = Bend(i) - a /\ saved[t] # i
      BY <2>3 DEF Excess, InPlace, ReachesOver, HasSaved
    <3> DEFINE p == Bend(i) + k - 1
    <3>5. k \in 1 .. Bwrite(i) - Bend(i) /\ x[k] = arr[p]
      BY <1>3, <1>4, <3>3, <3>4
    <3>6. p \in a .. Bwrite(i) - 1 /\ p < MaxOff /\ p - a + 1 = Bend(i) - a + k
      <4> DEFINE e == Bend(i)
                 w == Bwrite(i)
      <4>1. /\ e \in Nat /\ w \in Nat /\ a \in Nat /\ MaxOff \in Nat
            /\ a < e /\ e < w /\ w <= MaxOff /\ k \in 1 .. w - e /\ p = e + k - 1
        BY <1>2, <3>1, <3>2, <3>5
      <4> HIDE DEF e, w, p, a
      <4>2. p \in a .. w - 1 /\ p < MaxOff /\ p - a + 1 = e - a + k
        BY ONLY <4>1
      <4> QED
        BY <4>2 DEF e, w
    <3> HIDE DEF p
    <3>7. arr[p] = << i, p - a + 1 >>
      BY <1>1, <3>4, <3>6 DEF Contents
    <3> QED
      BY <3>4, <3>5, <3>6, <3>7
  <2>4. CASE ~HasOverflow(i) /\ ~HasSaved(t, i) /\ ~ReachesOver(t, i)
    <3>1. x = << >>
      BY <2>4 DEF Excess
    <3>2. Len(x) = 0
      BY <3>1, EmptySeq
    <3> QED
      BY <1>3, <1>4, <3>2
  <2> QED
    BY <2>1, <2>2, <2>3, <2>4
<1> QED
  BY <1>3, <1>4

(* The bucket is complete then.                                            *)
LEMMA WrittenComplete ==
  ASSUME Shape, Contents, NEW t, NEW i, Writes(t, i), WriteMargin(t)
  PROVE  {arr'[p] : p \in Segment(i)} = Elements(i)
<1> DEFINE s == Bstart(i)
           e == Bend(i)
           a == Align(Bstart(i))
           m == InPlace(t, i)
           c == Bsize(i) - m
<1>1. step \in Steps /\ t \in Threads /\ i \in 0 .. NumBuckets - 1 /\ i \in Unwritten(t)
  BY NextBucket
<1>2. /\ s \in Nat /\ e \in Nat /\ a \in Nat /\ s <= a /\ Bsize(i) = e - s /\ MaxOff \in Nat
  BY <1>1, BucketFacts, MaxOffFacts, AlignFacts
<1>3. /\ m \in Nat /\ a + m <= Bwrite(i) /\ (m > 0 => a + m <= e) /\ (m > 0 => a + m <= MaxOff)
      /\ Bwrite(i) \in Nat
  <2>1. /\ m \in Nat /\ a + m <= Bwrite(i) /\ (a + m <= e \/ m = 0) /\ (m > 0 => a + m <= MaxOff)
    BY InPlaceFacts
  <2> QED
    BY <1>1, <2>1, BucketFacts
<1>4. Len(Items(t, i)) = c /\ c \in Nat
  BY ItemsFacts
<1>5. \A k \in 1 .. c : Place(i, k) \in Segment(i) /\ arr'[Place(i, k)] = << i, m + k >>
  BY <1>4, WriteArr, ItemsInOrder
<1>6. \A p \in Segment(i) : (a <= p /\ p < a + m) \/ \E k \in 1 .. c : Place(i, k) = p
  BY PlaceFacts
<1>7. Segment(i) = s .. e - 1
  BY DEF Segment
<1>8. Elements(i) = {<< i, k >> : k \in 1 .. Bsize(i)}
  BY DEF Elements
<1>9. ASSUME NEW p \in Segment(i), a <= p, p < a + m
      PROVE  arr'[p] = << i, p - a + 1 >>
  <2>1. arr'[p] = arr[p]
    BY <1>9, WriteArr
  <2>2. p \in a .. Bwrite(i) - 1 /\ p < MaxOff /\ p < e
    BY <1>2, <1>3, <1>7, <1>9
  <2>3. arr[p] = << i, p - a + 1 >>
    BY <1>1, <2>2 DEF Contents
  <2> QED
    BY <2>1, <2>3
<1> HIDE DEF s, e, a, m, c
<1>10. c = e - s - m
  BY <1>2 DEF c
<1>11. ASSUME NEW p \in Segment(i)
       PROVE  arr'[p] \in Elements(i)
  <2>1. CASE a <= p /\ p < a + m
    <3>1. p - a + 1 \in 1 .. Bsize(i)
      BY <1>2, <1>3, <1>4, <1>7, <1>10, <2>1
    <3> QED
      BY <1>8, <1>9, <2>1, <3>1
  <2>2. CASE ~(a <= p /\ p < a + m)
    <3>1. PICK k \in 1 .. c : Place(i, k) = p
      BY <1>6, <2>2
    <3>2. m + k \in 1 .. Bsize(i)
      BY <1>2, <1>3, <1>4, <1>10
    <3> QED
      BY <1>5, <1>8, <3>1, <3>2
  <2> QED
    BY <2>1, <2>2
<1>12. ASSUME NEW q \in 1 .. Bsize(i)
       PROVE  \E p \in Segment(i) : arr'[p] = << i, q >>
  <2>1. CASE q <= m
    <3> DEFINE p == a + q - 1
    <3>1. p \in s .. e - 1 /\ a <= p /\ p < a + m /\ p - a + 1 = q
      BY <1>2, <1>3, <2>1
    <3> HIDE DEF p
    <3> QED
      BY <1>7, <1>9, <3>1
  <2>2. CASE q > m
    <3>1. q - m \in 1 .. c /\ m + (q - m) = q
      BY <1>2, <1>3, <1>10, <2>2
    <3> QED
      BY <1>5, <3>1
  <2> QED
    BY <1>2, <1>3, <2>1, <2>2
<1> QED
  BY <1>8, <1>11, <1>12

(* Writing a bucket keeps the blocks of the buckets not yet written ...    *)
LEMMA BlocksKept ==
  ASSUME Shape, NEW t, NEW i, Writes(t, i), WriteMargin(t),
         NEW u \in Threads, NEW j \in Unwritten(u), j # i, u = t => i < j,
         NEW p \in Align(Bstart(j)) .. Bwrite(j) - 1, p < MaxOff, p < Bend(j) \/ saved[u] # j
  PROVE  arr'[p] = arr[p]
<1>1. /\ step \in Steps /\ t \in Threads /\ i \in 0 .. NumBuckets - 1 /\ i \in Nat /\ step.n \in Nat
      /\ i \in FirstBucket(t) .. LastBucket(t) - 1 /\ NumBuckets \in Nat
  BY NextBucket, StepFacts
<1>2. /\ j \in FirstBucket(u) .. LastBucket(u) - 1 /\ FirstBucket(u) \in 0 .. NumBuckets
      /\ LastBucket(u) \in 0 .. NumBuckets
  <2>1. FirstBucket(u) \in 0 .. NumBuckets /\ LastBucket(u) \in 0 .. NumBuckets
    BY <1>1, Ranges
  <2>2. FirstBucket(u) <= next[u] /\ next[u] \in Nat
    BY DEF Shape, Progress, TypeOK
  <2> QED
    BY <1>1, <2>1, <2>2 DEF Unwritten
<1>3. j \in 0 .. NumBuckets - 1 /\ j \in 0 .. LastBucket(u) - 1 /\ j \in Nat
  BY <1>1, <1>2
<1>4. /\ Bstart(i) \in Nat /\ Bend(i) \in Nat /\ Bwrite(i) \in Nat /\ Align(Bstart(i)) \in Nat
      /\ Bstart(j) \in Nat /\ Bend(j) \in Nat /\ Bwrite(j) \in Nat /\ Align(Bstart(j)) \in Nat
      /\ Bstart(j) <= Align(Bstart(j)) /\ MaxOff \in Nat /\ MaxOff <= step.n
  BY <1>1, <1>3, BucketFacts, MaxOffFacts, AlignFacts
<1>5. p \in 0 .. step.n - 1 /\ p \in Int /\ Align(Bstart(j)) <= p /\ p < Bwrite(j) /\ Bstart(j) <= p
  BY <1>1, <1>4
<1>6. ASSUME ReachesOver(t, i), Bend(i) <= p, p < Bwrite(i)
      PROVE  FALSE
  <2>1. InBlocks(i) > 0
    BY <1>6, ReachingCase
  <2>2. Align(Bstart(i)) < Bend(i)
    BY <1>1, <2>1, BlocksEnd
  <2>3. Align(Bstart(i)) <= p
    BY <1>4, <1>5, <1>6, <2>2
  <2> QED
    BY <1>1, <1>3, <1>5, <1>6, <2>3, AreaOfOne
<1>7. ASSUME p \in Segment(i)
      PROVE  FALSE
  <2>1. Bstart(i) <= p /\ p < Bend(i)
    BY <1>4, <1>5, <1>7 DEF Segment
  <2>2. ~(i < j)
    <3>1. i < j => Bend(i) <= Bstart(j)
      BY <1>1, <1>3, BucketsAscend
    <3> QED
      BY <1>4, <1>5, <2>1, <3>1
  <2>3. j < i /\ u # t
    BY <1>1, <1>3, <2>2
  <2>4. Bend(j) <= Bstart(i)
    BY <1>1, <1>3, <2>3, BucketsAscend
  <2>5. Bend(j) <= p /\ saved[u] # j
    BY <1>4, <1>5, <2>1, <2>4
  <2>6. InBlocks(j) > 0 /\ Bwrite(j) = Align(Bend(j))
    <3>1. /\ InBlocks(j) \in Nat /\ (InBlocks(j) = 0 => Bwrite(j) = Align(Bstart(j)))
          /\ (Bwrite(j) > Bend(j) => Bwrite(j) = Align(Bend(j)))
      BY <1>3, <1>1, BucketFacts, BlocksEnd
    <3> QED
      BY <1>4, <1>5, <2>5, <3>1
  <2>7. j \notin Over
    <3>1. j \in Over => MaxOff < Bend(j)
      BY <1>1, OverBlock
    <3> QED
      BY <1>4, <1>5, <2>5, <3>1
  <2>8. Bwrite(j) <= step.n
    <3>1. j \in DOMAIN step.blocks /\ step.blocks[j] > 0
      BY <1>1, <1>3, <2>6, BucketFacts, StepFacts
    <3>2. Bwrite(j) <= MaxOff
      BY <1>4, <2>7, <3>1 DEF Over
    <3> QED
      BY <1>1, <1>4, <3>2
  <2>9. saved[u] = SavedMargin(LastBucket(u))
    <3>1. pc[u] = "write"
      BY DEF Writes, MayWrite
    <3> QED
      BY <3>1 DEF Shape, Progress
  <2>10. ~(step.bucket_start[LastBucket(u)] < Bwrite(j))
    BY <1>1, <1>2, <1>3, <2>5, <2>6, <2>8, <2>9, MarginSaved
  <2>11. LastBucket(u) <= i
    <3>1. i \notin FirstBucket(u) .. LastBucket(u) - 1
      BY <1>1, <2>3, OwnBucket
    <3> QED
      BY <1>1, <1>2, <2>3, <3>1
  <2>12. step.bucket_start[LastBucket(u)] <= Bstart(i) /\ step.bucket_start[LastBucket(u)] \in Nat
    BY <1>1, <1>2, <2>11, BucketsAscend, StepFacts
  <2> QED
    BY <1>4, <1>5, <2>1, <2>10, <2>12
<1> QED
  BY <1>5, <1>6, <1>7, WriteArr

(* ... and the buckets that are written.                                   *)
LEMMA WrittenKept ==
  ASSUME Shape, NEW t, NEW i, Writes(t, i), WriteMargin(t),
         NEW u \in Threads, NEW j \in Written(u), NEW p \in Segment(j)
  PROVE  arr'[p] = arr[p]
<1>1. /\ step \in Steps /\ t \in Threads /\ i \in 0 .. NumBuckets - 1 /\ i \in Nat /\ step.n \in Nat
      /\ i \in FirstBucket(t) .. LastBucket(t) - 1 /\ NumBuckets \in Nat /\ i = next[t]
  BY NextBucket, StepFacts DEF Writes
<1>2. j \in FirstBucket(u) .. LastBucket(u) - 1 /\ j < next[u] /\ next[u] \in Nat
  <2>1. /\ FirstBucket(u) \in 0 .. NumBuckets /\ LastBucket(u) \in 0 .. NumBuckets
        /\ next[u] <= LastBucket(u) /\ next[u] \in Nat
    BY <1>1, Ranges DEF Shape, Progress, TypeOK
  <2> QED
    BY <1>1, <2>1 DEF Written
<1>3. j \in 0 .. NumBuckets - 1 /\ j \in Nat
  BY <1>2, OwnBucket
<1>4. i # j
  <2>1. CASE u = t
    BY <1>1, <1>2, <2>1
  <2>2. CASE u # t
    BY <1>1, <1>2, <2>2, OwnBucket
  <2> QED
    BY <2>1, <2>2
<1>5. /\ Bstart(i) \in Nat /\ Bend(i) \in Nat /\ Bwrite(i) \in Nat
      /\ Bstart(j) \in Nat /\ Bend(j) \in Nat /\ Bend(j) <= step.n
  BY <1>1, <1>3, BucketFacts, BucketsAscend
<1>6. p \in 0 .. step.n - 1 /\ p \in Int /\ Bstart(j) <= p /\ p < Bend(j)
  BY <1>1, <1>5 DEF Segment
<1>7. /\ i < j => Bend(i) <= Bstart(j)
      /\ j < i => Bend(j) <= Bstart(i)
  BY <1>1, <1>3, BucketsAscend
<1>8. p \notin Segment(i)
  <2> SUFFICES ASSUME p \in Segment(i) PROVE FALSE
    OBVIOUS
  <2>1. Bstart(i) <= p /\ p < Bend(i)
    BY <1>5, <1>6 DEF Segment
  <2> QED
    BY <1>1, <1>3, <1>4, <1>5, <1>6, <1>7, <2>1
<1>9. ASSUME ReachesOver(t, i), Bend(i) <= p, p < Bwrite(i)
      PROVE  FALSE
  <2>1. Bwrite(i) <= step.bucket_start[LastBucket(t)]
    BY <1>9, ReachingCase
  <2>2. LastBucket(t) \in 0 .. NumBuckets /\ FirstBucket(t) \in 0 .. NumBuckets /\ step.bucket_start[LastBucket(t)] \in Nat
    BY <1>1, Ranges, StepFacts
  <2>3. i < j
    <3>1. Bstart(i) <= Bend(i)
      BY <1>1, BucketsAscend
    <3> QED
      BY <1>1, <1>3, <1>4, <1>5, <1>6, <1>7, <1>9, <3>1
  <2>4. j < LastBucket(t)
    <3>1. LastBucket(t) <= j => step.bucket_start[LastBucket(t)] <= Bstart(j)
      BY <1>1, <1>3, <2>2, BucketsAscend
    <3> QED
      BY <1>3, <1>5, <1>6, <1>9, <2>1, <2>2, <3>1
  <2>5. j \in FirstBucket(t) .. LastBucket(t) - 1
    BY <1>1, <1>3, <2>2, <2>3, <2>4
  <2>6. u = t
    <3>1. \A v \in Threads \ {t} : j \notin FirstBucket(v) .. LastBucket(v) - 1
      BY <1>1, <2>5, OwnBucket
    <3> QED
      BY <1>2, <3>1
  <2> QED
    BY <1>1, <1>2, <1>3, <2>3, <2>6
<1> QED
  BY <1>6, <1>8, <1>9, WriteArr

LEMMA WriteContents ==
  ASSUME Shape, Contents, NEW t, NEW i, Writes(t, i), WriteMargin(t)
  PROVE  Contents'
<1>1. /\ step' = step /\ saved' = saved
      /\ \A u \in Threads : Unwritten(u)' = Unwritten(u) \ {i}
      /\ Written(t)' = Written(t) \cup {i}
      /\ \A u \in Threads \ {t} : Written(u)' = Written(u)
      /\ \A u \in Threads : saved[u] \in Unwritten(u)' => swap'[u] = swap[u]
  BY WriteKeeps
<1>2. /\ Threads' = Threads /\ MaxOff' = MaxOff
      /\ \A j : /\ Bend(j)' = Bend(j) /\ Bstart(j)' = Bstart(j) /\ Bwrite(j)' = Bwrite(j)
                /\ Align(Bstart(j))' = Align(Bstart(j)) /\ Segment(j)' = Segment(j) /\ Elements(j)' = Elements(j)
  BY <1>1, StepSame
<1>3. ASSUME NEW u \in Threads, NEW j \in Unwritten(u)', NEW p \in Align(Bstart(j)) .. Bwrite(j) - 1,
             p < MaxOff, p < Bend(j) \/ saved[u] # j
      PROVE  arr'[p] = << j, p - Align(Bstart(j)) + 1 >>
  <2>1. j \in Unwritten(u) /\ j # i
    BY <1>1
  <2>2. u = t => i < j
    <3>1. next[t] \in Nat /\ i = next[t] /\ LastBucket(t) \in Int
      <4>1. LastBucket(t) \in 0 .. NumBuckets
        BY NextBucket
      <4> QED
        BY <4>1 DEF Shape, TypeOK, Writes
    <3> QED
      BY <2>1, <3>1 DEF Unwritten
  <2>3. arr'[p] = arr[p]
    BY <1>3, <2>1, <2>2, BlocksKept
  <2>4. arr[p] = << j, p - Align(Bstart(j)) + 1 >>
    BY <1>3, <2>1 DEF Contents
  <2> QED
    BY <2>3, <2>4
<1>4. ASSUME NEW u \in Threads, saved[u] \in Unwritten(u)', NEW k \in 1 .. Len(swap'[u])
      PROVE  swap'[u][k] = << saved[u], Bend(saved[u]) - Align(Bstart(saved[u])) + k >>
  <2>1. swap'[u] = swap[u] /\ saved[u] \in Unwritten(u)
    BY <1>1, <1>4
  <2> QED
    BY <2>1 DEF Contents
<1>5. ASSUME NEW u \in Threads, NEW j \in Written(u)'
      PROVE  {arr'[p] : p \in Segment(j)} = Elements(j)
  <2>1. CASE j = i
    BY <2>1, WrittenComplete
  <2>2. CASE j # i
    <3>1. j \in Written(u)
      BY <1>1, <2>2
    <3>2. \A p \in Segment(j) : arr'[p] = arr[p]
      BY <3>1, WrittenKept
    <3>3. {arr[p] : p \in Segment(j)} = Elements(j)
      BY <3>1 DEF Contents
    <3> QED
      BY <3>2, <3>3
  <2> QED
    BY <2>1, <2>2
<1> QED
  BY <1>1, <1>2, <1>3, <1>4, <1>5 DEF Contents

-----------------------------------------------------------------------------
(* Every step keeps the invariant.                                         *)
LEMMA StutterKeeps ==
  ASSUME IInv, UNCHANGED vars
  PROVE  IInv'
<1>1. /\ step' = step /\ arr' = arr /\ overflow' = overflow /\ buffers' = buffers /\ swap' = swap
      /\ saved' = saved /\ pc' = pc /\ next' = next /\ touched' = touched
  BY DEF vars
<1>2. /\ Threads' = Threads /\ Over' = Over /\ MaxOff' = MaxOff
      /\ \A u : /\ FirstBucket(u)' = FirstBucket(u) /\ LastBucket(u)' = LastBucket(u)
                /\ SavedEnd(u)' = SavedEnd(u)
      /\ \A j : /\ Bend(j)' = Bend(j) /\ Bstart(j)' = Bstart(j) /\ Bwrite(j)' = Bwrite(j)
                /\ Align(Bstart(j))' = Align(Bstart(j)) /\ InBlocks(j)' = InBlocks(j)
                /\ Segment(j)' = Segment(j) /\ Elements(j)' = Elements(j)
      /\ \A k : SavedMargin(k)' = SavedMargin(k)
  BY <1>1, StepSame
<1>3. \A u : Unwritten(u)' = Unwritten(u) /\ Written(u)' = Written(u)
  BY <1>1, <1>2 DEF Unwritten, Written
<1>4. TypeOK'
  BY <1>1, <1>2 DEF IInv, Shape, TypeOK
<1>5. Progress'
  BY <1>1, <1>2 DEF IInv, Shape, Progress
<1>6. Waiting'
  BY <1>1, <1>2, <1>3 DEF IInv, Shape, Waiting
<1>7. OwnPlaces'
  BY <1>1, <1>2 DEF IInv, Shape, OwnPlaces
<1>8. SavedOnce' = SavedOnce
  BY <1>2 DEF SavedOnce
<1>9. Contents => Contents'
  BY <1>1, <1>2, <1>3 DEF Contents
<1> QED
  BY <1>4, <1>5, <1>6, <1>7, <1>8, <1>9 DEF IInv, Shape

LEMMA Invariance == Spec => []IInv
<1>1. Init => IInv
  BY InitShape, InitContents DEF IInv
<1>2. IInv /\ [Next]_vars => IInv'
  <2> SUFFICES ASSUME IInv, [Next]_vars PROVE IInv'
    OBVIOUS
  <2>1. Shape /\ (Trivial \/ SavedOnce => Contents)
    BY DEF IInv
  <2>2. ASSUME step' = step PROVE SavedOnce' <=> SavedOnce
    BY <2>2, StepSame DEF SavedOnce
  <2>3. ASSUME NEW t \in Threads, SaveMargins(t) PROVE IInv'
    <3>1. step' = step
      BY <2>3 DEF SaveMargins
    <3>2. Shape'
      BY <2>1, <2>3, SaveShape
    <3>3. Trivial \/ SavedOnce => Contents'
      BY <2>1, <2>3, SaveContents
    <3> QED
      BY <2>2, <3>1, <3>2, <3>3 DEF IInv
  <2>4. ASSUME NEW t \in Threads, WriteMargin(t) PROVE IInv'
    <3>1. step' = step /\ Writes(t, next[t])
      BY <2>4 DEF WriteMargin, Writes
    <3>2. Shape'
      BY <2>1, <2>4, <3>1, WriteShape
    <3>3. Trivial \/ SavedOnce => Contents'
      BY <2>1, <2>4, <3>1, WriteContents
    <3> QED
      BY <2>2, <3>1, <3>2, <3>3 DEF IInv
  <2>5. CASE Finished
    BY <2>5, StutterKeeps DEF Finished
  <2>6. CASE UNCHANGED vars
    BY <2>6, StutterKeeps
  <2> QED
    BY <2>3, <2>4, <2>5, <2>6 DEF Next
<1> QED
  BY <1>1, <1>2, PTL DEF Spec

-----------------------------------------------------------------------------
(* What writeMargins promises the compiler about a bucket's last block and *)
(* about the room for what reaches over holds for every bucket that is     *)
(* written, whatever the sizes of blocks, buckets and of the input.        *)
THEOREM AssumptionsAlwaysHold == Spec => []AssumptionsHold
<1>1. IInv => AssumptionsHold
  <2> SUFFICES ASSUME Shape, NEW t \in Threads, MayWrite(t), next[t] < LastBucket(t)
               PROVE  LET i == next[t] IN
                 /\ HasOverflow(i) => /\ Align(Bend(i)) = Bwrite(i)
                                      /\ Bend(i) - (Bwrite(i) - BlockSize) + Room(i) >= BlockSize
                 /\ HasSaved(t, i) => Len(swap[t]) <= Room(i)
                 /\ ReachesOver(t, i) => Align(Bend(i)) = Bwrite(i) /\ Bwrite(i) - Bend(i) <= Room(i)
    BY DEF IInv, AssumptionsHold
  <2> DEFINE i == next[t]
  <2>1. Writes(t, i)
    BY DEF Writes
  <2>2. step \in Steps /\ i \in 0 .. NumBuckets - 1
    BY <2>1, NextBucket
  <2>3. /\ Bend(i) \in Nat /\ Bwrite(i) \in Nat /\ InBuffers(i) \in Nat /\ Room(i) \in Nat
        /\ Bwrite(i) - Bend(i) = Room(i) - InBuffers(i) /\ BlockSize \in Nat
        /\ (Bwrite(i) > Bend(i) => Bwrite(i) = Align(Bend(i)))
    BY <2>2, BucketFacts, BlocksEnd, MultipleFacts
  <2>4. HasOverflow(i) => Align(Bend(i)) = Bwrite(i)
    BY <2>1, <2>2, OverflowCase, OverBlock
  <2>5. HasSaved(t, i) => Len(swap[t]) = Bwrite(i) - Bend(i)
    BY <2>1, SavedCase
  <2>6. ReachesOver(t, i) => Bwrite(i) > Bend(i)
    BY DEF ReachesOver
  <2> HIDE DEF i
  <2>7. Bend(i) - (Bwrite(i) - BlockSize) + Room(i) >= BlockSize /\ Bwrite(i) - Bend(i) <= Room(i)
    BY <2>3
  <2> QED
    BY <2>3, <2>4, <2>5, <2>6, <2>7 DEF i
<1> QED
  BY <1>1, Invariance, PTL

(* No two threads access the same element between the barrier and the end  *)
(* of writeMargins, nor one out of bounds: with any number of threads, and *)
(* also if two of them have saved the same margin.                         *)
THEOREM NoElementShared == Spec => []NoSharedElement
<1>1. IInv => NoSharedElement
  <2> SUFFICES ASSUME Shape PROVE NoSharedElement
    BY DEF IInv
  <2> DEFINE own(u) == step.bucket_start[FirstBucket(u)] .. step.bucket_start[LastBucket(u)] - 1
  <2>1. step \in Steps /\ DOMAIN arr = 0 .. step.n - 1 /\ step.n \in Nat
    BY StepFacts DEF Shape, TypeOK
  <2>2. \A u \in Threads : touched[u] \subseteq own(u)
    BY DEF Shape, OwnPlaces
  <2>3. /\ \A u \in Threads : /\ FirstBucket(u) \in 0 .. NumBuckets /\ LastBucket(u) \in 0 .. NumBuckets
                              /\ FirstBucket(u) <= LastBucket(u) /\ u \in Nat
        /\ \A v, u \in Threads : v < u => LastBucket(v) <= FirstBucket(u)
    BY <2>1, Ranges
  <2>4. ASSUME NEW u \in Threads PROVE own(u) \subseteq DOMAIN arr
    <3>1. /\ step.bucket_start[FirstBucket(u)] \in Nat /\ step.bucket_start[LastBucket(u)] \in Nat
          /\ step.bucket_start[LastBucket(u)] <= step.n
      BY <2>1, <2>3, StartsAscend
    <3> QED
      BY <2>1, <3>1
  <2>5. ASSUME NEW v \in Threads, NEW u \in Threads, v < u PROVE own(v) \cap own(u) = {}
    <3>1. /\ step.bucket_start[LastBucket(v)] <= step.bucket_start[FirstBucket(u)]
          /\ step.bucket_start[LastBucket(v)] \in Nat /\ step.bucket_start[FirstBucket(u)] \in Nat
          /\ step.bucket_start[FirstBucket(v)] \in Nat /\ step.bucket_start[LastBucket(u)] \in Nat
      BY <2>1, <2>3, <2>5, StartsAscend, StepFacts
    <3> QED
      BY <3>1
  <2>6. ASSUME NEW v \in Threads, NEW u \in Threads \ {v} PROVE own(v) \cap own(u) = {}
    <3>1. v < u \/ u < v
      BY <2>3
    <3> QED
      BY <2>5, <3>1
  <2> HIDE DEF own
  <2> QED
    BY <2>2, <2>4, <2>6 DEF NoSharedElement
<1> QED
  BY <1>1, Invariance, PTL

(* A bucket that is written is complete: exactly its elements are in it,   *)
(* and no buffer holds one, if elements that are moved from keep their     *)
(* values or no two threads find the same margin to save.                  *)
THEOREM CompleteUnlessSavedTwice == Spec => [](Trivial \/ SavedOnce => BucketComplete)
<1>1. IInv => (Trivial \/ SavedOnce => BucketComplete)
  <2> SUFFICES ASSUME Shape, Contents PROVE BucketComplete
    BY DEF IInv
  <2>1. ASSUME NEW t \in Threads, NEW i \in FirstBucket(t) .. next[t] - 1
        PROVE  /\ {arr[p] : p \in Segment(i)} = Elements(i)
               /\ \A u \in Threads : buffers[u][i] = << >>
    <3>1. i \in Written(t)
      BY DEF Written
    <3>2. {arr[p] : p \in Segment(i)} = Elements(i)
      BY <3>1 DEF Contents
    <3>3. \A u \in Threads : buffers[u][i] = << >>
      BY <3>1 DEF Shape, Waiting
    <3> QED
      BY <3>2, <3>3
  <2> QED
    BY <2>1 DEF BucketComplete
<1> QED
  BY <1>1, Invariance, PTL

(* So elements of a type without a move constructor of its own, the only   *)
(* ones for which the margin may be copied twice, are never lost.          *)
THEOREM BucketsComplete == ASSUME Trivial PROVE Spec => []BucketComplete
<1>1. (Trivial \/ SavedOnce => BucketComplete) => BucketComplete
  OBVIOUS
<1> QED
  BY <1>1, CompleteUnlessSavedTwice, PTL

(* Two threads find the same margin only if all buckets of the second one  *)
(* lie in one block: where each thread has a block of elements, buckets    *)
(* are complete for every type of elements.                                *)
BlockEach ==
  \A t \in Threads : step.bucket_start[LastBucket(t)] - step.bucket_start[FirstBucket(t)] >= BlockSize

THEOREM CompleteIfBlockEach == Spec => [](BlockEach => BucketComplete)
<1>1. IInv => (BlockEach => SavedOnce)
  <2> SUFFICES ASSUME step \in Steps, BlockEach PROVE SavedOnce
    BY DEF IInv, Shape, TypeOK
  <2>1. ASSUME NEW t \in Threads, NEW u \in Threads, t < u,
               SavedMargin(LastBucket(t)) = SavedMargin(LastBucket(u)), SavedMargin(LastBucket(t)) # -1
        PROVE  FALSE
    <3> DEFINE b == SavedMargin(LastBucket(t))
               x == step.bucket_start[LastBucket(t)]
               y == step.bucket_start[FirstBucket(u)]
               z == step.bucket_start[LastBucket(u)]
    <3>1. /\ LastBucket(t) \in 0 .. NumBuckets /\ LastBucket(u) \in 0 .. NumBuckets
          /\ FirstBucket(u) \in 0 .. NumBuckets /\ LastBucket(t) <= FirstBucket(u)
      BY <2>1, Ranges
    <3>2. x \in Nat /\ y \in Nat /\ z \in Nat /\ x <= y /\ BlockSize \in Nat
      BY <3>1, StartsAscend, StepFacts, MultipleFacts
    <3>3. z - y >= BlockSize
      BY DEF BlockEach
    <3>4. b \in 0 .. NumBuckets - 1 /\ Bwrite(b) = Align(x)
      BY <2>1, <3>1, MarginFacts
    <3>5. z < Bwrite(b)
      BY <2>1, <3>1, MarginFacts
    <3>6. Align(x) < x + BlockSize /\ Bwrite(b) \in Nat
      BY <3>2, <3>4, AlignFacts, BucketFacts
    <3> HIDE DEF b, x, y, z
    <3> QED
      BY <3>2, <3>3, <3>4, <3>5, <3>6
  <2>2. ASSUME NEW t \in Threads, NEW u \in Threads, t # u,
               SavedMargin(LastBucket(t)) = SavedMargin(LastBucket(u))
        PROVE  SavedMargin(LastBucket(t)) = -1
    <3>1. t < u \/ u < t
      BY <2>2, Ranges
    <3> QED
      BY <2>1, <2>2, <3>1
  <2> QED
    BY <2>2 DEF SavedOnce
<1>2. SavedOnce => (Trivial \/ SavedOnce)
  OBVIOUS
<1> QED
  BY <1>1, <1>2, Invariance, CompleteUnlessSavedTwice, PTL
=============================================================================
