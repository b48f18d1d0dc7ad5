--------------------------- MODULE EmptyBlockProofs ---------------------------
(***************************************************************************)
(* Theorems about classification and empty block movement, for every input *)
(* and every number of threads, buckets and elements per block.            *)
(*                                                                         *)
(*   - The stripes divide the input (StripesDivideInput).                  *)
(*   - What classification leaves is a record with the property Stripes,   *)
(*     and it keeps count of every element (ClassifyCounts, BucketSize).   *)
(*   - For such a record, Full(d, y) counts the full elements in front of  *)
(*     position y, and Holes(d, y) the empty space.  The counts that a     *)
(*     thread computes are differences of these: FlushedLeft (LeftCount),  *)
(*     FlushedRight (RightCount), first_empty_block_in_bucket              *)
(*     (FirstEmptyIsFilled), elements_reserved (ReservedIsHoles).          *)
(*   - The reading loop of a thread therefore takes the blocks with between*)
(*     R and R + w full elements of the bucket behind them, where R is what*)
(*     it has reserved and w the size of its gap (RoundsMade, MovesFacts). *)
(*     These ranges are disjoint for threads with the same bucket, and     *)
(*     together they are all blocks behind Filled (TakenApart, BeyondTaken)*)
(*   - From this: the inductive invariant, no two moves touch the same     *)
(*     slot, and the layout that block permutation relies on.              *)
(***************************************************************************)
EXTENDS EmptyBlockMovement, FiniteSetTheorems, SequenceTheorems, WellFoundedInduction, TLAPS

(* my_id_ * elements_per_thread + 0.5, cut off.                            *)
Border(n, id) == (2 * id * n + NumThreads) \div (2 * NumThreads)

LEMMA DivisionUnique ==
  ASSUME NEW a \in Nat, NEW d \in Nat \ {0}
  PROVE  a \div d \in Nat /\ d * (a \div d) <= a /\ a < d * (a \div d) + d
<1>1. a = d * (a \div d) + (a % d) /\ a % d \in 0 .. d - 1 /\ a \div d \in Nat
  BY SMT
<1> QED
  BY <1>1, SMT

(* A quotient grows by at least m if the dividend grows by m divisors.     *)
LEMMA DivisionGrows ==
  ASSUME NEW a \in Nat, NEW b \in Nat, NEW d \in Nat \ {0}, NEW m \in Nat, a + d * m <= b
  PROVE  (a \div d) + m <= b \div d
<1> DEFINE p == a \div d
           q == b \div d
<1>1. p \in Nat /\ d * p <= a /\ q \in Nat /\ b < d * q + d
  BY DivisionUnique
<1> HIDE DEF p, q
<1>2. SUFFICES ASSUME q < p + m PROVE FALSE
  BY <1>1 DEF p, q
<1>3. q + 1 <= p + m /\ d * (q + 1) = d * q + d /\ d * (p + m) = d * p + d * m
  BY <1>1, <1>2, SMT
<1>4. d * (q + 1) <= d * (p + m)
  BY <1>1, <1>3, SMT
<1> QED
  BY <1>1, <1>3, <1>4, SMT

LEMMA Aligned ==
  ASSUME NEW p \in Nat
  PROVE  /\ AlignToNextBlock(p) \in Nat /\ p <= AlignToNextBlock(p)
         /\ AlignToNextBlock(p) < p + BlockSize
<1>1. BlockSize \in Nat \ {0} /\ p + BlockSize - 1 \in Nat
  BY ClassificationAssumption
<1> DEFINE s == (p + BlockSize - 1) \div BlockSize
<1>2. s \in Nat /\ BlockSize * s <= p + BlockSize - 1 /\ p + BlockSize - 1 < BlockSize * s + BlockSize
  BY <1>1, DivisionUnique
<1>3. AlignToNextBlock(p) = s * BlockSize
  BY DEF AlignToNextBlock, SlotsUpTo
<1> HIDE DEF s
<1>4. s * BlockSize \in Nat /\ s * BlockSize = BlockSize * s
  BY <1>1, <1>2, SMT
<1> QED
  BY <1>1, <1>2, <1>3, <1>4

LEMMA AlignedGrows ==
  ASSUME NEW p \in Nat, NEW q \in Nat, p + 2 * BlockSize <= q
  PROVE  AlignToNextBlock(p) < AlignToNextBlock(q)
<1>1. BlockSize \in Nat \ {0}
  BY ClassificationAssumption
<1>2. AlignToNextBlock(p) < p + BlockSize /\ q <= AlignToNextBlock(q)
  BY Aligned
<1> QED
  BY <1>1, <1>2, Aligned

LEMMA BorderEnds ==
  ASSUME NEW n \in Nat
  PROVE  Border(n, 0) = 0 /\ Border(n, NumThreads) = n /\ \A i \in Nat : Border(n, i) \in Nat
<1>1. NumThreads \in Nat \ {0} /\ BlockSize \in Nat \ {0}
  BY ClassificationAssumption
<1> DEFINE d == 2 * NumThreads
           at(i) == 2 * i * n + NumThreads
<1>2. d \in Nat \ {0} /\ \A i \in Nat : at(i) \in Nat
  BY <1>1, SMT
<1>3. \A i \in Nat : Border(n, i) = at(i) \div d /\ Border(n, i) \in Nat
  BY <1>2, DivisionUnique DEF Border
<1>6. Border(n, 0) = 0
  <2>1. at(0) = NumThreads /\ NumThreads < d
    BY <1>1, SMT
  <2>2. at(0) \div d = 0
    BY <1>1, <1>2, <2>1, SMT
  <2> QED
    BY <1>3, <2>2
<1>7. Border(n, NumThreads) = n
  <2>1. at(NumThreads) = d * n + NumThreads /\ NumThreads < d
    BY <1>1, SMT
  <2> DEFINE q == at(NumThreads) \div d
  <2>2. q \in Nat /\ d * q <= at(NumThreads) /\ at(NumThreads) < d * q + d
    BY <1>1, <1>2, DivisionUnique
  <2>3. Border(n, NumThreads) = q
    BY <1>1, <1>3
  <2> HIDE DEF q, at, d
  <2>4. d * q < d * (n + 1) /\ d * n < d * (q + 1)
    <3>1. d * (n + 1) = d * n + d /\ d * (q + 1) = d * q + d
      BY <1>2, <2>2, SMT
    <3>2. d * n \in Int /\ d * q \in Int /\ d \in Int
      BY <1>2, <2>2, SMT
    <3> QED
      BY <1>1, <2>1, <2>2, <3>1, <3>2
  <2>5. q < n + 1 /\ n < q + 1
    BY <1>2, <2>2, <2>4, SMT
  <2> QED
    BY <2>2, <2>3, <2>5
<1> QED
  BY <1>3, <1>6, <1>7

LEMMA Borders ==
  ASSUME NEW n \in Nat, NEW id \in Nat, id < NumThreads, 2 * BlockSize * NumThreads <= n
  PROVE  /\ Border(n, id) \in Nat /\ Border(n, id + 1) \in Nat
         /\ Border(n, id) + 2 * BlockSize <= Border(n, id + 1)
         /\ Border(n, 0) = 0 /\ Border(n, NumThreads) = n
         /\ Border(n, id + 1) <= n
<1>1. NumThreads \in Nat \ {0} /\ BlockSize \in Nat \ {0}
  BY ClassificationAssumption
<1> DEFINE d == 2 * NumThreads
           at(i) == 2 * i * n + NumThreads
<1>2. d \in Nat \ {0} /\ \A i \in Nat : at(i) \in Nat
  BY <1>1, SMT
<1>3. \A i \in Nat : Border(n, i) = at(i) \div d /\ Border(n, i) \in Nat
  BY <1>2, DivisionUnique DEF Border
<1>4. at(id + 1) = at(id) + 2 * n /\ d * (2 * BlockSize) <= 2 * n
  <2>1. 2 * (id + 1) * n = 2 * id * n + 2 * n
    BY SMT
  <2>2. d * (2 * BlockSize) = 2 * (2 * BlockSize * NumThreads)
    BY <1>1, SMT
  <2> QED
    BY <1>1, <1>2, <2>1, <2>2, SMT
<1>5. Border(n, id) + 2 * BlockSize <= Border(n, id + 1)
  <2>1. id + 1 \in Nat /\ 2 * BlockSize \in Nat /\ at(id) \in Nat /\ at(id + 1) \in Nat
    BY <1>1, <1>2
  <2>2. at(id) + d * (2 * BlockSize) <= at(id + 1)
    BY <1>1, <1>4, <2>1
  <2> HIDE DEF at, d
  <2>3. (at(id) \div d) + 2 * BlockSize <= at(id + 1) \div d
    BY <1>2, <2>1, <2>2, DivisionGrows
  <2> QED
    BY <1>3, <2>1, <2>3
<1>7. Border(n, 0) = 0 /\ Border(n, NumThreads) = n
  BY BorderEnds
<1>8. Border(n, id + 1) <= n
  <2>1. at(id + 1) <= at(NumThreads)
    <3>1. 2 * (id + 1) * n <= 2 * NumThreads * n
      BY <1>1, SMT
    <3> QED
      BY <1>1, <1>2, <3>1
  <2>2. id + 1 \in Nat /\ at(id + 1) \in Nat /\ at(NumThreads) \in Nat
    BY <1>1, <1>2
  <2> HIDE DEF at, d
  <2>3. (at(id + 1) \div d) + 0 <= at(NumThreads) \div d
    <3>1. at(id + 1) + d * 0 <= at(NumThreads)
      BY <1>2, <2>1, <2>2
    <3> QED
      BY <1>2, <2>2, <3>1, DivisionGrows
  <2> QED
    BY <1>1, <1>3, <1>7, <2>2, <2>3
<1> QED
  BY <1>3, <1>5, <1>7, <1>8

(* The stripes of the threads divide the input among them, and none is     *)
(* empty, if there are at least two blocks for each thread.                *)
THEOREM StripesDivideInput ==
  ASSUME NEW n \in Nat, 2 * BlockSize * NumThreads <= n
  PROVE  /\ MyBegin(n, 0) = 0 /\ MyEnd(n, NumThreads - 1) = n
         /\ \A id \in Threads :
              /\ MyBegin(n, id) < MyEnd(n, id)
              /\ id + 1 \in Threads => MyEnd(n, id) = MyBegin(n, id + 1)
<1>1. NumThreads \in Nat \ {0} /\ BlockSize \in Nat \ {0}
  BY ClassificationAssumption
<1>2. \A id \in Nat : MyBegin(n, id) = AlignToNextBlock(Border(n, id))
  BY DEF MyBegin, Border
<1>3. MyBegin(n, 0) = 0
  <2>1. Border(n, 0) = 0
    BY <1>1, Borders
  <2>2. AlignToNextBlock(0) = 0
    BY <1>1, SMT DEF AlignToNextBlock, SlotsUpTo
  <2> QED
    BY <1>2, <2>1, <2>2
<1>4. ASSUME NEW id \in Nat, id < NumThreads
      PROVE  MyBegin(n, id) < n /\ MyBegin(n, id) < MyBegin(n, id + 1) /\ MyBegin(n, id + 1) \in Nat
  <2>1. /\ Border(n, id) \in Nat /\ Border(n, id + 1) \in Nat /\ Border(n, id + 1) <= n
        /\ Border(n, id) + 2 * BlockSize <= Border(n, id + 1)
    BY <1>4, Borders
  <2>2. AlignToNextBlock(Border(n, id)) \in Nat
        /\ AlignToNextBlock(Border(n, id)) < Border(n, id) + BlockSize
    BY <2>1, Aligned
  <2>3. /\ AlignToNextBlock(Border(n, id)) < AlignToNextBlock(Border(n, id + 1))
        /\ AlignToNextBlock(Border(n, id + 1)) \in Nat
    BY <2>1, Aligned, AlignedGrows
  <2>4. AlignToNextBlock(Border(n, id)) < n
    BY <1>1, <2>1, <2>2
  <2> QED
    BY <1>2, <2>3, <2>4
<1>5. ASSUME NEW id \in Threads
      PROVE  /\ MyBegin(n, id) < MyEnd(n, id)
             /\ id + 1 \in Threads => MyEnd(n, id) = MyBegin(n, id + 1)
  <2>1. id \in Nat /\ id < NumThreads
    BY <1>1 DEF Threads
  <2>2. MyBegin(n, id) < n /\ MyBegin(n, id) < MyBegin(n, id + 1)
    BY <1>4, <2>1
  <2>3. id + 1 \in Threads => MyBegin(n, id + 1) < n /\ MyBegin(n, id + 1) \in Nat
    <3>1. id + 1 \in Threads => id + 1 \in Nat /\ id + 1 < NumThreads
      BY <1>1 DEF Threads
    <3> QED
      BY <1>4, <2>1, <3>1
  <2> QED
    BY <2>2, <2>3 DEF MyEnd
<1>6. MyEnd(n, NumThreads - 1) = n
  <2>1. MyBegin(n, NumThreads) = AlignToNextBlock(n)
    <3>1. Border(n, NumThreads) = n
      BY <1>1, Borders
    <3> QED
      BY <1>1, <1>2, <3>1
  <2>2. AlignToNextBlock(n) \in Nat /\ n <= AlignToNextBlock(n)
    BY Aligned
  <2>3. (NumThreads - 1) + 1 = NumThreads
    BY <1>1
  <2> QED
    BY <2>1, <2>2, <2>3 DEF MyEnd
<1> QED
  BY <1>3, <1>5, <1>6

------------------------------------------------------------------------------
(* Positions on block boundaries, and slots.                               *)
At(s)      == s * BlockSize
OnBlock(x) == \E s \in Nat : x = At(s)

LEMMA Least ==
  ASSUME NEW T, T \subseteq Nat, T # {}
  PROVE  \E x \in T : \A y \in T : x <= y
<1> DEFINE R == OpToRel(<, Nat)
<1>1. IsWellFoundedOn(R, Nat)
  BY NatLessThanWellFounded
<1>2. \A x, y \in Nat : y < x => << y, x >> \in R
  BY DEF OpToRel
<1> HIDE DEF R
<1>3. PICK x \in T : \A y \in T : ~(<< y, x >> \in R)
  BY <1>1, WFMin
<1>4. \A y \in T : ~(y < x)
  BY <1>2, <1>3
<1>5. \A y \in T : x <= y
  BY <1>4
<1> QED
  BY <1>5

LEMMA Constants ==
  /\ BlockSize \in Nat \ {0} /\ NumBuckets \in Nat \ {0} /\ NumThreads \in Nat \ {0}
  /\ Threads = 0 .. NumThreads - 1 /\ Buckets = 0 .. NumBuckets - 1
BY ClassificationAssumption DEF Threads, Buckets

LEMMA AtFacts ==
  /\ At(0) = 0 /\ At(1) = BlockSize
  /\ \A s \in Nat : At(s) \in Nat /\ At(s) \div BlockSize = s
  /\ \A s, t \in Nat : At(s + t) = At(s) + At(t)
  /\ \A s, t \in Nat : s < t => At(s) + BlockSize <= At(t)
<1>1. BlockSize \in Nat \ {0}
  BY Constants
<1>2. \A s \in Nat : s * BlockSize \in Nat
  BY <1>1, SMT
<1>3. \A s, t \in Nat : (s + t) * BlockSize = s * BlockSize + t * BlockSize
  BY <1>1, SMT
<1>4. 0 * BlockSize = 0 /\ 1 * BlockSize = BlockSize
  BY <1>1, SMT
<1>5. ASSUME NEW s \in Nat PROVE (s * BlockSize) \div BlockSize = s
  <2> DEFINE a == s * BlockSize
             q == a \div BlockSize
  <2>1. a \in Nat /\ a = BlockSize * s
    BY <1>1, <1>2, SMT
  <2>2. q \in Nat /\ BlockSize * q <= a /\ a < BlockSize * q + BlockSize
    BY <1>1, <2>1, DivisionUnique
  <2> HIDE DEF q, a
  <2>3. BlockSize * q <= BlockSize * s /\ BlockSize * s < BlockSize * (q + 1)
    <3>1. BlockSize * (q + 1) = BlockSize * q + BlockSize
      BY <1>1, <2>2, SMT
    <3> QED
      BY <2>1, <2>2, <3>1
  <2>4. q <= s /\ s < q + 1
    BY <1>1, <2>2, <2>3, SMT
  <2>5. q = s
    BY <2>2, <2>4
  <2> QED
    BY <2>5 DEF q, a
<1>6. ASSUME NEW s \in Nat, NEW t \in Nat, s < t
      PROVE  s * BlockSize + BlockSize <= t * BlockSize
  <2>1. (s + 1) * BlockSize <= t * BlockSize
    BY <1>1, <1>6, SMT
  <2>2. (s + 1) * BlockSize = s * BlockSize + BlockSize
    BY <1>1, SMT
  <2> QED
    BY <2>1, <2>2
<1> QED
  BY <1>2, <1>3, <1>4, <1>5, <1>6 DEF At

(* Sums, differences and the order of positions on block boundaries.       *)
LEMMA OnBlocks ==
  ASSUME NEW x, NEW y, OnBlock(x), OnBlock(y)
  PROVE  /\ x \in Nat /\ y \in Nat /\ OnBlock(x + y)
         /\ y <= x => OnBlock(x - y)
         /\ x < y => x + BlockSize <= y
         /\ OnBlock(MinOf(x, y)) /\ OnBlock(MaxOf(x, y))
<1>1. PICK s \in Nat, t \in Nat : x = At(s) /\ y = At(t)
  BY DEF OnBlock
<1>2. x \in Nat /\ y \in Nat
  BY <1>1, AtFacts
<1>3. OnBlock(x + y)
  BY <1>1, AtFacts DEF OnBlock
<1>4. y <= x => t <= s
  <2>1. s < t => x + BlockSize <= y
    BY <1>1, AtFacts
  <2> QED
    BY <1>2, <2>1, Constants
<1>5. y <= x => OnBlock(x - y)
  <2> SUFFICES ASSUME y <= x PROVE OnBlock(x - y)
    OBVIOUS
  <2>1. s - t \in Nat /\ (s - t) + t = s
    BY <1>4
  <2>2. At(s) = At(s - t) + At(t)
    BY <2>1, AtFacts
  <2>3. At(s - t) \in Nat
    BY <2>1, AtFacts
  <2>4. x - y = At(s - t)
    BY <1>1, <1>2, <2>2, <2>3
  <2> QED
    BY <2>1, <2>4 DEF OnBlock
<1>6. x < y => x + BlockSize <= y
  <2> SUFFICES ASSUME x < y PROVE x + BlockSize <= y
    OBVIOUS
  <2>1. t < s => y + BlockSize <= x
    BY <1>1, AtFacts
  <2>2. s = t => x = y
    BY <1>1
  <2>3. s < t
    BY <1>2, <2>1, <2>2, Constants
  <2> QED
    BY <1>1, <2>3, AtFacts
<1> QED
  BY <1>2, <1>3, <1>5, <1>6 DEF MinOf, MaxOf

LEMMA SlotOf ==
  ASSUME NEW x, OnBlock(x)
  PROVE  x \div BlockSize \in Nat /\ At(x \div BlockSize) = x
<1>1. PICK s \in Nat : x = At(s)
  BY DEF OnBlock
<1> QED
  BY <1>1, AtFacts

LEMMA AtOrder ==
  ASSUME NEW s \in Nat, NEW t \in Nat
  PROVE  /\ At(s) \in Nat /\ At(t) \in Nat /\ OnBlock(At(s))
         /\ At(s) < At(t) <=> s < t
         /\ At(s) = At(t) <=> s = t
         /\ s < t => At(s) + BlockSize <= At(t)
         /\ At(s + 1) = At(s) + BlockSize
<1>1. At(s) \in Nat /\ At(t) \in Nat /\ OnBlock(At(s))
  BY AtFacts DEF OnBlock
<1>2. s < t => At(s) + BlockSize <= At(t)
  BY AtFacts
<1>3. t < s => At(t) + BlockSize <= At(s)
  BY AtFacts
<1>4. At(s + 1) = At(s) + At(1) /\ At(1) = BlockSize
  BY AtFacts
<1> QED
  BY <1>1, <1>2, <1>3, <1>4, Constants

LEMMA AlignFacts ==
  ASSUME NEW p \in Nat
  PROVE  /\ SlotsUpTo(p) \in Nat /\ AlignToNextBlock(p) = At(SlotsUpTo(p))
         /\ OnBlock(AlignToNextBlock(p)) /\ AlignToNextBlock(p) \in Nat
         /\ p <= AlignToNextBlock(p) /\ AlignToNextBlock(p) < p + BlockSize
<1>1. SlotsUpTo(p) \in Nat
  <2>1. BlockSize \in Nat \ {0} /\ p + BlockSize - 1 \in Nat
    BY Constants
  <2> QED
    BY <2>1, DivisionUnique DEF SlotsUpTo
<1>2. AlignToNextBlock(p) = At(SlotsUpTo(p))
  BY DEF AlignToNextBlock, At
<1> QED
  BY <1>1, <1>2, Aligned DEF OnBlock

LEMMA AlignAscends ==
  ASSUME NEW p \in Nat, NEW q \in Nat, p <= q
  PROVE  AlignToNextBlock(p) <= AlignToNextBlock(q)
<1>1. /\ OnBlock(AlignToNextBlock(p)) /\ OnBlock(AlignToNextBlock(q))
      /\ AlignToNextBlock(p) \in Nat /\ AlignToNextBlock(q) \in Nat
      /\ AlignToNextBlock(p) < p + BlockSize /\ q <= AlignToNextBlock(q)
  BY AlignFacts
<1>2. AlignToNextBlock(q) < AlignToNextBlock(p) =>
        AlignToNextBlock(q) + BlockSize <= AlignToNextBlock(p)
  BY <1>1, OnBlocks
<1> QED
  BY <1>1, <1>2, Constants

------------------------------------------------------------------------------
(* Sums over the stripes, which are defined by recursion.                  *)
LEMMA BeforeFacts ==
  ASSUME NEW f, \A p \in Threads : f[p] \in Int
  PROVE  /\ Before(f)[0] = 0
         /\ \A p \in 0 .. NumThreads : Before(f)[p] \in Int
         /\ \A p \in Threads : Before(f)[p + 1] = Before(f)[p] + f[p]
<1> DEFINE Is(h, k) == h = [p \in 0 .. k |-> IF p = 0 THEN 0 ELSE h[p - 1] + f[p - 1]]
           Missing == {k \in 0 .. NumThreads : ~\E h : Is(h, k)}
<1>0. NumThreads \in Nat \ {0} /\ Threads = 0 .. NumThreads - 1
  BY Constants
<1>1. Missing = {}
  <2> SUFFICES ASSUME Missing # {} PROVE FALSE
    OBVIOUS
  <2>1. Missing \subseteq Nat
    BY <1>0
  <2>2. \A k : k \in Missing <=> k \in 0 .. NumThreads /\ ~\E h : Is(h, k)
    OBVIOUS
  <2> HIDE DEF Missing
  <2>3. PICK k \in Missing : \A y \in Missing : k <= y
    BY <2>1, Least
  <2>4. CASE k = 0
    <3>1. Is([p \in 0 .. 0 |-> 0], 0)
      OBVIOUS
    <3> QED
      BY <2>2, <2>3, <2>4, <3>1
  <2>5. CASE k # 0
    <3>1. k \in 0 .. NumThreads /\ k \in Nat /\ k - 1 \in 0 .. NumThreads /\ k - 1 \notin Missing
      BY <1>0, <2>1, <2>2, <2>3, <2>5
    <3>2. PICK h : Is(h, k - 1)
      BY <2>2, <3>1
    <3> DEFINE g == [p \in 0 .. k |-> IF p = k THEN h[k - 1] + f[k - 1] ELSE h[p]]
    <3>3. ASSUME NEW p \in 0 .. k PROVE g[p] = IF p = 0 THEN 0 ELSE g[p - 1] + f[p - 1]
      <4>1. CASE p = k
        <5>1. k - 1 \in 0 .. k /\ k - 1 # k
          BY <3>1
        <5>2. g[k - 1] = h[k - 1] /\ g[k] = h[k - 1] + f[k - 1]
          BY <3>1, <5>1
        <5> QED
          BY <2>5, <4>1, <5>2
      <4>2. CASE p # k
        <5>1. p \in 0 .. k - 1 /\ (p # 0 => p - 1 \in 0 .. k /\ p - 1 # k)
          BY <3>1, <4>2
        <5>2. h[p] = IF p = 0 THEN 0 ELSE h[p - 1] + f[p - 1]
          BY <3>2, <5>1
        <5>3. g[p] = h[p] /\ (p # 0 => g[p - 1] = h[p - 1])
          BY <4>2, <5>1
        <5> QED
          BY <5>2, <5>3
      <4> QED
        BY <4>1, <4>2
    <3>4. Is(g, k)
      BY <3>3
    <3> QED
      BY <2>2, <2>3, <3>4
  <2> QED
    BY <2>4, <2>5
<1>2. PICK h : Is(h, NumThreads)
  <2>1. NumThreads \in 0 .. NumThreads
    BY <1>0
  <2> HIDE DEF Is
  <2> QED
    BY <1>1, <2>1
<1>3. Before(f) = CHOOSE g : Is(g, NumThreads)
  BY DEF Before
<1>4. Is(Before(f), NumThreads)
  BY <1>2, <1>3
<1> DEFINE s == Before(f)
<1> HIDE DEF s
<1>5. \A p \in 0 .. NumThreads : s[p] = IF p = 0 THEN 0 ELSE s[p - 1] + f[p - 1]
  BY <1>4 DEF s
<1>6. s[0] = 0
  BY <1>0, <1>5
<1>7. \A p \in Threads : s[p + 1] = s[p] + f[p]
  <2> TAKE p \in Threads
  <2>1. p + 1 \in 0 .. NumThreads /\ p + 1 # 0 /\ (p + 1) - 1 = p
    BY <1>0
  <2> QED
    BY <1>5, <2>1
<1>8. \A p \in 0 .. NumThreads : s[p] \in Int
  <2> DEFINE Wrong == {p \in 0 .. NumThreads : s[p] \notin Int}
  <2> SUFFICES ASSUME Wrong # {} PROVE FALSE
    OBVIOUS
  <2>1. Wrong \subseteq Nat /\ \A k : k \in Wrong <=> k \in 0 .. NumThreads /\ s[k] \notin Int
    BY <1>0
  <2> HIDE DEF Wrong
  <2>2. PICK k \in Wrong : \A y \in Wrong : k <= y
    BY <2>1, Least
  <2>3. k # 0 /\ k \in 0 .. NumThreads
    BY <1>6, <2>1, <2>2
  <2>4. k - 1 \in Threads /\ k - 1 \in 0 .. NumThreads /\ (k - 1) + 1 = k /\ k - 1 \notin Wrong
    BY <1>0, <2>1, <2>2, <2>3
  <2>5. s[k] = s[k - 1] + f[k - 1] /\ s[k - 1] \in Int
    BY <1>7, <2>1, <2>4
  <2> QED
    BY <2>1, <2>2, <2>4, <2>5
<1> QED
  BY <1>6, <1>7, <1>8 DEF s

------------------------------------------------------------------------------
(* The stripes after classification: full blocks, then empty space.        *)
Stripes(d) ==
  /\ d.n \in Nat
  /\ \A id \in Threads :
       /\ d.my_begin[id] \in Nat /\ d.my_end[id] \in Nat /\ d.first_empty[id] \in Nat
       /\ OnBlock(d.my_begin[id]) /\ OnBlock(d.first_empty[id])
       /\ d.my_begin[id] <= d.first_empty[id] /\ d.first_empty[id] <= d.my_end[id]
       /\ d.my_begin[id] < d.my_end[id] /\ d.my_end[id] <= d.n
       /\ id < NumThreads - 1 => d.my_end[id] = d.my_begin[id + 1]
  /\ d.my_begin[0] = 0 /\ d.my_end[NumThreads - 1] = d.n
  /\ \A b \in 0 .. NumBuckets : d.bucket_start[b] \in 0 .. d.n
  /\ \A a, b \in 0 .. NumBuckets : a <= b => d.bucket_start[a] <= d.bucket_start[b]
  /\ d.bucket_start[0] = 0 /\ d.bucket_start[NumBuckets] = d.n
  /\ \A s : s \in DOMAIN d.bucket <=>
       /\ s \in Nat
       /\ \E id \in Threads : d.my_begin[id] <= At(s) /\ At(s) < d.first_empty[id]

(* The full elements in front of a position.                               *)
Holder(d, y) ==
  CHOOSE p \in Threads : d.my_begin[p] <= y /\ (p < NumThreads - 1 => y < d.my_begin[p + 1])
Full(d, y) ==
  LET p == Holder(d, y)
  IN  Before(Flushed(d))[p] + MinOf(d.first_empty[p], y) - d.my_begin[p]

LEMMA StripeFacts ==
  ASSUME NEW d, Stripes(d), NEW id \in Threads
  PROVE  /\ d.my_begin[id] \in Nat /\ d.my_end[id] \in Nat /\ d.first_empty[id] \in Nat
         /\ OnBlock(d.my_begin[id]) /\ OnBlock(d.first_empty[id])
         /\ d.my_begin[id] <= d.first_empty[id] /\ d.first_empty[id] <= d.my_end[id]
         /\ d.my_begin[id] < d.my_end[id] /\ d.my_end[id] <= d.n
         /\ id < NumThreads - 1 => d.my_end[id] = d.my_begin[id + 1]
         /\ id = NumThreads - 1 => d.my_end[id] = d.n
         /\ d.n \in Nat /\ d.my_begin[0] = 0
BY DEF Stripes

(* The stripes and what they hold ascend from thread to thread.            *)
LEMMA StripesAscend ==
  ASSUME NEW d, Stripes(d)
  PROVE  /\ \A p \in 0 .. NumThreads : Before(Flushed(d))[p] \in Int
         /\ Before(Flushed(d))[0] = 0
         /\ \A p \in Threads :
              Before(Flushed(d))[p + 1] = Before(Flushed(d))[p] + d.first_empty[p] - d.my_begin[p]
         /\ \A p, q \in Threads : p < q =>
              /\ d.my_end[p] <= d.my_begin[q]
              /\ Before(Flushed(d))[p + 1] <= Before(Flushed(d))[q]
              /\ Before(Flushed(d))[q] - Before(Flushed(d))[p + 1] <= d.my_begin[q] - d.my_end[p]
<1> DEFINE K == Before(Flushed(d))
           f == Flushed(d)
<1>0. NumThreads \in Nat \ {0} /\ Threads = 0 .. NumThreads - 1
  BY Constants
<1>1. \A p \in Threads : f[p] = d.first_empty[p] - d.my_begin[p] /\ f[p] \in Int
  BY StripeFacts DEF Flushed
<1>2. /\ K[0] = 0 /\ \A p \in 0 .. NumThreads : K[p] \in Int
      /\ \A p \in Threads : K[p + 1] = K[p] + f[p]
  <2> HIDE DEF f
  <2> QED
    BY <1>1, BeforeFacts DEF f
<1> HIDE DEF K, f
<1>3. \A p \in Threads : K[p + 1] = K[p] + d.first_empty[p] - d.my_begin[p]
  BY <1>0, <1>1, <1>2, StripeFacts
<1>4. ASSUME NEW p \in Threads
      PROVE  \A q \in Threads : p < q =>
               d.my_end[p] <= d.my_begin[q] /\ K[p + 1] <= K[q] /\ K[q] - K[p + 1] <= d.my_begin[q] - d.my_end[p]
  <2> DEFINE Fine(q) == /\ d.my_end[p] <= d.my_begin[q] /\ K[p + 1] <= K[q]
                        /\ K[q] - K[p + 1] <= d.my_begin[q] - d.my_end[p]
             Wrong == {q \in Threads : p < q /\ ~Fine(q)}
  <2> SUFFICES ASSUME Wrong # {} PROVE FALSE
    OBVIOUS
  <2>1. Wrong \subseteq Nat /\ \A q : q \in Wrong <=> q \in Threads /\ p < q /\ ~Fine(q)
    BY <1>0
  <2> HIDE DEF Wrong
  <2>2. PICK q \in Wrong : \A y \in Wrong : q <= y
    BY <2>1, Least
  <2>3. q \in Threads /\ p < q /\ q - 1 \in Threads /\ (q - 1) + 1 = q /\ q - 1 < NumThreads - 1
    BY <1>0, <2>1, <2>2
  <2>4. p \in Nat /\ q \in Nat /\ p + 1 \in 0 .. NumThreads /\ q - 1 \in 0 .. NumThreads /\ q \in 0 .. NumThreads
    BY <1>0, <2>3
  <2>5. K[p + 1] \in Int /\ K[q - 1] \in Int /\ K[q] \in Int
    BY <1>2, <2>4
  <2>6. CASE q = p + 1
    <3>1. d.my_end[p] = d.my_begin[q] /\ d.my_begin[q] \in Nat
      BY <2>3, <2>6, StripeFacts
    <3>2. Fine(q)
      BY <2>5, <2>6, <3>1
    <3> QED
      BY <2>1, <2>2, <3>2
  <2>7. CASE q # p + 1
    <3>1. p < q - 1 /\ q - 1 \notin Wrong
      BY <2>1, <2>2, <2>3, <2>4, <2>7
    <3>2. Fine(q - 1)
      BY <2>1, <2>3, <3>1
    <3>3. K[q] = K[q - 1] + d.first_empty[q - 1] - d.my_begin[q - 1]
      BY <1>3, <2>3
    <3>4. /\ d.my_begin[q - 1] \in Nat /\ d.first_empty[q - 1] \in Nat /\ d.my_end[q - 1] \in Nat
          /\ d.my_begin[q - 1] <= d.first_empty[q - 1] /\ d.first_empty[q - 1] <= d.my_end[q - 1]
          /\ d.my_end[q - 1] = d.my_begin[q]
      BY <2>3, StripeFacts
    <3>5. d.my_begin[q] \in Nat /\ d.my_end[p] \in Nat
      BY <2>3, StripeFacts
    <3>6. Fine(q)
      BY <2>5, <3>2, <3>3, <3>4, <3>5
    <3> QED
      BY <2>1, <2>2, <3>6
  <2> QED
    BY <2>6, <2>7
<1> QED
  BY <1>2, <1>3, <1>4 DEF K

(* The last stripe has no end here: nothing lies behind it.                *)
Reaches(d, p, y) == d.my_begin[p] <= y /\ (p < NumThreads - 1 => y <= d.my_end[p])

LEMMA HolderFacts ==
  ASSUME NEW d, Stripes(d), NEW y \in Nat
  PROVE  /\ Holder(d, y) \in Threads
         /\ d.my_begin[Holder(d, y)] <= y
         /\ Holder(d, y) < NumThreads - 1 => y < d.my_end[Holder(d, y)]
<1> DEFINE T == {p \in Threads : p < NumThreads - 1 => y < d.my_begin[p + 1]}
<1>0. NumThreads \in Nat \ {0} /\ Threads = 0 .. NumThreads - 1
  BY Constants
<1>1. NumThreads - 1 \in T /\ T \subseteq Nat
  BY <1>0
<1>2. \A p : p \in T <=> p \in Threads /\ (p < NumThreads - 1 => y < d.my_begin[p + 1])
  OBVIOUS
<1> HIDE DEF T
<1>3. PICK p \in T : \A q \in T : p <= q
  BY <1>1, Least
<1>4. d.my_begin[p] <= y
  <2>1. CASE p = 0
    BY <1>0, <1>2, <1>3, <2>1, StripeFacts
  <2>2. CASE p # 0
    <3>1. p \in Threads /\ p - 1 \in Threads /\ (p - 1) + 1 = p /\ p - 1 \notin T
      BY <1>0, <1>1, <1>2, <1>3, <2>2
    <3>2. d.my_begin[p] \in Nat /\ ~(y < d.my_begin[p])
      BY <1>2, <3>1, StripeFacts
    <3> QED
      BY <3>2
  <2> QED
    BY <2>1, <2>2
<1>5. \E h \in Threads : d.my_begin[h] <= y /\ (h < NumThreads - 1 => y < d.my_begin[h + 1])
  BY <1>2, <1>3, <1>4
<1> DEFINE h == Holder(d, y)
<1>6. h \in Threads /\ d.my_begin[h] <= y /\ (h < NumThreads - 1 => y < d.my_begin[h + 1])
  BY <1>5 DEF Holder
<1> HIDE DEF h
<1>7. h < NumThreads - 1 => d.my_end[h] = d.my_begin[h + 1]
  BY <1>6, StripeFacts
<1> QED
  BY <1>6, <1>7 DEF h

(* At the border of two stripes either of them gives the same count.       *)
LEMMA FullIn ==
  ASSUME NEW d, Stripes(d), NEW p \in Threads, NEW y \in Nat, Reaches(d, p, y)
  PROVE  Full(d, y) = Before(Flushed(d))[p] + MinOf(d.first_empty[p], y) - d.my_begin[p]
<1> DEFINE h == Holder(d, y)
           K == Before(Flushed(d))
<1>0. NumThreads \in Nat \ {0} /\ Threads = 0 .. NumThreads - 1
  BY Constants
<1>1. /\ h \in Threads /\ d.my_begin[h] <= y
      /\ h < NumThreads - 1 => y < d.my_end[h]
  BY HolderFacts
<1>2. Full(d, y) = K[h] + MinOf(d.first_empty[h], y) - d.my_begin[h]
  BY DEF Full
<1>3. d.my_begin[p] <= y /\ (p < NumThreads - 1 => y <= d.my_end[p])
  BY DEF Reaches
<1> HIDE DEF h, K
<1>4. h \in Nat /\ p \in Nat
  BY <1>0, <1>1
<1>5. CASE h = p
  BY <1>2, <1>5 DEF K
<1>6. CASE h < p
  <2>1. d.my_end[h] <= d.my_begin[p] /\ h < NumThreads - 1
    BY <1>0, <1>1, <1>4, <1>6, StripesAscend
  <2>2. d.my_end[h] \in Nat /\ d.my_begin[p] \in Nat
    BY <1>1, StripeFacts
  <2> QED
    BY <1>1, <1>3, <2>1, <2>2
<1>7. CASE p < h
  <2>1. d.my_end[p] <= d.my_begin[h] /\ p < NumThreads - 1
    BY <1>0, <1>1, <1>4, <1>7, StripesAscend
  <2>2. /\ d.my_end[p] \in Nat /\ d.my_begin[h] \in Nat /\ d.first_empty[p] \in Nat
        /\ d.first_empty[p] <= d.my_end[p] /\ d.my_begin[p] < d.my_end[p]
        /\ d.first_empty[h] \in Nat /\ d.my_begin[h] <= d.first_empty[h]
        /\ d.my_begin[h] < d.my_end[h] /\ d.my_end[h] \in Nat /\ d.my_begin[p] \in Nat
    BY <1>1, StripeFacts
  <2>3. y = d.my_end[p] /\ d.my_begin[h] = y
    BY <1>1, <1>3, <2>1, <2>2
  <2>4. p + 1 \in Threads /\ d.my_end[p] = d.my_begin[p + 1]
    BY <1>0, <2>1, StripeFacts
  <2>5. h = p + 1
    <3> SUFFICES ASSUME h # p + 1 PROVE FALSE
      OBVIOUS
    <3>1. p + 1 < h
      BY <1>4, <1>7
    <3>2. d.my_end[p + 1] <= d.my_begin[h] /\ d.my_begin[p + 1] < d.my_end[p + 1]
          /\ d.my_end[p + 1] \in Nat /\ d.my_begin[p + 1] \in Nat
      BY <1>1, <2>4, <3>1, StripesAscend, StripeFacts
    <3> QED
      BY <2>2, <2>3, <2>4, <3>2
  <2>6. K[h] = K[p] + d.first_empty[p] - d.my_begin[p] /\ K[h] \in Int /\ K[p] \in Int
    <3>1. h \in 0 .. NumThreads /\ p \in 0 .. NumThreads
      BY <1>0, <1>1
    <3> QED
      BY <2>5, <3>1, StripesAscend DEF K
  <2>7. MinOf(d.first_empty[h], y) = d.my_begin[h] /\ MinOf(d.first_empty[p], y) = d.first_empty[p]
    BY <2>2, <2>3 DEF MinOf
  <2> QED
    BY <1>2, <2>2, <2>6, <2>7 DEF K
<1> QED
  BY <1>4, <1>5, <1>6, <1>7

LEMMA FullType ==
  ASSUME NEW d, Stripes(d), NEW y \in Nat
  PROVE  Full(d, y) \in Int
<1> DEFINE h == Holder(d, y)
<1>1. h \in Threads /\ h \in 0 .. NumThreads
  BY HolderFacts, Constants
<1>2. Before(Flushed(d))[h] \in Int /\ d.first_empty[h] \in Nat /\ d.my_begin[h] \in Nat
  BY <1>1, StripesAscend, StripeFacts
<1> HIDE DEF h
<1>3. Full(d, y) = Before(Flushed(d))[h] + MinOf(d.first_empty[h], y) - d.my_begin[h]
  BY DEF Full, h
<1> QED
  BY <1>2, <1>3 DEF MinOf

(* Within one stripe.                                                      *)
LEMMA FullWithin ==
  ASSUME NEW d, Stripes(d), NEW p \in Threads, NEW x \in Nat, NEW y \in Nat, x <= y,
         Reaches(d, p, x), Reaches(d, p, y)
  PROVE  /\ Full(d, y) - Full(d, x) = MinOf(d.first_empty[p], y) - MinOf(d.first_empty[p], x)
         /\ y <= d.first_empty[p] => Full(d, y) - Full(d, x) = y - x
         /\ d.first_empty[p] <= x => Full(d, y) = Full(d, x)
         /\ Full(d, x) <= Full(d, y) /\ Full(d, y) - Full(d, x) <= y - x
<1>1. p \in 0 .. NumThreads
  BY Constants
<1>2. Before(Flushed(d))[p] \in Int /\ d.first_empty[p] \in Nat /\ d.my_begin[p] \in Nat
  BY <1>1, StripesAscend, StripeFacts
<1>3. /\ Full(d, y) = Before(Flushed(d))[p] + MinOf(d.first_empty[p], y) - d.my_begin[p]
      /\ Full(d, x) = Before(Flushed(d))[p] + MinOf(d.first_empty[p], x) - d.my_begin[p]
  BY FullIn
<1> QED
  BY <1>2, <1>3 DEF MinOf

(* Anywhere.                                                               *)
LEMMA FullAscends ==
  ASSUME NEW d, Stripes(d), NEW x \in Nat, NEW y \in Nat, x <= y
  PROVE  Full(d, x) <= Full(d, y) /\ Full(d, y) - Full(d, x) <= y - x
<1> DEFINE g == Holder(d, x)
           h == Holder(d, y)
           K == Before(Flushed(d))
<1>0. NumThreads \in Nat \ {0} /\ Threads = 0 .. NumThreads - 1
  BY Constants
<1>1. /\ g \in Threads /\ d.my_begin[g] <= x /\ (g < NumThreads - 1 => x < d.my_end[g])
      /\ h \in Threads /\ d.my_begin[h] <= y /\ (h < NumThreads - 1 => y < d.my_end[h])
  BY HolderFacts
<1> HIDE DEF g, h
<1>2. g \in Nat /\ h \in Nat /\ g \in 0 .. NumThreads /\ h \in 0 .. NumThreads /\ g + 1 \in 0 .. NumThreads
  BY <1>0, <1>1
<1>3. /\ d.my_begin[g] \in Nat /\ d.my_end[g] \in Nat /\ d.first_empty[g] \in Nat
      /\ d.my_begin[h] \in Nat /\ d.my_end[h] \in Nat /\ d.first_empty[h] \in Nat
      /\ d.my_begin[g] <= d.first_empty[g] /\ d.first_empty[g] <= d.my_end[g]
      /\ d.my_begin[h] <= d.first_empty[h]
  BY <1>1, StripeFacts
<1>4. Reaches(d, g, x) /\ Reaches(d, h, y)
  BY <1>1, <1>3 DEF Reaches
<1>5. CASE g = h
  BY <1>1, <1>4, <1>5, FullWithin
<1>6. CASE g < h
  <2>1. /\ Full(d, x) = K[g] + MinOf(d.first_empty[g], x) - d.my_begin[g]
        /\ Full(d, y) = K[h] + MinOf(d.first_empty[h], y) - d.my_begin[h]
    BY <1>1, <1>4, FullIn
  <2>2. /\ K[g + 1] = K[g] + d.first_empty[g] - d.my_begin[g] /\ K[g + 1] <= K[h]
        /\ K[h] - K[g + 1] <= d.my_begin[h] - d.my_end[g] /\ d.my_end[g] <= d.my_begin[h]
        /\ K[g] \in Int /\ K[g + 1] \in Int /\ K[h] \in Int
    BY <1>1, <1>2, <1>6, StripesAscend
  <2>3. x < d.my_end[g]
    BY <1>0, <1>1, <1>2, <1>6
  <2> HIDE DEF K
  <2> QED
    BY <1>1, <1>3, <2>1, <2>2, <2>3 DEF MinOf
<1>7. CASE h < g
  <2>1. d.my_end[h] <= d.my_begin[g] /\ h < NumThreads - 1
    BY <1>0, <1>1, <1>2, <1>7, StripesAscend
  <2> QED
    BY <1>1, <1>3, <2>1
<1> QED
  BY <1>2, <1>5, <1>6, <1>7

LEMMA FullZero ==
  ASSUME NEW d, Stripes(d)
  PROVE  Full(d, 0) = 0
<1>1. 0 \in Threads /\ NumThreads \in Nat
  BY Constants
<1>2. d.my_begin[0] = 0 /\ d.first_empty[0] \in Nat /\ d.my_end[0] \in Nat
  BY <1>1, StripeFacts
<1>3. Reaches(d, 0, 0)
  BY <1>2 DEF Reaches
<1>4. Full(d, 0) = Before(Flushed(d))[0] + MinOf(d.first_empty[0], 0) - d.my_begin[0]
  BY <1>1, <1>3, FullIn
<1>5. Before(Flushed(d))[0] = 0
  BY StripesAscend
<1> QED
  BY <1>2, <1>4, <1>5 DEF MinOf

(* On block boundaries there are whole blocks in front.                    *)
LEMMA FullOnBlock ==
  ASSUME NEW d, Stripes(d), NEW y, OnBlock(y)
  PROVE  OnBlock(Full(d, y))
<1> DEFINE K == Before(Flushed(d))
           Wrong == {p \in Threads : ~OnBlock(K[p])}
<1>0. NumThreads \in Nat \ {0} /\ Threads = 0 .. NumThreads - 1
  BY Constants
<1>1. /\ K[0] = 0 /\ \A p \in Threads : K[p + 1] = K[p] + d.first_empty[p] - d.my_begin[p]
  BY StripesAscend
<1>2. OnBlock(0)
  BY AtFacts DEF OnBlock
<1>3. Wrong \subseteq Nat /\ \A p : p \in Wrong <=> p \in Threads /\ ~OnBlock(K[p])
  BY <1>0
<1> HIDE DEF Wrong, K
<1>4. Wrong = {}
  <2> SUFFICES ASSUME Wrong # {} PROVE FALSE
    OBVIOUS
  <2>1. PICK q \in Wrong : \A x \in Wrong : q <= x
    BY <1>3, Least
  <2>2. q # 0
    BY <1>1, <1>2, <1>3, <2>1
  <2>3. q \in Threads /\ q - 1 \in Threads /\ (q - 1) + 1 = q /\ q - 1 \notin Wrong
    BY <1>0, <1>3, <2>1, <2>2
  <2>4. OnBlock(K[q - 1])
    BY <1>3, <2>3
  <2>5. /\ OnBlock(d.first_empty[q - 1]) /\ OnBlock(d.my_begin[q - 1])
        /\ d.my_begin[q - 1] <= d.first_empty[q - 1]
        /\ d.my_begin[q - 1] \in Nat /\ d.first_empty[q - 1] \in Nat
    BY <2>3, StripeFacts
  <2>6. OnBlock(d.first_empty[q - 1] - d.my_begin[q - 1]) /\ K[q - 1] \in Nat
    BY <2>4, <2>5, OnBlocks
  <2>7. OnBlock(K[q - 1] + (d.first_empty[q - 1] - d.my_begin[q - 1]))
    BY <2>4, <2>6, OnBlocks
  <2>8. K[q] = K[q - 1] + (d.first_empty[q - 1] - d.my_begin[q - 1])
    BY <1>1, <2>3, <2>5, <2>6
  <2> QED
    BY <1>3, <2>1, <2>7, <2>8
<1> DEFINE h == Holder(d, y)
<1>5. y \in Nat
  BY OnBlocks
<1>6. h \in Threads /\ d.my_begin[h] <= y
  BY <1>5, HolderFacts
<1>7. Full(d, y) = K[h] + MinOf(d.first_empty[h], y) - d.my_begin[h]
  BY DEF Full, K
<1> HIDE DEF h
<1>8. OnBlock(K[h]) /\ K[h] \in Nat
  BY <1>3, <1>4, <1>6, OnBlocks
<1>9. /\ OnBlock(d.first_empty[h]) /\ OnBlock(d.my_begin[h]) /\ d.my_begin[h] \in Nat
      /\ d.my_begin[h] <= d.first_empty[h] /\ d.first_empty[h] \in Nat
  BY <1>6, StripeFacts
<1> DEFINE m == MinOf(d.first_empty[h], y)
<1>10. OnBlock(m) /\ d.my_begin[h] <= m /\ m \in Nat
  BY <1>5, <1>6, <1>9, OnBlocks DEF MinOf
<1> HIDE DEF m
<1>11. OnBlock(m - d.my_begin[h]) /\ m - d.my_begin[h] \in Nat
  BY <1>9, <1>10, OnBlocks
<1>12. OnBlock(K[h] + (m - d.my_begin[h]))
  BY <1>8, <1>11, OnBlocks
<1>13. Full(d, y) = K[h] + (m - d.my_begin[h])
  BY <1>7, <1>8, <1>9, <1>10 DEF m
<1> QED
  BY <1>12, <1>13

------------------------------------------------------------------------------
(* Which buckets begin in which stripe.                                    *)
LEMMA StartFacts ==
  ASSUME NEW d, Stripes(d)
  PROVE  /\ \A b \in 0 .. NumBuckets : Start(d, b) \in Nat /\ OnBlock(Start(d, b))
         /\ \A a, b \in 0 .. NumBuckets : a <= b => Start(d, a) <= Start(d, b)
         /\ Start(d, 0) = 0 /\ d.n <= Start(d, NumBuckets) /\ Start(d, NumBuckets) < d.n + BlockSize
<1>1. \A b \in 0 .. NumBuckets : d.bucket_start[b] \in Nat
  BY Constants DEF Stripes
<1>2. \A a, b \in 0 .. NumBuckets : a <= b => d.bucket_start[a] <= d.bucket_start[b]
  BY DEF Stripes
<1>3. d.bucket_start[0] = 0 /\ d.bucket_start[NumBuckets] = d.n /\ d.n \in Nat
  BY DEF Stripes
<1>4. AlignToNextBlock(0) = 0
  BY Constants, SMT DEF AlignToNextBlock, SlotsUpTo
<1>5. 0 \in 0 .. NumBuckets /\ NumBuckets \in 0 .. NumBuckets
  BY Constants
<1> QED
  BY <1>1, <1>2, <1>3, <1>4, <1>5, AlignFacts, AlignAscends DEF Start

LEMMA RangeStartFacts ==
  ASSUME NEW d, Stripes(d), NEW id \in Threads
  PROVE  /\ RangeStart(d, id) \in 0 .. NumBuckets
         /\ Start(d, RangeStart(d, id)) >= d.my_begin[id]
         /\ \A j \in 0 .. RangeStart(d, id) - 1 : Start(d, j) < d.my_begin[id]
<1> DEFINE T == {i \in 0 .. NumBuckets : Start(d, i) >= d.my_begin[id]}
<1>1. NumBuckets \in T
  <2>1. /\ d.n \in Nat /\ d.my_begin[id] \in Nat /\ d.my_end[id] \in Nat
        /\ d.my_begin[id] < d.my_end[id] /\ d.my_end[id] <= d.n
    BY StripeFacts
  <2>2. NumBuckets \in 0 .. NumBuckets
    BY Constants
  <2>3. Start(d, NumBuckets) \in Nat /\ d.n <= Start(d, NumBuckets)
    BY <2>2, StartFacts
  <2> QED
    BY <2>1, <2>2, <2>3
<1>2. T \subseteq Nat /\ \A i : i \in T <=> i \in 0 .. NumBuckets /\ Start(d, i) >= d.my_begin[id]
  BY Constants
<1> HIDE DEF T
<1>3. PICK i \in T : \A y \in T : i <= y
  BY <1>1, <1>2, Least
<1>4. ASSUME NEW j \in 0 .. i - 1 PROVE Start(d, j) < d.my_begin[id]
  <2>1. i \in 0 .. NumBuckets /\ j \in 0 .. NumBuckets /\ j \notin T
    BY <1>2, <1>3, <1>4, Constants
  <2>2. Start(d, j) \in Nat /\ d.my_begin[id] \in Nat
    BY <2>1, StartFacts, StripeFacts
  <2> QED
    BY <1>2, <2>1, <2>2
<1>5. \E k \in 0 .. NumBuckets :
        Start(d, k) >= d.my_begin[id] /\ \A j \in 0 .. k - 1 : Start(d, j) < d.my_begin[id]
  BY <1>2, <1>3, <1>4
<1> QED
  BY <1>5 DEF RangeStart

LEMMA RangeEndFacts ==
  ASSUME NEW d, Stripes(d), NEW id \in Threads
  PROVE  /\ RangeEnd(d, id) \in 1 .. NumBuckets /\ RangeStart(d, id) <= RangeEnd(d, id)
         /\ Start(d, RangeEnd(d, id)) >= d.my_end[id]
         /\ id < NumThreads - 1 => \A j \in 0 .. RangeEnd(d, id) - 1 : Start(d, j) < d.my_end[id]
         /\ id = NumThreads - 1 => RangeEnd(d, id) = NumBuckets
<1> DEFINE s == RangeStart(d, id)
<1>1. /\ s \in 0 .. NumBuckets /\ Start(d, s) >= d.my_begin[id]
      /\ \A j \in 0 .. s - 1 : Start(d, j) < d.my_begin[id]
  BY RangeStartFacts
<1>2. /\ d.n \in Nat /\ d.my_begin[id] \in Nat /\ d.my_end[id] \in Nat
      /\ d.my_begin[id] < d.my_end[id] /\ d.my_end[id] <= d.n
      /\ id = NumThreads - 1 => d.my_end[id] = d.n
  BY StripeFacts
<1>3. NumBuckets \in Nat \ {0} /\ NumThreads \in Nat \ {0} /\ id \in 0 .. NumThreads - 1
  BY Constants
<1>4. /\ \A b \in 0 .. NumBuckets : Start(d, b) \in Nat
      /\ d.n <= Start(d, NumBuckets) /\ Start(d, 0) = 0
  BY StartFacts
<1>5. CASE id = NumThreads - 1
  <2>1. RangeEnd(d, id) = NumBuckets
    BY <1>5 DEF RangeEnd
  <2>2. Start(d, NumBuckets) \in Nat
    BY <1>3, <1>4
  <2> QED
    BY <1>1, <1>2, <1>3, <1>4, <1>5, <2>1, <2>2
<1>6. CASE id # NumThreads - 1
  <2> HIDE DEF s
  <2> DEFINE T == {i \in s .. NumBuckets : i = NumBuckets \/ Start(d, i) >= d.my_end[id]}
  <2>1. NumBuckets \in T
    BY <1>1, <1>3
  <2>2. T \subseteq Nat /\ \A i : i \in T <=> /\ i \in s .. NumBuckets
                                              /\ i = NumBuckets \/ Start(d, i) >= d.my_end[id]
    BY <1>1, <1>3
  <2> HIDE DEF T
  <2>3. PICK i \in T : \A y \in T : i <= y
    BY <2>1, <2>2, Least
  <2>4. ASSUME NEW j \in s .. i - 1 PROVE Start(d, j) < d.my_end[id]
    <3>1. i \in s .. NumBuckets /\ j \in s .. NumBuckets /\ j \in 0 .. NumBuckets /\ j \notin T
      BY <1>1, <1>3, <2>2, <2>3, <2>4
    <3>2. Start(d, j) \in Nat
      BY <1>4, <3>1
    <3> QED
      BY <1>2, <2>2, <3>1, <3>2
  <2> DEFINE e == RangeEnd(d, id)
  <2>5. \E k \in s .. NumBuckets :
          /\ k = NumBuckets \/ Start(d, k) >= d.my_end[id]
          /\ \A j \in s .. k - 1 : Start(d, j) < d.my_end[id]
    BY <2>2, <2>3, <2>4
  <2>6. /\ e \in s .. NumBuckets /\ (e = NumBuckets \/ Start(d, e) >= d.my_end[id])
        /\ \A j \in s .. e - 1 : Start(d, j) < d.my_end[id]
    BY <1>6, <2>5 DEF RangeEnd, s
  <2> HIDE DEF e
  <2>7. e \in 0 .. NumBuckets /\ s <= e
    BY <1>1, <1>3, <2>6
  <2>8. Start(d, e) \in Nat /\ Start(d, e) >= d.my_end[id]
    BY <1>2, <1>4, <2>6, <2>7
  <2>9. e # 0
    BY <1>2, <1>4, <2>8
  <2>10. ASSUME NEW j \in 0 .. e - 1 PROVE Start(d, j) < d.my_end[id]
    <3>1. CASE j \in s .. e - 1
      BY <2>6, <3>1
    <3>2. CASE j \notin s .. e - 1
      <4>1. j \in 0 .. s - 1 /\ j \in 0 .. NumBuckets
        BY <1>1, <1>3, <2>7, <3>2
      <4>2. Start(d, j) < d.my_begin[id] /\ Start(d, j) \in Nat
        BY <1>1, <1>4, <4>1 DEF s
      <4> QED
        BY <1>2, <4>2
    <3> QED
      BY <3>1, <3>2
  <2> QED
    BY <1>3, <1>6, <2>7, <2>8, <2>9, <2>10 DEF e, s
<1> QED
  BY <1>5, <1>6

(* The overlapping bucket of a thread, the stripes up to the bucket's end. *)
LEMMA LastFacts ==
  ASSUME NEW d, Stripes(d), NEW id \in Threads
  PROVE  /\ LastBucket(d, id) \in Buckets /\ LastBucket(d, id) + 1 = RangeEnd(d, id)
         /\ LastStart(d, id) = Start(d, LastBucket(d, id))
         /\ BucketEnd(d, id) = Start(d, LastBucket(d, id) + 1)
         /\ LastStart(d, id) \in Nat /\ BucketEnd(d, id) \in Nat
         /\ OnBlock(LastStart(d, id)) /\ OnBlock(BucketEnd(d, id))
         /\ LastStart(d, id) <= BucketEnd(d, id) /\ d.my_end[id] <= BucketEnd(d, id)
         /\ id < NumThreads - 1 => LastStart(d, id) < d.my_end[id]
         /\ id = NumThreads - 1 => BucketEnd(d, id) = Start(d, NumBuckets)
<1> DEFINE e == RangeEnd(d, id)
<1>1. /\ e \in 1 .. NumBuckets /\ Start(d, e) >= d.my_end[id]
      /\ id < NumThreads - 1 => \A j \in 0 .. e - 1 : Start(d, j) < d.my_end[id]
      /\ id = NumThreads - 1 => e = NumBuckets
  BY RangeEndFacts
<1> HIDE DEF e
<1>2. NumBuckets \in Nat \ {0} /\ Buckets = 0 .. NumBuckets - 1
  BY Constants
<1>3. /\ e - 1 \in Buckets /\ (e - 1) + 1 = e /\ e - 1 \in 0 .. e - 1
      /\ e \in 0 .. NumBuckets /\ e - 1 \in 0 .. NumBuckets /\ e - 1 <= e
  BY <1>1, <1>2
<1>4. /\ Start(d, e) \in Nat /\ Start(d, e - 1) \in Nat /\ OnBlock(Start(d, e)) /\ OnBlock(Start(d, e - 1))
      /\ Start(d, e - 1) <= Start(d, e)
  BY <1>3, StartFacts
<1>5. d.my_end[id] \in Nat
  BY StripeFacts
<1>6. LastBucket(d, id) = e - 1 /\ LastStart(d, id) = Start(d, e - 1) /\ BucketEnd(d, id) = Start(d, e)
  BY DEF LastBucket, LastStart, BucketEnd, e
<1> QED
  BY <1>1, <1>3, <1>4, <1>5, <1>6 DEF e

LEMMA ReadBoundFacts ==
  ASSUME NEW d, Stripes(d), NEW id \in Threads
  PROVE  /\ ReadBound(d, id) \in id + 1 .. NumThreads
         /\ ReadBound(d, id) = NumThreads \/ BucketEnd(d, id) <= d.my_begin[ReadBound(d, id)]
         /\ \A p \in id + 1 .. ReadBound(d, id) - 1 : BucketEnd(d, id) > d.my_begin[p]
<1> DEFINE T == {r \in id + 1 .. NumThreads : r = NumThreads \/ BucketEnd(d, id) <= d.my_begin[r]}
<1>0. NumThreads \in Nat \ {0} /\ Threads = 0 .. NumThreads - 1 /\ id \in Nat
  BY Constants
<1>1. NumThreads \in T /\ T \subseteq Nat
  BY <1>0
<1>2. \A r : r \in T <=> r \in id + 1 .. NumThreads /\ (r = NumThreads \/ BucketEnd(d, id) <= d.my_begin[r])
  OBVIOUS
<1> HIDE DEF T
<1>3. PICK r \in T : \A y \in T : r <= y
  BY <1>1, Least
<1>4. ASSUME NEW p \in id + 1 .. r - 1 PROVE BucketEnd(d, id) > d.my_begin[p]
  <2>1. r \in id + 1 .. NumThreads
    BY <1>2
  <2>2. p \in id + 1 .. NumThreads /\ p # NumThreads /\ p \in Threads /\ p < r
    BY <1>0, <2>1
  <2>3. p \notin T
    BY <1>0, <1>3, <2>1, <2>2
  <2>4. BucketEnd(d, id) \in Nat /\ d.my_begin[p] \in Nat
    BY <2>2, LastFacts, StripeFacts
  <2> QED
    BY <1>2, <2>2, <2>3, <2>4
<1>5. \E k \in id + 1 .. NumThreads :
        /\ k = NumThreads \/ BucketEnd(d, id) <= d.my_begin[k]
        /\ \A p \in id + 1 .. k - 1 : BucketEnd(d, id) > d.my_begin[p]
  BY <1>2, <1>3, <1>4
<1> QED
  BY <1>5 DEF ReadBound

------------------------------------------------------------------------------
(* The end of the full blocks of a bucket once its gaps are closed, and    *)
(* the empty space in front of a position.                                 *)
Filled(d, b) == Start(d, b) + Full(d, Start(d, b + 1)) - Full(d, Start(d, b))
Holes(d, y)  == y - Full(d, y)

LEMMA HolesAscend ==
  ASSUME NEW d, Stripes(d), NEW x \in Nat, NEW y \in Nat, x <= y
  PROVE  /\ Full(d, x) \in Int /\ Full(d, y) \in Int /\ Holes(d, x) \in Int /\ Holes(d, y) \in Int
         /\ Full(d, x) <= Full(d, y) /\ Full(d, y) - Full(d, x) <= y - x
         /\ Holes(d, x) <= Holes(d, y) /\ Holes(d, y) - Holes(d, x) <= y - x
<1>1. Full(d, x) \in Int /\ Full(d, y) \in Int
  BY FullType
<1>2. Full(d, x) <= Full(d, y) /\ Full(d, y) - Full(d, x) <= y - x
  BY FullAscends
<1> QED
  BY <1>1, <1>2 DEF Holes

(* A stripe has no holes in its full part and nothing else in the rest.    *)
LEMMA StripeParts ==
  ASSUME NEW d, Stripes(d), NEW p \in Threads, NEW x \in Nat, NEW y \in Nat, x <= y,
         d.my_begin[p] <= x, p < NumThreads - 1 => y <= d.my_end[p]
  PROVE  /\ y <= d.first_empty[p] =>
              Full(d, y) - Full(d, x) = y - x /\ Holes(d, y) = Holes(d, x)
         /\ d.first_empty[p] <= x =>
              Full(d, y) = Full(d, x) /\ Holes(d, y) - Holes(d, x) = y - x
<1>1. d.my_begin[p] \in Nat /\ d.my_end[p] \in Nat /\ NumThreads \in Nat /\ p \in Nat
  BY StripeFacts, Constants
<1>2. Reaches(d, p, x) /\ Reaches(d, p, y)
  BY <1>1 DEF Reaches
<1>3. Full(d, x) \in Int /\ Full(d, y) \in Int
  BY FullType
<1>4. /\ y <= d.first_empty[p] => Full(d, y) - Full(d, x) = y - x
      /\ d.first_empty[p] <= x => Full(d, y) = Full(d, x)
  BY <1>2, FullWithin
<1> QED
  BY <1>3, <1>4 DEF Holes

LEMMA FilledFacts ==
  ASSUME NEW d, Stripes(d), NEW b \in Buckets
  PROVE  /\ Filled(d, b) \in Nat /\ OnBlock(Filled(d, b))
         /\ Start(d, b) <= Filled(d, b) /\ Filled(d, b) <= Start(d, b + 1)
         /\ Start(d, b) \in Nat /\ Start(d, b + 1) \in Nat /\ Start(d, b) <= Start(d, b + 1)
         /\ OnBlock(Start(d, b)) /\ OnBlock(Start(d, b + 1))
         /\ Holes(d, Filled(d, b)) - Holes(d, Start(d, b))
              = Full(d, Start(d, b + 1)) - Full(d, Filled(d, b))
<1>1. b \in 0 .. NumBuckets /\ b + 1 \in 0 .. NumBuckets /\ b <= b + 1
  BY Constants
<1>2. /\ Start(d, b) \in Nat /\ Start(d, b + 1) \in Nat /\ Start(d, b) <= Start(d, b + 1)
      /\ OnBlock(Start(d, b)) /\ OnBlock(Start(d, b + 1))
  BY <1>1, StartFacts
<1> DEFINE s == Start(d, b)
           e == Start(d, b + 1)
           x == Filled(d, b)
<1>3. x = s + Full(d, e) - Full(d, s)
  BY DEF Filled
<1>4. /\ s \in Nat /\ e \in Nat /\ s <= e /\ OnBlock(s) /\ OnBlock(e)
  BY <1>2
<1> HIDE DEF s, e, x
<1>5. /\ Full(d, s) \in Int /\ Full(d, e) \in Int /\ Full(d, s) <= Full(d, e)
      /\ Full(d, e) - Full(d, s) <= e - s
  BY <1>4, HolesAscend
<1>6. OnBlock(Full(d, s)) /\ OnBlock(Full(d, e)) /\ Full(d, s) \in Nat /\ Full(d, e) \in Nat
  BY <1>4, FullOnBlock, OnBlocks
<1>7. OnBlock(Full(d, e) - Full(d, s))
  BY <1>5, <1>6, OnBlocks
<1>8. OnBlock(s + (Full(d, e) - Full(d, s)))
  BY <1>4, <1>7, OnBlocks
<1>9. x = s + (Full(d, e) - Full(d, s)) /\ x \in Nat /\ s <= x /\ x <= e
  BY <1>3, <1>4, <1>5
<1>10. Full(d, x) \in Int
  BY <1>9, FullType
<1>11. Holes(d, x) - Holes(d, s) = Full(d, e) - Full(d, x)
  BY <1>4, <1>5, <1>9, <1>10 DEF Holes
<1> QED
  BY <1>4, <1>8, <1>9, <1>11 DEF s, e, x

LEMMA MaxFacts ==
  ASSUME NEW a \in Int, NEW b \in Int
  PROVE  /\ MaxOf(a, b) \in {a, b} /\ a <= MaxOf(a, b) /\ b <= MaxOf(a, b)
         /\ MinOf(a, b) \in {a, b} /\ MinOf(a, b) <= a /\ MinOf(a, b) <= b
BY DEF MaxOf, MinOf

(* The loop over the stripes to the left counts what is in front.          *)
LEMMA LeftCount ==
  ASSUME NEW d, Stripes(d), NEW id \in Threads
  PROVE  FlushedLeft(d, id) = IF d.my_begin[id] <= LastStart(d, id) THEN 0
                              ELSE Full(d, d.my_begin[id]) - Full(d, LastStart(d, id))
<1> DEFINE s == LastStart(d, id)
           K == Before(Flushed(d))
           h == Holder(d, s)
           Is(p) == s >= d.my_begin[p] /\ \A q \in p + 1 .. id - 1 : s < d.my_begin[q]
<1>0. NumThreads \in Nat \ {0} /\ Threads = 0 .. NumThreads - 1 /\ id \in Nat
  BY Constants
<1>1. s \in Nat
  BY LastFacts
<1>2. d.my_begin[id] \in Nat
  BY StripeFacts
<1>3. CASE s >= d.my_begin[id]
  BY <1>1, <1>2, <1>3 DEF FlushedLeft
<1>4. CASE ~(s >= d.my_begin[id])
  <2>1. s < d.my_begin[id]
    BY <1>1, <1>2, <1>4
  <2>2. h \in Threads /\ d.my_begin[h] <= s /\ (h < NumThreads - 1 => s < d.my_end[h])
    BY <1>1, HolderFacts
  <2> DEFINE first == CHOOSE p \in 0 .. id - 1 : Is(p)
  <2>3. FlushedLeft(d, id) = Sum(Flushed(d), first + 1, id) + MaxOf(0, d.first_empty[first] - s)
    BY <1>4 DEF FlushedLeft
  <2>4. first \in 0 .. id - 1 /\ Is(first)
    <3>1. \E p \in 0 .. id - 1 : Is(p)
      <4> HIDE DEF h, s
      <4>1. ASSUME NEW q \in Threads, h < q PROVE d.my_end[h] <= d.my_begin[q]
        BY <2>2, <4>1, StripesAscend
      <4>2. h < id
        <5>1. id < h => d.my_end[id] <= d.my_begin[h]
          BY <2>2, StripesAscend
        <5>2. d.my_end[id] \in Nat /\ d.my_begin[id] < d.my_end[id] /\ d.my_begin[h] \in Nat
          BY <2>2, StripeFacts
        <5>3. id # h
          BY <1>1, <1>2, <2>1, <2>2
        <5> QED
          BY <1>0, <1>1, <1>2, <2>1, <2>2, <5>1, <5>2, <5>3
      <4>3. d.my_end[h] \in Nat /\ d.my_begin[h] \in Nat /\ s < d.my_end[h]
        BY <1>0, <2>2, <4>2, StripeFacts
      <4>4. ASSUME NEW q \in h + 1 .. id - 1 PROVE s < d.my_begin[q]
        <5>1. q \in Threads /\ h < q
          BY <1>0, <2>2, <4>4
        <5>2. d.my_begin[q] \in Nat
          BY <5>1, StripeFacts
        <5> QED
          BY <1>1, <4>1, <4>3, <5>1, <5>2
      <4>5. Is(h)
        BY <1>1, <2>2, <4>3, <4>4
      <4> QED
        BY <1>0, <2>2, <4>2, <4>5
    <3> HIDE DEF Is
    <3> QED
      BY <3>1
  <2> HIDE DEF first, s, K, h
  <2>5. first \in Threads /\ first + 1 \in Threads /\ first < NumThreads - 1 /\ first \in Nat
        /\ first + 1 \in 0 .. NumThreads /\ id \in 0 .. NumThreads
    BY <1>0, <2>4
  <2>6. /\ d.my_end[first] = d.my_begin[first + 1] /\ d.my_begin[first] \in Nat
        /\ d.my_end[first] \in Nat /\ d.first_empty[first] \in Nat
        /\ d.first_empty[first] <= d.my_end[first]
    BY <2>5, StripeFacts
  <2>7. s < d.my_end[first] /\ d.my_begin[first] <= s
    <3>1. CASE first + 1 = id
      BY <2>1, <2>4, <2>6, <3>1, <1>1
    <3>2. CASE first + 1 # id
      <4>1. first + 1 \in first + 1 .. id - 1
        BY <1>0, <2>4, <3>2
      <4> QED
        BY <1>1, <2>4, <2>6, <4>1
    <3> QED
      BY <3>1, <3>2
  <2>8. Full(d, d.my_end[first]) - Full(d, s) = MaxOf(0, d.first_empty[first] - s)
    <3>1. /\ Reaches(d, first, s) /\ Reaches(d, first, d.my_end[first])
      BY <2>5, <2>6, <2>7, <1>1 DEF Reaches
    <3>2. Full(d, d.my_end[first]) - Full(d, s)
            = MinOf(d.first_empty[first], d.my_end[first]) - MinOf(d.first_empty[first], s)
      BY <1>1, <2>5, <2>6, <2>7, <3>1, FullWithin
    <3> QED
      BY <1>1, <2>6, <2>7, <3>2 DEF MinOf, MaxOf
  <2>9. ASSUME NEW p \in Threads PROVE Full(d, d.my_begin[p]) = K[p]
    <3>1. d.my_begin[p] \in Nat /\ d.first_empty[p] \in Nat /\ d.my_begin[p] <= d.first_empty[p]
          /\ d.my_end[p] \in Nat /\ d.my_begin[p] < d.my_end[p]
      BY StripeFacts
    <3>2. Reaches(d, p, d.my_begin[p])
      BY <3>1 DEF Reaches
    <3>3. Full(d, d.my_begin[p]) = K[p] + MinOf(d.first_empty[p], d.my_begin[p]) - d.my_begin[p]
      BY <3>1, <3>2, FullIn DEF K
    <3>4. p \in 0 .. NumThreads
      BY <1>0
    <3>5. K[p] \in Int
      BY <3>4, StripesAscend DEF K
    <3> QED
      BY <3>1, <3>3, <3>5 DEF MinOf
  <2>10. Sum(Flushed(d), first + 1, id) = K[id] - K[first + 1]
    BY DEF Sum, K
  <2>11. K[id] = Full(d, d.my_begin[id]) /\ K[first + 1] = Full(d, d.my_end[first])
    BY <2>5, <2>6, <2>9
  <2>12. Full(d, d.my_begin[id]) \in Int /\ Full(d, d.my_end[first]) \in Int /\ Full(d, s) \in Int
    BY <1>1, <1>2, <2>6, FullType
  <2>13. FlushedLeft(d, id) = Full(d, d.my_begin[id]) - Full(d, s)
    BY <2>3, <2>8, <2>10, <2>11, <2>12
  <2>14. ~(d.my_begin[id] <= s)
    BY <1>1, <1>2, <2>1
  <2> QED
    BY <2>13, <2>14 DEF s
<1> QED
  BY <1>3, <1>4

(* So does the loop over the stripes to the right.                         *)
LEMMA ReadableFacts ==
  ASSUME NEW d, Stripes(d), NEW id \in Threads, BucketEnd(d, id) > d.my_end[id],
         NEW p \in id + 1 .. ReadBound(d, id) - 1
  PROVE  /\ p \in Threads /\ p \in Nat
         /\ ReadEnd(d, id, p) \in Nat /\ OnBlock(ReadEnd(d, id, p))
         /\ d.my_begin[p] <= ReadEnd(d, id, p) /\ ReadEnd(d, id, p) <= d.first_empty[p]
         /\ ReadEnd(d, id, p) <= BucketEnd(d, id)
         /\ Full(d, ReadEnd(d, id, p)) =
              Full(d, IF p + 1 = ReadBound(d, id) THEN BucketEnd(d, id) ELSE d.my_begin[p + 1])
<1> DEFINE e == BucketEnd(d, id)
           r == ReadBound(d, id)
           y == IF p + 1 = r THEN e ELSE d.my_begin[p + 1]
           z == ReadEnd(d, id, p)
<1>0. NumThreads \in Nat \ {0} /\ Threads = 0 .. NumThreads - 1 /\ id \in Nat
  BY Constants
<1>1. /\ r \in id + 1 .. NumThreads /\ (r = NumThreads \/ e <= d.my_begin[r])
      /\ \A q \in id + 1 .. r - 1 : e > d.my_begin[q]
  BY ReadBoundFacts
<1>2. e \in Nat /\ OnBlock(e)
  BY LastFacts
<1>3. z = MinOf(d.first_empty[p], e)
  BY DEF ReadEnd
<1> HIDE DEF e, r, z
<1>4. p \in Threads /\ p \in Nat /\ p < r /\ r \in Nat /\ p \in id + 1 .. r - 1 /\ p + 1 <= r
  BY <1>0, <1>1 DEF r
<1>5. /\ d.my_begin[p] \in Nat /\ d.first_empty[p] \in Nat /\ d.my_end[p] \in Nat
      /\ OnBlock(d.first_empty[p]) /\ d.my_begin[p] <= d.first_empty[p]
      /\ d.first_empty[p] <= d.my_end[p] /\ (p < NumThreads - 1 => d.my_end[p] = d.my_begin[p + 1])
  BY <1>4, StripeFacts
<1>6. d.my_begin[p] < e
  BY <1>1, <1>2, <1>4, <1>5
<1>7. z \in Nat /\ OnBlock(z) /\ d.my_begin[p] <= z /\ z <= d.first_empty[p] /\ z <= e
  <2>1. OnBlock(z)
    BY <1>2, <1>3, <1>5, OnBlocks
  <2> QED
    BY <1>2, <1>3, <1>5, <1>6, <2>1 DEF MinOf
<1>8. /\ y \in Nat /\ y <= e /\ d.my_begin[p] <= y /\ (p < NumThreads - 1 => y <= d.my_end[p])
      /\ z <= y /\ (z < y => z = d.first_empty[p])
  <2>1. CASE p + 1 = r
    <3>1. p < NumThreads - 1 => r # NumThreads
      BY <1>0, <1>4, <2>1
    <3>2. p < NumThreads - 1 => e <= d.my_end[p]
      BY <1>1, <1>5, <2>1, <3>1
    <3> QED
      BY <1>2, <1>3, <1>5, <1>6, <1>7, <2>1, <3>2 DEF MinOf
  <2>2. CASE p + 1 # r
    <3>1. p + 1 \in id + 1 .. r - 1 /\ p < NumThreads - 1
      BY <1>0, <1>1, <1>4, <2>2
    <3>2. d.my_begin[p + 1] = d.my_end[p] /\ d.my_begin[p + 1] < e
      BY <1>1, <1>5, <1>2, <3>1
    <3> QED
      BY <1>2, <1>3, <1>5, <1>7, <2>2, <3>2 DEF MinOf
  <2> QED
    BY <2>1, <2>2
<1> HIDE DEF y
<1>9. Full(d, z) = Full(d, y)
  <2>1. CASE z = y
    BY <2>1
  <2>2. CASE z # y
    <3>1. z < y /\ d.first_empty[p] <= z
      BY <1>5, <1>7, <1>8, <2>2
    <3> QED
      BY <1>4, <1>7, <1>8, <3>1, StripeParts
  <2> QED
    BY <2>1, <2>2
<1> QED
  BY <1>4, <1>7, <1>9 DEF e, r, y, z

LEMMA RightCount ==
  ASSUME NEW d, Stripes(d), NEW id \in Threads, BucketEnd(d, id) > d.my_end[id]
  PROVE  FlushedRight(d, id) = Full(d, BucketEnd(d, id)) - Full(d, d.my_end[id])
<1> DEFINE e == BucketEnd(d, id)
           r == ReadBound(d, id)
           f == Readable(d, id)
           G == Before(f)
           y(q) == IF q = r THEN e ELSE d.my_begin[q]
           Wrong == {q \in id + 1 .. r : G[q] - G[id + 1] # Full(d, y(q)) - Full(d, d.my_end[id])}
<1>0. NumThreads \in Nat \ {0} /\ Threads = 0 .. NumThreads - 1 /\ id \in Nat
  BY Constants
<1>1. /\ r \in id + 1 .. NumThreads /\ (r = NumThreads \/ e <= d.my_begin[r])
      /\ \A q \in id + 1 .. r - 1 : e > d.my_begin[q]
  BY ReadBoundFacts
<1>2. e \in Nat /\ d.my_end[id] \in Nat /\ e > d.my_end[id]
  BY LastFacts, StripeFacts
<1>3. ASSUME NEW p \in Threads
      PROVE  f[p] = ReadEnd(d, id, p) - d.my_begin[p] /\ f[p] \in Int
  <2>1. d.first_empty[p] \in Nat /\ d.my_begin[p] \in Nat
    BY StripeFacts
  <2>2. f[p] = ReadEnd(d, id, p) - d.my_begin[p]
    BY DEF Readable
  <2>3. ReadEnd(d, id, p) \in Nat
    BY <1>2, <2>1 DEF ReadEnd, MinOf
  <2> HIDE DEF f
  <2> QED
    BY <2>1, <2>2, <2>3
<1>4. /\ \A p \in 0 .. NumThreads : G[p] \in Int
      /\ \A p \in Threads : G[p + 1] = G[p] + f[p]
  <2> HIDE DEF f
  <2> QED
    BY <1>3, BeforeFacts
<1>5. FlushedRight(d, id) = G[r] - G[id + 1]
  BY DEF FlushedRight, Sum
<1>6. \A q \in id + 1 .. r : y(q) \in Nat
  <2> TAKE q \in id + 1 .. r
  <2>1. q # r => q \in Threads
    BY <1>0, <1>1
  <2> QED
    BY <1>2, <2>1, StripeFacts
<1>7. Full(d, y(id + 1)) = Full(d, d.my_end[id])
  <2>1. CASE id < NumThreads - 1
    <3>1. d.my_end[id] = d.my_begin[id + 1]
      BY <2>1, StripeFacts
    <3>2. r # id + 1
      <4> SUFFICES ASSUME r = id + 1 PROVE FALSE
        OBVIOUS
      <4>1. r # NumThreads
        BY <1>0, <2>1
      <4> QED
        BY <1>1, <1>2, <3>1, <4>1
    <3> QED
      BY <3>1, <3>2
  <2>2. CASE ~(id < NumThreads - 1)
    <3>1. id = NumThreads - 1 /\ r = id + 1 /\ r = NumThreads
      BY <1>0, <1>1, <2>2
    <3>2. y(id + 1) = e
      BY <3>1
    <3>3. d.my_begin[id] <= d.my_end[id] /\ d.first_empty[id] <= d.my_end[id] /\ d.my_begin[id] \in Nat
      BY <1>2, StripeFacts
    <3>4. Full(d, e) = Full(d, d.my_end[id])
      <4> HIDE DEF e
      <4>1. d.my_end[id] <= e /\ ~(id < NumThreads - 1)
        BY <1>2, <2>2
      <4> QED
        BY <1>2, <3>3, <4>1, StripeParts
    <3> QED
      BY <3>2, <3>4
  <2> QED
    BY <2>1, <2>2
<1>8. ASSUME NEW p \in id + 1 .. r - 1
      PROVE  p \in Threads /\ f[p] = Full(d, y(p + 1)) - Full(d, y(p))
  <2>1. /\ p \in Threads /\ ReadEnd(d, id, p) \in Nat
        /\ d.my_begin[p] <= ReadEnd(d, id, p) /\ ReadEnd(d, id, p) <= d.first_empty[p]
        /\ Full(d, ReadEnd(d, id, p)) = Full(d, y(p + 1))
    BY <1>2, ReadableFacts
  <2>2. p # r
    BY <1>0, <1>1
  <2>3. y(p) = d.my_begin[p]
    BY <2>2
  <2>4. /\ d.my_begin[p] \in Nat /\ d.first_empty[p] \in Nat /\ d.first_empty[p] <= d.my_end[p]
        /\ d.my_end[p] \in Nat
    BY <2>1, StripeFacts
  <2>5. ReadEnd(d, id, p) <= d.my_end[p] /\ d.my_begin[p] <= d.my_begin[p]
    BY <2>1, <2>4
  <2>6. Full(d, ReadEnd(d, id, p)) - Full(d, d.my_begin[p]) = ReadEnd(d, id, p) - d.my_begin[p]
    BY <2>1, <2>4, <2>5, StripeParts
  <2> QED
    BY <1>3, <2>1, <2>3, <2>6
<1>9. Wrong = {}
  <2> SUFFICES ASSUME Wrong # {} PROVE FALSE
    OBVIOUS
  <2>1. Wrong \subseteq Nat
    BY <1>0, <1>1
  <2>2. \A q : q \in Wrong <=> q \in id + 1 .. r /\ G[q] - G[id + 1] # Full(d, y(q)) - Full(d, d.my_end[id])
    OBVIOUS
  <2> HIDE DEF Wrong, G, f, y, r, e
  <2>3. PICK q \in Wrong : \A x \in Wrong : q <= x
    BY <2>1, Least
  <2>4. q \in id + 1 .. r /\ q \in 0 .. NumThreads /\ id + 1 \in 0 .. NumThreads /\ q \in Nat
    BY <1>0, <1>1, <2>2, <2>3
  <2>5. /\ G[q] \in Int /\ G[id + 1] \in Int /\ Full(d, y(q)) \in Int /\ Full(d, d.my_end[id]) \in Int
    BY <1>2, <1>4, <1>6, <2>4, FullType
  <2>6. q # id + 1
    BY <1>7, <2>2, <2>3, <2>5
  <2>7. q - 1 \in id + 1 .. r - 1 /\ q - 1 \in id + 1 .. r /\ (q - 1) + 1 = q /\ q - 1 \notin Wrong
        /\ q - 1 \in 0 .. NumThreads
    BY <1>0, <1>1, <2>3, <2>4, <2>6
  <2>8. G[q - 1] - G[id + 1] = Full(d, y(q - 1)) - Full(d, d.my_end[id])
    BY <2>2, <2>7
  <2>9. f[q - 1] = Full(d, y(q)) - Full(d, y(q - 1)) /\ q - 1 \in Threads
    BY <1>8, <2>7
  <2>10. G[q] = G[q - 1] + f[q - 1]
    BY <1>4, <2>7, <2>9
  <2>11. Full(d, y(q - 1)) \in Int /\ G[q - 1] \in Int
    BY <1>4, <1>6, <2>7, FullType
  <2>12. G[q] - G[id + 1] = Full(d, y(q)) - Full(d, d.my_end[id])
    BY <2>5, <2>8, <2>9, <2>10, <2>11
  <2> QED
    BY <2>2, <2>3, <2>12
<1>10. G[r] - G[id + 1] = Full(d, y(r)) - Full(d, d.my_end[id]) /\ y(r) = e
  <2>1. r \in id + 1 .. r
    BY <1>0, <1>1
  <2> QED
    BY <1>9, <2>1
<1> QED
  BY <1>5, <1>10

------------------------------------------------------------------------------
(* What a thread with an overlapping bucket counts.                        *)
LEMMA FirstEmptyIsFilled ==
  ASSUME NEW d, Stripes(d), NEW id \in Threads, BucketEnd(d, id) > d.my_end[id]
  PROVE  FirstEmptyInBucket(d, id) = Filled(d, LastBucket(d, id))
<1> DEFINE s == LastStart(d, id)
           e == BucketEnd(d, id)
           m == MaxOf(d.my_begin[id], s)
           z == MaxOf(d.my_end[id], s)
<1>0. NumThreads \in Nat \ {0} /\ Threads = 0 .. NumThreads - 1 /\ id \in Nat
  BY Constants
<1>1. /\ s \in Nat /\ e \in Nat /\ s <= e
      /\ id < NumThreads - 1 => s < d.my_end[id]
      /\ s = Start(d, LastBucket(d, id)) /\ e = Start(d, LastBucket(d, id) + 1)
  BY LastFacts
<1>2. /\ d.my_begin[id] \in Nat /\ d.my_end[id] \in Nat /\ d.first_empty[id] \in Nat
      /\ d.my_begin[id] <= d.first_empty[id] /\ d.first_empty[id] <= d.my_end[id]
      /\ d.my_begin[id] < d.my_end[id]
  BY StripeFacts
<1>3. e > d.my_end[id]
  OBVIOUS
<1>4. /\ FlushedLeft(d, id) = IF d.my_begin[id] <= s THEN 0 ELSE Full(d, d.my_begin[id]) - Full(d, s)
      /\ FlushedOwn(d, id) = MaxOf(0, d.first_empty[id] - m)
      /\ FlushedRight(d, id) = Full(d, e) - Full(d, d.my_end[id])
      /\ FirstEmptyInBucket(d, id) = s + FlushedLeft(d, id) + FlushedOwn(d, id) + FlushedRight(d, id)
      /\ Filled(d, LastBucket(d, id)) = s + Full(d, e) - Full(d, s)
  BY <1>1, LeftCount, RightCount DEF FlushedOwn, FirstEmptyInBucket, Filled
<1> HIDE DEF s, e
<1>5. m \in Nat /\ z \in Nat /\ m <= z /\ d.my_begin[id] <= m /\ s <= m
  BY <1>1, <1>2 DEF MaxOf
<1>6. /\ d.my_begin[id] <= z /\ (id < NumThreads - 1 => z <= d.my_end[id] /\ m <= d.my_end[id])
  BY <1>1, <1>2 DEF MaxOf
<1>7. Full(d, z) = Full(d, d.my_end[id])
  <2>1. d.my_end[id] <= z
    BY <1>1, <1>2 DEF MaxOf
  <2> HIDE DEF z
  <2> QED
    BY <1>2, <1>5, <1>6, <2>1, StripeParts
<1>8. Full(d, z) - Full(d, m) = MaxOf(0, d.first_empty[id] - m)
  <2> HIDE DEF z, m
  <2>1. Reaches(d, id, z) /\ Reaches(d, id, m)
    BY <1>5, <1>6 DEF Reaches
  <2>2. Full(d, z) - Full(d, m) = MinOf(d.first_empty[id], z) - MinOf(d.first_empty[id], m)
    BY <1>5, <2>1, FullWithin
  <2>3. d.first_empty[id] <= z
    BY <1>1, <1>2 DEF MaxOf, z
  <2> QED
    BY <1>2, <1>5, <2>2, <2>3 DEF MinOf, MaxOf
<1>9. /\ Full(d, z) \in Int /\ Full(d, m) \in Int /\ Full(d, s) \in Int /\ Full(d, e) \in Int
      /\ Full(d, d.my_begin[id]) \in Int /\ Full(d, d.my_end[id]) \in Int
  BY <1>1, <1>2, <1>5, FullType
<1>10. FlushedLeft(d, id) = Full(d, m) - Full(d, s)
  <2>1. CASE d.my_begin[id] <= s
    <3>1. m = s
      BY <1>1, <1>2, <2>1 DEF MaxOf
    <3> QED
      BY <1>4, <1>9, <2>1, <3>1
  <2>2. CASE ~(d.my_begin[id] <= s)
    <3>1. m = d.my_begin[id]
      BY <1>1, <1>2, <2>2 DEF MaxOf
    <3> QED
      BY <1>4, <2>2, <3>1
  <2> QED
    BY <2>1, <2>2
<1> HIDE DEF m, z
<1> QED
  BY <1>1, <1>4, <1>7, <1>8, <1>9, <1>10

(* The holes that threads to the left fill first.                          *)
LEMMA ReservedIsHoles ==
  ASSUME NEW d, Stripes(d), NEW id \in Threads
  PROVE  Reserved(d, id) = Holes(d, MaxOf(d.my_begin[id], LastStart(d, id))) - Holes(d, LastStart(d, id))
<1> DEFINE s == LastStart(d, id)
<1>1. s \in Nat /\ d.my_begin[id] \in Nat
  BY LastFacts, StripeFacts
<1>2. FlushedLeft(d, id) = IF d.my_begin[id] <= s THEN 0 ELSE Full(d, d.my_begin[id]) - Full(d, s)
  BY LeftCount
<1>3. Reserved(d, id) = IF d.my_begin[id] > s THEN d.my_begin[id] - s - FlushedLeft(d, id) ELSE 0
  BY DEF Reserved
<1> HIDE DEF s
<1>4. Full(d, s) \in Int /\ Full(d, d.my_begin[id]) \in Int
  BY <1>1, FullType
<1>5. CASE d.my_begin[id] <= s
  <2>1. MaxOf(d.my_begin[id], s) = s /\ ~(d.my_begin[id] > s)
    BY <1>1, <1>5 DEF MaxOf
  <2> QED
    BY <1>1, <1>3, <1>4, <2>1 DEF Holes, s
<1>6. CASE ~(d.my_begin[id] <= s)
  <2>1. MaxOf(d.my_begin[id], s) = d.my_begin[id] /\ d.my_begin[id] > s
    BY <1>1, <1>6 DEF MaxOf
  <2> QED
    BY <1>1, <1>2, <1>3, <1>4, <1>6, <2>1 DEF Holes, s
<1> QED
  BY <1>5, <1>6

(* A thread that has something to fill fills holes of its own stripe, and  *)
(* there are enough blocks to the right of it, also for those to its left. *)
LEMMA NeedFacts ==
  ASSUME NEW d, Stripes(d), NEW id \in Threads, BucketEnd(d, id) > d.my_end[id]
  PROVE  /\ Reserved(d, id) \in Nat /\ OnBlock(Reserved(d, id))
         /\ FillBegin(d, id) \in Nat /\ OnBlock(FillBegin(d, id)) /\ FillEnd(d, id) \in Nat
         /\ FillBegin(d, id) < FillEnd(d, id) =>
              /\ id < NumThreads - 1 /\ OnBlock(FillEnd(d, id))
              /\ LastStart(d, id) < d.my_end[id] /\ LastStart(d, id) <= FillBegin(d, id)
              /\ d.first_empty[id] <= FillBegin(d, id) /\ FillEnd(d, id) <= d.my_end[id]
              /\ FillEnd(d, id) <= Filled(d, LastBucket(d, id))
              /\ Reserved(d, id) + (FillEnd(d, id) - FillBegin(d, id))
                   = Holes(d, FillEnd(d, id)) - Holes(d, LastStart(d, id))
              /\ Reserved(d, id) + (FillEnd(d, id) - FillBegin(d, id))
                   <= Full(d, BucketEnd(d, id)) - Full(d, d.my_end[id])
<1> DEFINE s == LastStart(d, id)
           e == BucketEnd(d, id)
           x == Filled(d, LastBucket(d, id))
           m == MaxOf(d.my_begin[id], s)
           a == FillBegin(d, id)
           z == FillEnd(d, id)
           r == Reserved(d, id)
<1>0. NumThreads \in Nat \ {0} /\ Threads = 0 .. NumThreads - 1 /\ id \in Nat
  BY Constants
<1>1. /\ s \in Nat /\ e \in Nat /\ s <= e /\ OnBlock(s) /\ OnBlock(e)
      /\ id < NumThreads - 1 => s < d.my_end[id]
      /\ s = Start(d, LastBucket(d, id)) /\ e = Start(d, LastBucket(d, id) + 1)
      /\ LastBucket(d, id) \in Buckets
  BY LastFacts
<1>2. /\ d.my_begin[id] \in Nat /\ d.my_end[id] \in Nat /\ d.first_empty[id] \in Nat
      /\ d.my_begin[id] <= d.first_empty[id] /\ d.first_empty[id] <= d.my_end[id]
      /\ d.my_begin[id] < d.my_end[id] /\ OnBlock(d.my_begin[id]) /\ OnBlock(d.first_empty[id])
  BY StripeFacts
<1>3. e > d.my_end[id]
  OBVIOUS
<1>4. x \in Nat /\ OnBlock(x) /\ s <= x /\ x <= e /\ Holes(d, x) - Holes(d, s) = Full(d, e) - Full(d, x)
  BY <1>1, FilledFacts
<1>5. a = MaxOf(d.first_empty[id], s) /\ z = MinOf(x, d.my_end[id]) /\ r = Holes(d, m) - Holes(d, s)
  BY FirstEmptyIsFilled, ReservedIsHoles DEF FillBegin, FillEnd
<1> HIDE DEF s, e, x, a, z, r
<1>6. /\ a \in Nat /\ z \in Nat /\ s <= a /\ d.first_empty[id] <= a /\ z <= x /\ z <= d.my_end[id]
      /\ z \in {x, d.my_end[id]} /\ m \in Nat /\ s <= m /\ m <= a /\ d.my_begin[id] <= m
      /\ m \in {d.my_begin[id], s} /\ a \in {d.first_empty[id], s}
  BY <1>1, <1>2, <1>4, <1>5 DEF MaxOf, MinOf
<1>7. OnBlock(a) /\ OnBlock(m)
  BY <1>1, <1>2, <1>5, OnBlocks
<1> HIDE DEF m
<1>8. r \in Nat /\ OnBlock(r)
  <2>1. /\ Full(d, m) \in Int /\ Full(d, s) \in Int /\ Holes(d, s) <= Holes(d, m)
        /\ Full(d, s) <= Full(d, m) /\ Full(d, m) - Full(d, s) <= m - s
    BY <1>1, <1>6, HolesAscend
  <2>2. OnBlock(Full(d, m)) /\ OnBlock(Full(d, s)) /\ OnBlock(m - s)
    BY <1>1, <1>6, <1>7, FullOnBlock, OnBlocks
  <2>3. OnBlock(Full(d, m) - Full(d, s)) /\ Full(d, m) - Full(d, s) \in Nat /\ m - s \in Nat
    BY <2>1, <2>2, OnBlocks
  <2>4. OnBlock((m - s) - (Full(d, m) - Full(d, s)))
    BY <2>1, <2>2, <2>3, OnBlocks
  <2>5. r = (m - s) - (Full(d, m) - Full(d, s))
    BY <1>1, <1>5, <1>6, <2>1 DEF Holes
  <2> QED
    BY <2>4, <2>5, OnBlocks
<1>9. Holes(d, a) = Holes(d, m)
  <2>1. CASE a = s
    <3>1. m = s
      BY <1>1, <1>2, <1>6, <2>1
    <3> QED
      BY <2>1, <3>1
  <2>2. CASE a # s
    <3>1. a = d.first_empty[id] /\ a <= d.my_end[id]
      BY <1>2, <1>6, <2>2
    <3> QED
      BY <1>2, <1>6, <3>1, StripeParts
  <2> QED
    BY <2>1, <2>2
<1>10. ASSUME a < z
       PROVE  id < NumThreads - 1
  <2> SUFFICES ASSUME ~(id < NumThreads - 1) PROVE FALSE
    OBVIOUS
  <2>1. a <= x /\ a < x
    BY <1>4, <1>6, <1>10
  <2>2. Holes(d, x) - Holes(d, a) = x - a /\ Full(d, x) = Full(d, a)
    BY <1>2, <1>4, <1>6, <2>1, StripeParts
  <2>3. Full(d, e) = Full(d, x)
    <3>1. d.my_begin[id] <= x /\ d.first_empty[id] <= x
      BY <1>2, <1>4, <1>6, <2>1
    <3> QED
      BY <1>1, <1>4, <3>1, StripeParts
  <2>4. Holes(d, x) = Holes(d, s) /\ Holes(d, s) <= Holes(d, a)
        /\ Holes(d, x) \in Int /\ Holes(d, a) \in Int /\ Holes(d, s) \in Int /\ Full(d, e) \in Int
    <3>1. Holes(d, s) <= Holes(d, a) /\ Holes(d, a) \in Int /\ Holes(d, s) \in Int
      BY <1>1, <1>6, HolesAscend
    <3>2. Holes(d, x) \in Int /\ Full(d, x) \in Int
      BY <1>4, HolesAscend
    <3>3. Holes(d, x) - Holes(d, s) = 0
      BY <1>4, <2>3, <3>2
    <3> QED
      BY <2>3, <3>1, <3>2, <3>3
  <2> QED
    BY <1>4, <1>6, <2>1, <2>2, <2>4
<1>11. ASSUME a < z
       PROVE  /\ OnBlock(z) /\ r + (z - a) = Holes(d, z) - Holes(d, s)
              /\ r + (z - a) <= Full(d, e) - Full(d, d.my_end[id])
  <2>1. id < NumThreads - 1 /\ id + 1 \in Threads
    BY <1>0, <1>10, <1>11
  <2>2. OnBlock(d.my_end[id])
    BY <2>1, StripeFacts
  <2>3. OnBlock(z)
    BY <1>4, <1>6, <2>2
  <2>4. Full(d, z) = Full(d, a) /\ Holes(d, z) - Holes(d, a) = z - a
    BY <1>2, <1>6, <1>11, StripeParts
  <2>5. /\ Holes(d, z) \in Int /\ Holes(d, a) \in Int /\ Holes(d, s) \in Int /\ Holes(d, x) \in Int
        /\ Holes(d, z) <= Holes(d, x) /\ Full(d, x) \in Int /\ Full(d, e) \in Int /\ Full(d, d.my_end[id]) \in Int
    <3>1. Holes(d, z) \in Int /\ Holes(d, x) \in Int /\ Holes(d, z) <= Holes(d, x)
      BY <1>4, <1>6, HolesAscend
    <3>2. Holes(d, a) \in Int /\ Holes(d, s) \in Int
      BY <1>1, <1>6, HolesAscend
    <3> QED
      BY <1>1, <1>2, <1>4, <3>1, <3>2, FullType
  <2>6. r + (z - a) = Holes(d, z) - Holes(d, s)
    BY <1>5, <1>6, <1>9, <2>4, <2>5
  <2>7. Full(d, d.my_end[id]) <= Full(d, x)
    <3>1. CASE z = x
      <4>1. Full(d, d.my_end[id]) = Full(d, z)
        BY <1>2, <1>6, <1>11, StripeParts
      <4> QED
        BY <2>5, <3>1, <4>1
    <3>2. CASE z = d.my_end[id]
      BY <1>2, <1>4, <1>6, <3>2, HolesAscend
    <3> QED
      BY <1>6, <3>1, <3>2
  <2> QED
    BY <1>4, <2>3, <2>5, <2>6, <2>7
<1> QED
  BY <1>0, <1>1, <1>6, <1>7, <1>8, <1>10, <1>11 DEF s, e, x, a, z, r

------------------------------------------------------------------------------
(* The reading loop.  Blocks are counted from the end of the bucket: w is  *)
(* how much of the gap is filled, with the blocks that come after those    *)
(* reserved for threads to the left.                                       *)
MoveRecord == [from : Nat, to : Nat]

Taken(d, id, s, w) ==
  /\ s \in DOMAIN d.bucket /\ At(s) + BlockSize <= BucketEnd(d, id)
  /\ Reserved(d, id) <= Full(d, BucketEnd(d, id)) - Full(d, At(s) + BlockSize)
  /\ Full(d, BucketEnd(d, id)) - Full(d, At(s)) <= Reserved(d, id) + w

Made(d, id, m, w) ==
  /\ m \in Seq(MoveRecord) /\ At(Len(m)) = w
  /\ \A j \in 1 .. Len(m) :
       At(m[j].to) = FillBegin(d, id) + At(j - 1) /\ Taken(d, id, m[j].from, w)
  /\ \A s : Taken(d, id, s, w) => \E j \in 1 .. Len(m) : m[j].from = s
  /\ \A i, j \in 1 .. Len(m) : m[i].from = m[j].from => i = j

LEMMA FullSlot ==
  ASSUME NEW d, Stripes(d), NEW s \in DOMAIN d.bucket
  PROVE  /\ s \in Nat /\ At(s) \in Nat /\ At(s) + BlockSize \in Nat
         /\ OnBlock(At(s)) /\ OnBlock(At(s) + BlockSize)
         /\ Full(d, At(s)) \in Int /\ Full(d, At(s) + BlockSize) = Full(d, At(s)) + BlockSize
         /\ Holes(d, At(s) + BlockSize) = Holes(d, At(s))
         /\ \E p \in Threads : d.my_begin[p] <= At(s) /\ At(s) + BlockSize <= d.first_empty[p]
<1>1. PICK p \in Threads : s \in Nat /\ d.my_begin[p] <= At(s) /\ At(s) < d.first_empty[p]
  BY DEF Stripes
<1>2. /\ d.my_begin[p] \in Nat /\ d.first_empty[p] \in Nat /\ OnBlock(d.first_empty[p])
      /\ d.first_empty[p] <= d.my_end[p] /\ d.my_end[p] \in Nat
  BY StripeFacts
<1>3. At(s) \in Nat /\ OnBlock(At(s)) /\ At(s + 1) = At(s) + BlockSize /\ s + 1 \in Nat
  BY <1>1, AtOrder
<1>4. OnBlock(At(s) + BlockSize) /\ At(s) + BlockSize \in Nat
  BY <1>3, AtOrder
<1>5. At(s) + BlockSize <= d.first_empty[p]
  BY <1>1, <1>2, <1>3, OnBlocks
<1>6. /\ d.my_begin[p] <= At(s) + BlockSize /\ At(s) + BlockSize <= d.my_end[p] /\ At(s) <= At(s) + BlockSize
  <2> DEFINE a  == At(s)
             lo == d.my_begin[p]
             fe == d.first_empty[p]
             en == d.my_end[p]
  <2>1. /\ a \in Nat /\ lo \in Nat /\ fe \in Nat /\ en \in Nat /\ BlockSize \in Nat
        /\ lo <= a /\ a + BlockSize <= fe /\ fe <= en
    BY <1>1, <1>2, <1>3, <1>5, Constants
  <2> HIDE DEF a, lo, fe, en
  <2>2. lo <= a + BlockSize /\ a + BlockSize <= en /\ a <= a + BlockSize
    BY ONLY <2>1
  <2> QED
    BY <2>2 DEF a, lo, en
<1>7. Full(d, At(s) + BlockSize) - Full(d, At(s)) = (At(s) + BlockSize) - At(s)
      /\ Holes(d, At(s) + BlockSize) = Holes(d, At(s))
  BY <1>1, <1>3, <1>4, <1>5, <1>6, StripeParts
<1>8. Full(d, At(s)) \in Int /\ Full(d, At(s) + BlockSize) \in Int
  BY <1>3, <1>4, FullType
<1>9. Full(d, At(s) + BlockSize) = Full(d, At(s)) + BlockSize
  <2> DEFINE F  == Full(d, At(s))
             F2 == Full(d, At(s) + BlockSize)
             a  == At(s)
  <2>1. F \in Int /\ F2 \in Int /\ a \in Nat /\ BlockSize \in Nat /\ F2 - F = (a + BlockSize) - a
    BY <1>3, <1>7, <1>8, Constants
  <2> HIDE DEF F, F2, a
  <2>2. F2 = F + BlockSize
    BY ONLY <2>1
  <2> QED
    BY <2>2 DEF F, F2
<1> QED
  BY <1>1, <1>3, <1>4, <1>5, <1>7, <1>8, <1>9

LEMMA BlockMovesFacts ==
  ASSUME NEW r, NEW z, NEW w, OnBlock(r), OnBlock(z), OnBlock(w), z <= r
  PROVE  /\ BlockMoves(r, z, w) \in Seq(MoveRecord) /\ Len(BlockMoves(r, z, w)) \in Nat
         /\ At(Len(BlockMoves(r, z, w))) = z
         /\ \A j \in 1 .. Len(BlockMoves(r, z, w)) :
              /\ At(BlockMoves(r, z, w)[j].from) = (r - z) + At(j - 1)
              /\ At(BlockMoves(r, z, w)[j].to) = w + At(j - 1)
<1> DEFINE m == z \div BlockSize
           f == (r - z) \div BlockSize
           t == w \div BlockSize
           b == BlockMoves(r, z, w)
<1>1. OnBlock(r - z)
  BY OnBlocks
<1>2. m \in Nat /\ At(m) = z /\ f \in Nat /\ At(f) = r - z /\ t \in Nat /\ At(t) = w
  BY <1>1, SlotOf
<1>3. b = [k \in 1 .. m |-> [from |-> f + k - 1, to |-> t + k - 1]]
  BY DEF BlockMoves
<1> HIDE DEF m, f, t, b
<1>4. ASSUME NEW k \in 1 .. m
      PROVE  [from |-> f + k - 1, to |-> t + k - 1] \in MoveRecord
  BY <1>2 DEF MoveRecord
<1>5. b \in [1 .. m -> MoveRecord]
  BY <1>3, <1>4
<1>6. b \in Seq(MoveRecord)
  BY <1>2, <1>5, SeqDef
<1>7. Len(b) \in Nat /\ DOMAIN b = 1 .. Len(b)
  BY <1>6, LenProperties
<1>8. Len(b) = m
  <2>1. \A i : i \in 1 .. m <=> i \in 1 .. Len(b)
    BY <1>3, <1>7
  <2>2. (m \in 1 .. m <=> m \in 1 .. Len(b)) /\ (Len(b) \in 1 .. m <=> Len(b) \in 1 .. Len(b))
    BY <2>1
  <2> DEFINE l == Len(b)
  <2>3. l \in Nat /\ m \in Nat /\ (m \in 1 .. m <=> m \in 1 .. l) /\ (l \in 1 .. m <=> l \in 1 .. l)
    BY <1>2, <1>7, <2>2
  <2> HIDE DEF l
  <2>4. l = m
    BY ONLY <2>3
  <2> QED
    BY <2>4 DEF l
<1>9. ASSUME NEW j \in 1 .. m
      PROVE  At(b[j].from) = (r - z) + At(j - 1) /\ At(b[j].to) = w + At(j - 1)
  <2>1. b[j].from = f + (j - 1) /\ b[j].to = t + (j - 1) /\ j - 1 \in Nat
    BY <1>2, <1>3
  <2>2. At(f + (j - 1)) = At(f) + At(j - 1) /\ At(t + (j - 1)) = At(t) + At(j - 1)
    BY <1>2, <2>1, AtFacts
  <2> QED
    BY <1>2, <2>1, <2>2
<1> QED
  BY <1>2, <1>6, <1>8, <1>9 DEF b

LEMMA MoreMoves ==
  ASSUME NEW d, Stripes(d), NEW id \in Threads, BucketEnd(d, id) > d.my_end[id],
         NEW p \in Threads, NEW y \in Nat, OnBlock(y), d.my_begin[p] <= y, y <= d.first_empty[p],
         y <= BucketEnd(d, id), NEW v \in Nat, OnBlock(v), NEW z \in Nat, OnBlock(z),
         v + z <= y - d.my_begin[p], NEW w \in Nat, OnBlock(w),
         Reserved(d, id) + w = Full(d, BucketEnd(d, id)) - Full(d, y) + v,
         NEW m, Made(d, id, m, w)
  PROVE  Made(d, id, m \o BlockMoves(y - v, z, FillBegin(d, id) + w), w + z)
<1> DEFINE e == BucketEnd(d, id)
           R == Reserved(d, id)
           a == FillBegin(d, id)
           b == BlockMoves(y - v, z, a + w)
           c2 == m \o b
           B == BlockSize
<1>0. B \in Nat \ {0}
  BY Constants
<1>1. /\ y \in Nat /\ v \in Nat /\ z \in Nat /\ w \in Nat
      /\ d.my_begin[p] \in Nat /\ d.first_empty[p] \in Nat /\ d.my_end[p] \in Nat
      /\ d.first_empty[p] <= d.my_end[p]
  BY OnBlocks, StripeFacts
<1>2. /\ e \in Nat /\ R \in Nat /\ a \in Nat /\ OnBlock(a)
  BY LastFacts, NeedFacts
<1>3. OnBlock(y - v) /\ OnBlock(a + w) /\ z <= y - v /\ y - v \in Nat /\ OnBlock((y - v) - z)
  <2>1. v <= y /\ z <= y - v
    BY <1>1
  <2>2. OnBlock(y - v) /\ OnBlock(a + w)
    BY <1>2, <2>1, OnBlocks
  <2>3. y - v \in Nat
    BY <1>1, <2>1
  <2>4. OnBlock((y - v) - z)
    BY <2>1, <2>2, OnBlocks
  <2> QED
    BY <2>1, <2>2, <2>3, <2>4
<1>4. /\ b \in Seq(MoveRecord) /\ Len(b) \in Nat /\ At(Len(b)) = z
      /\ \A j \in 1 .. Len(b) : /\ At(b[j].from) = ((y - v) - z) + At(j - 1)
                                /\ At(b[j].to) = (a + w) + At(j - 1)
  BY <1>3, BlockMovesFacts
<1>5. /\ m \in Seq(MoveRecord) /\ At(Len(m)) = w
      /\ \A j \in 1 .. Len(m) : At(m[j].to) = a + At(j - 1) /\ Taken(d, id, m[j].from, w)
      /\ \A s : Taken(d, id, s, w) => \E j \in 1 .. Len(m) : m[j].from = s
      /\ \A i, j \in 1 .. Len(m) : m[i].from = m[j].from => i = j
  BY DEF Made
<1>6. /\ c2 \in Seq(MoveRecord) /\ Len(c2) = Len(m) + Len(b) /\ Len(m) \in Nat
      /\ \A j \in 1 .. Len(m) + Len(b) : c2[j] = IF j <= Len(m) THEN m[j] ELSE b[j - Len(m)]
  BY <1>4, <1>5, ConcatProperties, LenProperties
<1>a. /\ v + z <= y - d.my_begin[p] /\ y <= d.first_empty[p] /\ d.my_begin[p] <= y
      /\ y \in Nat /\ v \in Nat /\ z \in Nat /\ w \in Nat
  OBVIOUS
<1>7. /\ Reserved(d, id) = R /\ BucketEnd(d, id) = e /\ FillBegin(d, id) = a
      /\ R + w = Full(d, e) - Full(d, y) + v /\ y <= e
  OBVIOUS
<1>8. \A s, x : Taken(d, id, s, x) <=>
        /\ s \in DOMAIN d.bucket /\ At(s) + B <= e /\ R <= Full(d, e) - Full(d, At(s) + B)
        /\ Full(d, e) - Full(d, At(s)) <= R + x
  BY DEF Taken
<1> HIDE DEF e, R, a, b, c2, B
<1>9. Full(d, e) \in Int /\ Full(d, y) \in Int
  BY <1>1, <1>2, FullType
<1>10. ASSUME NEW x \in Nat, d.my_begin[p] <= x, x <= y
       PROVE  Full(d, x) = Full(d, y) - (y - x)
  <2>1. Full(d, y) - Full(d, x) = y - x /\ Full(d, x) \in Int
    <3>1. y <= d.my_end[p]
      BY <1>1
    <3> QED
      BY <1>1, <1>10, <3>1, StripeParts, FullType
  <2> QED
    BY <1>1, <1>9, <2>1
<1>11. At(Len(c2)) = w + z
  <2>1. At(Len(m) + Len(b)) = At(Len(m)) + At(Len(b))
    BY <1>4, <1>6, AtFacts
  <2> QED
    BY <1>4, <1>5, <1>6, <2>1
<1>12. ASSUME NEW j \in 1 .. Len(b)
       PROVE  /\ b[j].from \in Nat /\ (y - v) - z <= At(b[j].from) /\ At(b[j].from) + B <= y - v
              /\ Taken(d, id, b[j].from, w + z)
              /\ R + w <= Full(d, e) - Full(d, At(b[j].from) + B)
  <2> DEFINE s == b[j].from
  <2>1. j - 1 \in Nat /\ j - 1 < Len(b)
    BY <1>4
  <2>2. At(j - 1) \in Nat /\ At(j - 1) + B <= At(Len(b))
    BY <1>4, <2>1, AtFacts DEF B
  <2>3. s \in Nat
    <3>1. b[j] \in MoveRecord
      BY <1>4, ElementOfSeq
    <3> QED
      BY <3>1 DEF MoveRecord
  <2>4. At(s) = ((y - v) - z) + At(j - 1)
    BY <1>4
  <2> HIDE DEF s
  <2>a. At(s) \in Nat /\ At(Len(b)) = z
    BY <1>4, <2>3, AtFacts
  <2>5. (y - v) - z <= At(s) /\ At(s) + B <= y - v /\ At(s) \in Nat
    BY ONLY <1>0, <1>a, <2>a, <2>2, <2>4
  <2>6. /\ d.my_begin[p] <= At(s) /\ At(s) + B <= y /\ At(s) + B \in Nat /\ d.my_begin[p] <= At(s) + B
        /\ At(s) <= y /\ At(s) < d.first_empty[p] /\ At(s) + B <= e
    <3> DEFINE lo == d.my_begin[p]
               f == d.first_empty[p]
               x == At(s)
    <3>1. /\ lo \in Nat /\ y \in Nat /\ v \in Nat /\ z \in Nat /\ x \in Nat /\ B \in Nat \ {0}
          /\ f \in Nat /\ e \in Nat /\ v + z <= y - lo /\ y <= f /\ y <= e
          /\ (y - v) - z <= x /\ x + B <= y - v
      BY <1>0, <1>1, <1>2, <1>7, <1>a, <2>5
    <3> HIDE DEF lo, f, x
    <3>2. lo <= x
      BY ONLY <3>1
    <3>3. x + B <= y /\ x + B \in Nat
      BY ONLY <3>1
    <3>4. lo <= x + B /\ x <= y /\ x < f
      BY ONLY <3>1, <3>2, <3>3
    <3>5. x + B <= e
      BY ONLY <3>1, <3>3
    <3> QED
      BY <3>2, <3>3, <3>4, <3>5 DEF lo, f, x
  <2>7. s \in DOMAIN d.bucket
    BY <2>3, <2>6 DEF Stripes
  <2>8. Full(d, At(s) + B) = Full(d, y) - (y - (At(s) + B)) /\ Full(d, At(s)) = Full(d, y) - (y - At(s))
    BY <1>10, <2>5, <2>6
  <2>b. Full(d, At(s) + B) \in Int /\ Full(d, At(s)) \in Int
    BY <2>5, <2>6, FullType
  <2>9. /\ R <= Full(d, e) - Full(d, At(s) + B) /\ R + w <= Full(d, e) - Full(d, At(s) + B)
        /\ Full(d, e) - Full(d, At(s)) <= R + (w + z)
    <3> DEFINE E == Full(d, e)
               Y == Full(d, y)
               X == Full(d, At(s))
               X2 == Full(d, At(s) + B)
               x == At(s)
    <3>1. /\ E \in Int /\ Y \in Int /\ X \in Int /\ X2 \in Int /\ x \in Nat
          /\ R + w = E - Y + v /\ X2 = Y - (y - (x + B)) /\ X = Y - (y - x)
          /\ (y - v) - z <= x /\ x + B <= y - v
      BY <1>7, <1>9, <2>b, <2>5, <2>8
    <3> HIDE DEF E, Y, X, X2, x
    <3>a. y \in Nat /\ v \in Nat /\ z \in Nat /\ w \in Nat /\ R \in Nat /\ B \in Nat
      BY <1>0, <1>1, <1>2
    <3>b. R + w <= E - X2
      BY ONLY <3>a, <3>1
    <3>c. R <= E - X2
      BY ONLY <3>a, <3>b, <3>1
    <3>d. E - X <= R + (w + z)
      BY ONLY <3>a, <3>1
    <3>2. R <= E - X2 /\ R + w <= E - X2 /\ E - X <= R + (w + z)
      BY <3>b, <3>c, <3>d
    <3> QED
      BY <3>2 DEF E, X, X2
  <2>11. Taken(d, id, s, w + z)
    BY <1>8, <2>6, <2>7, <2>9
  <2> QED
    BY <2>3, <2>5, <2>9, <2>11 DEF s
<1>13. ASSUME NEW j \in 1 .. Len(m)
       PROVE  /\ Taken(d, id, m[j].from, w + z)
              /\ Full(d, e) - Full(d, At(m[j].from)) <= R + w
              /\ Full(d, At(m[j].from) + B) = Full(d, At(m[j].from)) + B /\ Full(d, At(m[j].from)) \in Int
  <2> DEFINE s == m[j].from
  <2>1. Taken(d, id, s, w)
    BY <1>5
  <2> HIDE DEF s
  <2>2. s \in DOMAIN d.bucket /\ Full(d, e) - Full(d, At(s)) <= R + w
    BY <1>8, <2>1
  <2>3. Full(d, At(s)) \in Int /\ Full(d, At(s) + B) = Full(d, At(s)) + B
    BY <2>2, FullSlot DEF B
  <2>4. Full(d, e) - Full(d, At(s)) <= R + (w + z)
    BY <1>1, <1>2, <1>9, <2>2, <2>3
  <2>5. Taken(d, id, s, w + z)
    BY <1>8, <2>1, <2>4
  <2> QED
    BY <2>2, <2>3, <2>5 DEF s
<1>14. ASSUME NEW j \in 1 .. Len(c2)
       PROVE  At(c2[j].to) = a + At(j - 1) /\ Taken(d, id, c2[j].from, w + z)
  <2>1. CASE j <= Len(m)
    <3>1. j \in 1 .. Len(m) /\ c2[j] = m[j]
      BY <1>4, <1>6, <2>1
    <3> QED
      BY <1>5, <1>13, <3>1
  <2>2. CASE ~(j <= Len(m))
    <3>1. j - Len(m) \in 1 .. Len(b) /\ c2[j] = b[j - Len(m)]
      BY <1>4, <1>6, <2>2
    <3>2. At(c2[j].to) = (a + w) + At((j - Len(m)) - 1)
      BY <1>4, <3>1
    <3>3. (j - Len(m)) - 1 \in Nat /\ Len(m) + ((j - Len(m)) - 1) = j - 1
      BY <1>6, <3>1
    <3> DEFINE k == (j - Len(m)) - 1
    <3>a. k \in Nat /\ Len(m) + k = j - 1 /\ At(c2[j].to) = (a + w) + At(k)
      BY <3>2, <3>3
    <3> HIDE DEF k
    <3>4. At(Len(m) + k) = At(Len(m)) + At(k) /\ At(k) \in Nat
      BY <1>6, <3>a, AtFacts
    <3>5. At(j - 1) = w + At(k)
      BY <1>5, <3>4, <3>a
    <3>6. At(c2[j].to) = a + At(j - 1)
      BY <1>1, <1>2, <3>a, <3>4, <3>5
    <3>7. Taken(d, id, b[j - Len(m)].from, w + z)
      BY <1>12, <3>1
    <3> QED
      BY <3>1, <3>6, <3>7
  <2> QED
    BY <2>1, <2>2
<1>15. ASSUME NEW s, Taken(d, id, s, w + z)
       PROVE  \E j \in 1 .. Len(c2) : c2[j].from = s
  <2>1. /\ s \in DOMAIN d.bucket /\ At(s) + B <= e /\ R <= Full(d, e) - Full(d, At(s) + B)
        /\ Full(d, e) - Full(d, At(s)) <= R + (w + z)
    BY <1>8, <1>15
  <2>2. /\ s \in Nat /\ At(s) \in Nat /\ OnBlock(At(s)) /\ Full(d, At(s)) \in Int
        /\ Full(d, At(s) + B) = Full(d, At(s)) + B /\ OnBlock(At(s) + B) /\ At(s) + B \in Nat
    BY <2>1, FullSlot DEF B
  <2>3. CASE Full(d, e) - Full(d, At(s)) <= R + w
    <3>1. Taken(d, id, s, w)
      BY <1>8, <2>1, <2>3
    <3>2. PICK j \in 1 .. Len(m) : m[j].from = s
      BY <1>5, <3>1
    <3>3. j \in 1 .. Len(c2) /\ c2[j] = m[j]
      BY <1>4, <1>6
    <3> QED
      BY <3>2, <3>3
  <2>4. CASE ~(Full(d, e) - Full(d, At(s)) <= R + w)
    <3>1. /\ Full(d, y - v) = Full(d, y) - v /\ Full(d, (y - v) - z) = (Full(d, y) - v) - z
      <4>1. /\ d.my_begin[p] <= y - v /\ y - v <= y /\ (y - v) - z \in Nat
            /\ d.my_begin[p] <= (y - v) - z /\ (y - v) - z <= y
        BY <1>1, <1>3
      <4> QED
        BY <1>1, <1>3, <1>9, <1>10, <4>1
    <3>2. Full(d, At(s)) < Full(d, y - v)
      BY <1>1, <1>2, <1>7, <1>9, <2>2, <2>4, <3>1
    <3>3. At(s) < y - v
      <4>1. y - v <= At(s) => Full(d, y - v) <= Full(d, At(s))
        BY <1>3, <2>2, FullAscends
      <4>2. Full(d, y - v) \in Int
        BY <1>3, FullType
      <4> QED
        BY <1>3, <2>2, <3>2, <4>1, <4>2
    <3>4. (y - v) - z <= At(s)
      <4> SUFFICES ASSUME At(s) < (y - v) - z PROVE FALSE
        BY <1>1, <1>3, <2>2
      <4>1. At(s) + B <= (y - v) - z /\ (y - v) - z \in Nat
        BY <1>3, <2>2, OnBlocks DEF B
      <4>2. Full(d, At(s) + B) <= Full(d, (y - v) - z)
        BY <2>2, <4>1, FullAscends
      <4> QED
        BY <1>0, <1>1, <1>2, <1>7, <1>9, <2>1, <2>2, <3>1, <4>2
    <3> DEFINE x == At(s) - ((y - v) - z)
    <3>5. OnBlock(x) /\ x \in Nat
      BY <1>3, <2>2, <3>4, OnBlocks
    <3>6. x = At(s) - ((y - v) - z)
      OBVIOUS
    <3> HIDE DEF x
    <3>7. PICK k \in Nat : x = At(k)
      BY <3>5 DEF OnBlock
    <3>8. At(s) = ((y - v) - z) + At(k) /\ At(k) < z /\ At(k) \in Nat
      BY <1>1, <1>3, <2>2, <3>3, <3>4, <3>5, <3>6, <3>7
    <3>9. k < Len(b) /\ k + 1 \in 1 .. Len(b) /\ (k + 1) - 1 = k
      <4>1. At(k) < At(Len(b))
        BY <1>4, <3>8
      <4>2. k < Len(b)
        BY <1>4, <4>1, AtOrder
      <4> QED
        BY <1>4, <4>2
    <3>10. At(b[k + 1].from) = At(s) /\ b[k + 1].from \in Nat
      BY <1>4, <1>12, <3>8, <3>9
    <3>11. b[k + 1].from = s
      BY <2>2, <3>10, AtOrder
    <3>12. Len(m) + (k + 1) \in 1 .. Len(c2) /\ c2[Len(m) + (k + 1)] = b[k + 1]
      <4>1. /\ Len(m) + (k + 1) \in 1 .. Len(m) + Len(b) /\ ~(Len(m) + (k + 1) <= Len(m))
            /\ (Len(m) + (k + 1)) - Len(m) = k + 1
        <5> DEFINE l  == Len(m)
                   lb == Len(b)
        <5>1. l \in Nat /\ lb \in Nat /\ k + 1 \in 1 .. lb
          BY <1>4, <1>6, <3>9
        <5> HIDE DEF l, lb
        <5>2. l + (k + 1) \in 1 .. l + lb /\ ~(l + (k + 1) <= l) /\ (l + (k + 1)) - l = k + 1
          BY ONLY <5>1
        <5> QED
          BY <5>2 DEF l, lb
      <4> QED
        BY <1>6, <4>1
    <3> QED
      BY <3>11, <3>12
  <2> QED
    BY <2>3, <2>4
<1>16. ASSUME NEW i \in 1 .. Len(b), NEW j \in 1 .. Len(b), b[i].from = b[j].from
       PROVE  i = j
  <2>1. ((y - v) - z) + At(i - 1) = ((y - v) - z) + At(j - 1) /\ i - 1 \in Nat /\ j - 1 \in Nat
    <3>1. At(b[i].from) = ((y - v) - z) + At(i - 1) /\ At(b[j].from) = ((y - v) - z) + At(j - 1)
      BY <1>4
    <3>2. i - 1 \in Nat /\ j - 1 \in Nat
      BY <1>4
    <3> QED
      BY <1>16, <3>1, <3>2
  <2>2. At(i - 1) \in Nat /\ At(j - 1) \in Nat
    BY <2>1, AtFacts
  <2>3. At(i - 1) = At(j - 1)
    <3> DEFINE o == (y - v) - z
               s == At(i - 1)
               t == At(j - 1)
    <3>1. o \in Int /\ s \in Nat /\ t \in Nat /\ o + s = o + t
      <4>1. (y - v) - z \in Int
        BY <1>1
      <4> QED
        BY <2>1, <2>2, <4>1
    <3> HIDE DEF o, s, t
    <3>2. s = t
      BY ONLY <3>1
    <3> QED
      BY <3>2 DEF s, t
  <2>4. i - 1 = j - 1
    BY <2>1, <2>3, AtOrder
  <2> QED
    BY <2>4
<1>17. ASSUME NEW i \in 1 .. Len(m), NEW j \in 1 .. Len(b) PROVE m[i].from # b[j].from
  <2> SUFFICES ASSUME m[i].from = b[j].from PROVE FALSE
    OBVIOUS
  <2> DEFINE s == m[i].from
  <2>1. /\ Full(d, e) - Full(d, At(s)) <= R + w
        /\ Full(d, At(s) + B) = Full(d, At(s)) + B /\ Full(d, At(s)) \in Int
    BY <1>13
  <2>2. R + w <= Full(d, e) - Full(d, At(s) + B)
    BY <1>12
  <2> HIDE DEF s
  <2> DEFINE E  == Full(d, e)
             X  == Full(d, At(s))
             X2 == Full(d, At(s) + B)
  <2>3. /\ E \in Int /\ X \in Int /\ B \in Nat \ {0} /\ R \in Nat /\ w \in Nat
        /\ E - X <= R + w /\ X2 = X + B /\ R + w <= E - X2
    BY <1>0, <1>1, <1>2, <1>9, <2>1, <2>2
  <2> HIDE DEF E, X, X2
  <2> QED
    BY ONLY <2>3
<1>b. ASSUME NEW k \in 1 .. Len(c2)
      PROVE  (k \in 1 .. Len(m) /\ c2[k] = m[k]) \/ (k - Len(m) \in 1 .. Len(b) /\ c2[k] = b[k - Len(m)])
  <2>1. /\ k \in Int /\ Len(m) \in Nat /\ Len(b) \in Nat /\ k \in 1 .. Len(m) + Len(b)
        /\ c2[k] = IF k <= Len(m) THEN m[k] ELSE b[k - Len(m)]
    BY <1>4, <1>6
  <2>2. CASE k <= Len(m)
    BY <2>1, <2>2
  <2>3. CASE ~(k <= Len(m))
    <3>1. k - Len(m) \in 1 .. Len(b)
      BY <2>1, <2>3
    <3> QED
      BY <2>1, <2>3, <3>1
  <2> QED
    BY <2>2, <2>3
<1>18. ASSUME NEW i \in 1 .. Len(c2), NEW j \in 1 .. Len(c2), c2[i].from = c2[j].from
       PROVE  i = j
  <2>1. /\ (i \in 1 .. Len(m) /\ c2[i] = m[i]) \/ (i - Len(m) \in 1 .. Len(b) /\ c2[i] = b[i - Len(m)])
        /\ (j \in 1 .. Len(m) /\ c2[j] = m[j]) \/ (j - Len(m) \in 1 .. Len(b) /\ c2[j] = b[j - Len(m)])
    BY <1>b
  <2>2. CASE i \in 1 .. Len(m) /\ c2[i] = m[i] /\ j \in 1 .. Len(m) /\ c2[j] = m[j]
    BY <1>5, <1>18, <2>2
  <2>3. CASE /\ i - Len(m) \in 1 .. Len(b) /\ c2[i] = b[i - Len(m)]
             /\ j - Len(m) \in 1 .. Len(b) /\ c2[j] = b[j - Len(m)]
    <3>1. i - Len(m) = j - Len(m)
      BY <1>16, <1>18, <2>3
    <3>2. i \in Int /\ j \in Int /\ Len(m) \in Nat
      BY <1>6
    <3> QED
      BY <3>1, <3>2
  <2>4. CASE i \in 1 .. Len(m) /\ c2[i] = m[i] /\ j - Len(m) \in 1 .. Len(b) /\ c2[j] = b[j - Len(m)]
    BY <1>17, <1>18, <2>4
  <2>5. CASE i - Len(m) \in 1 .. Len(b) /\ c2[i] = b[i - Len(m)] /\ j \in 1 .. Len(m) /\ c2[j] = m[j]
    <3>1. m[j].from = b[i - Len(m)].from
      BY <1>18, <2>5
    <3> QED
      BY <1>17, <2>5, <3>1
  <2> QED
    BY <2>1, <2>2, <2>3, <2>4, <2>5
<1>19. /\ c2 \in Seq(MoveRecord) /\ At(Len(c2)) = w + z
       /\ \A j \in 1 .. Len(c2) :
            At(c2[j].to) = FillBegin(d, id) + At(j - 1) /\ Taken(d, id, c2[j].from, w + z)
       /\ \A s : Taken(d, id, s, w + z) => \E j \in 1 .. Len(c2) : c2[j].from = s
       /\ \A i, j \in 1 .. Len(c2) : c2[i].from = c2[j].from => i = j
  BY <1>6, <1>7, <1>11, <1>14, <1>15, <1>18
<1>20. Made(d, id, c2, w + z)
  BY <1>19 DEF Made
<1> QED
  BY <1>20 DEF c2, b, a

(* The states of the loop are defined by recursion, too.                   *)
LEMMA ReadingFacts ==
  ASSUME NEW d, NEW id, ReadBound(d, id) \in Nat
  PROVE  /\ Reading(d, id)[0] = [reserved |-> Reserved(d, id), write_ptr |-> FillBegin(d, id),
                                 moves |-> << >>]
         /\ \A k \in 1 .. ReadBound(d, id) :
              Reading(d, id)[k] = ReadFrom(d, id, Reading(d, id)[k - 1], ReadBound(d, id) - k)
<1> DEFINE r == ReadBound(d, id)
           x == [reserved |-> Reserved(d, id), write_ptr |-> FillBegin(d, id), moves |-> << >>]
           Round(st, k) == ReadFrom(d, id, st, r - k)
           Is(h, k) == h = [p \in 0 .. k |-> IF p = 0 THEN x ELSE Round(h[p - 1], p)]
           Missing == {k \in 0 .. r : ~\E h : Is(h, k)}
<1>0. r \in Nat
  OBVIOUS
<1>1. Reading(d, id) = CHOOSE g : Is(g, r)
  BY DEF Reading
<1> HIDE DEF r, x, Round
<1>2. Missing = {}
  <2> SUFFICES ASSUME Missing # {} PROVE FALSE
    OBVIOUS
  <2>1. Missing \subseteq Nat
    BY <1>0
  <2>2. \A k : k \in Missing <=> k \in 0 .. r /\ ~\E h : Is(h, k)
    OBVIOUS
  <2> HIDE DEF Missing
  <2>3. PICK k \in Missing : \A y \in Missing : k <= y
    BY <2>1, Least
  <2>4. CASE k = 0
    <3>1. Is([p \in 0 .. 0 |-> x], 0)
      OBVIOUS
    <3> QED
      BY <2>2, <2>3, <2>4, <3>1
  <2>5. CASE k # 0
    <3>1. k \in 0 .. r /\ k \in Nat /\ k - 1 \in 0 .. r /\ k - 1 \notin Missing
      BY <1>0, <2>1, <2>2, <2>3, <2>5
    <3>2. PICK h : Is(h, k - 1)
      BY <2>2, <3>1
    <3> DEFINE g == [p \in 0 .. k |-> IF p = k THEN Round(h[k - 1], k) ELSE h[p]]
    <3>3. ASSUME NEW p \in 0 .. k PROVE g[p] = IF p = 0 THEN x ELSE Round(g[p - 1], p)
      <4>1. CASE p = k
        <5>1. k - 1 \in 0 .. k /\ k - 1 # k
          BY <3>1
        <5>2. g[k - 1] = h[k - 1] /\ g[k] = Round(h[k - 1], k)
          BY <3>1, <5>1
        <5> QED
          BY <2>5, <4>1, <5>2
      <4>2. CASE p # k
        <5>1. p \in 0 .. k - 1 /\ (p # 0 => p - 1 \in 0 .. k /\ p - 1 # k)
          BY <3>1, <4>2
        <5>2. h[p] = IF p = 0 THEN x ELSE Round(h[p - 1], p)
          BY <3>2, <5>1
        <5>3. g[p] = h[p] /\ (p # 0 => g[p - 1] = h[p - 1])
          BY <4>2, <5>1
        <5> QED
          BY <5>2, <5>3
      <4> QED
        BY <4>1, <4>2
    <3>4. Is(g, k)
      BY <3>3
    <3> QED
      BY <2>2, <2>3, <3>4
  <2> QED
    BY <2>4, <2>5
<1>3. PICK h : Is(h, r)
  <2>1. r \in 0 .. r
    BY <1>0
  <2> HIDE DEF Is
  <2> QED
    BY <1>2, <2>1
<1>4. Is(Reading(d, id), r)
  BY <1>1, <1>3
<1> DEFINE s == Reading(d, id)
<1> HIDE DEF s
<1>5. \A p \in 0 .. r : s[p] = IF p = 0 THEN x ELSE Round(s[p - 1], p)
  BY <1>4 DEF s
<1>6. s[0] = x /\ \A k \in 1 .. r : s[k] = Round(s[k - 1], k)
  BY <1>0, <1>5
<1> QED
  BY <1>6 DEF s, x, r, Round

LEMMA NothingMade ==
  ASSUME NEW d, Stripes(d), NEW id \in Threads, BucketEnd(d, id) > d.my_end[id]
  PROVE  Made(d, id, << >>, 0)
<1>1. Reserved(d, id) \in Nat /\ BucketEnd(d, id) \in Nat
  BY LastFacts, NeedFacts
<1>2. Full(d, BucketEnd(d, id)) \in Int
  BY <1>1, FullType
<1>3. ASSUME NEW s, Taken(d, id, s, 0) PROVE FALSE
  <2>1. s \in DOMAIN d.bucket
    BY <1>3 DEF Taken
  <2>2. Full(d, At(s)) \in Int /\ Full(d, At(s) + BlockSize) = Full(d, At(s)) + BlockSize
    BY <2>1, FullSlot
  <2>3. /\ Reserved(d, id) <= Full(d, BucketEnd(d, id)) - Full(d, At(s) + BlockSize)
        /\ Full(d, BucketEnd(d, id)) - Full(d, At(s)) <= Reserved(d, id) + 0
    BY <1>3 DEF Taken
  <2> QED
    BY <1>1, <1>2, <2>2, <2>3, Constants
<1>4. << >> \in Seq(MoveRecord) /\ Len(<< >>) = 0 /\ At(0) = 0
  BY AtFacts
<1> QED
  BY <1>3, <1>4 DEF Made

(* After some rounds: the stripes from q on have been read; if the gap is  *)
(* not filled yet, every block in them was moved or was reserved.          *)
ReadFrontier(d, id, q) == IF q = ReadBound(d, id) THEN BucketEnd(d, id) ELSE d.my_begin[q]

Read(d, id, q, st) ==
  \E v \in Nat, w \in Nat, m \in Seq(MoveRecord) :
    /\ st = [reserved |-> v, write_ptr |-> FillBegin(d, id) + w, moves |-> m]
    /\ OnBlock(v) /\ OnBlock(w) /\ Made(d, id, m, w) /\ w <= FillEnd(d, id) - FillBegin(d, id)
    /\ w < FillEnd(d, id) - FillBegin(d, id) =>
         Reserved(d, id) + w = Full(d, BucketEnd(d, id)) - Full(d, ReadFrontier(d, id, q)) + v

LEMMA OneRound ==
  ASSUME NEW d, Stripes(d), NEW id \in Threads, BucketEnd(d, id) > d.my_end[id],
         FillBegin(d, id) < FillEnd(d, id), NEW p \in id + 1 .. ReadBound(d, id) - 1,
         NEW st, Read(d, id, p + 1, st)
  PROVE  Read(d, id, p, ReadFrom(d, id, st, p))
<1> DEFINE e == BucketEnd(d, id)
           a == FillBegin(d, id)
           z == FillEnd(d, id)
           R == Reserved(d, id)
           y == ReadEnd(d, id, p)
           lo == d.my_begin[p]
           next == ReadFrom(d, id, st, p)
<1>0. NumThreads \in Nat \ {0} /\ Threads = 0 .. NumThreads - 1 /\ id \in Nat
  BY Constants
<1>1. /\ p \in Threads /\ p \in Nat /\ y \in Nat /\ OnBlock(y)
      /\ lo <= y /\ y <= d.first_empty[p] /\ y <= e
      /\ Full(d, y) = Full(d, ReadFrontier(d, id, p + 1))
  BY ReadableFacts DEF ReadFrontier
<1>2. ReadFrontier(d, id, p) = lo
  <2>1. ReadBound(d, id) \in id + 1 .. NumThreads
    BY ReadBoundFacts
  <2>2. p # ReadBound(d, id)
    BY <1>0, <2>1
  <2> QED
    BY <2>2 DEF ReadFrontier
<1>3. /\ R \in Nat /\ a \in Nat /\ z \in Nat /\ OnBlock(a) /\ OnBlock(z) /\ a < z /\ e \in Nat
  BY LastFacts, NeedFacts
<1>4. /\ lo \in Nat /\ OnBlock(lo) /\ d.first_empty[p] \in Nat /\ d.my_end[p] \in Nat
      /\ d.first_empty[p] <= d.my_end[p]
  BY <1>1, StripeFacts
<1>5. Full(d, y) - Full(d, lo) = y - lo
  <2>1. lo <= y /\ lo <= lo /\ y <= d.my_end[p] /\ y <= d.first_empty[p]
    BY <1>1, <1>4
  <2> QED
    BY <1>1, <1>4, <2>1, StripeParts
<1>6. Full(d, y) \in Int /\ Full(d, lo) \in Int /\ Full(d, e) \in Int
  BY <1>1, <1>3, <1>4, FullType
<1>7. PICK v \in Nat, w \in Nat, m \in Seq(MoveRecord) :
        /\ st = [reserved |-> v, write_ptr |-> a + w, moves |-> m]
        /\ OnBlock(v) /\ OnBlock(w) /\ Made(d, id, m, w) /\ w <= z - a
        /\ w < z - a => R + w = Full(d, e) - Full(d, y) + v
  BY <1>1 DEF Read
<1>8. /\ st.reserved = v /\ st.write_ptr = a + w /\ st.moves = m
  BY <1>7
<1>9. Readable(d, id)[p] = y - lo
  BY <1>1 DEF Readable
<1> DEFINE size == MinOf((y - lo) - v, z - (a + w))
<1>10. next = IF a + w >= z THEN st
              ELSE IF v >= y - lo THEN [st EXCEPT !.reserved = @ - (y - lo)]
              ELSE [reserved |-> 0, write_ptr |-> (a + w) + size,
                    moves |-> m \o BlockMoves(y - v, size, a + w)]
  BY <1>8, <1>9 DEF ReadFrom
<1> DEFINE Fits(v2, w2, m2) ==
             /\ next = [reserved |-> v2, write_ptr |-> a + w2, moves |-> m2]
             /\ OnBlock(v2) /\ OnBlock(w2) /\ Made(d, id, m2, w2) /\ w2 <= z - a
             /\ w2 < z - a => R + w2 = Full(d, e) - Full(d, lo) + v2
<1>11. \A v2 \in Nat, w2 \in Nat, m2 \in Seq(MoveRecord) : Fits(v2, w2, m2) => Read(d, id, p, next)
  BY <1>2 DEF Read
<1>c. v \in Nat /\ w \in Nat /\ m \in Seq(MoveRecord)
  OBVIOUS
<1> DEFINE E == Full(d, e)
           Y == Full(d, y)
           L == Full(d, lo)
<1>d. E \in Int /\ Y \in Int /\ L \in Int /\ Y - L = y - lo /\ y \in Nat /\ lo \in Nat /\ R \in Nat
  BY <1>1, <1>3, <1>4, <1>5, <1>6
<1>12. OnBlock(0)
  BY AtFacts DEF OnBlock
<1>13. OnBlock(y - lo) /\ y - lo \in Nat /\ OnBlock(z - a) /\ z - a \in Nat
  <2>1. OnBlock(y - lo)
    BY <1>1, <1>4, OnBlocks
  <2>2. OnBlock(z - a)
    BY <1>3, OnBlocks
  <2> QED
    BY <2>1, <2>2, OnBlocks
<1>a. BucketEnd(d, id) > d.my_end[id]
  OBVIOUS
<1>b. Reserved(d, id) = R /\ BucketEnd(d, id) = e /\ FillBegin(d, id) = a
  OBVIOUS
<1> HIDE DEF e, a, z, R, y, lo, next, size, Fits
<1>14. CASE a + w >= z
  <2>1. w = z - a
    BY <1>3, <1>7, <1>14
  <2>2. next = [reserved |-> v, write_ptr |-> a + w, moves |-> m]
    BY <1>7, <1>10, <1>14
  <2>3. w <= z - a /\ ~(w < z - a)
    BY <1>3, <2>1
  <2>4. Fits(v, w, m)
    BY <1>7, <2>2, <2>3 DEF Fits
  <2> QED
    BY <1>11, <1>c, <2>4 DEF next
<1>15. CASE ~(a + w >= z)
  <2>1. w < z - a /\ (R + w = Full(d, e) - Full(d, y) + v)
    BY <1>3, <1>7, <1>15
  <2>2. CASE v >= y - lo
    <3>1. next = [reserved |-> v - (y - lo), write_ptr |-> a + w, moves |-> m]
      BY <1>7, <1>10, <1>15, <2>2
    <3>2. v - (y - lo) \in Nat /\ OnBlock(v - (y - lo))
      BY <1>7, <1>13, <2>2, OnBlocks
    <3> DEFINE v2 == v - (y - lo)
    <3>3. R + w = Full(d, e) - Full(d, lo) + v2
      <4>1. R + w = E - Y + v
        BY <2>1
      <4> HIDE DEF E, Y, L
      <4>2. R + w = E - L + (v - (y - lo))
        BY ONLY <1>c, <1>d, <4>1
      <4> QED
        BY <4>2 DEF E, L
    <3>4. v2 \in Nat /\ OnBlock(v2) /\ next = [reserved |-> v2, write_ptr |-> a + w, moves |-> m]
      BY <3>1, <3>2
    <3> HIDE DEF v2
    <3>5. Fits(v2, w, m)
      BY <1>7, <3>3, <3>4 DEF Fits
    <3> QED
      BY <1>11, <1>c, <3>4, <3>5 DEF next
  <2>3. CASE ~(v >= y - lo)
    <3>1. next = [reserved |-> 0, write_ptr |-> (a + w) + size,
                  moves |-> m \o BlockMoves(y - v, size, a + w)]
      BY <1>10, <1>15, <2>3
    <3> DEFINE left == (y - lo) - v
               gap  == z - (a + w)
    <3>2. /\ left \in Nat /\ OnBlock(left) /\ gap \in Nat /\ OnBlock(gap)
      <4>1. OnBlock((y - lo) - v)
        BY <1>7, <1>13, <2>3, OnBlocks
      <4>2. OnBlock((z - a) - w)
        BY <1>7, <1>13, OnBlocks
      <4>3. (z - a) - w = z - (a + w)
        BY <1>3
      <4> QED
        BY <1>13, <1>3, <1>15, <2>3, <4>1, <4>2, <4>3, OnBlocks
    <3>3. size = MinOf(left, gap)
      BY DEF size
    <3>4. gap = z - (a + w) /\ left = (y - lo) - v
      OBVIOUS
    <3> HIDE DEF left, gap
    <3>5. size \in Nat /\ OnBlock(size) /\ size <= left /\ size <= gap /\ (size = left \/ size = gap)
      BY <3>2, <3>3, OnBlocks DEF MinOf
    <3>6. v + size <= y - lo
      BY ONLY <1>7, <1>1, <1>4, <3>4, <3>5
    <3>7. Made(d, id, m \o BlockMoves(y - v, size, a + w), w + size)
      BY <1>1, <1>7, <1>a, <1>b, <2>1, <3>5, <3>6, MoreMoves DEF lo, e, a, R
    <3>8. m \o BlockMoves(y - v, size, a + w) \in Seq(MoveRecord)
      BY <3>7 DEF Made
    <3> DEFINE w2 == w + size
               m2 == m \o BlockMoves(y - v, size, a + w)
    <3>9. w2 \in Nat /\ OnBlock(w2)
      BY <1>7, <3>5, OnBlocks
    <3>10. w2 <= z - a /\ (a + w) + size = a + w2
      BY <1>3, <3>4, <3>5
    <3>11. w2 < z - a => R + w2 = Full(d, e) - Full(d, lo) + 0
      <4> SUFFICES ASSUME w2 < z - a PROVE R + w2 = Full(d, e) - Full(d, lo) + 0
        OBVIOUS
      <4>1. size = left
        BY <1>3, <3>4, <3>5
      <4>2. R + w = E - Y + v /\ w2 = w + ((y - lo) - v)
        BY <2>1, <3>4, <4>1
      <4> HIDE DEF E, Y, L, w2
      <4>3. R + w2 = E - L + 0
        BY ONLY <1>c, <1>d, <4>2
      <4> QED
        BY <4>3 DEF E, L
    <3>12. /\ next = [reserved |-> 0, write_ptr |-> a + w2, moves |-> m2]
           /\ Made(d, id, m2, w2) /\ m2 \in Seq(MoveRecord)
      BY <3>1, <3>7, <3>8, <3>10
    <3> HIDE DEF w2, m2
    <3>13. Fits(0, w2, m2)
      BY <1>12, <3>9, <3>10, <3>11, <3>12 DEF Fits
    <3> QED
      BY <1>11, <3>9, <3>12, <3>13 DEF next
  <2> QED
    BY <2>2, <2>3
<1> QED
  BY <1>14, <1>15 DEF next

(* Moves fills exactly the gap, or there is none.                          *)
LEMMA RoundsMade ==
  ASSUME NEW d, Stripes(d), NEW id \in Threads, BucketEnd(d, id) > d.my_end[id],
         FillBegin(d, id) < FillEnd(d, id)
  PROVE  \A q \in id + 1 .. ReadBound(d, id) : Read(d, id, q, Reading(d, id)[ReadBound(d, id) - q])
<1> DEFINE r == ReadBound(d, id)
           R == Reserved(d, id)
           Wrong == {k \in 0 .. r - (id + 1) : ~Read(d, id, r - k, Reading(d, id)[k])}
<1>0. NumThreads \in Nat \ {0} /\ Threads = 0 .. NumThreads - 1 /\ id \in Nat
  BY Constants
<1>1. r \in id + 1 .. NumThreads /\ r \in Nat
  BY <1>0, ReadBoundFacts
<1>2. /\ Reading(d, id)[0] = [reserved |-> R, write_ptr |-> FillBegin(d, id), moves |-> << >>]
      /\ \A k \in 1 .. r : Reading(d, id)[k] = ReadFrom(d, id, Reading(d, id)[k - 1], r - k)
  BY <1>1, ReadingFacts
<1>3. \A k : k \in Wrong <=> k \in 0 .. r - (id + 1) /\ ~Read(d, id, r - k, Reading(d, id)[k])
  OBVIOUS
<1>4. Read(d, id, r, Reading(d, id)[0])
  <2>1. R \in Nat /\ OnBlock(R) /\ FillBegin(d, id) \in Nat /\ FillEnd(d, id) \in Nat
    BY NeedFacts
  <2>2. OnBlock(0) /\ 0 \in Nat /\ << >> \in Seq(MoveRecord)
    BY AtFacts DEF OnBlock
  <2>3. ReadFrontier(d, id, r) = BucketEnd(d, id)
    BY DEF ReadFrontier
  <2>4. Full(d, BucketEnd(d, id)) \in Int
    BY LastFacts, FullType
  <2>5. R + 0 = Full(d, BucketEnd(d, id)) - Full(d, ReadFrontier(d, id, r)) + R
    BY <2>1, <2>3, <2>4
  <2>6. 0 <= FillEnd(d, id) - FillBegin(d, id) /\ FillBegin(d, id) = FillBegin(d, id) + 0
    BY <2>1
  <2>7. Made(d, id, << >>, 0)
    BY NothingMade
  <2> HIDE DEF r
  <2>8. Reading(d, id)[0] = [reserved |-> R, write_ptr |-> FillBegin(d, id) + 0, moves |-> << >>]
    BY <1>2, <2>6
  <2> QED
    BY <2>1, <2>2, <2>5, <2>6, <2>7, <2>8 DEF Read, R
<1> HIDE DEF r, Wrong
<1>5. Wrong = {}
  <2> SUFFICES ASSUME Wrong # {} PROVE FALSE
    OBVIOUS
  <2>1. Wrong \subseteq Nat
    BY <1>0, <1>1, <1>3
  <2>2. PICK k \in Wrong : \A y \in Wrong : k <= y
    BY <2>1, Least
  <2>3. k \in Nat /\ k \in 0 .. r - (id + 1) /\ k # 0
    BY <1>1, <1>3, <1>4, <2>1, <2>2
  <2>4. k - 1 \in 0 .. r - (id + 1) /\ k - 1 \notin Wrong
    BY <1>0, <1>1, <2>1, <2>2, <2>3
  <2>5. Read(d, id, r - (k - 1), Reading(d, id)[k - 1])
    BY <1>3, <2>4
  <2>6. r - (k - 1) = (r - k) + 1 /\ r - k \in id + 1 .. r - 1 /\ k \in 1 .. r
    BY <1>0, <1>1, <2>3
  <2> DEFINE p == r - k
  <2>7. p \in id + 1 .. ReadBound(d, id) - 1 /\ Read(d, id, p + 1, Reading(d, id)[k - 1])
    BY <2>5, <2>6 DEF r
  <2>8. Reading(d, id)[k] = ReadFrom(d, id, Reading(d, id)[k - 1], p)
    BY <1>2, <2>6
  <2> HIDE DEF p
  <2>9. Read(d, id, p, Reading(d, id)[k])
    BY <2>7, <2>8, OneRound
  <2> QED
    BY <1>3, <2>2, <2>9 DEF p
<1>6. ASSUME NEW q \in id + 1 .. r PROVE Read(d, id, q, Reading(d, id)[r - q])
  <2>1. r - q \in 0 .. r - (id + 1) /\ r - (r - q) = q
    BY <1>0, <1>1
  <2>2. r - q \notin Wrong
    BY <1>5
  <2> QED
    BY <1>3, <2>1, <2>2
<1> QED
  BY <1>6 DEF r

LEMMA MovesFacts ==
  ASSUME NEW d, Stripes(d), NEW id \in Threads
  PROVE  \/ Moves(d, id) = << >> /\ ~(BucketEnd(d, id) > d.my_end[id] /\ FillBegin(d, id) < FillEnd(d, id))
         \/ /\ BucketEnd(d, id) > d.my_end[id] /\ FillBegin(d, id) < FillEnd(d, id)
            /\ Made(d, id, Moves(d, id), FillEnd(d, id) - FillBegin(d, id))
<1> DEFINE r == ReadBound(d, id)
           a == FillBegin(d, id)
           z == FillEnd(d, id)
           R == Reserved(d, id)
           e == BucketEnd(d, id)
           st(k) == Reading(d, id)[k]
<1>0. NumThreads \in Nat \ {0} /\ Threads = 0 .. NumThreads - 1 /\ id \in Nat
  BY Constants
<1>1. HasStripe(d, id) /\ d.my_end[id] \in Nat /\ d.my_begin[id] < d.my_end[id]
  BY StripeFacts DEF HasStripe
<1>2. CASE ~(e > d.my_end[id])
  <2>1. Moves(d, id) = << >>
    BY <1>2 DEF Moves, Overlapping
  <2> QED
    BY <1>2, <2>1
<1>3. CASE e > d.my_end[id]
  <2>1. Moves(d, id) = st(r).moves
    BY <1>1, <1>3 DEF Moves, Overlapping
  <2>2. r \in id + 1 .. NumThreads /\ r \in Nat /\ (r = NumThreads \/ e <= d.my_begin[r])
    BY <1>0, ReadBoundFacts
  <2>3. /\ st(0) = [reserved |-> R, write_ptr |-> a, moves |-> << >>]
        /\ \A k \in 1 .. r : st(k) = ReadFrom(d, id, st(k - 1), r - k)
    BY <2>2, ReadingFacts
  <2>4. a \in Nat /\ z \in Nat
    BY <1>3, NeedFacts
  <2>5. ASSUME NEW i \in 0 .. r, st(i).write_ptr >= z PROVE st(r) = st(i)
    <3> DEFINE Wrong == {k \in i .. r : st(k) # st(i)}
    <3> SUFFICES ASSUME Wrong # {} PROVE FALSE
      BY <2>2
    <3>1. Wrong \subseteq Nat /\ \A k : k \in Wrong <=> k \in i .. r /\ st(k) # st(i)
      BY <2>2
    <3> HIDE DEF Wrong
    <3>2. PICK k \in Wrong : \A y \in Wrong : k <= y
      BY <3>1, Least
    <3> HIDE DEF r, st
    <3>3. k \in i .. r /\ k # i /\ k \in Nat /\ k \in 1 .. r
      BY <2>2, <3>1, <3>2
    <3>4. k - 1 \in i .. r /\ k - 1 \notin Wrong
      BY <2>2, <3>1, <3>2, <3>3
    <3>5. st(k - 1) = st(i)
      BY <3>1, <3>4
    <3>6. st(k) = ReadFrom(d, id, st(i), r - k)
      BY <2>3, <3>3, <3>5
    <3>7. st(k) = st(i)
      BY <2>5, <3>6 DEF ReadFrom, z
    <3> QED
      BY <3>1, <3>2, <3>7
  <2>6. CASE ~(a < z)
    <3>1. st(0).write_ptr >= z /\ 0 \in 0 .. r
      BY <2>2, <2>3, <2>4, <2>6
    <3>2. st(r) = st(0)
      BY <2>5, <3>1
    <3>3. Moves(d, id) = << >>
      BY <2>1, <2>3, <3>2
    <3> QED
      BY <2>6, <3>3
  <2>7. CASE a < z
    <3>1. id + 1 \in id + 1 .. r
      BY <1>0, <2>2
    <3>2. Read(d, id, id + 1, st(r - (id + 1)))
      BY <1>3, <2>7, <3>1, RoundsMade
    <3>3. PICK v \in Nat, w \in Nat, m \in Seq(MoveRecord) :
            /\ st(r - (id + 1)) = [reserved |-> v, write_ptr |-> a + w, moves |-> m]
            /\ Made(d, id, m, w) /\ w <= z - a
            /\ w < z - a => R + w = Full(d, e) - Full(d, ReadFrontier(d, id, id + 1)) + v
      BY <3>2 DEF Read
    <3>4. id < NumThreads - 1 /\ R + (z - a) <= Full(d, e) - Full(d, d.my_end[id]) /\ R \in Nat
      BY <1>3, <2>7, NeedFacts
    <3>5. ReadFrontier(d, id, id + 1) = d.my_end[id]
      <4>1. d.my_end[id] = d.my_begin[id + 1]
        BY <3>4, StripeFacts
      <4>2. r # id + 1
        <5>1. e \in Nat
          BY LastFacts
        <5> QED
          BY <1>0, <1>1, <1>3, <2>2, <3>4, <4>1, <5>1
      <4> QED
        BY <4>1, <4>2 DEF ReadFrontier
    <3> DEFINE E == Full(d, e)
               Y == Full(d, d.my_end[id])
    <3>6. E \in Int /\ Y \in Int
      BY <1>1, LastFacts, FullType
    <3>7. w = z - a
      <4>1. w < z - a => R + w = E - Y + v
        BY <3>3, <3>5
      <4>2. R + (z - a) <= E - Y /\ w <= z - a /\ R \in Nat
        BY <3>3, <3>4
      <4>3. w \in Nat /\ v \in Nat
        OBVIOUS
      <4> HIDE DEF E, Y, R, z, a
      <4> QED
        BY ONLY <2>4, <3>6, <4>1, <4>2, <4>3
    <3>8. st(r - (id + 1)).write_ptr >= z /\ r - (id + 1) \in 0 .. r
      <4>1. st(r - (id + 1)).write_ptr = a + (z - a)
        BY <3>3, <3>7
      <4>2. a + (z - a) = z
        BY <2>4
      <4> QED
        BY <1>0, <2>2, <2>4, <4>1, <4>2
    <3>9. st(r) = st(r - (id + 1))
      BY <2>5, <3>8
    <3>10. Moves(d, id) = m
      BY <2>1, <3>3, <3>9
    <3> QED
      BY <1>3, <2>7, <3>3, <3>7, <3>10
  <2> QED
    BY <2>6, <2>7
<1> QED
  BY <1>2, <1>3

------------------------------------------------------------------------------
(* Where a move takes from and where it goes to.                           *)
LEMMA MoveFacts ==
  ASSUME NEW d, Stripes(d), NEW id \in Threads
  PROVE  /\ Moves(d, id) \in Seq(MoveRecord)
         /\ \A i, j \in 1 .. Len(Moves(d, id)) :
              /\ Moves(d, id)[i].from = Moves(d, id)[j].from => i = j
              /\ Moves(d, id)[i].to = Moves(d, id)[j].to => i = j
         /\ \A j \in 1 .. Len(Moves(d, id)) :
              LET u == Moves(d, id)[j].from
                  v == Moves(d, id)[j].to
              IN  /\ id < NumThreads - 1 /\ BucketEnd(d, id) > d.my_end[id]
                  /\ FillBegin(d, id) < FillEnd(d, id)
                  /\ Taken(d, id, u, FillEnd(d, id) - FillBegin(d, id))
                  /\ u \in DOMAIN d.bucket /\ v \in Nat /\ d.my_end[id] <= At(u)
                  /\ FillBegin(d, id) <= At(v) /\ At(v) + BlockSize <= FillEnd(d, id)
<1> DEFINE e == BucketEnd(d, id)
           a == FillBegin(d, id)
           z == FillEnd(d, id)
           R == Reserved(d, id)
           M == Moves(d, id)
           w == z - a
           en == d.my_end[id]
<1>0. NumThreads \in Nat \ {0} /\ Threads = 0 .. NumThreads - 1 /\ id \in Nat /\ BlockSize \in Nat \ {0}
  BY Constants
<1>1. CASE M = << >>
  <2>1. M \in Seq(MoveRecord) /\ Len(M) = 0
    BY <1>1
  <2>2. 1 .. Len(M) = {}
    BY <2>1
  <2> QED
    BY <2>1, <2>2
<1>2. CASE M # << >>
  <2>1. e > en /\ a < z /\ Made(d, id, M, w)
    BY <1>2, MovesFacts
  <2>2. /\ M \in Seq(MoveRecord) /\ At(Len(M)) = w
        /\ \A j \in 1 .. Len(M) : At(M[j].to) = a + At(j - 1) /\ Taken(d, id, M[j].from, w)
        /\ \A i, j \in 1 .. Len(M) : M[i].from = M[j].from => i = j
    BY <2>1 DEF Made
  <2>3. Len(M) \in Nat /\ \A j \in 1 .. Len(M) : M[j].from \in Nat /\ M[j].to \in Nat
    <3>1. Len(M) \in Nat /\ \A j \in 1 .. Len(M) : M[j] \in MoveRecord
      BY <2>2, LenProperties, ElementOfSeq
    <3> QED
      BY <3>1 DEF MoveRecord
  <2>4. /\ R \in Nat /\ a \in Nat /\ z \in Nat /\ id < NumThreads - 1 /\ e \in Nat
        /\ R + (z - a) <= Full(d, e) - Full(d, en)
    BY <2>1, LastFacts, NeedFacts
  <2>5. en \in Nat /\ OnBlock(en) /\ Full(d, en) \in Int /\ Full(d, e) \in Int
    <3>1. en = d.my_begin[id + 1] /\ id + 1 \in Threads
      BY <1>0, <2>4, StripeFacts
    <3>2. en \in Nat /\ OnBlock(en)
      BY <3>1, StripeFacts
    <3> QED
      BY <2>4, <3>2, FullType
  <2>6. ASSUME NEW j \in 1 .. Len(M)
        PROVE  /\ a <= At(M[j].to) /\ At(M[j].to) + BlockSize <= z /\ At(j - 1) \in Nat
               /\ j - 1 \in Nat /\ At(M[j].to) = a + At(j - 1)
    <3> DEFINE k == j - 1
    <3>1. k \in Nat /\ k < Len(M)
      BY <2>3
    <3>2. At(k) \in Nat /\ At(k) + BlockSize <= At(Len(M))
      BY <2>3, <3>1, AtFacts
    <3>3. At(M[j].to) = a + At(k) /\ At(Len(M)) = z - a
      BY <2>2
    <3> HIDE DEF k
    <3>4. a <= At(M[j].to) /\ At(M[j].to) + BlockSize <= z
      <4> DEFINE x == At(M[j].to)
                 o == At(k)
                 t == At(Len(M))
      <4>1. /\ a \in Nat /\ z \in Nat /\ o \in Nat /\ BlockSize \in Nat
            /\ x = a + o /\ t = z - a /\ o + BlockSize <= t
        BY <1>0, <2>4, <3>2, <3>3
      <4> HIDE DEF x, o, t, a, z
      <4>2. a <= x /\ x + BlockSize <= z
        BY ONLY <4>1
      <4> QED
        BY <4>2 DEF x
    <3> QED
      BY <3>1, <3>2, <3>3, <3>4 DEF k
  <2>7. ASSUME NEW i \in 1 .. Len(M), NEW j \in 1 .. Len(M), M[i].to = M[j].to PROVE i = j
    <3>1. At(M[i].to) = a + At(i - 1) /\ At(M[j].to) = a + At(j - 1) /\ At(M[i].to) = At(M[j].to)
      BY <2>6, <2>7
    <3>2. At(i - 1) \in Nat /\ At(j - 1) \in Nat /\ i - 1 \in Nat /\ j - 1 \in Nat
      BY <2>6
    <3>3. At(i - 1) = At(j - 1)
      BY <2>4, <3>1, <3>2
    <3>4. i - 1 = j - 1
      BY <3>2, <3>3, AtOrder
    <3> QED
      BY <3>4
  <2>8. ASSUME NEW j \in 1 .. Len(M)
        PROVE  M[j].from \in DOMAIN d.bucket /\ en <= At(M[j].from)
    <3> DEFINE u == M[j].from
    <3>1. Taken(d, id, u, w)
      BY <2>2
    <3>2. u \in DOMAIN d.bucket /\ Full(d, e) - Full(d, At(u)) <= R + w
      BY <3>1 DEF Taken
    <3>3. /\ u \in Nat /\ At(u) \in Nat /\ OnBlock(At(u)) /\ Full(d, At(u)) \in Int
          /\ Full(d, At(u) + BlockSize) = Full(d, At(u)) + BlockSize /\ At(u) + BlockSize \in Nat
      BY <3>2, FullSlot
    <3> HIDE DEF u
    <3>4. Full(d, en) <= Full(d, At(u))
      <4> DEFINE E == Full(d, e)
                 N == Full(d, en)
                 U == Full(d, At(u))
      <4>1. E - U <= R + (z - a) /\ R + (z - a) <= E - N /\ E \in Int /\ N \in Int /\ U \in Int
            /\ R \in Nat /\ z \in Nat /\ a \in Nat
        BY <2>4, <2>5, <3>2, <3>3
      <4> HIDE DEF E, N, U, R, z, a
      <4>2. N <= U
        BY ONLY <4>1
      <4> QED
        BY <4>2 DEF N, U
    <3>5. en <= At(u)
      <4> SUFFICES ASSUME At(u) < en PROVE FALSE
        BY <2>5, <3>3
      <4>1. At(u) + BlockSize <= en
        BY <2>5, <3>3, OnBlocks
      <4>2. Full(d, At(u) + BlockSize) <= Full(d, en)
        BY <2>5, <3>3, <4>1, FullAscends
      <4> QED
        BY <1>0, <2>5, <3>3, <3>4, <4>2
    <3> QED
      BY <3>2, <3>5 DEF u
  <2> QED
    BY <2>1, <2>2, <2>3, <2>4, <2>6, <2>7, <2>8
<1> QED
  BY <1>1, <1>2

LEMMA RangesAscend ==
  ASSUME NEW d, Stripes(d), NEW p \in Threads, NEW q \in Threads, p < q
  PROVE  RangeEnd(d, p) <= RangeEnd(d, q) /\ LastBucket(d, p) <= LastBucket(d, q)
<1>1. /\ RangeEnd(d, p) \in 1 .. NumBuckets /\ RangeEnd(d, q) \in 1 .. NumBuckets
      /\ Start(d, RangeEnd(d, q)) >= d.my_end[q]
      /\ p < NumThreads - 1 => \A j \in 0 .. RangeEnd(d, p) - 1 : Start(d, j) < d.my_end[p]
  BY RangeEndFacts
<1>2. NumThreads \in Nat \ {0} /\ Threads = 0 .. NumThreads - 1 /\ NumBuckets \in Nat \ {0}
  BY Constants
<1>3. d.my_end[p] \in Nat /\ d.my_end[q] \in Nat /\ d.my_begin[q] \in Nat
      /\ d.my_begin[q] < d.my_end[q] /\ d.my_end[p] <= d.my_begin[q]
  BY StripeFacts, StripesAscend
<1>4. ~(RangeEnd(d, q) < RangeEnd(d, p))
  <2> SUFFICES ASSUME RangeEnd(d, q) < RangeEnd(d, p) PROVE FALSE
    OBVIOUS
  <2>1. RangeEnd(d, q) \in 0 .. RangeEnd(d, p) - 1 /\ p < NumThreads - 1
    BY <1>1, <1>2
  <2>2. Start(d, RangeEnd(d, q)) < d.my_end[p] /\ Start(d, RangeEnd(d, q)) \in Nat
    BY <1>1, <1>2, <2>1, StartFacts
  <2> QED
    BY <1>1, <1>3, <2>2
<1> QED
  BY <1>1, <1>4 DEF LastBucket

(* "Threads to the left of us get priority": no block is taken twice.      *)
LEMMA TakenApart ==
  ASSUME NEW d, Stripes(d), NEW p \in Threads, NEW q \in Threads, p < q,
         NEW i \in 1 .. Len(Moves(d, p)), NEW j \in 1 .. Len(Moves(d, q))
  PROVE  Moves(d, p)[i].from # Moves(d, q)[j].from
<1> DEFINE u == Moves(d, p)[i].from
<1> SUFFICES ASSUME u = Moves(d, q)[j].from PROVE FALSE
  OBVIOUS
<1>0. NumThreads \in Nat \ {0} /\ Threads = 0 .. NumThreads - 1 /\ BlockSize \in Nat \ {0}
  BY Constants
<1>1. /\ p < NumThreads - 1 /\ BucketEnd(d, p) > d.my_end[p] /\ FillBegin(d, p) < FillEnd(d, p)
      /\ Taken(d, p, u, FillEnd(d, p) - FillBegin(d, p))
      /\ u \in DOMAIN d.bucket /\ d.my_end[p] <= At(u)
  BY MoveFacts
<1>2. /\ q < NumThreads - 1 /\ BucketEnd(d, q) > d.my_end[q] /\ FillBegin(d, q) < FillEnd(d, q)
      /\ Taken(d, q, u, FillEnd(d, q) - FillBegin(d, q))
      /\ d.my_end[q] <= At(u)
  BY MoveFacts
<1> HIDE DEF u
<1>3. /\ u \in Nat /\ At(u) \in Nat /\ Full(d, At(u)) \in Int
      /\ Full(d, At(u) + BlockSize) = Full(d, At(u)) + BlockSize
  BY <1>1, FullSlot
<1>4. /\ LastBucket(d, p) \in Buckets /\ LastBucket(d, q) \in Buckets
      /\ LastBucket(d, p) <= LastBucket(d, q)
      /\ BucketEnd(d, p) = Start(d, LastBucket(d, p) + 1) /\ LastStart(d, q) = Start(d, LastBucket(d, q))
      /\ BucketEnd(d, q) = Start(d, LastBucket(d, q) + 1) /\ LastStart(d, p) = Start(d, LastBucket(d, p))
  BY LastFacts, RangesAscend
<1>5. CASE LastBucket(d, p) = LastBucket(d, q)
  <2> DEFINE s == LastStart(d, p)
             e == BucketEnd(d, p)
             y == MaxOf(d.my_begin[q], s)
             z == FillEnd(d, p)
             R == Reserved(d, q)
             T == Reserved(d, p) + (FillEnd(d, p) - FillBegin(d, p))
  <2>1. s = LastStart(d, q) /\ e = BucketEnd(d, q)
    BY <1>4, <1>5
  <2>2. R = Holes(d, y) - Holes(d, s)
    BY <2>1, ReservedIsHoles
  <2>3. T = Holes(d, z) - Holes(d, s) /\ z <= d.my_end[p] /\ z \in Nat
    BY <1>1, NeedFacts
  <2>4. /\ d.my_end[p] <= d.my_begin[q] /\ d.my_begin[q] \in Nat /\ d.my_end[p] \in Nat
        /\ s \in Nat /\ e \in Nat
    BY StripeFacts, StripesAscend, LastFacts
  <2>5. z <= y /\ y \in Nat
    BY <2>3, <2>4 DEF MaxOf
  <2>6. /\ R <= Full(d, e) - Full(d, At(u) + BlockSize)
        /\ Full(d, e) - Full(d, At(u)) <= T
    BY <1>1, <1>2, <2>1 DEF Taken
  <2> HIDE DEF s, e, y, z, R, T
  <2>7. Holes(d, z) <= Holes(d, y) /\ Holes(d, z) \in Int /\ Holes(d, y) \in Int
    BY <2>3, <2>5, HolesAscend
  <2>8. Holes(d, s) \in Int /\ Full(d, e) \in Int
    <3>1. Full(d, s) \in Int /\ Full(d, e) \in Int
      BY <2>4, FullType
    <3> QED
      BY <2>4, <3>1 DEF Holes
  <2>9. T <= R /\ T \in Int /\ R \in Int
    BY <2>2, <2>3, <2>7, <2>8
  <2> DEFINE E == Full(d, e)
             U == Full(d, At(u))
  <2>10. R <= E - (U + BlockSize) /\ E - U <= T /\ E \in Int /\ U \in Int
    BY <1>3, <2>6, <2>8
  <2> HIDE DEF E, U
  <2> QED
    BY ONLY <1>0, <2>9, <2>10
<1>6. CASE LastBucket(d, p) # LastBucket(d, q)
  <2>1. LastBucket(d, p) + 1 <= LastBucket(d, q) /\ LastBucket(d, p) + 1 \in 0 .. NumBuckets
        /\ LastBucket(d, q) \in 0 .. NumBuckets
    <3> DEFINE g == LastBucket(d, p)
               h == LastBucket(d, q)
    <3>1. /\ g \in Nat /\ h \in Nat /\ NumBuckets \in Nat /\ g <= NumBuckets - 1 /\ h <= NumBuckets - 1
          /\ g <= h /\ g # h
      BY <1>4, <1>6, Constants
    <3> HIDE DEF g, h
    <3>2. g + 1 <= h /\ g + 1 \in 0 .. NumBuckets /\ h \in 0 .. NumBuckets
      BY ONLY <3>1
    <3> QED
      BY <3>2 DEF g, h
  <2>2. /\ BucketEnd(d, p) <= LastStart(d, q) /\ BucketEnd(d, p) \in Nat /\ LastStart(d, q) \in Nat
    BY <1>4, <2>1, StartFacts
  <2>3. At(u) + BlockSize <= BucketEnd(d, p)
    BY <1>1 DEF Taken
  <2>4. LastStart(d, q) < d.my_end[q] /\ d.my_end[q] \in Nat
    BY <1>2, LastFacts, StripeFacts
  <2> DEFINE x == At(u)
             e == BucketEnd(d, p)
             S == LastStart(d, q)
             z == d.my_end[q]
  <2>5. /\ x \in Nat /\ e \in Nat /\ S \in Nat /\ z \in Nat /\ BlockSize \in Nat \ {0}
        /\ e <= S /\ x + BlockSize <= e /\ S < z /\ z <= x
    BY <1>0, <1>2, <1>3, <2>2, <2>3, <2>4
  <2> HIDE DEF x, e, S, z
  <2> QED
    BY ONLY <2>5
<1> QED
  BY <1>5, <1>6

LEMMA WholeSlots ==
  ASSUME NEW x \in Nat
  PROVE  /\ x \div BlockSize \in Nat
         /\ At(x \div BlockSize) <= x /\ x < At(x \div BlockSize) + BlockSize
<1>1. BlockSize \in Nat \ {0}
  BY Constants
<1> DEFINE m == x \div BlockSize
<1>2. m \in Nat /\ BlockSize * m <= x /\ x < BlockSize * m + BlockSize
  BY <1>1, DivisionUnique
<1> HIDE DEF m
<1>3. At(m) = BlockSize * m
  BY <1>1, <1>2 DEF At
<1> QED
  BY <1>2, <1>3 DEF m

LEMMA SlotWithin ==
  ASSUME NEW d, d.n \in Nat, NEW s \in Nat, At(s) + BlockSize <= d.n
  PROVE  s \in Slots(d)
<1> DEFINE m == d.n \div BlockSize
<1>1. m \in Nat /\ At(m) <= d.n /\ d.n < At(m) + BlockSize
  BY WholeSlots
<1> HIDE DEF m
<1>2. At(s) \in Nat /\ At(m) \in Nat /\ BlockSize \in Nat
  BY <1>1, AtOrder, Constants
<1>3. At(s) < At(m)
  BY <1>1, <1>2
<1>4. s < m
  BY <1>1, <1>3, AtOrder
<1> QED
  BY <1>1, <1>4 DEF Slots, m

LEMMA BlocksInSlots ==
  ASSUME NEW d, Stripes(d)
  PROVE  DOMAIN d.bucket \subseteq Slots(d)
<1> SUFFICES ASSUME NEW s \in DOMAIN d.bucket PROVE s \in Slots(d)
  OBVIOUS
<1>1. /\ s \in Nat /\ At(s) + BlockSize \in Nat /\ d.n \in Nat
      /\ \E p \in Threads : d.my_begin[p] <= At(s) /\ At(s) + BlockSize <= d.first_empty[p]
  BY FullSlot DEF Stripes
<1>2. PICK p \in Threads : At(s) + BlockSize <= d.first_empty[p]
  BY <1>1
<1>3. /\ d.first_empty[p] <= d.my_end[p] /\ d.my_end[p] <= d.n /\ d.first_empty[p] \in Nat
      /\ d.my_end[p] \in Nat
  BY StripeFacts
<1>4. At(s) + BlockSize <= d.n
  BY <1>1, <1>2, <1>3
<1> QED
  BY <1>1, <1>4, SlotWithin

LEMMA MoveSlots ==
  ASSUME NEW d, Stripes(d), NEW id \in Threads, NEW j \in 1 .. Len(Moves(d, id))
  PROVE  /\ Moves(d, id)[j].from \in DOMAIN d.bucket /\ Moves(d, id)[j].to \notin DOMAIN d.bucket
         /\ Moves(d, id)[j].to \in Slots(d) /\ DOMAIN d.bucket \subseteq Slots(d)
         /\ d.my_begin[id] <= At(Moves(d, id)[j].to) /\ At(Moves(d, id)[j].to) < d.my_end[id]
<1> DEFINE u == Moves(d, id)[j].from
           v == Moves(d, id)[j].to
<1>0. NumThreads \in Nat \ {0} /\ Threads = 0 .. NumThreads - 1 /\ BlockSize \in Nat \ {0}
  BY Constants
<1>1. /\ BucketEnd(d, id) > d.my_end[id] /\ FillBegin(d, id) < FillEnd(d, id)
      /\ u \in DOMAIN d.bucket /\ v \in Nat
      /\ FillBegin(d, id) <= At(v) /\ At(v) + BlockSize <= FillEnd(d, id)
  BY MoveFacts
<1>2. /\ d.first_empty[id] <= FillBegin(d, id) /\ FillEnd(d, id) <= d.my_end[id]
      /\ FillBegin(d, id) \in Nat /\ FillEnd(d, id) \in Nat
  BY <1>1, NeedFacts
<1>3. /\ d.my_begin[id] \in Nat /\ d.first_empty[id] \in Nat /\ d.my_end[id] \in Nat
      /\ d.my_begin[id] <= d.first_empty[id] /\ d.my_end[id] <= d.n /\ d.n \in Nat
  BY StripeFacts
<1> HIDE DEF u, v
<1>4. At(v) \in Nat
  BY <1>1, AtOrder
<1>5. d.first_empty[id] <= At(v) /\ At(v) + BlockSize <= d.my_end[id]
  <2> DEFINE a == FillBegin(d, id)
             z == FillEnd(d, id)
             x == At(v)
  <2>1. /\ d.first_empty[id] <= a /\ a <= x /\ x + BlockSize <= z /\ z <= d.my_end[id]
        /\ a \in Nat /\ z \in Nat /\ x \in Nat /\ d.first_empty[id] \in Nat /\ d.my_end[id] \in Nat
    BY <1>1, <1>2, <1>3, <1>4
  <2> HIDE DEF a, z, x
  <2>2. d.first_empty[id] <= x
    BY <2>1
  <2>3. x + BlockSize <= d.my_end[id]
    BY <1>0, <2>1
  <2> QED
    BY <2>2, <2>3 DEF x
<1>7. v \in Slots(d)
  <2>1. At(v) + BlockSize <= d.n
    BY <1>0, <1>3, <1>4, <1>5
  <2> QED
    BY <1>1, <1>3, <2>1, SlotWithin DEF v
<1>8. DOMAIN d.bucket \subseteq Slots(d)
  BY BlocksInSlots
<1>9. v \notin DOMAIN d.bucket
  <2> SUFFICES ASSUME v \in DOMAIN d.bucket PROVE FALSE
    OBVIOUS
  <2>1. PICK p \in Threads : d.my_begin[p] <= At(v) /\ At(v) < d.first_empty[p]
    BY DEF Stripes
  <2>2. /\ d.my_begin[p] \in Nat /\ d.first_empty[p] \in Nat /\ d.my_end[p] \in Nat
        /\ d.first_empty[p] <= d.my_end[p]
    BY StripeFacts
  <2>3. p = id
    <3>1. p < id => d.my_end[p] <= d.my_begin[id]
      BY StripesAscend
    <3>2. id < p => d.my_end[id] <= d.my_begin[p]
      BY StripesAscend
    <3>3. ~(p < id)
      BY <1>3, <1>4, <1>5, <2>1, <2>2, <3>1
    <3>4. ~(id < p)
      <4> SUFFICES ASSUME id < p PROVE FALSE
        OBVIOUS
      <4> DEFINE x  == At(v)
                 en == d.my_end[id]
                 lo == d.my_begin[p]
      <4>1. /\ x \in Nat /\ en \in Nat /\ lo \in Nat /\ BlockSize \in Nat \ {0}
            /\ x + BlockSize <= en /\ en <= lo /\ lo <= x
        BY <1>0, <1>3, <1>4, <1>5, <2>1, <2>2, <3>2
      <4> HIDE DEF x, en, lo
      <4> QED
        BY ONLY <4>1
    <3> QED
      BY <1>0, <3>3, <3>4
  <2> QED
    BY <1>3, <1>4, <1>5, <2>1, <2>3
<1>10. d.my_begin[id] <= At(v) /\ At(v) < d.my_end[id]
  <2> DEFINE x  == At(v)
             en == d.my_end[id]
             fe == d.first_empty[id]
             lo == d.my_begin[id]
  <2>1. /\ x \in Nat /\ en \in Nat /\ lo \in Nat /\ fe \in Nat /\ BlockSize \in Nat \ {0}
        /\ x + BlockSize <= en /\ lo <= fe /\ fe <= x
    BY <1>0, <1>3, <1>4, <1>5
  <2> HIDE DEF x, en, fe, lo
  <2>2. lo <= x /\ x < en
    BY ONLY <2>1
  <2> QED
    BY <2>2 DEF x, en, lo
<1> QED
  BY <1>1, <1>7, <1>8, <1>9, <1>10 DEF u, v

(* No slot is touched by two moves.                                        *)
LEMMA MovesApart ==
  ASSUME NEW d, Stripes(d), NEW p \in Threads, NEW q \in Threads,
         NEW i \in 1 .. Len(Moves(d, p)), NEW j \in 1 .. Len(Moves(d, q)), << p, i >> # << q, j >>
  PROVE  /\ Moves(d, p)[i].from # Moves(d, q)[j].from /\ Moves(d, p)[i].to # Moves(d, q)[j].to
         /\ Moves(d, p)[i].from # Moves(d, q)[j].to /\ Moves(d, p)[i].to # Moves(d, q)[j].from
<1>0. NumThreads \in Nat \ {0} /\ Threads = 0 .. NumThreads - 1 /\ BlockSize \in Nat \ {0}
  BY Constants
<1>1. /\ Moves(d, p)[i].from \in DOMAIN d.bucket /\ Moves(d, p)[i].to \notin DOMAIN d.bucket
      /\ Moves(d, q)[j].from \in DOMAIN d.bucket /\ Moves(d, q)[j].to \notin DOMAIN d.bucket
  BY MoveSlots
<1>2. Moves(d, p)[i].from # Moves(d, q)[j].to /\ Moves(d, p)[i].to # Moves(d, q)[j].from
  BY <1>1
<1>3. CASE p = q
  BY <1>2, <1>3, MoveFacts
<1>4. CASE p # q
  <2>1. Moves(d, p)[i].from # Moves(d, q)[j].from
    <3>1. p < q \/ q < p
      BY <1>0, <1>4
    <3> QED
      BY <3>1, TakenApart
  <2>2. Moves(d, p)[i].to # Moves(d, q)[j].to
    <3> SUFFICES ASSUME Moves(d, p)[i].to = Moves(d, q)[j].to PROVE FALSE
      OBVIOUS
    <3> DEFINE v == Moves(d, p)[i].to
    <3>1. /\ d.my_begin[p] <= At(v) /\ At(v) < d.my_end[p] /\ d.my_begin[q] <= At(v) /\ At(v) < d.my_end[q]
          /\ v \in Slots(d)
      BY MoveSlots
    <3>2. /\ d.my_begin[p] \in Nat /\ d.my_end[p] \in Nat /\ d.my_begin[q] \in Nat /\ d.my_end[q] \in Nat
      BY StripeFacts
    <3> HIDE DEF v
    <3>3. At(v) \in Nat
      <4>1. v \in Nat
        BY <3>1 DEF Slots
      <4> QED
        BY <4>1, AtOrder
    <3>4. p < q => d.my_end[p] <= d.my_begin[q]
      BY StripesAscend
    <3>5. q < p => d.my_end[q] <= d.my_begin[p]
      BY StripesAscend
    <3>6. p < q \/ q < p
      BY <1>0, <1>4
    <3> QED
      BY <3>1, <3>2, <3>3, <3>4, <3>5, <3>6
  <2> QED
    BY <1>2, <2>1, <2>2
<1> QED
  BY <1>3, <1>4

------------------------------------------------------------------------------
(* Definitions by recursion over a number of steps.                        *)
Recursions(m, S, x, F) ==
  {h \in [0 .. m -> S] : h[0] = x /\ \A k \in 1 .. m : h[k] = F[<< h[k - 1], k >>]}

LEMMA Recursion ==
  ASSUME NEW m \in Nat, NEW S, NEW x \in S, NEW F \in [S \X (1 .. m) -> S]
  PROVE  Recursions(m, S, x, F) # {}
<1> DEFINE Is(h, n) == h \in [0 .. n -> S] /\ h[0] = x /\ \A k \in 1 .. n : h[k] = F[<< h[k - 1], k >>]
           Missing == {n \in 0 .. m : ~\E h : Is(h, n)}
<1>1. \A n : n \in Missing <=> n \in 0 .. m /\ ~\E h : Is(h, n)
  OBVIOUS
<1> HIDE DEF Missing
<1>2. Missing = {}
  <2> SUFFICES ASSUME Missing # {} PROVE FALSE
    OBVIOUS
  <2>1. Missing \subseteq Nat
    BY <1>1
  <2>2. PICK n \in Missing : \A y \in Missing : n <= y
    BY <2>1, Least
  <2>3. CASE n = 0
    <3> DEFINE h == [k \in 0 .. 0 |-> x]
    <3>1. h \in [0 .. 0 -> S] /\ h[0] = x /\ 1 .. 0 = {}
      OBVIOUS
    <3>2. Is(h, 0)
      BY <3>1
    <3> QED
      BY <1>1, <2>2, <2>3, <3>2
  <2>4. CASE n # 0
    <3>1. n \in 1 .. m /\ n \in Nat /\ n - 1 \in 0 .. m /\ n - 1 \notin Missing
      BY <1>1, <2>1, <2>2, <2>4
    <3>2. PICK h : Is(h, n - 1)
      BY <1>1, <3>1
    <3> DEFINE g == [k \in 0 .. n |-> IF k = n THEN F[<< h[n - 1], n >>] ELSE h[k]]
    <3>3. h[n - 1] \in S
      BY <3>1, <3>2
    <3>4. F[<< h[n - 1], n >>] \in S
      BY <3>1, <3>3
    <3>5. \A k \in 0 .. n : k # n => k \in 0 .. n - 1 /\ h[k] \in S
      BY <3>1, <3>2
    <3>6. g \in [0 .. n -> S]
      BY <3>4, <3>5
    <3>7. g[0] = x
      BY <2>4, <3>1, <3>2
    <3>8. ASSUME NEW k \in 1 .. n PROVE g[k] = F[<< g[k - 1], k >>]
      <4>1. k - 1 \in 0 .. n /\ k - 1 # n /\ k \in 0 .. n
        BY <3>1
      <4>2. g[k - 1] = h[k - 1] /\ g[k] = IF k = n THEN F[<< h[n - 1], n >>] ELSE h[k]
        BY <4>1
      <4>3. CASE k = n
        BY <4>2, <4>3
      <4>4. CASE k # n
        <5>1. k \in 1 .. n - 1
          BY <3>1, <4>4
        <5>2. h[k] = F[<< h[k - 1], k >>]
          BY <3>2, <5>1
        <5> QED
          BY <4>2, <4>4, <5>2
      <4> QED
        BY <4>3, <4>4
    <3>9. Is(g, n)
      BY <3>6, <3>7, <3>8
    <3> HIDE DEF Is, g
    <3>10. \E f : Is(f, n)
      BY <3>9
    <3> QED
      BY <1>1, <2>2, <3>10
  <2> QED
    BY <2>3, <2>4
<1>3. m \in 0 .. m
  OBVIOUS
<1>4. \E h : Is(h, m)
  BY <1>1, <1>2, <1>3
<1> QED
  BY <1>4 DEF Recursions

------------------------------------------------------------------------------
(* Classification of a stripe.                                             *)
ClassifyState == [size : [Buckets -> 0 .. BlockSize], flushed : Seq(Buckets)]

LEMMA YieldFacts ==
  ASSUME NEW st \in ClassifyState, NEW b \in Buckets
  PROVE  /\ Yield(st, b) \in ClassifyState
         /\ \/ /\ st.size[b] < BlockSize /\ Yield(st, b).flushed = st.flushed
               /\ Yield(st, b).size = [st.size EXCEPT ![b] = st.size[b] + 1]
            \/ /\ st.size[b] = BlockSize /\ Yield(st, b).flushed = Append(st.flushed, b)
               /\ Yield(st, b).size = [st.size EXCEPT ![b] = 1]
<1>0. BlockSize \in Nat \ {0}
  BY Constants
<1>1. /\ st.size \in [Buckets -> 0 .. BlockSize] /\ st.flushed \in Seq(Buckets)
      /\ st.size[b] \in 0 .. BlockSize /\ st = [size |-> st.size, flushed |-> st.flushed]
  BY DEF ClassifyState
<1>2. Append(st.flushed, b) \in Seq(Buckets)
  BY <1>1, AppendProperties
<1>3. CASE IsFull(st, b)
  <2>1. WriteTo(st, b) = [size |-> [st.size EXCEPT ![b] = 0], flushed |-> Append(st.flushed, b)]
    BY DEF WriteTo
  <2>2. Yield(st, b) = [WriteTo(st, b) EXCEPT !.size[b] = @ + 1]
    BY <1>3 DEF Yield, Push
  <2>3. [st.size EXCEPT ![b] = 0][b] = 0
    BY <1>1
  <2> DEFINE sz == [st.size EXCEPT ![b] = 0]
             fl == Append(st.flushed, b)
  <2>a. Yield(st, b) = [[size |-> sz, flushed |-> fl] EXCEPT !.size[b] = @ + 1] /\ sz[b] = 0
    BY <2>1, <2>2, <2>3
  <2> HIDE DEF sz, fl
  <2>b. [[size |-> sz, flushed |-> fl] EXCEPT !.size[b] = @ + 1]
          = [size |-> [sz EXCEPT ![b] = sz[b] + 1], flushed |-> fl]
    OBVIOUS
  <2>4. Yield(st, b) = [size |-> [[st.size EXCEPT ![b] = 0] EXCEPT ![b] = 0 + 1],
                        flushed |-> Append(st.flushed, b)]
    BY <2>a, <2>b DEF sz, fl
  <2>5. [[st.size EXCEPT ![b] = 0] EXCEPT ![b] = 0 + 1] = [st.size EXCEPT ![b] = 1]
    BY <1>1
  <2>6. Yield(st, b) = [size |-> [st.size EXCEPT ![b] = 1], flushed |-> Append(st.flushed, b)]
    BY <2>4, <2>5
  <2>7. [st.size EXCEPT ![b] = 1] \in [Buckets -> 0 .. BlockSize]
    BY <1>0, <1>1
  <2> QED
    BY <1>2, <1>3, <2>6, <2>7 DEF ClassifyState, IsFull
<1>4. CASE ~IsFull(st, b)
  <2>1. Yield(st, b) = [st EXCEPT !.size[b] = @ + 1]
    BY <1>4 DEF Yield, Push
  <2>2. Yield(st, b) = [size |-> [st.size EXCEPT ![b] = st.size[b] + 1], flushed |-> st.flushed]
    BY <1>1, <2>1
  <2>3. st.size[b] # BlockSize
    BY <1>4 DEF IsFull
  <2>4. st.size[b] < BlockSize /\ st.size[b] + 1 \in 0 .. BlockSize
    BY <1>0, <1>1, <2>3
  <2>5. [st.size EXCEPT ![b] = st.size[b] + 1] \in [Buckets -> 0 .. BlockSize]
    BY <1>1, <2>4
  <2> QED
    BY <1>1, <2>2, <2>4, <2>5 DEF ClassifyState
<1> QED
  BY <1>3, <1>4

NothingClassified == [size |-> [b \in Buckets |-> 0], flushed |-> << >>]

LEMMA ClassifySteps ==
  ASSUME NEW q \in Seq(Buckets)
  PROVE  \E h \in [0 .. Len(q) -> ClassifyState] :
           /\ h[0] = NothingClassified /\ h[Len(q)] = ClassifyAll(q)
           /\ \A k \in 1 .. Len(q) : h[k] = Yield(h[k - 1], q[k])
<1> DEFINE m == Len(q)
           x == NothingClassified
           S == ClassifyState
           F == [p \in S \X (1 .. m) |-> Yield(p[1], q[p[2]])]
           Is(h) == h = [k \in 0 .. m |-> IF k = 0 THEN x ELSE Yield(h[k - 1], q[k])]
<1>1. m \in Nat /\ \A k \in 1 .. m : q[k] \in Buckets
  BY LenProperties
<1>2. x \in S
  BY Constants DEF NothingClassified, ClassifyState
<1>3. ClassifyAll(q) = (CHOOSE h : Is(h))[m]
  BY DEF ClassifyAll, NothingClassified
<1> HIDE DEF m, x, S
<1>4. ASSUME NEW p \in S \X (1 .. m) PROVE Yield(p[1], q[p[2]]) \in S
  <2>1. p[1] \in S /\ p[2] \in 1 .. m
    OBVIOUS
  <2> QED
    BY <1>1, <2>1, YieldFacts DEF S
<1>5. F \in [S \X (1 .. m) -> S]
  BY <1>4
<1> DEFINE T == S \X (1 .. m)
<1>6. \A p \in T : F[p] = Yield(p[1], q[p[2]])
  OBVIOUS
<1> HIDE DEF F
<1>7. PICK h \in [0 .. m -> S] : h[0] = x /\ \A k \in 1 .. m : h[k] = F[<< h[k - 1], k >>]
  <2>1. m \in Nat
    BY <1>1
  <2>2. Recursions(m, S, x, F) # {}
    BY <1>2, <1>5, <2>1, Recursion
  <2> QED
    BY <2>2 DEF Recursions
<1>8. ASSUME NEW k \in 1 .. m PROVE h[k] = Yield(h[k - 1], q[k])
  <2>1. h[k - 1] \in S
    BY <1>1, <1>7
  <2>2. << h[k - 1], k >> \in T
    BY <2>1
  <2>3. F[<< h[k - 1], k >>] = Yield(h[k - 1], q[k])
    BY <1>6, <2>2
  <2> QED
    BY <1>7, <2>3
<1>9. \A k \in 0 .. m : h[k] = IF k = 0 THEN x ELSE Yield(h[k - 1], q[k])
  BY <1>1, <1>7, <1>8
<1>10. Is(h)
  BY <1>9
<1> DEFINE g == CHOOSE f : Is(f)
<1>11. Is(g)
  BY <1>10
<1>12. ClassifyAll(q) = g[m]
  BY <1>3
<1> HIDE DEF g
<1>13. \A k \in 0 .. m : g[k] = IF k = 0 THEN x ELSE Yield(g[k - 1], q[k])
  BY <1>11
<1> DEFINE Wrong == {k \in 0 .. m : g[k] # h[k]}
<1>14. Wrong = {}
  <2> SUFFICES ASSUME Wrong # {} PROVE FALSE
    OBVIOUS
  <2>1. Wrong \subseteq Nat /\ \A k : k \in Wrong <=> k \in 0 .. m /\ g[k] # h[k]
    BY <1>1
  <2> HIDE DEF Wrong
  <2>2. PICK k \in Wrong : \A y \in Wrong : k <= y
    BY <2>1, Least
  <2>3. k \in 1 .. m /\ k - 1 \in 0 .. m /\ k - 1 \notin Wrong /\ k # 0
    BY <1>1, <1>7, <1>13, <2>1, <2>2
  <2>4. g[k - 1] = h[k - 1]
    BY <2>1, <2>3
  <2>5. g[k] = h[k]
    BY <1>8, <1>13, <2>3, <2>4
  <2> QED
    BY <2>1, <2>2, <2>5
<1>15. h[m] = g[m]
  <2>1. m \in 0 .. m
    BY <1>1
  <2> QED
    BY <1>14, <2>1
<1> QED
  BY <1>7, <1>8, <1>12, <1>15 DEF x, m, S

(* How many elements a stripe has sent to its buffers and blocks.          *)
Occurrences(q, k, b) == {i \in 1 .. k : q[i] = b}
Held(size) == {x \in Buckets \X (1 .. BlockSize) : x[2] <= size[x[1]]}

LEMMA OccurrenceFacts ==
  ASSUME NEW q, NEW k \in Nat, NEW b
  PROVE  /\ IsFiniteSet(Occurrences(q, k, b)) /\ Cardinality(Occurrences(q, k, b)) \in Nat
         /\ Cardinality(Occurrences(q, k, b)) <= k
         /\ Occurrences(q, 0, b) = {} /\ Cardinality(Occurrences(q, 0, b)) = 0
         /\ Cardinality(Occurrences(q, k + 1, b)) =
              Cardinality(Occurrences(q, k, b)) + (IF q[k + 1] = b THEN 1 ELSE 0)
<1>1. IsFiniteSet(1 .. k) /\ Cardinality(1 .. k) = k
  BY FS_Interval
<1>2. Occurrences(q, k, b) \in SUBSET (1 .. k)
  BY DEF Occurrences
<1>3. IsFiniteSet(Occurrences(q, k, b)) /\ Cardinality(Occurrences(q, k, b)) <= k
  BY <1>1, <1>2, FS_Subset
<1>4. Cardinality(Occurrences(q, k, b)) \in Nat
  BY <1>3, FS_CardinalityType
<1>5. Occurrences(q, 0, b) = {} /\ Cardinality(Occurrences(q, 0, b)) = 0
  <2>1. Occurrences(q, 0, b) = {}
    BY DEF Occurrences
  <2> QED
    BY <2>1, FS_EmptySet
<1>6. k + 1 \notin Occurrences(q, k, b)
  BY DEF Occurrences
<1>7. CASE q[k + 1] = b
  <2>1. Occurrences(q, k + 1, b) = Occurrences(q, k, b) \cup {k + 1}
    BY <1>7 DEF Occurrences
  <2> QED
    BY <1>3, <1>4, <1>5, <1>6, <1>7, <2>1, FS_AddElement
<1>8. CASE q[k + 1] # b
  <2>1. Occurrences(q, k + 1, b) = Occurrences(q, k, b)
    <3>1. \A i : i \in 1 .. k + 1 /\ i # k + 1 <=> i \in 1 .. k
      OBVIOUS
    <3> QED
      BY <1>8, <3>1 DEF Occurrences
  <2> QED
    BY <1>3, <1>4, <1>5, <1>8, <2>1
<1> QED
  BY <1>7, <1>8

LEMMA OccurrenceNext ==
  ASSUME NEW q, NEW k \in Nat, NEW b, NEW m, m = k + 1, NEW a, a = q[m]
  PROVE  Cardinality(Occurrences(q, m, b)) = Cardinality(Occurrences(q, k, b)) + (IF a = b THEN 1 ELSE 0)
<1>1. Cardinality(Occurrences(q, k + 1, b)) = Cardinality(Occurrences(q, k, b)) + (IF q[k + 1] = b THEN 1 ELSE 0)
  BY OccurrenceFacts
<1> QED
  BY ONLY <1>1, m = k + 1, a = q[m]

LEMMA HeldFacts ==
  ASSUME NEW size \in [Buckets -> 0 .. BlockSize]
  PROVE  IsFiniteSet(Held(size)) /\ Cardinality(Held(size)) \in Nat
<1>1. IsFiniteSet(Buckets) /\ IsFiniteSet(1 .. BlockSize)
  BY Constants, FS_Interval
<1>2. IsFiniteSet(Buckets \X (1 .. BlockSize))
  BY <1>1, FS_Product
<1>3. Held(size) \in SUBSET (Buckets \X (1 .. BlockSize))
  BY DEF Held
<1>4. IsFiniteSet(Held(size))
  BY <1>2, <1>3, FS_Subset
<1> QED
  BY <1>4, FS_CardinalityType

LEMMA HeldPush ==
  ASSUME NEW size \in [Buckets -> 0 .. BlockSize], NEW b \in Buckets, size[b] < BlockSize
  PROVE  Cardinality(Held([size EXCEPT ![b] = size[b] + 1])) = Cardinality(Held(size)) + 1
<1> DEFINE more == [size EXCEPT ![b] = size[b] + 1]
           x == << b, size[b] + 1 >>
<1>0. BlockSize \in Nat \ {0}
  BY Constants
<1>1. size[b] \in 0 .. BlockSize /\ size[b] + 1 \in 1 .. BlockSize
  BY <1>0
<1>2. \A a \in Buckets : more[a] = (IF a = b THEN size[b] + 1 ELSE size[a]) /\ size[a] \in 0 .. BlockSize
  OBVIOUS
<1> HIDE DEF more
<1>3. ASSUME NEW y \in Buckets \X (1 .. BlockSize)
      PROVE  y[2] <= more[y[1]] <=> y[2] <= size[y[1]] \/ y = x
  <2>1. y[1] \in Buckets /\ y[2] \in 1 .. BlockSize /\ y = << y[1], y[2] >>
    OBVIOUS
  <2>2. CASE y[1] # b
    BY <1>2, <2>1, <2>2
  <2>3. CASE y[1] = b
    <3>1. more[y[1]] = size[b] + 1
      BY <1>2, <2>1, <2>3
    <3>2. y = x <=> y[2] = size[b] + 1
      BY <2>1, <2>3
    <3> HIDE DEF x
    <3> QED
      BY <1>0, <1>1, <2>1, <2>3, <3>1, <3>2
  <2> QED
    BY <2>2, <2>3
<1>4. x \in Buckets \X (1 .. BlockSize)
  BY <1>1
<1>5. x \notin Held(size)
  BY <1>1 DEF Held
<1> HIDE DEF x
<1>6. Held(more) = Held(size) \cup {x}
  BY <1>3, <1>4 DEF Held
<1>7. Cardinality(Held(more)) = Cardinality(Held(size)) + 1
  BY <1>5, <1>6, HeldFacts, FS_AddElement
<1> QED
  BY <1>7 DEF more

LEMMA HeldWrite ==
  ASSUME NEW size \in [Buckets -> 0 .. BlockSize], NEW b \in Buckets, size[b] = BlockSize
  PROVE  Cardinality(Held(size)) + 1 = Cardinality(Held([size EXCEPT ![b] = 1])) + BlockSize
<1> DEFINE less == [size EXCEPT ![b] = 1]
           gone == {b} \X (2 .. BlockSize)
<1>0. BlockSize \in Nat \ {0}
  BY Constants
<1>1. less \in [Buckets -> 0 .. BlockSize]
  BY <1>0
<1>2. \A a \in Buckets : less[a] = (IF a = b THEN 1 ELSE size[a]) /\ size[a] \in 0 .. BlockSize
  OBVIOUS
<1>3. IsFiniteSet(gone) /\ Cardinality(gone) = BlockSize - 1
  <2>1. IsFiniteSet(2 .. BlockSize) /\ Cardinality(2 .. BlockSize) = BlockSize - 1
    BY <1>0, FS_Interval
  <2>2. IsFiniteSet({b}) /\ Cardinality({b}) = 1
    BY FS_Singleton
  <2>3. IsFiniteSet(gone) /\ Cardinality(gone) = 1 * (BlockSize - 1)
    BY <2>1, <2>2, FS_Product
  <2> QED
    BY <1>0, <2>3
<1> HIDE DEF less
<1>4. ASSUME NEW y \in Buckets \X (1 .. BlockSize)
      PROVE  /\ y[2] <= size[y[1]] <=> y[2] <= less[y[1]] \/ y \in gone
             /\ y \in gone => ~(y[2] <= less[y[1]])
  <2>1. y[1] \in Buckets /\ y[2] \in 1 .. BlockSize /\ y = << y[1], y[2] >>
    OBVIOUS
  <2>2. y \in gone <=> y[1] = b /\ y[2] \in 2 .. BlockSize
    BY <2>1
  <2> HIDE DEF gone
  <2>3. CASE y[1] # b
    BY <1>2, <2>1, <2>2, <2>3
  <2>4. CASE y[1] = b
    <3>1. less[y[1]] = 1 /\ size[y[1]] = BlockSize
      BY <1>2, <2>4
    <3> QED
      BY <1>0, <2>1, <2>2, <2>4, <3>1
  <2> QED
    BY <2>3, <2>4
<1>5. gone \subseteq Buckets \X (1 .. BlockSize)
  BY <1>0
<1> HIDE DEF gone
<1>6. Held(size) = Held(less) \cup gone /\ Held(less) \cap gone = {}
  BY <1>4, <1>5 DEF Held
<1>7. IsFiniteSet(Held(less)) /\ Cardinality(Held(less)) \in Nat
  BY <1>1, HeldFacts
<1>8. Cardinality(Held(size)) = Cardinality(Held(less)) + Cardinality(gone) - Cardinality({})
  BY <1>3, <1>6, <1>7, FS_Union
<1>9. Cardinality({}) = 0
  BY FS_EmptySet
<1>10. Cardinality(Held(size)) + 1 = Cardinality(Held(less)) + BlockSize
  BY <1>0, <1>3, <1>7, <1>8, <1>9
<1> QED
  BY <1>10 DEF less

(* After k elements: every element is in a buffer or in a flushed block.  *)
(* A block is flushed only when a further element needs the buffer.        *)
Counted(q, k, st) ==
  /\ At(Len(st.flushed)) + Cardinality(Held(st.size)) = k
  /\ \A b \in Buckets :
       LET flushed == Occurrences(st.flushed, Len(st.flushed), b)
       IN  /\ At(Cardinality(flushed)) + st.size[b] = Cardinality(Occurrences(q, k, b))
           /\ flushed # {} => st.size[b] > 0

LEMMA CountedStep ==
  ASSUME NEW q \in Seq(Buckets), NEW k \in Nat, k + 1 <= Len(q), NEW st \in ClassifyState, Counted(q, k, st)
  PROVE  Counted(q, k + 1, Yield(st, q[k + 1]))
<1> DEFINE a == q[k + 1]
           nx == Yield(st, a)
           f == st.flushed
           Old(b) == Occurrences(f, Len(f), b)
           New(b) == Occurrences(nx.flushed, Len(nx.flushed), b)
           Seen(b) == Cardinality(Occurrences(q, k, b))
           Next1(b) == Cardinality(Occurrences(q, k + 1, b))
<1>0. BlockSize \in Nat \ {0}
  BY Constants
<1>1. a \in Buckets
  BY LenProperties
<1>2. /\ nx \in ClassifyState
      /\ \/ /\ st.size[a] < BlockSize /\ nx.flushed = f /\ nx.size = [st.size EXCEPT ![a] = st.size[a] + 1]
         \/ /\ st.size[a] = BlockSize /\ nx.flushed = Append(f, a) /\ nx.size = [st.size EXCEPT ![a] = 1]
  BY <1>1, YieldFacts
<1>3. /\ st.size \in [Buckets -> 0 .. BlockSize] /\ f \in Seq(Buckets) /\ Len(f) \in Nat
  BY LenProperties DEF ClassifyState
<1>4. \A b \in Buckets : Next1(b) = Seen(b) + (IF a = b THEN 1 ELSE 0) /\ Seen(b) \in Nat
  BY OccurrenceFacts
<1>5. /\ At(Len(f)) + Cardinality(Held(st.size)) = k
      /\ \A b \in Buckets : At(Cardinality(Old(b))) + st.size[b] = Seen(b) /\ (Old(b) # {} => st.size[b] > 0)
  BY DEF Counted
<1>6. /\ Cardinality(Held(st.size)) \in Nat /\ At(Len(f)) \in Nat
  BY <1>3, HeldFacts, AtFacts
<1>7. ASSUME NEW b \in Buckets
      PROVE  st.size[b] \in 0 .. BlockSize /\ Cardinality(Old(b)) \in Nat /\ At(Cardinality(Old(b))) \in Nat
  BY <1>3, OccurrenceFacts, AtFacts
<1>8. SUFFICES /\ At(Len(nx.flushed)) + Cardinality(Held(nx.size)) = k + 1
               /\ \A b \in Buckets : /\ At(Cardinality(New(b))) + nx.size[b] = Next1(b)
                                     /\ (New(b) # {} => nx.size[b] > 0)
  BY DEF Counted
<1> HIDE DEF a, nx, Seen, Next1
<1>9. CASE st.size[a] < BlockSize /\ nx.flushed = f /\ nx.size = [st.size EXCEPT ![a] = st.size[a] + 1]
  <2>1. Cardinality(Held(nx.size)) = Cardinality(Held(st.size)) + 1
    BY <1>1, <1>3, <1>9, HeldPush
  <2>2. At(Len(nx.flushed)) + Cardinality(Held(nx.size)) = k + 1
    BY <1>5, <1>6, <1>9, <2>1
  <2>3. ASSUME NEW b \in Buckets
        PROVE  At(Cardinality(New(b))) + nx.size[b] = Next1(b) /\ (New(b) # {} => nx.size[b] > 0)
    <3>1. New(b) = Old(b)
      BY <1>9
    <3>2. nx.size[b] = st.size[b] + (IF a = b THEN 1 ELSE 0) /\ st.size[b] \in 0 .. BlockSize
      BY <1>3, <1>9
    <3> HIDE DEF New, Old
    <3>3. At(Cardinality(New(b))) + nx.size[b] = Next1(b)
      <4>1. At(Cardinality(Old(b))) + st.size[b] = Seen(b) /\ At(Cardinality(Old(b))) \in Nat
            /\ Next1(b) = Seen(b) + (IF a = b THEN 1 ELSE 0)
        BY <1>4, <1>5, <1>7
      <4>2. New(b) = Old(b)
        BY <3>1
      <4> DEFINE o == At(Cardinality(Old(b)))
                 s == st.size[b]
      <4>3. o + s = Seen(b) /\ o \in Nat /\ s \in Nat
        BY <3>2, <4>1
      <4> HIDE DEF o, s
      <4>4. CASE a = b
        <5>1. nx.size[b] = s + 1 /\ Next1(b) = Seen(b) + 1
          BY <3>2, <4>1, <4>4 DEF s
        <5>2. o + (s + 1) = (o + s) + 1
          BY <4>3
        <5> QED
          BY <4>2, <4>3, <5>1, <5>2 DEF o
      <4>5. CASE a # b
        <5>1. nx.size[b] = s /\ Next1(b) = Seen(b)
          BY <1>4, <3>2, <4>1, <4>5 DEF s
        <5> QED
          BY <4>2, <4>3, <5>1 DEF o
      <4> QED
        BY <4>4, <4>5
    <3>4. New(b) # {} => nx.size[b] > 0
      BY <1>5, <3>1, <3>2
    <3> QED
      BY <3>3, <3>4
  <2> QED
    BY <2>2, <2>3
<1>10. CASE st.size[a] = BlockSize /\ nx.flushed = Append(f, a) /\ nx.size = [st.size EXCEPT ![a] = 1]
  <2>1. Cardinality(Held(st.size)) + 1 = Cardinality(Held(nx.size)) + BlockSize
    BY <1>1, <1>3, <1>10, HeldWrite
  <2>2. /\ Len(nx.flushed) = Len(f) + 1 /\ \A i \in 1 .. Len(f) : nx.flushed[i] = f[i]
        /\ nx.flushed[Len(f) + 1] = a
    BY <1>1, <1>3, <1>10, AppendProperties
  <2>3. At(Len(nx.flushed)) = At(Len(f)) + BlockSize
    BY <1>3, <2>2, AtOrder
  <2>4. Cardinality(Held(nx.size)) \in Nat
    <3>1. nx.size \in [Buckets -> 0 .. BlockSize]
      BY <1>2 DEF ClassifyState
    <3> QED
      BY <3>1, HeldFacts
  <2>5. At(Len(nx.flushed)) + Cardinality(Held(nx.size)) = k + 1
    <3> DEFINE o  == At(Len(f))
               h  == Cardinality(Held(st.size))
               o1 == At(Len(nx.flushed))
               h1 == Cardinality(Held(nx.size))
    <3>1. o \in Nat /\ h \in Nat /\ h1 \in Nat /\ BlockSize \in Nat
      BY <1>0, <1>6, <2>4
    <3>2. o + h = k /\ h + 1 = h1 + BlockSize /\ o1 = o + BlockSize
      BY <1>5, <2>1, <2>3
    <3> HIDE DEF o, h, o1, h1
    <3>3. o1 + h1 = k + 1
      BY ONLY <3>1, <3>2, k \in Nat, SMT
    <3> QED
      BY <3>3 DEF o1, h1
  <2>6. ASSUME NEW b \in Buckets
        PROVE  At(Cardinality(New(b))) + nx.size[b] = Next1(b) /\ (New(b) # {} => nx.size[b] > 0)
    <3>1. Occurrences(nx.flushed, Len(f), b) = Old(b)
      BY <2>2 DEF Occurrences
    <3>2. Cardinality(New(b)) = Cardinality(Occurrences(nx.flushed, Len(f), b)) + (IF a = b THEN 1 ELSE 0)
      <4> DEFINE g == nx.flushed
                 l == Len(f)
      <4>1. l \in Nat /\ g[l + 1] = a /\ Len(g) = l + 1
        <5>1. Len(f) \in Nat
          BY <1>3
        <5> QED
          BY <2>2, <5>1
      <4> HIDE DEF g, l
      <4>2. Cardinality(Occurrences(g, Len(g), b)) = Cardinality(Occurrences(g, l, b)) + (IF a = b THEN 1 ELSE 0)
        <5>1. l \in Nat /\ Len(g) = l + 1 /\ a = g[Len(g)]
          BY <4>1
        <5> QED
          BY ONLY <5>1, OccurrenceNext
      <4> QED
        BY <4>2 DEF g, l
    <3>3. Cardinality(New(b)) = Cardinality(Old(b)) + (IF a = b THEN 1 ELSE 0)
      BY <3>1, <3>2
    <3> DEFINE o == Cardinality(Old(b))
    <3>4. /\ o \in Nat /\ At(o) \in Nat /\ At(o) + st.size[b] = Seen(b) /\ st.size[b] \in 0 .. BlockSize
          /\ Next1(b) = Seen(b) + (IF a = b THEN 1 ELSE 0)
      BY <1>4, <1>5, <1>7
    <3>5. CASE a = b
      <4>1. nx.size[b] = 1 /\ Cardinality(New(b)) = o + 1 /\ st.size[b] = BlockSize
        BY <1>3, <1>10, <3>3, <3>5
      <4>2. At(o + 1) = At(o) + BlockSize
        BY <3>4, AtOrder
      <4> HIDE DEF o, New, Old
      <4>3. At(Cardinality(New(b))) + nx.size[b] = (At(o) + BlockSize) + 1
        BY <4>1, <4>2
      <4>4. Next1(b) = (At(o) + BlockSize) + 1
        BY <3>4, <3>5, <4>1
      <4> QED
        BY <4>1, <4>3, <4>4
    <3>6. CASE a # b
      <4>1. nx.size[b] = st.size[b] /\ Cardinality(New(b)) = o /\ Next1(b) = Seen(b)
        BY <1>3, <1>4, <1>10, <3>3, <3>4, <3>6
      <4>2. New(b) = Old(b)
        <5>1. Len(nx.flushed) \notin New(b)
          BY <2>2, <3>6 DEF Occurrences
        <5>2. New(b) = Occurrences(nx.flushed, Len(f), b)
          <6>1. \A i : i \in 1 .. Len(nx.flushed) /\ i # Len(nx.flushed) <=> i \in 1 .. Len(f)
            BY <1>3, <2>2
          <6> QED
            BY <5>1, <6>1 DEF Occurrences
        <5> QED
          BY <3>1, <5>2
      <4> QED
        BY <1>5, <3>4, <4>1, <4>2
    <3> QED
      BY <3>5, <3>6
  <2> QED
    BY <2>5, <2>6
<1> QED
  BY <1>2, <1>9, <1>10

LEMMA ClassifyCounts ==
  ASSUME NEW q \in Seq(Buckets)
  PROVE  ClassifyAll(q) \in ClassifyState /\ Counted(q, Len(q), ClassifyAll(q))
<1> DEFINE m == Len(q)
<1>1. m \in Nat
  BY LenProperties
<1>2. PICK h \in [0 .. m -> ClassifyState] :
        /\ h[0] = NothingClassified /\ h[m] = ClassifyAll(q)
        /\ \A k \in 1 .. m : h[k] = Yield(h[k - 1], q[k])
  BY ClassifySteps
<1>3. Counted(q, 0, NothingClassified)
  <2> DEFINE st == NothingClassified
  <2>1. st.flushed = << >> /\ st.size = [b \in Buckets |-> 0] /\ Len(st.flushed) = 0 /\ At(0) = 0
    BY AtFacts DEF NothingClassified
  <2>2. Held(st.size) = {}
    BY <2>1 DEF Held
  <2>3. Cardinality(Held(st.size)) = 0
    BY <2>2, FS_EmptySet
  <2>4. ASSUME NEW b \in Buckets
        PROVE  /\ At(Cardinality(Occurrences(st.flushed, Len(st.flushed), b))) + st.size[b]
                    = Cardinality(Occurrences(q, 0, b))
               /\ Occurrences(st.flushed, Len(st.flushed), b) = {}
    <3>1. Occurrences(st.flushed, 0, b) = {} /\ Cardinality(Occurrences(st.flushed, 0, b)) = 0
          /\ Cardinality(Occurrences(q, 0, b)) = 0
      BY OccurrenceFacts
    <3> QED
      BY <2>1, <3>1
  <2> HIDE DEF st
  <2>5. Counted(q, 0, st)
    BY <2>1, <2>3, <2>4 DEF Counted
  <2> QED
    BY <2>5 DEF st
<1> DEFINE Wrong == {k \in 0 .. m : ~Counted(q, k, h[k])}
<1>4. \A k : k \in Wrong <=> k \in 0 .. m /\ ~Counted(q, k, h[k])
  OBVIOUS
<1> HIDE DEF Wrong
<1>5. Wrong = {}
  <2> SUFFICES ASSUME Wrong # {} PROVE FALSE
    OBVIOUS
  <2>1. Wrong \subseteq Nat
    BY <1>4
  <2>2. PICK k \in Wrong : \A y \in Wrong : k <= y
    BY <2>1, Least
  <2>3. k \in 0 .. m /\ k # 0 /\ k \in Nat
    BY <1>2, <1>3, <1>4, <2>1, <2>2
  <2> DEFINE p == k - 1
  <2>4. p \in 0 .. m /\ p \in Nat /\ p \notin Wrong /\ p + 1 = k /\ p + 1 <= m /\ k \in 1 .. m
    BY <1>1, <2>1, <2>2, <2>3
  <2>5. Counted(q, p, h[p]) /\ h[p] \in ClassifyState
    BY <1>2, <1>4, <2>4
  <2>6. h[k] = Yield(h[p], q[k])
    BY <1>2, <2>4
  <2> HIDE DEF p
  <2>7. Counted(q, p + 1, Yield(h[p], q[p + 1]))
    BY <2>4, <2>5, CountedStep
  <2>8. Counted(q, k, h[k])
    BY <2>4, <2>6, <2>7
  <2> QED
    BY <1>4, <2>2, <2>8
<1>6. m \in 0 .. m
  BY <1>1
<1>7. Counted(q, m, h[m]) /\ h[m] \in ClassifyState
  BY <1>2, <1>4, <1>5, <1>6
<1> QED
  BY <1>2, <1>7

------------------------------------------------------------------------------
(* All stripes, classified.                                                *)
Input(input) ==
  /\ SizeOf(input) \in Nat /\ input \in [0 .. SizeOf(input) - 1 -> Buckets]
  /\ \A id \in Threads : MyBegin(SizeOf(input), id) < MyEnd(SizeOf(input), id)

StripeOfInput(input, id) ==
  [i \in 1 .. MyEnd(SizeOf(input), id) - MyBegin(SizeOf(input), id) |->
     input[MyBegin(SizeOf(input), id) + i - 1]]

LEMMA BeginFacts ==
  ASSUME NEW n \in Nat
  PROVE  /\ \A id \in Nat : MyBegin(n, id) \in Nat /\ OnBlock(MyBegin(n, id))
         /\ MyBegin(n, 0) = 0 /\ n <= MyBegin(n, NumThreads)
         /\ \A id \in Threads : MyEnd(n, id) \in Nat /\ MyEnd(n, id) <= n
<1>1. \A id \in Nat : MyBegin(n, id) = AlignToNextBlock(Border(n, id)) /\ Border(n, id) \in Nat
  BY BorderEnds DEF MyBegin, Border
<1>2. \A id \in Nat : MyBegin(n, id) \in Nat /\ OnBlock(MyBegin(n, id))
  BY <1>1, AlignFacts
<1>3. MyBegin(n, 0) = 0
  <2>1. AlignToNextBlock(0) = 0
    BY Constants, SMT DEF AlignToNextBlock, SlotsUpTo
  <2> QED
    BY <1>1, <2>1, BorderEnds
<1>4. n <= MyBegin(n, NumThreads)
  <2>1. MyBegin(n, NumThreads) = AlignToNextBlock(n)
    <3>1. NumThreads \in Nat
      BY Constants
    <3>2. Border(n, NumThreads) = n
      BY BorderEnds
    <3> QED
      BY <1>1, <3>1, <3>2
  <2>2. n <= AlignToNextBlock(n)
    BY AlignFacts
  <2> QED
    BY <2>1, <2>2
<1>5. ASSUME NEW id \in Threads PROVE MyEnd(n, id) \in Nat /\ MyEnd(n, id) <= n
  <2>1. MyBegin(n, id + 1) \in Nat
    <3>1. id + 1 \in Nat
      BY Constants
    <3> QED
      BY <1>2, <3>1
  <2> QED
    BY <2>1 DEF MyEnd
<1> QED
  BY <1>2, <1>3, <1>4, <1>5

LEMMA StripeClassified ==
  ASSUME NEW input, Input(input), NEW id \in Threads
  PROVE  LET q  == StripeOfInput(input, id)
             st == ClassifyLocally(input, id)
             lo == MyBegin(SizeOf(input), id)
             hi == MyEnd(SizeOf(input), id)
         IN  /\ lo \in Nat /\ OnBlock(lo) /\ hi \in Nat /\ hi <= SizeOf(input) /\ lo < hi
             /\ q \in Seq(Buckets) /\ Len(q) = hi - lo
             /\ \A i \in 1 .. Len(q) : q[i] = input[lo + i - 1]
             /\ st \in ClassifyState /\ Counted(q, Len(q), st)
             /\ Len(st.flushed) \in Nat /\ At(Len(st.flushed)) <= hi - lo
             /\ BlockSize * Len(st.flushed) = At(Len(st.flushed)) /\ At(Len(st.flushed)) \in Nat
<1> DEFINE n  == SizeOf(input)
           q  == StripeOfInput(input, id)
           st == ClassifyLocally(input, id)
           lo == MyBegin(n, id)
           hi == MyEnd(n, id)
           m  == hi - lo
<1>0. id \in Nat /\ NumThreads \in Nat /\ BlockSize \in Nat \ {0}
  BY Constants
<1>1. n \in Nat /\ input \in [0 .. n - 1 -> Buckets] /\ lo < hi
  BY DEF Input
<1>2. lo \in Nat /\ OnBlock(lo) /\ hi \in Nat /\ hi <= n
  BY <1>0, <1>1, BeginFacts
<1>3. q = [i \in 1 .. m |-> input[lo + i - 1]]
  BY DEF StripeOfInput
<1>4. st = ClassifyAll(q)
  BY DEF ClassifyLocally, StripeOfInput
<1> HIDE DEF n, q, st, lo, hi
<1>5. m \in Nat /\ \A i \in 1 .. m : lo + i - 1 \in 0 .. n - 1
  BY <1>1, <1>2
<1> HIDE DEF m
<1>6. q \in [1 .. m -> Buckets]
  BY <1>1, <1>3, <1>5
<1>7. q \in Seq(Buckets)
  BY <1>5, <1>6, SeqDef
<1>8. Len(q) = m
  <2> DEFINE l == Len(q)
  <2>1. l \in Nat /\ DOMAIN q = 1 .. l /\ DOMAIN q = 1 .. m
    BY <1>6, <1>7, LenProperties
  <2> HIDE DEF l
  <2>2. (m \in 1 .. m <=> m \in 1 .. l) /\ (l \in 1 .. m <=> l \in 1 .. l)
    BY <2>1
  <2>3. l = m
    BY ONLY <1>5, <2>1, <2>2
  <2> QED
    BY <2>3 DEF l
<1>9. st \in ClassifyState /\ Counted(q, Len(q), st)
  BY <1>4, <1>7, ClassifyCounts
<1>10. st.flushed \in Seq(Buckets) /\ st.size \in [Buckets -> 0 .. BlockSize]
  BY <1>9 DEF ClassifyState
<1>11. /\ Len(st.flushed) \in Nat /\ Cardinality(Held(st.size)) \in Nat
       /\ At(Len(st.flushed)) \in Nat
  BY <1>10, LenProperties, HeldFacts, AtFacts
<1>12. At(Len(st.flushed)) + Cardinality(Held(st.size)) = m
  BY <1>8, <1>9 DEF Counted
<1>13. At(Len(st.flushed)) <= m
  BY <1>5, <1>11, <1>12
<1>14. BlockSize * Len(st.flushed) = At(Len(st.flushed))
  BY <1>0, <1>11 DEF At
<1>15. \A i \in 1 .. Len(q) : q[i] = input[lo + i - 1]
  BY <1>3, <1>8
<1> QED
  BY <1>1, <1>2, <1>7, <1>8, <1>9, <1>11, <1>13, <1>14, <1>15 DEF n, q, st, lo, hi, m

LEMMA ClassifiedFields ==
  ASSUME NEW input, Input(input)
  PROVE  LET d == Classified(input)
             n == SizeOf(input)
             holds(id, s) == d.my_begin[id] <= At(s) /\ At(s) < d.first_empty[id]
         IN  /\ d.n = n
             /\ \A id \in Threads :
                  /\ d.my_begin[id] = MyBegin(n, id) /\ d.my_end[id] = MyEnd(n, id)
                  /\ d.first_empty[id] = MyBegin(n, id) + At(Len(ClassifyLocally(input, id).flushed))
             /\ \A b \in 0 .. NumBuckets :
                  d.bucket_start[b] = Cardinality({i \in 0 .. n - 1 : input[i] < b})
             /\ DOMAIN d.bucket = {s \in 0 .. n \div BlockSize : \E id \in Threads : holds(id, s)}
             /\ \A s \in DOMAIN d.bucket :
                  LET p == CHOOSE id \in Threads : holds(id, s)
                  IN  d.bucket[s] = ClassifyLocally(input, p).flushed[s - MyBegin(n, p) \div BlockSize + 1]
<1> DEFINE d == Classified(input)
           n == SizeOf(input)
           fl == [id \in Threads |-> ClassifyLocally(input, id).flushed]
           em == [id \in Threads |-> MyBegin(n, id) + BlockSize * Len(fl[id])]
           holds(id, s) == d.my_begin[id] <= At(s) /\ At(s) < d.first_empty[id]
           holds0(id, s) == MyBegin(n, id) <= s * BlockSize /\ s * BlockSize < em[id]
<1>1. /\ d.n = n /\ d.my_begin = [id \in Threads |-> MyBegin(n, id)]
      /\ d.my_end = [id \in Threads |-> MyEnd(n, id)] /\ d.first_empty = em
      /\ d.bucket_start = [b \in 0 .. NumBuckets |-> Cardinality({i \in DOMAIN input : input[i] < b})]
      /\ d.bucket = [s \in {s \in 0 .. n \div BlockSize : \E id \in Threads : holds0(id, s)} |->
                       fl[CHOOSE id \in Threads : holds0(id, s)]
                         [s - MyBegin(n, CHOOSE id \in Threads : holds0(id, s)) \div BlockSize + 1]]
  BY DEF Classified
<1> HIDE DEF d
<1>2. ASSUME NEW id \in Threads
      PROVE  /\ d.my_begin[id] = MyBegin(n, id) /\ d.my_end[id] = MyEnd(n, id) /\ d.first_empty[id] = em[id]
             /\ em[id] = MyBegin(n, id) + At(Len(ClassifyLocally(input, id).flushed))
             /\ fl[id] = ClassifyLocally(input, id).flushed
  <2>1. BlockSize * Len(ClassifyLocally(input, id).flushed) = At(Len(ClassifyLocally(input, id).flushed))
    BY StripeClassified
  <2>2. fl[id] = ClassifyLocally(input, id).flushed
    BY DEF fl
  <2>3. em[id] = MyBegin(n, id) + BlockSize * Len(fl[id])
    BY DEF em
  <2> HIDE DEF n, em, fl
  <2>4. d.my_begin[id] = MyBegin(n, id) /\ d.my_end[id] = MyEnd(n, id) /\ d.first_empty[id] = em[id]
    BY <1>1
  <2> QED
    BY <2>1, <2>2, <2>3, <2>4
<1>3. \A id \in Threads, s \in Int : holds(id, s) <=> holds0(id, s)
  BY <1>2 DEF At
<1>4. DOMAIN input = 0 .. n - 1
  BY DEF Input
<1> HIDE DEF n, em, fl
<1>5. \A b \in 0 .. NumBuckets : d.bucket_start[b] = Cardinality({i \in 0 .. n - 1 : input[i] < b})
  BY <1>1, <1>4
<1>6. \A s \in Int : (\E id \in Threads : holds(id, s)) <=> (\E id \in Threads : holds0(id, s))
  BY <1>3
<1>7. \A s \in Int : (CHOOSE id \in Threads : holds(id, s)) = (CHOOSE id \in Threads : holds0(id, s))
  BY <1>3
<1> DEFINE Ds == {s \in 0 .. n \div BlockSize : \E id \in Threads : holds0(id, s)}
<1>8. DOMAIN d.bucket = Ds
  BY <1>1
<1>9. Ds = {s \in 0 .. n \div BlockSize : \E id \in Threads : holds(id, s)}
  BY <1>6
<1>10. ASSUME NEW s \in Ds
       PROVE  LET p == CHOOSE id \in Threads : holds(id, s)
              IN  d.bucket[s] = ClassifyLocally(input, p).flushed[s - MyBegin(n, p) \div BlockSize + 1]
  <2> DEFINE p == CHOOSE id \in Threads : holds0(id, s)
  <2>1. d.bucket[s] = fl[p][s - MyBegin(n, p) \div BlockSize + 1]
    BY <1>1
  <2>2. p \in Threads
    OBVIOUS
  <2>a. s \in Int
    OBVIOUS
  <2>3. p = CHOOSE id \in Threads : holds(id, s)
    BY <1>7, <2>a
  <2> HIDE DEF p, holds, holds0
  <2>4. fl[p] = ClassifyLocally(input, p).flushed
    BY <1>2, <2>2
  <2> QED
    BY <2>1, <2>3, <2>4
<1> HIDE DEF Ds
<1> QED
  BY <1>1, <1>2, <1>5, <1>8, <1>9, <1>10 DEF d, n

LEMMA ClassifiedStripes ==
  ASSUME NEW input, Input(input)
  PROVE  Stripes(Classified(input))
<1> DEFINE d == Classified(input)
           n == SizeOf(input)
           Below(b) == {i \in 0 .. n - 1 : input[i] < b}
<1>0. /\ NumThreads \in Nat \ {0} /\ Threads = 0 .. NumThreads - 1 /\ BlockSize \in Nat \ {0}
      /\ NumBuckets \in Nat \ {0} /\ Buckets = 0 .. NumBuckets - 1
  BY Constants
<1>1. n \in Nat /\ input \in [0 .. n - 1 -> Buckets]
  BY DEF Input
<1>2. /\ d.n = n
      /\ \A id \in Threads :
           /\ d.my_begin[id] = MyBegin(n, id) /\ d.my_end[id] = MyEnd(n, id)
           /\ d.first_empty[id] = MyBegin(n, id) + At(Len(ClassifyLocally(input, id).flushed))
      /\ \A b \in 0 .. NumBuckets : d.bucket_start[b] = Cardinality(Below(b))
      /\ DOMAIN d.bucket = {s \in 0 .. n \div BlockSize :
                              \E id \in Threads : d.my_begin[id] <= At(s) /\ At(s) < d.first_empty[id]}
  BY ClassifiedFields
<1> HIDE DEF d, n
<1>3. ASSUME NEW id \in Threads
      PROVE  /\ d.my_begin[id] \in Nat /\ d.my_end[id] \in Nat /\ d.first_empty[id] \in Nat
             /\ OnBlock(d.my_begin[id]) /\ OnBlock(d.first_empty[id])
             /\ d.my_begin[id] <= d.first_empty[id] /\ d.first_empty[id] <= d.my_end[id]
             /\ d.my_begin[id] < d.my_end[id] /\ d.my_end[id] <= n
  <2> DEFINE l == Len(ClassifyLocally(input, id).flushed)
             lo == MyBegin(n, id)
             hi == MyEnd(n, id)
  <2>1. /\ lo \in Nat /\ OnBlock(lo) /\ hi \in Nat /\ hi <= n /\ lo < hi
        /\ l \in Nat /\ At(l) <= hi - lo /\ At(l) \in Nat
    BY StripeClassified DEF n
  <2>2. OnBlock(At(l))
    BY <2>1, AtOrder
  <2>3. OnBlock(lo + At(l))
    BY <2>1, <2>2, OnBlocks
  <2>4. d.my_begin[id] = lo /\ d.my_end[id] = hi /\ d.first_empty[id] = lo + At(l)
    BY <1>2
  <2> HIDE DEF l, lo, hi
  <2>5. lo + At(l) \in Nat /\ lo <= lo + At(l) /\ lo + At(l) <= hi
    BY <2>1
  <2> QED
    BY <2>1, <2>3, <2>4, <2>5
<1>4. ASSUME NEW id \in Threads, id < NumThreads - 1
      PROVE  d.my_end[id] = d.my_begin[id + 1]
  <2>1. id + 1 \in Threads
    BY <1>0, <1>4
  <2>2. d.my_begin[id + 1] < d.my_end[id + 1] /\ d.my_end[id + 1] <= n /\ d.my_begin[id + 1] \in Nat
        /\ d.my_end[id + 1] \in Nat
    BY <1>3, <2>1
  <2>3. d.my_begin[id + 1] = MyBegin(n, id + 1) /\ d.my_end[id] = MyEnd(n, id)
    BY <1>2, <2>1
  <2>4. ~(n < MyBegin(n, id + 1))
    BY <1>1, <2>2, <2>3
  <2> QED
    BY <2>3, <2>4 DEF MyEnd
<1>5. d.my_begin[0] = 0 /\ d.my_end[NumThreads - 1] = n
  <2>1. 0 \in Threads /\ NumThreads - 1 \in Threads /\ (NumThreads - 1) + 1 = NumThreads /\ NumThreads \in Nat
    BY <1>0
  <2>2. MyBegin(n, 0) = 0 /\ n <= MyBegin(n, NumThreads) /\ MyBegin(n, NumThreads) \in Nat
    BY <1>1, <2>1, BeginFacts
  <2>3. MyEnd(n, NumThreads - 1) = n
    BY <1>1, <2>1, <2>2 DEF MyEnd
  <2> QED
    BY <1>2, <2>1, <2>2, <2>3
<1>6. IsFiniteSet(0 .. n - 1) /\ Cardinality(0 .. n - 1) = n
  <2>1. 0 \in Int /\ n - 1 \in Int /\ (0 > n - 1 => n = 0)
    BY <1>1
  <2> QED
    BY <1>1, <2>1, FS_Interval
<1>7. ASSUME NEW a \in 0 .. NumBuckets, NEW b \in 0 .. NumBuckets, a <= b
      PROVE  Cardinality(Below(a)) \in 0 .. n /\ Cardinality(Below(a)) <= Cardinality(Below(b))
  <2>1. \A i \in 0 .. n - 1 : input[i] \in Int
    BY <1>0, <1>1
  <2>2. Below(a) \in SUBSET Below(b) /\ Below(b) \in SUBSET (0 .. n - 1)
    BY <1>7, <2>1
  <2> HIDE DEF Below
  <2>3. IsFiniteSet(Below(b)) /\ Cardinality(Below(b)) <= n
    <3> DEFINE S == 0 .. n - 1
    <3>1. IsFiniteSet(S) /\ Cardinality(S) = n /\ Below(b) \in SUBSET S
      BY <1>6, <2>2
    <3> HIDE DEF S
    <3>2. IsFiniteSet(Below(b)) /\ Cardinality(Below(b)) <= Cardinality(S)
      BY <3>1, FS_Subset
    <3> QED
      BY <3>1, <3>2
  <2>4. IsFiniteSet(Below(a)) /\ Cardinality(Below(a)) <= Cardinality(Below(b))
    BY <2>2, <2>3, FS_Subset
  <2>5. Cardinality(Below(a)) \in Nat /\ Cardinality(Below(b)) \in Nat
    BY <2>3, <2>4, FS_CardinalityType
  <2> QED
    BY <1>1, <2>3, <2>4, <2>5
<1>8. Cardinality(Below(0)) = 0 /\ Cardinality(Below(NumBuckets)) = n
  <2>1. Below(0) = {} /\ Below(NumBuckets) = 0 .. n - 1
    BY <1>0, <1>1
  <2> QED
    BY <1>6, <2>1, FS_EmptySet
<1> HIDE DEF Below
<1>9. /\ \A b \in 0 .. NumBuckets : d.bucket_start[b] \in 0 .. n
      /\ \A a, b \in 0 .. NumBuckets : a <= b => d.bucket_start[a] <= d.bucket_start[b]
      /\ d.bucket_start[0] = 0 /\ d.bucket_start[NumBuckets] = n
  <2>1. 0 \in 0 .. NumBuckets /\ NumBuckets \in 0 .. NumBuckets /\ \A b \in 0 .. NumBuckets : b <= b
    BY <1>0
  <2> QED
    BY <1>2, <1>7, <1>8, <2>1
<1>10. \A s : s \in DOMAIN d.bucket <=>
         /\ s \in Nat
         /\ \E id \in Threads : d.my_begin[id] <= At(s) /\ At(s) < d.first_empty[id]
  <2> SUFFICES ASSUME NEW s \in Nat, NEW id \in Threads, d.my_begin[id] <= At(s), At(s) < d.first_empty[id]
               PROVE  s \in 0 .. n \div BlockSize
    BY <1>2
  <2> DEFINE m == n \div BlockSize
  <2>1. m \in Nat /\ n < At(m) + BlockSize
    BY <1>1, WholeSlots
  <2>2. At(s) < n /\ At(s) \in Nat
    <3>1. At(s) \in Nat
      BY AtOrder
    <3> QED
      BY <1>1, <1>3, <3>1
  <2> HIDE DEF m
  <2>3. ~(m < s)
    <3> SUFFICES ASSUME m < s PROVE FALSE
      OBVIOUS
    <3>1. At(m) + BlockSize <= At(s) /\ At(m) \in Nat
      BY <2>1, AtOrder
    <3> QED
      BY <1>0, <1>1, <2>1, <2>2, <3>1
  <2>4. s \in 0 .. m
    BY <2>1, <2>3
  <2> QED
    BY <2>4 DEF m
<1>11. Stripes(d)
  BY <1>1, <1>2, <1>3, <1>4, <1>5, <1>9, <1>10 DEF Stripes
<1> QED
  BY <1>11 DEF d

------------------------------------------------------------------------------
(* The buckets of a thread, and the pointers it sets.                      *)
LEMMA PointersFacts ==
  ASSUME NEW d, Stripes(d), NEW id \in Threads
  PROVE  /\ DOMAIN Pointers(d, id) = RangeStart(d, id) .. RangeEnd(d, id) - 1
         /\ \A b \in DOMAIN Pointers(d, id) :
              /\ b \in Buckets
              /\ Pointers(d, id)[b] = [write |-> Start(d, b) \div BlockSize,
                                       read  |-> Filled(d, b) \div BlockSize - 1]
<1> DEFINE rs == RangeStart(d, id)
           re == RangeEnd(d, id)
           lb == LastBucket(d, id)
           over == Overlapping(d, id)
           whole == rs .. (IF over THEN lb - 1 ELSE lb)
           last == IF over /\ d.my_begin[id] <= LastStart(d, id) THEN {lb} ELSE {}
           full(b) == IF b \in last THEN FirstEmptyInBucket(d, id) ELSE FullUpTo(d, id, b)
<1>0. /\ NumThreads \in Nat \ {0} /\ Threads = 0 .. NumThreads - 1 /\ id \in Nat
      /\ NumBuckets \in Nat \ {0} /\ Buckets = 0 .. NumBuckets - 1
  BY Constants
<1>1. /\ rs \in 0 .. NumBuckets /\ Start(d, rs) >= d.my_begin[id]
      /\ \A j \in 0 .. rs - 1 : Start(d, j) < d.my_begin[id]
  BY RangeStartFacts
<1>2. re \in 1 .. NumBuckets /\ rs <= re
  BY RangeEndFacts
<1>3. /\ lb \in Buckets /\ lb + 1 = re /\ LastStart(d, id) = Start(d, lb) /\ BucketEnd(d, id) = Start(d, re)
      /\ id < NumThreads - 1 => Start(d, lb) < d.my_end[id]
  BY LastFacts
<1>4. /\ d.my_begin[id] \in Nat /\ d.my_end[id] \in Nat /\ d.first_empty[id] \in Nat
      /\ d.my_begin[id] <= d.first_empty[id] /\ d.first_empty[id] <= d.my_end[id] /\ HasStripe(d, id)
  BY StripeFacts DEF HasStripe
<1>5. /\ \A b \in 0 .. NumBuckets : Start(d, b) \in Nat
      /\ \A a, b \in 0 .. NumBuckets : a <= b => Start(d, a) <= Start(d, b)
  BY StartFacts
<1>6. over <=> Start(d, re) > d.my_end[id]
  BY <1>3 DEF Overlapping
<1>7. Pointers(d, id) = [b \in whole \cup last |->
                           [write |-> Start(d, b) \div BlockSize, read |-> full(b) \div BlockSize - 1]]
  BY <1>4 DEF Pointers
<1> HIDE DEF rs, re, lb, over
<1>8. d.my_begin[id] <= LastStart(d, id) <=> rs <= lb
  <2>1. CASE rs <= lb
    <3>1. rs \in 0 .. NumBuckets /\ lb \in 0 .. NumBuckets
      BY <1>0, <1>1, <1>3
    <3>2. Start(d, rs) <= Start(d, lb) /\ Start(d, rs) \in Nat /\ Start(d, lb) \in Nat
      BY <1>5, <2>1, <3>1
    <3> QED
      BY <1>1, <1>3, <1>4, <2>1, <3>2
  <2>2. CASE ~(rs <= lb)
    <3>1. lb \in 0 .. rs - 1 /\ lb \in 0 .. NumBuckets
      BY <1>0, <1>1, <1>3, <2>2
    <3>2. Start(d, lb) < d.my_begin[id] /\ Start(d, lb) \in Nat
      BY <1>1, <1>5, <3>1
    <3> QED
      BY <1>3, <1>4, <2>2, <3>2
  <2> QED
    BY <2>1, <2>2
<1>9. whole \cup last = rs .. re - 1
  <2>1. CASE ~over
    <3>1. last = {} /\ whole = rs .. lb /\ lb = re - 1
      BY <1>2, <1>3, <2>1, <1>0
    <3> QED
      BY <3>1
  <2>2. CASE over /\ rs <= lb
    <3>1. last = {lb} /\ whole = rs .. lb - 1
      BY <1>8, <2>2
    <3>2. re - 1 = lb /\ rs \in Int /\ lb \in Int
      BY <1>0, <1>1, <1>2, <1>3
    <3> QED
      BY <2>2, <3>1, <3>2
  <2>3. CASE over /\ ~(rs <= lb)
    <3>1. last = {} /\ whole = rs .. lb - 1
      BY <1>8, <2>3
    <3>2. re - 1 = lb /\ rs \in Int /\ lb \in Int
      BY <1>0, <1>1, <1>2, <1>3
    <3> QED
      BY <2>3, <3>1, <3>2
  <2> QED
    BY <2>1, <2>2, <2>3
<1>10. ASSUME NEW b \in rs .. re - 1 PROVE b \in Buckets /\ full(b) = Filled(d, b)
  <2>1. b \in Buckets /\ b \in 0 .. NumBuckets /\ b + 1 \in 0 .. NumBuckets /\ b + 1 <= re /\ rs <= b
        /\ re \in 0 .. NumBuckets /\ b \in Nat
    BY <1>0, <1>1, <1>2
  <2>2. CASE b \in last
    <3>1. b = lb /\ over
      BY <2>2
    <3>2. FirstEmptyInBucket(d, id) = Filled(d, LastBucket(d, id))
      BY <3>1, FirstEmptyIsFilled DEF over, Overlapping
    <3> QED
      BY <2>1, <2>2, <3>1, <3>2 DEF lb
  <2>3. CASE b \notin last
    <3> DEFINE s == Start(d, b)
               e == Start(d, b + 1)
               f == d.first_empty[id]
    <3>1. /\ s \in Nat /\ e \in Nat /\ s <= e /\ d.my_begin[id] <= s
      <4>1. Start(d, rs) <= s /\ Start(d, rs) \in Nat
        BY <1>1, <1>5, <2>1
      <4> QED
        BY <1>1, <1>4, <1>5, <2>1, <4>1
    <3>2. id < NumThreads - 1 => e <= d.my_end[id]
      <4>1. CASE over
        <5>1. b # lb
          <6> SUFFICES ASSUME b = lb PROVE FALSE
            OBVIOUS
          <6>1. rs <= lb
            BY <2>1
          <6> QED
            BY <1>8, <2>3, <4>1, <6>1
        <5>2. b + 1 <= lb /\ lb \in 0 .. NumBuckets
          BY <1>0, <1>2, <1>3, <2>1, <5>1
        <5>3. e <= Start(d, lb) /\ Start(d, lb) \in Nat
          BY <1>5, <2>1, <5>2
        <5> QED
          BY <1>3, <1>4, <3>1, <5>3
      <4>2. CASE ~over
        <5>1. e <= Start(d, re) /\ Start(d, re) \in Nat
          BY <1>5, <2>1
        <5> QED
          BY <1>4, <1>6, <3>1, <4>2, <5>1
      <4> QED
        BY <4>1, <4>2
    <3>3. Filled(d, b) = s + (Full(d, e) - Full(d, s))
      <4>1. Full(d, e) \in Int /\ Full(d, s) \in Int
        BY <3>1, FullType
      <4> QED
        BY <3>1, <4>1 DEF Filled
    <3>4. Full(d, e) - Full(d, s) = MinOf(f, e) - MinOf(f, s)
      <4> HIDE DEF s, e
      <4>1. Reaches(d, id, s) /\ Reaches(d, id, e)
        BY <1>0, <1>4, <3>1, <3>2 DEF Reaches
      <4> QED
        BY <3>1, <4>1, FullWithin
    <3>5. full(b) = MaxOf(s, MinOf(f, e))
      BY <2>3 DEF FullUpTo
    <3>6. s + (MinOf(f, e) - MinOf(f, s)) = MaxOf(s, MinOf(f, e))
      <4> HIDE DEF s, e, f
      <4>1. f \in Nat /\ s \in Nat /\ e \in Nat /\ s <= e
        BY <1>4, <3>1 DEF f
      <4>2. CASE f <= s
        BY <4>1, <4>2 DEF MinOf, MaxOf
      <4>3. CASE ~(f <= s)
        BY <4>1, <4>3 DEF MinOf, MaxOf
      <4> QED
        BY <4>2, <4>3
    <3> QED
      BY <2>1, <3>3, <3>4, <3>5, <3>6
  <2> QED
    BY <2>2, <2>3
<1> HIDE DEF whole, last, full
<1>11. DOMAIN Pointers(d, id) = rs .. re - 1
  BY <1>7, <1>9
<1>12. ASSUME NEW b \in DOMAIN Pointers(d, id)
       PROVE  /\ b \in Buckets
              /\ Pointers(d, id)[b] = [write |-> Start(d, b) \div BlockSize,
                                         read  |-> Filled(d, b) \div BlockSize - 1]
  <2>1. b \in rs .. re - 1 /\ b \in whole \cup last
    BY <1>9, <1>11
  <2>2. full(b) = Filled(d, b) /\ b \in Buckets
    BY <1>10, <2>1
  <2> QED
    BY <1>7, <2>1, <2>2
<1> QED
  BY <1>11, <1>12 DEF rs, re

(* Every bucket begins in one stripe.                                      *)
LEMMA OneSetter ==
  ASSUME NEW d, Stripes(d), NEW b \in Buckets
  PROVE  /\ \E id \in Threads : b \in DOMAIN Pointers(d, id)
         /\ \A p, q \in Threads : b \in DOMAIN Pointers(d, p) /\ b \in DOMAIN Pointers(d, q) => p = q
<1>0. /\ NumThreads \in Nat \ {0} /\ Threads = 0 .. NumThreads - 1
      /\ NumBuckets \in Nat \ {0} /\ Buckets = 0 .. NumBuckets - 1 /\ b \in Nat
  BY Constants
<1>1. ASSUME NEW id \in Threads
      PROVE  /\ DOMAIN Pointers(d, id) = RangeStart(d, id) .. RangeEnd(d, id) - 1
             /\ RangeStart(d, id) \in 0 .. NumBuckets /\ RangeEnd(d, id) \in 1 .. NumBuckets
  BY PointersFacts, RangeStartFacts, RangeEndFacts
<1>2. RangeStart(d, 0) = 0
  <2>1. 0 \in Threads
    BY <1>0
  <2>2. RangeStart(d, 0) \in Nat /\ \A j \in 0 .. RangeStart(d, 0) - 1 : Start(d, j) < d.my_begin[0]
    BY <2>1, RangeStartFacts
  <2>3. d.my_begin[0] = 0 /\ Start(d, 0) = 0
    BY StartFacts DEF Stripes
  <2>4. ~(0 \in 0 .. RangeStart(d, 0) - 1)
    BY <2>2, <2>3
  <2> QED
    BY <2>2, <2>4
<1>3. ASSUME NEW id \in Threads, id < NumThreads - 1 PROVE RangeStart(d, id + 1) = RangeEnd(d, id)
  <2> DEFINE x == RangeStart(d, id + 1)
             y == RangeEnd(d, id)
             e == d.my_end[id]
  <2>1. id + 1 \in Threads /\ e = d.my_begin[id + 1] /\ e \in Nat
    BY <1>0, <1>3, StripeFacts
  <2>2. x \in 0 .. NumBuckets /\ Start(d, x) >= e /\ \A j \in 0 .. x - 1 : Start(d, j) < e
    BY <2>1, RangeStartFacts
  <2>3. y \in 1 .. NumBuckets /\ Start(d, y) >= e /\ \A j \in 0 .. y - 1 : Start(d, j) < e
    BY <1>3, RangeEndFacts
  <2> HIDE DEF x, y, e
  <2>4. x \in 0 .. NumBuckets /\ y \in 0 .. NumBuckets /\ Start(d, x) \in Nat /\ Start(d, y) \in Nat
    BY <1>0, <2>2, <2>3, StartFacts
  <2>5. ~(x < y)
    <3>1. x < y => x \in 0 .. y - 1
      BY <1>0, <2>4
    <3> QED
      BY <2>1, <2>2, <2>3, <2>4, <3>1
  <2>6. ~(y < x)
    <3>1. y < x => y \in 0 .. x - 1
      BY <1>0, <2>4
    <3> QED
      BY <2>1, <2>2, <2>3, <2>4, <3>1
  <2>7. x = y
    BY <1>0, <2>4, <2>5, <2>6
  <2> QED
    BY <2>7 DEF x, y
<1>4. \E id \in Threads : b \in DOMAIN Pointers(d, id)
  <2> DEFINE T == {id \in Threads : b < RangeEnd(d, id)}
  <2>1. NumThreads - 1 \in T
    <3>1. NumThreads - 1 \in Threads
      BY <1>0
    <3>2. RangeEnd(d, NumThreads - 1) = NumBuckets
      BY <3>1, RangeEndFacts
    <3> QED
      BY <1>0, <3>1, <3>2
  <2>2. T \subseteq Nat /\ T # {}
    BY <1>0, <2>1
  <2>3. \A id : id \in T <=> id \in Threads /\ b < RangeEnd(d, id)
    OBVIOUS
  <2> HIDE DEF T
  <2>4. PICK id \in T : \A y \in T : id <= y
    BY <2>2, Least
  <2>5. id \in Threads /\ b < RangeEnd(d, id) /\ id \in Nat
    BY <2>2, <2>3
  <2>6. RangeStart(d, id) <= b
    <3>1. CASE id = 0
      BY <1>0, <1>2, <3>1
    <3>2. CASE id # 0
      <4> DEFINE p == id - 1
      <4>1. p \in Threads /\ p < NumThreads - 1 /\ p + 1 = id /\ p \notin T
        BY <1>0, <2>2, <2>4, <2>5, <3>2
      <4>2. RangeStart(d, id) = RangeEnd(d, p) /\ ~(b < RangeEnd(d, p)) /\ RangeEnd(d, p) \in Nat
        BY <1>1, <1>3, <2>3, <4>1
      <4> QED
        BY <1>0, <4>2
    <3> QED
      BY <3>1, <3>2
  <2>7. b \in RangeStart(d, id) .. RangeEnd(d, id) - 1
    BY <1>0, <1>1, <2>5, <2>6
  <2> QED
    BY <1>1, <2>5, <2>7
<1>5. ASSUME NEW p \in Threads, NEW q \in Threads, p < q,
             b \in DOMAIN Pointers(d, p), b \in DOMAIN Pointers(d, q)
      PROVE  FALSE
  <2>1. b < RangeEnd(d, p) /\ RangeStart(d, q) <= b /\ RangeEnd(d, p) \in Nat /\ RangeStart(d, q) \in Nat
    <3>1. /\ b \in RangeStart(d, p) .. RangeEnd(d, p) - 1 /\ b \in RangeStart(d, q) .. RangeEnd(d, q) - 1
          /\ RangeEnd(d, p) \in 1 .. NumBuckets /\ RangeStart(d, q) \in 0 .. NumBuckets
      BY <1>1, <1>5
    <3> QED
      BY <1>0, <3>1
  <2> DEFINE r == q - 1
  <2>2. r \in Threads /\ r < NumThreads - 1 /\ r + 1 = q /\ (p < r \/ p = r)
    BY <1>0, <1>5
  <2>3. RangeStart(d, q) = RangeEnd(d, r) /\ RangeEnd(d, r) \in Nat
    BY <1>1, <1>3, <2>2
  <2> HIDE DEF r
  <2>4. RangeEnd(d, p) <= RangeEnd(d, r)
    <3>1. CASE p = r
      BY <2>3, <3>1
    <3>2. CASE p < r
      BY <2>2, <3>2, RangesAscend
    <3> QED
      BY <2>2, <3>1, <3>2
  <2> QED
    BY <1>0, <2>1, <2>3, <2>4
<1>6. ASSUME NEW p \in Threads, NEW q \in Threads, b \in DOMAIN Pointers(d, p), b \in DOMAIN Pointers(d, q)
      PROVE  p = q
  <2>1. p < q \/ q < p \/ p = q
    BY <1>0
  <2> QED
    BY <1>5, <1>6, <2>1
<1> QED
  BY <1>4, <1>6

(* The pointers stay within the array, with the exception of a bucket that *)
(* begins behind the last whole block.                                     *)
LEMMA FilledWithin ==
  ASSUME NEW d, Stripes(d), NEW b \in Buckets
  PROVE  /\ Start(d, b) \div BlockSize = SlotsUpTo(d.bucket_start[b])
         /\ SlotsUpTo(d.bucket_start[b]) \in 0 .. SlotsUpTo(d.n) /\ SlotsUpTo(d.n) \in Nat
         /\ Filled(d, b) > Start(d, b) => Filled(d, b) <= At(d.n \div BlockSize)
<1> DEFINE s == Start(d, b)
           e == Start(d, b + 1)
           x == Filled(d, b)
           m == At(d.n \div BlockSize)
           last == NumThreads - 1
<1>0. /\ NumThreads \in Nat \ {0} /\ Threads = 0 .. NumThreads - 1 /\ BlockSize \in Nat \ {0}
      /\ NumBuckets \in Nat \ {0} /\ Buckets = 0 .. NumBuckets - 1 /\ b \in Nat /\ last \in Threads
  BY Constants
<1>1. d.n \in Nat /\ d.bucket_start[b] \in 0 .. d.n
  BY <1>0 DEF Stripes
<1>2. s \div BlockSize = SlotsUpTo(d.bucket_start[b])
  <2> DEFINE k == SlotsUpTo(d.bucket_start[b])
  <2>1. k \in Nat /\ s = At(k)
    BY <1>1, AlignFacts DEF Start
  <2> HIDE DEF k, s
  <2>2. s \div BlockSize = k
    BY <2>1, AtFacts
  <2> QED
    BY <2>2 DEF k
<1>3. SlotsUpTo(d.bucket_start[b]) \in 0 .. SlotsUpTo(d.n) /\ SlotsUpTo(d.n) \in Nat
  <2> DEFINE j == SlotsUpTo(d.bucket_start[b])
             k == SlotsUpTo(d.n)
  <2>1. j \in Nat /\ k \in Nat /\ AlignToNextBlock(d.bucket_start[b]) = At(j) /\ AlignToNextBlock(d.n) = At(k)
    BY <1>1, AlignFacts
  <2>2. At(j) <= At(k)
    BY <1>1, <2>1, AlignAscends
  <2> HIDE DEF j, k
  <2>3. ~(k < j)
    <3>1. At(j) \in Nat /\ At(k) \in Nat /\ (k < j => At(k) < At(j))
      BY <2>1, AtOrder
    <3> QED
      BY <2>2, <3>1
  <2>4. j \in 0 .. k
    BY <2>1, <2>3
  <2> QED
    BY <2>1, <2>4 DEF j, k
<1>4. ASSUME x > s PROVE x <= m
  <2>1. /\ x = s + Full(d, e) - Full(d, s) /\ s \in Nat /\ e \in Nat /\ s <= e /\ x \in Nat
        /\ OnBlock(x) /\ x <= e
    BY FilledFacts DEF Filled
  <2>2. d.n \div BlockSize \in Nat /\ m \in Nat /\ m <= d.n /\ d.n < m + BlockSize /\ OnBlock(m)
    BY <1>1, WholeSlots, AtOrder
  <2>3. /\ d.first_empty[last] \in Nat /\ OnBlock(d.first_empty[last]) /\ d.first_empty[last] <= d.n
        /\ d.my_begin[last] <= d.first_empty[last] /\ d.my_begin[last] \in Nat
    <3>1. d.my_end[last] <= d.n /\ d.my_end[last] \in Nat /\ d.first_empty[last] <= d.my_end[last]
          /\ d.first_empty[last] \in Nat
      BY <1>0, StripeFacts
    <3> QED
      BY <1>0, <1>1, <3>1, StripeFacts
  <2> HIDE DEF m, last, s, e, x
  <2>4. d.first_empty[last] <= m
    <3> SUFFICES ASSUME m < d.first_empty[last] PROVE FALSE
      BY <2>2, <2>3
    <3>1. m + BlockSize <= d.first_empty[last]
      BY <2>2, <2>3, OnBlocks
    <3> QED
      BY <1>0, <1>1, <2>2, <2>3, <3>1
  <2> DEFINE y == d.first_empty[last]
  <2>5. \A z \in Nat : y <= z => Full(d, z) = Full(d, y)
    <3> TAKE z \in Nat
    <3>1. ASSUME y <= z PROVE Full(d, z) = Full(d, y)
      <4>1. d.my_begin[last] <= y /\ (last < NumThreads - 1 => z <= d.my_end[last]) /\ d.first_empty[last] <= y
            /\ y \in Nat
        BY <1>0, <2>3 DEF last
      <4> QED
        BY <1>0, <3>1, <4>1, StripeParts
    <3> QED
      BY <3>1
  <2>6. y \in Nat /\ y <= m
    BY <2>3, <2>4
  <2> HIDE DEF y
  <2>7. Full(d, s) \in Int /\ Full(d, e) \in Int /\ Full(d, y) \in Int
    BY <2>1, <2>6, FullType
  <2>8. Full(d, s) < Full(d, e)
    BY <1>4, <2>1, <2>7
  <2>9. s < y
    <3> SUFFICES ASSUME y <= s PROVE FALSE
      BY <2>1, <2>6
    <3>1. y <= e
      BY <2>1, <2>6
    <3>2. Full(d, s) = Full(d, y) /\ Full(d, e) = Full(d, y)
      BY <2>1, <2>5, <3>1
    <3> QED
      BY <2>7, <2>8, <3>2
  <2>10. CASE e <= y
    BY <2>1, <2>2, <2>6, <2>10
  <2>11. CASE y < e
    <3>1. Full(d, e) = Full(d, y)
      BY <2>1, <2>5, <2>6, <2>11
    <3>2. Full(d, y) - Full(d, s) <= y - s
      BY <2>1, <2>6, <2>9, FullAscends
    <3>3. x <= y
      BY <2>1, <2>6, <2>7, <3>1, <3>2
    <3> QED
      BY <2>1, <2>2, <2>6, <3>3
  <2> QED
    BY <2>1, <2>6, <2>10, <2>11
<1> QED
  BY <1>2, <1>3, <1>4 DEF s, x, m

------------------------------------------------------------------------------
(* What holds after every step: each thread has made the first moves of    *)
(* its plan, these alone have changed the slots, and the threads that are  *)
(* done have set their pointers.                                           *)
MadeBy(id) == Len(Moves(c, id)) - Len(moves[id])

PlanFollowed ==
  /\ moves \in [Threads -> Seq(MoveRecord)]
  /\ pc \in [Threads -> {"moving", "done"}]
  /\ \A id \in Threads :
       /\ Len(moves[id]) <= Len(Moves(c, id))
       /\ \A k \in 1 .. Len(moves[id]) : moves[id][k] = Moves(c, id)[MadeBy(id) + k]
       /\ pc[id] = "done" => moves[id] = << >>

SlotsFollow ==
  /\ content \in [Slots(c) -> DOMAIN c.bucket \cup {NoBlock}]
  /\ \A id \in Threads : \A j \in 1 .. MadeBy(id) :
       /\ content[Moves(c, id)[j].to] = Moves(c, id)[j].from
       /\ content[Moves(c, id)[j].from] = NoBlock
  /\ \A s \in Slots(c) :
       (\A id \in Threads : \A j \in 1 .. MadeBy(id) : Moves(c, id)[j].to # s /\ Moves(c, id)[j].from # s)
         => content[s] = IF s \in DOMAIN c.bucket THEN s ELSE NoBlock

PointersFollow ==
  pointers = [b \in Buckets |->
                {<< id, Pointers(c, id)[b] >> :
                   id \in {p \in Threads : pc[p] = "done" /\ b \in DOMAIN Pointers(c, p)}}]

IInv ==
  /\ \E input \in Inputs : c = Classified(input)
  /\ PlanFollowed /\ SlotsFollow /\ PointersFollow

LEMMA StripesKnown ==
  ASSUME \E input \in Inputs : c = Classified(input)
  PROVE  Stripes(c)
<1>1. PICK input \in Inputs : c = Classified(input)
  OBVIOUS
<1>2. Input(input)
  BY MovementAssumption DEF Input
<1> QED
  BY <1>1, <1>2, ClassifiedStripes

(* The moves that are left are the last of the plan.                       *)
LEMMA MovesLeft ==
  ASSUME Stripes(c), PlanFollowed, NEW id \in Threads
  PROVE  /\ Len(moves[id]) \in Nat /\ Len(Moves(c, id)) \in Nat /\ MadeBy(id) \in Nat
         /\ MadeBy(id) + Len(moves[id]) = Len(Moves(c, id))
         /\ moves[id] \in Seq(MoveRecord) /\ DOMAIN moves[id] = 1 .. Len(moves[id])
         /\ \A k \in 1 .. Len(moves[id]) :
              /\ MadeBy(id) + k \in 1 .. Len(Moves(c, id)) /\ ~(MadeBy(id) + k \in 1 .. MadeBy(id))
              /\ moves[id][k] = Moves(c, id)[MadeBy(id) + k]
<1>1. moves[id] \in Seq(MoveRecord) /\ Moves(c, id) \in Seq(MoveRecord) /\ Len(moves[id]) <= Len(Moves(c, id))
  BY MoveFacts DEF PlanFollowed
<1>2. /\ Len(moves[id]) \in Nat /\ DOMAIN moves[id] = 1 .. Len(moves[id])
      /\ Len(Moves(c, id)) \in Nat
  BY <1>1, LenProperties
<1>3. MadeBy(id) = Len(Moves(c, id)) - Len(moves[id])
  BY DEF MadeBy
<1>4. \A k \in 1 .. Len(moves[id]) : moves[id][k] = Moves(c, id)[MadeBy(id) + k]
  BY DEF PlanFollowed
<1> DEFINE l == Len(moves[id])
           m == Len(Moves(c, id))
           t == MadeBy(id)
<1>5. l \in Nat /\ m \in Nat /\ l <= m /\ t = m - l
  BY <1>1, <1>2, <1>3
<1> HIDE DEF l, m, t
<1>6. t \in Nat /\ t + l = m /\ \A k \in 1 .. l : t + k \in 1 .. m /\ ~(t + k \in 1 .. t)
  BY ONLY <1>5
<1> QED
  BY <1>1, <1>2, <1>4, <1>5, <1>6 DEF l, m, t

LEMMA InitIInv ==
  ASSUME Init
  PROVE  IInv
<1>1. PICK input \in Inputs : c = Classified(input)
  BY DEF Init
<1>2. Stripes(c)
  BY <1>1, StripesKnown
<1>3. \A id \in Threads :
        moves[id] = Moves(c, id) /\ Moves(c, id) \in Seq(MoveRecord) /\ Len(Moves(c, id)) \in Nat
  BY <1>2, MoveFacts, LenProperties DEF Init
<1>4. \A id \in Threads : MadeBy(id) = 0
  BY <1>3 DEF MadeBy
<1>5. PlanFollowed
  <2>1. moves \in [Threads -> Seq(MoveRecord)] /\ pc \in [Threads -> {"moving", "done"}]
    BY <1>3 DEF Init
  <2>2. \A id \in Threads : pc[id] # "done"
    BY DEF Init
  <2>3. \A id \in Threads : /\ Len(moves[id]) <= Len(Moves(c, id))
                            /\ \A k \in 1 .. Len(moves[id]) : moves[id][k] = Moves(c, id)[MadeBy(id) + k]
    BY <1>3, <1>4
  <2> QED
    BY <2>1, <2>2, <2>3 DEF PlanFollowed
<1>6. SlotsFollow
  <2>1. content = [s \in Slots(c) |-> IF s \in DOMAIN c.bucket THEN s ELSE NoBlock]
    BY DEF Init
  <2>2. \A id \in Threads : 1 .. MadeBy(id) = {}
    BY <1>4
  <2> QED
    BY <2>1, <2>2 DEF SlotsFollow
<1>7. PointersFollow
  <2>1. pointers = [b \in Buckets |-> {}] /\ \A p \in Threads : pc[p] # "done"
    BY DEF Init
  <2> QED
    BY <2>1 DEF PointersFollow
<1> QED
  BY <1>1, <1>5, <1>6, <1>7 DEF IInv

(* One move: the next of the plan.                                         *)
LEMMA MoveBlockIInv ==
  ASSUME IInv, NEW id \in Threads, MoveBlock(id)
  PROVE  IInv'
<1> DEFINE P(p) == Moves(c, p)
           j == MadeBy(id) + 1
           m == P(id)[j]
<1>0. Stripes(c) /\ PlanFollowed /\ SlotsFollow /\ PointersFollow
  BY StripesKnown DEF IInv
<1>1. /\ pc[id] = "moving" /\ moves[id] # << >> /\ c' = c /\ pointers' = pointers /\ pc' = pc
      /\ moves' = [moves EXCEPT ![id] = Tail(@)]
      /\ content' = [content EXCEPT ![Head(moves[id]).to] = content[Head(moves[id]).from],
                                    ![Head(moves[id]).from] = NoBlock]
  BY DEF MoveBlock
<1>2. \A p \in Threads :
        /\ Len(moves[p]) \in Nat /\ Len(P(p)) \in Nat /\ MadeBy(p) \in Nat
        /\ MadeBy(p) + Len(moves[p]) = Len(P(p)) /\ moves[p] \in Seq(MoveRecord)
  BY <1>0, MovesLeft
<1>3. Len(moves[id]) # 0
  BY <1>1, <1>2, EmptySeq
<1>4. /\ Head(moves[id]) = moves[id][1] /\ Tail(moves[id]) \in Seq(MoveRecord)
      /\ Len(Tail(moves[id])) = Len(moves[id]) - 1
      /\ \A k \in 1 .. Len(moves[id]) - 1 : Tail(moves[id])[k] = moves[id][k + 1]
  BY <1>1, <1>2, HeadTailProperties
<1>5. Head(moves[id]) = m /\ j \in 1 .. Len(P(id)) /\ j \in Nat
  <2>1. 1 \in 1 .. Len(moves[id])
    BY <1>2, <1>3
  <2> QED
    BY <1>0, <1>2, <1>4, <2>1, MovesLeft
<1>6. /\ moves \in [Threads -> Seq(MoveRecord)]
      /\ moves'[id] = Tail(moves[id]) /\ \A p \in Threads : p # id => moves'[p] = moves[p]
  BY <1>1 DEF PlanFollowed, IInv
<1>7. MadeBy(id)' = j /\ \A p \in Threads : p # id => MadeBy(p)' = MadeBy(p)
  BY <1>1, <1>2, <1>3, <1>4, <1>6 DEF MadeBy
<1>8. PlanFollowed'
  <2>1. moves' \in [Threads -> Seq(MoveRecord)]
    BY <1>1, <1>4, <1>6
  <2>2. pc' \in [Threads -> {"moving", "done"}]
    BY <1>0, <1>1 DEF PlanFollowed
  <2>3. ASSUME NEW p \in Threads
        PROVE  /\ Len(moves'[p]) <= Len(P(p)) /\ (pc'[p] = "done" => moves'[p] = << >>)
               /\ \A k \in 1 .. Len(moves'[p]) : moves'[p][k] = P(p)[MadeBy(p)' + k]
    <3>1. CASE p = id
      <4>1. Len(moves'[p]) = Len(moves[id]) - 1
        BY <1>4, <1>6, <3>1
      <4>3. Len(moves'[p]) <= Len(P(p))
        BY <1>2, <3>1, <4>1
      <4>2. ASSUME NEW k \in 1 .. Len(moves[id]) - 1 PROVE Tail(moves[id])[k] = P(id)[j + k]
        <5>0. Len(moves[id]) \in Nat /\ MadeBy(id) \in Nat
          BY <1>2
        <5>1. k + 1 \in 1 .. Len(moves[id]) /\ MadeBy(id) + (k + 1) = j + k
          BY <5>0
        <5>2. moves[id][k + 1] = P(id)[MadeBy(id) + (k + 1)]
          BY <1>0, <5>1, MovesLeft
        <5> QED
          BY <1>4, <5>1, <5>2
      <4> QED
        BY <1>1, <1>6, <1>7, <3>1, <4>1, <4>2, <4>3
    <3>2. CASE p # id
      BY <1>0, <1>1, <1>6, <1>7, <3>2 DEF PlanFollowed
    <3> QED
      BY <3>1, <3>2
  <2> QED
    BY <1>1, <2>1, <2>2, <2>3 DEF PlanFollowed
<1>9. /\ m.from \in DOMAIN c.bucket /\ m.to \notin DOMAIN c.bucket
      /\ m.to \in Slots(c) /\ m.from \in Slots(c) /\ m.to # m.from
  BY <1>0, <1>5, MoveSlots
<1>10. ASSUME NEW p \in Threads, NEW i \in 1 .. MadeBy(p)
       PROVE  /\ i \in 1 .. Len(P(p)) /\ << p, i >> # << id, j >>
              /\ P(p)[i].from # m.from /\ P(p)[i].from # m.to
              /\ P(p)[i].to # m.from /\ P(p)[i].to # m.to
  <2>1. i \in 1 .. Len(P(p)) /\ << p, i >> # << id, j >>
    BY <1>2, <1>5
  <2> QED
    BY <1>0, <1>5, <2>1, MovesApart
<1>11. /\ content \in [Slots(c) -> DOMAIN c.bucket \cup {NoBlock}]
       /\ \A p \in Threads : \A i \in 1 .. MadeBy(p) :
            content[P(p)[i].to] = P(p)[i].from /\ content[P(p)[i].from] = NoBlock
       /\ \A s \in Slots(c) :
            (\A p \in Threads : \A i \in 1 .. MadeBy(p) : P(p)[i].to # s /\ P(p)[i].from # s)
              => content[s] = IF s \in DOMAIN c.bucket THEN s ELSE NoBlock
  BY <1>0 DEF SlotsFollow
<1>12. content[m.from] = m.from
  BY <1>9, <1>10, <1>11
<1>13. content' = [content EXCEPT ![m.to] = m.from, ![m.from] = NoBlock]
  BY <1>1, <1>5, <1>12
<1> HIDE DEF P, j, m
<1>14. /\ content' \in [Slots(c) -> DOMAIN c.bucket \cup {NoBlock}]
       /\ content'[m.to] = m.from /\ content'[m.from] = NoBlock
       /\ \A s \in Slots(c) : s # m.to /\ s # m.from => content'[s] = content[s]
  BY <1>9, <1>11, <1>13
<1>15. ASSUME NEW p \in Threads, NEW i \in 1 .. MadeBy(p)'
       PROVE  content'[P(p)[i].to] = P(p)[i].from /\ content'[P(p)[i].from] = NoBlock
  <2>1. CASE p = id /\ i = j
    BY <1>14, <2>1 DEF m
  <2>2. CASE ~(p = id /\ i = j)
    <3>1. i \in 1 .. MadeBy(p)
      BY <1>2, <1>5, <1>7, <2>2 DEF j
    <3>2. P(p)[i].from \in Slots(c) /\ P(p)[i].to \in Slots(c)
      BY <1>0, <1>10, <3>1, MoveSlots DEF P
    <3> QED
      BY <1>10, <1>11, <1>14, <3>1, <3>2
  <2> QED
    BY <2>1, <2>2
<1>16. ASSUME NEW s \in Slots(c),
              \A p \in Threads : \A i \in 1 .. MadeBy(p)' : P(p)[i].to # s /\ P(p)[i].from # s
       PROVE  content'[s] = IF s \in DOMAIN c.bucket THEN s ELSE NoBlock
  <2>1. j \in 1 .. MadeBy(id)'
    BY <1>5, <1>7
  <2>2. s # m.to /\ s # m.from
    BY <1>16, <2>1 DEF m
  <2>3. \A p \in Threads : \A i \in 1 .. MadeBy(p) : i \in 1 .. MadeBy(p)'
    BY <1>2, <1>5, <1>7 DEF j
  <2> QED
    BY <1>11, <1>14, <1>16, <2>2, <2>3
<1>17. SlotsFollow'
  <2>1. /\ content' \in [Slots(c) -> DOMAIN c.bucket \cup {NoBlock}]
        /\ \A p \in Threads : \A i \in 1 .. MadeBy(p)' :
             content'[Moves(c, p)[i].to] = Moves(c, p)[i].from /\ content'[Moves(c, p)[i].from] = NoBlock
    BY <1>14, <1>15 DEF P
  <2>2. \A s \in Slots(c) :
          (\A p \in Threads : \A i \in 1 .. MadeBy(p)' : Moves(c, p)[i].to # s /\ Moves(c, p)[i].from # s)
            => content'[s] = IF s \in DOMAIN c.bucket THEN s ELSE NoBlock
    BY <1>16 DEF P
  <2>3. c' = c
    BY <1>1
  <2> QED
    BY <2>1, <2>2, <2>3 DEF SlotsFollow, MadeBy
<1>18. PointersFollow'
  BY <1>0, <1>1 DEF PointersFollow
<1>19. (\E input \in Inputs : c = Classified(input))'
  BY <1>1 DEF IInv
<1> QED
  BY <1>8, <1>17, <1>18, <1>19 DEF IInv

(* The pointers of one thread more.                                        *)
LEMMA SetPointersIInv ==
  ASSUME IInv, NEW id \in Threads, SetPointers(id)
  PROVE  IInv'
<1> DEFINE Done(b) == {p \in Threads : pc[p] = "done" /\ b \in DOMAIN Pointers(c, p)}
           Done2(b) == {p \in Threads : pc'[p] = "done" /\ b \in DOMAIN Pointers(c, p)}
<1>0. Stripes(c) /\ PlanFollowed /\ SlotsFollow /\ PointersFollow
  BY StripesKnown DEF IInv
<1>1. /\ pc[id] = "moving" /\ moves[id] = << >> /\ c' = c /\ moves' = moves /\ content' = content
      /\ pc' = [pc EXCEPT ![id] = "done"]
      /\ pointers' = [b \in Buckets |->
                        pointers[b] \cup (IF b \in DOMAIN Pointers(c, id)
                                          THEN {<< id, Pointers(c, id)[b] >>} ELSE {})]
  BY DEF SetPointers
<1>2. /\ pc \in [Threads -> {"moving", "done"}] /\ pc' \in [Threads -> {"moving", "done"}]
      /\ pc'[id] = "done" /\ \A p \in Threads : p # id => pc'[p] = pc[p]
  BY <1>0, <1>1 DEF PlanFollowed
<1>3. \A p : MadeBy(p)' = MadeBy(p)
  BY <1>1 DEF MadeBy
<1>4. PlanFollowed'
  BY <1>0, <1>1, <1>2, <1>3 DEF PlanFollowed
<1>5. SlotsFollow'
  BY <1>0, <1>1, <1>3 DEF SlotsFollow
<1>6. \A b \in Buckets : pointers[b] = {<< p, Pointers(c, p)[b] >> : p \in Done(b)}
  BY <1>0 DEF PointersFollow
<1>7. \A b : Done2(b) = Done(b) \cup (IF b \in DOMAIN Pointers(c, id) THEN {id} ELSE {})
  BY <1>1, <1>2
<1> HIDE DEF Done, Done2
<1>8. ASSUME NEW b \in Buckets
      PROVE  pointers'[b] = {<< p, Pointers(c, p)[b] >> : p \in Done2(b)}
  <2>1. pointers'[b] = pointers[b] \cup (IF b \in DOMAIN Pointers(c, id)
                                         THEN {<< id, Pointers(c, id)[b] >>} ELSE {})
    BY <1>1
  <2>2. CASE b \in DOMAIN Pointers(c, id)
    BY <1>6, <1>7, <2>1, <2>2
  <2>3. CASE b \notin DOMAIN Pointers(c, id)
    BY <1>6, <1>7, <2>1, <2>3
  <2> QED
    BY <2>2, <2>3
<1>9. PointersFollow'
  <2>1. pointers' = [b \in Buckets |-> {<< p, Pointers(c, p)[b] >> : p \in Done2(b)}]
    BY <1>1, <1>8
  <2> QED
    BY <1>1, <2>1 DEF PointersFollow, Done2
<1>10. (\E input \in Inputs : c = Classified(input))'
  BY <1>1 DEF IInv
<1> QED
  BY <1>4, <1>5, <1>9, <1>10 DEF IInv

LEMMA NextIInv ==
  ASSUME IInv, [Next]_vars
  PROVE  IInv'
<1>1. ASSUME UNCHANGED vars PROVE IInv'
  BY <1>1 DEF vars, IInv, PlanFollowed, SlotsFollow, PointersFollow, MadeBy
<1>2. CASE \E id \in Threads : MoveBlock(id) \/ SetPointers(id)
  BY <1>2, MoveBlockIInv, SetPointersIInv
<1>3. CASE Finished
  BY <1>1, <1>3 DEF Finished
<1> QED
  BY <1>1, <1>2, <1>3 DEF Next

(* The inductive invariant: what the slots and the pointers hold is what   *)
(* the plans of the threads say, as far as the threads have got.           *)
THEOREM PlanIsFollowed == Spec => []IInv
<1>1. Init => IInv
  BY InitIInv
<1>2. IInv /\ [Next]_vars => IInv'
  BY NextIInv
<1> QED
  BY <1>1, <1>2, PTL DEF Spec

------------------------------------------------------------------------------
(* What the inductive invariant says about types, moves and pointers.      *)
LEMMA PointerRange ==
  ASSUME NEW d, Stripes(d), NEW b \in Buckets
  PROVE  Filled(d, b) \div BlockSize - 1
           \in SlotsUpTo(d.bucket_start[b]) - 1 ..
               MaxOf(SlotsUpTo(d.bucket_start[b]), d.n \div BlockSize) - 1
<1> DEFINE f == Filled(d, b) \div BlockSize
           w == SlotsUpTo(d.bucket_start[b])
           k == d.n \div BlockSize
<1>1. /\ Start(d, b) \div BlockSize = w /\ w \in Nat
      /\ Filled(d, b) > Start(d, b) => Filled(d, b) <= At(k)
  BY FilledWithin
<1>2. /\ OnBlock(Start(d, b)) /\ OnBlock(Filled(d, b)) /\ Start(d, b) <= Filled(d, b)
      /\ Start(d, b) \in Nat /\ Filled(d, b) \in Nat
  BY FilledFacts
<1>3. f \in Nat /\ At(f) = Filled(d, b) /\ At(w) = Start(d, b)
  BY <1>1, <1>2, SlotOf
<1>4. k \in Nat /\ At(k) \in Nat
  <2>1. d.n \in Nat
    BY DEF Stripes
  <2>2. k \in Nat
    BY <2>1, Constants, DivisionUnique
  <2> QED
    BY <2>2, AtFacts
<1> HIDE DEF f, w, k
<1>5. w <= f
  <2>1. f < w => At(f) < At(w)
    BY <1>1, <1>3, AtOrder
  <2> QED
    BY <1>1, <1>2, <1>3, <2>1
<1>6. f <= MaxOf(w, k)
  <2>1. CASE f = w
    BY <1>1, <1>4, <2>1 DEF MaxOf
  <2>2. CASE f # w
    <3>1. At(w) < At(f)
      BY <1>1, <1>3, <1>5, <2>2, AtOrder
    <3>2. At(f) <= At(k)
      BY <1>1, <1>2, <1>3, <3>1
    <3>3. k < f => At(k) < At(f)
      BY <1>3, <1>4, AtOrder
    <3>4. f <= k
      BY <1>2, <1>3, <1>4, <3>2, <3>3
    <3> QED
      BY <1>1, <1>3, <1>4, <3>4 DEF MaxOf
  <2> QED
    BY <2>1, <2>2
<1>7. MaxOf(w, k) \in Nat
  BY <1>1, <1>4 DEF MaxOf
<1>8. f - 1 \in w - 1 .. MaxOf(w, k) - 1
  BY <1>1, <1>3, <1>5, <1>6, <1>7
<1> QED
  BY <1>8 DEF f, w, k

LEMMA IInvTypes ==
  ASSUME IInv
  PROVE  TypeOK
<1>0. Stripes(c) /\ PlanFollowed /\ SlotsFollow /\ PointersFollow
  BY StripesKnown DEF IInv
<1>1. content \in [Slots(c) -> DOMAIN c.bucket \cup {NoBlock}] /\ pc \in [Threads -> {"moving", "done"}]
  BY <1>0 DEF SlotsFollow, PlanFollowed
<1>2. ASSUME NEW id \in Threads, NEW k \in DOMAIN moves[id]
      PROVE  moves[id][k] \in [from : Slots(c), to : Slots(c)]
  <2>1. /\ moves[id] \in Seq(MoveRecord) /\ k \in 1 .. Len(moves[id])
        /\ moves[id][k] = Moves(c, id)[MadeBy(id) + k] /\ MadeBy(id) + k \in 1 .. Len(Moves(c, id))
    BY <1>0, MovesLeft
  <2>2. moves[id][k] \in MoveRecord
    BY <2>1, ElementOfSeq
  <2>3. moves[id][k].from \in Slots(c) /\ moves[id][k].to \in Slots(c)
    BY <1>0, <2>1, MoveSlots
  <2> QED
    BY <2>2, <2>3 DEF MoveRecord
<1>3. ASSUME NEW b \in Buckets, NEW p \in pointers[b]
      PROVE  /\ p[1] \in Threads
             /\ p[2].write \in 0 .. SlotsUpTo(c.n)
             /\ p[2].read \in p[2].write - 1 .. MaxOf(p[2].write, c.n \div BlockSize) - 1
  <2>1. pointers[b] = {<< id, Pointers(c, id)[b] >> :
                         id \in {q \in Threads : pc[q] = "done" /\ b \in DOMAIN Pointers(c, q)}}
    BY <1>0 DEF PointersFollow
  <2>2. PICK id \in Threads : b \in DOMAIN Pointers(c, id) /\ p = << id, Pointers(c, id)[b] >>
    BY <2>1
  <2>3. Pointers(c, id)[b] = [write |-> Start(c, b) \div BlockSize, read |-> Filled(c, b) \div BlockSize - 1]
    BY <1>0, <2>2, PointersFacts
  <2>4. /\ p[1] = id /\ p[2].write = Start(c, b) \div BlockSize
        /\ p[2].read = Filled(c, b) \div BlockSize - 1
    BY <2>2, <2>3
  <2>5. /\ Start(c, b) \div BlockSize = SlotsUpTo(c.bucket_start[b])
        /\ SlotsUpTo(c.bucket_start[b]) \in 0 .. SlotsUpTo(c.n)
    BY <1>0, FilledWithin
  <2> QED
    BY <1>0, <2>4, <2>5, PointerRange
<1> QED
  BY <1>1, <1>2, <1>3 DEF TypeOK

LEMMA IInvDisjoint ==
  ASSUME IInv
  PROVE  DisjointMoves
<1>0. Stripes(c) /\ PlanFollowed /\ SlotsFollow
  BY StripesKnown DEF IInv
<1> DEFINE P(p) == Moves(c, p)
           At1(m) == MadeBy(m[1]) + m[2]
<1>1. ASSUME NEW m \in Pending
      PROVE  /\ m[1] \in Threads /\ At1(m) \in 1 .. Len(P(m[1])) /\ m = << m[1], m[2] >> /\ m[2] \in Nat
             /\ From(m) = P(m[1])[At1(m)].from /\ To(m) = P(m[1])[At1(m)].to
             /\ MadeBy(m[1]) \in Nat /\ ~(At1(m) \in 1 .. MadeBy(m[1]))
  <2>1. PICK id \in Threads : \E k \in DOMAIN moves[id] : m = << id, k >>
    BY DEF Pending
  <2>2. PICK k \in DOMAIN moves[id] : m = << id, k >>
    BY <2>1
  <2>3. m[1] = id /\ m[2] = k
    BY <2>2
  <2>4. /\ k \in 1 .. Len(moves[id]) /\ Len(moves[id]) \in Nat
        /\ moves[id][k] = P(id)[MadeBy(id) + k] /\ MadeBy(id) + k \in 1 .. Len(P(id))
        /\ MadeBy(id) \in Nat /\ ~(MadeBy(id) + k \in 1 .. MadeBy(id))
    BY <1>0, MovesLeft
  <2> QED
    BY <2>2, <2>3, <2>4 DEF From, To
<1>2. ASSUME NEW l \in Pending, NEW m \in Pending, l # m
      PROVE  {From(l), To(l)} \cap {From(m), To(m)} = {}
  <2>1. << l[1], At1(l) >> # << m[1], At1(m) >>
    <3> SUFFICES ASSUME l[1] = m[1], At1(l) = At1(m) PROVE FALSE
      OBVIOUS
    <3>1. l[2] = m[2]
      <4>1. MadeBy(l[1]) = MadeBy(m[1]) /\ MadeBy(m[1]) \in Nat /\ l[2] \in Nat /\ m[2] \in Nat
        BY <1>1
      <4> QED
        BY <4>1
    <3> QED
      BY <1>1, <1>2, <3>1
  <2> HIDE DEF At1
  <2>2. /\ P(l[1])[At1(l)].from # P(m[1])[At1(m)].from /\ P(l[1])[At1(l)].to # P(m[1])[At1(m)].to
        /\ P(l[1])[At1(l)].from # P(m[1])[At1(m)].to /\ P(l[1])[At1(l)].to # P(m[1])[At1(m)].from
    BY <1>0, <1>1, <2>1, MovesApart
  <2> QED
    BY <1>1, <2>2
<1>3. ASSUME NEW m \in Pending
      PROVE  /\ content[From(m)] # NoBlock /\ content[To(m)] = NoBlock
             /\ c.my_begin[m[1]] <= To(m) * BlockSize /\ To(m) * BlockSize < c.my_end[m[1]]
  <2> DEFINE q == m[1]
             j == At1(m)
             u == P(q)[j].from
             v == P(q)[j].to
  <2>1. q \in Threads /\ j \in 1 .. Len(P(q)) /\ From(m) = u /\ To(m) = v /\ ~(j \in 1 .. MadeBy(q))
    BY <1>1
  <2> HIDE DEF q, j
  <2>2. /\ u \in DOMAIN c.bucket /\ v \notin DOMAIN c.bucket /\ v \in Slots(c) /\ u \in Slots(c)
        /\ c.my_begin[q] <= At(v) /\ At(v) < c.my_end[q] /\ u \in Nat
    BY <1>0, <2>1, MoveSlots, FullSlot
  <2>3. ASSUME NEW p \in Threads, NEW i \in 1 .. MadeBy(p)
        PROVE  P(p)[i].from # u /\ P(p)[i].from # v /\ P(p)[i].to # u /\ P(p)[i].to # v
    <3>1. i \in 1 .. Len(P(p)) /\ << p, i >> # << q, j >>
      <4>1. MadeBy(p) \in Nat /\ Len(P(p)) \in Nat /\ MadeBy(p) <= Len(P(p))
        <5>1. MadeBy(p) \in Nat /\ Len(P(p)) \in Nat /\ Len(moves[p]) \in Nat
              /\ MadeBy(p) + Len(moves[p]) = Len(P(p))
          BY <1>0, MovesLeft
        <5> QED
          BY <5>1
      <4>2. i \in 1 .. Len(P(p))
        BY <4>1
      <4> QED
        BY <2>1, <4>2
    <3> QED
      BY <1>0, <2>1, <3>1, MovesApart
  <2>4. \A s \in Slots(c) :
          (\A p \in Threads : \A i \in 1 .. MadeBy(p) : P(p)[i].to # s /\ P(p)[i].from # s)
            => content[s] = IF s \in DOMAIN c.bucket THEN s ELSE NoBlock
    BY <1>0 DEF SlotsFollow
  <2>5. content[u] = u /\ content[v] = NoBlock
    BY <2>2, <2>3, <2>4
  <2>6. u # NoBlock
    BY <2>2 DEF NoBlock
  <2> QED
    BY <2>1, <2>2, <2>5, <2>6 DEF At, q
<1> QED
  BY <1>2, <1>3 DEF DisjointMoves

(* The type invariant: blocks stay in slots, moves are between slots, and  *)
(* the pointers that the threads set (bucket_pointers.set) are in range.   *)
THEOREM MovementTypes == Spec => []TypeOK
<1>1. IInv => TypeOK
  BY IInvTypes
<1> QED
  BY <1>1, PlanIsFollowed, PTL

(* Between the barriers the threads do not communicate, and do not meet:   *)
(* no two of the moves that are to be made have a slot in common, and each *)
(* of them finds its block where it was and its gap, in its own stripe,    *)
(* still empty (the std::move of moveEmptyBlocks).                         *)
THEOREM MovesAreDisjoint == Spec => []DisjointMoves
<1>1. IInv => DisjointMoves
  BY IInvDisjoint
<1> QED
  BY <1>1, PlanIsFollowed, PTL

------------------------------------------------------------------------------
(* The areas of the buckets divide the slots.                              *)
LEMMA AreaFacts ==
  ASSUME NEW d, Stripes(d)
  PROVE  /\ d.n \in Nat /\ d.n \div BlockSize \in Nat /\ At(d.n \div BlockSize) \in Nat
         /\ At(d.n \div BlockSize) <= d.n
         /\ \A b \in 0 .. NumBuckets :
              /\ SlotsUpTo(d.bucket_start[b]) \in Nat /\ At(SlotsUpTo(d.bucket_start[b])) = Start(d, b)
              /\ Start(d, b) \in Nat
         /\ \A a, b \in 0 .. NumBuckets : a <= b => SlotsUpTo(d.bucket_start[a]) <= SlotsUpTo(d.bucket_start[b])
         /\ SlotsUpTo(d.bucket_start[NumBuckets]) \in {d.n \div BlockSize, (d.n \div BlockSize) + 1}
<1> DEFINE w(b) == SlotsUpTo(d.bucket_start[b])
           m == d.n \div BlockSize
<1>0. BlockSize \in Nat \ {0} /\ NumBuckets \in Nat \ {0}
  BY Constants
<1>1. d.n \in Nat /\ \A b \in 0 .. NumBuckets : d.bucket_start[b] \in Nat
  BY DEF Stripes
<1>2. m \in Nat /\ At(m) <= d.n /\ d.n < At(m) + BlockSize /\ At(m) \in Nat
  BY <1>1, WholeSlots, AtOrder
<1>3. \A b \in 0 .. NumBuckets : w(b) \in Nat /\ At(w(b)) = Start(d, b) /\ Start(d, b) \in Nat
  BY <1>1, AlignFacts, StartFacts DEF Start
<1> HIDE DEF w, m
<1>4. ASSUME NEW a \in 0 .. NumBuckets, NEW b \in 0 .. NumBuckets, a <= b PROVE w(a) <= w(b)
  <2>1. Start(d, a) <= Start(d, b)
    BY <1>4, StartFacts
  <2>2. w(b) < w(a) => At(w(b)) < At(w(a))
    BY <1>3, AtOrder
  <2> QED
    BY <1>3, <2>1, <2>2
<1>5. w(NumBuckets) \in {m, m + 1}
  <2> DEFINE k == w(NumBuckets)
  <2>1. k \in Nat /\ d.n <= At(k) /\ At(k) < d.n + BlockSize /\ At(k) \in Nat
    <3>1. NumBuckets \in 0 .. NumBuckets
      BY <1>0
    <3> QED
      BY <1>3, <3>1, StartFacts
  <2> HIDE DEF k
  <2>2. m <= k
    <3>1. k < m => At(k) + BlockSize <= At(m)
      BY <1>2, <2>1, AtOrder
    <3> QED
      BY <1>0, <1>1, <1>2, <2>1, <3>1
  <2>3. ~(m + 1 < k)
    <3> SUFFICES ASSUME m + 1 < k PROVE FALSE
      OBVIOUS
    <3>1. m + 1 \in Nat /\ At(m + 1) = At(m) + BlockSize /\ At(m + 1) + BlockSize <= At(k)
      BY <1>2, <2>1, AtOrder
    <3> QED
      BY <1>0, <1>1, <1>2, <2>1, <3>1
  <2>4. k \in {m, m + 1}
    BY <1>2, <2>1, <2>2, <2>3
  <2> QED
    BY <2>4 DEF k
<1> QED
  BY <1>1, <1>2, <1>3, <1>4, <1>5 DEF w, m

LEMMA AreaOf ==
  ASSUME NEW d, Stripes(d), NEW s \in Slots(d)
  PROVE  /\ s \in Nat /\ At(s) \in Nat /\ At(s) + BlockSize <= d.n
         /\ \E b \in Buckets : Start(d, b) <= At(s) /\ At(s) < Start(d, b + 1)
<1>0. BlockSize \in Nat \ {0} /\ NumBuckets \in Nat \ {0} /\ Buckets = 0 .. NumBuckets - 1
  BY Constants
<1> DEFINE m == d.n \div BlockSize
<1>1. m \in Nat /\ At(m) \in Nat /\ At(m) <= d.n /\ d.n \in Nat
  BY AreaFacts
<1>2. s \in 0 .. m - 1
  BY DEF Slots
<1> HIDE DEF m
<1>3. s \in Nat /\ s < m
  BY <1>1, <1>2
<1>4. At(s) \in Nat /\ At(s) + BlockSize <= At(m)
  BY <1>1, <1>3, AtOrder
<1>5. At(s) + BlockSize <= d.n /\ At(s) < d.n
  BY <1>0, <1>1, <1>4
<1> DEFINE Beyond == {i \in 0 .. NumBuckets : At(s) < Start(d, i)}
<1>6. /\ \A i \in 0 .. NumBuckets : Start(d, i) \in Nat
      /\ Start(d, 0) = 0 /\ d.n <= Start(d, NumBuckets)
  BY StartFacts
<1>7. NumBuckets \in Beyond /\ Beyond \subseteq Nat
  <2>1. NumBuckets \in 0 .. NumBuckets
    BY <1>0
  <2>2. At(s) < Start(d, NumBuckets)
    BY <1>1, <1>4, <1>5, <1>6, <2>1
  <2> QED
    BY <2>1, <2>2
<1>8. \A i : i \in Beyond <=> i \in 0 .. NumBuckets /\ At(s) < Start(d, i)
  OBVIOUS
<1> HIDE DEF Beyond
<1>9. PICK i \in Beyond : \A j \in Beyond : i <= j
  BY <1>7, Least
<1>10. i \in 0 .. NumBuckets /\ At(s) < Start(d, i) /\ i # 0
  BY <1>4, <1>6, <1>8, <1>9
<1>11. i - 1 \in Buckets /\ (i - 1) + 1 = i /\ i - 1 \in 0 .. NumBuckets /\ i - 1 \notin Beyond
  <2>1. i \in Nat /\ i - 1 \in Nat /\ i - 1 < i
    BY <1>10
  <2> QED
    BY <1>0, <1>7, <1>9, <1>10, <2>1
<1>12. Start(d, i - 1) <= At(s)
  BY <1>4, <1>6, <1>8, <1>11
<1> QED
  BY <1>3, <1>4, <1>5, <1>10, <1>11, <1>12

LEMMA SameArea ==
  ASSUME NEW d, Stripes(d), NEW a \in Buckets, NEW b \in Buckets, NEW x \in Nat,
         Start(d, a) <= x, x < Start(d, a + 1), Start(d, b) <= x, x < Start(d, b + 1)
  PROVE  a = b
<1>0. /\ NumBuckets \in Nat \ {0} /\ a \in Nat /\ b \in Nat
      /\ a \in 0 .. NumBuckets /\ a + 1 \in 0 .. NumBuckets /\ b \in 0 .. NumBuckets /\ b + 1 \in 0 .. NumBuckets
  BY Constants
<1>1. /\ Start(d, a) \in Nat /\ Start(d, a + 1) \in Nat /\ Start(d, b) \in Nat /\ Start(d, b + 1) \in Nat
      /\ a + 1 <= b => Start(d, a + 1) <= Start(d, b)
      /\ b + 1 <= a => Start(d, b + 1) <= Start(d, a)
  BY <1>0, StartFacts
<1>2. ~(a + 1 <= b) /\ ~(b + 1 <= a)
  BY <1>1
<1> QED
  BY <1>0, <1>2

(* The bucket that crosses the end of a stripe is the overlapping one.     *)
LEMMA CrossingBucket ==
  ASSUME NEW d, Stripes(d), NEW id \in Threads, id < NumThreads - 1, NEW b \in Buckets,
         Start(d, b) < d.my_end[id], d.my_end[id] < Start(d, b + 1)
  PROVE  LastBucket(d, id) = b /\ LastStart(d, id) = Start(d, b) /\ BucketEnd(d, id) = Start(d, b + 1)
<1> DEFINE i == RangeEnd(d, id)
           en == d.my_end[id]
<1>0. /\ NumBuckets \in Nat \ {0} /\ b \in Nat /\ b \in 0 .. NumBuckets /\ b + 1 \in 0 .. NumBuckets
      /\ b + 1 <= NumBuckets
  BY Constants
<1>1. /\ i \in 1 .. NumBuckets /\ Start(d, i) >= en /\ \A j \in 0 .. i - 1 : Start(d, j) < en
  BY RangeEndFacts
<1>2. en \in Nat /\ \A j \in 0 .. NumBuckets : Start(d, j) \in Nat
  BY StripeFacts, StartFacts
<1>3. \A j, k \in 0 .. NumBuckets : j <= k => Start(d, j) <= Start(d, k)
  BY StartFacts
<1>4. Start(d, b) < en /\ en < Start(d, b + 1)
  OBVIOUS
<1>5. LastBucket(d, id) + 1 = i /\ LastBucket(d, id) \in Nat
      /\ LastStart(d, id) = Start(d, LastBucket(d, id))
      /\ BucketEnd(d, id) = Start(d, LastBucket(d, id) + 1)
  <2>1. LastBucket(d, id) \in Nat
    <3>1. LastBucket(d, id) \in Buckets
      BY LastFacts
    <3> QED
      BY <3>1, Constants
  <2>2. /\ LastBucket(d, id) + 1 = RangeEnd(d, id) /\ LastStart(d, id) = Start(d, LastBucket(d, id))
        /\ BucketEnd(d, id) = Start(d, LastBucket(d, id) + 1)
    BY LastFacts
  <2> QED
    BY <2>1, <2>2
<1> HIDE DEF i, en
<1>6. ~(b + 1 < i)
  <2> SUFFICES ASSUME b + 1 < i PROVE FALSE
    OBVIOUS
  <2>1. b + 1 \in 0 .. i - 1
    BY <1>0, <1>1
  <2>2. Start(d, b + 1) < en
    BY <1>1, <2>1
  <2> QED
    BY <1>0, <1>2, <1>4, <2>2
<1>7. ~(i < b + 1)
  <2> SUFFICES ASSUME i < b + 1 PROVE FALSE
    OBVIOUS
  <2>1. i \in 0 .. NumBuckets /\ i <= b
    BY <1>0, <1>1
  <2>2. Start(d, i) <= Start(d, b)
    BY <1>0, <1>3, <2>1
  <2> QED
    BY <1>0, <1>1, <1>2, <1>4, <2>1, <2>2
<1>8. i = b + 1
  BY <1>0, <1>1, <1>6, <1>7
<1>9. LastBucket(d, id) = b
  BY <1>0, <1>5, <1>8
<1> QED
  BY <1>5, <1>9

------------------------------------------------------------------------------
(* The moves together fill the areas up to Filled: the blocks behind it are*)
(* all taken, and the gaps in front of it are all filled.                  *)
LEMMA TakenBeyond ==
  ASSUME NEW d, Stripes(d), NEW id \in Threads, NEW j \in 1 .. Len(Moves(d, id))
  PROVE  LET s == Moves(d, id)[j].from
             b == LastBucket(d, id)
         IN  Start(d, b) <= At(s) /\ At(s) < Start(d, b + 1) /\ Filled(d, b) <= At(s)
<1> DEFINE s  == Moves(d, id)[j].from
           b  == LastBucket(d, id)
           S  == LastStart(d, id)
           e  == BucketEnd(d, id)
           x  == Filled(d, b)
           z  == FillEnd(d, id)
           w  == FillEnd(d, id) - FillBegin(d, id)
           R  == Reserved(d, id)
           en == d.my_end[id]
<1>0. BlockSize \in Nat \ {0}
  BY Constants
<1>1. /\ e > en /\ FillBegin(d, id) < z /\ Taken(d, id, s, w)
      /\ s \in DOMAIN d.bucket /\ en <= At(s)
  BY MoveFacts
<1>2. S < en /\ z <= x /\ R + w = Holes(d, z) - Holes(d, S) /\ z \in Nat /\ R \in Nat /\ w \in Int /\ S <= z
  <2>1. /\ S < en /\ z <= x /\ R + w = Holes(d, z) - Holes(d, S) /\ z \in Nat /\ R \in Nat
        /\ FillBegin(d, id) \in Nat /\ S <= FillBegin(d, id)
    BY <1>1, NeedFacts
  <2>2. S \in Nat /\ en \in Nat
    BY LastFacts, StripeFacts
  <2>3. S <= z
    <3> HIDE DEF z, S
    <3> QED
      BY <1>1, <2>1, <2>2
  <2>4. w \in Int
    BY <2>1
  <2> QED
    BY <2>1, <2>3, <2>4
<1>3. b \in Buckets /\ S = Start(d, b) /\ e = Start(d, b + 1) /\ S \in Nat /\ e \in Nat /\ en \in Nat
  BY LastFacts, StripeFacts
<1>4. /\ x \in Nat /\ OnBlock(x) /\ S <= x /\ x <= e
      /\ Holes(d, x) - Holes(d, S) = Full(d, e) - Full(d, x)
  BY <1>3, FilledFacts
<1>5. /\ At(s) \in Nat /\ OnBlock(At(s)) /\ Full(d, At(s)) \in Int /\ At(s) + BlockSize \in Nat
      /\ Full(d, At(s) + BlockSize) = Full(d, At(s)) + BlockSize
  BY <1>1, FullSlot
<1>6. At(s) + BlockSize <= e /\ Full(d, e) - Full(d, At(s)) <= R + w
  BY <1>1 DEF Taken
<1> HIDE DEF s, b, S, e, x, z, w, R, en
<1>7. Holes(d, z) \in Int /\ Holes(d, x) \in Int /\ Holes(d, S) \in Int /\ Holes(d, z) <= Holes(d, x)
      /\ Full(d, x) \in Int /\ Full(d, e) \in Int
  BY <1>2, <1>3, <1>4, HolesAscend, FullType
<1>8. Full(d, x) <= Full(d, At(s))
  <2> DEFINE E == Full(d, e)
             X == Full(d, x)
             F == Full(d, At(s))
             U == Holes(d, x)
             V == Holes(d, S)
             Z == Holes(d, z)
  <2>1. /\ E \in Int /\ X \in Int /\ F \in Int /\ U \in Int /\ V \in Int /\ Z \in Int
        /\ R + w = Z - V /\ Z <= U /\ U - V = E - X /\ E - F <= R + w /\ R \in Nat /\ w \in Int
    BY <1>2, <1>4, <1>5, <1>6, <1>7
  <2> HIDE DEF E, X, F, U, V, Z
  <2>2. X <= F
    BY ONLY <2>1
  <2> QED
    BY <2>2 DEF X, F
<1>9. x <= At(s)
  <2> SUFFICES ASSUME At(s) < x PROVE FALSE
    BY <1>4, <1>5
  <2>1. At(s) + BlockSize <= x
    BY <1>4, <1>5, OnBlocks
  <2>2. Full(d, At(s) + BlockSize) <= Full(d, x)
    BY <1>4, <1>5, <2>1, FullAscends
  <2> DEFINE X  == Full(d, x)
             F  == Full(d, At(s))
             F2 == Full(d, At(s) + BlockSize)
  <2>3. X \in Int /\ F \in Int /\ BlockSize \in Nat \ {0} /\ F2 = F + BlockSize /\ F2 <= X /\ X <= F
    BY <1>0, <1>5, <1>7, <1>8, <2>2
  <2> HIDE DEF X, F, F2
  <2> QED
    BY ONLY <2>3
<1>10. S <= At(s) /\ At(s) < e
  <2> DEFINE a == At(s)
  <2>1. /\ a \in Nat /\ S \in Nat /\ e \in Nat /\ en \in Nat /\ BlockSize \in Nat \ {0}
        /\ S < en /\ en <= a /\ a + BlockSize <= e
    BY <1>0, <1>1, <1>2, <1>3, <1>5, <1>6
  <2> HIDE DEF a
  <2>2. S <= a /\ a < e
    BY ONLY <2>1
  <2> QED
    BY <2>2 DEF a
<1> QED
  BY <1>3, <1>9, <1>10 DEF s, b, x

LEMMA FillWithin ==
  ASSUME NEW d, Stripes(d), NEW id \in Threads, NEW j \in 1 .. Len(Moves(d, id))
  PROVE  LET s == Moves(d, id)[j].to
             b == LastBucket(d, id)
         IN  Start(d, b) <= At(s) /\ At(s) < Start(d, b + 1) /\ At(s) < Filled(d, b)
<1> DEFINE s == Moves(d, id)[j].to
           b == LastBucket(d, id)
           x == Filled(d, b)
           z == FillEnd(d, id)
           a == FillBegin(d, id)
<1>0. BlockSize \in Nat \ {0}
  BY Constants
<1>1. /\ BucketEnd(d, id) > d.my_end[id] /\ a < z /\ s \in Nat /\ a <= At(s) /\ At(s) + BlockSize <= z
  BY MoveFacts
<1>2. a \in Nat /\ z \in Nat /\ LastStart(d, id) <= a /\ z <= x
  BY <1>1, NeedFacts
<1>3. b \in Buckets /\ LastStart(d, id) = Start(d, b)
  BY LastFacts
<1>4. x \in Nat /\ x <= Start(d, b + 1) /\ Start(d, b) \in Nat /\ Start(d, b + 1) \in Nat
  BY <1>3, FilledFacts
<1>5. At(s) \in Nat
  BY <1>1, AtOrder
<1> HIDE DEF s, b, x, z, a
<1> QED
  BY <1>0, <1>1, <1>2, <1>3, <1>4, <1>5 DEF s, b, x

LEMMA WithinFilled ==
  ASSUME NEW d, Stripes(d), NEW s \in Slots(d), s \notin DOMAIN d.bucket, NEW b \in Buckets,
         Start(d, b) <= At(s), At(s) < Filled(d, b)
  PROVE  \E id \in Threads : \E j \in 1 .. Len(Moves(d, id)) : Moves(d, id)[j].to = s
<1> DEFINE S == Start(d, b)
           e == Start(d, b + 1)
           x == Filled(d, b)
           y == At(s)
<1>0. /\ NumThreads \in Nat \ {0} /\ Threads = 0 .. NumThreads - 1 /\ BlockSize \in Nat \ {0}
  BY Constants
<1>1. s \in Nat /\ y \in Nat /\ OnBlock(y) /\ y + BlockSize <= d.n /\ d.n \in Nat
  BY AreaOf, AreaFacts, AtOrder
<1>2. /\ x \in Nat /\ OnBlock(x) /\ S <= x /\ x <= e /\ S \in Nat /\ e \in Nat
      /\ Holes(d, x) - Holes(d, S) = Full(d, e) - Full(d, x)
  BY FilledFacts
<1>3. S <= y /\ y < x /\ y + BlockSize <= x /\ y + BlockSize \in Nat
  BY <1>0, <1>1, <1>2, OnBlocks
<1>4. PICK q \in Threads : d.my_begin[q] <= y /\ (q < NumThreads - 1 => y < d.my_end[q])
  BY <1>1, HolderFacts
<1> DEFINE fe == d.first_empty[q]
           en == d.my_end[q]
<1>5. /\ d.my_begin[q] \in Nat /\ fe \in Nat /\ en \in Nat /\ fe <= en /\ en <= d.n
      /\ q < NumThreads - 1 => en = d.my_begin[q + 1]
      /\ q = NumThreads - 1 => en = d.n
  BY StripeFacts
<1>6. y < en
  BY <1>0, <1>1, <1>4, <1>5
<1>7. fe <= y
  <2> SUFFICES ASSUME y < fe PROVE FALSE
    BY <1>1, <1>5
  <2> QED
    BY <1>1, <1>4 DEF Stripes
<1> HIDE DEF S, e, x, y, fe, en
<1>8. Full(d, e) \in Int /\ Full(d, x) \in Int /\ Holes(d, x) \in Int /\ Holes(d, S) \in Int
      /\ Full(d, y) \in Int /\ Holes(d, y) \in Int /\ Holes(d, S) <= Holes(d, y)
      /\ Full(d, y) <= Full(d, x)
  BY <1>1, <1>2, <1>3, FullType, HolesAscend
<1>9. Holes(d, S) < Holes(d, x)
  <2> DEFINE g == MinOf(x, en)
  <2>1. g \in Nat /\ y < g /\ g <= x /\ g <= en
    BY <1>2, <1>3, <1>5, <1>6 DEF MinOf
  <2> HIDE DEF g
  <2>2. Holes(d, g) - Holes(d, y) = g - y
    BY <1>1, <1>4, <1>7, <2>1, StripeParts DEF fe, en
  <2>3. Holes(d, g) \in Int /\ Holes(d, g) <= Holes(d, x)
    BY <1>2, <2>1, HolesAscend
  <2> QED
    BY <1>1, <1>8, <2>1, <2>2, <2>3
<1>10. Full(d, x) < Full(d, e)
  BY <1>2, <1>8, <1>9
<1>11. q < NumThreads - 1 /\ en < e
  <2> SUFFICES ASSUME q < NumThreads - 1 => e <= en PROVE FALSE
    BY <1>0, <1>2, <1>5
  <2>1. y <= e
    BY <1>1, <1>2, <1>3
  <2>2. Full(d, e) = Full(d, y)
    BY <1>1, <1>2, <1>4, <1>7, <2>1, StripeParts DEF fe, en
  <2> QED
    BY <1>8, <1>10, <2>2
<1>12. S < en
  BY <1>1, <1>2, <1>3, <1>5, <1>6
<1>13. LastBucket(d, q) = b /\ LastStart(d, q) = S /\ BucketEnd(d, q) = e
  BY <1>11, <1>12, CrossingBucket DEF S, e, en
<1>14. FirstEmptyInBucket(d, q) = x
  BY <1>11, <1>13, FirstEmptyIsFilled DEF x, en
<1> DEFINE a == FillBegin(d, q)
           z == FillEnd(d, q)
<1>15. a = MaxOf(fe, S) /\ z = MinOf(x, en)
  BY <1>13, <1>14 DEF FillBegin, FillEnd, fe, en
<1>16. OnBlock(en)
  <2>1. en = d.my_begin[q + 1] /\ q + 1 \in Threads
    BY <1>0, <1>5, <1>11
  <2> QED
    BY <2>1, StripeFacts
<1>17. y + BlockSize <= en
  BY <1>1, <1>6, <1>16, OnBlocks
<1>18. a \in Nat /\ z \in Nat /\ a <= y /\ y + BlockSize <= z /\ OnBlock(a)
  <2>1. a \in Nat /\ a <= y
    BY <1>2, <1>3, <1>5, <1>7, <1>15 DEF MaxOf
  <2>2. z \in Nat /\ y + BlockSize <= z
    BY <1>2, <1>3, <1>5, <1>15, <1>17 DEF MinOf
  <2>3. OnBlock(a)
    BY <1>11, <1>13, NeedFacts DEF en
  <2> QED
    BY <2>1, <2>2, <2>3
<1> HIDE DEF a, z
<1>19. BucketEnd(d, q) > d.my_end[q] /\ a < z
  <2>1. a < z
    BY <1>0, <1>1, <1>18
  <2> QED
    BY <1>2, <1>5, <1>11, <1>13, <2>1 DEF en
<1>20. Made(d, q, Moves(d, q), z - a)
  BY <1>19, MovesFacts DEF a, z
<1>21. /\ At(Len(Moves(d, q))) = z - a
       /\ \A j \in 1 .. Len(Moves(d, q)) : At(Moves(d, q)[j].to) = a + At(j - 1)
  BY <1>20 DEF Made, a
<1>22. Len(Moves(d, q)) \in Nat /\ \A j \in 1 .. Len(Moves(d, q)) : Moves(d, q)[j].to \in Nat
  BY MoveFacts, LenProperties
<1> DEFINE k == (y - a) \div BlockSize
           l == Len(Moves(d, q))
<1>23. k \in Nat /\ At(k) = y - a
  <2>1. OnBlock(y - a)
    BY <1>1, <1>18, OnBlocks
  <2> QED
    BY <2>1, SlotOf
<1> HIDE DEF k, l
<1>24. k < l
  <2>1. At(l) = z - a /\ l \in Nat
    BY <1>21, <1>22 DEF l
  <2>2. At(k) < At(l)
    BY <1>0, <1>1, <1>18, <1>23, <2>1
  <2> QED
    BY <1>23, <2>1, <2>2, AtOrder
<1>25. k + 1 \in 1 .. l /\ (k + 1) - 1 = k
  BY <1>22, <1>23, <1>24 DEF l
<1>26. At(Moves(d, q)[k + 1].to) = y /\ Moves(d, q)[k + 1].to \in Nat
  <2>1. At(Moves(d, q)[k + 1].to) = a + At(k) /\ Moves(d, q)[k + 1].to \in Nat
    BY <1>21, <1>22, <1>25 DEF l
  <2> QED
    BY <1>1, <1>18, <1>23, <2>1
<1>27. Moves(d, q)[k + 1].to = s
  BY <1>1, <1>26, AtOrder DEF y
<1> QED
  BY <1>25, <1>27 DEF l

(* The blocks behind Filled: the thread that takes one is the last one to  *)
(* whose left the bucket has no more gaps than blocks after this one.      *)
LEMMA BeyondTaken ==
  ASSUME NEW d, Stripes(d), NEW s \in DOMAIN d.bucket, NEW b \in Buckets,
         At(s) < Start(d, b + 1), Filled(d, b) <= At(s)
  PROVE  \E id \in Threads : \E j \in 1 .. Len(Moves(d, id)) : Moves(d, id)[j].from = s
<1> DEFINE S == Start(d, b)
           e == Start(d, b + 1)
           x == Filled(d, b)
           y == At(s)
           r == Full(d, e) - Full(d, y + BlockSize)
           m(p) == MaxOf(d.my_begin[p], S)
           g(p) == Holes(d, m(p)) - Holes(d, S)
<1>0. /\ NumThreads \in Nat \ {0} /\ Threads = 0 .. NumThreads - 1 /\ BlockSize \in Nat \ {0}
  BY Constants
<1>1. /\ y \in Nat /\ y + BlockSize \in Nat /\ OnBlock(y) /\ OnBlock(y + BlockSize)
      /\ Full(d, y) \in Int /\ Full(d, y + BlockSize) = Full(d, y) + BlockSize
  BY FullSlot
<1>2. PICK p0 \in Threads : d.my_begin[p0] <= y /\ y + BlockSize <= d.first_empty[p0]
  BY FullSlot
<1>3. /\ x \in Nat /\ OnBlock(x) /\ S <= x /\ x <= e /\ S \in Nat /\ e \in Nat
      /\ OnBlock(S) /\ OnBlock(e)
      /\ Holes(d, x) - Holes(d, S) = Full(d, e) - Full(d, x)
  BY FilledFacts
<1>4. x <= y /\ y < e /\ S <= y /\ y + BlockSize <= e
  BY <1>1, <1>3, OnBlocks
<1>5. \A p \in Threads :
        /\ d.my_begin[p] \in Nat /\ d.my_end[p] \in Nat /\ d.first_empty[p] \in Nat
        /\ OnBlock(d.my_begin[p]) /\ d.my_begin[p] <= d.first_empty[p] /\ d.first_empty[p] <= d.my_end[p]
        /\ p < NumThreads - 1 => d.my_end[p] = d.my_begin[p + 1]
        /\ d.my_begin[0] = 0 /\ d.my_begin[p] < d.my_end[p]
  BY StripeFacts
<1> HIDE DEF S, e, x, y
<1>6. /\ Full(d, x) \in Int /\ Full(d, e) \in Int /\ Holes(d, x) \in Int /\ Holes(d, S) \in Int
      /\ Full(d, x) <= Full(d, y) /\ Full(d, y + BlockSize) <= Full(d, e)
  <2>1. Full(d, x) <= Full(d, y)
    BY <1>1, <1>3, <1>4, FullAscends
  <2>2. Full(d, y + BlockSize) <= Full(d, e)
    BY <1>1, <1>3, <1>4, FullAscends
  <2>3. Full(d, x) \in Int /\ Full(d, e) \in Int /\ Full(d, S) \in Int
    BY <1>3, FullType
  <2>4. Holes(d, x) \in Int /\ Holes(d, S) \in Int
    BY <1>3, HolesAscend
  <2> QED
    BY <2>1, <2>2, <2>3, <2>4
<1>7. r \in Nat /\ OnBlock(r) /\ r + BlockSize <= Holes(d, x) - Holes(d, S)
  <2>1. r \in Nat /\ r + BlockSize <= Holes(d, x) - Holes(d, S)
    <3> DEFINE E  == Full(d, e)
               X  == Full(d, x)
               Y  == Full(d, y)
               Y2 == Full(d, y + BlockSize)
               h  == Holes(d, x) - Holes(d, S)
    <3>1. /\ E \in Int /\ X \in Int /\ Y \in Int /\ BlockSize \in Nat
          /\ Y2 = Y + BlockSize /\ X <= Y /\ Y2 <= E
      BY <1>0, <1>1, <1>6
    <3>2. h = E - X
      BY <1>3
    <3>3. r = E - Y2
      BY DEF r
    <3> HIDE DEF E, X, Y, Y2, h, r
    <3>4. r \in Nat /\ r + BlockSize <= h
      BY ONLY <3>1, <3>2, <3>3
    <3> QED
      BY <3>4 DEF h
  <2>2. OnBlock(Full(d, e)) /\ OnBlock(Full(d, y + BlockSize))
    BY <1>1, <1>3, FullOnBlock
  <2>3. OnBlock(Full(d, e) - Full(d, y + BlockSize))
    BY <1>6, <2>2, OnBlocks
  <2> QED
    BY <2>1, <2>3
<1>8. ASSUME NEW p \in Threads
      PROVE  /\ m(p) \in Nat /\ OnBlock(m(p)) /\ S <= m(p) /\ d.my_begin[p] <= m(p)
             /\ m(p) = S \/ m(p) = d.my_begin[p]
             /\ Holes(d, m(p)) \in Int /\ g(p) \in Nat /\ OnBlock(g(p))
  <2>1. /\ m(p) \in Nat /\ S <= m(p) /\ d.my_begin[p] <= m(p)
        /\ m(p) = S \/ m(p) = d.my_begin[p]
    BY <1>3, <1>5 DEF MaxOf
  <2>2. OnBlock(m(p))
    BY <1>3, <1>5, <2>1
  <2> HIDE DEF m
  <2>3. Holes(d, m(p)) \in Int /\ Holes(d, S) <= Holes(d, m(p)) /\ Full(d, m(p)) \in Int /\ Full(d, S) \in Int
        /\ Full(d, S) <= Full(d, m(p)) /\ Full(d, m(p)) - Full(d, S) <= m(p) - S
    BY <1>3, <2>1, HolesAscend
  <2>4. g(p) \in Nat
    BY <1>6, <2>3
  <2>5. OnBlock(m(p) - S) /\ OnBlock(Full(d, m(p)) - Full(d, S))
    <3>1. OnBlock(Full(d, m(p))) /\ OnBlock(Full(d, S))
      BY <1>3, <2>2, FullOnBlock
    <3> QED
      BY <1>3, <2>1, <2>2, <2>3, <3>1, OnBlocks
  <2>6. OnBlock((m(p) - S) - (Full(d, m(p)) - Full(d, S)))
    BY <2>3, <2>5, OnBlocks
  <2>7. g(p) = (m(p) - S) - (Full(d, m(p)) - Full(d, S))
    BY <1>3, <2>1, <2>3 DEF Holes
  <2> QED
    BY <2>1, <2>2, <2>3, <2>4, <2>6, <2>7
<1>9. m(0) = S /\ g(0) = 0 /\ 0 \in Threads
  <2>1. 0 \in Threads
    BY <1>0
  <2>2. d.my_begin[0] = 0
    BY <1>5, <2>1
  <2>3. m(0) = S
    BY <1>3, <2>2 DEF MaxOf
  <2> HIDE DEF m
  <2>4. g(0) = 0
    BY <1>6, <2>3
  <2> QED
    BY <2>1, <2>3, <2>4
<1> HIDE DEF m, g, r
(* The last thread that at most r elements are reserved in front of.       *)
<1>10. PICK q \in Threads : g(q) <= r /\ (q < NumThreads - 1 => r < g(q + 1))
  <2> DEFINE T == {p \in Threads : p < NumThreads - 1 => r < g(p + 1)}
  <2>1. T \subseteq Nat /\ NumThreads - 1 \in T
    BY <1>0
  <2>2. \A p : p \in T <=> p \in Threads /\ (p < NumThreads - 1 => r < g(p + 1))
    OBVIOUS
  <2> HIDE DEF T
  <2>3. PICK q \in T : \A p \in T : q <= p
    BY <2>1, Least
  <2>4. q \in Threads /\ (q < NumThreads - 1 => r < g(q + 1))
    BY <2>2
  <2>5. g(q) <= r
    <3>1. CASE q = 0
      BY <1>7, <1>9, <3>1
    <3>2. CASE q # 0
      <4>1. q - 1 \in Threads /\ q - 1 < NumThreads - 1 /\ (q - 1) + 1 = q /\ q - 1 \notin T
        BY <1>0, <2>1, <2>3, <2>4, <3>2
      <4>2. ~(r < g(q))
        BY <2>2, <4>1
      <4> QED
        BY <1>7, <1>8, <2>4, <4>2
    <3> QED
      BY <3>1, <3>2
  <2> QED
    BY <2>4, <2>5
<1> DEFINE mb == d.my_begin[q]
           fe == d.first_empty[q]
           en == d.my_end[q]
<1>11. /\ mb \in Nat /\ fe \in Nat /\ en \in Nat /\ mb <= fe /\ fe <= en
       /\ q < NumThreads - 1 => en = d.my_begin[q + 1]
       /\ m(q) \in Nat /\ S <= m(q) /\ mb <= m(q) /\ (m(q) = S \/ m(q) = mb)
       /\ g(q) = Holes(d, m(q)) - Holes(d, S) /\ Holes(d, m(q)) \in Int /\ g(q) \in Nat /\ OnBlock(g(q))
  BY <1>5, <1>8, <1>10 DEF g
<1> HIDE DEF mb, fe, en
(* A position up to which the thread has no gap to fill.                   *)
<1>12. ASSUME NEW t \in Nat, t <= MaxOf(fe, S)
       PROVE  Holes(d, t) \in Int /\ Holes(d, t) - Holes(d, S) <= r
  <2>0. Holes(d, t) \in Int
    BY FullType DEF Holes
  <2>1. CASE t <= m(q)
    <3>1. Holes(d, t) <= Holes(d, m(q))
      BY <1>11, <2>1, HolesAscend
    <3> QED
      BY <1>6, <1>7, <1>10, <1>11, <2>0, <3>1
  <2>2. CASE m(q) < t
    <3>1. t <= fe /\ mb <= m(q) /\ m(q) <= t /\ t <= en
      BY <1>3, <1>11, <1>12, <2>2 DEF MaxOf
    <3>2. Holes(d, t) = Holes(d, m(q))
      BY <1>11, <3>1, StripeParts DEF mb, fe, en
    <3> QED
      BY <1>6, <1>7, <1>10, <1>11, <3>2
  <2> QED
    BY <1>11, <2>1, <2>2
<1>13. en <= y
  <2> SUFFICES ASSUME y < en PROVE FALSE
    BY <1>1, <1>11
  <2>1. x <= MaxOf(fe, S)
    <3>1. CASE p0 = q
      <4>1. y < fe
        <5>1. y + BlockSize <= fe
          BY <1>2, <3>1 DEF fe
        <5>2. y \in Nat /\ fe \in Nat /\ BlockSize \in Nat \ {0}
          BY <1>0, <1>1, <1>11
        <5> QED
          BY ONLY <5>1, <5>2
      <4> QED
        BY <1>1, <1>3, <1>4, <1>11, <4>1 DEF MaxOf
    <3>2. CASE p0 < q
      <4>1. d.my_end[p0] <= mb
        BY <3>2, StripesAscend DEF mb
      <4>2. y < mb
        <5> DEFINE f == d.first_empty[p0]
                   z == d.my_end[p0]
        <5>1. /\ y \in Nat /\ mb \in Nat /\ f \in Nat /\ z \in Nat /\ BlockSize \in Nat \ {0}
              /\ y + BlockSize <= f /\ f <= z /\ z <= mb
          BY <1>0, <1>1, <1>2, <1>5, <1>11, <4>1
        <5> HIDE DEF f, z
        <5> QED
          BY ONLY <5>1
      <4> QED
        BY <1>1, <1>3, <1>4, <1>11, <4>2 DEF MaxOf
    <3>3. CASE q < p0
      <4>1. en <= d.my_begin[p0]
        BY <3>3, StripesAscend DEF en
      <4> QED
        BY <1>1, <1>2, <1>5, <1>11, <4>1
    <3> QED
      BY <1>0, <3>1, <3>2, <3>3
  <2>2. Holes(d, x) - Holes(d, S) <= r
    BY <1>3, <1>12, <2>1
  <2> QED
    BY <1>0, <1>6, <1>7, <2>2
<1>14. q < NumThreads - 1
  <2> SUFFICES ASSUME q = NumThreads - 1 PROVE FALSE
    BY <1>0
  <2>1. p0 = q \/ p0 < q
    BY <1>0
  <2>2. d.my_end[p0] <= en
    <3>1. CASE p0 = q
      BY <1>11, <3>1 DEF en
    <3>2. CASE p0 < q
      <4>1. d.my_end[p0] <= mb
        BY <3>2, StripesAscend DEF mb
      <4> QED
        BY <1>5, <1>11, <4>1
    <3> QED
      BY <2>1, <3>1, <3>2
  <2> DEFINE f == d.first_empty[p0]
             z == d.my_end[p0]
  <2>3. /\ y \in Nat /\ en \in Nat /\ f \in Nat /\ z \in Nat /\ BlockSize \in Nat \ {0}
        /\ y + BlockSize <= f /\ f <= z /\ z <= en /\ en <= y
    BY <1>0, <1>1, <1>2, <1>5, <1>11, <1>13, <2>2
  <2> HIDE DEF f, z
  <2> QED
    BY ONLY <2>3
<1>15. q + 1 \in Threads /\ en = d.my_begin[q + 1] /\ OnBlock(en)
  <2>1. q + 1 \in Threads
    BY <1>0, <1>14
  <2> QED
    BY <1>5, <1>11, <1>14, <2>1
<1>16. /\ r < g(q + 1) /\ g(q + 1) \in Nat /\ OnBlock(g(q + 1))
       /\ g(q + 1) = Holes(d, m(q + 1)) - Holes(d, S)
       /\ m(q + 1) = S \/ m(q + 1) = en
  BY <1>8, <1>10, <1>14, <1>15 DEF g
<1>17. r + BlockSize <= g(q + 1)
  BY <1>7, <1>16, OnBlocks
<1>18. m(q + 1) = en /\ S < en
  <2>1. m(q + 1) # S
    <3> SUFFICES ASSUME m(q + 1) = S PROVE FALSE
      OBVIOUS
    <3>1. g(q + 1) = 0
      BY <1>6, <1>16
    <3> QED
      BY <1>7, <1>16, <3>1
  <2>2. S <= m(q + 1)
    BY <1>8, <1>15
  <2> QED
    BY <1>3, <1>11, <1>16, <2>1, <2>2
<1>19. LastBucket(d, q) = b /\ LastStart(d, q) = S /\ BucketEnd(d, q) = e /\ en < e
  <2>1. en < e
    BY <1>1, <1>3, <1>4, <1>11, <1>13
  <2> QED
    BY <1>14, <1>18, <2>1, CrossingBucket DEF S, e, en
<1>20. FirstEmptyInBucket(d, q) = x
  BY <1>19, FirstEmptyIsFilled DEF x, en
<1> DEFINE a == FillBegin(d, q)
           z == FillEnd(d, q)
<1>21. a = MaxOf(fe, S) /\ z = MinOf(x, en)
  BY <1>19, <1>20 DEF FillBegin, FillEnd, fe, en
<1>22. a \in Nat /\ z \in Nat
  BY <1>3, <1>11, <1>21 DEF MaxOf, MinOf
<1>23. Holes(d, z) \in Int /\ r + BlockSize <= Holes(d, z) - Holes(d, S)
  <2>1. CASE z = x
    BY <1>6, <1>7, <2>1
  <2>2. CASE z = en
    BY <1>11, <1>15, <1>16, <1>17, <1>18, <1>8, <2>2
  <2> QED
    BY <1>3, <1>11, <1>21, <2>1, <2>2 DEF MinOf
<1> HIDE DEF a, z
<1>24. a < z
  <2> SUFFICES ASSUME z <= a PROVE FALSE
    BY <1>22
  <2>1. Holes(d, z) - Holes(d, S) <= r
    BY <1>12, <1>21, <1>22
  <2> QED
    BY <1>0, <1>6, <1>7, <1>23, <2>1
<1>25. BucketEnd(d, q) > d.my_end[q]
  BY <1>3, <1>11, <1>19 DEF en
<1>26. /\ Reserved(d, q) \in Nat
       /\ Reserved(d, q) + (z - a) = Holes(d, z) - Holes(d, S)
  BY <1>19, <1>24, <1>25, NeedFacts DEF a, z
<1>27. Reserved(d, q) = g(q)
  <2>1. Reserved(d, q) = Holes(d, MaxOf(d.my_begin[q], S)) - Holes(d, S)
    BY <1>19, ReservedIsHoles
  <2> QED
    BY <1>11, <2>1 DEF m
<1>28. Taken(d, q, s, z - a)
  <2>1. s \in DOMAIN d.bucket /\ At(s) + BlockSize <= BucketEnd(d, q)
    BY <1>4, <1>19 DEF y
  <2>2. Reserved(d, q) <= Full(d, e) - Full(d, y + BlockSize)
    BY <1>10, <1>27 DEF r
  <2>3. Full(d, e) - Full(d, y) <= Reserved(d, q) + (z - a)
    <3>1. r + BlockSize <= Holes(d, z) - Holes(d, S)
      BY <1>23
    <3> DEFINE E  == Full(d, e)
               Y  == Full(d, y)
               Y2 == Full(d, y + BlockSize)
               h  == Holes(d, z) - Holes(d, S)
               t  == Reserved(d, q) + (z - a)
    <3>2. E \in Int /\ Y \in Int /\ BlockSize \in Nat /\ Y2 = Y + BlockSize /\ t = h
      BY <1>0, <1>1, <1>6, <1>26
    <3>3. r = E - Y2 /\ r + BlockSize <= h
      BY <3>1 DEF r
    <3> HIDE DEF E, Y, Y2, h, t, r
    <3>4. r + BlockSize = E - Y
      BY ONLY <3>2, <3>3
    <3>5. E - Y <= t
      BY ONLY <3>2, <3>3, <3>4
    <3> QED
      BY <3>5 DEF E, Y, t
  <2> QED
    BY <1>19, <2>1, <2>2, <2>3 DEF Taken, y
<1>29. Made(d, q, Moves(d, q), z - a)
  BY <1>24, <1>25, MovesFacts DEF a, z
<1>30. \E j \in 1 .. Len(Moves(d, q)) : Moves(d, q)[j].from = s
  BY <1>28, <1>29 DEF Made
<1> QED
  BY <1>30

------------------------------------------------------------------------------
(* The slots after all moves.                                              *)
AfterMoves(d, v) ==
  /\ v \in [Slots(d) -> DOMAIN d.bucket \cup {NoBlock}]
  /\ \A id \in Threads : \A j \in 1 .. Len(Moves(d, id)) :
       v[Moves(d, id)[j].to] = Moves(d, id)[j].from /\ v[Moves(d, id)[j].from] = NoBlock
  /\ \A s \in Slots(d) :
       (\A id \in Threads : \A j \in 1 .. Len(Moves(d, id)) :
          Moves(d, id)[j].to # s /\ Moves(d, id)[j].from # s)
         => v[s] = IF s \in DOMAIN d.bucket THEN s ELSE NoBlock

LEMMA OneContent ==
  ASSUME NEW d, NEW v, NEW w, AfterMoves(d, v), AfterMoves(d, w)
  PROVE  v = w
<1>1. ASSUME NEW s \in Slots(d) PROVE v[s] = w[s]
  <2>1. CASE \E id \in Threads : \E j \in 1 .. Len(Moves(d, id)) :
               Moves(d, id)[j].to = s \/ Moves(d, id)[j].from = s
    <3>1. PICK id \in Threads : \E j \in 1 .. Len(Moves(d, id)) :
                 Moves(d, id)[j].to = s \/ Moves(d, id)[j].from = s
      BY <2>1
    <3>2. PICK j \in 1 .. Len(Moves(d, id)) : Moves(d, id)[j].to = s \/ Moves(d, id)[j].from = s
      BY <3>1
    <3>3. /\ v[Moves(d, id)[j].to] = Moves(d, id)[j].from /\ v[Moves(d, id)[j].from] = NoBlock
          /\ w[Moves(d, id)[j].to] = Moves(d, id)[j].from /\ w[Moves(d, id)[j].from] = NoBlock
      BY DEF AfterMoves
    <3> QED
      BY <3>2, <3>3
  <2>2. CASE \A id \in Threads : \A j \in 1 .. Len(Moves(d, id)) :
               Moves(d, id)[j].to # s /\ Moves(d, id)[j].from # s
    BY <2>2 DEF AfterMoves
  <2> QED
    BY <2>1, <2>2
<1>2. v = [s \in Slots(d) |-> v[s]] /\ w = [s \in Slots(d) |-> w[s]]
  BY DEF AfterMoves
<1> QED
  BY <1>1, <1>2

LEMMA PlannedContent ==
  ASSUME NEW d, Stripes(d)
  PROVE  AfterMoves(d, ContentAfterMoves(d))
<1> DEFINE all   == UNION {Range(Moves(d, id)) : id \in Threads}
           start == [s \in Slots(d) |-> IF s \in DOMAIN d.bucket THEN s ELSE NoBlock]
           v     == ContentAfterMoves(d)
           chosen(s) == CHOOSE m \in all : m.to = s
<1>1. v = [s \in Slots(d) |->
             IF \E m \in all : m.to = s THEN start[chosen(s).from]
             ELSE IF \E m \in all : m.from = s THEN NoBlock
             ELSE start[s]]
  BY DEF ContentAfterMoves
<1>2. \A m : m \in all <=> \E id \in Threads : \E j \in 1 .. Len(Moves(d, id)) : m = Moves(d, id)[j]
  <2>1. \A id \in Threads : DOMAIN Moves(d, id) = 1 .. Len(Moves(d, id))
    BY MoveFacts, LenProperties
  <2>2. \A id \in Threads : Range(Moves(d, id)) = {Moves(d, id)[j] : j \in 1 .. Len(Moves(d, id))}
    BY <2>1 DEF Range
  <2> QED
    BY <2>2
<1>3. ASSUME NEW m \in all, NEW k \in all
      PROVE  /\ m.from \in DOMAIN d.bucket /\ m.to \notin DOMAIN d.bucket
             /\ m.to \in Slots(d) /\ m.from \in Slots(d)
             /\ m.to = k.to => m = k
  <2>1. PICK p \in Threads : \E j \in 1 .. Len(Moves(d, p)) : m = Moves(d, p)[j]
    BY <1>2
  <2>2. PICK i \in 1 .. Len(Moves(d, p)) : m = Moves(d, p)[i]
    BY <2>1
  <2>3. PICK q \in Threads : \E j \in 1 .. Len(Moves(d, q)) : k = Moves(d, q)[j]
    BY <1>2
  <2>4. PICK j \in 1 .. Len(Moves(d, q)) : k = Moves(d, q)[j]
    BY <2>3
  <2>5. << p, i >> # << q, j >> => m.to # k.to
    BY <2>2, <2>4, MovesApart
  <2>6. /\ m.from \in DOMAIN d.bucket /\ m.to \notin DOMAIN d.bucket
        /\ m.to \in Slots(d) /\ m.from \in Slots(d)
    BY <2>2, MoveSlots
  <2> QED
    BY <2>2, <2>4, <2>5, <2>6
<1> HIDE DEF all, v
<1>4. ASSUME NEW m \in all PROVE v[m.to] = m.from /\ v[m.from] = NoBlock
  <2>1. chosen(m.to) \in all /\ chosen(m.to).to = m.to
    OBVIOUS
  <2>2. chosen(m.to) = m
    BY <1>3, <2>1
  <2> HIDE DEF chosen
  <2>3. m.from \in DOMAIN d.bucket /\ m.from \in Slots(d) /\ m.to \in Slots(d)
    BY <1>3
  <2>4. start[m.from] = m.from
    BY <2>3
  <2>5. ~\E k \in all : k.to = m.from
    BY <1>3
  <2> HIDE DEF start
  <2>6. v[m.to] = start[chosen(m.to).from]
    BY <1>1, <2>3
  <2>7. v[m.from] = NoBlock
    BY <1>1, <2>3, <2>5
  <2> QED
    BY <2>2, <2>4, <2>6, <2>7
<1>5. ASSUME NEW s \in Slots(d), \A m \in all : m.to # s /\ m.from # s
      PROVE  v[s] = IF s \in DOMAIN d.bucket THEN s ELSE NoBlock
  BY <1>1, <1>5
<1>6. v \in [Slots(d) -> DOMAIN d.bucket \cup {NoBlock}]
  <2>1. ASSUME NEW s \in Slots(d) PROVE v[s] \in DOMAIN d.bucket \cup {NoBlock}
    <3>1. CASE \E m \in all : m.to = s
      BY <1>3, <1>4, <3>1
    <3>2. CASE \E m \in all : m.from = s
      BY <1>4, <3>2
    <3>3. CASE \A m \in all : m.to # s /\ m.from # s
      BY <1>5, <3>3
    <3> QED
      BY <3>1, <3>2, <3>3
  <2>2. v = [s \in Slots(d) |-> v[s]]
    <3> HIDE DEF start, chosen
    <3> QED
      BY <1>1
  <2> QED
    BY <2>1, <2>2
<1>7. \A id \in Threads : \A j \in 1 .. Len(Moves(d, id)) :
        v[Moves(d, id)[j].to] = Moves(d, id)[j].from /\ v[Moves(d, id)[j].from] = NoBlock
  BY <1>2, <1>4
<1>8. \A s \in Slots(d) :
        (\A id \in Threads : \A j \in 1 .. Len(Moves(d, id)) :
           Moves(d, id)[j].to # s /\ Moves(d, id)[j].from # s)
          => v[s] = IF s \in DOMAIN d.bucket THEN s ELSE NoBlock
  BY <1>2, <1>5
<1>9. AfterMoves(d, v)
  BY <1>6, <1>7, <1>8 DEF AfterMoves
<1> QED
  BY <1>9 DEF v

(* What a slot holds: a block that was moved there, or its own.            *)
LEMMA ContentFrom ==
  ASSUME NEW d, Stripes(d), NEW v, AfterMoves(d, v), NEW s \in Slots(d), v[s] # NoBlock
  PROVE  \/ /\ v[s] = s /\ s \in DOMAIN d.bucket
            /\ \A id \in Threads : \A j \in 1 .. Len(Moves(d, id)) : Moves(d, id)[j].from # s
         \/ \E id \in Threads : \E j \in 1 .. Len(Moves(d, id)) :
              Moves(d, id)[j].to = s /\ Moves(d, id)[j].from = v[s]
<1>1. CASE \E id \in Threads : \E j \in 1 .. Len(Moves(d, id)) : Moves(d, id)[j].to = s
  BY <1>1 DEF AfterMoves
<1>2. CASE \A id \in Threads : \A j \in 1 .. Len(Moves(d, id)) : Moves(d, id)[j].to # s
  <2>1. \A id \in Threads : \A j \in 1 .. Len(Moves(d, id)) : Moves(d, id)[j].from # s
    BY DEF AfterMoves
  <2>2. v[s] = IF s \in DOMAIN d.bucket THEN s ELSE NoBlock
    BY <1>2, <2>1 DEF AfterMoves
  <2> QED
    BY <2>1, <2>2
<1> QED
  BY <1>1, <1>2

(* No block is lost or doubled.                                            *)
LEMMA EveryBlockOnce ==
  ASSUME NEW d, Stripes(d), NEW v, AfterMoves(d, v)
  PROVE  /\ \A x \in DOMAIN d.bucket : \E s \in Slots(d) : v[s] = x
         /\ \A r, s \in Slots(d) : v[r] = v[s] /\ v[r] # NoBlock => r = s
<1>1. ASSUME NEW x \in DOMAIN d.bucket PROVE \E s \in Slots(d) : v[s] = x
  <2>1. CASE \E id \in Threads : \E j \in 1 .. Len(Moves(d, id)) : Moves(d, id)[j].from = x
    <3>1. PICK id \in Threads : \E j \in 1 .. Len(Moves(d, id)) : Moves(d, id)[j].from = x
      BY <2>1
    <3>2. PICK j \in 1 .. Len(Moves(d, id)) : Moves(d, id)[j].from = x
      BY <3>1
    <3>3. Moves(d, id)[j].to \in Slots(d) /\ v[Moves(d, id)[j].to] = x
      BY <3>2, MoveSlots DEF AfterMoves
    <3> QED
      BY <3>3
  <2>2. CASE \A id \in Threads : \A j \in 1 .. Len(Moves(d, id)) : Moves(d, id)[j].from # x
    <3>1. \A id \in Threads : \A j \in 1 .. Len(Moves(d, id)) : Moves(d, id)[j].to # x
      BY MoveSlots
    <3>2. x \in Slots(d)
      <4>1. DOMAIN d.bucket \subseteq Slots(d)
        BY BlocksInSlots
      <4> QED
        BY <4>1
    <3> QED
      BY <2>2, <3>1, <3>2 DEF AfterMoves
  <2> QED
    BY <2>1, <2>2
<1>2. ASSUME NEW r \in Slots(d), NEW s \in Slots(d), v[r] = v[s], v[r] # NoBlock PROVE r = s
  <2> DEFINE Own(t) == v[t] = t /\ \A id \in Threads : \A j \in 1 .. Len(Moves(d, id)) : Moves(d, id)[j].from # t
             Into(t, id, j) == Moves(d, id)[j].to = t /\ Moves(d, id)[j].from = v[t]
  <2>1. \A t \in {r, s} : Own(t) \/ \E id \in Threads : \E j \in 1 .. Len(Moves(d, id)) : Into(t, id, j)
    BY <1>2, ContentFrom
  <2>2. CASE Own(r) /\ Own(s)
    BY <1>2, <2>2
  <2>3. CASE Own(r) /\ ~Own(s)
    BY <1>2, <2>1, <2>3
  <2>4. CASE ~Own(r) /\ Own(s)
    BY <1>2, <2>1, <2>4
  <2>5. CASE ~Own(r) /\ ~Own(s)
    <3>1. PICK p \in Threads : \E i \in 1 .. Len(Moves(d, p)) : Into(r, p, i)
      BY <2>1, <2>5
    <3>2. PICK i \in 1 .. Len(Moves(d, p)) : Into(r, p, i)
      BY <3>1
    <3>3. PICK q \in Threads : \E j \in 1 .. Len(Moves(d, q)) : Into(s, q, j)
      BY <2>1, <2>5
    <3>4. PICK j \in 1 .. Len(Moves(d, q)) : Into(s, q, j)
      BY <3>3
    <3>5. << p, i >> = << q, j >>
      BY <1>2, <3>2, <3>4, MovesApart
    <3> QED
      BY <3>2, <3>4, <3>5
  <2> QED
    BY <2>2, <2>3, <2>4, <2>5
<1> QED
  BY <1>1, <1>2

(* The full slots of an area come first.                                   *)
LEMMA FullThenEmpty ==
  ASSUME NEW d, Stripes(d), NEW v, AfterMoves(d, v), NEW s \in Slots(d), NEW b \in Buckets,
         Start(d, b) <= At(s), At(s) < Start(d, b + 1)
  PROVE  v[s] # NoBlock <=> At(s) < Filled(d, b)
<1>1. At(s) \in Nat /\ s \in Nat /\ NoBlock \notin Nat
  BY AreaOf DEF NoBlock
<1>2. Filled(d, b) \in Nat
  BY FilledFacts
<1>3. ASSUME NEW id \in Threads, NEW j \in 1 .. Len(Moves(d, id))
      PROVE  /\ Moves(d, id)[j].from = s => Filled(d, b) <= At(s) /\ v[s] = NoBlock
             /\ Moves(d, id)[j].to = s => At(s) < Filled(d, b) /\ v[s] # NoBlock
  <2>1. LastBucket(d, id) \in Buckets
    BY LastFacts
  <2>2. Moves(d, id)[j].from = s => LastBucket(d, id) = b /\ Filled(d, b) <= At(s)
    BY <1>1, <2>1, TakenBeyond, SameArea
  <2>3. Moves(d, id)[j].to = s => LastBucket(d, id) = b /\ At(s) < Filled(d, b)
    BY <1>1, <2>1, FillWithin, SameArea
  <2>4. /\ v[Moves(d, id)[j].to] = Moves(d, id)[j].from /\ v[Moves(d, id)[j].from] = NoBlock
        /\ Moves(d, id)[j].from \in Nat
    BY MoveSlots, FullSlot DEF AfterMoves
  <2> QED
    BY <1>1, <2>2, <2>3, <2>4
<1>4. CASE \E id \in Threads : \E j \in 1 .. Len(Moves(d, id)) : Moves(d, id)[j].to = s \/ Moves(d, id)[j].from = s
  BY <1>1, <1>2, <1>3, <1>4
<1>5. CASE \A id \in Threads : \A j \in 1 .. Len(Moves(d, id)) : Moves(d, id)[j].to # s /\ Moves(d, id)[j].from # s
  <2>1. v[s] = IF s \in DOMAIN d.bucket THEN s ELSE NoBlock
    BY <1>5 DEF AfterMoves
  <2>2. CASE s \in DOMAIN d.bucket
    <3>1. ~(Filled(d, b) <= At(s))
      BY <1>5, <2>2, BeyondTaken
    <3> QED
      BY <1>1, <1>2, <2>1, <2>2, <3>1
  <2>3. CASE s \notin DOMAIN d.bucket
    <3>1. ~(At(s) < Filled(d, b))
      BY <1>5, <2>3, WithinFilled
    <3> QED
      BY <2>1, <2>3, <3>1
  <2> QED
    BY <2>2, <2>3
<1> QED
  BY <1>4, <1>5

------------------------------------------------------------------------------
(* The blocks of a bucket are fewer than its elements, and have room.      *)
LEMMA Renamed ==
  ASSUME NEW S, NEW T, IsFiniteSet(S), NEW f \in [S -> T],
         \A x, y \in S : f[x] = f[y] => x = y, \A t \in T : \E x \in S : f[x] = t
  PROVE  IsFiniteSet(T) /\ Cardinality(T) = Cardinality(S)
<1>1. f \in Bijection(S, T)
  BY DEF Bijection, Injection, Surjection, IsInjective
<1>2. ExistsBijection(S, T)
  BY <1>1 DEF ExistsBijection
<1> QED
  BY <1>2, FS_Bijection

(* The blocks of a stripe are those that the thread has flushed, in order. *)
FlushedTo(input, id, k) == MyBegin(SizeOf(input), id) \div BlockSize + k - 1

LEMMA FlushedBlocks ==
  ASSUME NEW input, Input(input), NEW d, d = Classified(input), NEW id \in Threads
  PROVE  LET f == ClassifyLocally(input, id).flushed IN
         /\ f \in Seq(Buckets) /\ Len(f) \in Nat
         /\ \A k \in 1 .. Len(f) :
              /\ FlushedTo(input, id, k) \in DOMAIN d.bucket
              /\ d.my_begin[id] <= At(FlushedTo(input, id, k))
              /\ At(FlushedTo(input, id, k)) < d.first_empty[id]
              /\ d.bucket[FlushedTo(input, id, k)] = f[k]
         /\ \A s \in DOMAIN d.bucket :
              d.my_begin[id] <= At(s) /\ At(s) < d.first_empty[id] =>
                \E k \in 1 .. Len(f) : s = FlushedTo(input, id, k)
<1> DEFINE f == ClassifyLocally(input, id).flushed
           n == SizeOf(input)
           lo == MyBegin(n, id)
           t == lo \div BlockSize
           holds(p, s) == d.my_begin[p] <= At(s) /\ At(s) < d.first_empty[p]
           to(k) == FlushedTo(input, id, k)
<1>0. /\ BlockSize \in Nat \ {0} /\ Stripes(d) /\ NumThreads \in Nat \ {0} /\ Threads = 0 .. NumThreads - 1
  BY Constants, ClassifiedStripes
<1>1. f \in Seq(Buckets) /\ Len(f) \in Nat /\ lo \in Nat /\ OnBlock(lo) /\ At(Len(f)) \in Nat
  <2>1. ClassifyLocally(input, id) \in ClassifyState
    BY StripeClassified
  <2>2. f \in Seq(Buckets)
    BY <2>1 DEF ClassifyState
  <2> QED
    BY <2>2, StripeClassified
<1>2. d.my_begin[id] = lo /\ d.first_empty[id] = lo + At(Len(f))
  BY ClassifiedFields
<1>3. t \in Nat /\ At(t) = lo
  BY <1>1, SlotOf
<1>4. \A s \in DOMAIN d.bucket :
        d.bucket[s] = ClassifyLocally(input, CHOOSE p \in Threads : holds(p, s)).flushed
                        [s - MyBegin(n, CHOOSE p \in Threads : holds(p, s)) \div BlockSize + 1]
  BY ClassifiedFields
<1>5. \A k : to(k) = t + k - 1
  BY DEF FlushedTo
<1>6. ASSUME NEW s \in Nat, holds(id, s)
      PROVE  /\ s \in DOMAIN d.bucket
             /\ d.bucket[s] = f[s - t + 1]
  <2>1. s \in DOMAIN d.bucket
    BY <1>0, <1>6 DEF Stripes
  <2>2. ASSUME NEW p \in Threads, holds(p, s) PROVE p = id
    <3>1. /\ d.my_begin[p] \in Nat /\ d.first_empty[p] \in Nat /\ d.my_end[p] \in Nat
          /\ d.first_empty[p] <= d.my_end[p]
          /\ d.my_begin[id] \in Nat /\ d.first_empty[id] \in Nat /\ d.my_end[id] \in Nat
          /\ d.first_empty[id] <= d.my_end[id] /\ At(s) \in Nat
      BY <1>0, StripeFacts, AtOrder
    <3>2. p < id => d.my_end[p] <= d.my_begin[id]
      BY <1>0, StripesAscend
    <3>3. id < p => d.my_end[id] <= d.my_begin[p]
      BY <1>0, StripesAscend
    <3>4. ~(p < id)
      BY <1>6, <2>2, <3>1, <3>2
    <3>5. ~(id < p)
      BY <1>6, <2>2, <3>1, <3>3
    <3> QED
      BY <1>0, <3>4, <3>5
  <2>3. (CHOOSE p \in Threads : holds(p, s)) = id
    BY <1>6, <2>2
  <2> QED
    BY <1>4, <2>1, <2>3
<1> HIDE DEF f, lo, t, to
<1>7. ASSUME NEW k \in 1 .. Len(f)
      PROVE  /\ to(k) \in DOMAIN d.bucket /\ d.my_begin[id] <= At(to(k)) /\ At(to(k)) < d.first_empty[id]
             /\ d.bucket[to(k)] = f[k]
  <2> DEFINE j == k - 1
  <2>1. j \in Nat /\ j < Len(f) /\ to(k) = t + j /\ t + j \in Nat /\ k = j + 1
    BY <1>1, <1>3, <1>5
  <2> HIDE DEF j
  <2>2. At(t + j) = At(t) + At(j) /\ At(j) \in Nat /\ At(j) < At(Len(f))
    BY <1>1, <1>3, <2>1, AtFacts, AtOrder
  <2>3. holds(id, t + j)
    BY <1>1, <1>2, <1>3, <2>2
  <2>4. (t + j) - t + 1 = k
    BY <1>3, <2>1
  <2>5. d.bucket[t + j] = f[(t + j) - t + 1] /\ t + j \in DOMAIN d.bucket
    BY <1>6, <2>1, <2>3
  <2> QED
    BY <2>1, <2>3, <2>4, <2>5
<1>8. ASSUME NEW s \in DOMAIN d.bucket, holds(id, s)
      PROVE  \E k \in 1 .. Len(f) : s = to(k)
  <2>1. s \in Nat /\ At(s) \in Nat
    BY <1>0, FullSlot
  <2>2. t <= s
    <3>1. s < t => At(s) < At(t)
      BY <1>3, <2>1, AtOrder
    <3> QED
      BY <1>1, <1>2, <1>3, <1>8, <2>1, <3>1
  <2> DEFINE j == s - t
  <2>3. j \in Nat /\ s = t + j
    BY <1>3, <2>1, <2>2
  <2> HIDE DEF j
  <2>4. At(s) = At(t) + At(j) /\ At(j) \in Nat
    BY <1>3, <2>3, AtFacts
  <2>5. At(j) < At(Len(f))
    BY <1>1, <1>2, <1>3, <1>8, <2>1, <2>4
  <2>6. j < Len(f)
    BY <1>1, <2>3, <2>5, AtOrder
  <2>7. j + 1 \in 1 .. Len(f) /\ to(j + 1) = s
    BY <1>1, <1>3, <1>5, <2>3, <2>6
  <2> QED
    BY <2>7
<1> QED
  BY <1>1, <1>7, <1>8 DEF f, to

(* The elements and the blocks of a bucket, and those of them in a stripe. *)
ElementsIn(input, b) == {i \in 0 .. SizeOf(input) - 1 : input[i] = b}
InStripe(input, id, i) == MyBegin(SizeOf(input), id) <= i /\ i < MyEnd(SizeOf(input), id)
BlockIn(d, id, s) == d.my_begin[id] <= At(s) /\ At(s) < d.first_empty[id]

LEMMA StripeCounts ==
  ASSUME NEW input, Input(input), NEW d, d = Classified(input), NEW id \in Threads, NEW b \in Buckets
  PROVE  LET El == {i \in ElementsIn(input, b) : InStripe(input, id, i)}
             Bl == {s \in BlocksOf(d, b) : BlockIn(d, id, s)}
         IN  /\ IsFiniteSet(El) /\ IsFiniteSet(Bl)
             /\ Cardinality(El) \in Nat /\ Cardinality(Bl) \in Nat
             /\ At(Cardinality(Bl)) <= Cardinality(El)
             /\ Bl # {} => At(Cardinality(Bl)) < Cardinality(El)
<1> DEFINE El == {i \in ElementsIn(input, b) : InStripe(input, id, i)}
           Bl == {s \in BlocksOf(d, b) : BlockIn(d, id, s)}
           st == ClassifyLocally(input, id)
           f  == st.flushed
           q  == StripeOfInput(input, id)
           n  == SizeOf(input)
           lo == MyBegin(n, id)
           hi == MyEnd(n, id)
           Of == Occurrences(f, Len(f), b)
           Oq == Occurrences(q, Len(q), b)
<1>1. /\ lo \in Nat /\ hi \in Nat /\ hi <= n /\ lo < hi /\ n \in Nat
      /\ Len(q) = hi - lo /\ \A i \in 1 .. Len(q) : q[i] = input[lo + i - 1]
      /\ st \in ClassifyState /\ Counted(q, Len(q), st) /\ Len(f) \in Nat
  BY StripeClassified DEF Input
<1>2. /\ IsFiniteSet(Of) /\ Cardinality(Of) \in Nat /\ IsFiniteSet(Oq) /\ Cardinality(Oq) \in Nat
  <2>1. Len(q) \in Nat
    <3> HIDE DEF q, lo, hi, n
    <3> QED
      BY <1>1
  <2> QED
    BY <1>1, <2>1, OccurrenceFacts
<1>3. /\ At(Cardinality(Of)) + st.size[b] = Cardinality(Oq) /\ (Of # {} => st.size[b] > 0)
  BY <1>1 DEF Counted
<1>4. st.size[b] \in Nat
  BY <1>1, Constants DEF ClassifyState
<1>5. /\ \A k \in 1 .. Len(f) :
           /\ FlushedTo(input, id, k) \in DOMAIN d.bucket /\ BlockIn(d, id, FlushedTo(input, id, k))
           /\ d.bucket[FlushedTo(input, id, k)] = f[k]
      /\ \A s \in DOMAIN d.bucket : BlockIn(d, id, s) => \E k \in 1 .. Len(f) : s = FlushedTo(input, id, k)
  BY FlushedBlocks DEF BlockIn
<1>6. lo \div BlockSize \in Int /\ \A k \in Int : FlushedTo(input, id, k) = lo \div BlockSize + k - 1
  BY <1>1, WholeSlots DEF FlushedTo
<1> HIDE DEF st, q, n, lo, hi
<1>7. IsFiniteSet(Bl) /\ Cardinality(Bl) = Cardinality(Of)
  <2> DEFINE g == [k \in Of |-> FlushedTo(input, id, k)]
  <2>1. \A k : k \in Of <=> k \in 1 .. Len(f) /\ f[k] = b
    BY DEF Occurrences
  <2>2. \A s : s \in Bl <=> s \in DOMAIN d.bucket /\ d.bucket[s] = b /\ BlockIn(d, id, s)
    BY DEF BlocksOf
  <2> HIDE DEF Of, Bl
  <2>3. g \in [Of -> Bl]
    BY <1>5, <2>1, <2>2
  <2>4. \A x, y \in Of : g[x] = g[y] => x = y
    <3> SUFFICES ASSUME NEW x \in Of, NEW y \in Of, g[x] = g[y] PROVE x = y
      OBVIOUS
    <3>1. x \in Int /\ y \in Int
      BY <2>1
    <3>2. lo \div BlockSize + x - 1 = lo \div BlockSize + y - 1
      BY <1>6, <3>1
    <3> QED
      BY <1>6, <3>1, <3>2
  <2>5. \A s \in Bl : \E k \in Of : g[k] = s
    <3> SUFFICES ASSUME NEW s \in Bl PROVE \E k \in Of : g[k] = s
      OBVIOUS
    <3>1. PICK k \in 1 .. Len(f) : s = FlushedTo(input, id, k)
      BY <1>5, <2>2
    <3>2. k \in Of
      BY <1>5, <2>1, <2>2, <3>1
    <3> QED
      BY <3>1, <3>2
  <2> HIDE DEF g
  <2> QED
    BY <1>2, <2>3, <2>4, <2>5, Renamed
<1>8. IsFiniteSet(El) /\ Cardinality(El) = Cardinality(Oq)
  <2> DEFINE g == [k \in Oq |-> lo + k - 1]
  <2>1. \A k : k \in Oq <=> k \in 1 .. hi - lo /\ input[lo + k - 1] = b
    <3>1. \A k : k \in Oq <=> k \in 1 .. Len(q) /\ q[k] = b
      BY DEF Occurrences
    <3> QED
      BY <1>1, <3>1
  <2>2. \A i : i \in El <=> i \in 0 .. n - 1 /\ input[i] = b /\ lo <= i /\ i < hi
    BY DEF ElementsIn, InStripe, n, lo, hi
  <2> HIDE DEF Oq, El
  <2>3. g \in [Oq -> El]
    <3> SUFFICES ASSUME NEW k \in Oq PROVE lo + k - 1 \in El
      OBVIOUS
    <3>1. k \in 1 .. hi - lo /\ input[lo + k - 1] = b
      BY <2>1
    <3>2. lo + k - 1 \in 0 .. n - 1 /\ lo <= lo + k - 1 /\ lo + k - 1 < hi
      BY <1>1, <3>1
    <3> QED
      BY <2>2, <3>1, <3>2
  <2>4. \A x, y \in Oq : g[x] = g[y] => x = y
    BY <1>1, <2>1
  <2>5. \A i \in El : \E k \in Oq : g[k] = i
    <3> SUFFICES ASSUME NEW i \in El PROVE \E k \in Oq : g[k] = i
      OBVIOUS
    <3>1. i \in Nat /\ input[i] = b /\ lo <= i /\ i < hi
      BY <2>2
    <3>2. i - lo + 1 \in 1 .. hi - lo /\ lo + (i - lo + 1) - 1 = i
      BY <1>1, <3>1
    <3>3. i - lo + 1 \in Oq
      BY <2>1, <3>1, <3>2
    <3> QED
      BY <3>2, <3>3
  <2> HIDE DEF g
  <2> QED
    BY <1>2, <2>3, <2>4, <2>5, Renamed
<1>9. Bl # {} => Of # {}
  BY <1>2, <1>7, FS_EmptySet
<1>10. At(Cardinality(Of)) \in Nat
  BY <1>2, AtOrder
<1> HIDE DEF El, Bl, Of, Oq
<1>11. /\ At(Cardinality(Bl)) <= Cardinality(El)
       /\ Bl # {} => At(Cardinality(Bl)) < Cardinality(El)
  BY <1>2, <1>3, <1>4, <1>7, <1>8, <1>9, <1>10
<1> QED
  BY <1>2, <1>7, <1>8, <1>11 DEF El, Bl

LEMMA DisjointUnion ==
  ASSUME NEW S, NEW T, NEW U, IsFiniteSet(S), IsFiniteSet(T), S \cap T = {}, U = S \cup T
  PROVE  /\ IsFiniteSet(U) /\ Cardinality(U) = Cardinality(S) + Cardinality(T)
         /\ Cardinality(S) \in Nat /\ Cardinality(T) \in Nat
<1>1. /\ IsFiniteSet(S \cup T)
      /\ Cardinality(S \cup T) = Cardinality(S) + Cardinality(T) - Cardinality(S \cap T)
  BY FS_Union
<1>2. Cardinality(S \cap T) = 0
  BY FS_EmptySet
<1>3. Cardinality(S) \in Nat /\ Cardinality(T) \in Nat
  BY FS_CardinalityType
<1> QED
  BY <1>1, <1>2, <1>3

LEMMA BlocksCounted ==
  ASSUME NEW input, Input(input), NEW d, d = Classified(input), NEW b \in Buckets
  PROVE  /\ IsFiniteSet(BlocksOf(d, b)) /\ Cardinality(BlocksOf(d, b)) \in Nat
         /\ Cardinality(ElementsIn(input, b)) \in Nat
         /\ BlocksOf(d, b) # {} => At(Cardinality(BlocksOf(d, b))) < Cardinality(ElementsIn(input, b))
<1> DEFINE n == SizeOf(input)
           E(p) == {i \in ElementsIn(input, b) : \E id \in Threads : id < p /\ InStripe(input, id, i)}
           B(p) == {s \in BlocksOf(d, b) : \E id \in Threads : id < p /\ BlockIn(d, id, s)}
           El(id) == {i \in ElementsIn(input, b) : InStripe(input, id, i)}
           Bl(id) == {s \in BlocksOf(d, b) : BlockIn(d, id, s)}
           Fine(p) == /\ IsFiniteSet(E(p)) /\ IsFiniteSet(B(p))
                      /\ Cardinality(E(p)) \in Nat /\ Cardinality(B(p)) \in Nat
                      /\ At(Cardinality(B(p))) <= Cardinality(E(p))
                      /\ B(p) # {} => At(Cardinality(B(p))) < Cardinality(E(p))
<1>0. /\ NumThreads \in Nat \ {0} /\ Threads = 0 .. NumThreads - 1 /\ Stripes(d) /\ n \in Nat
  BY Constants, ClassifiedStripes DEF Input
<1>1. ASSUME NEW p \in Threads, NEW q \in Threads, p < q
      PROVE  El(p) \cap El(q) = {} /\ Bl(p) \cap Bl(q) = {}
  <2>1. /\ d.my_end[p] <= d.my_begin[q]
    BY <1>0, <1>1, StripesAscend
  <2>2. /\ d.my_begin[q] = MyBegin(n, q) /\ d.my_end[p] = MyEnd(n, p)
        /\ d.my_begin[q] \in Nat /\ d.my_end[p] \in Nat /\ d.first_empty[p] \in Nat
        /\ d.first_empty[p] <= d.my_end[p]
    <3>1. d.my_begin[q] = MyBegin(n, q) /\ d.my_end[p] = MyEnd(n, p)
      BY ClassifiedFields
    <3>2. /\ d.my_begin[q] \in Nat /\ d.my_end[p] \in Nat /\ d.first_empty[p] \in Nat
          /\ d.first_empty[p] <= d.my_end[p]
      BY <1>0, StripeFacts
    <3> QED
      BY <3>1, <3>2
  <2>3. ASSUME NEW i \in El(p) \cap El(q) PROVE FALSE
    <3>1. i \in Nat /\ i < MyEnd(n, p) /\ MyBegin(n, q) <= i
      BY DEF ElementsIn, InStripe
    <3> QED
      BY <2>1, <2>2, <3>1
  <2>4. ASSUME NEW s \in Bl(p) \cap Bl(q) PROVE FALSE
    <3>1. s \in DOMAIN d.bucket /\ At(s) < d.first_empty[p] /\ d.my_begin[q] <= At(s)
      BY DEF BlocksOf, BlockIn
    <3>2. At(s) \in Nat
      BY <1>0, <3>1, FullSlot
    <3> QED
      BY <2>1, <2>2, <3>1, <3>2
  <2> QED
    BY <2>3, <2>4
<1>2. Fine(0)
  <2>1. E(0) = {} /\ B(0) = {}
    BY <1>0
  <2>2. IsFiniteSet({}) /\ Cardinality({}) = 0 /\ At(0) = 0
    BY FS_EmptySet, AtFacts
  <2> HIDE DEF E, B
  <2> QED
    BY <2>1, <2>2
<1>3. ASSUME NEW p \in Threads, Fine(p)
      PROVE  Fine(p + 1)
  <2>1. \A id \in Threads : id < p + 1 <=> id < p \/ id = p
    BY <1>0
  <2>2. E(p + 1) = E(p) \cup El(p) /\ B(p + 1) = B(p) \cup Bl(p)
    BY <2>1
  <2>3. E(p) \cap El(p) = {} /\ B(p) \cap Bl(p) = {}
    <3>1. \A id \in Threads : id < p => El(id) \cap El(p) = {} /\ Bl(id) \cap Bl(p) = {}
      BY <1>1
    <3>2. ASSUME NEW i \in E(p) \cap El(p) PROVE FALSE
      <4>1. PICK id \in Threads : id < p /\ i \in El(id)
        OBVIOUS
      <4> HIDE DEF El
      <4> QED
        BY <3>1, <4>1
    <3>3. ASSUME NEW s \in B(p) \cap Bl(p) PROVE FALSE
      <4>1. PICK id \in Threads : id < p /\ s \in Bl(id)
        OBVIOUS
      <4> HIDE DEF Bl
      <4> QED
        BY <3>1, <4>1
    <3> QED
      BY <3>2, <3>3
  <2>4. /\ IsFiniteSet(El(p)) /\ IsFiniteSet(Bl(p))
        /\ Cardinality(El(p)) \in Nat /\ Cardinality(Bl(p)) \in Nat
        /\ At(Cardinality(Bl(p))) <= Cardinality(El(p))
        /\ Bl(p) # {} => At(Cardinality(Bl(p))) < Cardinality(El(p))
    BY StripeCounts
  <2>5. Fine(p)
    BY <1>3
  <2> HIDE DEF E, B, El, Bl
  <2>6. /\ IsFiniteSet(E(p + 1)) /\ Cardinality(E(p + 1)) = Cardinality(E(p)) + Cardinality(El(p))
    <3>1. IsFiniteSet(E(p)) /\ IsFiniteSet(El(p)) /\ E(p) \cap El(p) = {} /\ E(p + 1) = E(p) \cup El(p)
      BY <2>2, <2>3, <2>4, <2>5
    <3> QED
      BY ONLY <3>1, DisjointUnion
  <2>7. /\ IsFiniteSet(B(p + 1)) /\ Cardinality(B(p + 1)) = Cardinality(B(p)) + Cardinality(Bl(p))
    <3>1. IsFiniteSet(B(p)) /\ IsFiniteSet(Bl(p)) /\ B(p) \cap Bl(p) = {} /\ B(p + 1) = B(p) \cup Bl(p)
      BY <2>2, <2>3, <2>4, <2>5
    <3> QED
      BY ONLY <3>1, DisjointUnion
  <2> DEFINE x == Cardinality(B(p))
             y == Cardinality(Bl(p))
             u == Cardinality(E(p))
             v == Cardinality(El(p))
  <2>8. At(x + y) = At(x) + At(y) /\ At(x) \in Nat /\ At(y) \in Nat
    BY <2>4, <2>5, AtFacts
  <2>9. B(p + 1) # {} => B(p) # {} \/ Bl(p) # {}
    BY <2>2
  <2> HIDE DEF x, y, u, v
  <2>10. /\ At(x) + At(y) <= u + v /\ u + v \in Nat /\ x + y \in Nat
         /\ B(p + 1) # {} => At(x) + At(y) < u + v
    BY <2>4, <2>5, <2>8, <2>9 DEF x, y, u, v
  <2> QED
    BY <2>6, <2>7, <2>8, <2>10 DEF x, y, u, v
<1> HIDE DEF Fine
<1>4. Fine(NumThreads)
  <2> DEFINE Wrong == {p \in 0 .. NumThreads : ~Fine(p)}
  <2>1. Wrong \subseteq Nat /\ \A p : p \in Wrong <=> p \in 0 .. NumThreads /\ ~Fine(p)
    BY <1>0
  <2> HIDE DEF Wrong
  <2>2. Wrong = {}
    <3> SUFFICES ASSUME Wrong # {} PROVE FALSE
      OBVIOUS
    <3>1. PICK p \in Wrong : \A r \in Wrong : p <= r
      BY <2>1, Least
    <3>2. p \in 0 .. NumThreads /\ p # 0 /\ ~Fine(p)
      BY <1>2, <2>1
    <3>3. p - 1 \in Threads /\ p - 1 \in 0 .. NumThreads /\ (p - 1) + 1 = p /\ p - 1 < p /\ p - 1 \in Nat
      BY <1>0, <3>2
    <3>4. p - 1 \notin Wrong
      BY <2>1, <3>1, <3>3
    <3>5. Fine(p - 1)
      BY <2>1, <3>3, <3>4
    <3>6. Fine((p - 1) + 1)
      BY <1>3, <3>3, <3>5
    <3> QED
      BY <3>2, <3>3, <3>6
  <2>3. NumThreads \in 0 .. NumThreads
    BY <1>0
  <2> QED
    BY <2>1, <2>2, <2>3
<1>5. B(NumThreads) = BlocksOf(d, b)
  <2>1. ASSUME NEW s \in BlocksOf(d, b) PROVE \E id \in Threads : id < NumThreads /\ BlockIn(d, id, s)
    <3>1. PICK id \in Threads : BlockIn(d, id, s)
      BY <1>0 DEF BlocksOf, Stripes, BlockIn
    <3>2. id < NumThreads
      BY <1>0
    <3> QED
      BY <3>1, <3>2
  <2> QED
    BY <2>1
<1>6. Cardinality(E(NumThreads)) <= Cardinality(ElementsIn(input, b)) /\ Cardinality(ElementsIn(input, b)) \in Nat
  <2>1. IsFiniteSet(0 .. n - 1)
    BY <1>0, FS_Interval
  <2>2. IsFiniteSet(ElementsIn(input, b))
    BY <2>1, FS_Subset DEF ElementsIn, n
  <2>3. E(NumThreads) \in SUBSET ElementsIn(input, b)
    OBVIOUS
  <2> QED
    BY <2>2, <2>3, FS_Subset, FS_CardinalityType
<1>7. Fine(NumThreads) <=>
        /\ IsFiniteSet(E(NumThreads)) /\ IsFiniteSet(B(NumThreads))
        /\ Cardinality(E(NumThreads)) \in Nat /\ Cardinality(B(NumThreads)) \in Nat
        /\ At(Cardinality(B(NumThreads))) <= Cardinality(E(NumThreads))
        /\ B(NumThreads) # {} => At(Cardinality(B(NumThreads))) < Cardinality(E(NumThreads))
  BY DEF Fine
<1> HIDE DEF E, B
<1>8. Cardinality(B(NumThreads)) \in Nat => At(Cardinality(B(NumThreads))) \in Nat
  BY AtFacts
<1> QED
  BY <1>4, <1>5, <1>6, <1>7, <1>8

(* bucket_start_ holds the sums of the sizes.                              *)
LEMMA BucketSize ==
  ASSUME NEW input, Input(input), NEW d, d = Classified(input), NEW b \in Buckets
  PROVE  d.bucket_start[b + 1] - d.bucket_start[b] = Cardinality(ElementsIn(input, b))
<1> DEFINE n == SizeOf(input)
           Below(a) == {i \in 0 .. n - 1 : input[i] < a}
           El == ElementsIn(input, b)
<1>0. /\ b \in 0 .. NumBuckets /\ b + 1 \in 0 .. NumBuckets /\ b \in Nat /\ n \in Nat
      /\ input \in [0 .. n - 1 -> Buckets] /\ Buckets = 0 .. NumBuckets - 1 /\ NumBuckets \in Nat
  BY Constants DEF Input
<1>1. d.bucket_start[b] = Cardinality(Below(b)) /\ d.bucket_start[b + 1] = Cardinality(Below(b + 1))
  <2>1. \A a \in 0 .. NumBuckets : d.bucket_start[a] = Cardinality({i \in 0 .. n - 1 : input[i] < a})
    BY ClassifiedFields
  <2> QED
    BY <1>0, <2>1
<1>2. \A i \in 0 .. n - 1 : input[i] \in Int
  BY <1>0
<1>3. Below(b + 1) = Below(b) \cup El /\ Below(b) \cap El = {}
  <2>1. \A i \in 0 .. n - 1 : input[i] < b + 1 <=> input[i] < b \/ input[i] = b
    BY <1>0, <1>2
  <2>2. \A i \in 0 .. n - 1 : ~(input[i] < b /\ input[i] = b)
    BY <1>0, <1>2
  <2> QED
    BY <2>1, <2>2 DEF ElementsIn
<1>4. IsFiniteSet(0 .. n - 1)
  BY <1>0, FS_Interval
<1>5. IsFiniteSet(Below(b)) /\ IsFiniteSet(El)
  <2>1. Below(b) \in SUBSET (0 .. n - 1) /\ El \in SUBSET (0 .. n - 1)
    BY DEF ElementsIn
  <2> HIDE DEF Below, El, n
  <2> QED
    BY <1>4, <2>1, FS_Subset
<1> HIDE DEF Below, El
<1>6. Cardinality(Below(b + 1)) = Cardinality(Below(b)) + Cardinality(El)
      /\ Cardinality(Below(b)) \in Nat /\ Cardinality(El) \in Nat
  BY <1>3, <1>5, DisjointUnion
<1> QED
  BY <1>1, <1>6 DEF El

(* A block is flushed for a further element only: there is room for the    *)
(* blocks of a bucket, and a bucket with blocks is large.                  *)
LEMMA RoomForBlocks ==
  ASSUME NEW input, Input(input), NEW d, d = Classified(input), NEW b \in Buckets
  PROVE  /\ Cardinality(BlocksOf(d, b)) <= SlotsUpTo(d.bucket_start[b + 1]) - SlotsUpTo(d.bucket_start[b])
         /\ BlocksOf(d, b) # {} => d.bucket_start[b + 1] - d.bucket_start[b] > BlockSize
<1> DEFINE k  == Cardinality(BlocksOf(d, b))
           f  == SlotsUpTo(d.bucket_start[b])
           g  == SlotsUpTo(d.bucket_start[b + 1])
           lo == d.bucket_start[b]
           hi == d.bucket_start[b + 1]
<1>0. /\ BlockSize \in Nat \ {0} /\ b \in 0 .. NumBuckets /\ b + 1 \in 0 .. NumBuckets /\ b <= b + 1
      /\ Stripes(d)
  BY Constants, ClassifiedStripes
<1>1. IsFiniteSet(BlocksOf(d, b)) /\ k \in Nat /\ (BlocksOf(d, b) # {} => At(k) < hi - lo)
  BY BlocksCounted, BucketSize
<1>2. lo \in Nat /\ hi \in Nat
  BY <1>0 DEF Stripes
<1>3. f \in Nat /\ g \in Nat /\ f <= g
  BY <1>0, AreaFacts
<1>4. At(f) < lo + BlockSize /\ hi <= At(g)
  BY <1>2, AlignFacts
<1>5. BlocksOf(d, b) # {} <=> k # 0
  BY <1>1, FS_EmptySet
<1> HIDE DEF k, f, g, lo, hi
<1>6. CASE k = 0
  BY <1>3, <1>5, <1>6 DEF k, f, g
<1>7. CASE k # 0
  <2>1. At(k) < hi - lo /\ At(k) \in Nat /\ At(f) \in Nat /\ At(g) \in Nat /\ BlockSize <= At(k)
    <3>1. At(k) \in Nat /\ At(0) = 0 /\ (0 < k => At(0) + BlockSize <= At(k)) /\ At(f) \in Nat /\ At(g) \in Nat
      BY <1>1, <1>3, AtFacts
    <3> QED
      BY <1>0, <1>1, <1>5, <1>7, <3>1
  <2>2. At(f + k) = At(f) + At(k) /\ At(g + 1) = At(g) + BlockSize
    BY <1>1, <1>3, AtFacts
  <2>3. At(f) + At(k) < At(g) + BlockSize
    BY <1>0, <1>2, <1>4, <2>1
  <2>4. f + k < g + 1
    BY <1>1, <1>3, <2>2, <2>3, AtOrder
  <2>5. k <= g - f
    BY <1>1, <1>3, <2>4
  <2>6. hi - lo > BlockSize
    BY <1>0, <1>2, <2>1
  <2> QED
    BY <2>5, <2>6 DEF k, f, g, lo, hi
<1> QED
  BY <1>6, <1>7

------------------------------------------------------------------------------
(* The layout that the block permutation starts from.                      *)
LastFull(d) == [b \in Buckets |-> Filled(d, b) \div BlockSize - 1]

LEMMA LastFullFacts ==
  ASSUME NEW d, Stripes(d), NEW b \in Buckets
  PROVE  LET f == SlotsUpTo(d.bucket_start[b])
             g == SlotsUpTo(d.bucket_start[b + 1])
             k == d.n \div BlockSize
         IN  /\ f \in Nat /\ g \in Nat
             /\ LastFull(d)[b] \in Int /\ f - 1 <= LastFull(d)[b] /\ LastFull(d)[b] < g
             /\ LastFull(d)[b] < k \/ LastFull(d)[b] = f - 1
             /\ \A s \in Nat :
                  /\ f <= s /\ s < g <=> Start(d, b) <= At(s) /\ At(s) < Start(d, b + 1)
                  /\ s <= LastFull(d)[b] <=> At(s) < Filled(d, b)
<1> DEFINE f == SlotsUpTo(d.bucket_start[b])
           g == SlotsUpTo(d.bucket_start[b + 1])
           k == d.n \div BlockSize
           x == Filled(d, b) \div BlockSize
           l == LastFull(d)[b]
<1>0. b \in 0 .. NumBuckets /\ b + 1 \in 0 .. NumBuckets
  BY Constants
<1>1. /\ f \in Nat /\ At(f) = Start(d, b) /\ g \in Nat /\ At(g) = Start(d, b + 1) /\ k \in Nat
  BY <1>0, AreaFacts
<1>2. /\ OnBlock(Filled(d, b)) /\ Start(d, b) <= Filled(d, b) /\ Filled(d, b) <= Start(d, b + 1)
      /\ Filled(d, b) \in Nat
  BY FilledFacts
<1>3. x \in Nat /\ At(x) = Filled(d, b)
  BY <1>2, SlotOf
<1>4. l = x - 1
  BY DEF LastFull
<1>5. Filled(d, b) > Start(d, b) => Filled(d, b) <= At(k)
  BY FilledWithin
<1> HIDE DEF f, g, k, x, l
<1>6. f <= x /\ x <= g
  <2>1. At(f) <= At(x) /\ At(x) <= At(g)
    BY <1>1, <1>2, <1>3
  <2>2. ~(x < f) /\ ~(g < x)
    <3>1. (x < f => At(x) < At(f)) /\ (g < x => At(g) < At(x)) /\ At(f) \in Nat /\ At(x) \in Nat /\ At(g) \in Nat
      BY <1>1, <1>3, AtOrder
    <3> QED
      BY <2>1, <3>1
  <2> QED
    BY <1>1, <1>3, <2>2
<1>7. x <= k \/ x = f
  <2> SUFFICES ASSUME x # f PROVE x <= k
    OBVIOUS
  <2>1. At(f) < At(x)
    BY <1>1, <1>3, <1>6, AtOrder
  <2>2. At(x) <= At(k)
    BY <1>1, <1>3, <1>5, <2>1
  <2>3. (k < x => At(k) < At(x)) /\ At(k) \in Nat /\ At(x) \in Nat
    BY <1>1, <1>3, AtOrder
  <2> QED
    BY <1>1, <1>3, <2>2, <2>3
<1>8. ASSUME NEW s \in Nat
      PROVE  /\ f <= s <=> Start(d, b) <= At(s)
             /\ s < g <=> At(s) < Start(d, b + 1)
             /\ s < x <=> At(s) < Filled(d, b)
  <2>1. /\ At(s) < At(f) <=> s < f
        /\ At(s) < At(g) <=> s < g
        /\ At(s) < At(x) <=> s < x
        /\ At(s) \in Nat /\ At(f) \in Nat
    BY <1>1, <1>3, AtOrder
  <2> QED
    BY <1>1, <1>3, <2>1
<1>9. \A s \in Nat : s <= l <=> s < x
  BY <1>3, <1>4
<1>10. l \in Int /\ f - 1 <= l /\ l < g /\ (l < k \/ l = f - 1)
  BY <1>1, <1>3, <1>4, <1>6, <1>7
<1> QED
  BY <1>1, <1>8, <1>9, <1>10 DEF f, g, k, l

LEMMA PlannedLayout ==
  ASSUME NEW d, Stripes(d)
  PROVE  LayoutAfterMoves(d) = LayoutOf(d, ContentAfterMoves(d), LastFull(d))
<1> DEFINE setter(b) == CHOOSE id \in Threads : b \in DOMAIN Pointers(d, id)
           last == [b \in Buckets |-> Pointers(d, setter(b))[b].read]
<1>1. LayoutAfterMoves(d) = LayoutOf(d, ContentAfterMoves(d), last)
  BY DEF LayoutAfterMoves
<1>2. ASSUME NEW b \in Buckets
      PROVE  Pointers(d, setter(b))[b].read = Filled(d, b) \div BlockSize - 1
  <2>1. setter(b) \in Threads /\ b \in DOMAIN Pointers(d, setter(b))
    BY OneSetter
  <2> HIDE DEF setter
  <2>2. Pointers(d, setter(b))[b] = [write |-> Start(d, b) \div BlockSize,
                                     read  |-> Filled(d, b) \div BlockSize - 1]
    BY <2>1, PointersFacts
  <2> QED
    BY <2>2
<1>3. last = LastFull(d)
  BY <1>2 DEF LastFull
<1> QED
  BY <1>1, <1>3

(* Each requirement of the invariant between the phases.                   *)
LEMMA LayoutHolds ==
  ASSUME NEW input, Input(input), NEW d, d = Classified(input), NEW v, AfterMoves(d, v)
  PROVE  IsLayout(LayoutOf(d, v, LastFull(d)))
<1> DEFINE l == LayoutOf(d, v, LastFull(d))
           first(b) == SlotsUpTo(d.bucket_start[b])
           k == d.n \div BlockSize
           D == DOMAIN d.bucket
<1>0. /\ Stripes(d) /\ NumBuckets \in Nat \ {0} /\ Buckets = 0 .. NumBuckets - 1 /\ BlockSize \in Nat \ {0}
      /\ NumThreads \in Nat \ {0} /\ Threads = 0 .. NumThreads - 1
      /\ \A b \in Buckets : b \in 0 .. NumBuckets /\ b + 1 \in 0 .. NumBuckets
  BY Constants, ClassifiedStripes
<1>1. /\ l.first = [b \in 0 .. NumBuckets |-> first(b)] /\ l.last = LastFull(d) /\ l.max_off = k
      /\ l.bucket = d.bucket /\ l.content = v
      /\ l.large = {b \in Buckets : d.bucket_start[b + 1] - d.bucket_start[b] > BlockSize}
  BY DEF LayoutOf
<1>2. /\ k \in Nat /\ At(k) \in Nat /\ At(k) <= d.n /\ d.n \in Nat
      /\ \A b \in 0 .. NumBuckets : first(b) \in Nat /\ At(first(b)) = Start(d, b)
      /\ \A a, b \in 0 .. NumBuckets : a <= b => first(a) <= first(b)
      /\ first(NumBuckets) \in {k, k + 1}
  BY <1>0, AreaFacts
<1>3. ASSUME NEW b \in Buckets
      PROVE  /\ LastFull(d)[b] \in Int /\ first(b) - 1 <= LastFull(d)[b] /\ LastFull(d)[b] < first(b + 1)
             /\ LastFull(d)[b] < k \/ LastFull(d)[b] = first(b) - 1
             /\ \A s \in Nat :
                  /\ first(b) <= s /\ s < first(b + 1) <=> Start(d, b) <= At(s) /\ At(s) < Start(d, b + 1)
                  /\ s <= LastFull(d)[b] <=> At(s) < Filled(d, b)
  BY <1>0, LastFullFacts
<1>4. Slots(d) = 0 .. k - 1
  BY DEF Slots
<1>5. ASSUME NEW s \in Slots(d)
      PROVE  s \in Nat /\ \E b \in Buckets : first(b) <= s /\ s < first(b + 1)
  <2>1. s \in Nat /\ \E b \in Buckets : Start(d, b) <= At(s) /\ At(s) < Start(d, b + 1)
    BY <1>0, AreaOf
  <2>2. PICK b \in Buckets : Start(d, b) <= At(s) /\ At(s) < Start(d, b + 1)
    BY <2>1
  <2> HIDE DEF first
  <2> QED
    BY <1>3, <2>1, <2>2
<1>6. v \in [Slots(d) -> D \cup {NoBlock}] /\ DOMAIN v = Slots(d)
  BY DEF AfterMoves
<1>7. D \subseteq Nat /\ IsFiniteSet(D)
  <2>1. D \in SUBSET (0 .. k - 1)
    BY <1>0, <1>4, BlocksInSlots
  <2>2. IsFiniteSet(0 .. k - 1)
    BY <1>2, FS_Interval
  <2>3. IsFiniteSet(D)
    BY <2>1, <2>2, FS_Subset
  <2> QED
    BY <2>1, <2>3
<1>8. \A x \in D : d.bucket[x] \in Buckets
  <2> SUFFICES ASSUME NEW x \in D PROVE d.bucket[x] \in Buckets
    OBVIOUS
  <2>1. PICK id \in Threads : d.my_begin[id] <= At(x) /\ At(x) < d.first_empty[id]
    BY <1>0 DEF Stripes
  <2> DEFINE f == ClassifyLocally(input, id).flushed
  <2>2. /\ f \in Seq(Buckets) /\ Len(f) \in Nat
        /\ \A j \in 1 .. Len(f) : d.bucket[FlushedTo(input, id, j)] = f[j]
        /\ \E j \in 1 .. Len(f) : x = FlushedTo(input, id, j)
    BY <2>1, FlushedBlocks
  <2> HIDE DEF f
  <2>3. PICK j \in 1 .. Len(f) : x = FlushedTo(input, id, j)
    BY <2>2
  <2>4. d.bucket[x] = f[j] /\ f[j] \in Buckets
    BY <2>2, <2>3, ElementOfSeq
  <2> QED
    BY <2>4
<1>9. d.bucket \in [D -> Buckets]
  <2>1. d.bucket = [x \in D |-> d.bucket[x]]
    BY DEF Classified
  <2> QED
    BY <1>8, <2>1
<1>10. /\ \A x \in D : \E s \in Slots(d) : v[s] = x
       /\ \A r, s \in Slots(d) : v[r] = v[s] /\ v[r] # NoBlock => r = s
  BY <1>0, EveryBlockOnce
<1>11. \A b \in Buckets :
         /\ Cardinality(BlocksOf(d, b)) <= first(b + 1) - first(b)
         /\ BlocksOf(d, b) # {} => d.bucket_start[b + 1] - d.bucket_start[b] > BlockSize
  BY RoomForBlocks
<1>12. ASSUME NEW b \in Buckets, NEW s \in Slots(d), first(b) <= s, s < first(b + 1)
       PROVE  v[s] # NoBlock <=> s <= LastFull(d)[b]
  <2>1. s \in Nat
    BY <1>5
  <2>2. Start(d, b) <= At(s) /\ At(s) < Start(d, b + 1) /\ (s <= LastFull(d)[b] <=> At(s) < Filled(d, b))
    BY <1>3, <1>12, <2>1
  <2> QED
    BY <1>0, <2>2, FullThenEmpty
<1>13. ASSUME NEW b \in Buckets, d.bucket_start[b + 1] - d.bucket_start[b] > BlockSize
       PROVE  first(b) <= k
  <2> DEFINE lo == d.bucket_start[b]
             hi == d.bucket_start[b + 1]
             f  == first(b)
  <2>1. lo \in Nat /\ hi \in Nat /\ hi <= d.n
    BY <1>0 DEF Stripes
  <2>2. f \in Nat /\ At(f) < lo + BlockSize /\ At(f) \in Nat
    <3>1. f \in Nat /\ AlignToNextBlock(lo) = At(f) /\ AlignToNextBlock(lo) < lo + BlockSize
          /\ AlignToNextBlock(lo) \in Nat
      BY <2>1, AlignFacts
    <3> QED
      BY <3>1
  <2>3. d.n < At(k) + BlockSize
    BY <1>2, WholeSlots
  <2>4. hi - lo > BlockSize
    BY <1>13
  <2> HIDE DEF lo, hi, f, k
  <2>5. At(f) < At(k) + BlockSize
    BY <1>0, <1>2, <2>1, <2>2, <2>3, <2>4
  <2>6. At(k + 1) = At(k) + BlockSize /\ k + 1 \in Nat
    BY <1>2, AtOrder
  <2>7. f < k + 1
    BY <2>2, <2>5, <2>6, AtOrder
  <2> QED
    BY <1>2, <2>2, <2>7 DEF f
<1>14. \A x \in D : d.bucket_start[d.bucket[x] + 1] - d.bucket_start[d.bucket[x]] > BlockSize
  <2> SUFFICES ASSUME NEW x \in D
               PROVE  d.bucket_start[d.bucket[x] + 1] - d.bucket_start[d.bucket[x]] > BlockSize
    OBVIOUS
  <2>1. d.bucket[x] \in Buckets /\ BlocksOf(d, d.bucket[x]) # {}
    BY <1>8 DEF BlocksOf
  <2> QED
    BY <1>11, <2>1
<1>15. \A b : BlocksOf(l, b) = BlocksOf(d, b)
  BY <1>1 DEF BlocksOf
<1>16. NumBuckets \in 0 .. NumBuckets
  BY <1>0
<1> HIDE DEF l, first, k, D
<1>17. /\ l.first \in [0 .. NumBuckets -> Nat]
       /\ \A a, b \in 0 .. NumBuckets : a <= b => l.first[a] <= l.first[b]
       /\ l.max_off \in Nat
       /\ l.first[NumBuckets] \in {l.max_off, l.max_off + 1}
  BY <1>1, <1>2, <1>16
<1>18. \A s \in 0 .. l.max_off - 1 : \E b \in Buckets : l.first[b] <= s /\ s < l.first[b + 1]
  BY <1>0, <1>1, <1>4, <1>5
<1>19. /\ DOMAIN l.bucket \subseteq Nat /\ IsFiniteSet(DOMAIN l.bucket)
       /\ l.bucket \in [DOMAIN l.bucket -> Buckets]
       /\ l.content \in [0 .. l.max_off - 1 -> DOMAIN l.bucket \cup {NoBlock}]
       /\ \A x \in DOMAIN l.bucket : \E s \in DOMAIN l.content : l.content[s] = x
       /\ \A r, s \in DOMAIN l.content : l.content[r] = l.content[s] /\ l.content[r] # NoBlock => r = s
  BY <1>1, <1>4, <1>6, <1>7, <1>9, <1>10 DEF D
<1>20. \A b \in Buckets : Cardinality(BlocksOf(l, b)) <= l.first[b + 1] - l.first[b]
  BY <1>0, <1>1, <1>11, <1>15
<1>21. l.last \in [Buckets -> Int]
  BY <1>1, <1>3 DEF LastFull
<1>22. \A b \in Buckets :
         /\ l.first[b] - 1 <= l.last[b] /\ l.last[b] < l.first[b + 1]
         /\ l.last[b] < l.max_off \/ l.last[b] = l.first[b] - 1
         /\ \A s \in DOMAIN l.content :
              l.first[b] <= s /\ s < l.first[b + 1] => (l.content[s] # NoBlock <=> s <= l.last[b])
  BY <1>0, <1>1, <1>3, <1>6, <1>12
<1>23. l.large \subseteq {b \in Buckets : l.first[b] <= l.max_off}
  BY <1>0, <1>1, <1>13
<1>24. \A x \in DOMAIN l.bucket : l.bucket[x] \in l.large
  BY <1>1, <1>8, <1>14 DEF D
<1>25. IsLayout(l)
  BY <1>17, <1>18, <1>19, <1>20, <1>21, <1>22, <1>23, <1>24 DEF IsLayout
<1> QED
  BY <1>25 DEF l

(* For every input and every number of threads, buckets and elements per   *)
(* block, empty block movement leaves what block permutation starts from:  *)
(* "All buckets must consist of full blocks followed by empty blocks".     *)
THEOREM LayoutIsEstablished ==
  ASSUME NEW input \in Inputs
  PROVE  IsLayout(LayoutAfterMoves(Classified(input)))
<1> DEFINE d == Classified(input)
<1>1. Input(input)
  BY MovementAssumption DEF Input
<1>2. Stripes(d)
  BY <1>1, ClassifiedStripes
<1> HIDE DEF d
<1>3. AfterMoves(d, ContentAfterMoves(d))
  BY <1>2, PlannedContent
<1>4. IsLayout(LayoutOf(d, ContentAfterMoves(d), LastFull(d)))
  BY <1>1, <1>3, LayoutHolds DEF d
<1>5. LayoutAfterMoves(d) = LayoutOf(d, ContentAfterMoves(d), LastFull(d))
  BY <1>2, PlannedLayout
<1> QED
  BY <1>4, <1>5 DEF d

LEMMA IInvLayout ==
  ASSUME IInv
  PROVE  EstablishesLayout
<1> SUFFICES ASSUME \A id \in Threads : pc[id] = "done"
             PROVE  /\ \A b \in Buckets : Cardinality(pointers[b]) = 1
                    /\ \A b \in Buckets : \A p \in pointers[b] : p[2].write = Result.first[b]
                    /\ IsLayout(Result)
                    /\ Result = LayoutAfterMoves(c)
  BY DEF EstablishesLayout
<1>1. PICK input \in Inputs : c = Classified(input)
  BY DEF IInv
<1>2. Stripes(c) /\ PlanFollowed /\ SlotsFollow /\ PointersFollow
  BY StripesKnown DEF IInv
<1>3. \A id \in Threads : MadeBy(id) = Len(Moves(c, id))
  <2> SUFFICES ASSUME NEW id \in Threads PROVE MadeBy(id) = Len(Moves(c, id))
    OBVIOUS
  <2>1. moves[id] = << >> /\ Len(moves[id]) = 0
    BY <1>2 DEF PlanFollowed
  <2>2. Len(Moves(c, id)) \in Nat
    BY <1>2, MovesLeft
  <2> QED
    BY <2>1, <2>2 DEF MadeBy
<1>4. AfterMoves(c, content)
  BY <1>2, <1>3 DEF SlotsFollow, AfterMoves
<1>5. content = ContentAfterMoves(c)
  BY <1>2, <1>4, PlannedContent, OneContent
<1>6. ASSUME NEW b \in Buckets
      PROVE  \E id \in Threads :
               pointers[b] = {<< id, [write |-> Start(c, b) \div BlockSize,
                                      read  |-> Filled(c, b) \div BlockSize - 1] >>}
  <2>1. PICK id \in Threads : b \in DOMAIN Pointers(c, id)
    BY <1>2, OneSetter
  <2>2. \A p \in Threads : b \in DOMAIN Pointers(c, p) => p = id
    BY <1>2, <2>1, OneSetter
  <2>3. pointers[b] = {<< p, Pointers(c, p)[b] >> :
                         p \in {q \in Threads : pc[q] = "done" /\ b \in DOMAIN Pointers(c, q)}}
    BY <1>2 DEF PointersFollow
  <2>4. {q \in Threads : pc[q] = "done" /\ b \in DOMAIN Pointers(c, q)} = {id}
    BY <2>1, <2>2
  <2>5. pointers[b] = {<< id, Pointers(c, id)[b] >>}
    BY <2>3, <2>4
  <2>6. Pointers(c, id)[b] = [write |-> Start(c, b) \div BlockSize, read |-> Filled(c, b) \div BlockSize - 1]
    BY <1>2, <2>1, PointersFacts
  <2> QED
    BY <2>5, <2>6
<1>7. ASSUME NEW b \in Buckets
      PROVE  /\ Cardinality(pointers[b]) = 1
             /\ \A p \in pointers[b] : p[2].write = Start(c, b) \div BlockSize
             /\ (CHOOSE p \in pointers[b] : TRUE)[2].read = Filled(c, b) \div BlockSize - 1
  <2> DEFINE r == [write |-> Start(c, b) \div BlockSize, read |-> Filled(c, b) \div BlockSize - 1]
  <2>1. PICK id \in Threads : pointers[b] = {<< id, r >>}
    BY <1>6
  <2>2. r.write = Start(c, b) \div BlockSize /\ r.read = Filled(c, b) \div BlockSize - 1
    OBVIOUS
  <2> HIDE DEF r
  <2>3. Cardinality(pointers[b]) = 1
    BY <2>1, FS_Singleton
  <2>4. \A p \in pointers[b] : p[2] = r
    BY <2>1
  <2>5. (CHOOSE p \in pointers[b] : TRUE) \in pointers[b]
    BY <2>1
  <2> QED
    BY <2>2, <2>3, <2>4, <2>5
<1>8. [b \in Buckets |-> (CHOOSE p \in pointers[b] : TRUE)[2].read] = LastFull(c)
  BY <1>7 DEF LastFull
<1>9. Result = LayoutAfterMoves(c)
  <2>1. Result = LayoutOf(c, ContentAfterMoves(c), LastFull(c))
    BY <1>5, <1>8 DEF Result
  <2> QED
    BY <1>2, <2>1, PlannedLayout
<1>10. IsLayout(Result)
  BY <1>1, <1>9, LayoutIsEstablished
<1>11. \A b \in Buckets : Result.first[b] = Start(c, b) \div BlockSize
  <2> SUFFICES ASSUME NEW b \in Buckets PROVE Result.first[b] = Start(c, b) \div BlockSize
    OBVIOUS
  <2>1. b \in 0 .. NumBuckets
    BY Constants
  <2>2. Result.first[b] = SlotsUpTo(c.bucket_start[b])
    BY <2>1 DEF Result, LayoutOf
  <2> QED
    BY <1>2, <2>2, FilledWithin
<1> QED
  BY <1>7, <1>9, <1>10, <1>11

(* When all threads are done, every bucket has pointers, from one thread,  *)
(* which are at the begin of its area and at its last full block, and the  *)
(* slots are in the layout that the block permutation relies on, the same  *)
(* one for every order of the moves.                                       *)
THEOREM MovementEstablishesLayout == Spec => []EstablishesLayout
<1>1. IInv => EstablishesLayout
  BY IInvLayout
<1> QED
  BY <1>1, PlanIsFollowed, PTL

=============================================================================
