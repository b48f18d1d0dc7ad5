------------------------------ MODULE Classifier ------------------------------
(***************************************************************************)
(* The choice of splitters and the classifier (config.hpp, sampling.hpp,   *)
(* classifier.hpp).  A task is a sequence of comparable values.  The code  *)
(* counts splitters and buckets from 0, and so do the functions here.      *)
(***************************************************************************)
EXTENDS Integers, FiniteSets, SequencesExt

CONSTANTS
  BaseCaseSize,           (* kBaseCaseSize                                 *)
  LogMaxBuckets,          (* kLogBuckets                                   *)
  EqualBucketsThreshold,  (* kEqualBucketsThreshold                        *)
  OversamplingPercent     (* OversampleF_                                  *)

ASSUME ClassifierAssumption ==
  /\ BaseCaseSize \in Nat \ {0} /\ LogMaxBuckets \in Nat \ {0}
  /\ EqualBucketsThreshold \in Nat /\ OversamplingPercent \in Nat

SmallerOf(a, b) == IF a <= b THEN a ELSE b
LargerOf(a, b)  == IF a <= b THEN b ELSE a

(* log2 of utils.hpp; 0 for 0.                                             *)
Log2(n) == IF n = 0 THEN 0 ELSE CHOOSE k \in 0 .. n : 2^k <= n /\ n < 2^(k + 1)

SingleLevelThreshold == BaseCaseSize * 2^LogMaxBuckets
TwoLevelThreshold    == SingleLevelThreshold * 2^LogMaxBuckets

LogBuckets(n) ==
  CASE n <= SingleLevelThreshold -> LargerOf(1, Log2(n \div BaseCaseSize))
    [] SingleLevelThreshold < n /\ n <= TwoLevelThreshold ->
         LargerOf(1, (Log2(n \div BaseCaseSize) + 1) \div 2)
    [] OTHER -> LogMaxBuckets

(* oversamplingFactor, as an integer.                                      *)
StepSize(n)   == LargerOf(1, (OversamplingPercent * Log2(n)) \div 100)
NumSamples(n) == SmallerOf(StepSize(n) * 2^LogBuckets(n) - 1, n \div 2)

Swap(s, i, j) == [s EXCEPT ![i] = s[j], ![j] = s[i]]

(* selectSample: what a sequence may become when k elements of it are      *)
(* chosen at random and moved to its front.                                *)
SelectSample(s, k) ==
  FoldLeft(LAMBDA S, i : UNION {{Swap(x, i, j) : j \in i .. Len(s)} : x \in S},
           {s}, [i \in 1 .. k |-> i])

(* "Choose the splitters", "skip duplicates": of the task s whose sample is*)
(* sorted.                                                                 *)
ChooseSplitters(s) ==
  LET step == StepSize(Len(s))
  IN FoldLeft(LAMBDA chosen, i : IF Last(chosen) < s[i * step] THEN Append(chosen, s[i * step])
                                                              ELSE chosen,
              << s[step] >>, [i \in 1 .. 2^LogBuckets(Len(s)) - 2 |-> i + 1])

(* Faulty variant: one more equal splitter is needed.                      *)
UseEqualBucketsLater(num_buckets, chosen) ==
  num_buckets - 1 - Len(chosen) > EqualBucketsThreshold

UseEqualBuckets(num_buckets, chosen) ==
  num_buckets - 1 - Len(chosen) >= EqualBucketsThreshold

(* build: the last of k - 1 splitters once more at the end.                *)
Duplicated(sorted, k) == [i \in 0 .. k - 1 |-> sorted[SmallerOf(i, k - 2)]]

(* build: the tree of k - 1 splitters; the children of node i are nodes    *)
(* 2 i and 2 i + 1, and range[i] is what node i is the middle of.          *)
BuildTree(splitters, k) ==
  LET mid(r) == r[1] + (r[2] - r[1]) \div 2
      range[i \in 1 .. k - 1] ==
        IF i = 1 THEN << 0, k - 1 >>
        ELSE LET r == range[i \div 2]
             IN IF i % 2 = 0 THEN << r[1], mid(r) >> ELSE << mid(r), r[2] >>
  IN [i \in 1 .. k - 1 |-> splitters[mid(range[i])]]

(* buildClassifier: the splitters, filled up to a power of two with the    *)
(* last one that was read.                                                 *)
BuildClassifier(s) ==
  LET chosen  == ChooseSplitters(s)
      largest == 2^LogBuckets(Len(s))
      log     == Log2(Len(chosen)) + 1
      last    == s[(largest - 1) * StepSize(Len(s))]
      sorted  == [i \in 0 .. 2^log - 2 |-> IF i < Len(chosen) THEN chosen[i + 1] ELSE last]
  IN [log_buckets |-> log,
      splitters   |-> Duplicated(sorted, 2^log),
      tree        |-> BuildTree(Duplicated(sorted, 2^log), 2^log),
      equal       |-> UseEqualBuckets(largest, chosen)]

NumBuckets(c) == 2^c.log_buckets * (IF c.equal THEN 2 ELSE 1)

(* classify: the bucket of a value.                                        *)
Classify(c, value) ==
  LET k    == 2^c.log_buckets
      leaf == FoldLeft(LAMBDA b, l : 2 * b + (IF c.tree[b] < value THEN 1 ELSE 0),
                       1, [l \in 1 .. c.log_buckets |-> l]) - k
  IN IF c.equal THEN 2 * leaf + (IF value < c.splitters[leaf] THEN 0 ELSE 1) ELSE leaf
===============================================================================
