--------------------------- MODULE SequentialSorter ---------------------------
(***************************************************************************)
(* The sequential algorithm (sequential.hpp, ips4o.hpp).  Recursive calls  *)
(* and the private queue of small tasks are the stack: both continue with  *)
(* the leftmost of the subtasks.  A sorter has one classifier and one set  *)
(* of parameters, which sampling, that sorts its sample with the same      *)
(* sorter, may overwrite.  Partitioning is stable here; the phases of it   *)
(* have models of their own.                                               *)
(***************************************************************************)
EXTENDS SampleSort

VARIABLES
  classifier,  (* local_.classifier, or None                               *)
  params       (* begin_ and end_                                          *)

None    == << >>
seqVars == << classifier, params >>

(* Small input, then simple cases: ips4o::sort and the sorter's operator().*)
Sort ==
  /\ Top.op \in {"sort", "sorter"}
  /\ LET s == Elements(Top)
         simple == SimpleCase(s)
     IN \/ /\ simple # << >>
           /\ arr' = Put(Top.begin, simple[1]) /\ stack' = Pop
        \/ /\ simple = << >>
           /\ Top.op = "sort" /\ Len(s) <= BaseCaseMultiplier * BaseCaseSize
           /\ arr' = Put(Top.begin, BaseCaseSort(s)) /\ stack' = Pop
        \/ /\ simple = << >>
           /\ Top.op = "sort" => Len(s) > BaseCaseMultiplier * BaseCaseSize
           /\ stack' = Go("sequential") /\ UNCHANGED arr
  /\ UNCHANGED seqVars

(* sequential(begin, end), and processSmallTasks with a task.              *)
Sequential ==
  /\ Top.op = "sequential"
  /\ IF SizeOf(Top) <= 2 * BaseCaseSize
       THEN arr' = Put(Top.begin, BaseCaseSort(Elements(Top))) /\ stack' = Pop
       ELSE stack' = Go("sample") /\ UNCHANGED arr
  /\ UNCHANGED seqVars

(* Faulty variant: the parameters are set before the sample is sorted.     *)
SetsParametersEarly(op) == op = "sample"

(* "Must do this AFTER sampling, because sampling will recurse."           *)
SetsParameters(op) == op = "build"

Parameters == params' = IF SetsParameters(Top.op) THEN << Top.begin, Top.end >> ELSE params

(* buildClassifier: select the sample and sort it.                         *)
Sample ==
  /\ Top.op = "sample"
  /\ LET k == NumSamples(SizeOf(Top))
     IN /\ \E s \in SelectSample(Elements(Top), k) : arr' = Put(Top.begin, s)
        /\ stack' = << Task("sequential", Top.begin, Top.begin + k) >> \o Go("build")
  /\ Parameters /\ UNCHANGED classifier

Build ==
  /\ Top.op = "build"
  /\ classifier' = BuildClassifier(Elements(Top))
  /\ stack' = Go("partition")
  /\ Parameters /\ UNCHANGED arr

(* The subtasks, in the order in which they are sorted: the buckets that   *)
(* are no equality buckets and that cleanup does not sort.                 *)
Subtasks(begin, buckets, equal) ==
  LET k == Len(buckets)
      sorted == {i \in 0 .. k - 1 : \/ Len(buckets[i + 1]) <= 2 * BaseCaseSize
                                    \/ equal /\ i % 2 = 1 /\ i # k - 1}
  IN [j \in 1 .. k - Cardinality(sorted) |->
        LET i == SetToSortSeq((0 .. k - 1) \ sorted, <)[j]
        IN Task("sequential", begin + EndOf(buckets, i), begin + EndOf(buckets, i + 1))]

(* partition with cleanup's base case, and the recursion.                  *)
Divide ==
  /\ Top.op = "partition"
  /\ LET s == Elements(Task("partition", params[1], params[2]))
         last_level == Len(s) <= SingleLevelThreshold
         buckets == Partition(s, NumBuckets(classifier),
                              [i \in DOMAIN s |-> Classify(classifier, s[i])])
         cleaned(b) == IF last_level \/ Len(b) <= 2 * BaseCaseSize THEN BaseCaseSort(b) ELSE b
     IN /\ arr' = Put(params[1], FlattenSeq([i \in DOMAIN buckets |-> cleaned(buckets[i])]))
        /\ stack' = IF last_level THEN Pop
                    ELSE Subtasks(params[1], buckets, classifier.equal) \o Pop
  /\ classifier' = None
  /\ UNCHANGED params

SequentialStep == Sort \/ Sequential \/ Sample \/ Build \/ Divide
===============================================================================
