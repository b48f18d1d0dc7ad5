----------------------------- MODULE StateMachine -----------------------------
(***************************************************************************)
(* The prototype of a sorter without recursion (ips4o_state_machine.hpp).  *)
(* The handler for the state of the task on top of the stack is the next   *)
(* step.  A task that waits for its sample also has num_samples, step,     *)
(* num_buckets and splitters.                                              *)
(***************************************************************************)
EXTENDS SampleSort

handle_simple_cases ==
  /\ Top.op = "SIMPLE_CASES"
  /\ LET simple == SimpleCase(Elements(Top))
     IN IF simple # << >> THEN arr' = Put(Top.begin, simple[1]) /\ stack' = Pop
                          ELSE stack' = Go("BASE_CASE") /\ UNCHANGED arr

handle_base_case ==
  /\ Top.op = "BASE_CASE"
  /\ IF SizeOf(Top) <= BaseCaseMultiplier * BaseCaseSize
       THEN arr' = Put(Top.begin, BaseCaseSort(Elements(Top))) /\ stack' = Pop
       ELSE stack' = Go("SAMPLE_SELECT") /\ UNCHANGED arr

handle_sample_select ==
  /\ Top.op = "SAMPLE_SELECT"
  /\ LET n == SizeOf(Top)
         context == [op |-> "SAMPLE_SORTED", begin |-> Top.begin, end |-> Top.end,
                     num_samples |-> NumSamples(n), step |-> StepSize(n),
                     num_buckets |-> 2^LogBuckets(n), splitters |-> << >>]
     IN /\ \E s \in SelectSample(Elements(Top), NumSamples(n)) : arr' = Put(Top.begin, s)
        /\ stack' = << Task("SIMPLE_CASES", Top.begin, Top.begin + NumSamples(n)), context >>
                    \o Pop

(* Splitters are taken from the sample only, and no value twice.           *)
handle_sample_sorted ==
  /\ Top.op = "SAMPLE_SORTED"
  /\ LET s == Elements(Top)
         add(chosen, i) ==
           IF /\ Len(chosen) < Top.num_buckets - 1
              /\ chosen = << >> \/ Last(chosen) < s[i * Top.step]
             THEN Append(chosen, s[i * Top.step]) ELSE chosen
     IN stack' = << [Top EXCEPT !.op = "PARTITION",
                       !.splitters = FoldLeft(add, << >>, [i \in 1 .. Top.num_samples \div Top.step
                                                             |-> i])] >> \o Pop
  /\ UNCHANGED arr

(* Faulty variant: std::upper_bound.                                       *)
UpperBound(splitters, v) == Cardinality({i \in DOMAIN splitters : splitters[i] <= v})

(* std::lower_bound.                                                       *)
LowerBound(splitters, v) == Cardinality({i \in DOMAIN splitters : splitters[i] < v})

handle_partition ==
  /\ Top.op = "PARTITION"
  /\ LET k == Len(Top.splitters) + 1
         s == Elements(Top)
         buckets == Partition(s, k, [i \in DOMAIN s |-> LowerBound(Top.splitters, s[i])])
         unsorted == SelectSeq([i \in 1 .. k |-> k + 1 - i], LAMBDA i : Len(buckets[i]) > 1)
     IN /\ arr' = Put(Top.begin, FlattenSeq(buckets))
        /\ stack' = [j \in DOMAIN unsorted |->
                       Task("SIMPLE_CASES", Top.begin + EndOf(buckets, unsorted[j] - 1),
                                            Top.begin + EndOf(buckets, unsorted[j]))] \o Pop

StateMachineStep ==
  \/ handle_simple_cases \/ handle_base_case \/ handle_sample_select
  \/ handle_sample_sorted \/ handle_partition
===============================================================================
