--------------------------- MODULE SequentialSorters ---------------------------
(***************************************************************************)
(* The sequential ways to sort: ips4o::sort, a sorter of make_sorter, a    *)
(* small task of the parallel algorithm, and the state machine.            *)
(***************************************************************************)
EXTENDS SequentialSorter, StateMachine

CONSTANT Calls  (* records of machine and input *)

vars == << machine, input, arr, stack, classifier, params >>

FirstOp == [sort |-> "sort", make_sorter |-> "sorter", small_task |-> "sequential",
            state_machine |-> "SIMPLE_CASES"]

Init ==
  /\ \E c \in Calls : machine = c.machine /\ input = c.input
  /\ arr = SubSeq(input, 1, Len(input))
  /\ stack = << Task(FirstOp[machine], 0, Len(input)) >>
  /\ classifier = None /\ params = << 0, 0 >>

Step ==
  /\ stack # << >>
  /\ SequentialStep \/ (StateMachineStep /\ UNCHANGED seqVars)
  /\ UNCHANGED << machine, input >>

Finished == stack = << >> /\ UNCHANGED vars

Next == Step \/ Finished

(* The thread goes on: WF_vars(Step), as a step is enabled as long as there*)
(* is a task, in a form in which TLC need not evaluate ENABLED Step.       *)
Fairness == []<>(stack = << >>) \/ []<><<stack' # stack>>_vars

Spec == Init /\ [][Next]_vars /\ Fairness

-------------------------------------------------------------------------------
Count(a, v) == Cardinality({p \in DOMAIN a : a[p] = v})

(* When the stack is empty, the array is sorted and has the elements of    *)
(* the input: cleanup sorts exactly the buckets that are no subtasks and   *)
(* have different elements, and the classifier sends an element to a       *)
(* bucket between its neighbours.                                          *)
SortedAtEnd ==
  stack = << >> =>
    /\ \A p, q \in DOMAIN arr : p <= q => arr[p] <= arr[q]
    /\ \A p \in DOMAIN input : Count(arr, input[p]) = Count(input, input[p])

(* The sequential sorter comes to an end, whatever elements are sampled:   *)
(* where all splitters are equal there are enough of them for equality     *)
(* buckets.                                                                *)
SequentialTerminates == <>(machine = "state_machine" \/ stack = << >>)

(* Partitioning leaves no task as large as the one it divides.  Only the   *)
(* state machine may do so, if its one splitter is as large as every       *)
(* element; then the next sample has to be better.                         *)
PartitionsDivide ==
  [][stack # << >> /\ Top.op \in {"partition", "PARTITION"} =>
       \A i \in 1 .. Len(stack') - Len(Pop) :
         \/ SizeOf(stack'[i]) < SizeOf(Top)
         \/ /\ Top.op = "PARTITION" /\ Len(Top.splitters) = 1
            /\ \A j \in 1 .. SizeOf(Top) : Elements(Top)[j] <= Top.splitters[1]]_vars
===============================================================================
