----------------------------- MODULE SortedCheck ------------------------------
(***************************************************************************)
(* detail::isSorted (base_case.hpp): each thread of the pool tests a       *)
(* stripe of the input and stores its result in a std::vector<bool>.       *)
(* The bits of such a vector share words, and storing a bit is a read and  *)
(* a write of its word, which other threads may come between.              *)
(*                                                                         *)
(* All that the test can see of the input is the set of its descents, the  *)
(* positions i whose element is less than the one at i - 1.                *)
(***************************************************************************)
EXTENDS Integers, FiniteSets

CONSTANTS
  NumThreads,  (* thread_pool.numThreads()                                  *)
  Sizes        (* how many elements the input may have                      *)

(* Smaller inputs are sorted by one thread, without this test: numThreadsFor*)
(* wants kMinParallelBlocksPerThread = 4 blocks for each thread.            *)
ASSUME SortedCheckAssumption ==
  NumThreads \in Nat \ {0} /\ \A n \in Sizes : n \in Nat /\ n >= 4 * NumThreads

Threads == 0 .. NumThreads - 1

VARIABLES
  size,       (* the number of elements                                     *)
  descents,   (* the descents of the input                                  *)
  is_sorted,  (* the threads whose bits are set in is_sorted                *)
  word,       (* word[t]: the bits that thread t has read                   *)
  pc          (* "test", "store" or "done" for each thread                  *)

vars == << size, descents, is_sorted, word, pc >>

(* All bits are in one word.                                               *)
Init ==
  /\ size \in Sizes
  /\ descents \in SUBSET (1 .. size - 1)
  /\ is_sorted = {}
  /\ word = [t \in Threads |-> {}]
  /\ pc   = [t \in Threads |-> "test"]

MinOf(a, b) == IF a <= b THEN a ELSE b

StripeSize == (size + NumThreads - 1) \div NumThreads

(* Faulty variant: the stripes do not overlap.                             *)
TestedAlone(t) ==
  MinOf(StripeSize * t, size) .. MinOf(StripeSize * (t + 1), size) - 1

(* The positions my_begin .. my_end - 1 that a thread tests: its stripe    *)
(* and the first element of the next one.                                  *)
Tested(t) ==
  MinOf(StripeSize * t, size) .. MinOf(StripeSize * (t + 1) + 1, size) - 1

(* std::is_sorted on the thread's positions.                               *)
StripeIsSorted(t) == \A i \in descents : ~(i \in Tested(t) /\ i - 1 \in Tested(t))

(* The thread tests its stripe and reads the word that holds its bit.      *)
ReadWord(t) ==
  /\ pc[t] = "test"
  /\ word' = [word EXCEPT ![t] = is_sorted]
  /\ pc'   = [pc EXCEPT ![t] = "store"]
  /\ UNCHANGED << size, descents, is_sorted >>

(* It writes the word with its bit set or cleared.                         *)
WriteWord(t) ==
  /\ pc[t] = "store"
  /\ is_sorted' = IF StripeIsSorted(t) THEN word[t] \cup {t} ELSE word[t] \ {t}
  /\ pc' = [pc EXCEPT ![t] = "done"]
  /\ UNCHANGED << size, descents, word >>

(* The thread pool has returned.                                           *)
Finished ==
  /\ \A t \in Threads : pc[t] = "done"
  /\ UNCHANGED vars

Next == (\E t \in Threads : ReadWord(t) \/ WriteWord(t)) \/ Finished

Spec == Init /\ [][Next]_vars

------------------------------------------------------------------------------
(* std::all_of: what isSorted returns.                                     *)
Result == is_sorted = Threads

(* An input that is not sorted is never taken for sorted: the stripes      *)
(* overlap by enough to see every descent, and no lost bit can hide one.   *)
NeverSkipsUnsorted ==
  (\A t \in Threads : pc[t] = "done") /\ Result => descents = {}

(* "Do nothing if input is already sorted." (base_case.hpp:83)             *)
RecognisesSorted ==
  (\A t \in Threads : pc[t] = "done") /\ descents = {} => Result

==============================================================================
