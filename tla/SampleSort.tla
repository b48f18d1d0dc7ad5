------------------------------ MODULE SampleSort ------------------------------
(***************************************************************************)
(* What the sequential sorter and the state machine have in common: the    *)
(* array, a stack of tasks, and the simple cases (base_case.hpp).  Tasks   *)
(* are records of what is to be done next, op, and of begin and end.       *)
(***************************************************************************)
EXTENDS Classifier

CONSTANT BaseCaseMultiplier  (* kBaseCaseMultiplier *)

VARIABLES
  machine,  (* what was called to sort; it does not change                 *)
  input,    (* the array at the start; it does not change                  *)
  arr,      (* the array                                                   *)
  stack     (* the tasks, the current one first                            *)

Task(op, begin, end) == [op |-> op, begin |-> begin, end |-> end]
SizeOf(t) == t.end - t.begin

Top  == Head(stack)
Pop  == Tail(stack)
Go(op) == << [Top EXCEPT !.op = op] >> \o Pop

(* The elements of a task, and the array with other ones in their place.   *)
Elements(t)   == SubSeq(arr, t.begin + 1, t.end)
Put(begin, s) == SubSeq(arr, 1, begin) \o s \o SubSeq(arr, begin + Len(s) + 1, Len(arr))

IsAscending(s)  == \A i \in 1 .. Len(s) - 1 : s[i] <= s[i + 1]
IsDescending(s) == \A i \in 1 .. Len(s) - 1 : s[i] >= s[i + 1]

(* sortSimpleCases; the result is what the task becomes, or nothing.       *)
SimpleCase(s) ==
  IF s = << >> THEN << s >>
  ELSE IF s[Len(s)] >= s[1]
    THEN IF IsAscending(s) THEN << s >> ELSE << >>
    ELSE IF IsDescending(s) THEN << Reverse(s) >> ELSE << >>

(* insertionSort: an element that is not smaller than the first one needs  *)
(* no test for the begin.                                                  *)
Insert(s, value) ==
  IF value < s[1] THEN << value >> \o s
  ELSE LET k == CHOOSE k \in 1 .. Len(s) :
                  s[k] <= value /\ \A j \in k + 1 .. Len(s) : value < s[j]
       IN SubSeq(s, 1, k) \o << value >> \o SubSeq(s, k + 1, Len(s))

BaseCaseSort(s) == IF s = << >> THEN s ELSE FoldLeft(Insert, << s[1] >>, Tail(s))

(* The elements of s by bucket, given their buckets' numbers, and where a  *)
(* bucket starts and ends.                                                 *)
Partition(s, k, numbers) ==
  FoldLeft(LAMBDA buckets, i : [buckets EXCEPT ![numbers[i] + 1] = Append(@, s[i])],
           FoldLeft(LAMBDA none, b : Append(none, << >>), << >>, [b \in 1 .. k |-> b]),
           [i \in DOMAIN s |-> i])

EndOf(buckets, b) == FoldLeft(LAMBDA n, x : n + Len(x), 0, SubSeq(buckets, 1, b))
===============================================================================
