------------------------- MODULE MCParallelSorter -------------------------
EXTENDS ParallelSorter

Do(j, n) == [job |-> j, n |-> n]

(* A pool of the standard kind serves a sorter that sorts twice, and       *)
(* smaller teams, down to a team of one; another one is joined by a team   *)
(* that executes a big task.                                               *)
MCLives == {
  [kind |-> "std", calls |-> << Do("alloc", 3), Do("sort", 3), Do("sort", 3) >>],
  [kind |-> "std", calls |-> << Do("alloc", 1), Do("partition", 2), Do("sort", 3) >>],
  [kind |-> "joining", calls |-> << Do("partition", 3) >>]}

MCFirst == [alloc |-> "alloc", sort |-> "register", partition |-> "register"]
===========================================================================
