-------------------------- MODULE MCSequentialSorters --------------------------
(* Every short input of three values, and longer ones: whose sample is     *)
(* divided itself, too; of two levels, where all splitters may be equal;   *)
(* and with an unsorted last bucket behind an equality bucket.             *)
EXTENDS SequentialSorters

Twos(n) == [i \in 1 .. n |-> 2]

Short(n)      == [1 .. n -> 1 .. 3]
LargeSample   == Twos(7) \o << 1 >> \o Twos(4) \o << 1 >> \o Twos(3)
OneSplitter   == Twos(9) \o << 1 >> \o Twos(8)
BehindEqual   == << 4, 3, 4, 3, 4 >> \o Twos(12)

Inputs(caller) ==
  CASE caller = "sort"          -> UNION {Short(n) : n \in 0 .. 6} \cup {OneSplitter}
    [] caller = "make_sorter"   -> UNION {Short(n) : n \in 0 .. 5} \cup {LargeSample}
    [] caller = "small_task"    -> {OneSplitter, LargeSample, BehindEqual}
    [] caller = "state_machine" -> UNION {Short(n) : n \in 0 .. 6}

MCCalls == UNION {[machine : {m}, input : Inputs(m)] : m \in DOMAIN FirstOp}
===============================================================================
