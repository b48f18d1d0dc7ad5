--------------------------- MODULE AbstractTaskPool ---------------------------
(***************************************************************************)
(* What the scheduler of small tasks promises: a pool of tasks from which  *)
(* every task is processed exactly once, and which a thread leaves only    *)
(* when nothing is left to do, whoever would have to do it.                *)
(***************************************************************************)
EXTENDS Naturals

CONSTANTS
  Threads,        (* the threads that process the tasks                     *)
  Splits,         (* Splits[task]: the sets of tasks it may be split into   *)
  InitialPools    (* the sets of tasks the pool may start with              *)

VARIABLES
  pool,   (* the tasks that have not been processed yet   *)
  exited  (* the threads that have left                   *)

vars == << pool, exited >>

Init ==
  /\ pool \in InitialPools
  /\ exited = {}

Process(task) ==
  /\ \E subtasks \in Splits[task] : pool' = (pool \ {task}) \cup subtasks
  /\ UNCHANGED exited

Exit(t) ==
  /\ pool = {}
  /\ exited' = exited \cup {t}
  /\ UNCHANGED pool

Next ==
  \/ \E task \in pool : Process(task)
  \/ \E t \in Threads : Exit(t)

Spec == Init /\ [][Next]_vars

===============================================================================
