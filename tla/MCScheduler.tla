----------------------------- MODULE MCScheduler -----------------------------
(* Three threads and an input of six elements whose tasks of more than two *)
(* are split.  In the first layout one thread has everything, in the       *)
(* second two threads have enough to feed the third at the same time.      *)
EXTENDS Scheduler

MCThreads == 1..3
MCSize == 6
MCBaseCase == 1
MCSingleLevel == 2

Task(b, e) == [begin |-> b, end |-> e]

MCInitialQueues ==
  { << << Task(0, 6) >>, << >>, << >> >>,
    << << Task(2, 3), Task(1, 2), Task(0, 1) >>,
       << Task(5, 6), Task(4, 5), Task(3, 4) >>, << >> >> }

==============================================================================
