------------------------------ MODULE Scheduler ------------------------------
(***************************************************************************)
(* The scheduler of small tasks (scheduler.hpp) and the loop that uses it  *)
(* (processSmallTasks in parallel.hpp, sequential(begin, task, queue) in   *)
(* sequential.hpp).                                                        *)
(*                                                                         *)
(* Every thread works on its own PrivateQueue; a thread that runs dry      *)
(* takes tasks from the global FIFO queue, which the others feed from the  *)
(* front of their queues while somebody is idle.  The threads stop when    *)
(* the counter of idle threads reaches the number of threads.              *)
(*                                                                         *)
(* A task is an interval of the input.  An access to the counter or to the *)
(* global queue is one step; what a thread does to its own queue and its   *)
(* own task is merged with the access before or after it.                  *)
(***************************************************************************)
EXTENDS Integers, Sequences, FiniteSets

CONSTANTS
  Threads,       (* the threads; all of them run processSmallTasks         *)
  Size,          (* the number of elements of the input                    *)
  BaseCase,      (* 2 * kBaseCaseSize: tasks up to it are sorted at once   *)
  SingleLevel,   (* kSingleLevelThreshold: larger tasks are split          *)
  InitialQueues  (* what queueTasks may have left in the threads' queues   *)

(* Task: the elements begin .. end-1.                                      *)
Tasks == {task \in [begin : 0..Size, end : 0..Size] : task.begin < task.end}

Length(task)   == task.end - task.begin
Elements(task) == task.begin .. task.end - 1
Disjoint(p, q) == p.end <= q.begin \/ q.end <= p.begin

ASSUME SchedulerAssumption ==
  /\ IsFiniteSet(Threads) /\ Threads # {}
  /\ Size \in Nat /\ BaseCase \in Nat /\ SingleLevel \in Nat
  /\ BaseCase <= SingleLevel
  /\ InitialQueues \subseteq [Threads -> Seq(Tasks)]
  /\ \A q \in InitialQueues : \A t, u \in Threads :
       \A i \in DOMAIN q[t], j \in DOMAIN q[u] :
         << t, i >> # << u, j >> => Disjoint(q[t][i], q[u][j])

VARIABLES
  queue,  (* queue[t]: seq_task_queue, the vector m_v and the offset m_off *)
  glob,   (* m_glob_queue                                                  *)
  idle,   (* m_num_idle_threads                                            *)
  pc,     (* where each thread is in getJob, offerJob or with its task     *)
  task    (* task[t]: the task thread t has got, while it has one          *)

vars == << queue, glob, idle, pc, task >>

num_threads == Cardinality(Threads)

PCs == {"getJob", "addIdle", "readIdle", "readEmpty", "subIdle", "retryPop",
        "offerSize", "offerEmpty", "offerPush", "process", "exited"}

(* What a thread has in hand before it gets its first task.                *)
NoTask == [begin |-> 0, end |-> 0]

Init ==
  /\ \E q \in InitialQueues : queue = [t \in Threads |-> [v |-> q[t], off |-> 0]]
  /\ glob = << >>
  /\ idle = 0
  /\ pc   = [t \in Threads |-> "getJob"]
  /\ task = [t \in Threads |-> NoTask]

------------------------------------------------------------------------------
(* PrivateQueue: a vector whose first off elements are gone.               *)
QSize(q) == Len(q.v) - q.off

Emplace(q, tasks) == [q EXCEPT !.v = @ \o tasks]

Clear == [v |-> << >>, off |-> 0]

PopBack(q) ==
  LET v == SubSeq(q.v, 1, Len(q.v) - 1)
  IN  IF Len(v) = q.off THEN Clear ELSE [q EXCEPT !.v = v]

(* Faulty variant: the offset stays, so the task is also left behind.      *)
PopFrontNoOffset(q) == IF Len(q.v) = q.off + 1 THEN Clear ELSE q

PopFront(q) ==
  IF Len(q.v) = q.off + 1 THEN Clear ELSE [q EXCEPT !.off = @ + 1]

(* Where its tasks are in the vector.                                      *)
Slots(q) == q.off + 1 .. Len(q.v)

(* The tasks that splitting a task may add to the queue, in the order in   *)
(* which they are added: from the last bucket to the first.  Buckets of up *)
(* to BaseCase elements were sorted by the cleanup and equality buckets    *)
(* need no sorting.  No bucket is as large as the task, for the splitters  *)
(* are elements of the task and fall into at least two buckets.            *)
Parts(tk) ==
  {p \in Tasks : /\ tk.begin <= p.begin /\ p.end <= tk.end
                 /\ BaseCase < Length(p) /\ Length(p) < Length(tk)}

SplitOrders ==
  [tk \in Tasks |->
     IF Length(tk) <= SingleLevel THEN {<< >>}
     ELSE {s \in UNION {[1..k -> Parts(tk)] : k \in 0..(Size \div (BaseCase + 1))} :
             \A i, j \in DOMAIN s : i < j => s[j].end <= s[i].begin}]

------------------------------------------------------------------------------
(* getJob: a task of the thread's own queue.                               *)
PopLocal(t) ==
  /\ pc[t] = "getJob"
  /\ QSize(queue[t]) # 0
  /\ task'  = [task EXCEPT ![t] = queue[t].v[Len(queue[t].v)]]
  /\ queue' = [queue EXCEPT ![t] = PopBack(@)]
  /\ pc'    = [pc EXCEPT ![t] = "offerSize"]
  /\ UNCHANGED << glob, idle >>

(* m_glob_queue.try_pop(j): next is where the thread goes on if it fails.  *)
TryPopGlobal(t, next) ==
  /\ \/ /\ glob # << >>
        /\ task' = [task EXCEPT ![t] = Head(glob)]
        /\ glob' = Tail(glob)
        /\ pc'   = [pc EXCEPT ![t] = "offerSize"]
     \/ /\ glob = << >>
        /\ pc'   = [pc EXCEPT ![t] = next]
        /\ UNCHANGED << task, glob >>
  /\ UNCHANGED << queue, idle >>

(* Faulty variant: the thread signals that it is idle without a look at    *)
(* the global queue.                                                       *)
PopGlobalSkipped(t) ==
  /\ pc[t] = "getJob"
  /\ QSize(queue[t]) = 0
  /\ pc' = [pc EXCEPT ![t] = "addIdle"]
  /\ UNCHANGED << queue, glob, idle, task >>

(* getJob: the own queue is empty, try the global one.                     *)
PopGlobal(t) ==
  /\ pc[t] = "getJob"
  /\ QSize(queue[t]) = 0
  /\ TryPopGlobal(t, "addIdle")

(* "Signal idle."                                                          *)
AddIdle(t) ==
  /\ pc[t] = "addIdle"
  /\ idle' = idle + 1
  /\ pc'   = [pc EXCEPT ![t] = "readIdle"]
  /\ UNCHANGED << queue, glob, task >>

(* Faulty variant: one busy thread is overlooked.                          *)
ReadIdleOneEarly(t) ==
  /\ pc[t] = "readIdle"
  /\ pc' = [pc EXCEPT ![t] = IF idle >= num_threads - 1 THEN "exited" ELSE "readEmpty"]
  /\ UNCHANGED << queue, glob, idle, task >>

(* The loop condition; getJob returns false when everybody is idle.        *)
ReadIdle(t) ==
  /\ pc[t] = "readIdle"
  /\ pc' = [pc EXCEPT ![t] = IF idle = num_threads THEN "exited" ELSE "readEmpty"]
  /\ UNCHANGED << queue, glob, idle, task >>

(* Faulty variant: the thread takes a task while it counts as idle.        *)
ReadEmptyStaysIdle(t) ==
  /\ pc[t] = "readEmpty"
  /\ pc' = [pc EXCEPT ![t] = IF glob = << >> THEN "readIdle" ELSE "retryPop"]
  /\ UNCHANGED << queue, glob, idle, task >>

ReadEmpty(t) ==
  /\ pc[t] = "readEmpty"
  /\ pc' = [pc EXCEPT ![t] = IF glob = << >> THEN "readIdle" ELSE "subIdle"]
  /\ UNCHANGED << queue, glob, idle, task >>

SubIdle(t) ==
  /\ pc[t] = "subIdle"
  /\ idle' = idle - 1
  /\ pc'   = [pc EXCEPT ![t] = "retryPop"]
  /\ UNCHANGED << queue, glob, task >>

(* Faulty variant: a thread that comes too late is not idle again.         *)
RetryPopNotIdle(t) ==
  /\ pc[t] = "retryPop"
  /\ TryPopGlobal(t, "readIdle")

(* The second try_pop; a thread that comes too late is idle again.         *)
RetryPop(t) ==
  /\ pc[t] = "retryPop"
  /\ TryPopGlobal(t, "addIdle")

(* offerJob: the first two conditions ...                                  *)
OfferSize(t) ==
  /\ pc[t] = "offerSize"
  /\ pc' = [pc EXCEPT ![t] = IF QSize(queue[t]) > 1 /\ idle > 0
                             THEN "offerEmpty" ELSE "process"]
  /\ UNCHANGED << queue, glob, idle, task >>

(* ... the third one ...                                                   *)
OfferEmpty(t) ==
  /\ pc[t] = "offerEmpty"
  /\ pc' = [pc EXCEPT ![t] = IF glob = << >> THEN "offerPush" ELSE "process"]
  /\ UNCHANGED << queue, glob, idle, task >>

(* ... and addJob(my_queue.popFront()).                                    *)
OfferPush(t) ==
  /\ pc[t] = "offerPush"
  /\ glob'  = Append(glob, queue[t].v[queue[t].off + 1])
  /\ queue' = [queue EXCEPT ![t] = PopFront(@)]
  /\ pc'    = [pc EXCEPT ![t] = "process"]
  /\ UNCHANGED << idle, task >>

(* baseCaseSort, or sequential(): the task is sorted but for the subtasks. *)
Process(t) ==
  /\ pc[t] = "process"
  /\ \E subtasks \in SplitOrders[task[t]] :
       queue' = [queue EXCEPT ![t] = Emplace(@, subtasks)]
  /\ pc' = [pc EXCEPT ![t] = "getJob"]
  /\ UNCHANGED << glob, idle, task >>

(* All threads have returned from processSmallTasks.                       *)
Finished ==
  /\ \A t \in Threads : pc[t] = "exited"
  /\ UNCHANGED vars

Step(t) ==
  \/ PopLocal(t) \/ PopGlobal(t) \/ AddIdle(t) \/ ReadIdle(t) \/ ReadEmpty(t)
  \/ SubIdle(t) \/ RetryPop(t) \/ OfferSize(t) \/ OfferEmpty(t) \/ OfferPush(t)
  \/ Process(t)

Next == (\E t \in Threads : Step(t)) \/ Finished

Spec == Init /\ [][Next]_vars

(* The operating system keeps running every thread.                        *)
FairSpec == Spec /\ \A t \in Threads : WF_vars(Step(t))

------------------------------------------------------------------------------
Holds(t)  == pc[t] \in {"offerSize", "offerEmpty", "offerPush", "process"}
Idling(t) == pc[t] \in {"readIdle", "readEmpty", "subIdle", "exited"}

Idlers == {t \in Threads : Idling(t)}
Held   == {t \in Threads : Holds(t)}

(* The places in which there are tasks (a thread's hands, a thread's queue,*)
(* the global queue) and the tasks in them.                                *)
Places ==
  {<< "hands", t, 0 >> : t \in Held}
  \cup {<< "global", 0, i >> : i \in 1 .. Len(glob)}
  \cup UNION {{<< "queue", t, i >> : i \in Slots(queue[t])} : t \in Threads}

TaskAt(place) ==
  CASE place[1] = "hands"  -> task[place[2]]
    [] place[1] = "queue"  -> queue[place[2]].v[place[3]]
    [] place[1] = "global" -> glob[place[3]]

Unsorted == {TaskAt(place) : place \in Places}

TypeOK ==
  /\ queue \in [Threads -> [v : Seq(Tasks), off : Nat]]
  /\ \A t \in Threads : queue[t].off <= Len(queue[t].v)
  /\ glob \in Seq(Tasks)
  /\ idle \in 0..num_threads
  /\ pc \in [Threads -> PCs]
  /\ task \in [Threads -> Tasks \cup {NoTask}]
  /\ \A t \in Held : task[t] \in Tasks

(* The counter tells how many threads have signalled that they are idle,   *)
(* through every race for the last task of the global queue.               *)
CountsIdle == idle = Cardinality(Idlers)

(* A task in the global queue is never forgotten: some thread is awake     *)
(* that will look at the global queue before it signals that it is idle.   *)
GlobalIsServed ==
  glob # << >> => \E t \in Threads : pc[t] = "getJob" \/ pc[t] = "retryPop" \/ Holds(t)

(* getJob returns false only when no thread has a task or will get one, so *)
(* that no thread goes home while there is work: the "idle = number of     *)
(* threads" test is never true too early.                                  *)
NoWorkAfterExit ==
  (\E t \in Threads : pc[t] = "exited") =>
    /\ glob = << >>
    /\ \A t \in Threads :
         QSize(queue[t]) = 0 /\ (Idling(t) \/ pc[t] \in {"retryPop", "addIdle"})

(* No two tasks that exist at the same time overlap, wherever they are:    *)
(* two threads never sort the same elements at the same time, and no task  *)
(* is in two places.                                                       *)
NoOverlap ==
  \A p, q \in Places : p # q => Disjoint(TaskAt(p), TaskAt(q))

SetOf(s)  == {s[i] : i \in DOMAIN s}
SplitSets == [tk \in Tasks |-> {SetOf(s) : s \in SplitOrders[tk]}]

Pool == INSTANCE AbstractTaskPool WITH
          pool         <- Unsorted,
          exited       <- {t \in Threads : pc[t] = "exited"},
          Splits       <- SplitSets,
          InitialPools <- {UNION {SetOf(q[t]) : t \in Threads} : q \in InitialQueues}

(* Every task, given or split off, is processed exactly once, and threads  *)
(* leave only an empty pool.                                               *)
ImplementsTaskPool == Pool!Spec

(* Every thread returns from processSmallTasks: the spinning threads see   *)
(* the counter complete even when it goes down and up again behind them.   *)
AllThreadsReturn == <>(\A t \in Threads : pc[t] = "exited")

==============================================================================
