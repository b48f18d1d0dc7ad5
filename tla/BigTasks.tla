------------------------------ MODULE BigTasks ------------------------------
(***************************************************************************)
(* Tasks that are processed by several threads (parallel.hpp): queueTasks  *)
(* divides the threads of a task among its subtasks, and the first thread  *)
(* of each team executes the next partitioning step with the others, which *)
(* join its pool.  Partitioning itself gives any buckets here.  A pool     *)
(* (ThreadPool.tla) is named by the task it was made for.                  *)
(***************************************************************************)
EXTENDS Integers, FiniteSets, Sequences

CONSTANTS
  Size,            (* end - begin of the whole input                       *)
  NumThreads,      (* num_threads                                          *)
  BaseCaseSize,    (* kBaseCaseSize                                        *)
  SingleLevel,     (* kSingleLevelThreshold of the sorter's configuration  *)
  SubSingleLevel,  (* and of the configuration of the teams' sorters       *)
  BucketCounts     (* the numbers of buckets that logBuckets may choose    *)

ASSUME BigTasksAssumption ==
  /\ Size \in Nat \ {0} /\ NumThreads \in Nat \ {0} /\ NumThreads <= Size
  /\ BaseCaseSize \in Nat /\ SingleLevel \in Nat /\ SubSingleLevel \in Nat
  /\ BucketCounts \subseteq Nat \ {0, 1}

VARIABLES
  pc,            (* where the threads are                                  *)
  big_tasks,     (* big_tasks[t]                                           *)
  thread_pools,  (* thread_pools[t]: a pool or NoPool                      *)
  queue,         (* queue[t]: the tasks in seq_task_queue of thread t      *)
  in,            (* in[t]: the pool that t has joined or runs              *)
  released,      (* the pools whose threads have been released             *)
  result,        (* result[t]: what a primary thread got from partitioning *)
  bucket,        (* bucket[t]: the next bucket in the loops of queueTasks  *)
  sorted         (* the positions whose elements are in their final place  *)

vars == << pc, big_tasks, thread_pools, queue, in, released, result, bucket, sorted >>

Threads == 0 .. NumThreads - 1
NoPool  == [begin |-> 0, end |-> 0, size |-> 0]
Whole   == [begin |-> 0, end |-> Size, size |-> NumThreads]
NoTask  == [has_task |-> FALSE, begin |-> 0, end |-> 0, task_thread_id |-> 0, root_thread |-> 0]

CeilDiv(a, b) == (a + b - 1) \div b
stripe == CeilDiv(Size, NumThreads)

(* bucket_start[0 .. k] of n elements.                                     *)
Boundaries(k, n) ==
  {[i \in 0 .. k |-> IF i = 0 THEN 0 ELSE IF i = k THEN n ELSE b[i]] :
     b \in {b \in [1 .. k - 1 -> 0 .. n] : \A i, j \in 1 .. k - 1 : i < j => b[i] <= b[j]}}

Start(p, i) == p.bucket_start[i]
Stop(p, i)  == p.bucket_start[i + 1]

Buckets(p)      == 0 .. p.num_buckets - 1
EqualBuckets(p) == {i \in Buckets(p) : p.equal /\ i % 2 = 1 /\ i # p.num_buckets - 1}

(* Faulty variant: equality buckets are queued, too.                       *)
QueuedBucketsAll(p) == Buckets(p)

(* "Skip equality buckets".                                                *)
QueuedBuckets(p) == Buckets(p) \ EqualBuckets(p)

(* What partitioning may return for a task of n elements.  With equality   *)
(* buckets, every second bucket but the last is one, and the last but one  *)
(* is empty.  Splitters come from the task, so that no bucket that is to   *)
(* be sorted further is as large as the task.                              *)
Partitions(n) ==
  {p \in UNION {[num_buckets : {k}, bucket_start : Boundaries(k, n), equal : BOOLEAN] :
                  k \in UNION {{c, 2 * c} : c \in BucketCounts}} :
     /\ p.num_buckets \in {IF p.equal THEN 2 * c ELSE c : c \in BucketCounts}
     /\ p.equal => Start(p, p.num_buckets - 2) = Stop(p, p.num_buckets - 2)
     /\ \A i \in QueuedBuckets(p) : Stop(p, i) - Start(p, i) < n}

Round(x) == (x + stripe \div 2) \div stripe

(* Faulty variant: a team gets each thread whose stripe it overlaps.       *)
ThreadBeginDown(x) == x \div stripe

ThreadBegin(x) == Round(x)
ThreadEnd(x)   == Round(x)

(* The threads that the thread t, which runs a pool, shares it with.       *)
Team(t) == t .. t + in[t].size - 1

(* The positions that partitioning itself puts in their final place: the   *)
(* elements of equality buckets, and on the last level all of them, since  *)
(* writeMargins sorts every bucket.                                        *)
InPlace(n, offset, p, threshold) ==
  IF n <= threshold THEN offset .. offset + n - 1
  ELSE UNION {offset + Start(p, i) .. offset + Stop(p, i) - 1 : i \in EqualBuckets(p)}

-----------------------------------------------------------------------------
(* The whole input is the task of all threads; they are together already.  *)
Init ==
  /\ pc = [t \in Threads |-> IF t = 0 THEN "sort" ELSE "wait"]
  /\ big_tasks = [t \in Threads |-> NoTask]
  /\ thread_pools = [t \in Threads |-> NoPool]
  /\ queue = [t \in Threads |-> {}]
  /\ in = [t \in Threads |-> Whole]
  /\ released = {} /\ sorted = {}
  /\ result = [t \in Threads |-> << >>]
  /\ bucket = [t \in Threads |-> 0]

Go(t, p) == pc' = [pc EXCEPT ![t] = p]

(* parallelSortPrimary up to queueTasks.                                   *)
SortPrimary ==
  /\ pc[0] = "sort"
  /\ \E p \in Partitions(Size) :
       /\ result' = [result EXCEPT ![0] = p]
       /\ sorted' = InPlace(Size, 0, p, SingleLevel)
  /\ Go(0, "queue")
  /\ UNCHANGED << big_tasks, thread_pools, queue, in, released, bucket >>

(* The barrier behind queueTasks, at which the others wait.                *)
SortBarrier ==
  /\ pc[0] = "release" /\ in[0] = Whole
  /\ pc' = [t \in Threads |-> "loop"]
  /\ in' = [t \in Threads |-> NoPool]
  /\ result' = [result EXCEPT ![0] = << >>]
  /\ UNCHANGED << big_tasks, thread_pools, queue, released, bucket, sorted >>

(* The loop of processBigTasks.                                            *)
TestTask(t) ==
  /\ pc[t] = "loop"
  /\ Go(t, IF ~big_tasks[t].has_task THEN "small"
           ELSE IF big_tasks[t].root_thread = t THEN "primary" ELSE "secondary")
  /\ UNCHANGED << big_tasks, thread_pools, queue, in, released, result, bucket, sorted >>

(* processBigTasksSecondary, and the start of processBigTaskPrimary.       *)
EnterPool(t) ==
  /\ pc[t] \in {"primary", "secondary"}
  /\ in' = [in EXCEPT ![t] = thread_pools[big_tasks[t].root_thread]]
  /\ Go(t, IF pc[t] = "primary" THEN "run" ELSE "joined")
  /\ UNCHANGED << big_tasks, thread_pools, queue, released, result, bucket, sorted >>

(* Faulty variant: the threads of the pool are released before queueTasks. *)
RunAndRelease(t) ==
  /\ pc[t] = "run"
  /\ Cardinality({u \in Threads : in[u] = in[t]}) = in[t].size
  /\ LET n == big_tasks[t].end - big_tasks[t].begin IN
     \E p \in Partitions(n) :
       /\ result' = [result EXCEPT ![t] = p]
       /\ sorted' = sorted \cup InPlace(n, big_tasks[t].begin, p, SubSingleLevel)
  /\ released' = released \cup {in[t]}
  /\ Go(t, "queue")
  /\ UNCHANGED << big_tasks, thread_pools, queue, in, bucket >>

(* The pool executes a partitioning step when all its threads are there.   *)
Run(t) ==
  /\ pc[t] = "run"
  /\ Cardinality({u \in Threads : in[u] = in[t]}) = in[t].size
  /\ LET n == big_tasks[t].end - big_tasks[t].begin IN
     \E p \in Partitions(n) :
       /\ result' = [result EXCEPT ![t] = p]
       /\ sorted' = sorted \cup InPlace(n, big_tasks[t].begin, p, SubSingleLevel)
  /\ Go(t, "queue")
  /\ UNCHANGED << big_tasks, thread_pools, queue, in, released, bucket >>

(* "Move my thread pool to the trash as I might create a new one", and     *)
(* queueTasks up to its loops.                                             *)
Queue(t) ==
  /\ pc[t] = "queue"
  /\ thread_pools' = [thread_pools EXCEPT ![t] = NoPool]
  /\ big_tasks' = [u \in Threads |-> IF u \in Team(t) THEN [big_tasks[u] EXCEPT !.has_task = FALSE]
                                                      ELSE big_tasks[u]]
  /\ IF in[t].end - in[t].begin <= SingleLevel
       THEN Go(t, "release") /\ UNCHANGED bucket
       ELSE Go(t, "divide") /\ bucket' = [bucket EXCEPT ![t] = result[t].num_buckets - 1]
  /\ UNCHANGED << queue, in, released, result, sorted >>

(* queueTask, called by t for the elements from lo to hi of its task.      *)
QueueTask(t, lo, hi) ==
  LET begin == in[t].begin + lo
      end   == in[t].begin + hi
      first == ThreadBegin(begin)
      last  == ThreadEnd(end)
      owner == t + (lo + (hi - lo) \div 2) \div CeilDiv(in[t].end - in[t].begin, in[t].size)
  IN IF last - first <= 1 \/ hi - lo <= BaseCaseSize
       THEN /\ queue' = [queue EXCEPT ![owner] = @ \cup {<< begin, end >>}]
            /\ UNCHANGED << big_tasks, thread_pools >>
       ELSE /\ thread_pools' = [thread_pools EXCEPT
                                  ![first] = [begin |-> begin, end |-> end, size |-> last - first]]
            /\ big_tasks' = [u \in Threads |->
                 IF u \in first .. last - 1
                   THEN [has_task |-> TRUE, begin |-> begin, end |-> end,
                         task_thread_id |-> u - first, root_thread |-> first]
                   ELSE big_tasks[u]]
            /\ UNCHANGED queue

(* A bucket in the loops of queueTasks, which go from right to left.       *)
Divide(t) ==
  /\ pc[t] = "divide"
  /\ LET p == result[t]
         i == bucket[t]
     IN /\ IF i \in QueuedBuckets(p) /\ Start(p, i) < Stop(p, i)
             THEN QueueTask(t, Start(p, i), Stop(p, i))
             ELSE UNCHANGED << big_tasks, thread_pools, queue >>
        /\ IF i = 0 THEN Go(t, "release") /\ UNCHANGED bucket
                    ELSE UNCHANGED pc /\ bucket' = [bucket EXCEPT ![t] = i - 1]
  /\ UNCHANGED << in, released, result, sorted >>

(* Faulty variant: the secondary threads are not released.                 *)
ReleaseNobody(t) ==
  /\ pc[t] = "release" /\ in[t] # Whole
  /\ in' = [in EXCEPT ![t] = NoPool]
  /\ result' = [result EXCEPT ![t] = << >>]
  /\ Go(t, "loop")
  /\ UNCHANGED << big_tasks, thread_pools, queue, released, bucket, sorted >>

Release(t) ==
  /\ pc[t] = "release" /\ in[t] # Whole
  /\ released' = released \cup {in[t]}
  /\ in' = [in EXCEPT ![t] = NoPool]
  /\ result' = [result EXCEPT ![t] = << >>]
  /\ Go(t, "loop")
  /\ UNCHANGED << big_tasks, thread_pools, queue, bucket, sorted >>

(* The last thread to leave takes the pool with it.                        *)
LeavePool(t) ==
  /\ pc[t] = "joined" /\ in[t] \in released
  /\ in' = [in EXCEPT ![t] = NoPool]
  /\ released' = IF \E u \in Threads \ {t} : in[u] = in[t] THEN released
                                                         ELSE released \ {in[t]}
  /\ Go(t, "loop")
  /\ UNCHANGED << big_tasks, thread_pools, queue, result, bucket, sorted >>

ThreadStep(t) ==
  \/ TestTask(t) \/ EnterPool(t) \/ Run(t) \/ Queue(t) \/ Divide(t) \/ Release(t)
  \/ LeavePool(t)
  \/ t = 0 /\ (SortPrimary \/ SortBarrier)

Finished == (\A t \in Threads : pc[t] = "small") /\ UNCHANGED vars

Next == (\E t \in Threads : ThreadStep(t)) \/ Finished

Spec == Init /\ [][Next]_vars /\ \A t \in Threads : WF_vars(ThreadStep(t))

-----------------------------------------------------------------------------
(* The teams that the big tasks describe are what the threads of the teams *)
(* take them to be: all threads of a team have the same task and know      *)
(* their number, and the first of them has a pool of the right size.       *)
TeamsAgree ==
  \A t \in Threads : big_tasks[t].has_task =>
    LET task == big_tasks[t]
        root == task.root_thread
        pool == IF pc[root] \in {"run", "queue"} THEN in[root] ELSE thread_pools[root]
    IN /\ task.task_thread_id = t - root
       /\ pool.begin = task.begin /\ pool.end = task.end
       /\ root <= t /\ t < root + pool.size
       /\ root + pool.size <= NumThreads
       /\ \A u \in root .. root + pool.size - 1 :
            big_tasks[u] = [task EXCEPT !.task_thread_id = u - root]

(* What a thread accesses of the shared data where it is.  A team's        *)
(* threads read the bounds of their task from the slot of the first.       *)
Access(t) ==
  LET root == big_tasks[t].root_thread
      each(k, f, I) == {<< k, f, i >> : i \in I}
  IN CASE pc[t] = "loop"  -> {<< "r", "big_tasks", t >>}
       [] pc[t] \in {"primary", "secondary"} ->
            {<< "r", "big_tasks", t >>, << "r", "thread_pools", root >>}
       [] pc[t] = "run"   -> {<< "r", "big_tasks", t >>}
       [] pc[t] \in {"queue", "divide"} ->
            each("w", "big_tasks", Team(t)) \cup each("w", "thread_pools", Team(t))
            \cup each("w", "seq_task_queue", Team(t))
       [] pc[t] = "joined" /\ pc[root] = "run" -> {<< "r", "big_tasks", root >>}
       [] pc[t] = "small" -> {<< "w", "seq_task_queue", t >>}
       [] OTHER -> {}

(* While a thread divides its team it is the only one to look at the       *)
(* team's slots, pools and queues, although it uses no lock.               *)
NoConflict ==
  \A t, u \in Threads : t # u =>
    \A a \in Access(t), b \in Access(u) :
      Tail(a) = Tail(b) => a[1] = "r" /\ b[1] = "r"

(* The tasks that there are: in the queues, for teams, and the buckets of  *)
(* a task that its primary thread has partitioned but not yet queued.      *)
ToQueue(t) ==
  {i \in QueuedBuckets(result[t]) :
     in[t].end - in[t].begin > SingleLevel /\ (pc[t] = "divide" => i <= bucket[t])}

SmallTasks == UNION {{<< "small", t, k[1], k[2] >> : k \in queue[t]} : t \in Threads}

BigTaskOf(t) == << "big", big_tasks[t].root_thread, big_tasks[t].begin, big_tasks[t].end >>
HasBigTask   == {t \in Threads : big_tasks[t].has_task /\ pc[big_tasks[t].root_thread] # "queue"}

BucketTask(t, i) == << "bucket", t, in[t].begin + Start(result[t], i), in[t].begin + Stop(result[t], i) >>
Dividing         == {t \in Threads : pc[t] \in {"queue", "divide"}}

Tasks == SmallTasks \cup {BigTaskOf(t) : t \in HasBigTask}
         \cup UNION {{BucketTask(t, i) : i \in ToQueue(t)} : t \in Dividing}

Positions == 0 .. Size - 1
Holding(x) == {k \in Tasks : k[3] <= x /\ x < k[4]}

(* Every element is in its final place or in exactly one task, so that it  *)
(* is sorted once and no two threads sort it at the same time.             *)
EverythingOnce ==
  pc[0] # "sort" =>
    \A x \in Positions :
      IF x \in sorted THEN Holding(x) = {} ELSE Cardinality(Holding(x)) = 1

(* Every thread comes to the small tasks: no team waits for a thread that  *)
(* is not told to join, and no thread stays in a pool.                     *)
AllReachSmallTasks == <>(\A t \in Threads : pc[t] = "small")
=============================================================================
