---------------------------- MODULE BigTasksProofs ----------------------------
(***************************************************************************)
(* The big tasks, for every number of threads and every size.  First the   *)
(* arithmetic of queueTasks: tasks are given to teams by rounding their    *)
(* borders to stripes.  Teams never share a thread because both borders of *)
(* adjacent tasks are rounded in the same way; that a team may have more   *)
(* threads than stripes begin in its task costs at most one stripe.  Then  *)
(* the inductive invariant, from which it follows that teams agree, that   *)
(* a thread divides its team alone, and that every element is sorted once. *)
(***************************************************************************)
EXTENDS BigTasks, FiniteSetTheorems, WellFoundedInduction, TLAPS

LEMMA Quotient ==
  ASSUME NEW a \in Nat, NEW d \in Nat \ {0}
  PROVE  a \div d \in Nat /\ d * (a \div d) <= a /\ a < d * (a \div d) + d
<1>1. a = d * (a \div d) + (a % d) /\ a % d \in 0 .. d - 1 /\ a \div d \in Nat
  BY SMT
<1> QED
  BY <1>1, SMT

LEMMA QuotientMonotone ==
  ASSUME NEW a \in Nat, NEW b \in Nat, NEW d \in Nat \ {0}, a <= b
  PROVE  a \div d <= b \div d
<1> DEFINE p == a \div d
           q == b \div d
<1>1. p \in Nat /\ d * p <= a /\ q \in Nat /\ b < d * q + d
  BY Quotient
<1> HIDE DEF p, q
<1>2. SUFFICES ASSUME q < p PROVE FALSE
  BY <1>1 DEF p, q
<1>3. q + 1 <= p /\ d * (q + 1) = d * q + d
  BY <1>1, <1>2, SMT
<1>4. d * (q + 1) <= d * p
  BY <1>1, <1>3, SMT
<1>5. d * p \in Int /\ d * q \in Int
  BY <1>1, SMT
<1> QED
  BY <1>1, <1>3, <1>4, <1>5

LEMMA CeilDivBounds ==
  ASSUME NEW n \in Nat \ {0}, NEW k \in Nat \ {0}
  PROVE  CeilDiv(n, k) \in Nat \ {0} /\ n <= k * CeilDiv(n, k)
<1> DEFINE c == CeilDiv(n, k)
<1>1. c \in Nat /\ k * c <= n + k - 1 /\ n + k - 1 < k * c + k
  <2>1. n + k - 1 \in Nat
    OBVIOUS
  <2> QED
    BY <2>1, Quotient DEF CeilDiv
<1> HIDE DEF c
<1>2. k * c \in Int
  BY <1>1, SMT
<1>3. n <= k * c
  BY <1>1, <1>2
<1>4. c # 0
  BY <1>1, <1>3, SMT
<1> QED
  BY <1>1, <1>3, <1>4 DEF c

LEMMA StripeBounds == stripe \in Nat \ {0} /\ Size <= NumThreads * stripe
  BY BigTasksAssumption, CeilDivBounds DEF stripe

LEMMA Rounded ==
  ASSUME NEW x \in Nat
  PROVE  /\ Round(x) \in Nat
         /\ stripe * Round(x) <= x + stripe \div 2
         /\ x + stripe \div 2 < stripe * Round(x) + stripe
<1>1. x + stripe \div 2 \in Nat
  BY StripeBounds, Quotient
<1> QED
  BY <1>1, StripeBounds, Quotient DEF Round

(* Teams of tasks that do not overlap have no thread in common, in the     *)
(* order of the tasks, and no team reaches beyond the last thread.         *)
THEOREM TeamsDisjoint ==
  ASSUME NEW x \in 0 .. Size, NEW y \in 0 .. Size, x <= y
  PROVE  /\ ThreadBegin(x) \in Nat /\ ThreadEnd(x) <= ThreadBegin(y)
         /\ ThreadEnd(y) <= NumThreads
<1>1. x \in Nat /\ y \in Nat /\ y <= Size /\ Size \in Nat /\ NumThreads \in Nat
  BY BigTasksAssumption
<1>2. Round(x) \in Nat /\ Round(y) \in Nat
  BY <1>1, Rounded
<1>3. Round(x) <= Round(y)
  <2>1. /\ x + stripe \div 2 \in Nat /\ y + stripe \div 2 \in Nat
        /\ x + stripe \div 2 <= y + stripe \div 2
    BY <1>1, StripeBounds, Quotient
  <2> QED
    BY <2>1, StripeBounds, QuotientMonotone DEF Round
<1>4. Round(y) <= NumThreads
  <2> DEFINE r == Round(y)
             s == stripe
  <2>1. /\ s \in Nat \ {0} /\ s \div 2 < s /\ s \div 2 \in Nat /\ r \in Nat
        /\ s * r <= y + s \div 2 /\ y <= NumThreads * s
    <3>1. s \in Nat \ {0} /\ Size <= NumThreads * s /\ NumThreads * s \in Nat
      BY <1>1, StripeBounds, SMT
    <3>2. s \div 2 < s /\ s \div 2 \in Nat
      BY <3>1, SMT
    <3>3. s * r <= y + s \div 2
      BY <1>1, Rounded
    <3> QED
      BY <1>1, <1>2, <3>1, <3>2, <3>3
  <2> HIDE DEF r, s
  <2>2. SUFFICES ASSUME NumThreads < r PROVE FALSE
    BY <1>1, <2>1 DEF r
  <2>3. NumThreads + 1 <= r /\ s * (NumThreads + 1) = NumThreads * s + s
    BY <1>1, <2>1, <2>2, SMT
  <2>4. s * (NumThreads + 1) <= s * r
    BY <1>1, <2>1, <2>3, SMT
  <2>5. s * r \in Int /\ NumThreads * s \in Int
    BY <1>1, <2>1, SMT
  <2> QED
    BY <1>1, <2>1, <2>3, <2>4, <2>5
<1> QED
  BY <1>2, <1>3, <1>4 DEF ThreadBegin, ThreadEnd

(* The task of a team has at least two blocks for each of its threads, if  *)
(* the input has four for each thread, as numThreadsFor demands: a team's  *)
(* stripes are never empty (EmptyBlockProofs!StripesDivideInput).          *)
THEOREM TeamHasBlocks ==
  ASSUME NEW block \in Nat, 4 * block <= stripe,
         NEW lo \in Nat, NEW hi \in Nat, lo <= hi,
         ThreadEnd(hi) - ThreadBegin(lo) > 1
  PROVE  2 * block * (ThreadEnd(hi) - ThreadBegin(lo)) <= hi - lo
<1> DEFINE s == stripe
           b == Round(lo)
           e == Round(hi)
           k == e - b
<1>1. /\ s \in Nat \ {0} /\ b \in Nat /\ e \in Nat /\ k \in Nat /\ k > 1
      /\ s * e <= hi + s \div 2 /\ lo + s \div 2 < s * b + s /\ s \div 2 \in Nat
  <2>1. s \in Nat \ {0} /\ s \div 2 \in Nat
    BY StripeBounds, Quotient
  <2>2. b \in Nat /\ e \in Nat /\ s * e <= hi + s \div 2 /\ lo + s \div 2 < s * b + s
    BY Rounded
  <2> QED
    BY <2>1, <2>2 DEF ThreadBegin, ThreadEnd
<1>2. ThreadEnd(hi) - ThreadBegin(lo) = k
  BY DEF ThreadBegin, ThreadEnd
<1> HIDE DEF s, b, e
<1>3. s * e = s * b + s * (k - 1) + s /\ s * e \in Int /\ s * b \in Int /\ s * (k - 1) \in Int
  BY <1>1, SMT
<1>4. s * (k - 1) < hi - lo
  BY <1>1, <1>3
<1> HIDE DEF k
<1>5. 4 * block * (k - 1) <= s * (k - 1)
  <2>1. k - 1 \in Nat /\ 4 * block \in Nat /\ 4 * block <= s
    BY <1>1 DEF s
  <2> QED
    BY <1>1, <2>1, SMT
<1>6. 2 * block * k <= 4 * block * (k - 1)
  <2>1. k <= 2 * (k - 1)
    BY <1>1
  <2>2. 2 * block * k <= 2 * block * (2 * (k - 1))
    BY <1>1, <2>1, SMT
  <2>3. 2 * block * (2 * (k - 1)) = 4 * block * (k - 1)
    BY <1>1, SMT
  <2> QED
    BY <2>2, <2>3
<1>7. 2 * block * k \in Int /\ 4 * block * (k - 1) \in Int
  BY <1>1, SMT
<1> QED
  BY <1>1, <1>2, <1>3, <1>4, <1>5, <1>6, <1>7

(* A small subtask goes to the queue of a thread of the team that its task *)
(* belongs to.                                                             *)
THEOREM OwnerInTeam ==
  ASSUME NEW threads \in Nat \ {0}, NEW n \in Nat \ {0},
         NEW lo \in Nat, NEW hi \in Nat, lo < hi, hi <= n
  PROVE  (lo + (hi - lo) \div 2) \div CeilDiv(n, threads) \in 0 .. threads - 1
<1> DEFINE c == CeilDiv(n, threads)
           m == lo + (hi - lo) \div 2
           q == m \div c
<1>1. c \in Nat \ {0} /\ n <= threads * c
  BY CeilDivBounds
<1>2. m \in Nat /\ m < n
  <2>1. hi - lo \in Nat \ {0}
    OBVIOUS
  <2>2. (hi - lo) \div 2 \in Nat /\ (hi - lo) \div 2 < hi - lo
    BY <2>1, SMT
  <2> QED
    BY <2>2
<1>3. q \in Nat /\ c * q <= m
  BY <1>1, <1>2, Quotient
<1> HIDE DEF c, m, q
<1>4. q < threads
  <2> SUFFICES ASSUME threads <= q PROVE FALSE
    BY <1>3
  <2>1. threads * c <= c * q /\ c * q \in Int /\ threads * c \in Int
    BY <1>1, <1>3, SMT
  <2> QED
    BY <1>1, <1>2, <1>3, <2>1
<1> QED
  BY <1>3, <1>4 DEF c, m, q

-----------------------------------------------------------------------------
(* The inductive invariant.  A pool's threads are those of its task, from  *)
(* the first one on.                                                       *)
Pool    == [begin : 0 .. Size, end : 0 .. Size, size : 0 .. NumThreads]
BigTask == [has_task : BOOLEAN, begin : 0 .. Size, end : 0 .. Size,
            task_thread_id : 0 .. NumThreads, root_thread : 0 .. NumThreads]
Places  == {"sort", "wait", "loop", "primary", "secondary", "run", "joined",
            "queue", "divide", "release", "small"}
Leading == {"queue", "divide", "release"}

TypeOK ==
  /\ pc \in [Threads -> Places]
  /\ big_tasks \in [Threads -> BigTask]
  /\ thread_pools \in [Threads -> Pool]
  /\ queue \in [Threads -> SUBSET ((0 .. Size) \X (0 .. Size))]
  /\ in \in [Threads -> Pool]
  /\ released \subseteq Pool
  /\ sorted \subseteq Positions
  /\ result \in [Threads -> {<< >>} \cup UNION {Partitions(n) : n \in 0 .. Size}]
  /\ bucket \in [Threads -> Nat]

First(P)   == Round(P.begin)
Members(P) == First(P) .. First(P) + P.size - 1
Length(P)  == P.end - P.begin

IsPool(P) ==
  /\ P.begin < P.end /\ P.size >= 1
  /\ Round(P.end) <= First(P) + P.size /\ First(P) + P.size <= NumThreads

IsTeam(P) == IsPool(P) /\ P.size > 1 /\ Length(P) < Size

(* Where a thread is agrees with its slot and its pool.                    *)
InPlaceOf(t) ==
  /\ pc[t] \in {"loop", "primary", "secondary", "small"} => in[t] = NoPool
  /\ pc[t] \in {"primary", "run"} => big_tasks[t].has_task /\ big_tasks[t].root_thread = t
  /\ pc[t] = "secondary" => big_tasks[t].has_task /\ big_tasks[t].root_thread # t
  /\ pc[t] = "run" => in[t] = thread_pools[t]
  /\ pc[t] = "small" => ~big_tasks[t].has_task
  /\ pc[t] = "sort" => t = 0 /\ in[t] = Whole
  /\ pc[t] = "wait" => t # 0 /\ in[t] = Whole /\ in[0] = Whole /\ pc[0] \in {"sort"} \cup Leading
  /\ pc[t] = "joined" =>
       /\ IsTeam(in[t]) /\ t \in Members(in[t]) /\ t # First(in[t])
       /\ \/ in[t] \in released
          \/ pc[First(in[t])] \in Leading /\ in[First(in[t])] = in[t]
          \/ big_tasks[t].has_task /\ in[t] = thread_pools[big_tasks[t].root_thread]

(* A task's slot says the same as those of its team and the team's pool.   *)
TaskAgrees(t) ==
  big_tasks[t].has_task =>
    LET b == big_tasks[t]
        r == b.root_thread
        P == thread_pools[r]
    IN /\ r = Round(b.begin) /\ P.begin = b.begin /\ P.end = b.end /\ IsTeam(P)
       /\ P.size = Round(b.end) - r
       /\ t \in Members(P) /\ P \notin released
       /\ \A u \in Members(P) : big_tasks[u] = [b EXCEPT !.task_thread_id = u - r]

(* A thread that has run a pool has all the pool's threads with it.        *)
Gathered(t) ==
  pc[t] \in Leading =>
    /\ IsPool(in[t]) /\ t = First(in[t]) /\ in[t] \notin released
    /\ in[t] # Whole => IsTeam(in[t])
    /\ \A u \in Members(in[t]) \ {t} :
         in[u] = in[t] /\ pc[u] = IF in[t] = Whole THEN "wait" ELSE "joined"

(* It first has the task, then the tasks that it has put to its team.      *)
Divides(t) ==
  /\ pc[t] \in {"queue", "divide"} => result[t] \in Partitions(Length(in[t]))
  /\ pc[t] = "queue" =>
       \/ in[t] = Whole /\ \A u \in Threads : ~big_tasks[u].has_task
       \/ big_tasks[t].has_task /\ big_tasks[t].root_thread = t /\ in[t] = thread_pools[t]
  /\ pc[t] = "divide" =>
       /\ Length(in[t]) > SingleLevel /\ bucket[t] \in Buckets(result[t])
       /\ \A u \in Members(in[t]) : big_tasks[u].has_task =>
            /\ in[t].begin + Stop(result[t], bucket[t]) <= big_tasks[u].begin
            /\ big_tasks[u].end <= in[t].end
  /\ pc[t] \in {"divide", "release"} =>
       \A u \in Members(in[t]) : big_tasks[u].has_task =>
         big_tasks[u].end - big_tasks[u].begin < Length(in[t])

Starting ==
  pc[0] = "sort" =>
    /\ \A t \in Threads : ~big_tasks[t].has_task /\ queue[t] = {} /\ (t # 0 => pc[t] = "wait")
    /\ released = {} /\ sorted = {}

Awaited == \A P \in released : \E t \in Threads : pc[t] = "joined" /\ in[t] = P

IInv ==
  /\ TypeOK /\ Starting /\ Awaited
  /\ \A t \in Threads : InPlaceOf(t) /\ TaskAgrees(t) /\ Gathered(t) /\ Divides(t)

Covers(k, x) == k[3] <= x /\ x < k[4]
Once ==
  pc[0] # "sort" =>
    /\ \A k \in Tasks, x \in Positions : Covers(k, x) => x \notin sorted
    /\ \A j, k \in Tasks, x \in Positions : Covers(j, x) /\ Covers(k, x) => j = k
    /\ \A x \in Positions \ sorted : \E k \in Tasks : Covers(k, x)

LEMMA RoundFacts ==
  /\ Round(0) = 0
  /\ \A x \in 0 .. Size : Round(x) \in Nat /\ Round(x) <= NumThreads
  /\ \A x, y \in 0 .. Size : x <= y => Round(x) <= Round(y)
<1>1. Round(0) = 0
  <2>1. stripe \div 2 \in Nat /\ stripe \div 2 < stripe /\ stripe \in Nat \ {0}
    BY StripeBounds, SMT
  <2>2. stripe * Round(0) <= stripe \div 2 /\ Round(0) \in Nat
    <3>1. stripe * Round(0) <= 0 + stripe \div 2 /\ Round(0) \in Nat
      BY ONLY Rounded, 0 \in Nat
    <3> QED
      BY <2>1, <3>1
  <2> DEFINE r == Round(0)
             s == stripe
  <2>3. s * r < s /\ r \in Nat /\ s \in Nat \ {0}
    <3>1. s * r \in Int
      BY <2>1, <2>2, SMT
    <3> QED
      BY <2>1, <2>2, <3>1
  <2> HIDE DEF r, s
  <2>4. r = 0
    BY <2>3, SMT
  <2> QED
    BY <2>4 DEF r
<1>2. \A x \in 0 .. Size : Round(x) \in Nat /\ Round(x) <= NumThreads
  BY TeamsDisjoint, BigTasksAssumption DEF ThreadBegin, ThreadEnd
<1>3. \A x, y \in 0 .. Size : x <= y => Round(x) <= Round(y)
  BY TeamsDisjoint DEF ThreadBegin, ThreadEnd
<1> QED
  BY <1>1, <1>2, <1>3

LEMMA PartitionFacts ==
  ASSUME NEW n \in Nat, NEW p \in Partitions(n)
  PROVE  /\ p.num_buckets \in Nat \ {0}
         /\ p.bucket_start \in [0 .. p.num_buckets -> 0 .. n]
         /\ p.bucket_start[0] = 0 /\ p.bucket_start[p.num_buckets] = n
         /\ \A i, j \in 0 .. p.num_buckets : i <= j => p.bucket_start[i] <= p.bucket_start[j]
         /\ \A i \in QueuedBuckets(p) : Stop(p, i) - Start(p, i) < n
<1>1. PICK k \in Nat :
        /\ k >= 2
        /\ p \in [num_buckets : {k}, bucket_start : Boundaries(k, n), equal : BOOLEAN]
  <2>1. \A c \in BucketCounts : c \in Nat /\ 2 * c \in Nat /\ c >= 2 /\ 2 * c >= 2
    BY BigTasksAssumption
  <2>2. PICK k \in UNION {{c, 2 * c} : c \in BucketCounts} :
          p \in [num_buckets : {k}, bucket_start : Boundaries(k, n), equal : BOOLEAN]
    BY DEF Partitions
  <2>3. k \in Nat /\ k >= 2
    BY <2>1
  <2> QED
    BY <2>2, <2>3
<1>2. p.num_buckets = k /\ p.bucket_start \in Boundaries(k, n)
  BY <1>1
<1>3. PICK b \in [1 .. k - 1 -> 0 .. n] :
        /\ \A i, j \in 1 .. k - 1 : i < j => b[i] <= b[j]
        /\ p.bucket_start = [i \in 0 .. k |-> IF i = 0 THEN 0 ELSE IF i = k THEN n ELSE b[i]]
  BY <1>2 DEF Boundaries
<1>4. p.bucket_start \in [0 .. k -> 0 .. n]
  BY <1>1, <1>3
<1>5. p.bucket_start[0] = 0 /\ p.bucket_start[k] = n
  BY <1>1, <1>3
<1>6. \A i, j \in 0 .. k : i <= j => p.bucket_start[i] <= p.bucket_start[j]
  BY <1>1, <1>3, <1>4
<1>7. \A i \in QueuedBuckets(p) : Stop(p, i) - Start(p, i) < n
  BY DEF Partitions
<1> QED
  BY <1>1, <1>2, <1>4, <1>5, <1>6, <1>7

LEMMA MembersAreThreads ==
  ASSUME NEW P \in Pool, IsPool(P)
  PROVE  /\ Members(P) \subseteq Threads /\ First(P) \in Members(P) /\ First(P) \in Threads
         /\ P.begin \in 0 .. Size /\ P.end \in 0 .. Size /\ P.size \in Nat
         /\ Length(P) \in Nat /\ P # NoPool
<1>1. P.begin \in 0 .. Size /\ P.end \in 0 .. Size /\ P.size \in Nat /\ NumThreads \in Nat /\ Size \in Nat
  BY BigTasksAssumption DEF Pool
<1>2. First(P) \in Nat /\ First(P) + P.size <= NumThreads /\ P.size >= 1 /\ P.begin < P.end
  BY <1>1, RoundFacts DEF First, IsPool
<1> QED
  BY <1>1, <1>2 DEF Members, Threads, Length, NoPool

(* Which pools and slots a thread has to do with.                          *)
LEMMA Located ==
  ASSUME IInv
  PROVE  /\ 0 \in Threads /\ NumThreads \in Nat \ {0} /\ Size \in Nat \ {0}
         /\ \A t \in Threads :
              /\ in[t] \in Pool /\ thread_pools[t] \in Pool /\ big_tasks[t] \in BigTask
              /\ pc[t] \in Leading \cup {"joined"} =>
                   /\ IsPool(in[t]) /\ Members(in[t]) \subseteq Threads
                   /\ First(in[t]) \in Threads /\ First(in[t]) \in Members(in[t])
                   /\ in[t] # NoPool
              /\ big_tasks[t].has_task =>
                   /\ big_tasks[t].root_thread \in Threads
                   /\ big_tasks[t].root_thread = First(thread_pools[big_tasks[t].root_thread])
                   /\ Members(thread_pools[big_tasks[t].root_thread]) \subseteq Threads
                   /\ IsPool(thread_pools[big_tasks[t].root_thread])
                   /\ thread_pools[big_tasks[t].root_thread] \in Pool
                   /\ thread_pools[big_tasks[t].root_thread] # NoPool
<1>1. 0 \in Threads /\ NumThreads \in Nat \ {0} /\ Size \in Nat \ {0}
  BY BigTasksAssumption DEF Threads
<1>2. \A t \in Threads : in[t] \in Pool /\ thread_pools[t] \in Pool /\ big_tasks[t] \in BigTask
  BY DEF IInv, TypeOK
<1>3. ASSUME NEW t \in Threads, pc[t] \in Leading \cup {"joined"}
      PROVE  /\ IsPool(in[t]) /\ Members(in[t]) \subseteq Threads
             /\ First(in[t]) \in Threads /\ First(in[t]) \in Members(in[t])
             /\ in[t] # NoPool
  <2>1. IsPool(in[t])
    BY <1>3 DEF IInv, Gathered, InPlaceOf, IsTeam
  <2> QED
    BY <1>2, <2>1, MembersAreThreads
<1>4. ASSUME NEW t \in Threads, big_tasks[t].has_task
      PROVE  /\ big_tasks[t].root_thread \in Threads
             /\ big_tasks[t].root_thread = First(thread_pools[big_tasks[t].root_thread])
             /\ Members(thread_pools[big_tasks[t].root_thread]) \subseteq Threads
             /\ IsPool(thread_pools[big_tasks[t].root_thread])
             /\ thread_pools[big_tasks[t].root_thread] \in Pool
             /\ thread_pools[big_tasks[t].root_thread] # NoPool
  <2> DEFINE r == big_tasks[t].root_thread
  <2>1. /\ r = Round(big_tasks[t].begin) /\ thread_pools[r].begin = big_tasks[t].begin
        /\ IsPool(thread_pools[r]) /\ t \in Members(thread_pools[r])
    BY <1>4 DEF IInv, TaskAgrees, IsTeam
  <2>2. r \in Nat /\ r = First(thread_pools[r])
    BY <1>2, <2>1, RoundFacts DEF First, BigTask
  <2>3. r \in Threads
    BY <1>1, <2>1, <2>2 DEF IsPool, Members, Threads
  <2> QED
    BY <1>2, <2>1, <2>2, <2>3, MembersAreThreads
<1> QED
  BY <1>1, <1>2, <1>3, <1>4

LEMMA NoPoolTyped == NoPool \in Pool /\ Whole \in Pool
BY BigTasksAssumption DEF NoPool, Whole, Pool

LEMMA InitInv == Init => IInv
<1> SUFFICES ASSUME Init PROVE IInv
  OBVIOUS
<1>1. /\ NumThreads \in Nat \ {0} /\ Size \in Nat \ {0} /\ 0 \in Threads
      /\ Round(0) = 0 /\ Round(Size) <= NumThreads /\ Round(Size) \in Nat
  BY BigTasksAssumption, RoundFacts DEF Threads
<1>2. TypeOK
  <2>1. NoPool \in Pool /\ Whole \in Pool /\ NoTask \in BigTask
    BY <1>1 DEF NoPool, Whole, NoTask, Pool, BigTask
  <2> QED
    BY <1>1, <2>1 DEF TypeOK, Init, Places
<1>3. Starting /\ Awaited
  BY <1>1 DEF Starting, Awaited, Init, NoTask
<1>4. \A t \in Threads : InPlaceOf(t) /\ TaskAgrees(t) /\ Gathered(t) /\ Divides(t)
  BY <1>1 DEF Init, InPlaceOf, TaskAgrees, Gathered, Divides, NoTask, Leading
<1> QED
  BY <1>2, <1>3, <1>4 DEF IInv

LEMMA TestTaskInv ==
  ASSUME IInv, NEW t \in Threads, TestTask(t)
  PROVE  IInv'
<1> USE DEF IInv
<1>1. /\ pc[t] = "loop" /\ pc \in [Threads -> Places] /\ 0 \in Threads
      /\ pc' = [pc EXCEPT ![t] = pc'[t]] /\ pc'[t] \in {"small", "primary", "secondary"}
      /\ UNCHANGED << big_tasks, thread_pools, queue, in, released, result, bucket, sorted >>
      /\ pc'[t] = "small" => ~big_tasks[t].has_task
      /\ pc'[t] = "primary" => big_tasks[t].has_task /\ big_tasks[t].root_thread = t
      /\ pc'[t] = "secondary" => big_tasks[t].has_task /\ big_tasks[t].root_thread # t
  BY BigTasksAssumption DEF TestTask, Go, TypeOK, Threads
<1>2. TypeOK'
  BY <1>1 DEF TypeOK, Places, Positions
<1>3. Starting' /\ Awaited'
  BY <1>1 DEF Starting, Awaited
<1>4. ASSUME NEW u \in Threads
      PROVE  (InPlaceOf(u) /\ TaskAgrees(u) /\ Gathered(u) /\ Divides(u))'
  <2>1. InPlaceOf(u) /\ TaskAgrees(u) /\ Gathered(u) /\ Divides(u)
    OBVIOUS
  <2>5. /\ pc[u] \in Leading \cup {"joined"} =>
             Members(in[u]) \subseteq Threads /\ First(in[u]) \in Threads
        /\ 0 \in Threads
    BY Located
  <2>2. TaskAgrees(u)'
    BY <1>1, <2>1 DEF TaskAgrees, IsTeam, IsPool, Members, First, Length
  <2>3. InPlaceOf(u)'
    <3>1. CASE u = t
      BY <1>1, <2>1, <3>1 DEF InPlaceOf
    <3>2. CASE u # t
      BY <1>1, <2>1, <2>5, <3>2 DEF InPlaceOf, IsTeam, IsPool, Members, First, Length, Leading
    <3> QED
      BY <3>1, <3>2
  <2>4. Gathered(u)' /\ Divides(u)'
    <3>1. CASE u = t
      BY <1>1, <3>1 DEF Gathered, Divides, Leading
    <3>2. CASE u # t
      BY <1>1, <2>1, <2>5, <3>2 DEF Gathered, Divides, IsTeam, IsPool, Members, First, Length, Leading
    <3> QED
      BY <3>1, <3>2
  <2> QED
    BY <2>2, <2>3, <2>4
<1> QED
  BY <1>2, <1>3, <1>4

LEMMA EnterPoolInv ==
  ASSUME IInv, NEW t \in Threads, EnterPool(t)
  PROVE  IInv'
<1> USE DEF IInv
<1> DEFINE P == thread_pools[big_tasks[t].root_thread]
<1>1. /\ pc[t] \in {"primary", "secondary"} /\ pc \in [Threads -> Places] /\ in \in [Threads -> Pool]
      /\ pc' = [pc EXCEPT ![t] = pc'[t]] /\ in' = [in EXCEPT ![t] = P]
      /\ pc[t] = "primary" => pc'[t] = "run"
      /\ pc[t] = "secondary" => pc'[t] = "joined"
      /\ UNCHANGED << big_tasks, thread_pools, queue, released, result, bucket, sorted >>
  BY DEF EnterPool, Go, TypeOK
<1>2. /\ InPlaceOf(t) /\ TaskAgrees(t) /\ big_tasks[t].has_task
      /\ P \in Pool /\ IsTeam(P) /\ t \in Members(P) /\ First(P) = big_tasks[t].root_thread
      /\ P \notin released
  BY <1>1, Located DEF InPlaceOf, TaskAgrees
<1> HIDE DEF P
<1>3. TypeOK'
  BY <1>1, <1>2 DEF TypeOK, Places, Positions
<1>4. Starting' /\ Awaited'
  <2>1. Starting'
    BY <1>1, Located DEF Starting
  <2>2. \A u \in Threads : pc[u] = "joined" => pc'[u] = "joined" /\ in'[u] = in[u]
    BY <1>1
  <2>3. Awaited'
    BY <1>1, <2>2 DEF Awaited
  <2> QED
    BY <2>1, <2>3
<1>5. ASSUME NEW u \in Threads
      PROVE  (InPlaceOf(u) /\ TaskAgrees(u) /\ Gathered(u) /\ Divides(u))'
  <2>1. InPlaceOf(u) /\ TaskAgrees(u) /\ Gathered(u) /\ Divides(u)
    OBVIOUS
  <2>2. /\ pc[u] \in Leading \cup {"joined"} =>
             Members(in[u]) \subseteq Threads /\ First(in[u]) \in Threads
        /\ 0 \in Threads
    BY Located
  <2>3. TaskAgrees(u)'
    BY <1>1, <2>1 DEF TaskAgrees, IsTeam, IsPool, Members, First, Length
  <2>4. InPlaceOf(u)'
    <3>1. CASE u = t
      BY <1>1, <1>2, <3>1 DEF InPlaceOf, IsTeam, IsPool, Members, First, Length, P
    <3>2. CASE u # t
      BY <1>1, <2>1, <2>2, <3>2 DEF InPlaceOf, IsTeam, IsPool, Members, First, Length, Leading
    <3> QED
      BY <3>1, <3>2
  <2>5. Gathered(u)' /\ Divides(u)'
    <3>1. CASE u = t
      BY <1>1, <3>1 DEF Gathered, Divides, Leading
    <3>2. CASE u # t
      BY <1>1, <2>1, <2>2, <3>2 DEF Gathered, Divides, IsTeam, IsPool, Members, First, Length, Leading
    <3> QED
      BY <3>1, <3>2
  <2> QED
    BY <2>3, <2>4, <2>5
<1> QED
  BY <1>3, <1>4, <1>5

LEMMA LeavePoolInv ==
  ASSUME IInv, NEW t \in Threads, LeavePool(t)
  PROVE  IInv'
<1> USE DEF IInv
<1>1. /\ pc[t] = "joined" /\ pc \in [Threads -> Places] /\ in \in [Threads -> Pool]
      /\ pc' = [pc EXCEPT ![t] = "loop"] /\ in' = [in EXCEPT ![t] = NoPool]
      /\ in[t] \in released /\ released' \subseteq released
      /\ \A P \in released \ released' : \A u \in Threads \ {t} : in[u] # P
      /\ in[t] \in released' => \E u \in Threads \ {t} : in[u] = in[t]
      /\ UNCHANGED << big_tasks, thread_pools, queue, result, bucket, sorted >>
  BY DEF LeavePool, Go, TypeOK
<1>2. IsTeam(in[t]) /\ in[t] # Whole /\ in[t] # NoPool
  BY <1>1, Located DEF InPlaceOf, IsTeam, Whole, Length
<1>3. TypeOK'
  BY <1>1, NoPoolTyped DEF TypeOK, Places, Positions
<1>4. Starting'
  BY <1>1 DEF Starting
<1>5. Awaited'
  <2> SUFFICES ASSUME NEW P \in released'
               PROVE  \E u \in Threads : pc'[u] = "joined" /\ in'[u] = P
    BY DEF Awaited
  <2>1. CASE P # in[t]
    <3>1. PICK u \in Threads : pc[u] = "joined" /\ in[u] = P
      BY <1>1 DEF Awaited
    <3> QED
      BY <1>1, <2>1, <3>1
  <2>2. CASE P = in[t]
    <3>1. PICK u \in Threads \ {t} : in[u] = P
      BY <1>1, <2>2
    <3>2. /\ InPlaceOf(u) /\ TaskAgrees(u) /\ Gathered(u) /\ P \in released
          /\ P # Whole /\ P # NoPool /\ pc[u] \in Places
      BY <1>1, <1>2, <2>2
    <3>3. pc[u] # "run"
      BY <3>1, <3>2 DEF InPlaceOf, TaskAgrees
    <3>4. pc[u] = "joined"
      BY <3>1, <3>2, <3>3 DEF InPlaceOf, Gathered, Leading, Places
    <3> QED
      BY <1>1, <3>1, <3>4
  <2> QED
    BY <2>1, <2>2
<1>6. ASSUME NEW u \in Threads
      PROVE  (InPlaceOf(u) /\ TaskAgrees(u) /\ Gathered(u) /\ Divides(u))'
  <2>1. InPlaceOf(u) /\ TaskAgrees(u) /\ Gathered(u) /\ Divides(u)
    OBVIOUS
  <2>2. /\ pc[u] \in Leading \cup {"joined"} =>
             Members(in[u]) \subseteq Threads /\ First(in[u]) \in Threads
        /\ 0 \in Threads
    BY Located
  <2>3. TaskAgrees(u)'
    BY <1>1, <2>1 DEF TaskAgrees, IsTeam, IsPool, Members, First, Length
  <2>4. InPlaceOf(u)'
    <3>1. CASE u = t
      BY <1>1, <3>1 DEF InPlaceOf
    <3>2. CASE u # t
      BY <1>1, <2>1, <2>2, <3>2 DEF InPlaceOf, IsTeam, IsPool, Members, First, Length, Leading
    <3> QED
      BY <3>1, <3>2
  <2>5. Gathered(u)' /\ Divides(u)'
    <3>1. CASE u = t
      BY <1>1, <3>1 DEF Gathered, Divides, Leading
    <3>2. CASE u # t
      BY <1>1, <2>1, <2>2, <3>2 DEF Gathered, Divides, IsTeam, IsPool, Members, First, Length, Leading
    <3> QED
      BY <3>1, <3>2
  <2> QED
    BY <2>3, <2>4, <2>5
<1> QED
  BY <1>3, <1>4, <1>5, <1>6

LEMMA ReleaseInv ==
  ASSUME IInv, NEW t \in Threads, Release(t)
  PROVE  IInv'
<1> USE DEF IInv
<1>1. /\ pc[t] = "release" /\ pc \in [Threads -> Places] /\ in \in [Threads -> Pool] /\ in[t] # Whole
      /\ pc' = [pc EXCEPT ![t] = "loop"] /\ in' = [in EXCEPT ![t] = NoPool]
      /\ released' = released \cup {in[t]} /\ result' = [result EXCEPT ![t] = << >>]
      /\ DOMAIN result = Threads
      /\ UNCHANGED << big_tasks, thread_pools, queue, bucket, sorted >>
  BY DEF Release, Go, TypeOK
<1>2. /\ Gathered(t) /\ Divides(t) /\ IsTeam(in[t]) /\ t = First(in[t]) /\ t \in Nat /\ in[t] \in Pool
      /\ Members(in[t]) \subseteq Threads
  BY <1>1, Located DEF Gathered, Leading, Threads
<1>3. TypeOK'
  BY <1>1, NoPoolTyped DEF TypeOK, Places, Positions
<1>4. Starting'
  BY <1>1 DEF Starting
<1>5. Awaited'
  <2>1. t + 1 \in Members(in[t]) \ {t}
    BY <1>2 DEF Members, IsTeam, Pool
  <2>2. pc[t + 1] = "joined" /\ in[t + 1] = in[t] /\ t + 1 \in Threads
    BY <1>1, <1>2, <2>1 DEF Gathered, Leading
  <2> QED
    BY <1>1, <1>2, <2>2 DEF Awaited
<1>6. ASSUME NEW u \in Threads
      PROVE  (InPlaceOf(u) /\ TaskAgrees(u) /\ Gathered(u) /\ Divides(u))'
  <2>1. InPlaceOf(u) /\ TaskAgrees(u) /\ Gathered(u) /\ Divides(u)
    OBVIOUS
  <2>2. /\ pc[u] \in Leading \cup {"joined"} =>
             Members(in[u]) \subseteq Threads /\ First(in[u]) \in Threads
        /\ 0 \in Threads
    BY Located
  <2>3. TaskAgrees(u)'
    <3>1. SUFFICES ASSUME big_tasks[u].has_task
                   PROVE  thread_pools[big_tasks[u].root_thread] # in[t]
      BY <1>1, <2>1 DEF TaskAgrees, IsTeam, IsPool, Members, First, Length
    <3>2. SUFFICES ASSUME thread_pools[big_tasks[u].root_thread] = in[t] PROVE FALSE
      OBVIOUS
    <3>3. u \in Members(in[t]) /\ Length(in[t]) = big_tasks[u].end - big_tasks[u].begin
      BY <2>1, <3>1, <3>2 DEF TaskAgrees, Length
    <3>4. big_tasks[u].end - big_tasks[u].begin < Length(in[t])
      BY <1>1, <1>2, <3>1, <3>3 DEF Divides
    <3> QED
      BY <1>2, <3>3, <3>4 DEF Pool, Length
  <2>4. InPlaceOf(u)'
    <3>1. CASE u = t
      BY <1>1, <3>1 DEF InPlaceOf
    <3>2. CASE u # t
      BY <1>1, <2>1, <2>2, <3>2 DEF InPlaceOf, IsTeam, IsPool, Members, First, Length, Leading
    <3> QED
      BY <3>1, <3>2
  <2>5. Gathered(u)' /\ Divides(u)'
    <3>1. CASE u = t
      BY <1>1, <3>1 DEF Gathered, Divides, Leading
    <3>2. CASE u # t
      BY <1>1, <1>2, <2>1, <2>2, <3>2 DEF Gathered, Divides, IsTeam, IsPool, Members, First, Length, Leading
    <3> QED
      BY <3>1, <3>2
  <2> QED
    BY <2>3, <2>4, <2>5
<1> QED
  BY <1>3, <1>4, <1>5, <1>6

LEMMA SortBarrierInv ==
  ASSUME IInv, SortBarrier
  PROVE  IInv'
<1> USE DEF IInv
<1>1. /\ pc[0] = "release" /\ in[0] = Whole
      /\ pc' = [t \in Threads |-> "loop"] /\ in' = [t \in Threads |-> NoPool]
      /\ result' = [result EXCEPT ![0] = << >>]
      /\ UNCHANGED << big_tasks, thread_pools, queue, released, bucket, sorted >>
  BY DEF SortBarrier
<1>2. 0 \in Threads /\ First(Whole) = 0 /\ Members(Whole) = Threads
  BY Located, RoundFacts DEF First, Members, Threads, Whole
<1>3. \A u \in Threads : pc[u] # "joined"
  BY <1>1, <1>2 DEF Gathered, Leading
<1>4. TypeOK'
  BY <1>1, NoPoolTyped DEF TypeOK, Places, Positions
<1>5. Starting' /\ Awaited'
  BY <1>1, <1>2, <1>3 DEF Starting, Awaited
<1>6. ASSUME NEW u \in Threads
      PROVE  (InPlaceOf(u) /\ TaskAgrees(u) /\ Gathered(u) /\ Divides(u))'
  <2>1. TaskAgrees(u)
    OBVIOUS
  <2>2. TaskAgrees(u)'
    BY <1>1, <2>1 DEF TaskAgrees, IsTeam, IsPool, Members, First, Length
  <2> QED
    BY <1>1, <2>2 DEF InPlaceOf, Gathered, Divides, Leading
<1> QED
  BY <1>4, <1>5, <1>6

LEMMA InPlaceRange ==
  ASSUME NEW n \in Nat, NEW o \in Nat, o + n <= Size, NEW p \in Partitions(n), NEW c \in Nat
  PROVE  InPlace(n, o, p, c) \subseteq Positions
<1>1. Size \in Nat
  BY BigTasksAssumption
<1>2. ASSUME NEW i \in EqualBuckets(p)
      PROVE  o + Start(p, i) .. o + Stop(p, i) - 1 \subseteq Positions
  <2>1. i \in 0 .. p.num_buckets /\ i + 1 \in 0 .. p.num_buckets
    BY PartitionFacts DEF EqualBuckets, Buckets
  <2>2. Start(p, i) \in 0 .. n /\ Stop(p, i) \in 0 .. n
    BY <2>1, PartitionFacts DEF Start, Stop
  <2> QED
    BY <1>1, <2>2 DEF Positions
<1> QED
  BY <1>1, <1>2 DEF InPlace, Positions

(* The threads of a pool that is run by t are t and those that it waits    *)
(* for; two pools that are run at the same time have no thread in common.  *)
LEMMA Led ==
  ASSUME IInv, NEW t \in Threads, pc[t] \in Leading
  PROVE  /\ in[t] \in Pool /\ IsPool(in[t]) /\ t = First(in[t]) /\ t \in Members(in[t])
         /\ Members(in[t]) \subseteq Threads
         /\ \A u \in Members(in[t]) : u # t =>
              in[u] = in[t] /\ pc[u] \in {"wait", "joined"} /\ pc[u] \notin Leading
         /\ \A u \in Threads : pc[u] \in Leading /\ u # t =>
              u \notin Members(in[t]) /\ t \notin Members(in[u]) /\ Members(in[u]) \cap Members(in[t]) = {}
         /\ Team(t) = Members(in[t])
<1>1. /\ in[t] \in Pool /\ IsPool(in[t]) /\ t = First(in[t]) /\ t \in Members(in[t])
      /\ Members(in[t]) \subseteq Threads
  BY Located DEF IInv, Gathered
<1>2. \A u \in Members(in[t]) : u # t =>
              in[u] = in[t] /\ pc[u] \in {"wait", "joined"} /\ pc[u] \notin Leading
  BY DEF IInv, Gathered, Leading
<1>3. ASSUME NEW u \in Threads, pc[u] \in Leading, u # t
      PROVE  u \notin Members(in[t]) /\ t \notin Members(in[u]) /\ Members(in[u]) \cap Members(in[t]) = {}
  <2>1. u = First(in[u]) /\ t = First(in[t])
    BY <1>3 DEF IInv, Gathered
  <2>2. \A w \in Members(in[u]) : w # u => in[w] = in[u] /\ pc[w] \notin Leading
    BY <1>3 DEF IInv, Gathered, Leading
  <2> QED
    BY <1>2, <1>3, <2>1, <2>2
<1> QED
  BY <1>1, <1>2, <1>3 DEF Team, Members, First

(* A task of a thread outside a pool that is run has no thread inside it.  *)
LEMMA TasksStayInside ==
  ASSUME IInv, NEW t \in Threads, pc[t] \in {"queue", "divide"},
         NEW u \in Threads, big_tasks[u].has_task, u \notin Members(in[t])
  PROVE  Members(thread_pools[big_tasks[u].root_thread]) \cap Members(in[t]) = {}
<1> DEFINE r == big_tasks[u].root_thread
           P == in[t]
<1>1. /\ r = First(thread_pools[r]) /\ u \in Members(thread_pools[r])
      /\ \A w \in Members(thread_pools[r]) : big_tasks[w] = [big_tasks[u] EXCEPT !.task_thread_id = w - r]
      /\ r = Round(big_tasks[u].begin) /\ thread_pools[r].size = Round(big_tasks[u].end) - r
      /\ big_tasks[u] \in BigTask /\ r \in Threads
  BY Located DEF IInv, TaskAgrees
<1>2. SUFFICES ASSUME NEW w \in Members(thread_pools[r]), w \in Members(P) PROVE FALSE
  OBVIOUS
<1>3. /\ big_tasks[w].has_task /\ big_tasks[w].root_thread = r /\ w \in Threads
      /\ big_tasks[w].begin = big_tasks[u].begin /\ big_tasks[w].end = big_tasks[u].end
  <2>1. w \in Threads
    BY <1>2, Led DEF Leading
  <2>2. big_tasks[w] = [big_tasks[u] EXCEPT !.task_thread_id = w - r]
    BY <1>1, <1>2
  <2>3. big_tasks[u] \in BigTask /\ big_tasks[u].root_thread = r /\ big_tasks[u].has_task
    BY <1>1
  <2> HIDE DEF r
  <2> QED
    BY <2>1, <2>2, <2>3 DEF BigTask
<1>4. /\ P \in Pool /\ IsPool(P) /\ t = First(P) /\ t \in Members(P)
      /\ Divides(t)
  BY Led DEF Leading, IInv
<1>5. CASE pc[t] = "divide"
  <2>1. /\ result[t] \in Partitions(Length(P)) /\ bucket[t] \in Buckets(result[t])
        /\ P.begin + Stop(result[t], bucket[t]) <= big_tasks[u].begin
        /\ big_tasks[u].end <= P.end
    BY <1>2, <1>3, <1>4, <1>5 DEF Divides
  <2>2. P.begin \in 0 .. Size /\ P.end \in 0 .. Size /\ P.size \in Nat /\ Length(P) \in Nat
    BY <1>4, MembersAreThreads
  <2>3. Stop(result[t], bucket[t]) \in Nat
    BY <2>1, <2>2, PartitionFacts DEF Stop, Buckets
  <2>4. P.begin <= big_tasks[u].begin /\ big_tasks[u].begin \in 0 .. Size /\ big_tasks[u].end \in 0 .. Size
    BY <1>1, <2>1, <2>2, <2>3 DEF BigTask
  <2>5. /\ Round(P.begin) <= r /\ Round(big_tasks[u].end) <= Round(P.end)
        /\ Round(P.begin) \in Nat /\ Round(P.end) \in Nat /\ r \in Nat /\ Round(big_tasks[u].end) \in Nat
    BY <1>1, <2>1, <2>2, <2>4, RoundFacts
  <2>6. u \in Members(P)
    BY <1>1, <1>4, <2>2, <2>5 DEF Members, First, IsPool
  <2> QED
    BY <2>6
<1>6. CASE pc[t] = "queue"
  <2>1. CASE big_tasks[t].has_task /\ big_tasks[t].root_thread = t /\ in[t] = thread_pools[t]
    <3>1. big_tasks[w] = [big_tasks[t] EXCEPT !.task_thread_id = w - t]
      BY <1>2, <2>1 DEF IInv, TaskAgrees
    <3>2. big_tasks[w].root_thread = t
      BY <1>3, <2>1, <3>1, Located DEF BigTask
    <3> QED
      BY <1>1, <1>3, <2>1, <3>2
  <2>2. CASE \A v \in Threads : ~big_tasks[v].has_task
    BY <2>2
  <2> QED
    BY <1>4, <1>6, <2>1, <2>2 DEF Divides
<1> QED
  BY <1>5, <1>6

LEMMA SortPrimaryInv ==
  ASSUME IInv, SortPrimary
  PROVE  IInv'
<1> USE DEF IInv
<1>1. PICK p \in Partitions(Size) :
        /\ result' = [result EXCEPT ![0] = p] /\ sorted' = InPlace(Size, 0, p, SingleLevel)
  BY DEF SortPrimary
<1>2. /\ pc[0] = "sort" /\ pc' = [pc EXCEPT ![0] = "queue"] /\ 0 \in Threads
      /\ pc \in [Threads -> Places] /\ DOMAIN result = Threads
      /\ UNCHANGED << big_tasks, thread_pools, queue, in, released, bucket >>
      /\ \A t \in Threads : ~big_tasks[t].has_task /\ (t # 0 => pc[t] = "wait")
      /\ released = {} /\ in[0] = Whole
      /\ \A t \in Threads : t # 0 => in[t] = Whole
  BY Located DEF SortPrimary, Go, TypeOK, Starting, InPlaceOf
<1>3. /\ Size \in Nat \ {0} /\ First(Whole) = 0 /\ Members(Whole) = Threads /\ IsPool(Whole)
      /\ Length(Whole) = Size
  BY Located, RoundFacts DEF First, Members, Threads, Whole, IsPool, Length
<1>4. TypeOK'
  <2>1. sorted' \subseteq Positions
    BY <1>1, <1>3, InPlaceRange, BigTasksAssumption
  <2>2. p \in UNION {Partitions(n) : n \in 0 .. Size}
    BY <1>1, <1>3
  <2> QED
    BY <1>1, <1>2, <2>1, <2>2 DEF TypeOK, Places
<1>5. Starting' /\ Awaited'
  BY <1>2 DEF Starting, Awaited
<1>6. ASSUME NEW u \in Threads
      PROVE  (InPlaceOf(u) /\ TaskAgrees(u) /\ Gathered(u) /\ Divides(u))'
  <2>1. InPlaceOf(u)' /\ TaskAgrees(u)'
    BY <1>2 DEF InPlaceOf, TaskAgrees, Leading
  <2>2. Gathered(u)' /\ Divides(u)'
    <3>1. CASE u = 0
      <4>1. Gathered(u)'
        BY <1>2, <1>3, <3>1 DEF Gathered, IsPool, IsTeam, Members, First, Length
      <4>2. Divides(u)'
        BY <1>1, <1>2, <1>3, <3>1 DEF Divides, Length
      <4> QED
        BY <4>1, <4>2
    <3>2. CASE u # 0
      BY <1>2, <3>2 DEF Gathered, Divides, Leading
    <3> QED
      BY <3>1, <3>2
  <2> QED
    BY <2>1, <2>2
<1> QED
  BY <1>4, <1>5, <1>6

(* When as many threads have the pool as it has members, they are its      *)
(* members, and all but the first have joined it.                          *)
LEMMA AllTogether ==
  ASSUME IInv, NEW t \in Threads, pc[t] = "run",
         Cardinality({u \in Threads : in[u] = in[t]}) = in[t].size
  PROVE  /\ IsTeam(in[t]) /\ t = First(in[t]) /\ in[t] \notin released /\ in[t] # Whole
         /\ \A u \in Members(in[t]) \ {t} : in[u] = in[t] /\ pc[u] = "joined"
<1> DEFINE P == in[t]
           S == {u \in Threads : in[u] = P}
<1>1. /\ P \in Pool /\ IsTeam(P) /\ t = First(P) /\ P \notin released /\ P # Whole /\ P # NoPool
      /\ P = thread_pools[t] /\ big_tasks[t].has_task /\ big_tasks[t].root_thread = t
  <2>1. P = thread_pools[t] /\ big_tasks[t].has_task /\ big_tasks[t].root_thread = t
    BY DEF IInv, InPlaceOf
  <2>2. IsTeam(P) /\ P \notin released /\ P \in Pool /\ t = First(P) /\ P # NoPool
    BY <2>1, Located DEF IInv, TaskAgrees
  <2> QED
    BY <2>1, <2>2, BigTasksAssumption DEF IsTeam, Whole, Length
<1>2. ASSUME NEW u \in S
      PROVE  u \in Members(P) /\ (u # t => pc[u] = "joined")
  <2>1. u \in Threads /\ in[u] = P /\ InPlaceOf(u) /\ TaskAgrees(u) /\ Gathered(u) /\ pc[u] \in Places
    BY DEF IInv, TypeOK
  <2>2. CASE pc[u] = "joined"
    BY <2>1, <2>2 DEF InPlaceOf
  <2>3. CASE pc[u] = "run"
    <3>1. u = First(thread_pools[u]) /\ in[u] = thread_pools[u]
      BY <2>1, <2>3, Located DEF InPlaceOf
    <3> QED
      BY <1>1, <2>1, <3>1, MembersAreThreads DEF IsTeam
  <2>4. CASE pc[u] \in Leading
    BY <1>1, <2>1, <2>4, MembersAreThreads DEF Gathered, IsTeam
  <2> QED
    BY <1>1, <2>1, <2>2, <2>3, <2>4 DEF InPlaceOf, Places, Leading
<1>3. Members(P) \subseteq S
  <2>1. IsFiniteSet(Members(P)) /\ Cardinality(Members(P)) = P.size
    <3>1. First(P) \in Nat /\ P.size \in Nat /\ P.size > 1
      BY <1>1, MembersAreThreads DEF IsTeam, Threads
    <3> DEFINE a == First(P)
               b == First(P) + P.size - 1
    <3>2. a \in Int /\ b \in Int /\ a <= b /\ b - a + 1 = P.size
      BY <3>1
    <3> HIDE DEF a, b
    <3>3. IsFiniteSet(a .. b) /\ Cardinality(a .. b) = P.size
      BY <3>2, FS_Interval
    <3> QED
      BY <3>3 DEF Members, a, b
  <2>2. S \subseteq Members(P)
    BY <1>2
  <2>3. Cardinality(S) = P.size
    OBVIOUS
  <2> HIDE DEF S, P
  <2>4. S = Members(P)
    BY <2>1, <2>2, <2>3, FS_Subset
  <2> QED
    BY <2>4
<1> QED
  BY <1>1, <1>2, <1>3

LEMMA RunInv ==
  ASSUME IInv, NEW t \in Threads, Run(t)
  PROVE  IInv'
<1> USE DEF IInv
<1> DEFINE P == in[t]
           n == big_tasks[t].end - big_tasks[t].begin
<1>1. PICK p \in Partitions(n) :
        /\ result' = [result EXCEPT ![t] = p]
        /\ sorted' = sorted \cup InPlace(n, big_tasks[t].begin, p, SubSingleLevel)
  BY DEF Run
<1>2. /\ pc[t] = "run" /\ pc' = [pc EXCEPT ![t] = "queue"]
      /\ pc \in [Threads -> Places] /\ DOMAIN result = Threads
      /\ UNCHANGED << big_tasks, thread_pools, queue, in, released, bucket >>
  BY DEF Run, Go, TypeOK
<1>3. /\ IsTeam(P) /\ t = First(P) /\ P \notin released /\ P # Whole
      /\ \A u \in Members(P) \ {t} : in[u] = P /\ pc[u] = "joined"
  BY AllTogether DEF Run
<1>4. big_tasks[t].has_task /\ big_tasks[t].root_thread = t /\ P = thread_pools[t]
  BY <1>2 DEF InPlaceOf
<1>5. /\ n = Length(P) /\ n \in 0 .. Size /\ big_tasks[t].begin + n <= Size
      /\ big_tasks[t].begin \in Nat
  <2>1. P.begin = big_tasks[t].begin /\ P.end = big_tasks[t].end /\ P \in Pool /\ IsPool(P)
    BY <1>4, Located DEF TaskAgrees, IsTeam
  <2>2. P.begin \in 0 .. Size /\ P.end \in 0 .. Size /\ P.begin < P.end /\ Size \in Nat
    BY <2>1, MembersAreThreads, BigTasksAssumption DEF IsPool
  <2> QED
    BY <2>1, <2>2 DEF Length
<1>6. TypeOK'
  <2>1. InPlace(n, big_tasks[t].begin, p, SubSingleLevel) \subseteq Positions
    BY <1>1, <1>5, InPlaceRange, BigTasksAssumption
  <2>2. p \in UNION {Partitions(m) : m \in 0 .. Size}
    BY <1>1, <1>5
  <2> HIDE DEF n
  <2> QED
    BY <1>1, <1>2, <2>1, <2>2 DEF TypeOK, Places
<1> HIDE DEF n
<1>7. Starting' /\ Awaited'
  BY <1>2, Located DEF Starting, Awaited
<1>8. ASSUME NEW u \in Threads
      PROVE  (InPlaceOf(u) /\ TaskAgrees(u) /\ Gathered(u) /\ Divides(u))'
  <2>1. InPlaceOf(u) /\ TaskAgrees(u) /\ Gathered(u) /\ Divides(u)
    OBVIOUS
  <2>2. /\ pc[u] \in Leading \cup {"joined"} =>
             Members(in[u]) \subseteq Threads /\ First(in[u]) \in Threads
        /\ 0 \in Threads
    BY Located
  <2>3. TaskAgrees(u)'
    BY <1>2, <2>1 DEF TaskAgrees, IsTeam, IsPool, Members, First, Length
  <2>4. InPlaceOf(u)'
    <3>1. CASE u = t
      BY <1>2, <3>1 DEF InPlaceOf
    <3>2. CASE u # t
      BY <1>2, <2>1, <2>2, <3>2 DEF InPlaceOf, IsTeam, IsPool, Members, First, Length, Leading
    <3> QED
      BY <3>1, <3>2
  <2>5. Gathered(u)' /\ Divides(u)'
    <3>1. CASE u = t
      <4>1. Gathered(u)'
        BY <1>2, <1>3, <3>1, Located DEF Gathered, Leading, IsTeam, IsPool, Members, First, Length, Threads
      <4>2. Divides(u)'
        BY <1>1, <1>2, <1>4, <1>5, <3>1 DEF Divides, Length
      <4> QED
        BY <4>1, <4>2
    <3>2. CASE u # t
      BY <1>1, <1>2, <2>1, <2>2, <3>2 DEF Gathered, Divides, IsTeam, IsPool, Members, First, Length, Leading
    <3> QED
      BY <3>1, <3>2
  <2> QED
    BY <2>3, <2>4, <2>5
<1> QED
  BY <1>6, <1>7, <1>8

LEMMA ClearedSlot ==
  ASSUME NEW b \in BigTask
  PROVE  /\ [b EXCEPT !.has_task = FALSE] \in BigTask
         /\ ~[b EXCEPT !.has_task = FALSE].has_task
BY DEF BigTask

LEMMA QueueInv ==
  ASSUME IInv, NEW t \in Threads, Queue(t)
  PROVE  IInv'
<1> USE DEF IInv
<1> DEFINE P == in[t]
           n == Length(P)
<1>1. /\ pc[t] = "queue" /\ pc \in [Threads -> Places] /\ DOMAIN thread_pools = Threads
      /\ pc' = [pc EXCEPT ![t] = pc'[t]] /\ pc'[t] \in {"divide", "release"}
      /\ thread_pools' = [thread_pools EXCEPT ![t] = NoPool]
      /\ big_tasks' = [u \in Threads |-> IF u \in Members(P) THEN [big_tasks[u] EXCEPT !.has_task = FALSE]
                                                             ELSE big_tasks[u]]
      /\ pc'[t] = "divide" => n > SingleLevel /\ bucket' = [bucket EXCEPT ![t] = result[t].num_buckets - 1]
      /\ pc'[t] = "release" => UNCHANGED bucket
      /\ UNCHANGED << queue, in, released, result, sorted >>
  <2>1. pc[t] = "queue" /\ Team(t) = Members(P)
    BY Led DEF Queue, Leading
  <2>2. /\ pc' = [pc EXCEPT ![t] = pc'[t]] /\ pc'[t] \in {"divide", "release"}
        /\ pc'[t] = "divide" => n > SingleLevel /\ bucket' = [bucket EXCEPT ![t] = result[t].num_buckets - 1]
        /\ pc'[t] = "release" => UNCHANGED bucket
    <3>1. Length(P) \in Nat /\ SingleLevel \in Nat /\ pc \in [Threads -> Places]
      BY <2>1, Led, MembersAreThreads, BigTasksAssumption DEF Leading, TypeOK
    <3>2. CASE n <= SingleLevel
      BY <3>1, <3>2 DEF Queue, Go, Length
    <3>3. CASE n > SingleLevel
      BY <3>1, <3>3 DEF Queue, Go, Length
    <3> QED
      BY <3>1, <3>2, <3>3
  <2> QED
    BY <2>1, <2>2 DEF Queue, TypeOK
<1>2. /\ P \in Pool /\ IsPool(P) /\ t = First(P) /\ t \in Members(P) /\ Members(P) \subseteq Threads
      /\ \A u \in Members(P) : u # t => in[u] = P /\ pc[u] \in {"wait", "joined"} /\ pc[u] \notin Leading
      /\ \A u \in Threads : pc[u] \in Leading /\ u # t =>
            u \notin Members(P) /\ t \notin Members(in[u]) /\ Members(in[u]) \cap Members(P) = {}
  BY <1>1, Led DEF Leading
<1>3. /\ result[t] \in Partitions(n) /\ n \in Nat
      /\ result[t].num_buckets - 1 \in Buckets(result[t]) /\ result[t].num_buckets - 1 \in Nat
  <2>1. result[t] \in Partitions(n) /\ n \in Nat
    BY <1>1, <1>2, MembersAreThreads DEF Divides
  <2>2. result[t].num_buckets \in Nat \ {0}
    BY <2>1, PartitionFacts
  <2> QED
    BY <2>1, <2>2 DEF Buckets
<1>4. TypeOK'
  <2>1. bucket' \in [Threads -> Nat]
    BY <1>1, <1>3 DEF TypeOK
  <2>2. big_tasks' \in [Threads -> BigTask]
    BY <1>1, ClearedSlot DEF TypeOK
  <2> QED
    BY <1>1, <2>1, <2>2, NoPoolTyped DEF TypeOK, Places, Positions
<1>5. Starting' /\ Awaited'
  <2>1. Starting'
    BY <1>1, Located DEF Starting
  <2>2. Awaited'
    BY <1>1 DEF Awaited
  <2> QED
    BY <2>1, <2>2
<1>6. \A u \in Threads : big_tasks'[u].has_task =>
          /\ u \notin Members(P) /\ big_tasks[u].has_task /\ big_tasks'[u] = big_tasks[u]
          /\ big_tasks[u].root_thread \in Threads /\ big_tasks[u].root_thread \notin Members(P)
          /\ Members(thread_pools[big_tasks[u].root_thread]) \cap Members(P) = {}
          /\ Members(thread_pools[big_tasks[u].root_thread]) \subseteq Threads
          /\ thread_pools'[big_tasks[u].root_thread] = thread_pools[big_tasks[u].root_thread]
  <2> SUFFICES ASSUME NEW u \in Threads, big_tasks'[u].has_task
               PROVE  /\ u \notin Members(P) /\ big_tasks[u].has_task /\ big_tasks'[u] = big_tasks[u]
                      /\ big_tasks[u].root_thread \in Threads /\ big_tasks[u].root_thread \notin Members(P)
                      /\ Members(thread_pools[big_tasks[u].root_thread]) \cap Members(P) = {}
                      /\ Members(thread_pools[big_tasks[u].root_thread]) \subseteq Threads
                      /\ thread_pools'[big_tasks[u].root_thread] = thread_pools[big_tasks[u].root_thread]
    OBVIOUS
  <2>1. u \notin Members(P)
    <3> SUFFICES ASSUME u \in Members(P) PROVE FALSE
      OBVIOUS
    <3>1. big_tasks'[u] = [big_tasks[u] EXCEPT !.has_task = FALSE] /\ big_tasks[u] \in BigTask
      BY <1>1, Located
    <3> QED
      BY <3>1, ClearedSlot
  <2>2. big_tasks[u].has_task /\ big_tasks'[u] = big_tasks[u]
    BY <1>1, <2>1
  <2>3. Members(thread_pools[big_tasks[u].root_thread]) \cap Members(P) = {}
    BY <1>1, <2>1, <2>2, TasksStayInside
  <2>4. /\ big_tasks[u].root_thread \in Threads
        /\ Members(thread_pools[big_tasks[u].root_thread]) \subseteq Threads
        /\ big_tasks[u].root_thread \in Members(thread_pools[big_tasks[u].root_thread])
    BY <2>2, Located, MembersAreThreads
  <2>5. big_tasks[u].root_thread \notin Members(P)
    BY <2>3, <2>4
  <2> HIDE DEF P
  <2> QED
    BY <1>1, <1>2, <2>1, <2>2, <2>3, <2>4, <2>5
<1> HIDE DEF P, n
<1>7. ASSUME NEW u \in Threads
      PROVE  (InPlaceOf(u) /\ TaskAgrees(u) /\ Gathered(u) /\ Divides(u))'
  <2>1. InPlaceOf(u) /\ TaskAgrees(u) /\ Gathered(u) /\ Divides(u)
    OBVIOUS
  <2>2. /\ pc[u] \in Leading \cup {"joined"} =>
             Members(in[u]) \subseteq Threads /\ First(in[u]) \in Threads /\ IsPool(in[u])
        /\ 0 \in Threads
    BY Located
  <2>3. TaskAgrees(u)'
    <3>1. SUFFICES ASSUME big_tasks'[u].has_task PROVE TaskAgrees(u)'
      BY DEF TaskAgrees
    <3> DEFINE Q == thread_pools[big_tasks[u].root_thread]
    <3>2. /\ Q = thread_pools'[big_tasks'[u].root_thread] /\ big_tasks'[u] = big_tasks[u]
          /\ big_tasks[u].has_task
          /\ Members(Q) \cap Members(P) = {} /\ Members(Q) \subseteq Threads
      BY <1>6, <3>1
    <3>3. \A w \in Members(Q) : big_tasks'[w] = big_tasks[w]
      BY <1>1, <3>2 DEF P
    <3>4. /\ big_tasks[u].root_thread = Round(big_tasks[u].begin)
          /\ Q.begin = big_tasks[u].begin /\ Q.end = big_tasks[u].end /\ IsTeam(Q)
          /\ Q.size = Round(big_tasks[u].end) - big_tasks[u].root_thread
          /\ u \in Members(Q) /\ Q \notin released'
          /\ \A w \in Members(Q) : big_tasks'[w] = [big_tasks[u] EXCEPT !.task_thread_id = w - big_tasks[u].root_thread]
      BY <1>1, <2>1, <3>2, <3>3 DEF TaskAgrees
    <3> HIDE DEF Q
    <3>5. /\ IsTeam(thread_pools[big_tasks[u].root_thread])'
          /\ Members(thread_pools[big_tasks[u].root_thread])' = Members(Q)
      BY <3>2, <3>4 DEF IsTeam, IsPool, Members, First, Length
    <3> QED
      BY <3>1, <3>2, <3>4, <3>5 DEF TaskAgrees
  <2>4. InPlaceOf(u)'
    <3>1. CASE u \in Members(P)
      BY <1>1, <1>2, <2>1, <2>2, <3>1, Located DEF InPlaceOf, P, IsTeam, IsPool, Members, First, Length, Leading
    <3>2. CASE u \notin Members(P)
      <4>1. big_tasks'[u] = big_tasks[u] /\ thread_pools'[u] = thread_pools[u] /\ u # t
        BY <1>1, <1>2, <3>2 DEF P
      <4>2. big_tasks[u].has_task =>
              thread_pools'[big_tasks[u].root_thread] = thread_pools[big_tasks[u].root_thread]
        BY <1>6, <4>1
      <4>3. pc'[u] = pc[u] /\ (pc'[0] = pc[0] \/ (pc[0] \in Leading /\ pc'[0] \in Leading))
        BY <1>1, <4>1, Located DEF Leading
      <4>4. pc[u] = "joined" /\ pc[First(in[u])] \in Leading => pc'[First(in[u])] \in Leading
        BY <1>1, <2>2 DEF Leading
      <4>5. pc[u] = "joined" => InPlaceOf(u)'
        BY <1>1, <2>1, <4>1, <4>2, <4>3, <4>4 DEF InPlaceOf, IsTeam, IsPool, Members, First, Length
      <4>6. pc[u] # "joined" => InPlaceOf(u)'
        BY <1>1, <2>1, <4>1, <4>3 DEF InPlaceOf, Leading
      <4> QED
        BY <4>5, <4>6
    <3> QED
      BY <3>1, <3>2
  <2>5. Gathered(u)'
    <3>1. CASE u = t
      BY <1>1, <1>2, <2>1, <3>1 DEF Gathered, P, IsTeam, IsPool, Members, First, Length, Leading
    <3>2. CASE u # t
      BY <1>1, <2>1, <2>2, <3>2 DEF Gathered, IsTeam, IsPool, Members, First, Length, Leading
    <3> QED
      BY <3>1, <3>2
  <2>6. Divides(u)'
    <3>1. CASE u = t
      <4>1. \A w \in Members(P) : ~big_tasks'[w].has_task
        BY <1>2, <1>6
      <4>2. Members(in[u])' = Members(P) /\ Length(in[u])' = n /\ pc'[u] # "queue" /\ result' = result
        BY <1>1, <3>1 DEF Members, First, Length, P, n
      <4>3. pc'[u] = "divide" => n > SingleLevel /\ bucket'[u] \in Buckets(result[t])
        BY <1>1, <1>3, <3>1 DEF TypeOK
      <4> QED
        BY <1>3, <3>1, <4>1, <4>2, <4>3 DEF Divides, Buckets
    <3>2. CASE u # t /\ pc[u] \notin Leading
      BY <1>1, <3>2 DEF Divides, Leading
    <3>3. CASE u # t /\ pc[u] \in Leading
      <4>1. Members(in[u]) \cap Members(P) = {} /\ u \in Members(in[u]) /\ Members(in[u]) \subseteq Threads
        BY <1>2, <2>1, <2>2, <3>3, Led
      <4>2. \A w \in Members(in[u]) : big_tasks'[w] = big_tasks[w]
        BY <1>1, <4>1 DEF P
      <4>3. /\ bucket'[u] = bucket[u] /\ thread_pools'[u] = thread_pools[u] /\ pc'[u] = pc[u]
            /\ Members(in[u])' = Members(in[u]) /\ Length(in[u])' = Length(in[u])
            /\ in' = in /\ result' = result
        BY <1>1, <3>3 DEF TypeOK, Members, First, Length
      <4>4. in[u] = Whole => ~(\A v \in Threads : ~big_tasks[v].has_task) \/ \A v \in Threads : ~big_tasks'[v].has_task
        BY <1>6
      <4> QED
        BY <2>1, <4>1, <4>2, <4>3, <4>4 DEF Divides
    <3> QED
      BY <3>1, <3>2, <3>3
  <2> QED
    BY <2>3, <2>4, <2>5, <2>6
<1> QED
  BY <1>4, <1>5, <1>7

(* What queueTask does with the slots: see DivideInv for the numbers.      *)
NewTask(lo, hi, first, u) ==
  [has_task |-> TRUE, begin |-> lo, end |-> hi, task_thread_id |-> u - first, root_thread |-> first]

PoolOf(lo, hi) == [begin |-> lo, end |-> hi, size |-> Round(hi) - Round(lo)]

LEMMA NewTaskFields ==
  ASSUME NEW lo, NEW hi, NEW first, NEW u
  PROVE  /\ NewTask(lo, hi, first, u).has_task
         /\ NewTask(lo, hi, first, u).begin = lo /\ NewTask(lo, hi, first, u).end = hi
         /\ NewTask(lo, hi, first, u).root_thread = first
         /\ NewTask(lo, hi, first, u).task_thread_id = u - first
BY DEF NewTask

LEMMA SlotsEqual ==
  ASSUME NEW a \in BigTask, NEW b \in BigTask, a.has_task = b.has_task, a.begin = b.begin, a.end = b.end,
         a.task_thread_id = b.task_thread_id, a.root_thread = b.root_thread
  PROVE  a = b
BY DEF BigTask

LEMMA SlotNumbered ==
  ASSUME NEW a \in BigTask, NEW j \in 0 .. NumThreads
  PROVE  LET b == [a EXCEPT !.task_thread_id = j]
         IN /\ b \in BigTask /\ b.has_task = a.has_task /\ b.begin = a.begin /\ b.end = a.end
            /\ b.task_thread_id = j /\ b.root_thread = a.root_thread
BY DEF BigTask

LEMMA NewTaskFacts ==
  ASSUME NEW lo \in 0 .. Size, NEW hi \in 0 .. Size, lo < hi, hi - lo < Size,
         Round(hi) - Round(lo) > 1
  PROVE  /\ PoolOf(lo, hi) \in Pool /\ IsTeam(PoolOf(lo, hi)) /\ First(PoolOf(lo, hi)) = Round(lo)
         /\ Members(PoolOf(lo, hi)) = Round(lo) .. Round(hi) - 1
         /\ Round(lo) .. Round(hi) - 1 \subseteq Threads
         /\ \A u \in Round(lo) .. Round(hi) - 1 : NewTask(lo, hi, Round(lo), u) \in BigTask
         /\ \A u, w \in Round(lo) .. Round(hi) - 1 :
              NewTask(lo, hi, Round(lo), w) =
                [NewTask(lo, hi, Round(lo), u) EXCEPT !.task_thread_id = w - Round(lo)]
<1> DEFINE P == PoolOf(lo, hi)
<1>1. /\ Round(lo) \in Nat /\ Round(hi) \in Nat /\ Round(hi) <= NumThreads /\ NumThreads \in Nat
      /\ Size \in Nat
  BY RoundFacts, BigTasksAssumption
<1>2. P \in Pool /\ IsTeam(P) /\ First(P) = Round(lo) /\ Members(P) = Round(lo) .. Round(hi) - 1
  BY <1>1 DEF PoolOf, Pool, IsTeam, IsPool, First, Members, Length
<1>3. Members(P) \subseteq Threads
  BY <1>1, <1>2 DEF Threads
<1>4. ASSUME NEW u \in Members(P)
      PROVE  NewTask(lo, hi, Round(lo), u) \in BigTask
  BY <1>1, <1>2 DEF NewTask, BigTask
<1>5. ASSUME NEW u \in Members(P), NEW w \in Members(P)
      PROVE  NewTask(lo, hi, Round(lo), w) =
               [NewTask(lo, hi, Round(lo), u) EXCEPT !.task_thread_id = w - Round(lo)]
  <2> DEFINE a == NewTask(lo, hi, Round(lo), u)
             b == NewTask(lo, hi, Round(lo), w)
             c == [a EXCEPT !.task_thread_id = w - Round(lo)]
  <2>1. w - Round(lo) \in 0 .. NumThreads
    BY <1>1, <1>2
  <2>2. /\ a.has_task = b.has_task /\ a.begin = b.begin /\ a.end = b.end
        /\ b.task_thread_id = w - Round(lo) /\ a.root_thread = b.root_thread
    BY DEF NewTask
  <2>3. a \in BigTask /\ b \in BigTask
    BY <1>4
  <2> HIDE DEF a, b
  <2>4. /\ c \in BigTask /\ c.has_task = a.has_task /\ c.begin = a.begin /\ c.end = a.end
        /\ c.task_thread_id = w - Round(lo) /\ c.root_thread = a.root_thread
    BY <2>1, <2>3, SlotNumbered
  <2> HIDE DEF c
  <2>5. b = c
    BY <2>2, <2>3, <2>4, SlotsEqual
  <2> QED
    BY <2>5 DEF a, b, c
<1> HIDE DEF P
<1> QED
  BY <1>2, <1>3, <1>4, <1>5 DEF P

(* The borders of the bucket that t is about to queue.                     *)
Lo(t) == in[t].begin + Start(result[t], bucket[t])
Hi(t) == in[t].begin + Stop(result[t], bucket[t])

LEMMA DivideCases ==
  ASSUME IInv, NEW t \in Threads, Divide(t)
  PROVE  /\ pc[t] = "divide" /\ result[t] \in Partitions(Length(in[t])) /\ Length(in[t]) \in Nat
         /\ bucket[t] \in Buckets(result[t]) /\ bucket[t] \in Nat
         /\ UNCHANGED << in, released, result, sorted >>
         /\ IF bucket[t] = 0 THEN pc' = [pc EXCEPT ![t] = "release"] /\ bucket' = bucket
                             ELSE pc' = pc /\ bucket' = [bucket EXCEPT ![t] = bucket[t] - 1]
         /\ Lo(t) \in 0 .. Size /\ Hi(t) \in 0 .. Size
         /\ in[t].begin <= Lo(t) /\ Lo(t) <= Hi(t) /\ Hi(t) <= in[t].end
         /\ \/ /\ UNCHANGED << big_tasks, thread_pools, queue >>
               /\ bucket[t] \in QueuedBuckets(result[t]) => Lo(t) = Hi(t)
            \/ /\ UNCHANGED << big_tasks, thread_pools >>
               /\ bucket[t] \in QueuedBuckets(result[t]) /\ Lo(t) < Hi(t)
               /\ \E owner \in Members(in[t]) :
                    queue' = [queue EXCEPT ![owner] = @ \cup {<< Lo(t), Hi(t) >>}]
            \/ /\ UNCHANGED queue
               /\ bucket[t] \in QueuedBuckets(result[t]) /\ Lo(t) < Hi(t) /\ Hi(t) - Lo(t) < Length(in[t])
               /\ Round(Hi(t)) - Round(Lo(t)) > 1
               /\ thread_pools' = [thread_pools EXCEPT ![Round(Lo(t))] = PoolOf(Lo(t), Hi(t))]
               /\ big_tasks' = [u \in Threads |-> IF u \in Round(Lo(t)) .. Round(Hi(t)) - 1
                                                    THEN NewTask(Lo(t), Hi(t), Round(Lo(t)), u)
                                                    ELSE big_tasks[u]]
<1> DEFINE P  == in[t]
           p  == result[t]
           i  == bucket[t]
           n  == Length(P)
           a  == Start(p, i)
           b  == Stop(p, i)
           lo == Lo(t)
           hi == Hi(t)
<1>1. pc[t] = "divide" /\ p \in Partitions(n) /\ i \in Buckets(p)
  BY DEF IInv, Divides, Divide
<1>2. /\ P.begin \in 0 .. Size /\ P.end \in 0 .. Size /\ P.size \in Nat \ {0} /\ n \in Nat \ {0}
      /\ n = P.end - P.begin /\ t = First(P) /\ t \in Nat
      /\ IsPool(P) /\ P \in Pool
  BY <1>1, Led, MembersAreThreads DEF Leading, IsPool, Length, Threads
<1>3. i \in Nat /\ i \in 0 .. p.num_buckets /\ i + 1 \in 0 .. p.num_buckets /\ i <= i + 1
  BY <1>1, <1>2, PartitionFacts DEF Buckets
<1>4. a \in 0 .. n /\ b \in 0 .. n /\ a <= b /\ (i \in QueuedBuckets(p) => b - a < n)
  <2>1. /\ p.bucket_start \in [0 .. p.num_buckets -> 0 .. n]
        /\ \A j, k \in 0 .. p.num_buckets : j <= k => p.bucket_start[j] <= p.bucket_start[k]
        /\ \A j \in QueuedBuckets(p) : Stop(p, j) - Start(p, j) < n
    <3> HIDE DEF n, p
    <3> QED
      BY <1>1, <1>2, PartitionFacts
  <2> HIDE DEF n, p, i
  <2> QED
    BY <1>3, <2>1 DEF Start, Stop
<1>5. lo = P.begin + a /\ hi = P.begin + b
  BY DEF Lo, Hi
<1>6. /\ UNCHANGED << in, released, result, sorted >>
      /\ IF i = 0 THEN pc' = [pc EXCEPT ![t] = "release"] /\ bucket' = bucket
                  ELSE pc' = pc /\ bucket' = [bucket EXCEPT ![t] = i - 1]
      /\ IF i \in QueuedBuckets(p) /\ a < b
           THEN QueueTask(t, a, b)
           ELSE UNCHANGED << big_tasks, thread_pools, queue >>
  BY DEF Divide, Go
<1>7. lo \in 0 .. Size /\ hi \in 0 .. Size /\ P.begin <= lo /\ lo <= hi /\ hi <= P.end /\ hi - lo = b - a
  <2>1. Size \in Nat
    BY BigTasksAssumption
  <2> HIDE DEF n, a, b, P, lo, hi
  <2> QED
    BY <1>2, <1>4, <1>5, <2>1
<1>8. CASE i \in QueuedBuckets(p) /\ a < b
  <2> DEFINE k     == (a + (b - a) \div 2) \div CeilDiv(n, P.size)
             owner == t + k
  <2>1. owner \in Members(P)
    <3>1. k \in 0 .. P.size - 1
      <4>1. n \in Nat \ {0} /\ P.size \in Nat \ {0} /\ a \in Nat /\ b \in Nat /\ a < b /\ b <= n
        <5> HIDE DEF n, a, b, P
        <5> QED
          BY <1>2, <1>4, <1>8
      <4> HIDE DEF n, a, b
      <4> QED
        BY <4>1, OwnerInTeam
    <3> HIDE DEF k, P
    <3> QED
      BY <1>2, <3>1 DEF Members
  <2>2. lo < hi /\ hi - lo < n
    <3> HIDE DEF n, a, b, P, lo, hi
    <3> QED
      BY <1>2, <1>4, <1>7, <1>8
  <2>3. QueueTask(t, a, b)
    BY <1>6, <1>8
  <2>4. Round(lo) \in Nat /\ Round(hi) \in Nat
    BY <1>7, RoundFacts
  <2>5. CASE Round(hi) - Round(lo) <= 1 \/ b - a <= BaseCaseSize
    <3>1. /\ UNCHANGED << big_tasks, thread_pools >>
          /\ queue' = [queue EXCEPT ![owner] = @ \cup {<< lo, hi >>}]
      BY <1>2, <2>3, <2>5 DEF QueueTask, ThreadBegin, ThreadEnd, Lo, Hi
    <3> HIDE DEF owner
    <3> QED
      BY <1>1, <1>2, <1>3, <1>6, <1>7, <1>8, <2>1, <2>2, <3>1
  <2>6. CASE ~(Round(hi) - Round(lo) <= 1 \/ b - a <= BaseCaseSize)
    <3>1. /\ UNCHANGED queue
          /\ thread_pools' = [thread_pools EXCEPT ![Round(lo)] = PoolOf(lo, hi)]
          /\ big_tasks' = [u \in Threads |-> IF u \in Round(lo) .. Round(hi) - 1
               THEN NewTask(lo, hi, Round(lo), u) ELSE big_tasks[u]]
      BY <2>3, <2>6 DEF QueueTask, ThreadBegin, ThreadEnd, NewTask, PoolOf, Lo, Hi
    <3>2. Round(hi) - Round(lo) > 1
      <4> HIDE DEF lo, hi
      <4> QED
        BY <2>4, <2>6
    <3> QED
      BY <1>1, <1>2, <1>3, <1>6, <1>7, <1>8, <2>2, <3>1, <3>2
  <2> QED
    BY <2>5, <2>6
<1>9. CASE ~(i \in QueuedBuckets(p) /\ a < b)
  <2>1. UNCHANGED << big_tasks, thread_pools, queue >> /\ (i \in QueuedBuckets(p) => lo = hi)
    <3> HIDE DEF lo, hi, P, p, i, n, a, b
    <3> QED
      BY <1>2, <1>4, <1>5, <1>6, <1>9
  <2> QED
    BY <1>1, <1>2, <1>3, <1>6, <1>7, <2>1
<1> QED
  BY <1>8, <1>9

(* A new team is a part of the team that is divided, and its threads have  *)
(* no task yet.                                                            *)
LEMMA NewTeam ==
  ASSUME IInv, NEW t \in Threads, Divide(t), Lo(t) < Hi(t), Round(Hi(t)) - Round(Lo(t)) > 1
  PROVE  LET new == Round(Lo(t)) .. Round(Hi(t)) - 1
         IN /\ Round(Lo(t)) \in Nat /\ Round(Hi(t)) \in Nat /\ Round(Lo(t)) \in new
            /\ new \subseteq Members(in[t])
            /\ \A u \in new : ~big_tasks[u].has_task
<1> DEFINE P  == in[t]
           lo == Lo(t)
           hi == Hi(t)
           new == Round(lo) .. Round(hi) - 1
<1>1. /\ pc[t] = "divide" /\ lo \in 0 .. Size /\ hi \in 0 .. Size
      /\ P.begin <= lo /\ lo <= hi /\ hi <= P.end
  BY DivideCases
<1>2. P \in Pool /\ IsPool(P) /\ Members(P) \subseteq Threads
  BY <1>1, Led DEF Leading
<1>3. P.begin \in 0 .. Size /\ P.end \in 0 .. Size /\ Size \in Nat /\ P.size \in Nat
  BY <1>2, MembersAreThreads, BigTasksAssumption
<1>4. /\ Round(lo) \in new /\ new \subseteq Members(P) /\ Round(lo) \in Nat /\ Round(hi) \in Nat
  <2>1. /\ Round(P.begin) <= Round(lo) /\ Round(lo) <= Round(hi) /\ Round(hi) <= Round(P.end)
        /\ Round(P.begin) \in Nat /\ Round(lo) \in Nat /\ Round(hi) \in Nat /\ Round(P.end) \in Nat
    BY <1>1, <1>3, RoundFacts
  <2>2. Round(P.end) <= Round(P.begin) + P.size /\ Members(P) = Round(P.begin) .. Round(P.begin) + P.size - 1
    BY <1>2 DEF IsPool, Members, First
  <2>3. Round(hi) - Round(lo) > 1
    OBVIOUS
  <2> HIDE DEF P, lo, hi
  <2> QED
    BY <1>3, <2>1, <2>2, <2>3
<1>5. ASSUME NEW u \in new, big_tasks[u].has_task PROVE FALSE
  <2> DEFINE r == big_tasks[u].root_thread
  <2>1. u \in Threads /\ u \in Members(P)
    BY <1>2, <1>4
  <2>2. hi <= big_tasks[u].begin
    BY <1>1, <1>5, <2>1 DEF IInv, Divides, Hi
  <2>3. r = Round(big_tasks[u].begin) /\ u \in Members(thread_pools[r]) /\ r = First(thread_pools[r])
        /\ big_tasks[u].begin \in 0 .. Size
    BY <1>5, <2>1, Located DEF IInv, TaskAgrees, BigTask
  <2>4. r <= u
    <3>1. u \in r .. r + thread_pools[r].size - 1
      BY <2>3 DEF Members
    <3> QED
      BY <3>1
  <2>5. Round(hi) <= r /\ r \in Nat
    BY <1>1, <2>2, <2>3, RoundFacts
  <2> HIDE DEF r, lo, hi
  <2> QED
    BY <1>4, <2>4, <2>5
<1> QED
  BY <1>4, <1>5

(* After a bucket has been queued the slots of the team still agree, and   *)
(* what is in them lies at or behind the bucket.                           *)
LEMMA DividedSlots ==
  ASSUME IInv, NEW t \in Threads, Divide(t)
  PROVE  /\ \A u \in Threads \ Members(in[t]) :
              big_tasks'[u] = big_tasks[u] /\ thread_pools'[u] = thread_pools[u]
         /\ \A u \in Members(in[t]) : big_tasks'[u].has_task =>
              /\ Lo(t) <= big_tasks'[u].begin /\ big_tasks'[u].end <= in[t].end
              /\ big_tasks'[u].end - big_tasks'[u].begin < Length(in[t])
         /\ \A u \in Threads : big_tasks'[u] \in BigTask /\ thread_pools'[u] \in Pool
         /\ \A u \in Threads : TaskAgrees(u)'
<1> DEFINE P  == in[t]
           lo == Lo(t)
           hi == Hi(t)
           new == Round(lo) .. Round(hi) - 1
<1>1. /\ pc[t] = "divide" /\ lo \in 0 .. Size /\ hi \in 0 .. Size
      /\ P.begin <= lo /\ lo <= hi /\ hi <= P.end /\ released' = released
  BY DivideCases
<1>2. /\ P \in Pool /\ IsPool(P) /\ t = First(P) /\ Members(P) \subseteq Threads
      /\ Divides(t)
  BY <1>1, Led DEF Leading, IInv
<1>3. \A u \in Members(P) : big_tasks[u].has_task =>
        /\ hi <= big_tasks[u].begin /\ big_tasks[u].end <= P.end
        /\ big_tasks[u].end - big_tasks[u].begin < Length(P)
  BY <1>1, <1>2 DEF Divides, Hi
<1>4. \A u \in Threads : big_tasks[u] \in BigTask /\ thread_pools[u] \in Pool /\ TaskAgrees(u)
  BY Located DEF IInv
<1>5. CASE UNCHANGED << big_tasks, thread_pools >>
  <2>1. \A u \in Members(P) : big_tasks[u].has_task => lo <= big_tasks[u].begin
    <3> SUFFICES ASSUME NEW u \in Members(P), big_tasks[u].has_task PROVE lo <= big_tasks[u].begin
      OBVIOUS
    <3>1. big_tasks[u].begin \in 0 .. Size /\ hi <= big_tasks[u].begin
      BY <1>2, <1>3, <1>4 DEF BigTask
    <3> HIDE DEF lo, hi
    <3> QED
      BY <1>1, <3>1
  <2>2. ASSUME NEW u \in Threads PROVE TaskAgrees(u)'
    <3>1. TaskAgrees(u)
      BY <1>4
    <3> QED
      BY <1>1, <1>5, <3>1 DEF TaskAgrees, IsTeam, IsPool, Members, First, Length
  <2> QED
    BY <1>3, <1>4, <1>5, <2>1, <2>2
<1>6. CASE /\ lo < hi /\ hi - lo < Length(P) /\ Round(hi) - Round(lo) > 1
           /\ thread_pools' = [thread_pools EXCEPT ![Round(lo)] = PoolOf(lo, hi)]
           /\ big_tasks' = [u \in Threads |-> IF u \in new THEN NewTask(lo, hi, Round(lo), u)
                                                           ELSE big_tasks[u]]
  <2> DEFINE Q == PoolOf(lo, hi)
  <2>1. P.begin \in 0 .. Size /\ P.end \in 0 .. Size /\ Length(P) <= Size /\ Size \in Nat
        /\ Length(P) = P.end - P.begin /\ P.size \in Nat
    BY <1>2, MembersAreThreads, BigTasksAssumption DEF Length
  <2>2. hi - lo < Size
    <3> HIDE DEF lo, hi, P
    <3> QED
      BY <1>1, <1>6, <2>1
  <2>3. /\ Q \in Pool /\ IsTeam(Q) /\ First(Q) = Round(lo) /\ Members(Q) = new /\ new \subseteq Threads
        /\ \A u \in new : NewTask(lo, hi, Round(lo), u) \in BigTask
        /\ \A u, w \in new : NewTask(lo, hi, Round(lo), w) =
                               [NewTask(lo, hi, Round(lo), u) EXCEPT !.task_thread_id = w - Round(lo)]
    <3> HIDE DEF lo, hi
    <3> QED
      BY <1>1, <1>6, <2>2, NewTaskFacts
  <2>4. /\ Round(lo) \in new /\ new \subseteq Members(P) /\ Round(lo) \in Members(P)
        /\ Round(lo) \in Nat /\ Round(hi) \in Nat
    BY <1>6, NewTeam
  <2>5. \A u \in new : big_tasks'[u] = NewTask(lo, hi, Round(lo), u)
    BY <1>6, <2>3
  <2>6. \A u \in Threads \ new : big_tasks'[u] = big_tasks[u]
    BY <1>6
  <2>7. thread_pools'[Round(lo)] = Q /\ \A u \in Threads : u # Round(lo) => thread_pools'[u] = thread_pools[u]
    <3>1. DOMAIN thread_pools = Threads /\ Round(lo) \in Threads
      BY <2>3, <2>4 DEF IInv, TypeOK
    <3> QED
      BY <1>6, <3>1
  <2>8. \A u \in Threads \ Members(P) :
              big_tasks'[u] = big_tasks[u] /\ thread_pools'[u] = thread_pools[u]
    BY <2>4, <2>6, <2>7
  <2>9. \A u \in new : /\ big_tasks'[u].has_task /\ big_tasks'[u].begin = lo /\ big_tasks'[u].end = hi
                       /\ big_tasks'[u].root_thread = Round(lo) /\ big_tasks'[u].task_thread_id = u - Round(lo)
    BY <2>5, NewTaskFields
  <2>10. \A u \in Members(P) : big_tasks'[u].has_task =>
              /\ lo <= big_tasks'[u].begin /\ big_tasks'[u].end <= P.end
              /\ big_tasks'[u].end - big_tasks'[u].begin < Length(P)
    <3> SUFFICES ASSUME NEW u \in Members(P), big_tasks'[u].has_task
                 PROVE  /\ lo <= big_tasks'[u].begin /\ big_tasks'[u].end <= P.end
                        /\ big_tasks'[u].end - big_tasks'[u].begin < Length(P)
      OBVIOUS
    <3>1. CASE u \in new
      <4>1. big_tasks'[u].begin = lo /\ big_tasks'[u].end = hi
        BY <2>9, <3>1
      <4> HIDE DEF lo, hi, P
      <4> QED
        BY <1>1, <1>6, <4>1
    <3>2. CASE u \notin new
      <4>1. big_tasks'[u] = big_tasks[u] /\ big_tasks[u].begin \in 0 .. Size
        BY <1>2, <1>4, <2>6, <3>2 DEF BigTask
      <4>2. hi <= big_tasks[u].begin /\ big_tasks[u].end <= P.end
            /\ big_tasks[u].end - big_tasks[u].begin < Length(P)
        BY <1>3, <4>1
      <4> HIDE DEF lo, hi, P
      <4> QED
        BY <1>1, <4>1, <4>2
    <3> QED
      BY <3>1, <3>2
  <2>11. \A u \in Threads : big_tasks'[u] \in BigTask /\ thread_pools'[u] \in Pool
    BY <1>4, <2>3, <2>5, <2>6, <2>7
  <2>12. Q \notin released
    <3> SUFFICES ASSUME Q \in released PROVE FALSE
      OBVIOUS
    <3>1. PICK w \in Threads : pc[w] = "joined" /\ in[w] = Q
      BY DEF IInv, Awaited
    <3>2. w \in new /\ w \in Members(P)
      BY <2>3, <2>4, <3>1 DEF IInv, InPlaceOf
    <3>3. P = Q
      BY <1>1, <3>1, <3>2, Led DEF Leading
    <3>4. Length(Q) = hi - lo
      BY DEF Length, PoolOf
    <3> HIDE DEF lo, hi, P
    <3> QED
      BY <1>1, <1>6, <3>3, <3>4
  <2>13. ASSUME NEW u \in Threads PROVE TaskAgrees(u)'
    <3>1. SUFFICES ASSUME big_tasks'[u].has_task PROVE TaskAgrees(u)'
      BY DEF TaskAgrees
    <3>2. CASE u \in new
      <4>1. /\ big_tasks'[u].root_thread = Round(lo) /\ thread_pools'[Round(lo)] = Q
            /\ big_tasks'[u].begin = lo /\ big_tasks'[u].end = hi
        BY <2>7, <2>9, <3>2
      <4>2. Q.begin = lo /\ Q.end = hi /\ Q.size = Round(hi) - Round(lo)
        BY DEF PoolOf
      <4>3. \A w \in new : big_tasks'[w] = [big_tasks'[u] EXCEPT !.task_thread_id = w - Round(lo)]
        BY <2>3, <2>5, <3>2
      <4> HIDE DEF Q, lo, hi
      <4>4. /\ IsTeam(thread_pools[big_tasks[u].root_thread])'
            /\ Members(thread_pools[big_tasks[u].root_thread])' = new
        BY <2>3, <4>1 DEF IsTeam, IsPool, Members, First, Length
      <4> HIDE DEF new
      <4> QED
        BY <1>1, <2>12, <3>1, <3>2, <4>1, <4>2, <4>3, <4>4 DEF TaskAgrees
    <3>3. CASE u \notin new
      <4> DEFINE r == big_tasks[u].root_thread
                 R == thread_pools[r]
      <4>1. big_tasks'[u] = big_tasks[u] /\ big_tasks[u].has_task
        BY <2>6, <3>1, <3>3
      <4>2. /\ r \in Threads /\ R \in Pool /\ IsPool(R) /\ Members(R) \subseteq Threads
            /\ r \in Members(R) /\ r = First(R)
        BY <4>1, Located, MembersAreThreads
      <4>3. Members(R) \cap new = {}
        <5>1. CASE u \notin Members(P)
          <6>1. Members(R) \cap Members(P) = {}
            BY <1>1, <4>1, <5>1, TasksStayInside
          <6> HIDE DEF R, P, new
          <6> QED
            BY <2>4, <6>1
        <5>2. CASE u \in Members(P)
          <6>1. hi <= big_tasks[u].begin /\ r = Round(big_tasks[u].begin) /\ big_tasks[u].begin \in 0 .. Size
            BY <1>3, <1>4, <4>1, <5>2 DEF TaskAgrees, BigTask
          <6>2. Round(hi) <= r /\ r \in Nat
            BY <1>1, <6>1, RoundFacts
          <6>3. Members(R) = r .. r + R.size - 1
            BY <4>2 DEF Members
          <6> HIDE DEF R, r, lo, hi
          <6> QED
            BY <2>4, <6>2, <6>3
        <5> QED
          BY <5>1, <5>2
      <4>4. thread_pools'[r] = R /\ \A w \in Members(R) : big_tasks'[w] = big_tasks[w]
        <5>1. r # Round(lo)
          BY <2>4, <4>2, <4>3
        <5> HIDE DEF new
        <5> QED
          BY <2>6, <2>7, <4>2, <4>3, <5>1
      <4>5. /\ r = Round(big_tasks[u].begin) /\ R.begin = big_tasks[u].begin /\ R.end = big_tasks[u].end
            /\ IsTeam(R) /\ R.size = Round(big_tasks[u].end) - r
            /\ u \in Members(R) /\ R \notin released
            /\ \A w \in Members(R) : big_tasks'[w] = [big_tasks[u] EXCEPT !.task_thread_id = w - r]
        BY <1>4, <4>1, <4>4 DEF TaskAgrees
      <4> HIDE DEF R
      <4>6. /\ IsTeam(thread_pools[big_tasks[u].root_thread])'
            /\ Members(thread_pools[big_tasks[u].root_thread])' = Members(R)
        BY <4>1, <4>4, <4>5 DEF IsTeam, IsPool, Members, First, Length
      <4> QED
        BY <1>1, <3>1, <4>1, <4>4, <4>5, <4>6 DEF TaskAgrees
    <3> QED
      BY <3>2, <3>3
  <2> QED
    BY <2>8, <2>10, <2>11, <2>13
<1> QED
  BY <1>5, <1>6, DivideCases

LEMMA DivideInv ==
  ASSUME IInv, NEW t \in Threads, Divide(t)
  PROVE  IInv'
<1> USE DEF IInv
<1> DEFINE P == in[t]
           p == result[t]
           i == bucket[t]
<1>1. /\ pc[t] = "divide" /\ p \in Partitions(Length(P)) /\ Length(P) \in Nat
      /\ i \in Buckets(p) /\ i \in Nat
      /\ UNCHANGED << in, released, result, sorted >>
      /\ IF i = 0 THEN pc' = [pc EXCEPT ![t] = "release"] /\ bucket' = bucket
                  ELSE pc' = pc /\ bucket' = [bucket EXCEPT ![t] = i - 1]
      /\ pc \in [Threads -> Places]
  BY DivideCases DEF TypeOK
<1>2. /\ pc' = [pc EXCEPT ![t] = pc'[t]] /\ pc'[t] \in {"divide", "release"}
      /\ pc'[t] = "divide" => i - 1 \in Nat /\ i - 1 \in Buckets(p)
      /\ pc'[t] = "divide" => bucket' = [bucket EXCEPT ![t] = i - 1]
      /\ bucket' \in [Threads -> Nat] /\ \A u \in Threads \ {t} : bucket'[u] = bucket[u]
  <2>1. bucket \in [Threads -> Nat] /\ p.num_buckets \in Nat
    BY <1>1, PartitionFacts DEF TypeOK
  <2>2. CASE i = 0
    BY <1>1, <2>1, <2>2
  <2>3. CASE i # 0
    <3>1. i - 1 \in Nat /\ i - 1 \in Buckets(p)
      BY <1>1, <2>1, <2>3 DEF Buckets
    <3> HIDE DEF i, p
    <3> QED
      BY <1>1, <2>1, <2>3, <3>1
  <2> QED
    BY <2>2, <2>3
<1>3. /\ P \in Pool /\ IsPool(P) /\ t = First(P) /\ t \in Members(P) /\ Members(P) \subseteq Threads
      /\ \A u \in Members(P) : u # t => in[u] = P /\ pc[u] \in {"wait", "joined"} /\ pc[u] \notin Leading
      /\ \A u \in Threads : pc[u] \in Leading /\ u # t =>
            u \notin Members(P) /\ t \notin Members(in[u]) /\ Members(in[u]) \cap Members(P) = {}
  BY <1>1, Led DEF Leading
<1>4. /\ \A u \in Threads \ Members(P) :
              big_tasks'[u] = big_tasks[u] /\ thread_pools'[u] = thread_pools[u]
      /\ \A u \in Members(P) : big_tasks'[u].has_task =>
              /\ Lo(t) <= big_tasks'[u].begin /\ big_tasks'[u].end <= P.end
              /\ big_tasks'[u].end - big_tasks'[u].begin < Length(P)
      /\ \A u \in Threads : big_tasks'[u] \in BigTask /\ thread_pools'[u] \in Pool
      /\ \A u \in Threads : TaskAgrees(u)'
  BY DividedSlots
<1>5. TypeOK'
  <2>1. pc' \in [Threads -> Places]
    BY <1>1, <1>2 DEF Places
  <2>2. big_tasks' \in [Threads -> BigTask]
    <3>1. DOMAIN big_tasks' = Threads /\ big_tasks' = [u \in Threads |-> big_tasks'[u]]
      BY DivideCases DEF TypeOK
    <3> QED
      BY <1>4, <3>1
  <2>3. thread_pools' \in [Threads -> Pool]
    <3>1. DOMAIN thread_pools' = Threads /\ thread_pools' = [u \in Threads |-> thread_pools'[u]]
      BY DivideCases DEF TypeOK
    <3> QED
      BY <1>4, <3>1
  <2>4. queue' \in [Threads -> SUBSET ((0 .. Size) \X (0 .. Size))]
    <3>1. queue \in [Threads -> SUBSET ((0 .. Size) \X (0 .. Size))]
      BY DEF TypeOK
    <3>2. << Lo(t), Hi(t) >> \in (0 .. Size) \X (0 .. Size)
      BY DivideCases
    <3>3. \/ queue' = queue
          \/ \E owner \in Threads : queue' = [queue EXCEPT ![owner] = @ \cup {<< Lo(t), Hi(t) >>}]
      BY <1>3, DivideCases
    <3> QED
      BY <3>1, <3>2, <3>3
  <2> QED
    BY <1>1, <1>2, <2>1, <2>2, <2>3, <2>4 DEF TypeOK, Positions
<1>6. Starting' /\ Awaited'
  <2>1. Starting'
    BY <1>1, <1>2, Located DEF Starting
  <2>2. Awaited'
    BY <1>1, <1>2 DEF Awaited
  <2> QED
    BY <2>1, <2>2
<1> HIDE DEF P, p, i
<1>7. ASSUME NEW u \in Threads
      PROVE  (InPlaceOf(u) /\ Gathered(u) /\ Divides(u))'
  <2>1. InPlaceOf(u) /\ TaskAgrees(u) /\ Gathered(u) /\ Divides(u)
    OBVIOUS
  <2>2. /\ pc[u] \in Leading \cup {"joined"} =>
             Members(in[u]) \subseteq Threads /\ First(in[u]) \in Threads /\ IsPool(in[u])
        /\ 0 \in Threads
    BY Located
  <2>4. InPlaceOf(u)'
    <3>1. CASE u \in Members(P)
      BY <1>1, <1>2, <1>3, <2>1, <2>2, <3>1, Located DEF InPlaceOf, P, IsTeam, IsPool, Members, First, Length, Leading
    <3>2. CASE u \notin Members(P)
      <4>1. big_tasks'[u] = big_tasks[u] /\ thread_pools'[u] = thread_pools[u] /\ u # t
        BY <1>3, <1>4, <3>2
      <4>2. big_tasks[u].has_task =>
              thread_pools'[big_tasks[u].root_thread] = thread_pools[big_tasks[u].root_thread]
        <5> SUFFICES ASSUME big_tasks[u].has_task
                     PROVE  thread_pools'[big_tasks[u].root_thread] = thread_pools[big_tasks[u].root_thread]
          OBVIOUS
        <5>1. Members(thread_pools[big_tasks[u].root_thread]) \cap Members(P) = {}
          BY <1>1, <3>2, TasksStayInside DEF P
        <5>2. /\ big_tasks[u].root_thread \in Threads
              /\ big_tasks[u].root_thread \in Members(thread_pools[big_tasks[u].root_thread])
          BY Located, MembersAreThreads
        <5> QED
          BY <1>4, <5>1, <5>2
      <4>3. pc'[u] = pc[u] /\ (pc'[0] = pc[0] \/ (pc[0] \in Leading /\ pc'[0] \in Leading))
        BY <1>1, <1>2, <4>1, Located DEF Leading
      <4>4. pc[u] = "joined" /\ pc[First(in[u])] \in Leading => pc'[First(in[u])] \in Leading
        BY <1>1, <1>2, <2>2 DEF Leading
      <4>5. pc[u] = "joined" => InPlaceOf(u)'
        BY <1>1, <2>1, <4>1, <4>2, <4>3, <4>4 DEF InPlaceOf, IsTeam, IsPool, Members, First, Length
      <4>6. pc[u] # "joined" => InPlaceOf(u)'
        BY <1>1, <2>1, <4>1, <4>3 DEF InPlaceOf, Leading
      <4> QED
        BY <4>5, <4>6
    <3> QED
      BY <3>1, <3>2
  <2>5. Gathered(u)'
    <3>1. CASE u = t
      BY <1>1, <1>2, <1>3, <2>1, <3>1 DEF Gathered, P, IsTeam, IsPool, Members, First, Length, Leading
    <3>2. CASE u # t
      BY <1>1, <1>2, <2>1, <2>2, <3>2 DEF Gathered, IsTeam, IsPool, Members, First, Length, Leading
    <3> QED
      BY <3>1, <3>2
  <2>6. Divides(u)'
    <3>1. CASE u = t
      <4>1. Members(in[u])' = Members(P) /\ Length(in[u])' = Length(P) /\ pc'[u] # "queue"
            /\ result' = result /\ in' = in
        BY <1>1, <1>2, <3>1 DEF Members, First, Length, P
      <4>2. pc'[u] = "divide" => bucket'[u] \in Buckets(p) /\ in[t].begin + Stop(p, bucket'[u]) = Lo(t)
        <5> SUFFICES ASSUME pc'[u] = "divide"
                     PROVE  bucket'[u] \in Buckets(p) /\ in[t].begin + Stop(p, bucket'[u]) = Lo(t)
          OBVIOUS
        <5>1. bucket'[u] = i - 1 /\ i - 1 \in Buckets(p) /\ i - 1 + 1 = i
          BY <1>1, <1>2, <3>1 DEF TypeOK
        <5> QED
          BY <5>1 DEF Lo, Stop, Start, p, i
      <4> QED
        BY <1>1, <1>4, <3>1, <4>1, <4>2 DEF Divides, P, p, Buckets, Stop
    <3>2. CASE u # t /\ pc[u] \notin Leading
      BY <1>1, <1>2, <3>2 DEF Divides, Leading
    <3>3. CASE u # t /\ pc[u] \in Leading
      <4>1. /\ Members(in[u]) \cap Members(P) = {} /\ u \in Members(in[u]) /\ Members(in[u]) \subseteq Threads
            /\ t \notin Members(in[u])
        BY <1>3, <2>1, <2>2, <3>3, Led
      <4>2. \A w \in Members(in[u]) : big_tasks'[w] = big_tasks[w]
        BY <1>4, <4>1
      <4>3. /\ bucket'[u] = bucket[u] /\ thread_pools'[u] = thread_pools[u] /\ pc'[u] = pc[u]
            /\ Members(in[u])' = Members(in[u]) /\ Length(in[u])' = Length(in[u])
            /\ in' = in /\ result' = result
        BY <1>1, <1>2, <1>4, <3>3, <4>1 DEF TypeOK, Members, First, Length
      <4>4. in[u] # Whole
        <5>1. Members(Whole) = Threads
          BY RoundFacts, BigTasksAssumption DEF Members, First, Whole, Threads
        <5> QED
          BY <4>1, <5>1
      <4> QED
        BY <2>1, <4>1, <4>2, <4>3, <4>4 DEF Divides
    <3> QED
      BY <3>1, <3>2, <3>3
  <2> QED
    BY <2>4, <2>5, <2>6
<1> QED
  BY <1>4, <1>5, <1>6, <1>7

LEMMA StutterInv ==
  ASSUME IInv, UNCHANGED vars
  PROVE  IInv'
<1>1. /\ pc' = pc /\ big_tasks' = big_tasks /\ thread_pools' = thread_pools /\ queue' = queue
      /\ in' = in /\ released' = released /\ result' = result /\ bucket' = bucket /\ sorted' = sorted
  BY DEF vars
<1>2. TypeOK' /\ Starting' /\ Awaited'
  BY <1>1 DEF IInv, TypeOK, Starting, Awaited, Positions
<1>3. ASSUME NEW u \in Threads
      PROVE  (InPlaceOf(u) /\ TaskAgrees(u) /\ Gathered(u) /\ Divides(u))'
  <2>1. InPlaceOf(u) /\ TaskAgrees(u) /\ Gathered(u) /\ Divides(u)
    BY DEF IInv
  <2>2. InPlaceOf(u)' /\ TaskAgrees(u)'
    BY <1>1, <2>1 DEF InPlaceOf, TaskAgrees, IsTeam, IsPool, Members, First, Length, Leading
  <2>3. Gathered(u)' /\ Divides(u)'
    BY <1>1, <2>1 DEF Gathered, Divides, IsTeam, IsPool, Members, First, Length, Leading
  <2> QED
    BY <2>2, <2>3
<1> QED
  BY <1>2, <1>3 DEF IInv

LEMMA StepInv == IInv /\ [Next]_vars => IInv'
<1> SUFFICES ASSUME IInv, [Next]_vars PROVE IInv'
  OBVIOUS
<1>1. CASE UNCHANGED vars
  BY <1>1, StutterInv
<1>2. ASSUME NEW t \in Threads, ThreadStep(t) PROVE IInv'
  BY <1>2, TestTaskInv, EnterPoolInv, RunInv, QueueInv, DivideInv, ReleaseInv, LeavePoolInv,
     SortPrimaryInv, SortBarrierInv DEF ThreadStep
<1> QED
  BY <1>1, <1>2 DEF Next, Finished

LEMMA Invariance == Spec => []IInv
<1>1. Init => IInv
  BY InitInv
<1> QED
  BY <1>1, StepInv, PTL DEF Spec

(* All threads of a team agree on their task, their numbers and their      *)
(* pool, whatever teams are divided at the same time.                      *)
THEOREM TeamsAgreeing == Spec => []TeamsAgree
<1>1. IInv => TeamsAgree
  <2> SUFFICES ASSUME IInv, NEW t \in Threads, big_tasks[t].has_task
               PROVE  LET task == big_tasks[t]
                          root == task.root_thread
                          pool == IF pc[root] \in {"run", "queue"} THEN in[root] ELSE thread_pools[root]
                      IN /\ task.task_thread_id = t - root
                         /\ pool.begin = task.begin /\ pool.end = task.end
                         /\ root <= t /\ t < root + pool.size
                         /\ root + pool.size <= NumThreads
                         /\ \A u \in root .. root + pool.size - 1 :
                              big_tasks[u] = [task EXCEPT !.task_thread_id = u - root]
    BY DEF TeamsAgree
  <2> DEFINE task == big_tasks[t]
             root == task.root_thread
             P    == thread_pools[root]
             pool == IF pc[root] \in {"run", "queue"} THEN in[root] ELSE P
  <2>1. /\ root \in Threads /\ root = First(P) /\ P \in Pool /\ task \in BigTask
        /\ P.begin = task.begin /\ P.end = task.end /\ IsPool(P) /\ t \in Members(P)
        /\ \A u \in Members(P) : big_tasks[u] = [task EXCEPT !.task_thread_id = u - root]
    BY Located DEF IInv, TaskAgrees, IsTeam
  <2>2. Members(P) = root .. root + P.size - 1 /\ root + P.size <= NumThreads /\ P.size \in Nat /\ root \in Nat
    BY <2>1, MembersAreThreads DEF Members, IsPool, Threads
  <2>3. task.task_thread_id = t - root
    <3>1. task = [task EXCEPT !.task_thread_id = t - root]
      BY <2>1
    <3> HIDE DEF P, root, task
    <3>2. t - root \in 0 .. NumThreads /\ task \in BigTask
      <4>1. t \in root .. root + P.size - 1
        BY <2>1, <2>2
      <4> QED
        BY <2>1, <2>2, <4>1, BigTasksAssumption
    <3>3. [task EXCEPT !.task_thread_id = t - root].task_thread_id = t - root
      BY <3>2, SlotNumbered
    <3> QED
      BY <3>1, <3>3
  <2>4. pool = P
    <3>1. CASE pc[root] = "run"
      BY <2>1, <3>1 DEF IInv, InPlaceOf
    <3>2. CASE pc[root] = "queue"
      <4>1. \/ \A u \in Threads : ~big_tasks[u].has_task
            \/ in[root] = thread_pools[root]
        BY <2>1, <3>2 DEF IInv, Divides
      <4> QED
        BY <3>2, <4>1
    <3> QED
      BY <3>1, <3>2
  <2> HIDE DEF pool, P, root, task
  <2>5. /\ task.task_thread_id = t - root
        /\ pool.begin = task.begin /\ pool.end = task.end
        /\ root <= t /\ t < root + pool.size
        /\ root + pool.size <= NumThreads
        /\ \A u \in root .. root + pool.size - 1 :
             big_tasks[u] = [task EXCEPT !.task_thread_id = u - root]
    BY <2>1, <2>2, <2>3, <2>4
  <2> QED
    BY <2>5 DEF pool, P, root, task
<1> QED
  BY <1>1, Invariance, PTL

(* An access of a thread outside a team concerns no thread of the team     *)
(* while the team is being divided, and no other thread's small tasks.     *)
LEMMA Accessed ==
  ASSUME NEW t \in Threads, NEW a \in Access(t)
  PROVE  \E k, f, i :
           /\ a = << k, f, i >>
           /\ \/ /\ k = "w" /\ pc[t] \in {"queue", "divide"} /\ i \in Team(t)
              \/ /\ k = "w" /\ pc[t] = "small" /\ f = "seq_task_queue" /\ i = t
              \/ /\ k = "r" /\ pc[t] \in {"loop", "primary", "secondary", "run"}
                 /\ f = "big_tasks" /\ i = t
              \/ /\ k = "r" /\ pc[t] \in {"primary", "secondary"}
                 /\ f = "thread_pools" /\ i = big_tasks[t].root_thread
              \/ /\ k = "r" /\ pc[t] = "joined" /\ f = "big_tasks" /\ pc[i] = "run"
<1>1. CASE pc[t] \in {"loop", "run"}
  BY <1>1 DEF Access
<1>2. CASE pc[t] \in {"primary", "secondary"}
  BY <1>2 DEF Access
<1>3. CASE pc[t] \in {"queue", "divide"}
  <2>1. \E f, i : a = << "w", f, i >> /\ i \in Team(t)
    BY <1>3 DEF Access
  <2> QED
    BY <1>3, <2>1
<1>4. CASE pc[t] = "joined"
  BY <1>4 DEF Access
<1>5. CASE pc[t] = "small"
  BY <1>5 DEF Access
<1>6. CASE pc[t] \notin {"loop", "run", "primary", "secondary", "queue", "divide", "joined", "small"}
  BY <1>6 DEF Access
<1> QED
  BY <1>1, <1>2, <1>3, <1>4, <1>5, <1>6

LEMMA Location ==
  ASSUME NEW k, NEW f, NEW i
  PROVE  << k, f, i >>[1] = k /\ Tail(<< k, f, i >>) = << f, i >>
OBVIOUS

(* While a thread divides its team nobody else looks at what it writes,    *)
(* although slots, pools and queues are not protected by a lock.           *)
THEOREM DividesAlone == Spec => []NoConflict
<1>1. ASSUME IInv, NEW t \in Threads, NEW u \in Threads, t # u,
             NEW a \in Access(t), NEW b \in Access(u), Tail(a) = Tail(b), a[1] # "r"
      PROVE  FALSE
  <2>1. PICK k, f, i :
           /\ a = << k, f, i >>
           /\ \/ /\ k = "w" /\ pc[t] \in {"queue", "divide"} /\ i \in Team(t)
              \/ /\ k = "w" /\ pc[t] = "small" /\ f = "seq_task_queue" /\ i = t
              \/ k = "r"
    BY Accessed
  <2>2. PICK l, g, j :
           /\ b = << l, g, j >>
           /\ \/ /\ l = "w" /\ pc[u] \in {"queue", "divide"} /\ j \in Team(u)
              \/ /\ l = "w" /\ pc[u] = "small" /\ g = "seq_task_queue" /\ j = u
              \/ /\ l = "r" /\ pc[u] \in {"loop", "primary", "secondary", "run"}
                 /\ g = "big_tasks" /\ j = u
              \/ /\ l = "r" /\ pc[u] \in {"primary", "secondary"}
                 /\ g = "thread_pools" /\ j = big_tasks[u].root_thread
              \/ /\ l = "r" /\ pc[u] = "joined" /\ g = "big_tasks" /\ pc[j] = "run"
    BY Accessed
  <2>3. k = "w" /\ f = g /\ i = j
    <3>1. a[1] = k /\ Tail(a) = << f, i >> /\ Tail(b) = << g, j >>
      BY <2>1, <2>2, Location
    <3>2. << f, i >> = << g, j >> /\ k # "r"
      BY <1>1, <3>1
    <3>3. k = "w"
      BY <2>1, <3>2
    <3> QED
      BY <3>2, <3>3
  <2>4. CASE pc[t] \in {"queue", "divide"} /\ i \in Team(t)
    <3>1. /\ i \in Members(in[t])
          /\ \A w \in Members(in[t]) : pc[w] \in {"queue", "divide", "wait", "joined"}
          /\ \A w \in Threads : pc[w] \in Leading /\ w # t => Members(in[w]) \cap Members(in[t]) = {}
          /\ pc[u] \in {"queue", "divide"} => Team(u) = Members(in[u])
      BY <1>1, <2>4, Led DEF Leading
    <3>2. CASE pc[u] \in {"queue", "divide"} /\ j \in Team(u)
      BY <1>1, <2>3, <3>1, <3>2 DEF Leading
    <3>3. CASE pc[u] \in {"loop", "primary", "secondary", "run", "small"} /\ j = u
      BY <2>3, <3>1, <3>3
    <3>4. CASE pc[u] \in {"primary", "secondary"} /\ j = big_tasks[u].root_thread
      <4>1. big_tasks[u].has_task /\ u \notin Members(in[t])
        BY <1>1, <3>1, <3>4 DEF IInv, InPlaceOf
      <4>2. Members(thread_pools[j]) \cap Members(in[t]) = {}
        BY <1>1, <2>4, <3>4, <4>1, TasksStayInside
      <4>3. j \in Members(thread_pools[j])
        BY <1>1, <3>4, <4>1, Located, MembersAreThreads
      <4> QED
        BY <2>3, <3>1, <4>2, <4>3
    <3>5. CASE pc[j] = "run"
      BY <2>3, <3>1, <3>5
    <3> QED
      BY <2>2, <3>2, <3>3, <3>4, <3>5
  <2>5. CASE pc[t] = "small" /\ f = "seq_task_queue" /\ i = t
    <3>1. CASE pc[u] \in {"queue", "divide"} /\ j \in Team(u)
      <4>1. \A w \in Team(u) : pc[w] \in {"queue", "divide", "wait", "joined"}
        BY <1>1, <3>1, Led DEF Leading
      <4> QED
        BY <2>3, <2>5, <3>1, <4>1
    <3>2. CASE j = u
      BY <1>1, <2>3, <2>5, <3>2
    <3> QED
      BY <2>2, <2>3, <2>5, <3>1, <3>2
  <2> QED
    BY <2>1, <2>3, <2>4, <2>5
<1>2. IInv => NoConflict
  <2> SUFFICES ASSUME IInv, NEW t \in Threads, NEW u \in Threads, t # u,
                      NEW a \in Access(t), NEW b \in Access(u), Tail(a) = Tail(b)
               PROVE  a[1] = "r" /\ b[1] = "r"
    BY DEF NoConflict
  <2>1. a[1] = "r"
    BY <1>1
  <2>2. b[1] = "r"
    BY <1>1
  <2> QED
    BY <2>1, <2>2
<1> QED
  BY <1>2, Invariance, PTL

-----------------------------------------------------------------------------
(* Every position is in its final place or in one task.                    *)
LEMMA Least ==
  ASSUME NEW T, T \subseteq Nat, T # {}
  PROVE  \E x \in T : \A y \in T : x <= y
<1> DEFINE R == OpToRel(<, Nat)
<1>1. IsWellFoundedOn(R, Nat)
  BY NatLessThanWellFounded
<1>2. \A x, y \in Nat : y < x => << y, x >> \in R
  BY DEF OpToRel
<1> HIDE DEF R
<1>3. PICK x \in T : \A y \in T : ~(<< y, x >> \in R)
  BY <1>1, WFMin
<1>4. \A y \in T : ~(y < x)
  BY <1>2, <1>3
<1>5. \A y \in T : x <= y
  BY <1>4
<1> QED
  BY <1>5

(* A bucket border that is the first one behind x ends the bucket of x.    *)
LEMMA BucketOf ==
  ASSUME NEW n \in Nat, NEW p \in Partitions(n), NEW x \in 0 .. n - 1
  PROVE  /\ \E i \in Buckets(p) : Start(p, i) <= x /\ x < Stop(p, i)
         /\ \A i, j \in Buckets(p) :
              Start(p, i) <= x /\ x < Stop(p, i) /\ Start(p, j) <= x /\ x < Stop(p, j) => i = j
<1> DEFINE k == p.num_buckets
           b == p.bucket_start
           T == {i \in 0 .. k : x < b[i]}
<1>1. /\ k \in Nat \ {0} /\ b \in [0 .. k -> 0 .. n] /\ b[0] = 0 /\ b[k] = n
      /\ \A i, j \in 0 .. k : i <= j => b[i] <= b[j]
  BY PartitionFacts
<1>2. Buckets(p) = 0 .. k - 1 /\ \A i : Start(p, i) = b[i] /\ Stop(p, i) = b[i + 1]
  BY DEF Buckets, Start, Stop
<1> HIDE DEF k, b
<1>3. PICK i \in T : \A j \in T : i <= j
  <2>1. k \in T
    BY <1>1
  <2>2. T \subseteq Nat
    BY <1>1
  <2> HIDE DEF T
  <2> QED
    BY <2>1, <2>2, Least
<1>4. i - 1 \in 0 .. k - 1 /\ b[i - 1] <= x /\ x < b[i - 1 + 1]
  <2>1. i \in 0 .. k /\ i # 0 /\ x < b[i] /\ i - 1 \in 0 .. k /\ i - 1 + 1 = i
    BY <1>1, <1>3
  <2>2. i - 1 \notin T
    BY <1>3, <2>1
  <2>3. b[i - 1] <= x
    BY <1>1, <2>1, <2>2
  <2> QED
    BY <1>1, <2>1, <2>3
<1>5. ASSUME NEW g \in 0 .. k - 1, NEW h \in 0 .. k - 1,
             b[g] <= x, x < b[g + 1], b[h] <= x, x < b[h + 1], g < h
      PROVE  FALSE
  <2>1. g + 1 \in 0 .. k /\ h \in 0 .. k /\ g + 1 <= h
    BY <1>1, <1>5
  <2>2. b[g + 1] <= b[h] /\ b[g + 1] \in Nat /\ b[h] \in Nat
    BY <1>1, <2>1
  <2> QED
    BY <1>5, <2>2
<1>6. \A g, h \in 0 .. k - 1 :
        b[g] <= x /\ x < b[g + 1] /\ b[h] <= x /\ x < b[h + 1] => g = h
  BY <1>1, <1>5
<1> QED
  BY <1>2, <1>4, <1>6

(* The tasks that partitioning makes of n elements from o on.              *)
Divided(t, o, n, p) ==
  {<< "bucket", t, o + Start(p, i), o + Stop(p, i) >> : i \in {i \in QueuedBuckets(p) : n > SingleLevel}}

LEMMA Dividedly ==
  ASSUME SubSingleLevel = SingleLevel, NEW n \in Nat, NEW o \in Nat, NEW p \in Partitions(n), NEW t,
         NEW N, N = Divided(t, o, n, p), NEW S, S = InPlace(n, o, p, SubSingleLevel)
  PROVE  /\ \A k \in N, x \in Nat : Covers(k, x) => x \in o .. o + n - 1 /\ x \notin S
         /\ \A j, k \in N, x \in Nat : Covers(j, x) /\ Covers(k, x) => j = k
         /\ \A x \in o .. o + n - 1 : x \notin S => \E k \in N : Covers(k, x)
         /\ \A x \in S : x \in o .. o + n - 1
<1>1. SingleLevel \in Nat
  BY BigTasksAssumption
<1>2. CASE n <= SingleLevel
  <2>1. S = o .. o + n - 1 /\ N = {}
    BY <1>1, <1>2 DEF InPlace, Divided
  <2> QED
    BY <2>1
<1>3. CASE n > SingleLevel
  <2>1. /\ N = {<< "bucket", t, o + Start(p, i), o + Stop(p, i) >> : i \in QueuedBuckets(p)}
        /\ S = UNION {o + Start(p, i) .. o + Stop(p, i) - 1 : i \in EqualBuckets(p)}
    BY <1>1, <1>3 DEF InPlace, Divided
  <2>2. \A i \in Buckets(p) : Start(p, i) \in 0 .. n /\ Stop(p, i) \in 0 .. n
    <3>1. p.num_buckets \in Nat /\ p.bucket_start \in [0 .. p.num_buckets -> 0 .. n]
      BY PartitionFacts
    <3>2. \A i \in Buckets(p) : i \in 0 .. p.num_buckets /\ i + 1 \in 0 .. p.num_buckets
      BY <3>1 DEF Buckets
    <3> QED
      BY <3>1, <3>2 DEF Start, Stop
  <2>3. QueuedBuckets(p) \subseteq Buckets(p) /\ EqualBuckets(p) \subseteq Buckets(p)
        /\ \A i \in Buckets(p) : i \in QueuedBuckets(p) <=> i \notin EqualBuckets(p)
    BY DEF QueuedBuckets, EqualBuckets
  <2> DEFINE C(i, x) == o + Start(p, i) <= x /\ x < o + Stop(p, i)
  <2>4. \A k \in N : \E i \in QueuedBuckets(p) :
           /\ k = << "bucket", t, o + Start(p, i), o + Stop(p, i) >>
           /\ \A x \in Nat : Covers(k, x) <=> C(i, x)
    BY <2>1 DEF Covers
  <2>5. \A x \in Nat : x \in S <=> \E i \in EqualBuckets(p) : C(i, x)
    <3>1. \A x \in Nat : x \in S <=>
             \E i \in EqualBuckets(p) : x \in o + Start(p, i) .. o + Stop(p, i) - 1
      BY <2>1
    <3>2. ASSUME NEW i \in EqualBuckets(p), NEW x \in Nat
          PROVE  x \in o + Start(p, i) .. o + Stop(p, i) - 1 <=> C(i, x)
      <4>1. Start(p, i) \in Nat /\ Stop(p, i) \in Nat
        BY <2>2, <2>3
      <4> QED
        BY <4>1
    <3> HIDE DEF C
    <3> QED
      BY <3>1, <3>2
  <2>6. ASSUME NEW i \in Buckets(p), NEW x \in Nat, C(i, x) PROVE x \in o .. o + n - 1
    <3>1. Start(p, i) \in 0 .. n /\ Stop(p, i) \in 0 .. n
      BY <2>2
    <3> QED
      BY <2>6, <3>1
  <2>7. ASSUME NEW x \in o .. o + n - 1
        PROVE  /\ \E i \in Buckets(p) : C(i, x)
               /\ \A i, j \in Buckets(p) : C(i, x) /\ C(j, x) => i = j
    <3>1. x - o \in 0 .. n - 1
      OBVIOUS
    <3>2. /\ \E i \in Buckets(p) : Start(p, i) <= x - o /\ x - o < Stop(p, i)
          /\ \A i, j \in Buckets(p) :
              Start(p, i) <= x - o /\ x - o < Stop(p, i) /\ Start(p, j) <= x - o /\ x - o < Stop(p, j) => i = j
      BY <3>1, BucketOf
    <3>3. \A i \in Buckets(p) : (Start(p, i) <= x - o /\ x - o < Stop(p, i)) <=> C(i, x)
      BY <2>2
    <3> HIDE DEF C
    <3> QED
      BY <3>2, <3>3
  <2>8. \A x \in S : x \in Nat
    <3> SUFFICES ASSUME NEW i \in EqualBuckets(p), NEW x \in o + Start(p, i) .. o + Stop(p, i) - 1
                 PROVE  x \in Nat
      BY <2>1
    <3>1. Start(p, i) \in Nat
      BY <2>2, <2>3
    <3> QED
      BY <3>1
  <2>9. \A x \in o .. o + n - 1 : x \in Nat
    OBVIOUS
  <2>10. \A i \in QueuedBuckets(p), x \in Nat : C(i, x) =>
           \E k \in N : Covers(k, x)
    <3> SUFFICES ASSUME NEW i \in QueuedBuckets(p), NEW x \in Nat, C(i, x)
                 PROVE  \E k \in N : Covers(k, x)
      OBVIOUS
    <3>1. << "bucket", t, o + Start(p, i), o + Stop(p, i) >> \in N
      BY <2>1
    <3>2. Covers(<< "bucket", t, o + Start(p, i), o + Stop(p, i) >>, x)
      BY DEF Covers
    <3> QED
      BY <3>1, <3>2
  <2> HIDE DEF C
  <2>11. \A k \in N, x \in Nat : Covers(k, x) => x \in o .. o + n - 1 /\ x \notin S
    BY <2>3, <2>4, <2>5, <2>6, <2>7
  <2>12. \A j, k \in N, x \in Nat : Covers(j, x) /\ Covers(k, x) => j = k
    BY <2>3, <2>4, <2>6, <2>7
  <2>13. \A x \in o .. o + n - 1 : x \notin S => \E k \in N : Covers(k, x)
    BY <2>3, <2>5, <2>7, <2>9, <2>10
  <2>14. \A x \in S : x \in o .. o + n - 1
    BY <2>3, <2>5, <2>6, <2>8
  <2> QED
    BY <2>11, <2>12, <2>13, <2>14
<1> QED
  BY <1>1, <1>2, <1>3

LEMMA TaskCases ==
  ASSUME NEW k
  PROVE  /\ k \in Tasks <=>
              \/ \E t \in Threads : \E e \in queue[t] : k = << "small", t, e[1], e[2] >>
              \/ \E t \in HasBigTask : k = BigTaskOf(t)
              \/ \E t \in Dividing : \E i \in ToQueue(t) : k = BucketTask(t, i)
         /\ k \in Tasks' <=>
              \/ \E t \in Threads : \E e \in queue'[t] : k = << "small", t, e[1], e[2] >>
              \/ \E t \in HasBigTask' : k = BigTaskOf(t)'
              \/ \E t \in Dividing' : \E i \in ToQueue(t)' : k = BucketTask(t, i)'
<1>1. k \in SmallTasks <=> \E t \in Threads : \E e \in queue[t] : k = << "small", t, e[1], e[2] >>
  BY DEF SmallTasks
<1>2. k \in {BigTaskOf(t) : t \in HasBigTask} <=> \E t \in HasBigTask : k = BigTaskOf(t)
  OBVIOUS
<1>3. k \in UNION {{BucketTask(t, i) : i \in ToQueue(t)} : t \in Dividing} <=>
        \E t \in Dividing : \E i \in ToQueue(t) : k = BucketTask(t, i)
  OBVIOUS
<1>4. k \in SmallTasks' <=> \E t \in Threads : \E e \in queue'[t] : k = << "small", t, e[1], e[2] >>
  BY DEF SmallTasks
<1>5. k \in {BigTaskOf(t)' : t \in HasBigTask'} <=> \E t \in HasBigTask' : k = BigTaskOf(t)'
  OBVIOUS
<1>6. k \in UNION {{BucketTask(t, i)' : i \in ToQueue(t)'} : t \in Dividing'} <=>
        \E t \in Dividing' : \E i \in ToQueue(t)' : k = BucketTask(t, i)'
  OBVIOUS
<1> QED
  BY <1>1, <1>2, <1>3, <1>4, <1>5, <1>6 DEF Tasks

(* Steps that leave tasks alone.                                           *)
LEMMA KeptOnce ==
  ASSUME Once, pc[0] # "sort", sorted' = sorted,
         \A k : \A x \in Positions : Covers(k, x) => (k \in Tasks <=> k \in Tasks')
  PROVE  Once'
BY DEF Once, Covers, Positions

LEMMA QuietOnce ==
  ASSUME IInv, Once, UNCHANGED << big_tasks, queue, bucket, sorted >>,
         \A t \in Threads : pc[t] \in {"queue", "divide"} \/ pc'[t] \in {"queue", "divide"} =>
            pc'[t] = pc[t] /\ in'[t] = in[t] /\ result'[t] = result[t],
         pc[0] # "sort" \/ pc'[0] = "sort"
  PROVE  Once'
<1>1. CASE pc'[0] = "sort"
  BY <1>1 DEF Once
<1>2. CASE pc[0] # "sort"
  <2>1. HasBigTask' = HasBigTask
    <3>1. \A t \in Threads : big_tasks[t].has_task => big_tasks[t].root_thread \in Threads
      BY Located
    <3> QED
      BY <3>1 DEF HasBigTask
  <2>2. \A t : BigTaskOf(t)' = BigTaskOf(t)
    BY DEF BigTaskOf
  <2>3. Dividing' = Dividing
    BY DEF Dividing
  <2>4. ASSUME NEW t \in Dividing PROVE ToQueue(t)' = ToQueue(t) /\ \A i : BucketTask(t, i)' = BucketTask(t, i)
    <3>1. pc'[t] = pc[t] /\ in'[t] = in[t] /\ result'[t] = result[t] /\ bucket'[t] = bucket[t]
      BY DEF Dividing
    <3> QED
      BY <3>1 DEF ToQueue, BucketTask, QueuedBuckets, EqualBuckets, Buckets, Start, Stop
  <2>5. \A k : k \in Tasks <=> k \in Tasks'
    BY <2>1, <2>2, <2>3, <2>4, TaskCases
  <2> QED
    BY <1>2, <2>5, KeptOnce
<1> QED
  BY <1>1, <1>2

(* The step in which the task K is replaced by the tasks in N, and what is *)
(* in S gets to its final place.                                           *)
LEMMA ReplacedOnce ==
  ASSUME Once, pc[0] # "sort", NEW K \in Tasks, NEW N, NEW S, sorted' = sorted \cup S,
         \A k \in Tasks', x \in Positions : Covers(k, x) => k \in N \/ (k \in Tasks /\ k # K),
         \A k \in Tasks, x \in Positions : Covers(k, x) => k = K \/ k \in Tasks',
         \A k \in N, x \in Positions : Covers(k, x) => Covers(K, x) /\ x \notin S /\ k \in Tasks',
         \A j, k \in N, x \in Positions : Covers(j, x) /\ Covers(k, x) => j = k,
         \A x \in Positions : Covers(K, x) /\ x \notin S => \E k \in N : Covers(k, x),
         \A x \in S : Covers(K, x)
  PROVE  Once'
<1>1. /\ \A k \in Tasks, x \in Positions : Covers(k, x) => x \notin sorted
      /\ \A j, k \in Tasks, x \in Positions : Covers(j, x) /\ Covers(k, x) => j = k
      /\ \A x \in Positions \ sorted : \E k \in Tasks : Covers(k, x)
  BY DEF Once
<1>2. ASSUME NEW k \in Tasks', NEW x \in Positions, Covers(k, x) PROVE x \notin sorted'
  <2>1. CASE k \in N
    BY <1>1, <1>2, <2>1
  <2>2. CASE k \in Tasks /\ k # K
    BY <1>1, <1>2, <2>2
  <2> QED
    BY <1>2, <2>1, <2>2
<1>3. ASSUME NEW j \in Tasks', NEW k \in Tasks', NEW x \in Positions, Covers(j, x), Covers(k, x) PROVE j = k
  <2>1. (j \in N \/ (j \in Tasks /\ j # K)) /\ (k \in N \/ (k \in Tasks /\ k # K))
    BY <1>3
  <2>2. CASE j \in N /\ k \in N
    BY <1>3, <2>2
  <2>3. CASE j \in N \/ k \in N
    BY <1>1, <1>3, <2>1, <2>2, <2>3
  <2>4. CASE j \in Tasks /\ k \in Tasks
    BY <1>1, <1>3, <2>4
  <2> QED
    BY <2>1, <2>3, <2>4
<1>4. ASSUME NEW x \in Positions \ sorted' PROVE \E k \in Tasks' : Covers(k, x)
  <2>1. x \in Positions /\ x \notin sorted /\ x \notin S
    BY <1>4
  <2>2. PICK k \in Tasks : Covers(k, x)
    BY <1>1, <2>1
  <2>3. CASE k = K
    BY <2>1, <2>2, <2>3
  <2>4. CASE k # K
    BY <2>1, <2>2, <2>4
  <2> QED
    BY <2>3, <2>4
<1>5. /\ \A k \in Tasks', x \in Positions : Covers(k, x) => x \notin sorted'
      /\ \A j, k \in Tasks', x \in Positions : Covers(j, x) /\ Covers(k, x) => j = k
      /\ \A x \in Positions \ sorted' : \E k \in Tasks' : Covers(k, x)
  BY <1>2, <1>3, <1>4
<1>6. Positions' = Positions /\ \A k, x : Covers(k, x)' <=> Covers(k, x)
  BY DEF Positions, Covers
<1> QED
  BY <1>5, <1>6 DEF Once

LEMMA QuietSteps ==
  ASSUME IInv, Once, NEW t \in Threads,
         \/ TestTask(t) \/ EnterPool(t) \/ Release(t) \/ LeavePool(t)
         \/ SortBarrier \/ UNCHANGED vars
  PROVE  Once'
<1>1. pc \in [Threads -> Places] /\ in \in [Threads -> Pool] /\ DOMAIN result = Threads /\ 0 \in Threads
  BY Located DEF IInv, TypeOK
<1>2. CASE TestTask(t)
  BY <1>1, <1>2, QuietOnce DEF TestTask, Go
<1>3. CASE EnterPool(t)
  BY <1>1, <1>3, QuietOnce DEF EnterPool, Go
<1>4. CASE Release(t)
  BY <1>1, <1>4, QuietOnce DEF Release, Go
<1>5. CASE LeavePool(t)
  BY <1>1, <1>5, QuietOnce DEF LeavePool, Go
<1>6. CASE SortBarrier
  <2>1. First(Whole) = 0 /\ Members(Whole) = Threads
    BY RoundFacts, Located DEF First, Members, Threads, Whole
  <2>2. \A u \in Threads : pc[u] \in {"release", "wait"}
    BY <1>1, <1>6, <2>1 DEF SortBarrier, IInv, Gathered, Leading
  <2> QED
    BY <1>1, <1>6, <2>2, QuietOnce DEF SortBarrier
<1>7. CASE UNCHANGED vars
  BY <1>7, QuietOnce DEF vars
<1> QED
  BY <1>2, <1>3, <1>4, <1>5, <1>6, <1>7

LEMMA SortPrimaryOnce ==
  ASSUME SubSingleLevel = SingleLevel, IInv, SortPrimary
  PROVE  Once'
<1>1. PICK p \in Partitions(Size) :
        /\ result' = [result EXCEPT ![0] = p] /\ sorted' = InPlace(Size, 0, p, SingleLevel)
  BY DEF SortPrimary
<1>2. /\ pc' = [pc EXCEPT ![0] = "queue"] /\ 0 \in Threads
      /\ pc \in [Threads -> Places] /\ DOMAIN result = Threads
      /\ UNCHANGED << big_tasks, thread_pools, queue, in, released, bucket >>
      /\ \A t \in Threads : ~big_tasks[t].has_task /\ queue[t] = {} /\ (t # 0 => pc[t] = "wait")
      /\ in[0] = Whole /\ Size \in Nat /\ 0 \in Nat /\ Positions = 0 .. 0 + Size - 1
  BY Located DEF SortPrimary, Go, TypeOK, IInv, Starting, InPlaceOf, Positions
<1> DEFINE N == Divided(0, 0, Size, p)
           S == InPlace(Size, 0, p, SubSingleLevel)
<1>3. ASSUME NEW k PROVE k \in Tasks' <=> k \in N
  <2>1. \A t \in Threads : queue'[t] = {}
    BY <1>2
  <2>2. HasBigTask' = {}
    BY <1>2 DEF HasBigTask
  <2>3. Dividing' = {0}
    BY <1>2 DEF Dividing
  <2>4. /\ ToQueue(0)' = {i \in QueuedBuckets(p) : Size > SingleLevel}
        /\ \A i : BucketTask(0, i)' = << "bucket", 0, 0 + Start(p, i), 0 + Stop(p, i) >>
    <3>1. result'[0] = p /\ in'[0].begin = 0 /\ in'[0].end = Size /\ pc'[0] = "queue" /\ Size - 0 = Size
      BY <1>1, <1>2 DEF Whole
    <3>2. QueuedBuckets(result[0])' = QueuedBuckets(p)
      BY <3>1 DEF QueuedBuckets, EqualBuckets, Buckets
    <3> QED
      BY <3>1, <3>2 DEF ToQueue, BucketTask, Start, Stop
  <2> QED
    BY <2>1, <2>2, <2>3, <2>4, TaskCases DEF Divided
<1>4. /\ \A k \in N, x \in Nat : Covers(k, x) => x \in Positions /\ x \notin S
      /\ \A j, k \in N, x \in Nat : Covers(j, x) /\ Covers(k, x) => j = k
      /\ \A x \in Positions : x \notin S => \E k \in N : Covers(k, x)
  <2> HIDE DEF N, S
  <2>1. /\ \A k \in N, x \in Nat : Covers(k, x) => x \in 0 .. 0 + Size - 1 /\ x \notin S
        /\ \A j, k \in N, x \in Nat : Covers(j, x) /\ Covers(k, x) => j = k
        /\ \A x \in 0 .. 0 + Size - 1 : x \notin S => \E k \in N : Covers(k, x)
    BY <1>2, Dividedly DEF N, S
  <2> QED
    BY <1>2, <2>1
<1>5. sorted' = S
  BY <1>1
<1>6. \A x \in Positions : x \in Nat
  BY DEF Positions
<1> HIDE DEF N, S
<1>7. /\ \A k \in Tasks', x \in Positions : Covers(k, x) => x \notin sorted'
      /\ \A j, k \in Tasks', x \in Positions : Covers(j, x) /\ Covers(k, x) => j = k
      /\ \A x \in Positions \ sorted' : \E k \in Tasks' : Covers(k, x)
  BY <1>3, <1>4, <1>5, <1>6
<1>8. Positions' = Positions /\ \A k, x : Covers(k, x)' <=> Covers(k, x)
  BY DEF Positions, Covers
<1> QED
  BY <1>7, <1>8 DEF Once

LEMMA RunOnce ==
  ASSUME SubSingleLevel = SingleLevel, IInv, Once, NEW t \in Threads, Run(t)
  PROVE  Once'
<1> DEFINE P == in[t]
           n == big_tasks[t].end - big_tasks[t].begin
           o == big_tasks[t].begin
<1>1. PICK p \in Partitions(n) :
        /\ result' = [result EXCEPT ![t] = p]
        /\ sorted' = sorted \cup InPlace(n, big_tasks[t].begin, p, SubSingleLevel)
  BY DEF Run
<1>2. /\ pc[t] = "run" /\ pc' = [pc EXCEPT ![t] = "queue"]
      /\ pc \in [Threads -> Places] /\ DOMAIN result = Threads
      /\ UNCHANGED << big_tasks, thread_pools, queue, in, released, bucket >>
  BY DEF Run, Go, IInv, TypeOK
<1>3. /\ big_tasks[t].has_task /\ big_tasks[t].root_thread = t /\ P = thread_pools[t]
      /\ P.begin = o /\ P.end = big_tasks[t].end /\ P \in Pool /\ IsPool(P)
      /\ \A u \in Members(P) : big_tasks[u] = [big_tasks[t] EXCEPT !.task_thread_id = u - t]
  <2>1. big_tasks[t].has_task /\ big_tasks[t].root_thread = t /\ P = thread_pools[t]
    BY <1>2 DEF IInv, InPlaceOf
  <2>2. TaskAgrees(t) /\ IsPool(P) /\ P \in Pool
    BY <2>1, Located DEF IInv
  <2> QED
    BY <2>1, <2>2 DEF TaskAgrees
<1>4. n = Length(P) /\ n \in Nat /\ o \in Nat /\ o + n <= Size /\ o + n = big_tasks[t].end /\ Size \in Nat
  <2>1. P.begin \in 0 .. Size /\ P.end \in 0 .. Size /\ P.begin < P.end /\ Size \in Nat
    BY <1>3, MembersAreThreads, BigTasksAssumption DEF IsPool
  <2> QED
    BY <1>3, <2>1 DEF Length
<1> DEFINE K == BigTaskOf(t)
           N == Divided(t, o, n, p)
           S == InPlace(n, o, p, SubSingleLevel)
<1>5. \A u \in Threads : big_tasks[u].has_task /\ big_tasks[u].root_thread = t => BigTaskOf(u) = K
  <2> SUFFICES ASSUME NEW u \in Threads, big_tasks[u].has_task, big_tasks[u].root_thread = t
               PROVE  BigTaskOf(u) = K
    OBVIOUS
  <2>1. thread_pools[t].begin = big_tasks[u].begin /\ thread_pools[t].end = big_tasks[u].end
    BY DEF IInv, TaskAgrees
  <2> QED
    BY <1>3, <2>1 DEF BigTaskOf
<1>6. K \in Tasks /\ pc[0] # "sort"
  <2>1. t \in HasBigTask
    BY <1>2, <1>3 DEF HasBigTask
  <2>2. pc[0] # "sort"
    BY <1>3 DEF IInv, Starting
  <2> QED
    BY <2>1, <2>2, TaskCases
<1>7. /\ \A k, x : Covers(k, x) <=> k[3] <= x /\ x < k[4]
      /\ K[3] = o /\ K[4] = o + n
  BY <1>4 DEF Covers, BigTaskOf
<1>8. /\ HasBigTask' = {u \in HasBigTask : big_tasks[u].root_thread # t}
      /\ \A u : BigTaskOf(u)' = BigTaskOf(u)
  <2>1. \A u \in Threads : big_tasks[u].has_task => big_tasks[u].root_thread \in Threads
    BY Located
  <2> QED
    BY <1>2, <2>1 DEF HasBigTask, BigTaskOf
<1>9. /\ Dividing' = Dividing \cup {t} /\ t \notin Dividing /\ t \in Dividing'
      /\ \A u \in Dividing : ToQueue(u)' = ToQueue(u) /\ \A i : BucketTask(u, i)' = BucketTask(u, i)
  <2>1. Dividing' = Dividing \cup {t} /\ t \notin Dividing
    BY <1>2 DEF Dividing
  <2>2. ASSUME NEW u \in Dividing PROVE ToQueue(u)' = ToQueue(u) /\ \A i : BucketTask(u, i)' = BucketTask(u, i)
    <3>1. pc'[u] = pc[u] /\ in'[u] = in[u] /\ result'[u] = result[u] /\ bucket'[u] = bucket[u]
      BY <1>1, <1>2, <2>1 DEF Dividing
    <3> QED
      BY <3>1 DEF ToQueue, BucketTask, QueuedBuckets, EqualBuckets, Buckets, Start, Stop
  <2> QED
    BY <2>1, <2>2
<1>10. /\ ToQueue(t)' = {i \in QueuedBuckets(p) : n > SingleLevel}
       /\ \A i : BucketTask(t, i)' = << "bucket", t, o + Start(p, i), o + Stop(p, i) >>
  <2>1. result'[t] = p /\ in'[t].begin = o /\ in'[t].end - in'[t].begin = n /\ pc'[t] = "queue"
    BY <1>1, <1>2, <1>3
  <2>2. QueuedBuckets(result[t])' = QueuedBuckets(p)
    BY <2>1 DEF QueuedBuckets, EqualBuckets, Buckets
  <2> QED
    BY <2>1, <2>2 DEF ToQueue, BucketTask, Start, Stop
<1>11. \A k : k \in Tasks' => k \in N \/ (k \in Tasks /\ k # K)
  <2> SUFFICES ASSUME NEW k \in Tasks' PROVE k \in N \/ (k \in Tasks /\ k # K)
    OBVIOUS
  <2>1. CASE \E u \in Threads : \E e \in queue'[u] : k = << "small", u, e[1], e[2] >>
    BY <1>2, <2>1, TaskCases DEF BigTaskOf
  <2>2. CASE \E u \in HasBigTask' : k = BigTaskOf(u)'
    <3>1. PICK u \in HasBigTask : big_tasks[u].root_thread # t /\ k = BigTaskOf(u)
      BY <1>8, <2>2
    <3>2. k # K
      <4>1. k[2] # t /\ K[2] = t
        BY <1>3, <3>1 DEF BigTaskOf
      <4> QED
        BY <4>1
    <3> QED
      BY <3>1, <3>2, TaskCases
  <2>3. CASE \E u \in Dividing' : \E i \in ToQueue(u)' : k = BucketTask(u, i)'
    <3>0. PICK u \in Dividing' : \E i \in ToQueue(u)' : k = BucketTask(u, i)'
      BY <2>3
    <3>1. PICK i \in ToQueue(u)' : k = BucketTask(u, i)'
      BY <3>0
    <3>2. CASE u = t
      BY <1>10, <3>1, <3>2 DEF Divided
    <3>3. CASE u # t
      <4>1. u \in Dividing /\ i \in ToQueue(u) /\ k = BucketTask(u, i)
        BY <1>9, <3>1, <3>3
      <4>2. k \in Tasks
        BY <4>1, TaskCases
      <4>3. k # K
        BY <4>1 DEF BucketTask, BigTaskOf
      <4> QED
        BY <4>2, <4>3
    <3> QED
      BY <3>2, <3>3
  <2> QED
    BY <2>1, <2>2, <2>3, TaskCases
<1>12. \A k : k \in Tasks => k = K \/ k \in Tasks'
  <2> SUFFICES ASSUME NEW k \in Tasks PROVE k = K \/ k \in Tasks'
    OBVIOUS
  <2>1. CASE \E u \in Threads : \E e \in queue[u] : k = << "small", u, e[1], e[2] >>
    BY <1>2, <2>1, TaskCases
  <2>2. CASE \E u \in HasBigTask : k = BigTaskOf(u)
    <3>1. PICK u \in HasBigTask : k = BigTaskOf(u)
      BY <2>2
    <3>2. CASE big_tasks[u].root_thread = t
      BY <1>5, <3>1, <3>2 DEF HasBigTask
    <3>3. CASE big_tasks[u].root_thread # t
      BY <1>8, <3>1, <3>3, TaskCases
    <3> QED
      BY <3>2, <3>3
  <2>3. CASE \E u \in Dividing : \E i \in ToQueue(u) : k = BucketTask(u, i)
    BY <1>9, <2>3, TaskCases
  <2> QED
    BY <2>1, <2>2, <2>3, TaskCases
<1>13. \A k : k \in N => k \in Tasks'
  <2> SUFFICES ASSUME NEW i \in {i \in QueuedBuckets(p) : n > SingleLevel}
               PROVE  << "bucket", t, o + Start(p, i), o + Stop(p, i) >> \in Tasks'
    BY DEF Divided
  <2> QED
    BY <1>9, <1>10, TaskCases
<1>14. /\ \A k \in N, x \in Nat : Covers(k, x) => x \in o .. o + n - 1 /\ x \notin S
       /\ \A j, k \in N, x \in Nat : Covers(j, x) /\ Covers(k, x) => j = k
       /\ \A x \in o .. o + n - 1 : x \notin S => \E k \in N : Covers(k, x)
       /\ \A x \in S : x \in o .. o + n - 1
  <2> HIDE DEF N, S, o, n
  <2> QED
    BY <1>4, Dividedly DEF N, S
<1>15. /\ \A x \in Positions : x \in Nat /\ (Covers(K, x) <=> x \in o .. o + n - 1)
       /\ \A x \in o .. o + n - 1 : Covers(K, x)
  <2> HIDE DEF K, o, n
  <2> QED
    BY <1>4, <1>7 DEF Positions
<1>16. sorted' = sorted \cup S
  BY <1>1
<1> HIDE DEF P, n, o, K, N, S
<1>17. /\ \A k \in Tasks', x \in Positions : Covers(k, x) => k \in N \/ (k \in Tasks /\ k # K)
       /\ \A k \in Tasks, x \in Positions : Covers(k, x) => k = K \/ k \in Tasks'
  BY <1>11, <1>12
<1>18. /\ \A k \in N, x \in Positions : Covers(k, x) => Covers(K, x) /\ x \notin S /\ k \in Tasks'
       /\ \A j, k \in N, x \in Positions : Covers(j, x) /\ Covers(k, x) => j = k
       /\ \A x \in Positions : Covers(K, x) /\ x \notin S => \E k \in N : Covers(k, x)
       /\ \A x \in S : Covers(K, x)
  BY <1>13, <1>14, <1>15
<1> QED
  BY <1>6, <1>16, <1>17, <1>18, ReplacedOnce

LEMMA QueueOnce ==
  ASSUME IInv, Once, NEW t \in Threads, Queue(t)
  PROVE  Once'
<1> DEFINE P == in[t]
           n == in[t].end - in[t].begin
<1>1. /\ pc[t] = "queue" /\ pc \in [Threads -> Places] /\ DOMAIN bucket = Threads
      /\ UNCHANGED << queue, in, released, result, sorted >>
      /\ big_tasks' = [u \in Threads |-> IF u \in Members(P) THEN [big_tasks[u] EXCEPT !.has_task = FALSE]
                                                             ELSE big_tasks[u]]
      /\ t = First(P) /\ Members(P) \subseteq Threads /\ n = Length(P) /\ n \in Nat /\ SingleLevel \in Nat
  <2>1. pc[t] = "queue"
    BY DEF Queue
  <2>2. P \in Pool /\ IsPool(P) /\ Team(t) = Members(P) /\ t = First(P) /\ Members(P) \subseteq Threads
    BY <2>1, Led DEF Leading
  <2>3. n = Length(P) /\ n \in Nat /\ SingleLevel \in Nat
    BY <2>2, MembersAreThreads, BigTasksAssumption DEF Length
  <2> QED
    BY <2>1, <2>2, <2>3 DEF Queue, IInv, TypeOK
<1>2. /\ n <= SingleLevel => pc' = [pc EXCEPT ![t] = "release"] /\ bucket' = bucket
      /\ n > SingleLevel => /\ pc' = [pc EXCEPT ![t] = "divide"]
                            /\ bucket' = [bucket EXCEPT ![t] = result[t].num_buckets - 1]
  BY <1>1 DEF Queue, Go
<1>3. /\ result[t] \in Partitions(n) /\ result[t].num_buckets \in Nat
      /\ \/ in[t] = Whole /\ \A u \in Threads : ~big_tasks[u].has_task
         \/ big_tasks[t].has_task /\ big_tasks[t].root_thread = t /\ in[t] = thread_pools[t]
  <2>1. /\ result[t] \in Partitions(n)
        /\ \/ in[t] = Whole /\ \A u \in Threads : ~big_tasks[u].has_task
           \/ big_tasks[t].has_task /\ big_tasks[t].root_thread = t /\ in[t] = thread_pools[t]
    BY <1>1 DEF IInv, Divides
  <2> HIDE DEF n
  <2>2. result[t].num_buckets \in Nat
    BY <1>1, <2>1, PartitionFacts
  <2> QED
    BY <2>1, <2>2
<1>4. pc[0] # "sort"
  <2>1. CASE t = 0
    BY <1>1, <2>1
  <2>2. CASE t # 0
    BY <1>1, <2>2 DEF IInv, Starting
  <2> QED
    BY <2>1, <2>2
<1>5. ASSUME NEW u \in Threads
      PROVE  big_tasks'[u].has_task <=> big_tasks[u].has_task /\ u \notin Members(P)
  <2>1. big_tasks[u] \in BigTask
    BY Located
  <2>2. CASE u \in Members(P)
    <3>1. big_tasks'[u] = [big_tasks[u] EXCEPT !.has_task = FALSE]
      BY <1>1, <2>2
    <3> QED
      BY <2>1, <2>2, <3>1, ClearedSlot
  <2>3. CASE u \notin Members(P)
    BY <1>1, <2>3
  <2> QED
    BY <2>2, <2>3
<1>6. ASSUME NEW u \in Threads, big_tasks[u].has_task
      PROVE  /\ big_tasks[u].root_thread \in Threads
             /\ u \in Members(P) <=> big_tasks[u].root_thread = t
  <2>1. big_tasks[u].root_thread \in Threads
    BY <1>6, Located
  <2>2. big_tasks[t].has_task /\ big_tasks[t].root_thread = t /\ in[t] = thread_pools[t]
    BY <1>3, <1>6
  <2>3. CASE u \in Members(P)
    <3>1. big_tasks[u] = [big_tasks[t] EXCEPT !.task_thread_id = u - t] /\ big_tasks[t] \in BigTask
      <4>1. big_tasks[t] \in BigTask /\ TaskAgrees(t) /\ thread_pools[t] = P
        BY <2>2, Located DEF IInv
      <4> QED
        BY <2>2, <2>3, <4>1 DEF TaskAgrees
    <3>2. big_tasks[u].root_thread = t
      BY <2>2, <3>1 DEF BigTask
    <3> QED
      BY <2>1, <2>3, <3>2
  <2>4. CASE big_tasks[u].root_thread = t
    <3>1. u \in Members(thread_pools[t])
      BY <1>6, <2>4 DEF IInv, TaskAgrees
    <3> QED
      BY <2>1, <2>2, <2>4, <3>1
  <2> QED
    BY <2>1, <2>3, <2>4
<1>7. /\ HasBigTask' = HasBigTask
      /\ \A u \in HasBigTask : BigTaskOf(u)' = BigTaskOf(u)
  <2>1. ASSUME NEW u \in HasBigTask PROVE u \in HasBigTask' /\ BigTaskOf(u)' = BigTaskOf(u)
    <3>1. u \in Threads /\ big_tasks[u].has_task /\ big_tasks[u].root_thread # t
          /\ pc[big_tasks[u].root_thread] # "queue" /\ big_tasks[u].root_thread \in Threads
      BY <1>1, <1>6 DEF HasBigTask
    <3>2. u \notin Members(P)
      BY <1>6, <3>1
    <3>3. big_tasks'[u] = big_tasks[u]
      BY <1>1, <3>1, <3>2
    <3>4. pc'[big_tasks[u].root_thread] = pc[big_tasks[u].root_thread]
      BY <1>1, <1>2, <3>1
    <3> QED
      BY <3>1, <3>3, <3>4 DEF HasBigTask, BigTaskOf
  <2>2. ASSUME NEW u \in HasBigTask' PROVE u \in HasBigTask
    <3>1. u \in Threads /\ big_tasks'[u].has_task /\ pc'[big_tasks'[u].root_thread] # "queue"
      BY DEF HasBigTask
    <3>2. big_tasks[u].has_task /\ u \notin Members(P) /\ big_tasks'[u] = big_tasks[u]
      BY <1>1, <1>5, <3>1
    <3>3. big_tasks[u].root_thread # t /\ big_tasks[u].root_thread \in Threads
      BY <1>6, <3>1, <3>2
    <3>4. pc'[big_tasks[u].root_thread] = pc[big_tasks[u].root_thread]
      BY <1>1, <1>2, <3>3
    <3> QED
      BY <3>1, <3>2, <3>4 DEF HasBigTask
  <2> QED
    BY <2>1, <2>2
<1>8. ASSUME NEW u \in Threads, u # t
      PROVE  /\ u \in Dividing' <=> u \in Dividing
             /\ u \in Dividing => ToQueue(u)' = ToQueue(u)
             /\ \A i : BucketTask(u, i)' = BucketTask(u, i)
  <2>1. pc'[u] = pc[u] /\ in'[u] = in[u] /\ result'[u] = result[u] /\ bucket'[u] = bucket[u]
    BY <1>1, <1>2, <1>8
  <2> QED
    BY <2>1 DEF Dividing, ToQueue, BucketTask, QueuedBuckets, EqualBuckets, Buckets, Start, Stop
<1>9. /\ t \in Dividing /\ \A i : BucketTask(t, i)' = BucketTask(t, i)
      /\ IF n > SingleLevel THEN t \in Dividing' /\ ToQueue(t)' = ToQueue(t)
                            ELSE t \notin Dividing' /\ ToQueue(t) = {}
  <2>1. t \in Dividing /\ \A i : BucketTask(t, i)' = BucketTask(t, i)
    BY <1>1 DEF Dividing, BucketTask, Start, Stop
  <2>2. CASE n > SingleLevel
    <3>1. pc'[t] = "divide" /\ bucket'[t] = result[t].num_buckets - 1 /\ in' = in /\ result' = result
      BY <1>1, <1>2, <2>2
    <3>2. QueuedBuckets(result[t])' = QueuedBuckets(result[t])
      BY <3>1 DEF QueuedBuckets, EqualBuckets, Buckets
    <3>3. \A i \in QueuedBuckets(result[t]) : i <= result[t].num_buckets - 1
      BY <1>3 DEF QueuedBuckets, Buckets
    <3> QED
      BY <1>1, <2>1, <2>2, <3>1, <3>2, <3>3 DEF Dividing, ToQueue
  <2>3. CASE ~(n > SingleLevel)
    <3>1. pc'[t] = "release"
      BY <1>1, <1>2, <2>3
    <3> QED
      BY <1>1, <2>1, <2>3, <3>1 DEF Dividing, ToQueue
  <2> QED
    BY <2>1, <2>2, <2>3
<1>10. \A k : (\E u \in Dividing : \E i \in ToQueue(u) : k = BucketTask(u, i))
                <=> \E u \in Dividing' : \E i \in ToQueue(u)' : k = BucketTask(u, i)'
  <2>1. Dividing \subseteq Threads /\ Dividing' \subseteq Threads
    BY DEF Dividing
  <2> HIDE DEF P, n
  <2> QED
    BY <1>8, <1>9, <2>1
<1>11. \A k : k \in Tasks <=> k \in Tasks'
  BY <1>1, <1>7, <1>10, TaskCases
<1> QED
  BY <1>1, <1>4, <1>11, KeptOnce

LEMMA DivideOnce ==
  ASSUME IInv, Once, NEW t \in Threads, Divide(t)
  PROVE  Once'
<1> DEFINE P  == in[t]
           p  == result[t]
           i  == bucket[t]
           lo == Lo(t)
           hi == Hi(t)
           new == Round(lo) .. Round(hi) - 1
           K  == << "bucket", t, lo, hi >>
<1>1. /\ pc[t] = "divide" /\ p \in Partitions(Length(P)) /\ Length(P) \in Nat
      /\ i \in Buckets(p) /\ i \in Nat /\ Buckets(p) \subseteq Nat
      /\ UNCHANGED << in, released, result, sorted >>
      /\ i = 0 => pc' = [pc EXCEPT ![t] = "release"] /\ bucket' = bucket
      /\ i # 0 => pc' = pc /\ bucket' = [bucket EXCEPT ![t] = i - 1]
      /\ lo \in 0 .. Size /\ hi \in 0 .. Size
      /\ pc \in [Threads -> Places] /\ DOMAIN bucket = Threads
  BY DivideCases DEF IInv, TypeOK, Buckets
<1>2. /\ P \in Pool /\ IsPool(P) /\ Members(P) \subseteq Threads /\ Length(P) > SingleLevel
      /\ \A u \in Members(P) : u # t => pc[u] \in {"wait", "joined"}
      /\ P.begin \in Nat /\ Length(P) = P.end - P.begin
  BY <1>1, Led, MembersAreThreads DEF Leading, IInv, Divides, Length
<1>3. pc[0] # "sort"
  <2>1. CASE t = 0
    BY <1>1, <2>1
  <2>2. CASE t # 0
    BY <1>1, <2>2 DEF IInv, Starting
  <2> QED
    BY <2>1, <2>2
<1>4. ASSUME NEW u \in Threads
      PROVE  (pc'[u] = "queue" <=> pc[u] = "queue")
  BY <1>1
<1>5. ASSUME NEW u \in Threads, u # t
      PROVE  /\ u \in Dividing' <=> u \in Dividing
             /\ u \in Dividing => ToQueue(u)' = ToQueue(u)
             /\ \A j : BucketTask(u, j)' = BucketTask(u, j)
  <2>1. pc'[u] = pc[u] /\ in'[u] = in[u] /\ result'[u] = result[u] /\ bucket'[u] = bucket[u]
    BY <1>1, <1>5
  <2> QED
    BY <2>1 DEF Dividing, ToQueue, BucketTask, QueuedBuckets, EqualBuckets, Buckets, Start, Stop
<1>6. /\ t \in Dividing /\ BucketTask(t, i) = K /\ \A j : BucketTask(t, j)' = BucketTask(t, j)
      /\ i \in ToQueue(t) <=> i \in QueuedBuckets(p)
      /\ ToQueue(t) \subseteq QueuedBuckets(p) /\ ToQueue(t) \subseteq Nat
      /\ \A j : t \in Dividing' /\ j \in ToQueue(t)' <=> j \in ToQueue(t) /\ j # i
  <2>1. t \in Dividing /\ BucketTask(t, i) = K /\ \A j : BucketTask(t, j)' = BucketTask(t, j)
    BY <1>1 DEF Dividing, BucketTask, Start, Stop, Lo, Hi
  <2>2. QueuedBuckets(p) \subseteq Nat
    BY <1>1 DEF QueuedBuckets
  <2>3. ToQueue(t) = {j \in QueuedBuckets(p) : j <= i}
    BY <1>1, <1>2 DEF ToQueue
  <2>4. CASE i = 0
    <3>1. t \notin Dividing'
      BY <1>1, <2>4 DEF Dividing
    <3> HIDE DEF i, p
    <3> QED
      BY <1>1, <2>1, <2>2, <2>3, <2>4, <3>1
  <2>5. CASE i # 0
    <3>1. t \in Dividing' /\ pc'[t] = "divide" /\ bucket'[t] = i - 1 /\ in'[t] = in[t] /\ result'[t] = p
      BY <1>1, <2>5 DEF Dividing
    <3>2. QueuedBuckets(result[t])' = QueuedBuckets(p)
      BY <3>1 DEF QueuedBuckets, EqualBuckets, Buckets
    <3>3. ToQueue(t)' = {j \in QueuedBuckets(p) : j <= i - 1}
      BY <1>2, <3>1, <3>2 DEF ToQueue
    <3> HIDE DEF i, p
    <3> QED
      BY <1>1, <2>1, <2>2, <2>3, <2>5, <3>1, <3>3
  <2> QED
    BY <2>4, <2>5
<1>7. \A k : (\E u \in Dividing' : \E j \in ToQueue(u)' : k = BucketTask(u, j)')
               <=> \E u \in Dividing : \E j \in ToQueue(u) : k = BucketTask(u, j) /\ ~(u = t /\ j = i)
  <2>1. Dividing \subseteq Threads /\ Dividing' \subseteq Threads
    BY DEF Dividing
  <2> HIDE DEF P, p, i, K
  <2> QED
    BY <1>5, <1>6, <2>1
<1>8. \A j \in ToQueue(t), x \in Positions : Covers(BucketTask(t, j), x) /\ BucketTask(t, j) = K => j = i
  <2> SUFFICES ASSUME NEW j \in ToQueue(t), NEW x \in Positions,
                      Covers(BucketTask(t, j), x), Covers(K, x)
               PROVE  j = i
    OBVIOUS
  <2>1. j \in Buckets(p) /\ i \in Buckets(p)
    BY <1>1, <1>6 DEF QueuedBuckets
  <2>2. /\ Start(p, j) \in 0 .. Length(P) /\ Stop(p, j) \in 0 .. Length(P)
        /\ Start(p, i) \in 0 .. Length(P) /\ Stop(p, i) \in 0 .. Length(P)
    <3>1. /\ p.num_buckets \in Nat /\ p.bucket_start \in [0 .. p.num_buckets -> 0 .. Length(P)]
      BY <1>1, PartitionFacts
    <3>2. \A g \in Buckets(p) : g \in 0 .. p.num_buckets /\ g + 1 \in 0 .. p.num_buckets
      BY <3>1 DEF Buckets
    <3> QED
      BY <2>1, <3>1, <3>2 DEF Start, Stop
  <2>3. /\ P.begin + Start(p, j) <= x /\ x < P.begin + Stop(p, j)
        /\ P.begin + Start(p, i) <= x /\ x < P.begin + Stop(p, i)
    BY DEF Covers, BucketTask, Lo, Hi
  <2>4. x - P.begin \in 0 .. Length(P) - 1 /\ x \in Nat
    <3> HIDE DEF P, p, i, K
    <3> QED
      BY <1>1, <1>2, <2>2, <2>3 DEF Positions
  <2>5. /\ Start(p, j) <= x - P.begin /\ x - P.begin < Stop(p, j)
        /\ Start(p, i) <= x - P.begin /\ x - P.begin < Stop(p, i)
    <3> HIDE DEF P, p, i, K
    <3> QED
      BY <1>1, <1>2, <2>2, <2>3, <2>4
  <2> HIDE DEF P, p, i, K
  <2> QED
    BY <1>1, <2>1, <2>4, <2>5, BucketOf
<1>9. \A x : Covers(K, x) <=> lo <= x /\ x < hi
  BY DEF Covers
<1>10. CASE /\ UNCHANGED << big_tasks, thread_pools, queue >>
            /\ i \in QueuedBuckets(p) => lo = hi
  <2>1. HasBigTask' = HasBigTask /\ \A u : BigTaskOf(u)' = BigTaskOf(u)
    <3>1. \A u \in Threads : big_tasks[u].has_task => big_tasks[u].root_thread \in Threads
      BY Located
    <3> QED
      BY <1>4, <1>10, <3>1 DEF HasBigTask, BigTaskOf
  <2>2. ASSUME NEW k, NEW x \in Positions, Covers(k, x) PROVE k \in Tasks <=> k \in Tasks'
    <3>1. ~(i \in ToQueue(t) /\ k = K)
      <4>1. x \in Int
        BY BigTasksAssumption DEF Positions
      <4> HIDE DEF i, p, lo, hi
      <4> QED
        BY <1>1, <1>6, <1>9, <1>10, <2>2, <4>1
    <3>2. (\E u \in Dividing' : \E j \in ToQueue(u)' : k = BucketTask(u, j)')
               <=> \E u \in Dividing : \E j \in ToQueue(u) : k = BucketTask(u, j)
      BY <1>6, <1>7, <3>1
    <3> QED
      BY <1>10, <2>1, <3>2, TaskCases
  <2> HIDE DEF P, p, i, lo, hi, K, new
  <2> QED
    BY <1>1, <1>3, <2>2, KeptOnce
<1>11. ASSUME NEW k, i \in QueuedBuckets(p),
              \A g : g \in Tasks' <=>
                g = k \/ (\E u \in Threads : \E e \in queue[u] : g = << "small", u, e[1], e[2] >>)
                \/ (\E u \in HasBigTask : g = BigTaskOf(u))
                \/ (\E u \in Dividing' : \E j \in ToQueue(u)' : g = BucketTask(u, j)'),
              \A x : Covers(k, x) <=> lo <= x /\ x < hi
       PROVE  Once'
  <2>1. K \in Tasks
    BY <1>6, <1>11, TaskCases
  <2>2. ASSUME NEW g \in Tasks', NEW x \in Positions, Covers(g, x) PROVE g = k \/ (g \in Tasks /\ g # K)
    <3>1. CASE \/ \E u \in Threads : \E e \in queue[u] : g = << "small", u, e[1], e[2] >>
               \/ \E u \in HasBigTask : g = BigTaskOf(u)
      <4>1. g \in Tasks
        BY <3>1, TaskCases
      <4>2. g # K
        BY <3>1 DEF BigTaskOf
      <4> QED
        BY <4>1, <4>2
    <3>2. CASE \E u \in Dividing' : \E j \in ToQueue(u)' : g = BucketTask(u, j)'
      <4>1. PICK u \in Dividing : \E j \in ToQueue(u) : g = BucketTask(u, j) /\ ~(u = t /\ j = i)
        BY <1>7, <3>2
      <4>2. PICK j \in ToQueue(u) : g = BucketTask(u, j) /\ ~(u = t /\ j = i)
        BY <4>1
      <4>3. g \in Tasks
        BY <4>2, TaskCases
      <4>4. g # K
        <5>1. CASE u = t
          BY <1>8, <2>2, <4>2, <5>1
        <5>2. CASE u # t
          <6>1. g[2] = u /\ K[2] = t
            BY <4>2 DEF BucketTask
          <6> QED
            BY <5>2, <6>1
        <5> QED
          BY <5>1, <5>2
      <4> QED
        BY <4>3, <4>4
    <3> QED
      BY <1>11, <3>1, <3>2
  <2>3. ASSUME NEW g \in Tasks, g # K PROVE g \in Tasks'
    <3>1. CASE \/ \E u \in Threads : \E e \in queue[u] : g = << "small", u, e[1], e[2] >>
               \/ \E u \in HasBigTask : g = BigTaskOf(u)
      BY <1>11, <3>1
    <3>2. CASE \E u \in Dividing : \E j \in ToQueue(u) : g = BucketTask(u, j)
      BY <1>6, <1>7, <1>11, <2>3, <3>2
    <3> QED
      BY <3>1, <3>2, TaskCases
  <2> DEFINE N == {k}
             S == {}
  <2>4. /\ \A g \in Tasks', x \in Positions : Covers(g, x) => g \in N \/ (g \in Tasks /\ g # K)
        /\ \A g \in Tasks, x \in Positions : Covers(g, x) => g = K \/ g \in Tasks'
        /\ \A g \in N, x \in Positions : Covers(g, x) => Covers(K, x) /\ x \notin S /\ g \in Tasks'
        /\ \A j, g \in N, x \in Positions : Covers(j, x) /\ Covers(g, x) => j = g
        /\ \A x \in Positions : Covers(K, x) /\ x \notin S => \E g \in N : Covers(g, x)
        /\ \A x \in S : Covers(K, x)
    <3> HIDE DEF P, p, i, lo, hi, K, new
    <3> QED
      BY <1>9, <1>11, <2>2, <2>3
  <2>5. sorted' = sorted \cup S
    BY <1>1
  <2> HIDE DEF P, p, i, lo, hi, K, new, N, S
  <2> QED
    BY <1>3, <2>1, <2>4, <2>5, ReplacedOnce
<1>12. CASE /\ UNCHANGED << big_tasks, thread_pools >> /\ i \in QueuedBuckets(p)
            /\ \E owner \in Members(P) : queue' = [queue EXCEPT ![owner] = @ \cup {<< lo, hi >>}]
  <2>1. PICK owner \in Members(P) : queue' = [queue EXCEPT ![owner] = @ \cup {<< lo, hi >>}]
    BY <1>12
  <2> DEFINE k == << "small", owner, lo, hi >>
  <2>2. HasBigTask' = HasBigTask /\ \A u : BigTaskOf(u)' = BigTaskOf(u)
    <3>1. \A u \in Threads : big_tasks[u].has_task => big_tasks[u].root_thread \in Threads
      BY Located
    <3> QED
      BY <1>4, <1>12, <3>1 DEF HasBigTask, BigTaskOf
  <2>3. \A g : (\E u \in Threads : \E e \in queue'[u] : g = << "small", u, e[1], e[2] >>) <=>
           g = k \/ \E u \in Threads : \E e \in queue[u] : g = << "small", u, e[1], e[2] >>
    <3>1. owner \in Threads /\ DOMAIN queue = Threads
      BY <1>2 DEF IInv, TypeOK
    <3>2. \A u \in Threads : queue'[u] = IF u = owner THEN queue[u] \cup {<< lo, hi >>} ELSE queue[u]
      BY <2>1, <3>1
    <3>3. << lo, hi >>[1] = lo /\ << lo, hi >>[2] = hi
      OBVIOUS
    <3> HIDE DEF lo, hi
    <3> QED
      BY <3>1, <3>2, <3>3
  <2>4. \A x : Covers(k, x) <=> lo <= x /\ x < hi
    BY DEF Covers
  <2>5. \A g : g \in Tasks' <=>
                g = k \/ (\E u \in Threads : \E e \in queue[u] : g = << "small", u, e[1], e[2] >>)
                \/ (\E u \in HasBigTask : g = BigTaskOf(u))
                \/ (\E u \in Dividing' : \E j \in ToQueue(u)' : g = BucketTask(u, j)')
    <3> HIDE DEF k
    <3> QED
      BY <2>2, <2>3, TaskCases
  <2> HIDE DEF k, lo, hi, p, i
  <2> QED
    BY <1>11, <1>12, <2>4, <2>5
<1>13. CASE /\ UNCHANGED queue /\ i \in QueuedBuckets(p) /\ lo < hi /\ Round(hi) - Round(lo) > 1
            /\ big_tasks' = [u \in Threads |-> IF u \in new THEN NewTask(lo, hi, Round(lo), u)
                                                            ELSE big_tasks[u]]
  <2> DEFINE k == << "big", Round(lo), lo, hi >>
  <2>1. /\ Round(lo) \in new /\ new \subseteq Members(P) /\ new \subseteq Threads
        /\ \A u \in new : ~big_tasks[u].has_task
    BY <1>2, <1>13, NewTeam
  <2>2. \A u \in new : big_tasks'[u].has_task /\ big_tasks'[u].root_thread = Round(lo) /\ BigTaskOf(u)' = k
    <3>1. \A u \in new : big_tasks'[u] = NewTask(lo, hi, Round(lo), u)
      BY <1>13, <2>1
    <3> QED
      BY <3>1, NewTaskFields DEF BigTaskOf
  <2>3. \A u \in Threads \ new : big_tasks'[u] = big_tasks[u]
    BY <1>13
  <2>4. pc'[Round(lo)] # "queue"
    BY <1>1, <1>2, <1>4, <2>1
  <2>5. /\ HasBigTask' = HasBigTask \cup new
        /\ \A u \in HasBigTask : u \notin new /\ BigTaskOf(u)' = BigTaskOf(u)
    <3>1. \A u \in Threads : big_tasks[u].has_task => big_tasks[u].root_thread \in Threads
      BY Located
    <3>2. \A u \in new : u \in HasBigTask' /\ u \notin HasBigTask
      BY <2>1, <2>2, <2>4 DEF HasBigTask
    <3>3. \A u \in Threads \ new : (u \in HasBigTask' <=> u \in HasBigTask) /\ BigTaskOf(u)' = BigTaskOf(u)
      BY <1>4, <2>3, <3>1 DEF HasBigTask, BigTaskOf
    <3>4. HasBigTask \subseteq Threads /\ HasBigTask' \subseteq Threads
      BY DEF HasBigTask
    <3> HIDE DEF new
    <3> QED
      BY <2>1, <3>2, <3>3, <3>4
  <2>6. \A x : Covers(k, x) <=> lo <= x /\ x < hi
    BY DEF Covers
  <2>7. \A g : (\E u \in HasBigTask' : g = BigTaskOf(u)') <=> g = k \/ \E u \in HasBigTask : g = BigTaskOf(u)
    <3> HIDE DEF new, k
    <3> QED
      BY <2>1, <2>2, <2>5
  <2>8. \A g : g \in Tasks' <=>
                g = k \/ (\E u \in Threads : \E e \in queue[u] : g = << "small", u, e[1], e[2] >>)
                \/ (\E u \in HasBigTask : g = BigTaskOf(u))
                \/ (\E u \in Dividing' : \E j \in ToQueue(u)' : g = BucketTask(u, j)')
    <3> HIDE DEF k
    <3> QED
      BY <1>13, <2>7, TaskCases
  <2> HIDE DEF k, lo, hi, p, i, new
  <2> QED
    BY <1>11, <1>13, <2>6, <2>8
<1> QED
  BY <1>10, <1>12, <1>13, DivideCases

LEMMA StepOnce ==
  ASSUME SubSingleLevel = SingleLevel, IInv, Once, [Next]_vars
  PROVE  Once'
<1>1. CASE UNCHANGED vars
  BY <1>1, QuietSteps, Located
<1>2. ASSUME NEW t \in Threads, ThreadStep(t) PROVE Once'
  BY <1>2, QuietSteps, RunOnce, QueueOnce, DivideOnce, SortPrimaryOnce DEF ThreadStep
<1> QED
  BY <1>1, <1>2 DEF Next, Finished

(* Every element is sorted once: it is in its final place or in exactly    *)
(* one task, whatever partitioning returns and however teams are formed,   *)
(* if the teams' sorters have the threshold of the whole sorter, as with   *)
(* the default configuration.                                              *)
THEOREM ElementsSortedOnce ==
  ASSUME SubSingleLevel = SingleLevel
  PROVE  Spec => []EverythingOnce
<1>1. Init => Once
  <2>1. 0 \in Threads
    BY BigTasksAssumption DEF Threads
  <2> QED
    BY <2>1 DEF Init, Once
<1>2. IInv /\ Once /\ [Next]_vars => Once'
  BY StepOnce
<1>3. Once => EverythingOnce
  <2> SUFFICES ASSUME Once, pc[0] # "sort", NEW x \in Positions
               PROVE  IF x \in sorted THEN Holding(x) = {} ELSE Cardinality(Holding(x)) = 1
    BY DEF EverythingOnce
  <2>1. Holding(x) = {k \in Tasks : Covers(k, x)}
    BY DEF Holding, Covers
  <2>2. CASE x \in sorted
    BY <2>1, <2>2 DEF Once
  <2>3. CASE x \notin sorted
    <3>1. PICK k \in Tasks : Covers(k, x)
      BY <2>3 DEF Once
    <3>2. \A j \in Tasks : Covers(j, x) => j = k
      BY <3>1 DEF Once
    <3>3. Holding(x) = {k}
      BY <2>1, <3>1, <3>2
    <3>4. Cardinality({k}) = 1
      BY FS_Singleton
    <3> QED
      BY <2>3, <3>3, <3>4
  <2> QED
    BY <2>2, <2>3
<1> QED
  BY <1>1, <1>2, <1>3, Invariance, PTL DEF Spec

===============================================================================
