------------------------ MODULE ParallelSorterProofs ------------------------
(***************************************************************************)
(* NoConflict, CurrentStep and CallsInStep of ParallelSorter, for any      *)
(* number of threads and any calls and sizes of the teams: the barriers of *)
(* the pool and of its jobs order all accesses to the fields that the      *)
(* threads share, what a thread finds there belongs to its call, and every *)
(* thread executes the calls it has to, once and in order.                 *)
(*                                                                         *)
(* The flag of the pool's barrier tells whether the threads wait for a     *)
(* call (Idle) or execute one (Working), or are told to end (Ending).      *)
(* While they execute a job, all members of the team are between the same  *)
(* two of the job's barriers, but for those that have hit the second one   *)
(* already: there is one number e of barriers that the team has passed,    *)
(* which every member fits.                                                *)
(***************************************************************************)
EXTENDS ParallelSorter, FiniteSetTheorems, SequenceTheorems, TLAPS

Jobs == {"alloc", "sort", "partition"}

(* The threads that have hit a barrier which has not opened yet.           *)
PoolPending == {t \in Threads : at[t] = "pool" /\ flag[t] = pool.flag}
SyncPending == {t \in Threads : at[t] = "sync" /\ flag[t] = sync.flag}

(* The barriers of its job that a thread has hit when it is at p.          *)
Passed(p) ==
  IF p \in {"register", "single", "sample"} THEN 0
  ELSE IF p \in {"take", "classify"} THEN 1
  ELSE IF p = "move" THEN 2
  ELSE IF p \in {"permute", "publish"} THEN 3
  ELSE IF p = "save" THEN 4
  ELSE IF p = "write" THEN 5
  ELSE IF p \in {"clean", "reset"} THEN 6
  ELSE 7

Stages(j) ==
  IF j = "alloc" THEN {"alloc", "return"}
  ELSE {"register", "single", "sample", "take", "classify", "move", "permute", "publish",
        "save", "write", "clean", "reset", "tasks", "return"}

Places ==
  Stages("sort") \cup {"alloc", "call", "set_up", "main", "test", "join", "ended"}

Members == 0 .. num_threads - 1

Barriers(M) == [size : M, hits : 1 .. NumThreads, flag : BOOLEAN, taken : BOOLEAN]

-----------------------------------------------------------------------------
TypeOK ==
  /\ life \in Lives /\ call \in 0 .. Len(life.calls)
  /\ pc \in [Threads -> Places]
  /\ at \in [Threads -> {"run", "pool", "sync"}]
  /\ flag \in [Threads -> BOOLEAN]
  /\ func \in [call : Nat, job : Jobs \cup {"none"}]
  /\ num_threads \in 1 .. NumThreads
  /\ done \in BOOLEAN
  /\ pool \in Barriers({NumThreads})
  /\ sync \in Barriers(1 .. NumThreads)
  /\ ctx \in [Threads -> [call : Nat, job : Jobs \cup {"none"}, n : Nat]]
  /\ NumThreads > 1 => num_threads > 1

HasContext(t) == ctx[t] = [call |-> func.call, job |-> func.job, n |-> num_threads]

(* A call is set up: what thread 0 writes before it hits the barrier.      *)
Prepared ==
  /\ func.job \in Jobs /\ num_threads > 1
  /\ sync.size = num_threads

(* Between two calls: thread 0 prepares the next one, or does a job alone; *)
(* the others are in front of the barrier.                                 *)
Caller ==
  \/ at[0] = "run" /\ pc[0] = "call"
  \/ at[0] = "run" /\ pc[0] = "set_up" /\ call > 0 /\ TeamSize(call) > 1
  \/ at[0] = "run" /\ pc[0] \in Stages("alloc") /\ ctx[0].n = 1
  \/ at[0] = "pool" /\ flag[0] /\ pc[0] = "call"
  \/ at[0] = "pool" /\ ~flag[0] /\ pc[0] = "join" /\ done
  \/ at[0] = "pool" /\ ~flag[0] /\ ~done /\ Prepared /\ sync.hits = num_threads
     /\ HasContext(0) /\ pc[0] = First[func.job]

Waiting(t) ==
  \/ at[t] = "run" /\ pc[t] = "main"
  \/ at[t] = "pool" /\ flag[t] /\ pc[t] = "main"
  \/ at[t] = "pool" /\ ~flag[t] /\ pc[t] = "test"

Idle ==
  /\ Caller
  /\ \A t \in Threads \ {0} : Waiting(t)
  /\ done => pc[0] = "join"

(* The threads have been told to end.                                      *)
Ends(t) ==
  \/ at[t] = "run" /\ pc[t] = "ended"
  \/ (at[t] = "run" \/ (at[t] = "pool" /\ ~flag[t]))
     /\ pc[t] = IF t = 0 THEN "join" ELSE "test"

Ending == \A t \in Threads : Ends(t)

(* During a call a thread comes to the job, does it, or is gone from it.   *)
Coming(t) ==
  IF t = 0
    THEN at[t] = "pool" /\ ~flag[t] /\ HasContext(t) /\ pc[t] = First[func.job]
    ELSE (at[t] = "run" \/ (at[t] = "pool" /\ ~flag[t])) /\ pc[t] = "test"

InJob(t) ==
  /\ HasContext(t) /\ at[t] \in {"run", "sync"} /\ pc[t] \in Stages(func.job)
  /\ pc[t] = "reset" => t = 0
  /\ at[t] = "sync" => pc[t] \notin {"sample", "publish"}

Gone(t) == at[t] = "pool" /\ flag[t] /\ pc[t] = IF t = 0 THEN "call" ELSE "main"

Fits(t, e) ==
  \/ Coming(t) /\ e = 0
  \/ InJob(t) /\ at[t] = "run" /\ Passed(pc[t]) = e
  \/ InJob(t) /\ at[t] = "sync" /\ flag[t] # sync.flag /\ Passed(pc[t]) = e
  \/ InJob(t) /\ at[t] = "sync" /\ flag[t] = sync.flag /\ Passed(pc[t]) = e + 1
  \/ Gone(t) /\ e = 7

Allocating(t) == Coming(t) \/ Gone(t) \/ (InJob(t) /\ at[t] = "run")

InStep == \E e \in 0 .. 7 : \A t \in Members : Fits(t, e)

Working ==
  /\ Prepared
  /\ \A t \in Threads \ Members : Coming(t) \/ Gone(t)
  /\ func.job = "alloc" => \A t \in Members : Allocating(t)
  /\ func.job # "alloc" => InStep
  /\ sync.hits = num_threads - Cardinality(SyncPending)

Phase ==
  \/ pool.flag = FALSE /\ Idle
  \/ pool.flag = TRUE /\ done = TRUE /\ Ending
  \/ pool.flag = TRUE /\ done = FALSE /\ Working

CountsPool == pool.hits = NumThreads - Cardinality(PoolPending)

(* One thread samples, and one at most publishes its overflow buffer.      *)
Alone ==
  /\ \A t \in Threads : At(t, "sample") => sync.taken
  /\ \A t, u \in Threads : At(t, "sample") /\ At(u, "sample") => t = u
  /\ \A t \in Threads : At(t, "publish") => full = {t}

IInv == TypeOK /\ CountsPool /\ Phase /\ Alone

-----------------------------------------------------------------------------
(* The invariant implies NoConflict.                                       *)

LEMMA Tails ==
  /\ \A x, y : Tail(<< x, y >>) = << y >>
  /\ \A x, y, z : Tail(<< x, y, z >>) = << y, z >>
  /\ \A x, y, z, w : Tail(<< x, y, z, w >>) = << y, z, w >>
OBVIOUS

LEMMA Conflicts ==
  /\ \A k, l, f, g : f # g => ~Conflict(<< k, f >>, << l, g >>)
  /\ \A k, l, f, g, x : /\ ~Conflict(<< k, f >>, << l, g, x >>)
                       /\ ~Conflict(<< l, g, x >>, << k, f >>)
  /\ \A k, l, f, g, x, y : /\ ~Conflict(<< k, f >>, << l, g, x, y >>)
                          /\ ~Conflict(<< l, g, x, y >>, << k, f >>)
  /\ \A k, l, f, g, x, y : f # g \/ x # y => ~Conflict(<< k, f, x >>, << l, g, y >>)
  /\ \A k, l, f, g, x, y, z : /\ ~Conflict(<< k, f, x >>, << l, g, y, z >>)
                             /\ ~Conflict(<< l, g, y, z >>, << k, f, x >>)
  /\ \A k, l, f, g, x, y, z, w :
       f # g \/ x # y \/ z # w => ~Conflict(<< k, f, x, z >>, << l, g, y, w >>)
  /\ \A f, g : /\ ~Conflict(<< "r", f >>, << "r", g >>)
              /\ ~Conflict(<< "a", f >>, << "a", g >>)
  /\ \A f, g, x, y : /\ ~Conflict(<< "r", f, x >>, << "r", g, y >>)
                    /\ ~Conflict(<< "a", f, x >>, << "a", g, y >>)
BY Tails DEF Conflict

(* What a thread accesses of the data at each stage.                       *)

LEMMA Accessing ==
  ASSUME NEW t \in Threads, NEW a \in JobAccess(t)
  PROVE  at[t] = "run" /\ pc[t] \notin {"single", "return"}
BY DEF JobAccess

LEMMA AllocationAccess ==
  ASSUME NEW t \in Threads, NEW a \in JobAccess(t), pc[t] = "alloc"
  PROVE  a = << "w", "local", t >>
BY DEF JobAccess

LEMMA SamplingAccess ==
  ASSUME NEW t \in Threads, NEW a \in JobAccess(t), pc[t] \in {"register", "sample"}
  PROVE  \/ a = << "w", "local", t >>
         \/ pc[t] = "sample" /\ a \in {<< "w", "classifier" >>, << "w", "num_buckets" >>}
BY DEF JobAccess, Each

LEMMA ClassificationAccess ==
  ASSUME NEW t \in Threads, NEW a \in JobAccess(t), pc[t] \in {"take", "classify"}
  PROVE  \/ a \in {<< "r", "num_buckets" >>, << "r", "classifier" >>, << "a", "bucket_start" >>}
         \/ a = << "w", "first_empty_block", t >>
         \/ \E v : a = << "w", "buffers", t, v >>
BY DEF JobAccess, Each

LEMMA MovementAccess ==
  ASSUME NEW t \in Threads, NEW a \in JobAccess(t), pc[t] \in {"move"}
  PROVE  \/ a = << "r", "bucket_start" >>
         \/ a = << "w", "bucket_pointers", t >>
         \/ \E v : a = << "r", "first_empty_block", v >>
         \/ \E v : a = << "r", "local", v >>
BY DEF JobAccess, Each

LEMMA PermutationAccess ==
  ASSUME NEW t \in Threads, NEW a \in JobAccess(t), pc[t] \in {"permute", "publish"}
  PROVE  \/ a \in {<< "r", "classifier" >>, << "r", "bucket_start" >>}
         \/ a \in {<< "w", "swap", t >>, << "w", "overflow block", t >>}
         \/ \E v : a = << "a", "bucket_pointers", v >>
         \/ pc[t] = "publish" /\ a = << "w", "overflow" >>
BY DEF JobAccess, Each

LEMMA SavingAccess ==
  ASSUME NEW t \in Threads, NEW a \in JobAccess(t), pc[t] \in {"save"}
  PROVE  \/ a \in {<< "r", "overflow" >>, << "r", "bucket_start" >>}
         \/ a = << "w", "swap", t >>
         \/ \E v : a = << "r", "bucket_pointers", v >>
BY DEF JobAccess, Each

LEMMA WritingAccess ==
  ASSUME NEW t \in Threads, NEW a \in JobAccess(t), pc[t] \in {"write"}
  PROVE  \/ a = << "r", "bucket_start" >>
         \/ a = << "w", "swap", t >>
         \/ \E v : a = << "r", "bucket_pointers", v >>
         \/ \E v : a = << "r", "local", v >>
         \/ \E v : a = << "w", "buffers", v, t >>
         \/ t = last /\ a = << "w", "overflow block", overflow_[t] >>
BY DEF JobAccess, Each

ResetFields == {"bucket_start", "classifier", "overflow", "scheduler"}

LEMMA ResettingAccess ==
  ASSUME NEW t \in Threads, NEW a \in JobAccess(t), pc[t] \in {"clean", "reset"}
  PROVE  \/ a = << "w", "bucket_size", t >>
         \/ pc[t] = "reset" /\ \E m : \E f \in ResetFields : a = << m, f >>
         \/ pc[t] = "reset" /\ \E v : a = << "w", "big_tasks", v >>
         \/ pc[t] = "reset" /\ \E v : a = << "w", "seq_task_queue", v >>
BY DEF JobAccess, Each, ResetFields

LEMMA TasksAccess ==
  ASSUME NEW t \in Threads, NEW a \in JobAccess(t), pc[t] \in {"tasks"}
  PROVE  \/ a = << "a", "scheduler" >>
         \/ a = << "r", "big_tasks", t >>
         \/ a = << "w", "seq_task_queue", t >>
BY DEF JobAccess, Each

LEMMA SameStage ==
  ASSUME NEW p \in Stages("sort"), NEW q \in Stages("sort"), Passed(p) = Passed(q)
  PROVE  \/ p \in {"register", "single", "sample"} /\ q \in {"register", "single", "sample"}
         \/ p \in {"take", "classify"} /\ q \in {"take", "classify"}
         \/ p \in {"move"} /\ q \in {"move"}
         \/ p \in {"permute", "publish"} /\ q \in {"permute", "publish"}
         \/ p \in {"save"} /\ q \in {"save"}
         \/ p \in {"write"} /\ q \in {"write"}
         \/ p \in {"clean", "reset"} /\ q \in {"clean", "reset"}
         \/ p \in {"tasks", "return"} /\ q \in {"tasks", "return"}
BY DEF Stages, Passed

(* Two members of a team that have passed the same barriers do not get in  *)
(* each other's way.                                                       *)
LEMMA StageConflicts ==
  ASSUME IInv, NEW t \in Threads, NEW u \in Threads, t # u,
         pc[t] \in Stages("sort"), pc[u] \in Stages("sort"),
         Passed(pc[t]) = Passed(pc[u]),
         pc[t] = "reset" => t = 0, pc[u] = "reset" => u = 0,
         NEW a \in JobAccess(t), NEW b \in JobAccess(u)
  PROVE  ~Conflict(a, b)
<1>1. at[t] = "run" /\ at[u] = "run" /\ pc[t] \notin {"single", "return"}
      /\ pc[u] \notin {"single", "return"}
  BY Accessing
<1>2. CASE pc[t] \in {"register", "single", "sample"} /\ pc[u] \in {"register", "single", "sample"}
  <2>1. ~(pc[t] = "sample" /\ pc[u] = "sample")
    BY <1>1 DEF IInv, Alone, At
  <2>2. \/ a = << "w", "local", t >>
        \/ pc[t] = "sample" /\ a \in {<< "w", "classifier" >>, << "w", "num_buckets" >>}
    BY <1>1, <1>2, SamplingAccess
  <2>3. \/ b = << "w", "local", u >>
        \/ pc[u] = "sample" /\ b \in {<< "w", "classifier" >>, << "w", "num_buckets" >>}
    BY <1>1, <1>2, SamplingAccess
  <2> QED
    BY <2>1, <2>2, <2>3, Conflicts
<1>3. CASE pc[t] \in {"take", "classify"} /\ pc[u] \in {"take", "classify"}
  <2>1. \/ a \in {<< "r", "num_buckets" >>, << "r", "classifier" >>, << "a", "bucket_start" >>}
        \/ a = << "w", "first_empty_block", t >>
        \/ \E v : a = << "w", "buffers", t, v >>
    BY <1>1, <1>3, ClassificationAccess
  <2>2. \/ b \in {<< "r", "num_buckets" >>, << "r", "classifier" >>, << "a", "bucket_start" >>}
        \/ b = << "w", "first_empty_block", u >>
        \/ \E v : b = << "w", "buffers", u, v >>
    BY <1>1, <1>3, ClassificationAccess
  <2> QED
    BY <2>1, <2>2, Conflicts
<1>4. CASE pc[t] \in {"move"} /\ pc[u] \in {"move"}
  <2>1. \/ a = << "r", "bucket_start" >>
        \/ a = << "w", "bucket_pointers", t >>
        \/ \E v : a = << "r", "first_empty_block", v >>
        \/ \E v : a = << "r", "local", v >>
    BY <1>1, <1>4, MovementAccess
  <2>2. \/ b = << "r", "bucket_start" >>
        \/ b = << "w", "bucket_pointers", u >>
        \/ \E v : b = << "r", "first_empty_block", v >>
        \/ \E v : b = << "r", "local", v >>
    BY <1>1, <1>4, MovementAccess
  <2> QED
    BY <2>1, <2>2, Conflicts
<1>5. CASE pc[t] \in {"permute", "publish"} /\ pc[u] \in {"permute", "publish"}
  <2>1. ~(pc[t] = "publish" /\ pc[u] = "publish")
    BY <1>1 DEF IInv, Alone, At
  <2>2. \/ a \in {<< "r", "classifier" >>, << "r", "bucket_start" >>}
        \/ a \in {<< "w", "swap", t >>, << "w", "overflow block", t >>}
        \/ \E v : a = << "a", "bucket_pointers", v >>
        \/ pc[t] = "publish" /\ a = << "w", "overflow" >>
    BY <1>1, <1>5, PermutationAccess
  <2>3. \/ b \in {<< "r", "classifier" >>, << "r", "bucket_start" >>}
        \/ b \in {<< "w", "swap", u >>, << "w", "overflow block", u >>}
        \/ \E v : b = << "a", "bucket_pointers", v >>
        \/ pc[u] = "publish" /\ b = << "w", "overflow" >>
    BY <1>1, <1>5, PermutationAccess
  <2> QED
    BY <2>1, <2>2, <2>3, Conflicts
<1>6. CASE pc[t] \in {"save"} /\ pc[u] \in {"save"}
  <2>1. \/ a \in {<< "r", "overflow" >>, << "r", "bucket_start" >>}
        \/ a = << "w", "swap", t >>
        \/ \E v : a = << "r", "bucket_pointers", v >>
    BY <1>1, <1>6, SavingAccess
  <2>2. \/ b \in {<< "r", "overflow" >>, << "r", "bucket_start" >>}
        \/ b = << "w", "swap", u >>
        \/ \E v : b = << "r", "bucket_pointers", v >>
    BY <1>1, <1>6, SavingAccess
  <2> QED
    BY <2>1, <2>2, Conflicts
<1>7. CASE pc[t] \in {"write"} /\ pc[u] \in {"write"}
  <2>1. \/ a = << "r", "bucket_start" >>
        \/ a = << "w", "swap", t >>
        \/ \E v : a = << "r", "bucket_pointers", v >>
        \/ \E v : a = << "r", "local", v >>
        \/ \E v : a = << "w", "buffers", v, t >>
        \/ t = last /\ a = << "w", "overflow block", overflow_[t] >>
    BY <1>1, <1>7, WritingAccess
  <2>2. \/ b = << "r", "bucket_start" >>
        \/ b = << "w", "swap", u >>
        \/ \E v : b = << "r", "bucket_pointers", v >>
        \/ \E v : b = << "r", "local", v >>
        \/ \E v : b = << "w", "buffers", v, u >>
        \/ u = last /\ b = << "w", "overflow block", overflow_[u] >>
    BY <1>1, <1>7, WritingAccess
  <2>3. CASE a = << "r", "bucket_start" >>
    BY <2>2, <2>3, Conflicts
  <2>4. CASE a = << "w", "swap", t >>
    BY <2>2, <2>4, Conflicts
  <2>5. CASE \E v : a = << "r", "bucket_pointers", v >>
    BY <2>2, <2>5, Conflicts
  <2>6. CASE \E v : a = << "r", "local", v >>
    BY <2>2, <2>6, Conflicts
  <2>7. CASE \E v : a = << "w", "buffers", v, t >>
    BY <2>2, <2>7, Conflicts
  <2>8. CASE t = last /\ a = << "w", "overflow block", overflow_[t] >>
    BY <2>2, <2>8, Conflicts
  <2> QED
    BY <2>1, <2>3, <2>4, <2>5, <2>6, <2>7, <2>8
<1>8. CASE pc[t] \in {"clean", "reset"} /\ pc[u] \in {"clean", "reset"}
  <2>1. \/ a = << "w", "bucket_size", t >>
        \/ pc[t] = "reset" /\ \E m : \E f \in ResetFields : a = << m, f >>
        \/ pc[t] = "reset" /\ \E v : a = << "w", "big_tasks", v >>
        \/ pc[t] = "reset" /\ \E v : a = << "w", "seq_task_queue", v >>
    BY <1>1, <1>8, ResettingAccess
  <2>2. \/ b = << "w", "bucket_size", u >>
        \/ pc[u] = "reset" /\ \E m : \E f \in ResetFields : b = << m, f >>
        \/ pc[u] = "reset" /\ \E v : b = << "w", "big_tasks", v >>
        \/ pc[u] = "reset" /\ \E v : b = << "w", "seq_task_queue", v >>
    BY <1>1, <1>8, ResettingAccess
  <2> QED
    BY <2>1, <2>2, Conflicts
<1>9. CASE pc[t] \in {"tasks", "return"} /\ pc[u] \in {"tasks", "return"}
  <2>1. \/ a = << "a", "scheduler" >>
        \/ a = << "r", "big_tasks", t >>
        \/ a = << "w", "seq_task_queue", t >>
    BY <1>1, <1>9, TasksAccess
  <2>2. \/ b = << "a", "scheduler" >>
        \/ b = << "r", "big_tasks", u >>
        \/ b = << "w", "seq_task_queue", u >>
    BY <1>1, <1>9, TasksAccess
  <2> QED
    BY <2>1, <2>2, Conflicts
<1> QED
  BY <1>2, <1>3, <1>4, <1>5, <1>6, <1>7, <1>8, <1>9, SameStage

(* Between calls only thread 0 accesses anything.                          *)
LEMMA IdleAccess ==
  ASSUME IInv, Idle, NEW t \in Threads \ {0}
  PROVE  PoolAccess(t) = {} /\ JobAccess(t) = {}
<1>1. Waiting(t)
  BY DEF Idle
<1>2. \/ at[t] = "pool"
      \/ at[t] = "run" /\ pc[t] = "main"
  BY <1>1 DEF Waiting
<1>3. PoolAccess(t) = {}
  <2>1. CASE at[t] = "pool"
    BY <2>1 DEF PoolAccess
  <2>2. CASE at[t] = "run" /\ pc[t] = "main"
    BY <2>2 DEF PoolAccess
  <2> QED
    BY <1>2, <2>1, <2>2
<1>4. JobAccess(t) = {}
  BY <1>2 DEF JobAccess
<1> QED
  BY <1>3, <1>4

(* During a call, and at the end, the fields of the pool are only read.    *)
LEMMA PoolAccessForms ==
  ASSUME NEW t \in Threads, NEW a \in PoolAccess(t),
         at[t] = "pool" \/ pc[t] \notin {"set_up", "call"}
  PROVE  a \in {<< "r", "sync" >>, << "r", "func" >>, << "r", "done" >>, << "r", "num_threads" >>}
BY DEF PoolAccess

(* The fields that a job accesses are others.                              *)
LEMMA OtherFields ==
  ASSUME NEW b \in {<< "r", "sync" >>, << "r", "func" >>,
                    << "r", "done" >>, << "r", "num_threads" >>}
  PROVE  /\ \A m, f : f \notin {"sync", "func", "done", "num_threads"} =>
                     ~Conflict(<< m, f >>, b) /\ ~Conflict(b, << m, f >>)
         /\ \A m, f, x : ~Conflict(<< m, f, x >>, b) /\ ~Conflict(b, << m, f, x >>)
         /\ \A m, f, x, y : ~Conflict(<< m, f, x, y >>, b) /\ ~Conflict(b, << m, f, x, y >>)
BY Conflicts

LEMMA JobFields ==
  ASSUME NEW t \in Threads, NEW a \in JobAccess(t),
         NEW b \in {<< "r", "sync" >>, << "r", "func" >>,
                    << "r", "done" >>, << "r", "num_threads" >>}
  PROVE  ~Conflict(a, b) /\ ~Conflict(b, a)
<1>1. CASE pc[t] = "alloc"
  BY <1>1, AllocationAccess, OtherFields
<1>2. CASE pc[t] \in {"register", "sample"}
  BY <1>2, SamplingAccess, OtherFields
<1>3. CASE pc[t] \in {"take", "classify"}
  BY <1>3, ClassificationAccess, OtherFields
<1>4. CASE pc[t] \in {"move"}
  BY <1>4, MovementAccess, OtherFields
<1>5. CASE pc[t] \in {"permute", "publish"}
  <2>1. CASE a \in {<< "r", "classifier" >>, << "r", "bucket_start" >>}
    BY <2>1, OtherFields
  <2>2. CASE a \in {<< "w", "swap", t >>, << "w", "overflow block", t >>}
    BY <2>2, OtherFields
  <2>3. CASE \E v : a = << "a", "bucket_pointers", v >>
    BY <2>3, OtherFields
  <2>4. CASE a = << "w", "overflow" >>
    BY <2>4, OtherFields
  <2> QED
    BY <1>5, <2>1, <2>2, <2>3, <2>4, PermutationAccess
<1>6. CASE pc[t] \in {"save"}
  BY <1>6, SavingAccess, OtherFields
<1>7. CASE pc[t] \in {"write"}
  <2>1. CASE a = << "r", "bucket_start" >> \/ a = << "w", "swap", t >>
    BY <2>1, OtherFields
  <2>2. CASE \E m, f, v : a = << m, f, v >>
    BY <2>2, OtherFields
  <2>3. CASE \E v : a = << "w", "buffers", v, t >>
    BY <2>3, OtherFields
  <2> QED
    BY <1>7, <2>1, <2>2, <2>3, WritingAccess
<1>8. CASE pc[t] \in {"clean", "reset"}
  BY <1>8, ResettingAccess, OtherFields DEF ResetFields
<1>9. CASE pc[t] \in {"tasks"}
  BY <1>9, TasksAccess, OtherFields
<1> QED
  BY <1>1, <1>2, <1>3, <1>4, <1>5, <1>6, <1>7, <1>8, <1>9 DEF JobAccess

LEMMA MembersAreThreads ==
  ASSUME TypeOK
  PROVE  Members \subseteq Threads /\ 0 \in Threads
BY ThreadPoolAssumption DEF TypeOK, Members, Threads

(* The members that run are at the same stage.                             *)
LEMMA SameJob ==
  ASSUME IInv, pool.flag = TRUE, done = FALSE,
         NEW t \in Threads, NEW u \in Threads, t # u,
         NEW a \in JobAccess(t), NEW b \in JobAccess(u)
  PROVE  ~Conflict(a, b)
<1>1. Working
  BY DEF IInv, Phase
<1>2. at[t] = "run" /\ at[u] = "run" /\ pc[t] # "test" /\ pc[u] # "test"
  BY Accessing DEF JobAccess
<1>3. t \in Members /\ u \in Members
  BY <1>1, <1>2 DEF Working, Coming, Gone
<1>4. CASE func.job = "alloc"
  <2>1. pc[t] = "alloc" /\ pc[u] = "alloc"
    BY <1>1, <1>2, <1>3, <1>4, Accessing DEF Working, Allocating, Coming, Gone, InJob, Stages
  <2> QED
    BY <2>1, AllocationAccess, Conflicts
<1>5. CASE func.job # "alloc"
  <2>1. PICK e \in 0 .. 7 : \A v \in Members : Fits(v, e)
    BY <1>1, <1>5 DEF Working, InStep
  <2>2. InJob(t) /\ InJob(u) /\ Passed(pc[t]) = e /\ Passed(pc[u]) = e
    BY <1>2, <1>3, <2>1 DEF Fits, Coming, Gone
  <2>3. /\ pc[t] \in Stages("sort") /\ pc[u] \in Stages("sort")
        /\ pc[t] = "reset" => t = 0
        /\ pc[u] = "reset" => u = 0
    BY <1>5, <2>2 DEF InJob, Stages
  <2> QED
    BY <2>2, <2>3, StageConflicts
<1> QED
  BY <1>4, <1>5

LEMMA InvariantImpliesNoConflict == IInv => NoConflict
<1> SUFFICES ASSUME IInv,
                    NEW t \in Threads, NEW u \in Threads, t # u,
                    NEW a \in PoolAccess(t) \cup JobAccess(t),
                    NEW b \in PoolAccess(u) \cup JobAccess(u)
             PROVE  ~Conflict(a, b)
  BY DEF NoConflict
<1>1. CASE pool.flag = FALSE
  <2>1. Idle
    BY <1>1 DEF IInv, Phase
  <2>2. t = 0 /\ u = 0
    BY <2>1, IdleAccess
  <2> QED
    BY <2>2
<1>2. CASE pool.flag = TRUE
  <2>1. ASSUME NEW v \in Threads
        PROVE  at[v] = "pool" \/ pc[v] \notin {"set_up", "call"}
    <3>1. CASE Ending
      BY <3>1 DEF Ending, Ends
    <3>2. CASE Working
      <4>1. Coming(v) \/ InJob(v) \/ Gone(v)
        BY <3>2 DEF Working, Allocating, InStep, Fits
      <4> QED
        BY <3>2, <4>1, ParallelSorterAssumption
        DEF Coming, InJob, Gone, Stages, Working, Prepared, Jobs
    <3> QED
      BY <1>2, <3>1, <3>2 DEF IInv, Phase
  <2>2. CASE a \in PoolAccess(t) /\ b \in PoolAccess(u)
    <3>1. (\E f : a = << "r", f >>) /\ (\E f : b = << "r", f >>)
      BY <2>1, <2>2, PoolAccessForms
    <3> QED
      BY <3>1, Conflicts
  <2>3. CASE a \in PoolAccess(t) /\ b \in JobAccess(u)
    BY <2>1, <2>3, PoolAccessForms, JobFields
  <2>4. CASE a \in JobAccess(t) /\ b \in PoolAccess(u)
    BY <2>1, <2>4, PoolAccessForms, JobFields
  <2>5. CASE a \in JobAccess(t) /\ b \in JobAccess(u)
    <3>1. CASE done = FALSE
      BY <1>2, <2>5, <3>1, SameJob
    <3>2. CASE Ending
      <4>1. at[t] = "pool" \/ pc[t] \in {"ended", "join", "test"}
        BY <3>2 DEF Ending, Ends
      <4>2. JobAccess(t) = {}
        BY <4>1 DEF JobAccess
      <4> QED
        BY <2>5, <4>2
    <3> QED
      BY <1>2, <3>1, <3>2 DEF IInv, Phase
  <2> QED
    BY <2>2, <2>3, <2>4, <2>5
<1> QED
  BY <1>1, <1>2 DEF IInv, TypeOK, Phase

-----------------------------------------------------------------------------
(* Type correctness.                                                       *)

LEMMA Subsets ==
  ASSUME NEW n \in Nat, NEW S \in SUBSET (0 .. n - 1)
  PROVE  /\ IsFiniteSet(S)
         /\ Cardinality(S) \in 0 .. n
         /\ Cardinality(S) = n => S = 0 .. n - 1
<1>1. IsFiniteSet(0 .. n - 1) /\ Cardinality(0 .. n - 1) = n
  BY FS_Interval
<1>2. /\ IsFiniteSet(S) /\ Cardinality(S) \in Nat /\ Cardinality(S) <= n
      /\ Cardinality(S) = n => S = 0 .. n - 1
  BY <1>1, FS_Subset, FS_CardinalityType
<1> QED
  BY <1>2

LEMMA OneMore ==
  ASSUME NEW n \in Nat, NEW S \in SUBSET (0 .. n - 1), NEW x, x \notin S
  PROVE  Cardinality(S \cup {x}) = Cardinality(S) + 1
BY Subsets, FS_AddElement

LEMMA CallsTyped ==
  ASSUME TypeOK, NEW c \in 1 .. Len(life.calls)
  PROVE  /\ life.calls[c].job \in Jobs /\ life.calls[c].n \in Nat \ {0}
         /\ TeamSize(c) \in 1 .. NumThreads
         /\ life.calls[c].job # "alloc" => TeamSize(c) > 1
<1>1. /\ life.calls \in Seq([job : DOMAIN First, n : Nat \ {0}])
      /\ \A i \in DOMAIN life.calls :
            life.calls[i].job # "alloc" => life.calls[i].n > 1 /\ NumThreads > 1
  BY ParallelSorterAssumption DEF TypeOK
<1>2. c \in DOMAIN life.calls /\ life.calls[c] \in [job : DOMAIN First, n : Nat \ {0}]
  BY <1>1, LenProperties
<1>3. DOMAIN First = Jobs
  BY ParallelSorterAssumption DEF Jobs
<1>4. life.calls[c].job \in Jobs /\ life.calls[c].n \in Nat \ {0}
  BY <1>2, <1>3
<1> QED
  BY <1>1, <1>2, <1>4, ThreadPoolAssumption DEF TeamSize, Available, TypeOK

LEMMA BarrierFields ==
  ASSUME NEW M \in SUBSET (1 .. NumThreads), NEW b \in Barriers(M)
  PROVE  b.size \in M /\ b.hits \in 1 .. NumThreads /\ b.flag \in BOOLEAN /\ b.taken \in BOOLEAN
BY DEF Barriers

LEMMA TakenTyped ==
  ASSUME NEW M \in SUBSET (1 .. NumThreads), NEW b \in Barriers(M)
  PROVE  LET c == [b EXCEPT !.taken = TRUE] IN
         c \in Barriers(M) /\ c.size = b.size /\ c.hits = b.hits /\ c.flag = b.flag /\ c.taken
BY DEF Barriers

LEMMA SetTyped ==
  ASSUME NEW M \in SUBSET (1 .. NumThreads), NEW b \in Barriers(M), NEW n \in M
  PROVE  LET c == SetNumThreads(b, n) IN
         c \in Barriers(M) /\ c.size = n /\ c.hits = n /\ c.flag = b.flag /\ c.taken = b.taken
BY DEF Barriers, SetNumThreads

LEMMA HitTyped ==
  ASSUME NumThreads \in Nat, NEW M \in SUBSET (1 .. NumThreads), NEW b \in Barriers(M)
  PROVE  /\ Hit(b) \in Barriers(M) /\ Hit(b).size = b.size
         /\ b.hits = 1 => Hit(b).hits = b.size /\ Hit(b).flag = ~b.flag /\ Hit(b).taken = FALSE
         /\ b.hits # 1 => Hit(b).hits = b.hits - 1 /\ Hit(b).flag = b.flag /\ Hit(b).taken = b.taken
<1>1. /\ b \in [size : M, hits : 1 .. NumThreads, flag : BOOLEAN, taken : BOOLEAN]
      /\ b.size \in 1 .. NumThreads /\ b.hits \in 1 .. NumThreads
  BY DEF Barriers
<1>2. CASE b.hits = 1
  <2>1. Hit(b) = [b EXCEPT !.hits = b.size, !.flag = ~@, !.taken = FALSE]
    BY <1>2 DEF Hit
  <2> QED
    BY <1>1, <1>2, <2>1 DEF Barriers
<1>3. CASE b.hits # 1
  <2>1. Hit(b) = [b EXCEPT !.hits = @ - 1]
    BY <1>3 DEF Hit
  <2>2. b.hits - 1 \in 1 .. NumThreads
    BY <1>1, <1>3
  <2> QED
    BY <1>1, <1>3, <2>1, <2>2 DEF Barriers
<1> QED
  BY <1>2, <1>3

LEMMA BothBarriers ==
  ASSUME TypeOK
  PROVE  /\ NumThreads \in Nat /\ {NumThreads} \in SUBSET (1 .. NumThreads)
         /\ (1 .. NumThreads) \in SUBSET (1 .. NumThreads)
         /\ pool \in Barriers({NumThreads}) /\ sync \in Barriers(1 .. NumThreads)
BY ThreadPoolAssumption DEF TypeOK

LEMMA HitPoolTyped ==
  ASSUME TypeOK, NEW t \in Threads, NEW p \in Places, HitPool(t, p)
  PROVE  /\ pool' \in Barriers({NumThreads})
         /\ flag' \in [Threads -> BOOLEAN]
         /\ at' \in [Threads -> {"run", "pool", "sync"}]
         /\ pc' \in [Threads -> Places]
<1>1. pool' \in Barriers({NumThreads}) /\ pool.flag \in BOOLEAN
  BY BothBarriers, HitTyped, BarrierFields DEF HitPool
<1> QED
  BY <1>1 DEF HitPool, TypeOK, Goto, Places, Stages

LEMMA HitSyncTyped ==
  ASSUME TypeOK, NEW t \in Threads, NEW p \in Places, HitSync(t, p)
  PROVE  /\ sync' \in Barriers(1 .. NumThreads)
         /\ flag' \in [Threads -> BOOLEAN]
         /\ at' \in [Threads -> {"run", "pool", "sync"}]
         /\ pc' \in [Threads -> Places]
<1>1. sync' \in Barriers(1 .. NumThreads) /\ sync.flag \in BOOLEAN
  BY BothBarriers, HitTyped, BarrierFields DEF HitSync
<1> QED
  BY <1>1 DEF HitSync, TypeOK, Goto, Places, Stages

LEMMA JobTyped ==
  ASSUME TypeOK, NEW t \in Threads, JobStep(t)
  PROVE  TypeOK'
<1>1. SameCall
  BY DEF JobStep, Alloc, Register, Single, Sample, Take, Classify, Move, Permute, Publish, Save,
         Write, Clean, Reset, ProcessTasks
<1>2. CASE \E p \in Places : Step(t, p)
  BY <1>1, <1>2 DEF TypeOK, Step, SameCall, Goto, Places, Stages
<1>3. CASE \E p \in Places : HitSync(t, p)
  BY <1>1, <1>3, HitSyncTyped DEF Places, Stages, TypeOK, SameCall
<1>4. CASE /\ sync' = [sync EXCEPT !.taken = TRUE]
           /\ Goto(t, "sample") /\ UNCHANGED << at, flag >>
  <2>1. pc' \in [Threads -> Places]
    BY <1>4 DEF TypeOK, Goto, Places, Stages
  <2>2. sync' \in Barriers(1 .. NumThreads)
    BY <1>4, BothBarriers, TakenTyped
  <2> QED
    BY <1>1, <1>4, <2>1, <2>2 DEF TypeOK, SameCall
<1> QED
  BY <1>2, <1>3, <1>4
  DEF Places, Stages, JobStep, Alloc, Register, Single, Sample, Take, Classify, Move, Permute,
      Publish, Save, Write, Clean, Reset, ProcessTasks

LEMMA JobIsKnown == IInv /\ pool.flag = TRUE /\ done = FALSE => func.job \in Jobs
BY DEF IInv, Phase, Working, Prepared

LEMMA TestTyped ==
  ASSUME IInv, NEW t \in Threads, Test(t)
  PROVE  TypeOK'
<1> USE DEF IInv
<1>1. CASE UNCHANGED << at, pool, flag, ctx, ran >> /\ Goto(t, "ended")
  BY <1>1 DEF TypeOK, Test, Goto, Places, Stages
<1>2. CASE ~done /\ Start(t, func.call, func.job, num_threads) /\ Goto(t, First[func.job])
           /\ UNCHANGED << at, pool, flag >>
  <2>1. pool.flag = TRUE
    BY DEF Test, Phase, Idle, Waiting, Caller, At, Stages
  <2>2. func.job \in Jobs /\ First[func.job] \in Places
    BY <1>2, <2>1, JobIsKnown, ParallelSorterAssumption DEF Places, Stages, Jobs, TypeOK
  <2> QED
    BY <1>2, <2>2, ThreadPoolAssumption DEF TypeOK, Test, Goto, Places, Stages, Start
<1>3. CASE HitPool(t, "main") /\ UNCHANGED << ctx, ran >>
  BY <1>3, HitPoolTyped DEF Places, Stages, TypeOK, Test
<1> QED
  BY <1>1, <1>2, <1>3 DEF Test

LEMMA CallPoolTyped ==
  ASSUME TypeOK, CallPool, 0 \in Threads
  PROVE  TypeOK'
<1>1. call + 1 \in 1 .. Len(life.calls) /\ call' = call + 1 /\ call' \in 0 .. Len(life.calls)
  <2>1. Len(life.calls) \in Nat
    BY ParallelSorterAssumption DEF TypeOK
  <2> QED
    BY <2>1 DEF CallPool, TypeOK
<1>2. life.calls[call + 1].job \in Jobs /\ First[life.calls[call + 1].job] \in Places
  BY <1>1, CallsTyped, ParallelSorterAssumption DEF Places, Stages, Jobs
<1>3. CASE Goto(0, "set_up") /\ UNCHANGED << ctx, ran >>
  BY <1>1, <1>3 DEF TypeOK, CallPool, Goto, Places, Stages
<1>4. CASE /\ Start(0, call + 1, life.calls[call + 1].job, 1)
           /\ Goto(0, First[life.calls[call + 1].job])
  BY <1>1, <1>2, <1>4 DEF TypeOK, CallPool, Goto, Places, Stages, Start
<1> QED
  BY <1>3, <1>4 DEF CallPool

(* Where thread 0 is when it sets up a call.                               *)
LEMMA SettingUp ==
  ASSUME IInv, At(0, "set_up")
  PROVE  /\ pool.flag = FALSE /\ Idle /\ done = FALSE
         /\ call \in 1 .. Len(life.calls)
         /\ TeamSize(call) \in 2 .. NumThreads
         /\ life.calls[call].job \in Jobs /\ First[life.calls[call].job] \in Places
<1>1. pool.flag = FALSE /\ Idle
  <2>1. 0 \in Threads
    BY ThreadPoolAssumption DEF Threads
  <2>2. ~Ending
    BY <2>1 DEF Ending, Ends, At
  <2>3. ~Working
    <3>1. ~Coming(0) /\ ~Gone(0)
      BY DEF Coming, Gone, At
    <3>2. ~InJob(0)
      BY DEF InJob, Stages, At
    <3> QED
      BY <2>1, <3>1, <3>2 DEF Working, Allocating, InStep, Fits
  <2> QED
    BY <2>2, <2>3 DEF IInv, Phase
<1>2. done = FALSE
  BY <1>1 DEF IInv, Idle, At, TypeOK
<1>3. call \in 1 .. Len(life.calls) /\ TeamSize(call) > 1
  <2>1. Len(life.calls) \in Nat
    BY ParallelSorterAssumption DEF TypeOK, IInv
  <2> QED
    BY <1>1, <2>1 DEF Idle, Caller, At, Stages, TypeOK, IInv
<1>4. /\ TeamSize(call) \in 1 .. NumThreads /\ life.calls[call].job \in Jobs
      /\ First[life.calls[call].job] \in Places
  BY <1>3, CallsTyped, ParallelSorterAssumption DEF Places, Stages, Jobs, IInv
<1> QED
  BY <1>1, <1>2, <1>3, <1>4, ThreadPoolAssumption

LEMMA SetUpTyped ==
  ASSUME IInv, SetUp
  PROVE  TypeOK'
<1> DEFINE j == life.calls[call].job
           n == TeamSize(call)
<1>1. /\ 0 \in Threads /\ call \in Nat /\ j \in Jobs /\ First[j] \in Places
      /\ n \in 2 .. NumThreads /\ NumThreads \in Nat
  BY SettingUp, ThreadPoolAssumption DEF SetUp, Threads
<1>2. /\ pool' \in Barriers({NumThreads})
      /\ flag' \in [Threads -> BOOLEAN]
      /\ at' \in [Threads -> {"run", "pool", "sync"}]
      /\ pc' \in [Threads -> Places]
  BY <1>1, HitPoolTyped DEF Places, Stages, SetUp, IInv
<1>3. /\ func' = [call |-> call, job |-> j] /\ num_threads' = n
      /\ sync' = SetNumThreads(sync, n)
      /\ ctx' = [ctx EXCEPT ![0] = [call |-> call, job |-> j, n |-> n]]
      /\ UNCHANGED << life, call, done >>
  BY DEF SetUp, Start
<1> HIDE DEF j, n
<1>4. func' \in [call : Nat, job : Jobs \cup {"none"}] /\ num_threads' \in 1 .. NumThreads
  BY <1>1, <1>3
<1>5. sync' \in Barriers(1 .. NumThreads)
  <2>1. n \in 1 .. NumThreads
    BY <1>1
  <2> QED
    BY <1>3, <2>1, BothBarriers, SetTyped DEF IInv
<1>6. ctx' \in [Threads -> [call : Nat, job : Jobs \cup {"none"}, n : Nat]]
  BY <1>1, <1>3 DEF TypeOK, IInv
<1> QED
  BY <1>1, <1>2, <1>3, <1>4, <1>5, <1>6 DEF TypeOK, IInv

LEMMA TypeStep ==
  ASSUME IInv, NEW t \in Threads, ThreadStep(t)
  PROVE  TypeOK'
<1> USE DEF IInv
<1>1. CASE Leave(t)
  BY <1>1 DEF TypeOK, Leave
<1>2. CASE EnterLoop(t)
  BY <1>2, HitPoolTyped DEF Places, Stages, TypeOK, EnterLoop
<1>3. CASE Test(t)
  BY <1>3, TestTyped
<1>4. CASE Return(t)
  <2>1. CASE Goto(t, "call") /\ UNCHANGED << at, pool, flag >>
    BY <1>4, <2>1 DEF TypeOK, Return, Goto, Places, Stages
  <2>2. CASE \E p \in Places : HitPool(t, p)
    <3>1. PICK p \in Places : HitPool(t, p)
      BY <2>2
    <3> QED
      BY <1>4, <3>1, HitPoolTyped DEF TypeOK, Return
  <2> QED
    BY <1>4, <2>1, <2>2 DEF Return, Places, Stages
<1>5. CASE t = 0 /\ CallPool
  BY <1>5, CallPoolTyped
<1>6. CASE t = 0 /\ SetUp
  BY <1>6, SetUpTyped
<1>7. CASE t = 0 /\ Finish
  BY <1>7, HitPoolTyped DEF Places, Stages, TypeOK, Finish
<1>8. CASE t = 0 /\ Join
  BY <1>8 DEF TypeOK, Join, Goto, Places, Stages
<1>9. CASE JobStep(t)
  BY <1>9, JobTyped
<1> QED
  BY <1>1, <1>2, <1>3, <1>4, <1>5, <1>6, <1>7, <1>8, <1>9 DEF ThreadStep, PoolStep

-----------------------------------------------------------------------------
(* The pool's barrier: it counts, and when it opens everybody is there.    *)

LEMMA PoolHit ==
  ASSUME TypeOK, CountsPool, NEW t \in Threads, NEW p, at[t] = "run", HitPool(t, p)
  PROVE  /\ CountsPool'
         /\ \/ pool'.flag = pool.flag
            \/ /\ pool'.flag = ~pool.flag
               /\ \A u \in Threads : at'[u] = "pool" /\ flag'[u] = pool.flag
<1> DEFINE P == PoolPending
<1>1. /\ P \in SUBSET (0 .. NumThreads - 1) /\ t \in (0 .. NumThreads - 1) \ P
      /\ NumThreads \in Nat
  BY BothBarriers DEF PoolPending, Threads
<1>2. /\ Cardinality(P) \in 0 .. NumThreads
      /\ P \cup {t} \in SUBSET (0 .. NumThreads - 1)
      /\ Cardinality(P \cup {t}) = Cardinality(P) + 1
      /\ Cardinality(P \cup {t}) = NumThreads => P \cup {t} = Threads
  <2> DEFINE Q == P \cup {t}
  <2> HIDE DEF P
  <2>1. Q \in SUBSET (0 .. NumThreads - 1)
    BY <1>1
  <2>2. Cardinality(P) \in 0 .. NumThreads
    BY ONLY <1>1, Subsets
  <2>4. Cardinality(Q) = Cardinality(P) + 1
    <3>1. t \notin P /\ P \in SUBSET (0 .. NumThreads - 1) /\ NumThreads \in Nat
      BY ONLY <1>1
    <3> QED
      BY ONLY <3>1, OneMore DEF Q
  <2> HIDE DEF Q
  <2>3. Cardinality(Q) = NumThreads => Q = 0 .. NumThreads - 1
    BY <1>1, <2>1, Subsets
  <2> QED
    BY <2>1, <2>2, <2>3, <2>4 DEF Q, Threads
<1>3. /\ pool.size = NumThreads /\ pool.hits \in 1 .. NumThreads /\ pool.flag \in BOOLEAN
      /\ pool' = Hit(pool)
      /\ flag' = [flag EXCEPT ![t] = pool.flag] /\ at' = [at EXCEPT ![t] = "pool"]
  BY BothBarriers, BarrierFields DEF HitPool
<1>4. \A u \in Threads : u # t => at'[u] = at[u] /\ flag'[u] = flag[u]
  BY <1>3 DEF TypeOK
<1>5. at'[t] = "pool" /\ flag'[t] = pool.flag
  BY <1>3 DEF TypeOK
<1>6. CASE pool.hits = 1
  <2>1. pool'.hits = NumThreads /\ pool'.flag = ~pool.flag
    BY <1>3, <1>6, BothBarriers, HitTyped
  <2>2. P \cup {t} = Threads
    BY <1>1, <1>2, <1>6 DEF CountsPool
  <2>3. \A u \in Threads : at'[u] = "pool" /\ flag'[u] = pool.flag
    BY <2>2, <1>4, <1>5 DEF PoolPending
  <2>4. PoolPending' = {}
    BY <2>1, <2>3, <1>3 DEF PoolPending
  <2> QED
    BY <1>1, <2>1, <2>3, <2>4, FS_EmptySet DEF CountsPool
<1>7. CASE pool.hits # 1
  <2>1. pool'.hits = pool.hits - 1 /\ pool'.flag = pool.flag
    BY <1>3, <1>7, BothBarriers, HitTyped
  <2>2. PoolPending' = P \cup {t}
    BY <2>1, <1>4, <1>5 DEF PoolPending
  <2> QED
    BY <1>1, <1>2, <1>3, <2>1, <2>2 DEF CountsPool
<1> QED
  BY <1>6, <1>7

(* The barrier of the jobs, in the same way.                               *)
LEMMA SyncHit ==
  ASSUME TypeOK, Working, NEW t \in Members, NEW p, at[t] = "run", HitSync(t, p),
         num_threads' = num_threads
  PROVE  /\ sync'.size = num_threads
         /\ (sync.hits = num_threads - Cardinality(SyncPending))'
         /\ \/ sync'.flag = sync.flag /\ sync'.taken = sync.taken
            \/ /\ sync'.flag = ~sync.flag /\ sync'.taken = FALSE
               /\ \A u \in Members \ {t} : at[u] = "sync" /\ flag[u] = sync.flag
<1> DEFINE P == SyncPending
<1>0. num_threads \in Nat /\ Members \subseteq Threads /\ NumThreads \in Nat
  BY MembersAreThreads, ThreadPoolAssumption DEF TypeOK
<1>1. /\ P \in SUBSET (0 .. num_threads - 1) /\ t \in (0 .. num_threads - 1) \ P
  BY DEF SyncPending, Members, Working, Coming, Gone
<1>2. /\ Cardinality(P) \in 0 .. num_threads
      /\ P \cup {t} \in SUBSET (0 .. num_threads - 1)
      /\ Cardinality(P \cup {t}) = Cardinality(P) + 1
      /\ Cardinality(P \cup {t}) = num_threads => P \cup {t} = Members
  <2> DEFINE Q == P \cup {t}
  <2> HIDE DEF P
  <2>1. Q \in SUBSET (0 .. num_threads - 1)
    BY <1>1
  <2>2. Cardinality(P) \in 0 .. num_threads
    BY ONLY <1>0, <1>1, Subsets
  <2>4. Cardinality(Q) = Cardinality(P) + 1
    <3>1. t \notin P /\ P \in SUBSET (0 .. num_threads - 1) /\ num_threads \in Nat
      BY ONLY <1>0, <1>1
    <3> QED
      BY ONLY <3>1, OneMore DEF Q
  <2> HIDE DEF Q
  <2>3. Cardinality(Q) = num_threads => Q = 0 .. num_threads - 1
    BY <1>0, <1>1, <2>1, Subsets
  <2> QED
    BY <2>1, <2>2, <2>3, <2>4 DEF Q, Members
<1>3. /\ sync.size = num_threads /\ sync.hits \in 1 .. NumThreads /\ sync.flag \in BOOLEAN
      /\ sync' = Hit(sync)
      /\ flag' = [flag EXCEPT ![t] = sync.flag] /\ at' = [at EXCEPT ![t] = "sync"]
      /\ sync.hits = num_threads - Cardinality(P)
  BY BothBarriers, BarrierFields DEF HitSync, Working, Prepared
<1>4. \A u \in Threads : u # t => at'[u] = at[u] /\ flag'[u] = flag[u]
  BY <1>3 DEF TypeOK
<1>5. at'[t] = "sync" /\ flag'[t] = sync.flag
  BY <1>0, <1>3 DEF TypeOK
<1>6. CASE sync.hits = 1
  <2>1. /\ sync'.hits = num_threads /\ sync'.flag = ~sync.flag /\ sync'.taken = FALSE
        /\ sync'.size = num_threads
    BY <1>3, <1>6, BothBarriers, HitTyped
  <2>2. P \cup {t} = Members
    BY <1>0, <1>1, <1>2, <1>3, <1>6
  <2>3. \A u \in Members \ {t} : at[u] = "sync" /\ flag[u] = sync.flag
    BY <2>2 DEF SyncPending
  <2>4. \A u \in Threads : at'[u] = "sync" => u \in Members
    BY <1>4, <1>5 DEF Working, Coming, Gone
  <2>5. SyncPending' = {}
    BY <1>0, <1>3, <1>4, <1>5, <2>1, <2>3, <2>4 DEF SyncPending
  <2> QED
    BY <1>0, <2>1, <2>3, <2>5, FS_EmptySet
<1>7. CASE sync.hits # 1
  <2>1. /\ sync'.hits = sync.hits - 1 /\ sync'.flag = sync.flag /\ sync'.taken = sync.taken
        /\ sync'.size = num_threads
    BY <1>3, <1>7, BothBarriers, HitTyped
  <2>2. SyncPending' = P \cup {t}
    BY <2>1, <1>0, <1>4, <1>5 DEF SyncPending
  <2> QED
    BY <1>0, <1>2, <1>3, <2>1, <2>2
<1> QED
  BY <1>6, <1>7
-----------------------------------------------------------------------------
(* Where the threads are in each phase.                                    *)

LEMMA FirstStages ==
  /\ \A j \in Jobs : First[j] \in Stages(j) /\ First[j] \in {"alloc", "register"}
  /\ \A j \in Jobs : j # "alloc" => Passed(First[j]) = 0
BY ParallelSorterAssumption DEF Jobs, Stages, Passed

LEMMA WhereWorking ==
  ASSUME Working, NEW t \in Threads
  PROVE  /\ func.job \in Jobs /\ sync.size = num_threads /\ num_threads > 1
         /\ Coming(t) \/ Gone(t) \/ InJob(t)
         /\ InJob(t) => t \in Members /\ ~Coming(t) /\ ~Gone(t)
<1>1. Coming(t) \/ Gone(t) \/ InJob(t)
  BY DEF Working, Allocating, InStep, Fits
<1>2. /\ func.job \in Jobs /\ sync.size = num_threads /\ num_threads > 1
      /\ \A u \in Threads \ Members : Coming(u) \/ Gone(u)
  BY DEF Working, Prepared
<1>3. InJob(t) => ~Coming(t) /\ ~Gone(t)
  BY <1>2 DEF InJob, Coming, Gone, Stages, Jobs
<1> QED
  BY <1>1, <1>2, <1>3

(* The pool's barrier has opened while the threads were idle.              *)
LEMMA OpenIdle ==
  ASSUME Idle', TypeOK', pool'.flag = TRUE,
         \A u \in Threads : at'[u] = "pool" /\ flag'[u] = FALSE
  PROVE  Phase'
<1>1. 0 \in Threads /\ Members' \subseteq Threads /\ num_threads' \in Nat
  <2>1. NumThreads \in Nat \ {0} /\ num_threads' \in 1 .. NumThreads
    BY ThreadPoolAssumption DEF TypeOK
  <2>2. ASSUME NEW m \in 1 .. NumThreads
        PROVE  0 .. m - 1 \subseteq Threads /\ m \in Nat /\ 0 \in Threads
    BY ONLY ThreadPoolAssumption DEF Threads
  <2>3. Members' = 0 .. num_threads' - 1
    BY DEF Members
  <2> QED
    BY ONLY <2>1, <2>2, <2>3
<1>2. \A u \in Threads \ {0} : pc'[u] = "test"
  BY DEF Idle, Waiting
<1>3. CASE done'
  <2>1. pc'[0] = "join"
    BY <1>1, <1>3 DEF Idle, Caller
  <2> QED
    BY <1>2, <1>3, <2>1 DEF Phase, Ending, Ends, TypeOK
<1>4. CASE ~done'
  <2>1. Prepared' /\ sync'.hits = num_threads' /\ HasContext(0)' /\ pc'[0] = First[func'.job]
    BY <1>1, <1>4 DEF Idle, Caller
  <2>2. \A u \in Threads : Coming(u)'
    BY <1>2, <2>1 DEF Coming
  <2>3. SyncPending' = {}
    BY DEF SyncPending
  <2>4. (sync.hits = num_threads - Cardinality(SyncPending))'
    BY <1>1, <2>1, <2>3, FS_EmptySet
  <2>5. InStep' /\ \A u \in Members' : Allocating(u)'
    BY <1>1, <2>2 DEF InStep, Fits, Allocating
  <2> QED
    BY <1>1, <1>4, <2>1, <2>2, <2>4, <2>5 DEF Phase, Working, TypeOK
<1> QED
  BY <1>3, <1>4

(* It has opened at the end of a call.                                     *)
LEMMA OpenWorking ==
  ASSUME TypeOK, pool'.flag = FALSE, done' = FALSE,
         \A u \in Threads : /\ at'[u] = "pool" /\ flag'[u] = TRUE
                            /\ pc'[u] = IF u = 0 THEN "call" ELSE "main"
  PROVE  Phase'
<1>1. 0 \in Threads
  BY MembersAreThreads
<1> QED
  BY <1>1 DEF Phase, Idle, Caller, Waiting

(* A step in which the threads remain idle, or the barrier opens.          *)
LEMMA IdleHit ==
  ASSUME TypeOK, CountsPool, TypeOK', pool.flag = FALSE, NEW t \in Threads, NEW p,
         at[t] = "run", HitPool(t, p), Idle'
  PROVE  Phase'
<1>1. CASE pool'.flag = pool.flag
  BY <1>1 DEF Phase
<1>2. CASE /\ pool'.flag = ~pool.flag
           /\ \A u \in Threads : at'[u] = "pool" /\ flag'[u] = pool.flag
  BY <1>2, OpenIdle
<1> QED
  BY <1>1, <1>2, PoolHit

LEMMA WhereIdle ==
  ASSUME IInv, NEW t \in Threads, at[t] = "run", pc[t] \in {"main", "call", "set_up"}
  PROVE  pool.flag = FALSE /\ Idle
<1>1. ~Ending
  BY DEF Ending, Ends
<1>2. ~Working
  <2>1. SUFFICES ASSUME Working PROVE FALSE
    OBVIOUS
  <2>2. ~Coming(t) /\ ~Gone(t)
    BY DEF Coming, Gone
  <2>3. ~InJob(t)
    BY <2>1, WhereWorking DEF InJob, Stages, Jobs
  <2> QED
    BY <2>1, <2>2, <2>3, WhereWorking
<1> QED
  BY <1>1, <1>2 DEF IInv, Phase

LEMMA EnterLoopPhase ==
  ASSUME IInv, TypeOK', NEW t \in Threads, EnterLoop(t)
  PROVE  Phase'
<1>1. pool.flag = FALSE /\ Idle /\ t # 0 /\ at[t] = "run"
  BY WhereIdle DEF EnterLoop, At
<1>2. /\ at' = [at EXCEPT ![t] = "pool"] /\ flag' = [flag EXCEPT ![t] = pool.flag]
      /\ pc' = [pc EXCEPT ![t] = "test"] /\ HitPool(t, "test")
      /\ UNCHANGED << life, call, func, num_threads, done, sync, ctx, ran >>
  BY DEF EnterLoop, HitPool, Goto
<1>3. /\ at'[t] = "pool" /\ flag'[t] = FALSE /\ pc'[t] = "test"
      /\ \A u \in Threads : u # t => at'[u] = at[u] /\ flag'[u] = flag[u] /\ pc'[u] = pc[u]
  BY <1>1, <1>2 DEF IInv, TypeOK
<1>4. 0 \in Threads
  BY MembersAreThreads DEF IInv
<1>5. Caller'
  BY <1>1, <1>2, <1>3, <1>4 DEF Idle, Caller, Prepared, HasContext, TeamSize, Available
<1>6. \A u \in Threads \ {0} : Waiting(u)'
  BY <1>1, <1>3 DEF Idle, Waiting
<1>7. Idle'
  BY <1>1, <1>2, <1>3, <1>4, <1>5, <1>6 DEF Idle
<1> QED
  BY <1>1, <1>2, <1>7, IdleHit DEF IInv

LEMMA CallPoolPhase ==
  ASSUME IInv, TypeOK', CallPool
  PROVE  Phase'
<1>1. 0 \in Threads
  BY MembersAreThreads DEF IInv
<1>2. pool.flag = FALSE /\ Idle /\ at[0] = "run" /\ pc[0] = "call"
  BY <1>1, WhereIdle DEF CallPool, At
<1>3. /\ call' = call + 1 /\ call' \in 1 .. Len(life'.calls)
      /\ UNCHANGED << life, at, func, num_threads, done, pool, sync, flag >>
  BY DEF CallPool, TypeOK, IInv
<1>4. CASE TeamSize(call + 1) > 1 /\ Goto(0, "set_up")
  <2>1. pc'[0] = "set_up" /\ \A u \in Threads : u # 0 => pc'[u] = pc[u]
    BY <1>1, <1>4 DEF Goto, IInv, TypeOK
  <2>2. call' > 0 /\ TeamSize(call)' > 1
    BY <1>3, <1>4 DEF TeamSize, Available
  <2>3. Caller'
    BY <1>2, <1>3, <2>1, <2>2 DEF Caller
  <2> QED
    BY <1>2, <1>3, <2>1, <2>3 DEF Idle, Waiting, Phase
<1>5. CASE /\ ~(TeamSize(call + 1) > 1)
           /\ Start(0, call + 1, life.calls[call + 1].job, 1)
           /\ Goto(0, First[life.calls[call + 1].job])
  <2>1. call + 1 \in 1 .. Len(life.calls)
    BY <1>3
  <2>2. life.calls[call + 1].job = "alloc"
    BY <1>5, <2>1, CallsTyped DEF IInv
  <2>3. /\ pc'[0] = "alloc" /\ ctx'[0].n = 1
        /\ \A u \in Threads : u # 0 => pc'[u] = pc[u]
    BY <1>1, <1>5, <2>2, ParallelSorterAssumption DEF Goto, Start, IInv, TypeOK
  <2>4. Caller'
    BY <1>2, <1>3, <2>3 DEF Caller, Stages
  <2> QED
    BY <1>2, <1>3, <2>3, <2>4 DEF Idle, Waiting, Phase
<1> QED
  BY <1>4, <1>5 DEF CallPool

LEMMA SetUpPhase ==
  ASSUME IInv, TypeOK', SetUp
  PROVE  Phase'
<1> DEFINE j == life.calls[call].job
           n == TeamSize(call)
<1>1. /\ 0 \in Threads /\ pool.flag = FALSE /\ Idle /\ done = FALSE
      /\ j \in Jobs /\ n \in 2 .. NumThreads /\ NumThreads \in Nat /\ at[0] = "run"
  BY SettingUp, MembersAreThreads, BothBarriers DEF SetUp, IInv, At
<1>2. /\ at' = [at EXCEPT ![0] = "pool"] /\ flag' = [flag EXCEPT ![0] = pool.flag]
      /\ pc' = [pc EXCEPT ![0] = First[j]] /\ HitPool(0, First[j])
      /\ func' = [call |-> call, job |-> j] /\ num_threads' = n
      /\ sync' = SetNumThreads(sync, n)
      /\ ctx' = [ctx EXCEPT ![0] = [call |-> call, job |-> j, n |-> n]]
      /\ UNCHANGED << life, call, done >>
  BY DEF SetUp, HitPool, Goto, Start
<1> HIDE DEF j, n
<1>3. /\ at'[0] = "pool" /\ flag'[0] = FALSE /\ pc'[0] = First[j]
      /\ ctx'[0] = [call |-> call, job |-> j, n |-> n]
      /\ \A u \in Threads : u # 0 => at'[u] = at[u] /\ flag'[u] = flag[u] /\ pc'[u] = pc[u]
  BY <1>1, <1>2 DEF IInv, TypeOK
<1>4. sync'.size = n /\ sync'.hits = n
  <2>1. n \in 1 .. NumThreads
    BY <1>1
  <2> QED
    BY <1>2, <2>1, BothBarriers, SetTyped DEF IInv
<1>5. Caller'
  BY <1>1, <1>2, <1>3, <1>4 DEF Caller, Prepared, HasContext
<1>6. Idle'
  BY <1>1, <1>2, <1>3, <1>5 DEF Idle, Waiting
<1> QED
  BY <1>1, <1>2, <1>6, IdleHit DEF IInv

LEMMA FinishPhase ==
  ASSUME IInv, TypeOK', Finish
  PROVE  Phase'
<1>1. 0 \in Threads
  BY MembersAreThreads DEF IInv
<1>2. pool.flag = FALSE /\ Idle /\ at[0] = "run"
  BY <1>1, WhereIdle DEF Finish, At
<1>3. /\ at' = [at EXCEPT ![0] = "pool"] /\ flag' = [flag EXCEPT ![0] = pool.flag]
      /\ pc' = [pc EXCEPT ![0] = "join"] /\ HitPool(0, "join") /\ done' = TRUE
  BY DEF Finish, HitPool, Goto
<1>4. /\ at'[0] = "pool" /\ flag'[0] = FALSE /\ pc'[0] = "join"
      /\ \A u \in Threads : u # 0 => at'[u] = at[u] /\ flag'[u] = flag[u] /\ pc'[u] = pc[u]
  BY <1>1, <1>2, <1>3 DEF IInv, TypeOK
<1>5. Idle'
  BY <1>2, <1>3, <1>4 DEF Idle, Caller, Waiting
<1> QED
  BY <1>1, <1>2, <1>3, <1>5, IdleHit DEF IInv

LEMMA JoinPhase ==
  ASSUME IInv, Join
  PROVE  Phase'
<1>1. 0 \in Threads /\ at[0] = "run" /\ pc[0] = "join"
  BY MembersAreThreads DEF IInv, Join, At
<1>2. ~Idle
  BY <1>1 DEF Idle, Caller, Stages
<1>3. ~Working
  BY <1>1, WhereWorking DEF Coming, Gone, InJob, Stages, Jobs
<1>4. pool.flag = TRUE /\ done = TRUE /\ Ending
  BY <1>2, <1>3 DEF IInv, Phase
<1>5. /\ pc'[0] = "ended" /\ \A u \in Threads : u # 0 => pc'[u] = pc[u]
      /\ UNCHANGED << at, flag, pool, done >>
  BY <1>1 DEF Join, Goto, IInv, TypeOK
<1> QED
  BY <1>1, <1>4, <1>5 DEF Phase, Ending, Ends
(* A step of t in a call, after which the state of all others is the same. *)
LEMMA OthersFit ==
  ASSUME NEW t \in Threads, NEW u \in Threads, u # t,
         at'[u] = at[u], flag'[u] = flag[u], pc'[u] = pc[u], ctx'[u] = ctx[u],
         UNCHANGED << func, num_threads >>
  PROVE  /\ Coming(u)' = Coming(u) /\ Gone(u)' = Gone(u) /\ InJob(u)' = InJob(u)
         /\ Allocating(u)' = Allocating(u)
         /\ sync'.flag = sync.flag => \A e \in 0 .. 7 : Fits(u, e)' = Fits(u, e)
<1>1. HasContext(u)' = HasContext(u)
  BY DEF HasContext
<1>2. Coming(u)' = Coming(u) /\ Gone(u)' = Gone(u) /\ InJob(u)' = InJob(u)
  BY <1>1 DEF Coming, Gone, InJob
<1> QED
  BY <1>2 DEF Allocating, Fits

(* The barrier of the job stays as it is, and t still fits.                *)
LEMMA StillWorking ==
  ASSUME TypeOK, Working, NEW t \in Threads,
         \A u \in Threads : u # t =>
           at'[u] = at[u] /\ flag'[u] = flag[u] /\ pc'[u] = pc[u] /\ ctx'[u] = ctx[u],
         UNCHANGED << func, num_threads >>,
         sync'.flag = sync.flag, sync'.hits = sync.hits, sync'.size = sync.size,
         SyncPending' = SyncPending,
         t \notin Members => (Coming(t) \/ Gone(t))',
         func.job = "alloc" /\ t \in Members => Allocating(t)',
         func.job # "alloc" => \A e \in 0 .. 7 : Fits(t, e) /\ t \in Members => Fits(t, e)'
  PROVE  Working'
<1>1. Members \subseteq Threads /\ Members' = Members
  BY MembersAreThreads DEF Members
<1>2. Prepared'
  BY DEF Working, Prepared
<1>3. \A u \in Threads' \ Members' : (Coming(u) \/ Gone(u))'
  BY <1>1, OthersFit DEF Working, Threads
<1>4. func'.job = "alloc" => \A u \in Members' : Allocating(u)'
  BY <1>1, OthersFit DEF Working
<1>5. ASSUME func'.job # "alloc"
      PROVE  InStep'
  <2>1. PICK e \in 0 .. 7 : \A u \in Members : Fits(u, e)
    BY <1>5 DEF Working, InStep
  <2>2. \A u \in Members : Fits(u, e)'
    BY <1>1, <1>5, <2>1, OthersFit
  <2> QED
    BY <1>1, <2>2 DEF InStep
<1> QED
  BY <1>2, <1>3, <1>4, <1>5 DEF Working

LEMMA LeavePhase ==
  ASSUME IInv, NEW t \in Threads, Leave(t)
  PROVE  Phase'
<1>1. /\ at' = [at EXCEPT ![t] = "run"]
      /\ UNCHANGED << life, call, pc, func, num_threads, done, pool, sync, flag, ctx, ran >>
      /\ at[t] = "pool" => flag[t] # pool.flag
      /\ at[t] = "sync" => flag[t] # sync.flag
      /\ at[t] \in {"pool", "sync"} /\ 0 \in Threads
  BY MembersAreThreads DEF Leave, IInv
<1>2. at'[t] = "run" /\ \A u \in Threads : u # t => at'[u] = at[u]
  BY <1>1 DEF IInv, TypeOK
<1>3. CASE pool.flag = FALSE /\ Idle
  <2>1. Caller'
    <3>1. CASE t # 0
      BY <1>1, <1>2, <1>3, <3>1 DEF Idle, Caller, Prepared, HasContext, TeamSize, Available
    <3>2. CASE t = 0
      <4>1. at[0] \in {"pool", "sync"} /\ (at[0] = "pool" => flag[0])
        BY <1>1, <1>3, <3>2 DEF IInv, TypeOK
      <4>2. pc[0] = "call"
        BY <1>3, <4>1 DEF Idle, Caller
      <4> QED
        BY <1>1, <1>2, <3>2, <4>2 DEF Caller
    <3> QED
      BY <3>1, <3>2
  <2>2. \A u \in Threads \ {0} : Waiting(u)'
    BY <1>1, <1>2, <1>3 DEF Idle, Waiting, IInv, TypeOK
  <2> QED
    BY <1>1, <1>3, <2>1, <2>2 DEF Idle, Phase
<1>4. CASE pool.flag = TRUE /\ done = TRUE /\ Ending
  <2>1. \A u \in Threads : Ends(u)'
    BY <1>1, <1>2, <1>4 DEF Ending, Ends
  <2> QED
    BY <1>1, <1>4, <2>1 DEF Phase, Ending
<1>5. CASE pool.flag = TRUE /\ done = FALSE /\ Working
  <2>1. SyncPending' = SyncPending
    BY <1>1, <1>2 DEF SyncPending
  <2>2. ~Gone(t)
    BY <1>1, <1>5 DEF Gone
  <2>3. CASE InJob(t)
    <3>1. at[t] = "sync" /\ InJob(t)'
      BY <1>1, <1>2, <2>3 DEF InJob, HasContext
    <3>2. t \in Members
      BY <1>5, <2>3, WhereWorking
    <3>3. \A e \in 0 .. 7 : Fits(t, e) => Fits(t, e)'
      BY <1>1, <1>2, <3>1 DEF Fits, Coming, Gone
    <3>4. Working'
      BY <1>1, <1>2, <1>5, <2>1, <3>1, <3>2, <3>3, StillWorking DEF IInv, Allocating
    <3> QED
      BY <1>1, <1>5, <3>4 DEF Phase
  <2>4. CASE Coming(t) /\ t # 0
    <3>1. Coming(t)'
      BY <1>1, <1>2, <2>4 DEF Coming
    <3>2. \A e \in 0 .. 7 : Fits(t, e) => Fits(t, e)'
      BY <1>1, <2>2, <2>4, <3>1 DEF Fits, Coming, InJob
    <3>3. Working'
      BY <1>1, <1>2, <1>5, <2>1, <3>1, <3>2, StillWorking DEF IInv, Allocating
    <3> QED
      BY <1>1, <1>5, <3>3 DEF Phase
  <2>5. CASE Coming(t) /\ t = 0
    <3>1. func.job \in Jobs /\ 0 \in Members
      BY <1>5, WhereWorking DEF IInv, TypeOK, Members
    <3>2. HasContext(0)' /\ pc'[0] = First[func'.job] /\ func' = func
      BY <1>1, <2>5 DEF Coming, HasContext
    <3>3. InJob(0)' /\ at'[0] = "run"
      BY <1>2, <2>5, <3>1, <3>2, FirstStages DEF InJob
    <3>4. func.job # "alloc" => \A e \in 0 .. 7 : Fits(0, e) => Fits(0, e)'
      BY <1>1, <2>2, <2>5, <3>1, <3>2, <3>3, FirstStages DEF Fits, Coming, InJob
    <3>5. Working'
      BY <1>1, <1>2, <1>5, <2>1, <2>5, <3>1, <3>3, <3>4, StillWorking DEF IInv, Allocating
    <3> QED
      BY <1>1, <1>5, <3>5 DEF Phase
  <2> QED
    BY <1>5, <2>2, <2>3, <2>4, <2>5, WhereWorking
<1> QED
  BY <1>3, <1>4, <1>5 DEF IInv, Phase
LEMMA WhereTesting ==
  ASSUME IInv, NEW t \in Threads, Test(t)
  PROVE  /\ t # 0 /\ at[t] = "run" /\ pc[t] = "test" /\ pool.flag = TRUE
         /\ done => Ending
         /\ ~done => Working /\ Coming(t) /\ ~Gone(t) /\ ~InJob(t)
<1>1. at[t] = "run" /\ pc[t] = "test" /\ ~Idle
  BY DEF Test, At, Idle, Caller, Waiting, Stages
<1>2. /\ pool.flag = TRUE
      /\ \/ done = TRUE /\ Ending
         \/ done = FALSE /\ Working
  BY <1>1 DEF IInv, Phase
<1>3. Working => Coming(t) /\ ~Gone(t) /\ ~InJob(t)
  <2>1. ~Gone(t)
    BY <1>1 DEF Gone
  <2>2. Working => ~InJob(t)
    BY <1>1, WhereWorking DEF InJob, Stages, Jobs
  <2> QED
    BY <2>1, <2>2, WhereWorking
<1>4. t # 0
  BY <1>1, <1>2, <1>3 DEF Ending, Ends, Coming
<1> QED
  BY <1>1, <1>2, <1>3, <1>4

(* The end of a call: a thread hits the pool's barrier again.              *)
LEMMA GoneHit ==
  ASSUME IInv, pool.flag = TRUE, done = FALSE, Working, NEW t \in Threads, at[t] = "run",
         HitPool(t, IF t = 0 THEN "call" ELSE "main"),
         UNCHANGED << call, life, func, num_threads, done, sync, ctx >>,
         t \in Members => pc[t] = "return" /\ InJob(t)
  PROVE  Phase'
<1>1. /\ at' = [at EXCEPT ![t] = "pool"] /\ flag' = [flag EXCEPT ![t] = pool.flag]
      /\ pc' = [pc EXCEPT ![t] = IF t = 0 THEN "call" ELSE "main"]
  BY DEF HitPool, Goto
<1>2. /\ at'[t] = "pool" /\ flag'[t] = TRUE /\ pc'[t] = IF t = 0 THEN "call" ELSE "main"
      /\ \A u \in Threads : u # t => at'[u] = at[u] /\ flag'[u] = flag[u] /\ pc'[u] = pc[u]
  BY <1>1 DEF IInv, TypeOK
<1>3. CASE pool'.flag = pool.flag
  <2>1. Gone(t)'
    BY <1>2, <1>3 DEF Gone
  <2>2. SyncPending' = SyncPending
    BY <1>2 DEF SyncPending
  <2>3. ASSUME func.job # "alloc", t \in Members, NEW e \in 0 .. 7, Fits(t, e)
        PROVE  Fits(t, e)'
    <3>1. e = 7
      BY <2>3 DEF Fits, Passed, InJob, Coming, Gone
    <3> QED
      BY <2>1, <3>1 DEF Fits
  <2>4. Working'
    BY <1>2, <2>1, <2>2, <2>3, StillWorking DEF IInv, Allocating
  <2> QED
    BY <1>3, <2>4 DEF Phase
<1>4. CASE /\ pool'.flag = ~pool.flag
           /\ \A u \in Threads : at'[u] = "pool" /\ flag'[u] = pool.flag
  <2>1. ASSUME NEW u \in Threads, u # t
        PROVE  Gone(u)
    <3>1. at[u] = "pool" /\ flag[u] = TRUE
      BY <1>2, <1>4, <2>1
    <3> QED
      BY <3>1, WhereWorking DEF InJob, Coming
  <2>2. \A u \in Threads : pc'[u] = IF u = 0 THEN "call" ELSE "main"
    BY <1>2, <2>1 DEF Gone
  <2> QED
    BY <1>4, <2>2, OpenWorking DEF IInv
<1> QED
  BY <1>3, <1>4, PoolHit DEF IInv

LEMMA TestPhase ==
  ASSUME IInv, NEW t \in Threads, Test(t)
  PROVE  Phase'
<1>1. /\ t # 0 /\ at[t] = "run" /\ pc[t] = "test" /\ pool.flag = TRUE
      /\ done => Ending
      /\ ~done => Working /\ Coming(t) /\ ~Gone(t) /\ ~InJob(t)
  BY WhereTesting
<1>2. UNCHANGED << life, call, func, num_threads, done, sync >>
  BY DEF Test
<1>3. CASE done /\ Goto(t, "ended") /\ UNCHANGED << at, pool, flag, ctx, ran >>
  <2>1. pc'[t] = "ended" /\ \A u \in Threads : u # t => pc'[u] = pc[u]
    BY <1>3 DEF Goto, IInv, TypeOK
  <2>2. Ending'
    BY <1>1, <1>3, <2>1 DEF Ending, Ends
  <2> QED
    BY <1>1, <1>2, <1>3, <2>2 DEF Phase, IInv, TypeOK
<1>4. CASE /\ ~done /\ TakesPart(t)
           /\ Start(t, func.call, func.job, num_threads)
           /\ Goto(t, First[func.job])
           /\ UNCHANGED << at, pool, flag >>
  <2>1. /\ pc'[t] = First[func.job] /\ \A u \in Threads : u # t => pc'[u] = pc[u]
        /\ ctx'[t] = [call |-> func.call, job |-> func.job, n |-> num_threads]
        /\ \A u \in Threads : u # t => ctx'[u] = ctx[u]
    BY <1>4 DEF Goto, Start, IInv, TypeOK
  <2>2. func.job \in Jobs /\ t \in Members
    BY <1>1, <1>4, WhereWorking, BothBarriers DEF TakesPart, Members, Threads, IInv, TypeOK
  <2>3. InJob(t)' /\ at'[t] = "run"
    BY <1>1, <1>2, <1>4, <2>1, <2>2, FirstStages DEF InJob, HasContext
  <2>4. func.job # "alloc" => \A e \in 0 .. 7 : Fits(t, e) => Fits(t, e)'
    BY <1>1, <1>4, <2>1, <2>2, <2>3, FirstStages DEF Fits
  <2>5. SyncPending' = SyncPending
    BY <1>2, <1>4 DEF SyncPending
  <2>6. Working'
    BY <1>1, <1>2, <1>4, <2>1, <2>2, <2>3, <2>4, <2>5, StillWorking DEF IInv, Allocating
  <2> QED
    BY <1>1, <1>2, <1>4, <2>6 DEF Phase, IInv, TypeOK
<1>5. CASE ~done /\ ~TakesPart(t) /\ HitPool(t, "main") /\ UNCHANGED << ctx, ran >>
  <2>1. t \notin Members
    BY <1>5, BothBarriers DEF TakesPart, Members, IInv, TypeOK
  <2> QED
    BY <1>1, <1>2, <1>5, <2>1, GoneHit DEF IInv, TypeOK
<1> QED
  BY <1>3, <1>4, <1>5 DEF Test

LEMMA ReturnPhase ==
  ASSUME IInv, NEW t \in Threads, Return(t)
  PROVE  Phase'
<1>1. /\ at[t] = "run" /\ pc[t] = "return"
      /\ UNCHANGED << life, call, func, num_threads, done, sync, ctx, ran >>
  BY DEF Return, At
<1>2. ~Ending
  BY <1>1 DEF Ending, Ends
<1>3. CASE pool.flag = FALSE /\ Idle
  <2>1. t = 0 /\ ctx[t].n = 1 /\ done = FALSE
    BY <1>1, <1>3 DEF Idle, Caller, Waiting, IInv, TypeOK
  <2>2. UNCHANGED << at, pool, flag >> /\ Goto(0, "call")
    BY <2>1 DEF Return
  <2>3. pc'[0] = "call" /\ \A u \in Threads : u # 0 => pc'[u] = pc[u]
    BY <2>1, <2>2 DEF Goto, IInv, TypeOK
  <2> QED
    BY <1>1, <1>3, <2>1, <2>2, <2>3 DEF Phase, Idle, Caller, Waiting
<1>4. CASE pool.flag = TRUE /\ done = FALSE /\ Working
  <2>1. InJob(t)
    BY <1>1, <1>4, WhereWorking DEF Coming, Gone
  <2>2. ctx[t].n > 1
    BY <1>4, <2>1, WhereWorking DEF InJob, HasContext
  <2>3. HitPool(t, IF t = 0 THEN "call" ELSE "main")
    BY <2>2 DEF Return
  <2> QED
    BY <1>1, <1>4, <2>1, <2>3, GoneHit
<1> QED
  BY <1>2, <1>3, <1>4 DEF IInv, Phase
-----------------------------------------------------------------------------
(* The steps of a job.                                                     *)

LEMMA WhereInJob ==
  ASSUME IInv, NEW t \in Threads, at[t] = "run", pc[t] \in Stages("sort") \cup {"alloc"}
  PROVE  \/ pool.flag = FALSE /\ Idle /\ t = 0 /\ pc[t] \in {"alloc", "return"}
         \/ /\ pool.flag = TRUE /\ done = FALSE /\ Working /\ t \in Members /\ InJob(t)
            /\ pc[t] \notin {"alloc", "return"} => func.job # "alloc"
<1>1. ~Ending
  BY DEF Ending, Ends, Stages
<1>2. CASE pool.flag = FALSE /\ Idle
  BY <1>2 DEF Idle, Caller, Waiting, Stages
<1>3. CASE pool.flag = TRUE /\ done = FALSE /\ Working
  <2>1. ~Coming(t) /\ ~Gone(t)
    BY DEF Coming, Gone, Stages
  <2> QED
    BY <1>3, <2>1, WhereWorking DEF InJob, Stages
<1> QED
  BY <1>1, <1>2, <1>3 DEF IInv, Phase

(* A step between two barriers.                                            *)
LEMMA LocalStep ==
  ASSUME IInv, pool.flag = TRUE, done = FALSE, Working, NEW t \in Members, InJob(t), at[t] = "run",
         NEW p \in Stages(func.job), Goto(t, p), UNCHANGED << at, flag >>,
         sync' \in {sync, [sync EXCEPT !.taken = TRUE]}, SameCall,
         Passed(p) = Passed(pc[t]), p = "reset" => t = 0
  PROVE  Phase'
<1>1. t \in Threads
  BY MembersAreThreads DEF IInv
<1>2. pc'[t] = p /\ \A u \in Threads : u # t => pc'[u] = pc[u]
  BY <1>1 DEF Goto, IInv, TypeOK
<1>3. sync'.flag = sync.flag /\ sync'.hits = sync.hits /\ sync'.size = sync.size
  BY BothBarriers, TakenTyped DEF IInv
<1>4. InJob(t)' /\ at'[t] = "run"
  BY <1>2 DEF InJob, HasContext, SameCall
<1>5. \A e \in 0 .. 7 : Fits(t, e) => Fits(t, e)'
  BY <1>2, <1>4, WhereWorking, <1>1 DEF Fits
<1>6. SyncPending' = SyncPending
  BY <1>3 DEF SyncPending
<1>7. Working'
  BY <1>1, <1>2, <1>3, <1>4, <1>5, <1>6, StillWorking DEF IInv, SameCall, Allocating
<1> QED
  BY <1>7 DEF Phase, SameCall

(* A thread hits the barrier of the job.                                   *)
LEMMA SyncStep ==
  ASSUME IInv, pool.flag = TRUE, done = FALSE, Working, NEW t \in Members, InJob(t), at[t] = "run",
         NEW p \in Stages(func.job), func.job # "alloc", HitSync(t, p), SameCall,
         Passed(p) = Passed(pc[t]) + 1, p \notin {"sample", "publish", "reset"}
  PROVE  Phase'
<1>1. t \in Threads /\ Members \subseteq Threads /\ Members' = Members
  BY MembersAreThreads DEF IInv, Members, SameCall
<1>2. /\ pc'[t] = p /\ at'[t] = "sync" /\ flag'[t] = sync.flag
      /\ \A u \in Threads : u # t => pc'[u] = pc[u] /\ at'[u] = at[u] /\ flag'[u] = flag[u]
  BY <1>1 DEF HitSync, Goto, IInv, TypeOK
<1>3. UNCHANGED << func, num_threads, ctx, pool, done >>
  BY DEF SameCall
<1>4. InJob(t)'
  BY <1>2, <1>3 DEF InJob, HasContext
<1>5. PICK e \in 0 .. 7 : \A u \in Members : Fits(u, e)
  BY DEF Working, InStep
<1>6. Passed(pc[t]) = e
  BY <1>1, <1>5, WhereWorking DEF Fits
<1>7. /\ sync'.size = num_threads
      /\ (sync.hits = num_threads - Cardinality(SyncPending))'
      /\ \/ sync'.flag = sync.flag
         \/ /\ sync'.flag = ~sync.flag
            /\ \A u \in Members \ {t} : at[u] = "sync" /\ flag[u] = sync.flag
  BY <1>3, SyncHit DEF IInv
<1>8. Passed(p) = e + 1 /\ e + 1 \in 0 .. 7
  BY <1>6 DEF Passed
<1>9. InStep'
  <2>1. CASE sync'.flag = sync.flag
    <3>1. Fits(t, e)'
      BY <1>2, <1>4, <1>8, <2>1 DEF Fits
    <3>2. \A u \in Members : Fits(u, e)'
      BY <1>1, <1>2, <1>3, <1>5, <2>1, <3>1, OthersFit
    <3> QED
      BY <1>1, <3>2 DEF InStep
  <2>2. CASE /\ sync'.flag = ~sync.flag
             /\ \A u \in Members \ {t} : at[u] = "sync" /\ flag[u] = sync.flag
    <3>0. sync.flag \in BOOLEAN
      BY BothBarriers, BarrierFields DEF IInv
    <3>1. Fits(t, e + 1)'
      BY <1>2, <1>4, <1>8, <2>2, <3>0 DEF Fits
    <3>2. ASSUME NEW u \in Members, u # t
          PROVE  Fits(u, e + 1)'
      <4>1. at[u] = "sync" /\ flag[u] = sync.flag
        BY <2>2, <3>2
      <4>2. InJob(u) /\ Passed(pc[u]) = e + 1
        BY <1>5, <4>1 DEF Fits, Coming, Gone
      <4>3. InJob(u)'
        BY <1>1, <1>2, <1>3, <3>2, <4>2, OthersFit
      <4> QED
        BY <1>1, <1>2, <2>2, <3>0, <3>2, <4>1, <4>2, <4>3 DEF Fits
    <3>3. \A u \in Members' : Fits(u, e + 1)'
      BY <1>1, <3>1, <3>2
    <3> QED
      BY <1>8, <3>3 DEF InStep
  <2> QED
    BY <1>7, <2>1, <2>2
<1>10. \A u \in Threads' \ Members' : (Coming(u) \/ Gone(u))'
  BY <1>1, <1>2, <1>3, OthersFit DEF Working, Threads
<1>11. Prepared'
  BY <1>3, <1>7 DEF Working, Prepared
<1>12. func'.job # "alloc"
  BY <1>3
<1> QED
  BY <1>3, <1>7, <1>9, <1>10, <1>11, <1>12 DEF Phase, Working

LEMMA JobPhase ==
  ASSUME IInv, NEW t \in Threads, JobStep(t)
  PROVE  Phase'
<1>1. SameCall /\ at[t] = "run" /\ pc[t] \in Stages("sort") \cup {"alloc"}
  BY DEF JobStep, Alloc, Register, Single, Sample, Take, Classify, Move, Permute, Publish, Save,
         Write, Clean, Reset, ProcessTasks, At, Stages
<1>2. CASE pool.flag = FALSE /\ Idle /\ t = 0 /\ pc[t] \in {"alloc", "return"}
  <2>1. Step(0, "return") /\ pc[0] = "alloc"
    BY <1>2 DEF JobStep, Alloc, Register, Single, Sample, Take, Classify, Move, Permute, Publish,
           Save, Write, Clean, Reset, ProcessTasks, At
  <2>2. pc'[0] = "return" /\ \A u \in Threads : u # 0 => pc'[u] = pc[u]
    BY <1>2, <2>1 DEF Step, Goto, IInv, TypeOK
  <2>3. Caller'
    BY <1>1, <1>2, <2>1, <2>2 DEF Idle, Caller, Stages, Step, SameCall
  <2> QED
    BY <1>1, <1>2, <2>1, <2>2, <2>3 DEF Idle, Waiting, Phase, Step, SameCall, IInv, TypeOK
<1>3. CASE /\ pool.flag = TRUE /\ done = FALSE /\ Working /\ t \in Members /\ InJob(t)
           /\ pc[t] \notin {"alloc", "return"} => func.job # "alloc"
  <2>1. CASE pc[t] = "alloc"
    <3>1. Step(t, "return")
      BY <2>1 DEF JobStep, Alloc, Register, Single, Sample, Take, Classify, Move, Permute, Publish,
             Save, Write, Clean, Reset, ProcessTasks, At
    <3>2. "return" \in Stages(func.job) /\ Passed("return") = Passed(pc[t])
      BY <2>1 DEF Stages, Passed
    <3> QED
      BY <1>1, <1>3, <3>1, <3>2, LocalStep DEF Step
  <2>2. CASE pc[t] # "alloc"
    <3>1. func.job # "alloc" /\ Stages(func.job) = Stages("sort")
      <4>1. pc[t] # "return"
        BY DEF JobStep, Alloc, Register, Single, Sample, Take, Classify, Move, Permute, Publish,
               Save, Write, Clean, Reset, ProcessTasks, At
      <4> QED
        BY <1>3, <2>2, <4>1 DEF Stages
    <3>2. \/ \E p \in Stages("sort") :
               /\ Goto(t, p) /\ UNCHANGED << at, flag >>
               /\ sync' \in {sync, [sync EXCEPT !.taken = TRUE]}
               /\ Passed(p) = Passed(pc[t]) /\ (p = "reset" => t = 0)
          \/ \E p \in Stages("sort") :
               /\ HitSync(t, p) /\ Passed(p) = Passed(pc[t]) + 1
               /\ p \notin {"sample", "publish", "reset"}
      <4>1. CASE Register(t) \/ Take(t) \/ ProcessTasks(t)
        BY <4>1 DEF Register, Take, ProcessTasks, Step, Passed, Stages, At
      <4>2. CASE Single(t) \/ Permute(t) \/ Clean(t)
        BY <4>2 DEF Single, Permute, Clean, Step, Passed, Stages, At
      <4>3. CASE Sample(t) \/ Classify(t) \/ Move(t)
        BY <4>3 DEF Sample, Classify, Move, Passed, Stages, At
      <4>4. CASE Publish(t) \/ Save(t) \/ Write(t) \/ Reset(t)
        BY <4>4 DEF Publish, Save, Write, Reset, Passed, Stages, At
      <4> QED
        BY <2>2, <4>1, <4>2, <4>3, <4>4 DEF JobStep, Alloc, At
    <3>3. ASSUME NEW p \in Stages("sort"), Goto(t, p), UNCHANGED << at, flag >>,
                 sync' \in {sync, [sync EXCEPT !.taken = TRUE]},
                 Passed(p) = Passed(pc[t]), p = "reset" => t = 0
          PROVE  Phase'
      BY <1>1, <1>3, <3>1, <3>3, LocalStep
    <3>4. ASSUME NEW p \in Stages("sort"), HitSync(t, p), Passed(p) = Passed(pc[t]) + 1,
                 p \notin {"sample", "publish", "reset"}
          PROVE  Phase'
      BY <1>1, <1>3, <3>1, <3>4, SyncStep
    <3> QED
      BY <3>2, <3>3, <3>4
  <2> QED
    BY <2>1, <2>2
<1> QED
  BY <1>1, <1>2, <1>3, WhereInJob
-----------------------------------------------------------------------------
(* CountsPool and Alone.                                                   *)

LEMMA PoolUntouched ==
  ASSUME CountsPool, UNCHANGED pool,
         \A u \in Threads : (at'[u] = "pool" /\ flag'[u] = pool.flag)
                              <=> (at[u] = "pool" /\ flag[u] = pool.flag)
  PROVE  CountsPool'
<1>1. PoolPending' = PoolPending
  BY DEF PoolPending
<1> QED
  BY <1>1 DEF CountsPool

LEMMA CountsStep ==
  ASSUME IInv, NEW t \in Threads, ThreadStep(t)
  PROVE  CountsPool'
<1> USE DEF IInv
<1>1. CASE Leave(t)
  BY <1>1, PoolUntouched DEF Leave, TypeOK
<1>2. CASE at[t] = "run" /\ \E p : HitPool(t, p)
  BY <1>2, PoolHit
<1>3. CASE UNCHANGED << pool, at, flag >>
  BY <1>3, PoolUntouched
<1>4. CASE at[t] = "run" /\ UNCHANGED pool /\ \E p : HitSync(t, p)
  <2>1. at' = [at EXCEPT ![t] = "sync"] /\ flag' = [flag EXCEPT ![t] = sync.flag]
    BY <1>4 DEF HitSync
  <2> QED
    BY <1>4, <2>1, PoolUntouched DEF TypeOK
<1>5. JobStep(t) => \/ UNCHANGED << pool, at, flag >>
                    \/ at[t] = "run" /\ UNCHANGED pool /\ \E p : HitSync(t, p)
  BY DEF JobStep, Alloc, Register, Single, Sample, Take, Classify, Move, Permute, Publish, Save,
         Write, Clean, Reset, ProcessTasks, At, Step, SameCall
<1>6. PoolStep(t) => \/ Leave(t)
                     \/ at[t] = "run" /\ \E p : HitPool(t, p)
                     \/ UNCHANGED << pool, at, flag >>
  BY DEF PoolStep, EnterLoop, Test, Return, CallPool, SetUp, Finish, Join, At
<1> QED
  BY <1>1, <1>2, <1>3, <1>4, <1>5, <1>6 DEF ThreadStep

(* The places at which a thread is alone.                                  *)
Solo == {"sample", "publish"}

LEMMA AlonePool ==
  ASSUME IInv, NEW t \in Threads, PoolStep(t), UNCHANGED jobVars
  PROVE  Alone'
<1>1. sync'.taken = sync.taken /\ full' = full
  <2>1. CASE SetUp
    <3>1. TeamSize(call) \in 1 .. NumThreads /\ sync' = SetNumThreads(sync, TeamSize(call))
      BY <2>1, SettingUp, BothBarriers DEF SetUp, IInv
    <3> QED
      BY <3>1, BothBarriers, SetTyped DEF IInv, jobVars
  <2>2. CASE ~SetUp
    BY <2>2 DEF PoolStep, Leave, EnterLoop, Test, Return, CallPool, Finish, Join, jobVars
  <2> QED
    BY <2>1, <2>2
<1>2. \A u \in Threads : u # t => at'[u] = at[u] /\ pc'[u] = pc[u]
  BY DEF PoolStep, Leave, EnterLoop, Test, Return, CallPool, SetUp, Finish, Join, HitPool, Goto,
         IInv, TypeOK
<1>3. at'[t] # "run" \/ pc'[t] \notin Solo
  <2>1. CASE Leave(t)
    <3>1. pc'[t] = pc[t] /\ at[t] \in {"pool", "sync"}
      BY <2>1 DEF Leave
    <3>2. CASE Idle
      <4>1. pc[t] \in {"call", "join", "main", "test", "alloc", "register"}
        BY <3>1, <3>2, FirstStages DEF Idle, Caller, Waiting, Prepared
      <4> QED
        BY <3>1, <4>1 DEF Solo
    <3>3. CASE Ending
      BY <3>1, <3>3 DEF Ending, Ends, Solo
    <3>4. CASE Working
      <4>1. CASE InJob(t)
        BY <3>1, <3>4, <4>1 DEF InJob, Solo
      <4>2. CASE Coming(t) \/ Gone(t)
        BY <3>1, <3>4, <4>2, FirstStages, WhereWorking DEF Coming, Gone, Solo
      <4> QED
        BY <3>4, <4>1, <4>2, WhereWorking
    <3> QED
      BY <3>2, <3>3, <3>4 DEF IInv, Phase
  <2>2. CASE \E p : HitPool(t, p)
    BY <2>2 DEF HitPool, IInv, TypeOK
  <2>3. CASE Test(t)
    <3>1. CASE ~done /\ Goto(t, First[func.job])
      <4>1. First[func.job] \in {"alloc", "register"}
        BY <2>3, <3>1, WhereTesting, WhereWorking, FirstStages
      <4> QED
        BY <3>1, <4>1 DEF Goto, IInv, TypeOK, Solo
    <3>2. CASE Goto(t, "ended")
      BY <3>2 DEF Goto, IInv, TypeOK, Solo
    <3> QED
      BY <2>2, <2>3, <3>1, <3>2 DEF Test
  <2>4. CASE t = 0 /\ CallPool
    <3>1. CASE Goto(0, "set_up")
      BY <2>4, <3>1 DEF Goto, IInv, TypeOK, Solo
    <3>2. CASE Goto(0, First[life.calls[call + 1].job])
      <4>1. call + 1 \in 1 .. Len(life.calls)
        BY <2>4, ParallelSorterAssumption DEF CallPool, IInv, TypeOK
      <4>2. First[life.calls[call + 1].job] \in {"alloc", "register"}
        BY <4>1, CallsTyped, FirstStages DEF IInv
      <4> QED
        BY <2>4, <3>2, <4>2 DEF Goto, IInv, TypeOK, Solo
    <3> QED
      BY <2>4, <3>1, <3>2 DEF CallPool
  <2>5. CASE Goto(t, "call") \/ Goto(t, "ended")
    BY <2>5 DEF Goto, IInv, TypeOK, Solo
  <2> QED
    BY <2>1, <2>2, <2>3, <2>4, <2>5 DEF PoolStep, EnterLoop, Return, SetUp, Finish, Join
<1> QED
  BY <1>1, <1>2, <1>3 DEF Alone, At, IInv, Solo

(* Two members that run are between the same barriers.                     *)
LEMMA Together ==
  ASSUME IInv, Working, func.job # "alloc", NEW t \in Members, NEW u \in Members,
         InJob(t), InJob(u), at[t] = "run", at[u] = "run"
  PROVE  Passed(pc[t]) = Passed(pc[u])
<1>1. PICK e \in 0 .. 7 : \A v \in Members : Fits(v, e)
  BY DEF Working, InStep
<1>2. t \in Threads /\ u \in Threads
  BY MembersAreThreads DEF IInv
<1> QED
  BY <1>1, <1>2, WhereWorking DEF Fits

LEMMA WhereAlone ==
  ASSUME IInv, NEW u \in Threads, at[u] = "run", pc[u] \in Solo
  PROVE  /\ pool.flag = TRUE /\ done = FALSE /\ Working /\ u \in Members /\ InJob(u)
         /\ func.job # "alloc"
<1>1. pc[u] \in Stages("sort") \cup {"alloc"} /\ pc[u] \notin {"alloc", "return"}
  BY DEF Solo, Stages
<1> QED
  BY <1>1, WhereInJob

LEMMA AloneJob ==
  ASSUME IInv, NEW t \in Threads, JobStep(t)
  PROVE  Alone'
<1>1. SameCall /\ at[t] = "run"
  BY DEF JobStep, Alloc, Register, Single, Sample, Take, Classify, Move, Permute, Publish, Save,
         Write, Clean, Reset, ProcessTasks, At
<1>2. \A u \in Threads : u # t => at'[u] = at[u] /\ pc'[u] = pc[u]
  BY DEF JobStep, Alloc, Register, Single, Sample, Take, Classify, Move, Permute, Publish, Save,
         Write, Clean, Reset, ProcessTasks, Step, HitSync, Goto, IInv, TypeOK
<1>3. CASE Step(t, "sample") \/ (Single(t) /\ ~sync.taken)
  <2>1. Single(t) /\ ~sync.taken
    BY <1>3 DEF JobStep, Alloc, Register, Single, Sample, Take, Classify, Move, Permute, Publish,
           Save, Write, Clean, Reset, ProcessTasks, Step, HitSync, Goto, IInv, TypeOK
  <2>2. pc'[t] = "sample" /\ full' = full /\ at' = at
    BY <2>1 DEF Single, Goto, jobVars, IInv, TypeOK
  <2>3. sync'.taken = TRUE
    <3>1. sync' = [sync EXCEPT !.taken = TRUE]
      BY <2>1 DEF Single
    <3> QED
      BY <3>1, BothBarriers, TakenTyped DEF IInv
  <2> QED
    BY <1>2, <2>1, <2>2, <2>3 DEF IInv, Alone, At
<1>4. CASE Permute(t) /\ full = {} /\ full' = {t} /\ Step(t, "publish")
  <2>1. pc'[t] = "publish" /\ UNCHANGED << sync, at >>
    BY <1>4 DEF Step, Goto, IInv, TypeOK
  <2> QED
    BY <1>2, <1>4, <2>1 DEF IInv, Alone, At
<1>5. CASE full' = full /\ UNCHANGED << sync, at >> /\ pc'[t] \notin Solo
  BY <1>2, <1>5 DEF IInv, Alone, At, Solo
<1>6. CASE /\ \E p : HitSync(t, p)
           /\ full' = full \/ pc[t] = "write"
           /\ pc[t] \in Stages("sort") \ {"return"}
  <2>1. at'[t] = "sync"
    BY <1>6 DEF HitSync, IInv, TypeOK
  <2>2. ASSUME NEW u \in Threads, At(u, "sample")' \/ At(u, "publish")'
        PROVE  /\ u # t /\ sync'.taken = sync.taken /\ full' = full
               /\ At(u, "sample")' = At(u, "sample") /\ At(u, "publish")' = At(u, "publish")
    <3>1. u # t /\ at[u] = "run" /\ pc[u] \in Solo /\ pc'[u] = pc[u] /\ at'[u] = at[u]
      BY <1>2, <2>1, <2>2 DEF At, Solo
    <3>2. /\ pool.flag = TRUE /\ done = FALSE /\ Working /\ u \in Members /\ InJob(u)
          /\ func.job # "alloc"
      BY <3>1, WhereAlone
    <3>3. t \in Members /\ InJob(t)
      BY <1>1, <1>6, <3>2, WhereInJob
    <3>4. Passed(pc[u]) = Passed(pc[t])
      BY <1>1, <3>1, <3>2, <3>3, Together
    <3>5. full' = full
      BY <1>6, <3>1, <3>4 DEF Passed, Solo
    <3>6. sync'.taken = sync.taken
      BY <1>1, <1>6, <3>1, <3>2, <3>3, SyncHit DEF IInv, SameCall
    <3> QED
      BY <3>1, <3>5, <3>6 DEF At
  <2> QED
    BY <2>2 DEF IInv, Alone
<1> QED
  <2>1. CASE Single(t) \/ Permute(t) \/ Clean(t)
    BY <2>1, <1>3, <1>4, <1>5, <1>6 DEF Single, Permute, Clean, Step, Goto, At, Stages, Solo,
       jobVars, IInv, TypeOK
  <2>2. CASE Alloc(t) \/ Register(t) \/ Take(t) \/ ProcessTasks(t)
    BY <2>2, <1>5 DEF Alloc, Register, Take, ProcessTasks, Step, Goto, Solo, jobVars, IInv, TypeOK
  <2>3. CASE Sample(t) \/ Classify(t) \/ Move(t)
    BY <2>3, <1>6 DEF Sample, Classify, Move, At, Stages, jobVars
  <2>4. CASE Publish(t) \/ Save(t) \/ Write(t) \/ Reset(t)
    BY <2>4, <1>6 DEF Publish, Save, Write, Reset, At, Stages, jobVars
  <2> QED
    BY <2>1, <2>2, <2>3, <2>4 DEF JobStep

-----------------------------------------------------------------------------
LEMMA Initially == SorterInit => IInv
<1> SUFFICES ASSUME SorterInit PROVE IInv
  OBVIOUS
<1>1. NumThreads \in Nat \ {0} /\ 0 \in Threads
  BY ThreadPoolAssumption DEF Threads
<1>2. TypeOK
  <2>1. NewBarrier(NumThreads) \in Barriers({NumThreads})
        /\ NewBarrier(NumThreads) \in Barriers(1 .. NumThreads)
    BY <1>1 DEF NewBarrier, Barriers
  <2>2. call \in 0 .. Len(life.calls)
    BY ParallelSorterAssumption DEF SorterInit, Init
  <2>3. pc \in [Threads -> Places]
    BY DEF SorterInit, Init, Places, Stages
  <2> QED
    BY <1>1, <2>1, <2>2, <2>3 DEF SorterInit, Init, TypeOK, NoJob
<1>3. CountsPool
  <2>1. PoolPending = {}
    BY DEF SorterInit, Init, PoolPending
  <2>2. pool.hits = NumThreads
    BY DEF SorterInit, Init, NewBarrier
  <2> QED
    BY <1>1, <2>1, <2>2, FS_EmptySet DEF CountsPool
<1>4. Phase
  BY <1>1 DEF SorterInit, Init, NewBarrier, Phase, Idle, Caller, Waiting
<1>5. Alone
  BY DEF SorterInit, Init, Alone, At
<1> QED
  BY <1>2, <1>3, <1>4, <1>5 DEF IInv

LEMMA PhaseStep ==
  ASSUME IInv, NEW t \in Threads, ThreadStep(t)
  PROVE  Phase'
<1>1. TypeOK'
  BY TypeStep
<1> QED
  BY <1>1, LeavePhase, EnterLoopPhase, TestPhase, ReturnPhase, CallPoolPhase, SetUpPhase,
     FinishPhase, JoinPhase, JobPhase DEF ThreadStep, PoolStep

LEMMA Inductive == IInv /\ [Next]_vars => IInv'
<1> SUFFICES ASSUME IInv, [Next]_vars PROVE IInv'
  OBVIOUS
<1>1. ASSUME NEW t \in Threads, ThreadStep(t)
      PROVE  IInv'
  BY <1>1, TypeStep, CountsStep, PhaseStep, AlonePool, AloneJob DEF IInv, ThreadStep
<1>2. CASE UNCHANGED vars
  <2>1. UNCHANGED << life, call, pc, at, func, num_threads, done, pool, sync, flag, ctx, full >>
    BY <1>2 DEF vars, poolVars, jobVars
  <2>2. TypeOK'
    BY <2>1 DEF IInv, TypeOK
  <2>3. PoolPending' = PoolPending /\ SyncPending' = SyncPending /\ Members' = Members
    BY <2>1 DEF PoolPending, SyncPending, Members
  <2>4. CountsPool' /\ Alone'
    BY <2>1, <2>3 DEF IInv, CountsPool, Alone, At
  <2>5. Idle' = Idle
    BY <2>1 DEF Idle, Caller, Waiting, Prepared, HasContext, TeamSize, Available
  <2>6. Ending' = Ending
    BY <2>1 DEF Ending, Ends
  <2>7. Working' = Working
    <3>1. Prepared' = Prepared
      BY <2>1 DEF Prepared
    <3>2. ASSUME NEW u
          PROVE  /\ Coming(u)' = Coming(u) /\ Gone(u)' = Gone(u) /\ Allocating(u)' = Allocating(u)
                 /\ \A e : Fits(u, e)' = Fits(u, e)
      BY <2>1 DEF Coming, Gone, Allocating, InJob, HasContext, Fits
    <3> QED
      BY <2>1, <2>3, <3>1, <3>2 DEF Working, InStep
  <2> QED
    BY <2>1, <2>2, <2>4, <2>5, <2>6, <2>7 DEF IInv, Phase
<1> QED
  BY <1>1, <1>2 DEF Next, Finished

(* No two threads ever access the same field at the same time, unless both *)
(* read or both use atomic operations: whatever the number of threads, the *)
(* calls of the pool, and the sizes of the teams that execute them.        *)
THEOREM ConflictFree == Spec => []NoConflict
<1>1. Spec => []IInv
  BY Initially, Inductive, PTL DEF Spec
<1> QED
  BY <1>1, InvariantImpliesNoConflict, PTL

-----------------------------------------------------------------------------
(* What the threads find in the shared fields.                             *)

(* Nothing of an earlier call is left.                                     *)
Fresh == sums = {} /\ overflow = None /\ full = {} /\ ~sync.taken

(* What the shared fields hold after e barriers of a job that partitions.  *)
Data(e) ==
  /\ IF e = 0 THEN /\ ~sync.taken => \A u \in Members : Passed(pc[u]) # 1
                   /\ sync.taken => built = func.call \/ \E u \in Members : At(u, "sample")
              ELSE ~sync.taken
  /\ e \in 1 .. 5 => built = func.call
  /\ e = 0 => sums = {}
  /\ e = 1 => sums = {func.call} \X {u \in Members : Passed(pc[u]) = 2}
  /\ e \in 2 .. 5 => sums = {func.call} \X Members
  /\ e \in 0 .. 2 => overflow = None /\ full = {}
  /\ e = 3 => \/ overflow = None /\ full = {}
              \/ /\ last \in Members
                 /\ \/ overflow \in Members /\ full = {overflow}
                    \/ overflow = None /\ \E u \in Members : At(u, "publish") /\ full = {u}
  /\ e = 4 => \/ overflow = None /\ full = {}
              \/ last \in Members /\ overflow \in Members /\ full = {overflow}
  /\ e = 5 => \/ overflow = None /\ full = {}
              \/ /\ last \in Members /\ overflow \in Members
                 /\ full = IF Passed(pc[last]) = 5 THEN {overflow} ELSE {}
  /\ e \in 4 .. 5 => \A u \in Members : e = 5 \/ Passed(pc[u]) = 5 => overflow_[u] = overflow
  /\ e = 6 => /\ full = {}
              /\ IF Passed(pc[0]) = 6 THEN sums = {func.call} \X Members
                                      ELSE sums = {} /\ overflow = None
  /\ e = 7 => Fresh

DataInv ==
  /\ overflow_ \in [Threads -> Int]
  /\ pool.flag = FALSE => Fresh
  /\ pool.flag = TRUE /\ done = FALSE /\ func.job = "alloc" => Fresh
  /\ pool.flag = TRUE /\ done = FALSE /\ func.job # "alloc" =>
       \E e \in 0 .. 7 : (\A u \in Members : Fits(u, e)) /\ Data(e)

LEMMA PassedAt ==
  /\ Passed("take") = 1 /\ Passed("move") = 2 /\ Passed("permute") = 3 /\ Passed("save") = 4
  /\ Passed("write") = 5 /\ Passed("clean") = 6 /\ Passed("tasks") = 7 /\ Passed("return") = 7
BY DEF Passed

LEMMA FitsOnce ==
  ASSUME NEW t, NEW e \in 0 .. 7, NEW f \in 0 .. 7, Fits(t, e), Fits(t, f),
         func.job \in Jobs, pool.flag = TRUE
  PROVE  e = f
<1>1. \/ Coming(t) /\ ~Gone(t) /\ ~InJob(t)
      \/ Gone(t) /\ ~Coming(t) /\ ~InJob(t)
      \/ InJob(t) /\ ~Coming(t) /\ ~Gone(t)
  BY DEF Fits, Coming, Gone, InJob, Stages, Jobs
<1>2. CASE Coming(t) /\ ~Gone(t) /\ ~InJob(t)
  BY <1>2 DEF Fits
<1>3. CASE Gone(t) /\ ~Coming(t) /\ ~InJob(t)
  BY <1>3 DEF Fits
<1>4. CASE InJob(t) /\ ~Coming(t) /\ ~Gone(t)
  <2>1. Passed(pc[t]) \in 0 .. 7
    BY DEF Passed
  <2> QED
    BY <1>4, <2>1 DEF Fits
<1> QED
  BY <1>1, <1>2, <1>3, <1>4

LEMMA DataGivesCurrentStep == IInv /\ DataInv => CurrentStep
<1> SUFFICES ASSUME IInv, DataInv, NEW t \in Threads, at[t] = "run",
                    pc[t] \in {"register", "take", "classify", "move", "permute", "save", "write",
                               "clean", "reset"}
             PROVE  /\ pc[t] \in {"take", "classify", "permute"} => built = Call(t)
                    /\ pc[t] \in {"move", "permute", "save", "write", "reset"} =>
                         sums = {Call(t)} \X Team(t)
                    /\ pc[t] = "write" => overflow_[t] = overflow
                    /\ pc[t] = "write" /\ t = last => full = {overflow_[t]} \ {None}
                    /\ pc[t] \in {"clean", "reset", "register"} => full = {}
  BY DEF CurrentStep
<1>1. /\ pool.flag = TRUE /\ done = FALSE /\ Working /\ t \in Members /\ InJob(t)
      /\ func.job # "alloc"
  BY WhereInJob DEF Stages
<1>2. PICK e \in 0 .. 7 : (\A u \in Members : Fits(u, e)) /\ Data(e)
  BY <1>1 DEF DataInv
<1>3. Passed(pc[t]) = e
  BY <1>1, <1>2, WhereWorking DEF Fits
<1>4. Call(t) = func.call /\ Team(t) = Members
  BY <1>1 DEF InJob, HasContext, Call, Team, Members
<1>5. CASE pc[t] \in {"register", "take", "classify", "move", "permute"}
  BY <1>2, <1>3, <1>4, <1>5 DEF Data, Passed
<1>6. CASE pc[t] \in {"save", "write"}
  <2>1. None \notin Members
    BY DEF None, Members
  <2> QED
    BY <1>1, <1>2, <1>3, <1>4, <1>6, <2>1 DEF Data, Passed
<1>7. CASE pc[t] \in {"clean", "reset"}
  BY <1>1, <1>2, <1>3, <1>4, <1>7 DEF Data, Passed, InJob
<1> QED
  BY <1>5, <1>6, <1>7

(* The steps of the pool leave the data alone.                             *)
LEMMA DataKept ==
  ASSUME UNCHANGED << jobVars, func, num_threads >>, sync'.taken = sync.taken,
         NEW e \in 0 .. 7, Data(e), 0 \in Members,
         \A u \in Members : \/ Passed(pc'[u]) = Passed(pc[u])
                            \/ e = 0 /\ Passed(pc'[u]) = 0,
         \A u \in Members : /\ At(u, "publish") => At(u, "publish")'
                            /\ At(u, "sample") => At(u, "sample")'
  PROVE  Data(e)'
<1>1. /\ UNCHANGED << built, sums, overflow, overflow_, full, last, func >> /\ Members' = Members
      /\ sync'.taken = sync.taken
  BY DEF jobVars, Members
<1>2. CASE e \in {0, 3}
  BY <1>1, <1>2 DEF Data
<1>3. CASE e \in {1, 2}
  <2>1. {u \in Members : Passed(pc[u]) = 2} = {u \in Members : Passed(pc'[u]) = 2}
    BY <1>3
  <2> QED
    BY <1>1, <1>3, <2>1 DEF Data
<1>4. CASE e \in {4, 5, 6, 7}
  BY <1>1, <1>4 DEF Data, Fresh
<1> QED
  BY <1>2, <1>3, <1>4

LEMMA TakenKept ==
  ASSUME IInv, NEW t \in Threads, PoolStep(t)
  PROVE  /\ sync'.taken = sync.taken /\ sync'.flag = sync.flag
         /\ \/ pool'.flag = pool.flag
            \/ \A u \in Threads : at'[u] = "pool" /\ flag'[u] = pool.flag
<1>1. sync'.taken = sync.taken /\ sync'.flag = sync.flag
  <2>1. CASE SetUp
    <3>1. TeamSize(call) \in 1 .. NumThreads /\ sync' = SetNumThreads(sync, TeamSize(call))
      BY <2>1, SettingUp, BothBarriers DEF SetUp, IInv
    <3> QED
      BY <3>1, BothBarriers, SetTyped DEF IInv
  <2>2. CASE ~SetUp
    BY <2>2 DEF PoolStep, Leave, EnterLoop, Test, Return, CallPool, Finish, Join
  <2> QED
    BY <2>1, <2>2
<1>2. \/ pool'.flag = pool.flag
      \/ at[t] = "run" /\ \E p : HitPool(t, p)
  BY DEF PoolStep, Leave, EnterLoop, Test, Return, CallPool, SetUp, Finish, Join, At
<1> QED
  BY <1>1, <1>2, PoolHit DEF IInv

LEMMA PoolData ==
  ASSUME IInv, IInv', DataInv, NEW t \in Threads, PoolStep(t), UNCHANGED jobVars
  PROVE  DataInv'
<1>1. /\ sync'.taken = sync.taken /\ sync'.flag = sync.flag
      /\ \/ pool'.flag = pool.flag
         \/ \A u \in Threads : at'[u] = "pool" /\ flag'[u] = pool.flag
      /\ overflow_' \in [Threads -> Int]
  BY TakenKept DEF DataInv, jobVars
<1>2. Fresh => Fresh'
  BY <1>1 DEF Fresh, jobVars
<1>3. 0 \in Members' /\ Members' \subseteq Threads
  <2>1. ASSUME NEW m \in 1 .. NumThreads
        PROVE  0 \in 0 .. m - 1 /\ 0 .. m - 1 \subseteq Threads
    BY ONLY ThreadPoolAssumption DEF Threads
  <2>2. Members' = 0 .. num_threads' - 1 /\ num_threads' \in 1 .. NumThreads
    BY DEF Members, IInv, TypeOK
  <2> QED
    BY ONLY <2>1, <2>2
<1>4. CASE pool.flag = FALSE
  <2>1. Fresh'
    BY <1>2, <1>4 DEF DataInv
  <2>2. ASSUME pool'.flag = TRUE, done' = FALSE, func'.job # "alloc"
        PROVE  \E e \in 0 .. 7 : (\A u \in Members' : Fits(u, e)') /\ Data(e)'
    <3>1. Working' /\ InStep'
      BY <2>2 DEF IInv, Phase, Working
    <3>2. \A u \in Threads : at'[u] = "pool" /\ flag'[u] = FALSE
      BY <1>1, <1>4, <2>2
    <3>3. \A u \in Members' : Coming(u)'
      BY <1>3, <3>1, <3>2 DEF InStep, Fits, InJob, Gone
    <3>4. \A u \in Members' : Fits(u, 0)'
      BY <3>3 DEF Fits
    <3>5. \A u \in Members' : Passed(pc'[u]) # 1
      <4>1. func'.job \in Jobs
        BY <3>1 DEF Working, Prepared
      <4>2. First[func'.job] \in {"alloc", "register"}
        BY <4>1, FirstStages
      <4> QED
        BY <3>3, <4>2 DEF Coming, Passed
    <3>6. Data(0)'
      BY <2>1, <3>5 DEF Data, Fresh
    <3> QED
      BY <3>4, <3>6
  <2> QED
    BY <1>1, <2>1, <2>2 DEF DataInv
<1>5. CASE pool.flag = TRUE /\ done = TRUE /\ Ending
  <2>1. \A u \in Threads : pc[u] \in {"ended", "join", "test"}
    BY <1>5 DEF Ending, Ends
  <2>2. UNCHANGED << pool, done >>
    BY <1>5, <2>1 DEF PoolStep, Leave, EnterLoop, Test, Return, CallPool, SetUp, Finish, Join, At
  <2> QED
    BY <1>1, <1>5, <2>2 DEF DataInv
<1>6. CASE pool.flag = TRUE /\ done = FALSE /\ Working
  <2>1. Leave(t) \/ Test(t) \/ Return(t)
    <3>1. ~(at[t] = "run" /\ pc[t] \in {"main", "call", "set_up"})
      BY <1>6, WhereIdle
    <3>2. ~At(t, "join")
      BY <1>6, WhereWorking DEF At, Coming, Gone, InJob, Stages, Jobs
    <3> QED
      BY <3>1, <3>2 DEF PoolStep, EnterLoop, CallPool, SetUp, Finish, Join, At
  <2>2. UNCHANGED << func, num_threads, done >> /\ Members' = Members
    BY <2>1 DEF Leave, Test, Return, Members
  <2>3. CASE func.job = "alloc"
    BY <1>1, <1>2, <1>6, <2>2, <2>3 DEF DataInv
  <2>4. CASE func.job # "alloc"
    <3>1. PICK e \in 0 .. 7 : (\A u \in Members : Fits(u, e)) /\ Data(e)
      BY <1>6, <2>4 DEF DataInv
    <3>2. PICK u \in Members : u # t
      <4>1. num_threads > 1 /\ num_threads \in Nat
        BY <1>6, ThreadPoolAssumption DEF Working, Prepared, IInv, TypeOK
      <4>2. 0 \in Members /\ 1 \in Members
        BY <4>1 DEF Members
      <4> QED
        BY <4>2
    <3>3. /\ u \in Threads /\ func.job \in Jobs
          /\ at'[u] = at[u] /\ flag'[u] = flag[u] /\ pc'[u] = pc[u] /\ ctx'[u] = ctx[u]
      BY <1>6, <2>1, <2>2, <1>3, <3>2, WhereWorking
      DEF Leave, Test, Return, HitPool, Start, Goto, IInv, TypeOK
    <3>4. CASE pool'.flag = FALSE
      <4>1. at[u] = "pool" /\ flag[u] = TRUE
        BY <1>1, <1>6, <3>3, <3>4
      <4>2. Gone(u)
        BY <1>6, <3>3, <4>1, WhereWorking DEF Coming, InJob
      <4>3. e = 7
        BY <3>1, <4>1, <3>2, <4>2 DEF Fits, Coming, InJob
      <4> QED
        BY <1>1, <1>2, <3>1, <3>4, <4>3 DEF Data, DataInv
    <3>5. CASE pool'.flag = TRUE
      <4>1. PICK f \in 0 .. 7 : \A v \in Members' : Fits(v, f)'
        BY <1>6, <2>2, <2>4, <3>5 DEF IInv, Phase, Working, InStep
      <4>2. Fits(u, f) /\ Fits(u, e)
        BY <1>1, <2>2, <3>1, <3>2, <3>3, <4>1, OthersFit
      <4>3. e = f
        BY <1>6, <3>3, <4>2, FitsOnce
      <4>4. /\ ~At(t, "publish") /\ ~At(t, "sample")
            /\ \A v \in Threads : v # t => at'[v] = at[v] /\ pc'[v] = pc[v]
        BY <2>1 DEF Leave, Test, Return, At, HitPool, Goto, IInv, TypeOK
      <4>5. ASSUME t \in Members
            PROVE  \/ Passed(pc'[t]) = Passed(pc[t])
                   \/ e = 0 /\ Passed(pc'[t]) = 0
        <5>1. CASE Leave(t)
          BY <5>1 DEF Leave
        <5>2. CASE Return(t)
          <6>1. pc[t] = "return" /\ pc'[t] \in {"call", "main"}
            BY <5>2 DEF Return, HitPool, Goto, At, IInv, TypeOK
          <6> QED
            BY <6>1 DEF Passed
        <5>3. CASE Test(t)
          <6>1. Coming(t) /\ ~Gone(t) /\ ~InJob(t) /\ t < num_threads
            <7>1. Coming(t) /\ ~Gone(t) /\ ~InJob(t)
              BY <1>6, <5>3, WhereTesting
            <7>2. num_threads \in Nat /\ t \in 0 .. num_threads - 1
              BY <4>5, ThreadPoolAssumption DEF Members, IInv, TypeOK
            <7> QED
              BY <7>1, <7>2
          <6>2. e = 0
            BY <3>1, <4>5, <6>1 DEF Fits
          <6>3. pc'[t] = First[func.job]
            BY <1>6, <5>3, <6>1 DEF Test, TakesPart, Goto, IInv, TypeOK
          <6> QED
            BY <2>4, <3>3, <6>2, <6>3, FirstStages
        <5> QED
          BY <2>1, <5>1, <5>2, <5>3
      <4>6. \A v \in Members : /\ At(v, "publish") => At(v, "publish")'
                               /\ At(v, "sample") => At(v, "sample")'
        BY <1>3, <2>2, <4>4 DEF At
      <4>7. \A v \in Members : \/ Passed(pc'[v]) = Passed(pc[v])
                               \/ e = 0 /\ Passed(pc'[v]) = 0
        BY <1>3, <2>2, <4>4, <4>5
      <4>8. Data(e)'
        BY <1>1, <1>3, <2>2, <3>1, <4>6, <4>7, DataKept
      <4> QED
        BY <1>1, <2>2, <2>4, <3>5, <4>1, <4>3, <4>8 DEF DataInv
    <3>6. pool'.flag \in BOOLEAN
      BY DEF IInv, Phase
    <3> QED
      BY <3>4, <3>5, <3>6
  <2> QED
    BY <2>3, <2>4
<1> QED
  BY <1>4, <1>5, <1>6 DEF IInv, Phase

(* A thread hits the barrier of the job: it opens or it does not.          *)
LEMMA NextBarrier ==
  ASSUME IInv, IInv', pool.flag = TRUE, Working, NEW t \in Members, InJob(t), at[t] = "run",
         NEW p, HitSync(t, p), SameCall, Passed(p) = Passed(pc[t]) + 1,
         NEW e \in 0 .. 7, \A u \in Members : Fits(u, e),
         NEW f \in 0 .. 7, \A u \in Members : Fits(u, f)'
  PROVE  \/ f = e /\ sync'.taken = sync.taken
         \/ /\ f = e + 1 /\ sync'.taken = FALSE
            /\ \A u \in Members \ {t} : at[u] = "sync" /\ Passed(pc[u]) = e + 1
<1>1. t \in Threads /\ Members \subseteq Threads
  BY MembersAreThreads DEF IInv
<1>2. at'[t] = "sync" /\ pc'[t] = p /\ flag'[t] = sync.flag
  BY <1>1 DEF HitSync, Goto, IInv, TypeOK
<1>3. Passed(pc[t]) = e
  BY <1>1, WhereWorking DEF Fits
<1>4. Fits(t, f)' /\ Passed(p) = e + 1
  BY <1>3
<1>5. \/ /\ sync'.flag = sync.flag /\ sync'.taken = sync.taken
      \/ /\ sync'.flag = ~sync.flag /\ sync'.taken = FALSE
         /\ \A u \in Members \ {t} : at[u] = "sync" /\ flag[u] = sync.flag
  BY SyncHit DEF IInv, SameCall
<1>6. CASE sync'.flag = sync.flag /\ sync'.taken = sync.taken
  <2>1. f + 1 = Passed(p)
    BY <1>2, <1>4, <1>6 DEF Fits, Coming, Gone
  <2> QED
    BY <1>4, <1>6, <2>1
<1>7. CASE /\ sync'.flag = ~sync.flag /\ sync'.taken = FALSE
           /\ \A u \in Members \ {t} : at[u] = "sync" /\ flag[u] = sync.flag
  <2>1. sync.flag \in BOOLEAN
    BY BothBarriers, BarrierFields DEF IInv
  <2>2. Passed(p) = f
    BY <1>2, <1>4, <1>7, <2>1 DEF Fits, Coming, Gone
  <2>3. \A u \in Members \ {t} : Passed(pc[u]) = e + 1
    BY <1>7 DEF Fits, Coming, Gone
  <2> QED
    BY <1>4, <1>7, <2>2, <2>3
<1> QED
  BY <1>5, <1>6, <1>7

LEMMA WorkingData ==
  ASSUME IInv, IInv', DataInv, pool.flag = TRUE, done = FALSE, Working, func.job # "alloc",
         NEW t \in Members, InJob(t), at[t] = "run", JobStep(t)
  PROVE  DataInv'
<1>1. /\ SameCall /\ t \in Threads /\ Members \subseteq Threads /\ 0 \in Members
      /\ Members' = Members /\ UNCHANGED << func, num_threads, pool, done >>
  <2>1. SameCall
    BY DEF JobStep, Alloc, Register, Single, Sample, Take, Classify, Move, Permute, Publish, Save,
           Write, Clean, Reset, ProcessTasks
  <2>2. num_threads \in Nat \ {0}
    BY ThreadPoolAssumption DEF IInv, TypeOK
  <2> QED
    BY <2>1, <2>2, MembersAreThreads DEF IInv, Members, SameCall
<1>2. PICK e \in 0 .. 7 : (\A u \in Members : Fits(u, e)) /\ Data(e)
  BY DEF DataInv
<1>3. Passed(pc[t]) = e
  BY <1>1, <1>2, WhereWorking DEF Fits
<1>4. PICK f \in 0 .. 7 : \A u \in Members : Fits(u, f)'
  <2>1. Working'
    BY <1>1 DEF IInv, Phase
  <2> QED
    BY <1>1, <2>1 DEF Working, InStep
<1>5. Call(t) = func.call /\ Team(t) = Members
  BY DEF InJob, HasContext, Call, Team, Members
<1>6. \A u \in Members : u # t => at'[u] = at[u] /\ pc'[u] = pc[u]
  BY <1>1 DEF JobStep, Alloc, Register, Single, Sample, Take, Classify, Move, Permute, Publish, Save,
     Write, Clean, Reset, ProcessTasks, Step, HitSync, Goto, IInv, TypeOK
<1>7. Data(f)' => DataInv'
  <2>1. overflow \in Int \/ ~Save(t)
    BY <1>2, <1>3 DEF Save, At, Passed, Data, None, Members
  <2>2. \/ overflow_' = overflow_
        \/ \E x \in Int : overflow_' = [overflow_ EXCEPT ![t] = x]
    BY <1>1, <2>1 DEF JobStep, Alloc, Register, Single, Sample, Take, Classify, Move, Permute,
       Publish, Save, Write, Clean, Reset, ProcessTasks, jobVars, None, Threads
  <2>3. overflow_' \in [Threads -> Int]
    BY <2>2 DEF DataInv
  <2> QED
    BY <1>1, <1>4, <2>3 DEF DataInv
<1>8. ASSUME NEW p, Goto(t, p)
      PROVE  pc'[t] = p
  BY <1>1, <1>8 DEF Goto, IInv, TypeOK
<1>9. ASSUME NEW p, Goto(t, p), UNCHANGED << at, flag >>, Passed(p) = e, p # "test"
      PROVE  f = e
  <2>1. pc'[t] = p /\ at'[t] = "run"
    BY <1>8, <1>9
  <2> QED
    BY <1>1, <1>4, <1>9, <2>1 DEF Fits, Coming, Gone
<1>10. ASSUME NEW p, HitSync(t, p), Passed(p) = e + 1
       PROVE  /\ pc'[t] = p /\ at'[t] = "sync"
              /\ \/ f = e /\ sync'.taken = sync.taken
                 \/ /\ f = e + 1 /\ sync'.taken = FALSE
                    /\ \A u \in Members \ {t} : at[u] = "sync" /\ Passed(pc[u]) = e + 1
  <2>1. pc'[t] = p /\ at'[t] = "sync"
    BY <1>1, <1>10 DEF HitSync, Goto, IInv, TypeOK
  <2> QED
    BY <1>1, <1>2, <1>3, <1>4, <1>10, <2>1, NextBarrier
<1>11. CASE Register(t) \/ Single(t) \/ Sample(t)
  <2>1. e = 0 /\ (Sample(t) => sync.taken)
    BY <1>1, <1>3, <1>11 DEF Register, Single, Sample, At, Passed, IInv, Alone
  <2>2. CASE Register(t)
    <3>1. pc'[t] = "single" /\ f = 0 /\ UNCHANGED << at, sync, jobVars >>
      BY <1>8, <1>9, <2>1, <2>2 DEF Register, Step, Passed
    <3>2. ~At(t, "sample")
      BY <2>2 DEF Register, At
    <3> QED
      BY <1>1, <1>2, <1>6, <1>7, <2>1, <3>1, <3>2 DEF Data, Passed, At, jobVars
  <2>3. CASE Single(t) /\ ~sync.taken
    <3>1. pc'[t] = "sample" /\ f = 0 /\ UNCHANGED << at, jobVars >>
      BY <1>8, <1>9, <2>1, <2>3 DEF Single, Passed
    <3>2. sync'.taken = TRUE
      <4>1. sync' = [sync EXCEPT !.taken = TRUE]
        BY <2>3 DEF Single
      <4> QED
        BY <4>1, BothBarriers, TakenTyped DEF IInv
    <3> QED
      BY <1>1, <1>2, <1>7, <2>1, <3>1, <3>2 DEF Data, At, jobVars
  <2>4. CASE (Single(t) /\ sync.taken) \/ Sample(t)
    <3>1. /\ HitSync(t, "take") /\ UNCHANGED << sums, overflow, full, last, overflow_ >> /\ sync.taken
          /\ Sample(t) => built' = func.call
          /\ ~Sample(t) => built' = built /\ ~At(t, "sample")
      BY <1>5, <2>1, <2>4 DEF Single, Sample, jobVars, At
    <3>2. /\ pc'[t] = "take" /\ at'[t] = "sync"
          /\ \/ f = 0 /\ sync'.taken = sync.taken
             \/ /\ f = 1 /\ sync'.taken = FALSE
                /\ \A u \in Members \ {t} : at[u] = "sync" /\ Passed(pc[u]) = 1
      <4>1. HitSync(t, "take") /\ Passed("take") = e + 1
        BY <2>1, <3>1, PassedAt
      <4>2. /\ pc'[t] = "take" /\ at'[t] = "sync"
            /\ \/ f = e /\ sync'.taken = sync.taken
               \/ /\ f = e + 1 /\ sync'.taken = FALSE
                  /\ \A u \in Members \ {t} : at[u] = "sync" /\ Passed(pc[u]) = e + 1
        BY <1>10, <4>1
      <4> QED
        BY <2>1, <4>2
    <3>3. CASE f = 0 /\ sync'.taken = sync.taken
      <4>1. built' = func.call \/ \E u \in Members : At(u, "sample")'
        BY <1>2, <1>6, <2>1, <3>1 DEF Data, At
      <4> QED
        BY <1>1, <1>2, <1>7, <2>1, <3>1, <3>3, <4>1 DEF Data
    <3>4. CASE /\ f = 1 /\ sync'.taken = FALSE
               /\ \A u \in Members \ {t} : at[u] = "sync" /\ Passed(pc[u]) = 1
      <4>1. built' = func.call
        BY <1>2, <2>1, <3>1, <3>4 DEF Data, At
      <4>2. {u \in Members : Passed(pc'[u]) = 2} = {}
        BY <1>6, <3>2, <3>4 DEF Passed
      <4>3. sums' = {func.call} \X {u \in Members : Passed(pc'[u]) = 2}
        BY <1>2, <2>1, <3>1, <4>2 DEF Data
      <4> QED
        BY <1>1, <1>2, <1>7, <2>1, <3>1, <3>4, <4>1, <4>3 DEF Data
    <3> QED
      BY <3>2, <3>3, <3>4
  <2> QED
    BY <1>11, <2>2, <2>3, <2>4
<1>12. CASE Take(t) \/ Classify(t)
  <2>1. e = 1
    BY <1>3, <1>12 DEF Take, Classify, At, Passed
  <2>2. CASE Take(t)
    <3>1. pc'[t] = "classify" /\ f = 1 /\ UNCHANGED << at, sync, built, sums, overflow, full, last >>
      BY <1>8, <1>9, <2>1, <2>2 DEF Take, Step, Passed
    <3>2. {u \in Members : Passed(pc'[u]) = 2} = {u \in Members : Passed(pc[u]) = 2}
      BY <1>3, <1>6, <2>1, <3>1 DEF Passed
    <3> QED
      BY <1>1, <1>2, <1>7, <2>1, <3>1, <3>2 DEF Data
  <2>3. CASE Classify(t)
    <3>1. /\ HitSync(t, "move") /\ sums' = sums \cup {<< func.call, t >>}
          /\ UNCHANGED << built, overflow, overflow_, full, last >>
      BY <1>5, <2>3 DEF Classify
    <3>2. /\ pc'[t] = "move"
          /\ \/ f = 1 /\ sync'.taken = sync.taken
             \/ /\ f = 2 /\ sync'.taken = FALSE
                /\ \A u \in Members \ {t} : at[u] = "sync" /\ Passed(pc[u]) = 2
      <4>1. HitSync(t, "move") /\ Passed("move") = e + 1
        BY <2>1, <3>1, PassedAt
      <4>2. /\ pc'[t] = "move" /\ at'[t] = "sync"
            /\ \/ f = e /\ sync'.taken = sync.taken
               \/ /\ f = e + 1 /\ sync'.taken = FALSE
                  /\ \A u \in Members \ {t} : at[u] = "sync" /\ Passed(pc[u]) = e + 1
        BY <1>10, <4>1
      <4> QED
        BY <4>2, <2>1
    <3>3. {u \in Members : Passed(pc'[u]) = 2} = {u \in Members : Passed(pc[u]) = 2} \cup {t}
      BY <1>6, <3>2 DEF Passed
    <3>4. sums = {func.call} \X {u \in Members : Passed(pc[u]) = 2}
      BY <1>2, <2>1 DEF Data
    <3>5. sums' = {func.call} \X {u \in Members : Passed(pc'[u]) = 2}
      BY <3>1, <3>3, <3>4
    <3>6. f = 2 => {u \in Members : Passed(pc'[u]) = 2} = Members
      BY <3>2, <3>3
    <3> QED
      BY <1>1, <1>2, <1>7, <2>1, <3>1, <3>2, <3>5, <3>6 DEF Data
  <2> QED
    BY <1>12, <2>2, <2>3
<1>13. CASE Move(t)
  <2>1. e = 2 /\ HitSync(t, "permute") /\ UNCHANGED << built, sums, overflow, overflow_, full, last >>
    BY <1>3, <1>13 DEF Move, At, Passed, jobVars
  <2>2. f \in {2, 3} /\ (sync'.taken = sync.taken \/ sync'.taken = FALSE)
    <3>1. HitSync(t, "permute") /\ Passed("permute") = e + 1
      BY <2>1, PassedAt
    <3>2. /\ pc'[t] = "permute" /\ at'[t] = "sync"
          /\ \/ f = e /\ sync'.taken = sync.taken
             \/ /\ f = e + 1 /\ sync'.taken = FALSE
                /\ \A u \in Members \ {t} : at[u] = "sync" /\ Passed(pc[u]) = e + 1
      BY <1>10, <3>1
    <3> QED
      BY <2>1, <3>2
  <2> QED
    BY <1>1, <1>2, <1>7, <2>1, <2>2 DEF Data
<1>14. CASE Permute(t) \/ Publish(t)
  <2>1. e = 3 /\ last \in Members \cup {last}
    BY <1>3, <1>14 DEF Permute, Publish, At, Passed
  <2>2. CASE Permute(t) /\ Step(t, "publish")
    <3>1. /\ pc'[t] = "publish" /\ f = 3 /\ full = {} /\ full' = {t} /\ last' \in Members
          /\ UNCHANGED << at, sync, built, sums, overflow >>
      <4>1. full = {} /\ full' = {t} /\ \E u \in Team(t) : last' = u
        BY <1>1, <2>2 DEF Permute, Step, HitSync, Goto, IInv, TypeOK
      <4> QED
        BY <1>5, <1>8, <1>9, <2>1, <2>2, <4>1 DEF Permute, Step, Passed
    <3>2. overflow = None
      <4>1. None \notin Members
        BY DEF None, Members
      <4> QED
        BY <1>2, <2>1, <3>1, <4>1 DEF Data
    <3>3. At(t, "publish")'
      BY <3>1 DEF At
    <3> QED
      BY <1>1, <1>2, <1>7, <2>1, <3>1, <3>2, <3>3 DEF Data
  <2>3. CASE Permute(t) /\ HitSync(t, "save")
    <3>1. UNCHANGED << built, sums, overflow, overflow_, full, last >> /\ ~At(t, "publish")
      BY <1>1, <2>3 DEF Permute, Step, HitSync, Goto, At, IInv, TypeOK
    <3>2. /\ pc'[t] = "save"
          /\ \/ f = 3 /\ sync'.taken = sync.taken
             \/ /\ f = 4 /\ sync'.taken = FALSE
                /\ \A u \in Members \ {t} : at[u] = "sync" /\ Passed(pc[u]) = 4
      <4>1. HitSync(t, "save") /\ Passed("save") = e + 1
        BY <2>1, <2>3, PassedAt
      <4>2. /\ pc'[t] = "save" /\ at'[t] = "sync"
            /\ \/ f = e /\ sync'.taken = sync.taken
               \/ /\ f = e + 1 /\ sync'.taken = FALSE
                  /\ \A u \in Members \ {t} : at[u] = "sync" /\ Passed(pc[u]) = e + 1
        BY <1>10, <4>1
      <4> QED
        BY <2>1, <4>2
    <3>3. CASE f = 3 /\ sync'.taken = sync.taken
      <4>1. \A u \in Members : At(u, "publish") => At(u, "publish")'
        BY <1>6, <3>1 DEF At
      <4> QED
        BY <1>1, <1>2, <1>7, <2>1, <3>1, <3>3, <4>1 DEF Data
    <3>4. CASE /\ f = 4 /\ sync'.taken = FALSE
               /\ \A u \in Members \ {t} : at[u] = "sync" /\ Passed(pc[u]) = 4
      <4>1. \A u \in Members : ~At(u, "publish")
        BY <3>1, <3>4 DEF At
      <4>2. \A u \in Members : Passed(pc'[u]) # 5
        BY <1>6, <3>2, <3>4 DEF Passed
      <4> QED
        BY <1>1, <1>2, <1>7, <2>1, <3>1, <3>4, <4>1, <4>2 DEF Data
    <3> QED
      BY <3>2, <3>3, <3>4
  <2>4. CASE Publish(t)
    <3>1. /\ HitSync(t, "save") /\ overflow' = t /\ full = {t}
          /\ UNCHANGED << built, sums, overflow_, full, last >>
      BY <1>1, <2>4 DEF Publish, IInv, Alone
    <3>2. last \in Members
      BY <1>2, <2>1, <3>1 DEF Data
    <3>3. /\ pc'[t] = "save"
          /\ \/ f = 3 /\ sync'.taken = sync.taken
             \/ /\ f = 4 /\ sync'.taken = FALSE
                /\ \A u \in Members \ {t} : at[u] = "sync" /\ Passed(pc[u]) = 4
      <4>1. HitSync(t, "save") /\ Passed("save") = e + 1
        BY <2>1, <3>1, PassedAt
      <4>2. /\ pc'[t] = "save" /\ at'[t] = "sync"
            /\ \/ f = e /\ sync'.taken = sync.taken
               \/ /\ f = e + 1 /\ sync'.taken = FALSE
                  /\ \A u \in Members \ {t} : at[u] = "sync" /\ Passed(pc[u]) = e + 1
        BY <1>10, <4>1
      <4> QED
        BY <2>1, <4>2
    <3>4. f = 4 => \A u \in Members : Passed(pc'[u]) # 5
      BY <1>6, <3>3 DEF Passed
    <3> QED
      BY <1>1, <1>2, <1>7, <2>1, <3>1, <3>2, <3>3, <3>4 DEF Data
  <2> QED
    BY <1>14, <2>2, <2>3, <2>4 DEF Permute
<1>15. CASE Save(t)
  <2>1. /\ e = 4 /\ HitSync(t, "write") /\ overflow_' = [overflow_ EXCEPT ![t] = overflow]
        /\ UNCHANGED << built, sums, overflow, full, last >>
    BY <1>3, <1>15 DEF Save, At, Passed
  <2>2. /\ pc'[t] = "write"
        /\ \/ f = 4 /\ sync'.taken = sync.taken
           \/ /\ f = 5 /\ sync'.taken = FALSE
              /\ \A u \in Members \ {t} : at[u] = "sync" /\ Passed(pc[u]) = 5
    <3>1. HitSync(t, "write") /\ Passed("write") = e + 1
      BY <2>1, PassedAt
    <3>2. /\ pc'[t] = "write" /\ at'[t] = "sync"
          /\ \/ f = e /\ sync'.taken = sync.taken
             \/ /\ f = e + 1 /\ sync'.taken = FALSE
                /\ \A u \in Members \ {t} : at[u] = "sync" /\ Passed(pc[u]) = e + 1
      BY <1>10, <3>1
    <3> QED
      BY <2>1, <3>2
  <2>3. overflow_'[t] = overflow /\ \A u \in Members : u # t => overflow_'[u] = overflow_[u]
    BY <1>1, <2>1 DEF DataInv
  <2> QED
    BY <1>1, <1>2, <1>6, <1>7, <2>1, <2>2, <2>3 DEF Data, Passed
<1>16. CASE Write(t)
  <2>1. /\ e = 5 /\ HitSync(t, "clean")
        /\ full' = IF t = last THEN full \ {overflow_[t]} ELSE full
        /\ UNCHANGED << built, sums, overflow, overflow_, last >>
    BY <1>3, <1>16 DEF Write, At, Passed
  <2>2. /\ pc'[t] = "clean"
        /\ \/ f = 5 /\ sync'.taken = sync.taken
           \/ /\ f = 6 /\ sync'.taken = FALSE
              /\ \A u \in Members \ {t} : at[u] = "sync" /\ Passed(pc[u]) = 6
    <3>1. HitSync(t, "clean") /\ Passed("clean") = e + 1
      BY <2>1, PassedAt
    <3>2. /\ pc'[t] = "clean" /\ at'[t] = "sync"
          /\ \/ f = e /\ sync'.taken = sync.taken
             \/ /\ f = e + 1 /\ sync'.taken = FALSE
                /\ \A u \in Members \ {t} : at[u] = "sync" /\ Passed(pc[u]) = e + 1
      BY <1>10, <3>1
    <3> QED
      BY <2>1, <3>2
  <2>3. overflow_[t] = overflow
    BY <1>2, <2>1 DEF Data
  <2>4. \/ overflow = None /\ full' = {}
        \/ /\ last \in Members /\ overflow \in Members
           /\ full' = IF Passed(pc'[last]) = 5 THEN {overflow} ELSE {}
    <3>1. \/ overflow = None /\ full = {}
          \/ /\ last \in Members /\ overflow \in Members
             /\ full = IF Passed(pc[last]) = 5 THEN {overflow} ELSE {}
      BY <1>2, <2>1 DEF Data
    <3>2. Passed(pc[t]) = 5 /\ Passed(pc'[t]) = 6
      BY <1>3, <2>1, <2>2, PassedAt
    <3>3. CASE t = last
      BY <2>1, <2>3, <3>1, <3>2, <3>3
    <3>4. CASE t # last
      BY <1>6, <2>1, <3>1, <3>4
    <3> QED
      BY <3>3, <3>4
  <2>5. f = 6 => full' = {}
    BY <1>6, <2>2, <2>4 DEF Passed
  <2>6. f = 6 => Passed(pc'[0]) = 6
    BY <1>1, <1>6, <2>2 DEF Passed
  <2> QED
    BY <1>1, <1>2, <1>7, <2>1, <2>2, <2>4, <2>5, <2>6 DEF Data
<1>17. CASE Clean(t) \/ Reset(t)
  <2>1. e = 6 /\ (Reset(t) => t = 0)
    BY <1>3, <1>17 DEF Clean, Reset, At, Passed, InJob
  <2>2. CASE Clean(t) /\ t = 0
    <3>1. pc'[t] = "reset" /\ f = 6 /\ UNCHANGED << at, sync, jobVars >>
      BY <1>8, <1>9, <2>1, <2>2 DEF Clean, Step, Passed
    <3> QED
      BY <1>1, <1>2, <1>3, <1>7, <2>1, <2>2, <3>1 DEF Data, Passed, jobVars
  <2>3. CASE (Clean(t) /\ t # 0) \/ Reset(t)
    <3>1. PICK p \in {"tasks", "return"} : HitSync(t, p)
      BY <2>1, <2>3 DEF Clean, Reset
    <3>2. /\ pc'[t] = p
          /\ \/ f = 6 /\ sync'.taken = sync.taken
             \/ /\ f = 7 /\ sync'.taken = FALSE
                /\ \A u \in Members \ {t} : at[u] = "sync" /\ Passed(pc[u]) = 7
      <4>1. HitSync(t, p) /\ Passed(p) = e + 1
        BY <2>1, <3>1, PassedAt
      <4>2. /\ pc'[t] = p /\ at'[t] = "sync"
            /\ \/ f = e /\ sync'.taken = sync.taken
               \/ /\ f = e + 1 /\ sync'.taken = FALSE
                  /\ \A u \in Members \ {t} : at[u] = "sync" /\ Passed(pc[u]) = e + 1
        BY <1>10, <4>1
      <4> QED
        BY <2>1, <4>2
    <3>3. full' = full /\ (Reset(t) => sums' = {} /\ overflow' = None)
          /\ (~Reset(t) => UNCHANGED << sums, overflow >>)
      BY <2>3 DEF Clean, Reset, jobVars
    <3>4. full' = {} /\ IF Passed(pc'[0]) = 6 THEN sums' = {func.call} \X Members
                                               ELSE sums' = {} /\ overflow' = None
      BY <1>1, <1>2, <1>6, <2>1, <2>3, <3>2, <3>3 DEF Data, Passed
    <3>5. f = 7 => Passed(pc'[0]) = 7
      BY <1>1, <1>6, <3>2 DEF Passed
    <3> QED
      BY <1>1, <1>2, <1>7, <2>1, <3>2, <3>4, <3>5 DEF Data, Fresh
  <2> QED
    BY <1>17, <2>1, <2>2, <2>3
<1>18. CASE Alloc(t) \/ ProcessTasks(t)
  <2>1. e = 7 /\ UNCHANGED << jobVars, sync >>
    BY <1>3, <1>18 DEF Alloc, ProcessTasks, Step, At, Passed
  <2>2. f = 7
    BY <1>9, <1>18, <2>1 DEF Alloc, ProcessTasks, Step, Passed
  <2> QED
    BY <1>2, <1>7, <2>1, <2>2 DEF Data, Fresh, jobVars
<1> QED
  BY <1>11, <1>12, <1>13, <1>14, <1>15, <1>16, <1>17, <1>18 DEF JobStep

LEMMA JobData ==
  ASSUME IInv, IInv', DataInv, NEW t \in Threads, JobStep(t)
  PROVE  DataInv'
<1>1. SameCall /\ at[t] = "run" /\ pc[t] \in Stages("sort") \cup {"alloc"} /\ pc[t] # "return"
  BY DEF JobStep, Alloc, Register, Single, Sample, Take, Classify, Move, Permute, Publish, Save,
         Write, Clean, Reset, ProcessTasks, At, Stages
<1>2. CASE pc[t] = "alloc"
  <2>1. UNCHANGED << jobVars, sync >> /\ Fresh
    <3>1. UNCHANGED << jobVars, sync >>
      BY <1>2 DEF JobStep, Alloc, Register, Single, Sample, Take, Classify, Move, Permute, Publish,
             Save, Write, Clean, Reset, ProcessTasks, Step, At
    <3>2. pool.flag = FALSE \/ (pool.flag = TRUE /\ done = FALSE /\ func.job = "alloc")
      BY <1>1, <1>2, WhereInJob DEF InJob, Stages
    <3> QED
      BY <3>1, <3>2 DEF DataInv
  <2>2. pool'.flag = FALSE \/ func'.job = "alloc"
    BY <1>1, <1>2, WhereInJob DEF InJob, Stages, SameCall
  <2> QED
    BY <2>1, <2>2 DEF DataInv, Fresh, jobVars
<1>3. CASE pc[t] # "alloc"
  BY <1>1, <1>3, WhereInJob, WorkingData
<1> QED
  BY <1>2, <1>3

LEMMA DataInductive == IInv /\ IInv' /\ DataInv /\ [Next]_vars => DataInv'
<1> SUFFICES ASSUME IInv, IInv', DataInv, [Next]_vars PROVE DataInv'
  OBVIOUS
<1>1. ASSUME NEW t \in Threads, ThreadStep(t)
      PROVE  DataInv'
  BY <1>1, PoolData, JobData DEF ThreadStep
<1>2. CASE UNCHANGED vars
  <2>1. /\ UNCHANGED << pc, at, func, num_threads, done, pool, sync, flag, ctx >>
        /\ UNCHANGED << built, sums, overflow, overflow_, full, last >>
    BY <1>2 DEF vars, poolVars, jobVars
  <2>2. Fresh' = Fresh /\ Members' = Members
    BY <2>1 DEF Fresh, Members
  <2>3. ASSUME NEW e, NEW u
        PROVE  Fits(u, e)' = Fits(u, e)
    BY <2>1 DEF Coming, Gone, InJob, HasContext, Fits
  <2>4. ASSUME NEW e
        PROVE  Data(e)' = Data(e)
    BY <2>1, <2>2 DEF Data, At
  <2> QED
    BY <2>1, <2>2, <2>3, <2>4 DEF DataInv
<1> QED
  BY <1>1, <1>2 DEF Next, Finished

(* Whatever the number of threads, the calls and the teams: what a thread  *)
(* reads of the shared data was written in the same call, by all threads   *)
(* that had to write it, and nothing that an earlier call or a big task    *)
(* has left behind is ever seen.                                           *)
THEOREM StepsAreCurrent == Spec => []CurrentStep
<1>1. SorterInit => DataInv
  BY DEF SorterInit, Init, NewBarrier, DataInv, Fresh, None
<1>2. Spec => []IInv
  BY Initially, Inductive, PTL DEF Spec
<1>3. Spec => []DataInv
  BY <1>1, <1>2, DataInductive, PTL DEF Spec
<1> QED
  BY <1>2, <1>3, DataGivesCurrentStep, PTL

-----------------------------------------------------------------------------
(* Which calls the threads have executed.                                  *)

Due(t) == {c \in 1 .. call : t < TeamSize(c)}
Has(t) == {ran[t][i] : i \in DOMAIN ran[t]}
Ordered(s) == \A i, j \in DOMAIN s : i < j => s[i] < s[j]

(* The current call has begun, and t has yet to start it.                  *)
Pending(t) ==
  IF t = 0 THEN At(0, "set_up")
  ELSE /\ done = FALSE
       /\ \/ pool.flag = FALSE /\ (At(0, "set_up") \/ (at[0] = "pool" /\ flag[0] = FALSE))
          \/ pool.flag = TRUE /\ Coming(t)

Row(t) ==
  /\ ran[t] \in Seq(Nat) /\ Ordered(ran[t])
  /\ Has(t) = Due(t) \ (IF Pending(t) THEN {call} ELSE {})

(* What thread 0 has written for the others is about the current call.     *)
Begun == done = FALSE /\ (pool.flag = TRUE \/ (at[0] = "pool" /\ flag[0] = FALSE))

Announced == Begun => call > 0 /\ func.call = call /\ num_threads = TeamSize(call)

RanInv == DOMAIN ran = Threads /\ (\A t \in Threads : Row(t)) /\ Announced

LEMMA RanGivesCallsInStep == IInv /\ RanInv => CallsInStep
<1> SUFFICES ASSUME IInv, RanInv, NEW t \in Threads
             PROVE  /\ Ordered(ran[t])
                    /\ \/ Has(t) = Due(t)
                       \/ /\ ~(at[0] = "run" /\ pc[0] \in {"call", "join", "ended"})
                          /\ call \in Due(t) /\ Has(t) = Due(t) \ {call}
  BY DEF CallsInStep, Ordered, Has, Due
<1>1. Ordered(ran[t]) /\ Has(t) = Due(t) \ (IF Pending(t) THEN {call} ELSE {})
  BY DEF RanInv, Row
<1>2. CASE Pending(t) /\ call \in Due(t)
  <2>1. ~(at[0] = "run" /\ pc[0] \in {"call", "join", "ended"})
    <3>1. CASE t # 0 /\ pool.flag = TRUE
      <4>1. Working /\ 0 \in Threads
        BY <1>2, <3>1, MembersAreThreads DEF Pending, IInv, Phase
      <4> QED
        BY <4>1, WhereWorking DEF Coming, Gone, InJob, Stages, Jobs
    <3>2. CASE t = 0 \/ pool.flag # TRUE
      BY <1>2, <3>2 DEF Pending, At
    <3> QED
      BY <3>1, <3>2
  <2> QED
    BY <1>1, <1>2, <2>1
<1>3. CASE ~Pending(t) \/ call \notin Due(t)
  <2>1. Has(t) = Due(t)
    BY <1>1, <1>3
  <2> QED
    BY <1>1, <2>1
<1> QED
  BY <1>2, <1>3

LEMMA Appended ==
  ASSUME NEW s \in Seq(Nat), Ordered(s), NEW c \in Nat, \A i \in DOMAIN s : s[i] < c
  PROVE  /\ Append(s, c) \in Seq(Nat) /\ Ordered(Append(s, c))
         /\ {Append(s, c)[i] : i \in DOMAIN Append(s, c)} = {s[i] : i \in DOMAIN s} \cup {c}
<1>1. /\ Append(s, c) \in Seq(Nat) /\ DOMAIN Append(s, c) = 1 .. Len(s) + 1
      /\ DOMAIN s = 1 .. Len(s) /\ Len(s) \in Nat
      /\ Append(s, c)[Len(s) + 1] = c
      /\ \A i \in 1 .. Len(s) : Append(s, c)[i] = s[i] /\ s[i] \in Nat
  BY AppendProperties, LenProperties, ElementOfSeq
<1>2. Ordered(Append(s, c))
  <2> SUFFICES ASSUME NEW i \in 1 .. Len(s) + 1, NEW j \in 1 .. Len(s) + 1, i < j
               PROVE  Append(s, c)[i] < Append(s, c)[j]
    BY <1>1 DEF Ordered
  <2>1. i \in 1 .. Len(s)
    BY <1>1
  <2>2. CASE j \in 1 .. Len(s)
    <3>1. s[i] < s[j]
      BY <1>1, <2>1, <2>2 DEF Ordered
    <3> QED
      BY <1>1, <2>1, <2>2, <3>1
  <2>3. CASE j = Len(s) + 1
    BY <1>1, <2>1, <2>3
  <2> QED
    BY <1>1, <2>2, <2>3
<1>3. ASSUME NEW x
      PROVE  (\E i \in DOMAIN Append(s, c) : x = Append(s, c)[i])
               <=> (\E i \in DOMAIN s : x = s[i]) \/ x = c
  <2>1. ASSUME NEW i \in DOMAIN Append(s, c), x = Append(s, c)[i]
        PROVE  (\E k \in DOMAIN s : x = s[k]) \/ x = c
    <3>1. i \in 1 .. Len(s) \/ i = Len(s) + 1
      BY <1>1
    <3> QED
      BY <1>1, <2>1, <3>1
  <2>2. ASSUME NEW i \in DOMAIN s, x = s[i]
        PROVE  \E k \in DOMAIN Append(s, c) : x = Append(s, c)[k]
    <3>1. i \in DOMAIN Append(s, c) /\ x = Append(s, c)[i]
      BY <1>1, <2>2
    <3> QED
      BY <3>1
  <2>3. Len(s) + 1 \in DOMAIN Append(s, c)
    BY <1>1
  <2> QED
    BY <1>1, <2>1, <2>2, <2>3
<1>4. {Append(s, c)[i] : i \in DOMAIN Append(s, c)} = {s[i] : i \in DOMAIN s} \cup {c}
  BY <1>3
<1> QED
  BY <1>1, <1>2, <1>4

(* A thread whose calls a step leaves as they are.                         *)
LEMMA RowKept ==
  ASSUME NEW t \in Threads, Row(t), ran'[t] = ran[t], call' = call,
         \A c \in 1 .. call : TeamSize(c)' = TeamSize(c),
         (Pending(t)' <=> Pending(t)) \/ call \notin Due(t)
  PROVE  Row(t)'
<1>1. Due(t)' = Due(t) /\ Has(t)' = Has(t)
  BY DEF Due, Has
<1> QED
  BY <1>1 DEF Row

(* A thread that starts the current call.                                  *)
LEMMA RowStarts ==
  ASSUME NEW t \in Threads, ran[t] \in Seq(Nat), Ordered(ran[t]), NEW c \in Nat \ {0},
         ran'[t] = Append(ran[t], c), call' = c, ~Pending(t)',
         Has(t) \subseteq 1 .. c - 1, Due(t)' = Has(t) \cup {c}
  PROVE  Row(t)'
<1>1. ASSUME NEW i \in DOMAIN ran[t]
      PROVE  ran[t][i] < c
  <2>1. ran[t][i] \in Has(t)
    BY DEF Has
  <2>2. ran[t][i] \in 1 .. c - 1
    BY <2>1
  <2> QED
    BY <2>2
<1>2. /\ Append(ran[t], c) \in Seq(Nat) /\ Ordered(Append(ran[t], c))
      /\ {Append(ran[t], c)[i] : i \in DOMAIN Append(ran[t], c)} = Has(t) \cup {c}
  BY <1>1, Appended DEF Has
<1>3. Has(t)' = Has(t) \cup {c}
  BY <1>2 DEF Has
<1> QED
  BY <1>2, <1>3 DEF Row

LEMMA CallNumbered ==
  ASSUME TypeOK
  PROVE  call \in Nat /\ Len(life.calls) \in Nat /\ call <= Len(life.calls)
<1>1. Len(life.calls) \in Nat
  BY ParallelSorterAssumption DEF TypeOK
<1> QED
  BY <1>1 DEF TypeOK

LEMMA TeamsStay ==
  ASSUME IInv, UNCHANGED life, (num_threads' = num_threads) \/ SetUp
  PROVE  \A c \in 1 .. call : TeamSize(c)' = TeamSize(c)
<1>1. CASE num_threads' = num_threads
  BY <1>1 DEF TeamSize, Available
<1>2. CASE SetUp
  <2>1. call \in 1 .. Len(life.calls) /\ TeamSize(call) \in 2 .. NumThreads
    BY <1>2, SettingUp DEF SetUp
  <2>2. num_threads' = TeamSize(call) /\ num_threads \in Nat
    BY <1>2, ThreadPoolAssumption DEF SetUp, IInv, TypeOK
  <2>3. CASE life.kind = "std"
    BY <2>3 DEF TeamSize, Available
  <2>4. CASE life.kind # "std"
    <3>1. call = 1
      BY <2>1, <2>4, CallNumbered, ParallelSorterAssumption DEF IInv, TypeOK
    <3>2. life.calls[1].n \in Nat
      BY <2>1, <3>1, CallsTyped DEF IInv
    <3>3. TeamSize(1) = IF life.calls[1].n < num_threads THEN life.calls[1].n ELSE num_threads
      BY <2>4 DEF TeamSize, Available
    <3>4. TeamSize(1)' = IF life.calls[1].n < TeamSize(1) THEN life.calls[1].n ELSE TeamSize(1)
      BY <2>2, <2>4, <3>1 DEF TeamSize, Available
    <3>5. TeamSize(1)' = TeamSize(1)
      BY <2>2, <3>2, <3>3, <3>4
    <3> QED
      BY <3>1, <3>5
  <2> QED
    BY <2>3, <2>4
<1> QED
  BY <1>1, <1>2

LEMMA AnnouncedKept ==
  ASSUME TypeOK, Announced, UNCHANGED << call, func, num_threads >>, Begun' => Begun,
         \A c \in 1 .. call : TeamSize(c)' = TeamSize(c)
  PROVE  Announced'
<1>1. SUFFICES ASSUME Begun' PROVE (call > 0 /\ func.call = call /\ num_threads = TeamSize(call))'
  BY DEF Announced
<1>2. call > 0 /\ func.call = call /\ num_threads = TeamSize(call)
  BY <1>1 DEF Announced
<1>3. call \in 1 .. call
  BY <1>2, CallNumbered
<1> QED
  BY <1>2, <1>3

LEMMA LeaveRan ==
  ASSUME IInv, RanInv, NEW t \in Threads, Leave(t)
  PROVE  RanInv'
<1>1. /\ at' = [at EXCEPT ![t] = "run"]
      /\ UNCHANGED << life, call, pc, func, num_threads, done, pool, sync, flag, ctx, ran >>
      /\ at[t] = "pool" => flag[t] # pool.flag
      /\ at[t] = "sync" => flag[t] # sync.flag
      /\ at[t] \in {"pool", "sync"} /\ 0 \in Threads
  BY MembersAreThreads DEF Leave, IInv
<1>2. at'[t] = "run" /\ \A u \in Threads : u # t => at'[u] = at[u]
  BY <1>1 DEF IInv, TypeOK
<1>3. \A c \in 1 .. call : TeamSize(c)' = TeamSize(c)
  BY <1>1, TeamsStay
<1>4. t = 0 => pc[0] # "set_up"
  <2>1. CASE pool.flag = FALSE /\ Idle
    BY <1>1, <2>1, ParallelSorterAssumption
    DEF Idle, Caller, Prepared, Jobs
  <2>2. CASE Ending
    BY <1>1, <2>2 DEF Ending, Ends
  <2>3. CASE Working
    BY <1>1, <2>3, WhereWorking, FirstStages DEF Coming, Gone, InJob, Stages, Jobs
  <2> QED
    BY <2>1, <2>2, <2>3 DEF IInv, Phase
<1>5. ASSUME NEW u \in Threads
      PROVE  Pending(u)' <=> Pending(u)
  <2>1. CASE u = 0
    BY <1>1, <1>2, <1>4, <2>1 DEF Pending, At
  <2>2. CASE u # 0 /\ pool.flag = FALSE
    BY <1>1, <1>2, <1>4, <2>2 DEF Pending, At
  <2>3. CASE u # 0 /\ pool.flag = TRUE /\ done = FALSE
    <3>1. Working
      BY <2>3 DEF IInv, Phase
    <3>2. ~(u = t /\ Gone(u))
      BY <1>1, <2>3 DEF Gone
    <3>3. Coming(u)' <=> Coming(u)
      <4>1. CASE u # t
        BY <1>1, <1>2, <2>3, <4>1 DEF Coming
      <4>2. CASE u = t /\ InJob(u)
        BY <1>1, <2>3, <3>1, <4>2, WhereWorking DEF Coming, InJob, Stages, Jobs
      <4>3. CASE u = t /\ Coming(u)
        BY <1>1, <1>2, <2>3, <4>3 DEF Coming
      <4> QED
        BY <3>1, <3>2, <4>1, <4>2, <4>3, WhereWorking
    <3> QED
      BY <1>1, <2>3, <3>3 DEF Pending
  <2>4. CASE u # 0 /\ pool.flag = TRUE /\ done # FALSE
    BY <1>1, <2>4 DEF Pending
  <2> QED
    BY <2>1, <2>2, <2>3, <2>4 DEF IInv, Phase
<1>6. \A u \in Threads : Row(u)'
  BY <1>1, <1>3, <1>5, RowKept DEF RanInv
<1>7. Announced'
  BY <1>1, <1>2, <1>3, AnnouncedKept DEF RanInv, Begun, IInv
<1> QED
  BY <1>1, <1>6, <1>7 DEF RanInv

LEMMA EnterLoopRan ==
  ASSUME IInv, IInv', RanInv, NEW t \in Threads, EnterLoop(t)
  PROVE  RanInv'
<1>1. pool.flag = FALSE /\ Idle /\ t # 0 /\ at[t] = "run" /\ pc[t] = "main" /\ 0 \in Threads
  BY WhereIdle, MembersAreThreads DEF EnterLoop, At, IInv
<1>2. /\ HitPool(t, "test")
      /\ UNCHANGED << life, call, func, num_threads, done, sync, ctx, ran >>
  BY DEF EnterLoop
<1>3. \A u \in Threads : u # t => at'[u] = at[u] /\ flag'[u] = flag[u] /\ pc'[u] = pc[u]
  BY <1>2 DEF HitPool, Goto, IInv, TypeOK
<1>4. \A c \in 1 .. call : TeamSize(c)' = TeamSize(c)
  BY <1>2, TeamsStay
<1>5. pool'.flag # FALSE /\ done = FALSE =>
        /\ pool'.flag = TRUE /\ \A u \in Threads \ {0} : Coming(u)'
        /\ at[0] = "pool" /\ flag[0] = FALSE
  <2> SUFFICES ASSUME pool'.flag # FALSE, done = FALSE
               PROVE  /\ pool'.flag = TRUE /\ \A u \in Threads \ {0} : Coming(u)'
                      /\ at[0] = "pool" /\ flag[0] = FALSE
    OBVIOUS
  <2>1. /\ pool'.flag = TRUE
        /\ \A u \in Threads : at'[u] = "pool" /\ flag'[u] = FALSE
    BY <1>1, <1>2, PoolHit DEF IInv
  <2>2. ASSUME NEW u \in Threads \ {0}
        PROVE  Coming(u)'
    <3>1. pc'[u] = "test"
      <4>1. CASE u = t
        BY <1>2, <4>1 DEF HitPool, Goto, IInv, TypeOK
      <4>2. CASE u # t
        BY <1>1, <1>3, <2>1, <4>2 DEF Idle, Waiting
      <4> QED
        BY <4>1, <4>2
    <3> QED
      BY <2>1, <3>1 DEF Coming
  <2> QED
    BY <1>1, <1>3, <2>1, <2>2
<1>6. ASSUME NEW u \in Threads
      PROVE  Pending(u)' <=> Pending(u)
  <2>1. CASE u = 0
    BY <1>1, <1>3, <2>1 DEF Pending, At
  <2>2. CASE u # 0 /\ pool'.flag = FALSE
    BY <1>1, <1>2, <1>3, <2>2 DEF Pending, At
  <2>3. CASE u # 0 /\ pool'.flag # FALSE /\ done = FALSE
    BY <1>1, <1>2, <1>5, <2>3 DEF Pending
  <2>4. CASE u # 0 /\ done # FALSE
    BY <1>2, <2>4 DEF Pending
  <2> QED
    BY <2>1, <2>2, <2>3, <2>4
<1>7. \A u \in Threads : Row(u)'
  BY <1>2, <1>4, <1>6, RowKept DEF RanInv
<1>8. Announced'
  <2>1. Begun' => Begun
    BY <1>1, <1>2, <1>3, <1>5 DEF Begun
  <2> QED
    BY <1>2, <1>4, <2>1, AnnouncedKept DEF RanInv, IInv
<1> QED
  BY <1>2, <1>7, <1>8 DEF RanInv

LEMMA CallPoolRan ==
  ASSUME IInv, IInv', RanInv, CallPool
  PROVE  RanInv'
<1>1. pool.flag = FALSE /\ Idle /\ at[0] = "run" /\ pc[0] = "call" /\ 0 \in Threads
  <2>1. 0 \in Threads
    BY MembersAreThreads DEF IInv
  <2> QED
    BY <2>1, WhereIdle DEF CallPool, At
<1>2. /\ call' = call + 1 /\ call \in Nat /\ call + 1 \in 1 .. Len(life.calls)
      /\ UNCHANGED << life, at, func, num_threads, done, pool, sync, flag >>
  BY CallNumbered DEF CallPool, IInv
<1>3. TeamSize(call + 1) \in 1 .. NumThreads /\ \A c \in 1 .. call' : TeamSize(c)' = TeamSize(c)
  BY <1>2, CallsTyped DEF TeamSize, Available, IInv
<1>4. \A u \in Threads : ~Pending(u) /\ u \in Nat
  BY <1>1, BothBarriers DEF Pending, At, Threads
<1>5. ASSUME NEW u \in Threads
      PROVE  /\ ran[u] \in Seq(Nat) /\ Ordered(ran[u]) /\ Has(u) = Due(u) /\ Has(u) \subseteq 1 .. call
             /\ Due(u)' = Due(u) \cup (IF u < TeamSize(call + 1) THEN {call + 1} ELSE {})
  <2>1. ran[u] \in Seq(Nat) /\ Ordered(ran[u]) /\ Has(u) = Due(u)
    BY <1>4 DEF RanInv, Row
  <2>2. 1 .. call' = 1 .. call \cup {call + 1}
    BY <1>2
  <2>3. Due(u)' = Due(u) \cup (IF u < TeamSize(call + 1) THEN {call + 1} ELSE {})
    BY <1>3, <2>2 DEF Due
  <2> QED
    BY <2>1, <2>3 DEF Due
<1>6. Announced'
  BY <1>1, <1>2 DEF Announced, Begun
<1>7. CASE TeamSize(call + 1) > 1 /\ Goto(0, "set_up") /\ UNCHANGED << ctx, ran >>
  <2>1. pc'[0] = "set_up"
    BY <1>1, <1>7 DEF Goto, IInv, TypeOK
  <2>2. done = FALSE
    BY <1>1 DEF Idle, IInv, TypeOK
  <2>3. ASSUME NEW u \in Threads
        PROVE  Row(u)'
    <3>1. Pending(u)'
      BY <1>1, <1>2, <2>1, <2>2 DEF Pending, At
    <3>2. Has(u)' = Due(u)' \ {call'}
      <4>1. Has(u)' = Has(u)
        BY <1>7 DEF Has
      <4>2. call + 1 \notin 1 .. call
        BY <1>2
      <4>3. Has(u) = Due(u) /\ Has(u) \subseteq 1 .. call
        BY <1>5
      <4>4. Due(u)' = Due(u) \/ Due(u)' = Due(u) \cup {call + 1}
        BY <1>5
      <4> QED
        BY <1>2, <4>1, <4>2, <4>3, <4>4
    <3> QED
      BY <1>5, <1>7, <3>1, <3>2 DEF Row
  <2> QED
    BY <1>6, <1>7, <2>3 DEF RanInv
<1>8. CASE /\ ~(TeamSize(call + 1) > 1)
           /\ Start(0, call + 1, life.calls[call + 1].job, 1)
           /\ Goto(0, First[life.calls[call + 1].job])
  <2>1. ran' = [ran EXCEPT ![0] = Append(@, call + 1)]
    BY <1>8 DEF Start
  <2>2. pc'[0] # "set_up" /\ TeamSize(call + 1) = 1
    <3>1. life.calls[call + 1].job \in Jobs
      BY <1>2, CallsTyped DEF IInv
    <3>2. pc'[0] = First[life.calls[call + 1].job]
      BY <1>1, <1>8 DEF Goto, IInv, TypeOK
    <3>3. TeamSize(call + 1) = 1
      BY <1>3, <1>8, ThreadPoolAssumption
    <3> QED
      BY <3>1, <3>2, <3>3, FirstStages
  <2>3. \A u \in Threads : ~Pending(u)'
    BY <1>1, <1>2, <2>2 DEF Pending, At
  <2>4. Row(0)'
    <3>1. ran'[0] = Append(ran[0], call + 1)
      BY <1>1, <2>1 DEF RanInv
    <3> QED
      BY <1>1, <1>2, <1>5, <2>2, <2>3, <3>1, RowStarts
  <2>5. ASSUME NEW u \in Threads, u # 0
        PROVE  Row(u)'
    <3>1. ran'[u] = ran[u] /\ ~(u < TeamSize(call + 1))
      BY <1>4, <2>1, <2>2, <2>5
    <3>2. Has(u)' = Has(u) /\ Due(u)' = Due(u)
      BY <1>5, <3>1 DEF Has
    <3> QED
      BY <1>5, <2>3, <2>5, <3>1, <3>2 DEF Row
  <2> QED
    BY <1>6, <2>1, <2>4, <2>5 DEF RanInv
<1> QED
  BY <1>7, <1>8 DEF CallPool

LEMMA SetUpRan ==
  ASSUME IInv, IInv', RanInv, SetUp
  PROVE  RanInv'
<1>1. /\ pool.flag = FALSE /\ Idle /\ done = FALSE /\ at[0] = "run" /\ pc[0] = "set_up"
      /\ call \in 1 .. Len(life.calls) /\ call \in Nat \ {0} /\ 0 \in Threads
      /\ TeamSize(call) \in 2 .. NumThreads /\ NumThreads \in Nat
  <2>1. At(0, "set_up") /\ TypeOK
    BY DEF SetUp, IInv
  <2>2. /\ pool.flag = FALSE /\ Idle /\ done = FALSE /\ call \in 1 .. Len(life.calls)
        /\ TeamSize(call) \in 2 .. NumThreads
    BY <2>1, SettingUp
  <2> QED
    BY <2>1, <2>2, MembersAreThreads, CallNumbered, BothBarriers DEF At
<1>2. /\ HitPool(0, First[life.calls[call].job]) /\ UNCHANGED << life, call, done >>
      /\ func'.call = call /\ num_threads' = TeamSize(call)
      /\ ran' = [ran EXCEPT ![0] = Append(@, call)]
  BY DEF SetUp, Start
<1>3. /\ at'[0] = "pool" /\ flag'[0] = FALSE
      /\ \A u \in Threads : u # 0 => at'[u] = at[u] /\ flag'[u] = flag[u] /\ pc'[u] = pc[u]
  BY <1>1, <1>2 DEF HitPool, Goto, IInv, TypeOK
<1>4. \A c \in 1 .. call : TeamSize(c)' = TeamSize(c)
  BY <1>2, TeamsStay
<1>5. ASSUME NEW u \in Threads, u # 0
      PROVE  Pending(u) /\ Pending(u)'
  <2>1. Pending(u)
    BY <1>1, <1>5 DEF Pending, At
  <2>2. CASE pool'.flag = FALSE
    <3>1. done' = FALSE /\ at'[0] = "pool" /\ flag'[0] = FALSE
      BY <1>1, <1>2, <1>3
    <3> QED
      BY <1>5, <2>1, <2>2, <3>1 DEF Pending
  <2>3. CASE pool'.flag # FALSE
    <3>1. /\ pool'.flag = TRUE
          /\ \A v \in Threads : at'[v] = "pool" /\ flag'[v] = FALSE
      BY <1>1, <1>2, <2>3, PoolHit DEF IInv
    <3>2. pc'[u] = "test"
      BY <1>1, <1>3, <1>5, <3>1 DEF Idle, Waiting
    <3>3. Coming(u)' /\ done' = FALSE
      BY <1>1, <1>2, <1>5, <3>1, <3>2 DEF Coming
    <3> QED
      BY <1>5, <2>1, <3>1, <3>3 DEF Pending
  <2> QED
    BY <2>1, <2>2, <2>3
<1>6. Row(0)'
  <2>1. ran'[0] = Append(ran[0], call)
    BY <1>1, <1>2 DEF RanInv
  <2>2. ran[0] \in Seq(Nat) /\ Ordered(ran[0]) /\ Has(0) = Due(0) \ {call}
    BY <1>1 DEF RanInv, Row, Pending, At
  <2>3. Due(0)' = Due(0) /\ call \in Due(0) /\ Due(0) \subseteq 1 .. call
    BY <1>1, <1>2, <1>4 DEF Due
  <2>4. Has(0) \subseteq 1 .. call - 1 /\ Due(0)' = Has(0) \cup {call}
    <3>1. 1 .. call - 1 = 1 .. call \ {call}
      BY <1>1
    <3> QED
      BY <2>2, <2>3, <3>1
  <2>5. ~Pending(0)'
    BY <1>3 DEF Pending, At
  <2> QED
    BY <1>1, <1>2, <2>1, <2>2, <2>4, <2>5, RowStarts
<1>7. ASSUME NEW u \in Threads, u # 0
      PROVE  Row(u)'
  <2>1. ran'[u] = ran[u]
    BY <1>2, <1>7
  <2> QED
    BY <1>2, <1>4, <1>5, <1>7, <2>1, RowKept DEF RanInv
<1>8. Announced'
  BY <1>1, <1>2, <1>4 DEF Announced
<1> QED
  BY <1>2, <1>6, <1>7, <1>8 DEF RanInv

LEMMA FinishRan ==
  ASSUME IInv, RanInv, Finish
  PROVE  RanInv'
<1>1. pool.flag = FALSE /\ at[0] = "run" /\ pc[0] = "call" /\ 0 \in Threads
  <2>1. 0 \in Threads
    BY MembersAreThreads DEF IInv
  <2> QED
    BY <2>1, WhereIdle DEF Finish, At
<1>2. HitPool(0, "join") /\ done' = TRUE /\ UNCHANGED << life, call, func, num_threads, ran >>
  BY DEF Finish
<1>3. \A c \in 1 .. call : TeamSize(c)' = TeamSize(c)
  BY <1>2, TeamsStay
<1>4. pc'[0] = "join"
  BY <1>1, <1>2 DEF HitPool, Goto, IInv, TypeOK
<1>5. ASSUME NEW u \in Threads
      PROVE  ~Pending(u) /\ ~Pending(u)'
  BY <1>1, <1>2, <1>4 DEF Pending, At
<1>6. \A u \in Threads : Row(u)'
  BY <1>2, <1>3, <1>5, RowKept DEF RanInv
<1>7. Announced'
  BY <1>2 DEF Announced, Begun
<1> QED
  BY <1>2, <1>6, <1>7 DEF RanInv

LEMMA JoinRan ==
  ASSUME IInv, RanInv, Join
  PROVE  RanInv'
<1>1. 0 \in Threads /\ at[0] = "run" /\ pc[0] = "join"
      /\ UNCHANGED << life, call, at, func, num_threads, done, pool, flag, ran >>
  BY MembersAreThreads DEF IInv, Join, At
<1>2. done = TRUE /\ pool.flag = TRUE
  <2>1. ~Idle
    BY <1>1 DEF Idle, Caller, Stages
  <2>2. ~Working
    BY <1>1, WhereWorking DEF Coming, Gone, InJob, Stages, Jobs
  <2> QED
    BY <2>1, <2>2 DEF IInv, Phase
<1>3. pc'[0] = "ended" /\ \A c \in 1 .. call : TeamSize(c)' = TeamSize(c)
  BY <1>1, TeamsStay DEF Join, Goto, IInv, TypeOK
<1>4. ASSUME NEW u \in Threads
      PROVE  ~Pending(u) /\ ~Pending(u)'
  BY <1>1, <1>2, <1>3 DEF Pending, At
<1>5. \A u \in Threads : Row(u)'
  BY <1>1, <1>3, <1>4, RowKept DEF RanInv
<1>6. Announced'
  BY <1>1, <1>2 DEF Announced, Begun
<1> QED
  BY <1>1, <1>5, <1>6 DEF RanInv

(* The end of a call: t is gone, and was not to come.                      *)
LEMMA GoneRan ==
  ASSUME IInv, RanInv, pool.flag = TRUE, done = FALSE, Working, NEW t \in Threads, at[t] = "run",
         HitPool(t, IF t = 0 THEN "call" ELSE "main"),
         UNCHANGED << life, call, func, num_threads, done, ran >>,
         ~Pending(t) \/ call \notin Due(t)
  PROVE  RanInv'
<1>1. 0 \in Threads /\ \A c \in 1 .. call : TeamSize(c)' = TeamSize(c)
  BY TeamsStay, MembersAreThreads DEF IInv
<1>2. /\ at'[t] = "pool" /\ flag'[t] = TRUE /\ pc'[t] = IF t = 0 THEN "call" ELSE "main"
      /\ \A u \in Threads : u # t => at'[u] = at[u] /\ flag'[u] = flag[u] /\ pc'[u] = pc[u]
  BY DEF HitPool, Goto, IInv, TypeOK
<1>3. \/ pool'.flag = TRUE
      \/ pool'.flag = FALSE /\ \A u \in Threads : at'[u] = "pool" /\ flag'[u] = TRUE
  BY PoolHit DEF IInv
<1>4. ASSUME NEW u \in Threads, u # t
      PROVE  Pending(u)' <=> Pending(u)
  <2>1. CASE u = 0
    BY <1>2, <1>4, <2>1 DEF Pending, At
  <2>2. CASE u # 0 /\ pool'.flag = TRUE
    <3>1. Coming(u)' <=> Coming(u)
      BY <1>2, <1>4, <2>2 DEF Coming
    <3> QED
      BY <2>2, <3>1 DEF Pending
  <2>3. CASE u # 0 /\ pool'.flag = FALSE
    <3>1. at[u] = "pool" /\ flag[u] = TRUE /\ at'[0] = "pool" /\ flag'[0] = TRUE
      BY <1>1, <1>2, <1>3, <1>4, <2>3
    <3>2. ~Coming(u)
      BY <2>3, <3>1 DEF Coming
    <3> QED
      BY <2>3, <3>1, <3>2 DEF Pending, At
  <2> QED
    BY <1>3, <2>1, <2>2, <2>3
<1>5. ~Pending(t)'
  <2>1. CASE t = 0
    BY <1>2, <2>1 DEF Pending, At
  <2>2. CASE t # 0 /\ pool'.flag = TRUE
    BY <1>2, <2>2 DEF Pending, Coming
  <2>3. CASE t # 0 /\ pool'.flag = FALSE
    <3>1. at'[0] = "pool" /\ flag'[0] = TRUE
      BY <1>1, <1>3, <2>3
    <3> QED
      BY <2>3, <3>1 DEF Pending, At
  <2> QED
    BY <1>3, <2>1, <2>2, <2>3
<1>6. \A u \in Threads : Row(u)'
  <2>1. \A u \in Threads : (Pending(u)' <=> Pending(u)) \/ call \notin Due(u)
    BY <1>4, <1>5
  <2> QED
    BY <1>1, <2>1, RowKept DEF RanInv
<1>7. Announced'
  <2>1. Begun
    BY DEF Begun
  <2> QED
    BY <1>1, <2>1, AnnouncedKept DEF RanInv, IInv
<1> QED
  BY <1>6, <1>7 DEF RanInv

LEMMA ReturnRan ==
  ASSUME IInv, RanInv, NEW t \in Threads, Return(t)
  PROVE  RanInv'
<1>1. /\ at[t] = "run" /\ pc[t] = "return"
      /\ UNCHANGED << life, call, func, num_threads, done, ran >>
      /\ \A c \in 1 .. call : TeamSize(c)' = TeamSize(c)
  BY TeamsStay DEF Return, At
<1>2. CASE pool.flag = FALSE /\ Idle /\ t = 0
  <2>1. UNCHANGED << at, pool, flag >> /\ Goto(0, "call")
    BY <1>1, <1>2 DEF Return, Idle, Caller
  <2>2. pc'[0] = "call"
    BY <1>2, <2>1 DEF Goto, IInv, TypeOK
  <2>3. ASSUME NEW u \in Threads
        PROVE  ~Pending(u) /\ ~Pending(u)'
    BY <1>1, <1>2, <2>1, <2>2 DEF Pending, At
  <2>4. \A u \in Threads : Row(u)'
    BY <1>1, <2>3, RowKept DEF RanInv
  <2>5. Announced'
    BY <1>1, <1>2, <2>1 DEF Announced, Begun
  <2> QED
    BY <1>1, <2>4, <2>5 DEF RanInv
<1>3. CASE pool.flag = TRUE /\ done = FALSE /\ Working /\ t \in Members /\ InJob(t)
  <2>1. ctx[t].n > 1
    BY <1>3, WhereWorking DEF InJob, HasContext
  <2>2. HitPool(t, IF t = 0 THEN "call" ELSE "main")
    BY <2>1 DEF Return
  <2>3. ~Pending(t)
    BY <1>1, <1>3, WhereWorking DEF Pending, At
  <2> QED
    BY <1>1, <1>3, <2>2, <2>3, GoneRan
<1> QED
  BY <1>1, <1>2, <1>3, WhereInJob DEF Stages

LEMMA TestRan ==
  ASSUME IInv, RanInv, NEW t \in Threads, Test(t)
  PROVE  RanInv'
<1>1. /\ t # 0 /\ at[t] = "run" /\ pc[t] = "test" /\ pool.flag = TRUE
      /\ done = FALSE => Working /\ Coming(t)
      /\ UNCHANGED << life, call, func, num_threads, done, sync >>
      /\ \A c \in 1 .. call : TeamSize(c)' = TeamSize(c)
  BY WhereTesting, TeamsStay DEF Test
<1>2. call \in Nat /\ t \in Nat /\ num_threads \in Nat
  BY CallNumbered, BothBarriers DEF IInv, Threads, TypeOK
<1>3. CASE done = TRUE /\ UNCHANGED << at, pool, flag, ctx, ran >> /\ Goto(t, "ended")
  <2>1. ASSUME NEW u \in Threads
        PROVE  Pending(u)' <=> Pending(u)
    <3>1. pc'[0] = pc[0]
      BY <1>1, <1>3, MembersAreThreads DEF Goto, IInv, TypeOK
    <3> QED
      BY <1>1, <1>3, <3>1 DEF Pending, At
  <2>2. \A u \in Threads : Row(u)'
    BY <1>1, <1>3, <2>1, RowKept DEF RanInv
  <2>3. Announced'
    BY <1>1, <1>3 DEF Announced, Begun
  <2> QED
    BY <1>3, <2>2, <2>3 DEF RanInv
<1>4. CASE /\ done = FALSE /\ TakesPart(t) /\ Start(t, func.call, func.job, num_threads)
           /\ Goto(t, First[func.job]) /\ UNCHANGED << at, pool, flag >>
  <2>1. call > 0 /\ func.call = call /\ t < TeamSize(call)
    BY <1>1, <1>4 DEF RanInv, Announced, Begun, TakesPart
  <2>2. /\ ran'[t] = Append(ran[t], call) /\ pc'[t] = First[func.job]
        /\ \A u \in Threads : u # t => ran'[u] = ran[u] /\ pc'[u] = pc[u]
        /\ DOMAIN ran' = Threads
    BY <1>4, <2>1 DEF Start, Goto, IInv, TypeOK, RanInv
  <2>3. pc'[t] # "test"
    <3>1. func.job \in Jobs
      BY <1>1, <1>4, WhereWorking
    <3> QED
      BY <2>2, <3>1, FirstStages
  <2>4. Row(t)'
    <3>1. Pending(t)
      BY <1>1, <1>4 DEF Pending
    <3>2. ran[t] \in Seq(Nat) /\ Ordered(ran[t]) /\ Has(t) = Due(t) \ {call}
      BY <3>1 DEF RanInv, Row
    <3>3. Due(t)' = Due(t) /\ call \in Due(t) /\ Due(t) \subseteq 1 .. call
      BY <1>1, <1>2, <2>1 DEF Due
    <3>4. Has(t) \subseteq 1 .. call - 1 /\ Due(t)' = Has(t) \cup {call}
      <4>1. 1 .. call - 1 = 1 .. call \ {call}
        BY <1>2
      <4> QED
        BY <3>2, <3>3, <4>1
    <3>5. ~Pending(t)'
      BY <1>1, <1>4, <2>3 DEF Pending, Coming
    <3>6. call \in Nat \ {0} /\ call' = call
      BY <1>1, <1>2, <2>1
    <3> QED
      BY <2>2, <3>2, <3>4, <3>5, <3>6, RowStarts
  <2>5. ASSUME NEW u \in Threads, u # t
        PROVE  Row(u)'
    <3>1. Pending(u)' <=> Pending(u)
      <4>1. CASE u = 0
        BY <1>1, <1>4, <2>2, <2>5, <4>1 DEF Pending, At
      <4>2. CASE u # 0
        <5>1. Coming(u)' <=> Coming(u)
          BY <1>4, <2>2, <2>5, <4>2 DEF Coming
        <5> QED
          BY <1>1, <1>4, <4>2, <5>1 DEF Pending
      <4> QED
        BY <4>1, <4>2
    <3> QED
      BY <1>1, <2>2, <2>5, <3>1, RowKept DEF RanInv
  <2>6. Announced'
    <3>1. Begun
      BY <1>1, <1>4 DEF Begun
    <3> QED
      BY <1>1, <3>1, AnnouncedKept DEF RanInv, IInv
  <2> QED
    BY <2>2, <2>4, <2>5, <2>6 DEF RanInv
<1>5. CASE done = FALSE /\ ~TakesPart(t) /\ HitPool(t, "main") /\ UNCHANGED << ctx, ran >>
  <2>1. call \notin Due(t)
    <3>1. num_threads = TeamSize(call)
      BY <1>1, <1>5 DEF RanInv, Announced, Begun
    <3> QED
      BY <1>5, <3>1 DEF Due, TakesPart
  <2> QED
    BY <1>1, <1>5, <2>1, GoneRan
<1>6. done \in BOOLEAN
  BY DEF IInv, TypeOK
<1> QED
  BY <1>3, <1>4, <1>5, <1>6 DEF Test

LEMMA JobRan ==
  ASSUME IInv, RanInv, NEW t \in Threads, JobStep(t)
  PROVE  RanInv'
<1>1. SameCall /\ at[t] = "run" /\ pc[t] \in Stages("sort") \cup {"alloc"} /\ pc[t] # "return"
  BY DEF JobStep, Alloc, Register, Single, Sample, Take, Classify, Move, Permute, Publish, Save,
         Write, Clean, Reset, ProcessTasks, At, Stages
<1>2. \E p \in Stages("sort") \cup {"alloc"} :
        /\ Goto(t, p)
        /\ UNCHANGED at \/ at' = [at EXCEPT ![t] = "sync"]
        /\ UNCHANGED flag \/ \E f : flag' = [flag EXCEPT ![t] = f]
  <2>1. CASE Alloc(t) \/ Register(t) \/ Take(t) \/ ProcessTasks(t)
    BY <2>1 DEF Alloc, Register, Take, ProcessTasks, Step, Stages
  <2>2. CASE Single(t) \/ Permute(t) \/ Clean(t)
    BY <2>2 DEF Single, Permute, Clean, Step, HitSync, Stages
  <2>3. CASE Sample(t) \/ Classify(t) \/ Move(t) \/ Publish(t)
    BY <2>3 DEF Sample, Classify, Move, Publish, HitSync, Stages
  <2>4. CASE Save(t) \/ Write(t) \/ Reset(t)
    BY <2>4 DEF Save, Write, Reset, HitSync, Stages
  <2> QED
    BY <2>1, <2>2, <2>3, <2>4 DEF JobStep
<1>3. PICK p \in Stages("sort") \cup {"alloc"} :
        /\ Goto(t, p)
        /\ UNCHANGED at \/ at' = [at EXCEPT ![t] = "sync"]
        /\ UNCHANGED flag \/ \E f : flag' = [flag EXCEPT ![t] = f]
  BY <1>2
<1>4. /\ pc'[t] = p /\ at'[t] \in {"run", "sync"} /\ p \notin {"set_up", "test"}
      /\ \A u \in Threads : u # t => at'[u] = at[u] /\ flag'[u] = flag[u] /\ pc'[u] = pc[u]
  BY <1>1, <1>3 DEF Goto, Stages, IInv, TypeOK
<1>5. /\ UNCHANGED << life, call, func, num_threads, done, pool, ctx, ran >> /\ 0 \in Threads
      /\ \A c \in 1 .. call : TeamSize(c)' = TeamSize(c)
  <2>1. UNCHANGED << life, call, func, num_threads, done, pool, ctx, ran >>
    BY <1>1 DEF SameCall
  <2> QED
    BY <2>1, TeamsStay, MembersAreThreads DEF IInv
<1>6. \/ pool.flag = FALSE /\ t = 0
      \/ pool.flag = TRUE /\ InJob(t) /\ ~Coming(t)
  BY <1>1, WhereInJob, WhereWorking
<1>7. ASSUME NEW u \in Threads
      PROVE  Pending(u)' <=> Pending(u)
  <2>1. CASE u = 0
    <3>1. ~(pc[t] = "set_up")
      BY <1>1 DEF Stages
    <3> QED
      BY <1>4, <1>5, <2>1, <3>1 DEF Pending, At
  <2>2. CASE u # 0 /\ pool.flag = FALSE
    <3>1. t = 0 /\ pc[t] # "set_up"
      BY <1>1, <1>6, <2>2 DEF Stages
    <3> QED
      BY <1>1, <1>4, <1>5, <2>2, <3>1 DEF Pending, At
  <2>3. CASE u # 0 /\ pool.flag = TRUE
    <3>1. Coming(u)' <=> Coming(u)
      <4>1. CASE u = t
        BY <1>4, <1>6, <2>3, <4>1 DEF Coming
      <4>2. CASE u # t
        BY <1>4, <2>3, <4>2 DEF Coming
      <4> QED
        BY <4>1, <4>2
    <3> QED
      BY <1>5, <2>3, <3>1 DEF Pending
  <2> QED
    BY <1>6, <2>1, <2>2, <2>3
<1>8. \A u \in Threads : Row(u)'
  BY <1>5, <1>7, RowKept DEF RanInv
<1>9. Announced'
  <2>1. Begun' => Begun
    BY <1>4, <1>5, <1>6 DEF Begun
  <2> QED
    BY <1>5, <2>1, AnnouncedKept DEF RanInv, IInv
<1> QED
  BY <1>5, <1>8, <1>9 DEF RanInv

LEMMA RanInductive == IInv /\ IInv' /\ RanInv /\ [Next]_vars => RanInv'
<1> SUFFICES ASSUME IInv, IInv', RanInv, [Next]_vars PROVE RanInv'
  OBVIOUS
<1>1. ASSUME NEW t \in Threads, ThreadStep(t)
      PROVE  RanInv'
  BY <1>1, LeaveRan, EnterLoopRan, TestRan, ReturnRan, CallPoolRan, SetUpRan, FinishRan, JoinRan,
     JobRan DEF ThreadStep, PoolStep
<1>2. CASE UNCHANGED vars
  <2>1. UNCHANGED << life, call, pc, at, func, num_threads, done, pool, flag, ctx, ran >>
    BY <1>2 DEF vars, poolVars
  <2>2. \A c \in 1 .. call : TeamSize(c)' = TeamSize(c)
    BY <2>1, TeamsStay
  <2>3. ASSUME NEW u \in Threads
        PROVE  Pending(u)' <=> Pending(u)
    BY <2>1 DEF Pending, At, Coming, HasContext
  <2>4. \A u \in Threads : Row(u)'
    BY <2>1, <2>2, <2>3, RowKept DEF RanInv
  <2>5. Announced'
    <3>1. Begun' => Begun
      BY <2>1 DEF Begun
    <3> QED
      BY <2>1, <2>2, <3>1, AnnouncedKept DEF RanInv, IInv
  <2> QED
    BY <2>1, <2>4, <2>5 DEF RanInv
<1> QED
  BY <1>1, <1>2 DEF Next, Finished

(* Whatever the number of threads, the calls and the teams: every thread   *)
(* executes the functions of exactly the calls whose team it belongs to,   *)
(* each one once and in order, and when a call returns to its caller all   *)
(* members of its team have executed it.                                   *)
THEOREM OncePerCall == Spec => []CallsInStep
<1>1. SorterInit => RanInv
  <2> SUFFICES ASSUME SorterInit PROVE RanInv
    OBVIOUS
  <2>1. call = 0 /\ ran = [t \in Threads |-> << >>] /\ at[0] = "run" /\ pool.flag = FALSE
        /\ pc[0] = "call"
    <3>1. 0 \in Threads
      BY ThreadPoolAssumption DEF Threads
    <3> QED
      BY <3>1 DEF SorterInit, Init, NewBarrier
  <2>2. ASSUME NEW t \in Threads
        PROVE  Row(t)
    <3>1. ran[t] = << >> /\ Due(t) = {} /\ Has(t) = {}
      BY <2>1 DEF Due, Has
    <3>2. << >> \in Seq(Nat) /\ Ordered(<< >>)
      BY DEF Ordered
    <3> QED
      BY <3>1, <3>2 DEF Row
  <2>3. Announced
    BY <2>1 DEF Announced, Begun
  <2> QED
    BY <2>1, <2>2, <2>3 DEF RanInv
<1>2. Spec => []IInv
  BY Initially, Inductive, PTL DEF Spec
<1>3. Spec => []RanInv
  BY <1>1, <1>2, RanInductive, PTL DEF Spec
<1> QED
  BY <1>2, <1>3, RanGivesCallsInStep, PTL
=============================================================================
