--------------------------- MODULE ParallelSorter ---------------------------
(***************************************************************************)
(* The jobs of the parallel algorithm on a thread pool (parallel.hpp,      *)
(* partitioning.hpp), with the data that the threads share (memory.hpp):   *)
(*   "alloc"      the constructor of ParallelSorter allocates local data   *)
(*   "sort"       parallelSortPrimary and parallelSortSecondary            *)
(*   "partition"  parallelPartitionPrimary and -Secondary, on a pool that  *)
(*                belongs to a big task                                    *)
(* Contents are abstracted to the call they belong to: what matters is     *)
(* that no thread reads a field while another one writes it, and that      *)
(* nobody sees what an earlier call has left behind.                       *)
(***************************************************************************)
EXTENDS ThreadPool

(* Jobs and where they begin; only the constructor's job is ever done by a *)
(* single thread, since numThreadsFor sends the others elsewhere.  A pool  *)
(* that threads join executes one job, the step of its big task.           *)
ASSUME ParallelSorterAssumption ==
  /\ First = [alloc |-> "alloc", sort |-> "register", partition |-> "register"]
  /\ \A l \in Lives :
       /\ l.calls \in Seq([job : DOMAIN First, n : Nat \ {0}])
       /\ l.kind = "std" \/ (l.kind = "joining" /\ Len(l.calls) <= 1)
       /\ \A i \in DOMAIN l.calls :
            l.calls[i].job # "alloc" => l.calls[i].n > 1 /\ NumThreads > 1

VARIABLES
  built,       (* the call the classifier and num_buckets belong to        *)
  sums,        (* whose counts are added up in bucket_start: call, thread  *)
  overflow,    (* shared overflow: the thread whose buffer it is, or None  *)
  overflow_,   (* overflow_[t]: the copy of thread t                       *)
  full,        (* the threads whose overflow buffer holds elements         *)
  last         (* the thread that cleans up the bucket that can overflow   *)

None == -1
jobVars == << built, sums, overflow, overflow_, full, last >>
vars == << poolVars, jobVars >>

SorterInit ==
  /\ Init
  /\ built = 0 /\ sums = {} /\ overflow = None /\ full = {} /\ last = 0
  /\ overflow_ = [t \in Threads |-> None]

Call(t) == ctx[t].call
Team(t) == 0 .. ctx[t].n - 1

SameCall  == UNCHANGED << life, call, func, num_threads, done, pool, ctx, ran >>
Step(t, p) == Goto(t, p) /\ UNCHANGED << at, flag, sync >>

Alloc(t) ==
  /\ At(t, "alloc") /\ Step(t, "return")
  /\ SameCall /\ UNCHANGED jobVars

(* "shared_->local[id] = &local_".                                         *)
Register(t) ==
  /\ At(t, "register") /\ Step(t, "single")
  /\ SameCall /\ UNCHANGED jobVars

(* sync.single: the first thread builds the classifier, the others wait.   *)
Single(t) ==
  /\ At(t, "single")
  /\ IF sync.taken
       THEN HitSync(t, "take")
       ELSE /\ sync' = [sync EXCEPT !.taken = TRUE]
            /\ Goto(t, "sample") /\ UNCHANGED << at, flag >>
  /\ SameCall /\ UNCHANGED jobVars

Sample(t) ==
  /\ At(t, "sample")
  /\ built' = Call(t)
  /\ HitSync(t, "take")
  /\ SameCall /\ UNCHANGED << sums, overflow, overflow_, full, last >>

(* The parameters of this partitioning step, overflow_ among them.         *)
Take(t) ==
  /\ At(t, "take") /\ Step(t, "classify")
  /\ overflow_' = [overflow_ EXCEPT ![t] = None]
  /\ SameCall /\ UNCHANGED << built, sums, overflow, full, last >>

(* A thread with an empty stripe adds nothing.                             *)
Classify(t) ==
  /\ At(t, "classify")
  /\ sums' = sums \cup {<< Call(t), t >>}
  /\ HitSync(t, "move")
  /\ SameCall /\ UNCHANGED << built, overflow, overflow_, full, last >>

Move(t) ==
  /\ At(t, "move") /\ HitSync(t, "permute")
  /\ SameCall /\ UNCHANGED jobVars

(* At most one block overflows (BlockPermutation!Overflow), in the thread  *)
(* that has to place it; the last large bucket belongs to some thread.     *)
Permute(t) ==
  /\ At(t, "permute")
  /\ \/ /\ full = {}
        /\ full' = {t}
        /\ overflow_' = [overflow_ EXCEPT ![t] = t]
        /\ \E u \in Team(t) : last' = u
        /\ Step(t, "publish")
     \/ HitSync(t, "save") /\ UNCHANGED << full, overflow_, last >>
  /\ SameCall /\ UNCHANGED << built, sums, overflow >>

(* Faulty variant: the barrier after the permutation is missing.           *)
PublishWithoutBarrier(t) ==
  /\ At(t, "publish")
  /\ overflow' = t
  /\ Step(t, "save")
  /\ SameCall /\ UNCHANGED << built, sums, overflow_, full, last >>

(* "shared_->overflow = &local_.overflow".                                 *)
Publish(t) ==
  /\ At(t, "publish")
  /\ overflow' = t
  /\ HitSync(t, "save")
  /\ SameCall /\ UNCHANGED << built, sums, overflow_, full, last >>

Save(t) ==
  /\ At(t, "save")
  /\ overflow_' = [overflow_ EXCEPT ![t] = overflow]
  /\ HitSync(t, "write")
  /\ SameCall /\ UNCHANGED << built, sums, overflow, full, last >>

(* Of writeMargins: the overflow buffer is emptied.                        *)
Write(t) ==
  /\ At(t, "write")
  /\ full' = IF t = last THEN full \ {overflow_[t]} ELSE full
  /\ HitSync(t, "clean")
  /\ SameCall /\ UNCHANGED << built, sums, overflow, overflow_, last >>

(* local_.reset(); a primary thread then still needs bucket_start.         *)
Clean(t) ==
  /\ At(t, "clean")
  /\ IF t = 0 THEN Step(t, "reset")
              ELSE HitSync(t, IF ctx[t].job = "sort" THEN "tasks" ELSE "return")
  /\ SameCall /\ UNCHANGED jobVars

(* Faulty variant: reset() leaves the shared overflow pointer as it is.     *)
ResetNotOverflow(t) ==
  /\ At(t, "reset")
  /\ built' = 0 /\ sums' = {} /\ overflow' = overflow
  /\ HitSync(t, IF ctx[t].job = "sort" THEN "tasks" ELSE "return")
  /\ SameCall /\ UNCHANGED << overflow_, full, last >>

(* queueTasks or the copy of bucket_start, and shared_->reset().           *)
Reset(t) ==
  /\ At(t, "reset")
  /\ built' = 0 /\ sums' = {} /\ overflow' = None
  /\ HitSync(t, IF ctx[t].job = "sort" THEN "tasks" ELSE "return")
  /\ SameCall /\ UNCHANGED << overflow_, full, last >>

(* processBigTasks and processSmallTasks: BigTasks and Scheduler.          *)
ProcessTasks(t) ==
  /\ At(t, "tasks") /\ Step(t, "return")
  /\ SameCall /\ UNCHANGED jobVars

JobStep(t) ==
  \/ Alloc(t) \/ Register(t) \/ Single(t) \/ Sample(t) \/ Take(t)
  \/ Classify(t) \/ Move(t) \/ Permute(t) \/ Publish(t) \/ Save(t)
  \/ Write(t) \/ Clean(t) \/ Reset(t) \/ ProcessTasks(t)

ThreadStep(t) ==
  \/ PoolStep(t) /\ UNCHANGED jobVars
  \/ JobStep(t)

Finished == (\A t \in Threads : pc[t] = "ended") /\ UNCHANGED vars

Next == (\E t \in Threads : ThreadStep(t)) \/ Finished

Spec == SorterInit /\ [][Next]_vars /\ \A t \in Threads : WF_vars(ThreadStep(t))

-----------------------------------------------------------------------------
(* The fields of SharedData and LocalData that a thread accesses where it  *)
(* is: "r" and "w" are plain reads and writes, "a" atomic operations.      *)
Each(k, f, I) == {<< k, f, i >> : i \in I}

JobAccess(t) ==
  IF at[t] # "run" THEN {}
  ELSE CASE pc[t] = "alloc"    -> {<< "w", "local", t >>}
         [] pc[t] = "register" -> IF t = 0 THEN {} ELSE {<< "w", "local", t >>}
         [] pc[t] = "sample"   -> {<< "w", "classifier" >>, << "w", "num_buckets" >>}
         [] pc[t] = "take"     -> {<< "r", "num_buckets" >>}
         [] pc[t] = "classify" -> {<< "r", "classifier" >>, << "a", "bucket_start" >>,
                                   << "w", "first_empty_block", t >>}
                                  \cup {<< "w", "buffers", t, u >> : u \in Team(t)}
         [] pc[t] = "move"     -> {<< "r", "bucket_start" >>, << "w", "bucket_pointers", t >>}
                                  \cup Each("r", "first_empty_block", Team(t))
                                  \cup Each("r", "local", Team(t))
         [] pc[t] = "permute"  -> {<< "r", "classifier" >>, << "r", "bucket_start" >>,
                                   << "w", "swap", t >>, << "w", "overflow block", t >>}
                                  \cup Each("a", "bucket_pointers", Team(t))
         [] pc[t] = "publish"  -> {<< "w", "overflow" >>}
         [] pc[t] = "save"     -> {<< "r", "overflow" >>, << "r", "bucket_start" >>,
                                   << "w", "swap", t >>}
                                  \cup Each("r", "bucket_pointers", Team(t))
         [] pc[t] = "write"    -> {<< "r", "bucket_start" >>, << "w", "swap", t >>}
                                  \cup {<< "w", "buffers", u, t >> : u \in Team(t)}
                                  \cup Each("r", "bucket_pointers", Team(t))
                                  \cup Each("r", "local", Team(t))
                                  \cup (IF t = last THEN {<< "w", "overflow block", overflow_[t] >>}
                                                    ELSE {})
         [] pc[t] = "clean"    -> {<< "w", "bucket_size", t >>}
         [] pc[t] = "reset"    -> {<< "r", "bucket_start" >>, << "w", "bucket_start" >>,
                                   << "w", "classifier" >>, << "w", "overflow" >>,
                                   << "w", "scheduler" >>}
                                  \cup (IF ctx[t].job = "sort"
                                          THEN Each("w", "big_tasks", Team(t)) \cup
                                               Each("w", "seq_task_queue", Team(t))
                                          ELSE {})
         [] pc[t] = "tasks"    -> {<< "r", "big_tasks", t >>, << "w", "seq_task_queue", t >>,
                                   << "a", "scheduler" >>}
         [] OTHER -> {}

Conflict(a, b) ==
  /\ Tail(a) = Tail(b)
  /\ << a[1], b[1] >> \notin {<< "r", "r" >>, << "a", "a" >>}

(* No two threads access the same field at the same time, unless both read *)
(* or both use atomic operations: the barriers, and nothing else, order    *)
(* what the pool, SharedData and LocalData are used for.                   *)
NoConflict ==
  \A t, u \in Threads : t # u =>
    \A a \in PoolAccess(t) \cup JobAccess(t), b \in PoolAccess(u) \cup JobAccess(u) :
      ~Conflict(a, b)

(* A thread executes the function of a call once, if it belongs to the     *)
(* team, in the order of the calls; only the current call may still be to  *)
(* come, and no longer when it has returned to the caller.                 *)
CallsInStep ==
  LET due(t)   == {c \in 1 .. call : t < TeamSize(c)}
      has(t)   == {ran[t][i] : i \in DOMAIN ran[t]}
      returned == at[0] = "run" /\ pc[0] \in {"call", "join", "ended"}
  IN \A t \in Threads :
       /\ \A i, j \in DOMAIN ran[t] : i < j => ran[t][i] < ran[t][j]
       /\ \/ has(t) = due(t)
          \/ ~returned /\ call \in due(t) /\ has(t) = due(t) \ {call}

(* What threads read was written in this call: the classifier when they    *)
(* classify, everybody's counts when they use bucket_start, and the one    *)
(* overflow buffer that is in use when they write margins; and none is     *)
(* left full.                                                              *)
CurrentStep ==
  \A t \in Threads : at[t] = "run" =>
    /\ pc[t] \in {"take", "classify", "permute"} => built = Call(t)
    /\ pc[t] \in {"move", "permute", "save", "write", "reset"} =>
         sums = {Call(t)} \X Team(t)
    /\ pc[t] = "write" => overflow_[t] = overflow
    /\ pc[t] = "write" /\ t = last => full = {overflow_[t]} \ {None}
    /\ pc[t] \in {"clean", "reset", "register"} => full = {}

(* Every thread that was started or has joined comes to an end, and so do  *)
(* all calls of the pool and its destructor or release.                    *)
AllThreadsEnd == <>(\A t \in Threads : pc[t] = "ended")
=============================================================================
