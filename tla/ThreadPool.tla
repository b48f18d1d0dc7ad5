----------------------------- MODULE ThreadPool -----------------------------
(***************************************************************************)
(* The thread pools of thread_pool.hpp: StdThreadPool, which starts its    *)
(* threads, and ThreadJoiningThreadPool, which other threads join.  Thread *)
(* 0 calls the pool; the others wait in main for work.  The function that  *)
(* a call executes is a job, whose stages belong to the module that        *)
(* extends this one: a thread that starts job j goes to stage First[j] and *)
(* is done when it reaches "return".                                       *)
(*                                                                         *)
(* pc[t] is the place in the code that thread t executes next.  The memory *)
(* that it accesses there is accessed while the thread is at that place,   *)
(* and the step that leaves it has the effect.  A thread with at[t] #      *)
(* "run" waits at a barrier in front of pc[t].                             *)
(***************************************************************************)
EXTENDS Integers, Sequences

CONSTANTS
  NumThreads,  (* the threads of the pool                                  *)
  Lives,       (* what a pool may be used for: records of its kind, "std"  *)
               (* or "joining", and its calls, each a job and a number of  *)
               (* threads                                                  *)
  First        (* First[j]: the first stage of job j                       *)

ASSUME ThreadPoolAssumption ==
  /\ NumThreads \in Nat \ {0}
  /\ \A l \in Lives : \A i \in DOMAIN l.calls :
       l.calls[i].job \in DOMAIN First /\ l.calls[i].n \in Nat \ {0}

Threads == 0 .. NumThreads - 1

VARIABLES
  life,         (* how this pool is used                                   *)
  call,         (* the calls begun                                         *)
  pc, at,       (* where the threads are                                   *)
  func,         (* func_: the job, and which call it belongs to            *)
  num_threads,  (* num_threads_                                            *)
  done,         (* done_                                                   *)
  pool, sync,   (* the barriers pool_barrier_ and sync_                    *)
  flag,         (* flag[t]: the flag t has seen at the barrier             *)
  ctx,          (* ctx[t]: call, job and team size that t was given        *)
  ran           (* ran[t]: the calls t has executed (history)              *)

poolVars == << life, call, pc, at, func, num_threads, done, pool, sync, flag, ctx, ran >>

(* A barrier, as Barrier.tla implements it; taken: somebody executes func  *)
(* in single.                                                              *)
NewBarrier(n)       == [size |-> n, hits |-> n, flag |-> FALSE, taken |-> FALSE]
SetNumThreads(b, n) == [b EXCEPT !.size = n, !.hits = n]
Hit(b) == IF b.hits = 1
            THEN [b EXCEPT !.hits = b.size, !.flag = ~@, !.taken = FALSE]
            ELSE [b EXCEPT !.hits = @ - 1]

NoJob == [call |-> 0, job |-> "none"]

Init ==
  /\ life \in Lives
  /\ call = 0
  /\ pc = [t \in Threads |-> IF t = 0 THEN "call" ELSE "main"]
  /\ at = [t \in Threads |-> "run"]
  /\ func = NoJob
  /\ num_threads = NumThreads
  /\ done = FALSE
  /\ pool = NewBarrier(NumThreads) /\ sync = NewBarrier(NumThreads)
  /\ flag = [t \in Threads |-> FALSE]
  /\ ctx = [t \in Threads |-> [call |-> 0, job |-> "none", n |-> 0]]
  /\ ran = [t \in Threads |-> << >>]

At(t, p)  == at[t] = "run" /\ pc[t] = p
Goto(t, p) == pc' = [pc EXCEPT ![t] = p]

(* Hit the pool's barrier, to go on at p.                                  *)
HitPool(t, p) ==
  /\ pool' = Hit(pool)
  /\ flag' = [flag EXCEPT ![t] = pool.flag]
  /\ at'   = [at EXCEPT ![t] = "pool"]
  /\ Goto(t, p)

(* The same with sync(), for the jobs.                                     *)
HitSync(t, p) ==
  /\ sync' = Hit(sync)
  /\ flag' = [flag EXCEPT ![t] = sync.flag]
  /\ at'   = [at EXCEPT ![t] = "sync"]
  /\ Goto(t, p)

Leave(t) ==
  /\ \/ at[t] = "pool" /\ flag[t] # pool.flag
     \/ at[t] = "sync" /\ flag[t] # sync.flag
  /\ at' = [at EXCEPT ![t] = "run"]
  /\ UNCHANGED << life, call, pc, func, num_threads, done, pool, sync, flag, ctx, ran >>

(* Thread t executes job j of call c with a team of n.                     *)
Start(t, c, j, n) ==
  /\ ctx' = [ctx EXCEPT ![t] = [call |-> c, job |-> j, n |-> n]]
  /\ ran' = [ran EXCEPT ![t] = Append(@, c)]

(* numThreads(): the joining pool answers with num_threads_.               *)
Available == IF life.kind = "std" THEN NumThreads ELSE num_threads
TeamSize(c) == IF life.calls[c].n < Available THEN life.calls[c].n ELSE Available

(* operator(): a call with one thread does not involve the pool.           *)
CallPool ==
  /\ At(0, "call") /\ call < Len(life.calls)
  /\ call' = call + 1
  /\ LET j == life.calls[call + 1].job IN
     IF TeamSize(call + 1) > 1
       THEN Goto(0, "set_up") /\ UNCHANGED << ctx, ran >>
       ELSE Start(0, call + 1, j, 1) /\ Goto(0, First[j])
  /\ UNCHANGED << life, at, func, num_threads, done, pool, sync, flag >>

(* run(): the writes before the pool's barrier.                            *)
SetUp ==
  /\ At(0, "set_up")
  /\ LET j == life.calls[call].job
         n == TeamSize(call)
     IN /\ func' = [call |-> call, job |-> j]
        /\ num_threads' = n
        /\ sync' = SetNumThreads(sync, n)
        /\ Start(0, call, j, n)
        /\ HitPool(0, First[j])
  /\ UNCHANGED << life, call, done >>

(* main(): the first barrier of the loop.                                  *)
EnterLoop(t) ==
  /\ t # 0 /\ At(t, "main")
  /\ HitPool(t, "test")
  /\ UNCHANGED << life, call, func, num_threads, done, sync, ctx, ran >>

(* Faulty variant: every thread executes the function.                     *)
TakesPartAlways(t) == t \in Threads

TakesPart(t) == t < num_threads

Test(t) ==
  /\ At(t, "test")
  /\ \/ /\ done
        /\ Goto(t, "ended")
        /\ UNCHANGED << at, pool, flag, ctx, ran >>
     \/ /\ ~done /\ TakesPart(t)
        /\ Start(t, func.call, func.job, num_threads)
        /\ Goto(t, First[func.job])
        /\ UNCHANGED << at, pool, flag >>
     \/ /\ ~done /\ ~TakesPart(t)
        /\ HitPool(t, "main")
        /\ UNCHANGED << ctx, ran >>
  /\ UNCHANGED << life, call, func, num_threads, done, sync >>

(* The function has returned: the second barrier of run() and main().      *)
Return(t) ==
  /\ At(t, "return")
  /\ IF ctx[t].n = 1
       THEN Goto(t, "call") /\ UNCHANGED << at, pool, flag >>
       ELSE HitPool(t, IF t = 0 THEN "call" ELSE "main")
  /\ UNCHANGED << life, call, func, num_threads, done, sync, ctx, ran >>

(* Faulty variant: only the destructor's flag, without the barrier.        *)
FinishWithoutBarrier ==
  /\ At(0, "call") /\ call = Len(life.calls)
  /\ done' = TRUE
  /\ Goto(0, "join")
  /\ UNCHANGED << life, call, at, func, num_threads, pool, sync, flag, ctx, ran >>

(* ~Impl of the std pool, release_threads of the joining pool.             *)
Finish ==
  /\ At(0, "call") /\ call = Len(life.calls)
  /\ done' = TRUE
  /\ HitPool(0, "join")
  /\ UNCHANGED << life, call, func, num_threads, sync, ctx, ran >>

(* The std pool joins its threads, the other one has none.                 *)
Join ==
  /\ At(0, "join")
  /\ life.kind = "std" => \A t \in Threads \ {0} : pc[t] = "ended"
  /\ Goto(0, "ended")
  /\ UNCHANGED << life, call, at, func, num_threads, done, pool, sync, flag, ctx, ran >>

PoolStep(t) ==
  \/ Leave(t)
  \/ EnterLoop(t)
  \/ Test(t)
  \/ Return(t)
  \/ t = 0 /\ (CallPool \/ SetUp \/ Finish \/ Join)

(* What a thread accesses of the pool where it is.  The function object is *)
(* in use during the whole job.                                            *)
PoolAccess(t) ==
  IF at[t] = "pool" THEN {}
  ELSE IF at[t] = "sync" THEN {<< "r", "sync" >>, << "r", "func" >>}
  ELSE CASE pc[t] = "set_up" -> {<< "w", "func" >>, << "w", "num_threads" >>, << "w", "sync" >>}
         [] pc[t] = "test" -> {<< "r", "done" >>, << "r", "num_threads" >>, << "r", "func" >>}
         [] pc[t] = "call" -> IF call = Len(life.calls) THEN {<< "w", "done" >>} ELSE {}
         [] pc[t] \in {"main", "join", "ended"} -> {}
         [] OTHER -> IF ctx[t].n > 1 THEN {<< "r", "func" >>, << "r", "sync" >>} ELSE {}
=============================================================================
