------------------------------- MODULE Barrier -------------------------------
(***************************************************************************)
(* detail::Barrier (include/ips4o/synchronization.hpp): a reusable barrier *)
(* built from a mutex, a condition variable, a counter and a flag, whose   *)
(* single(func) call also lets one thread execute func.                    *)
(*                                                                         *)
(* A critical section of mutex_ is one step.  Waiting on cv_ is the set    *)
(* asleep; a sleeper may wake spuriously and then re-checks its predicate. *)
(* notify_all() releases the mutex before it notifies, so the notification *)
(* is a step of its own.  partition<true>() is the client: every thread    *)
(* makes the same sequence of calls, an episode per call.                  *)
(***************************************************************************)
EXTENDS Integers, FiniteSets

CONSTANTS
  Threads,   (* the threads that share the barrier       *)
  Episodes,  (* how many calls each thread makes         *)
  Singles    (* the episodes whose call is single(func)  *)

ASSUME BarrierAssumption ==
  /\ IsFiniteSet(Threads)
  /\ Threads # {}
  /\ Episodes \in Nat
  /\ Singles \subseteq 1..Episodes

VARIABLES
  hit_count,  (* hit_count_                                               *)
  flag,       (* flag_                                                    *)
  pc,         (* where each thread is: "out", "func", "wait" or "notify"  *)
  wait_flag,  (* wait_flag[t]: the copy f of flag_ the wait predicate has *)
  asleep,     (* threads blocked inside cv_.wait                          *)
  left,       (* left[t]: calls of thread t that have returned            *)
  runs,       (* history: how often func was executed in each episode     *)
  opened      (* history: how often the barrier has opened                *)

vars == << hit_count, flag, pc, wait_flag, asleep, left, runs, opened >>

init_count == Cardinality(Threads)

(* The episode thread t is in, or enters next.                             *)
Episode(t) == left[t] + 1

Init ==
  /\ hit_count = init_count
  /\ flag      = FALSE
  /\ pc        = [t \in Threads |-> "out"]
  /\ wait_flag = [t \in Threads |-> FALSE]
  /\ asleep    = {}
  /\ left      = [t \in Threads |-> 0]
  /\ runs      = [k \in 1..Episodes |-> 0]
  /\ opened    = 0

------------------------------------------------------------------------------
(* Faulty variants of notify_all(lk): the flag is not flipped, the counter *)
(* is not reset.                                                           *)
OpenWithoutFlip(t) ==
  /\ hit_count' = init_count
  /\ opened'    = opened + 1
  /\ pc'        = [pc EXCEPT ![t] = "notify"]
  /\ UNCHANGED << flag, wait_flag, asleep >>

OpenWithoutReset(t) ==
  /\ hit_count' = hit_count - 1
  /\ flag'      = ~flag
  /\ opened'    = opened + 1
  /\ pc'        = [pc EXCEPT ![t] = "notify"]
  /\ UNCHANGED << wait_flag, asleep >>

(* notify_all(lk) up to lk.unlock(): thread t reopens the barrier.         *)
Open(t) ==
  /\ hit_count' = init_count
  /\ flag'      = ~flag
  /\ opened'    = opened + 1
  /\ pc'        = [pc EXCEPT ![t] = "notify"]
  /\ UNCHANGED << wait_flag, asleep >>

(* Faulty variant of the wait: the flag is copied before the mutex is      *)
(* taken, so the copy may be stale.                                        *)
BlockWithStaleFlag(t, h) ==
  /\ hit_count' = h
  /\ pc'        = [pc EXCEPT ![t] = "wait"]
  /\ wait_flag' = [wait_flag EXCEPT ![t] = @]
  /\ asleep'    = asleep \cup {t}
  /\ UNCHANGED << flag, opened >>

(* cv_.wait(lk, [f = flag_] { f != flag_ }) with h hits missing: the       *)
(* predicate is false on entry, so the thread goes to sleep.               *)
Block(t, h) ==
  /\ hit_count' = h
  /\ pc'        = [pc EXCEPT ![t] = "wait"]
  /\ wait_flag' = [wait_flag EXCEPT ![t] = flag]
  /\ asleep'    = asleep \cup {t}
  /\ UNCHANGED << flag, opened >>

(* barrier()                                                               *)
CallBarrier(t) ==
  /\ pc[t] = "out" /\ left[t] < Episodes /\ Episode(t) \notin Singles
  /\ \/ hit_count - 1 = 0 /\ Open(t)
     \/ hit_count - 1 # 0 /\ Block(t, hit_count - 1)
  /\ UNCHANGED << left, runs >>

(* single(func), called by the first thread: it leaves the mutex and runs  *)
(* func.                                                                   *)
CallSingleFirst(t) ==
  /\ pc[t] = "out" /\ left[t] < Episodes /\ Episode(t) \in Singles
  /\ hit_count = init_count
  /\ hit_count' = hit_count - 1
  /\ pc' = [pc EXCEPT ![t] = "func"]
  /\ UNCHANGED << flag, wait_flag, asleep, left, runs, opened >>

(* Faulty variant: the barrier opens without the extra hit of the thread   *)
(* that executes func.                                                     *)
SingleTailOneEarly(t) ==
  \/ hit_count - 1 <= 0 /\ Open(t)
  \/ hit_count - 1 > 0 /\ Block(t, hit_count - 1)

(* The end of single(func): the barrier opens when the hits of all threads *)
(* and the extra one of the executing thread are in.                       *)
SingleTail(t) ==
  \/ hit_count - 1 < 0 /\ Open(t)
  \/ hit_count - 1 >= 0 /\ Block(t, hit_count - 1)

(* single(func), called by any later thread.                               *)
CallSingleOther(t) ==
  /\ pc[t] = "out" /\ left[t] < Episodes /\ Episode(t) \in Singles
  /\ hit_count # init_count
  /\ SingleTail(t)
  /\ UNCHANGED << left, runs >>

(* The executing thread returns from func and takes the mutex again.       *)
ReturnFromFunc(t) ==
  /\ pc[t] = "func"
  /\ runs' = [runs EXCEPT ![Episode(t)] = @ + 1]
  /\ SingleTail(t)
  /\ UNCHANGED left

(* Faulty variant: notify_one() in place of notify_all().                  *)
NotifyOne(t) ==
  /\ pc[t] = "notify"
  /\ \/ asleep = {} /\ UNCHANGED asleep
     \/ \E s \in asleep : asleep' = asleep \ {s}
  /\ pc'     = [pc EXCEPT ![t] = "out"]
  /\ left'   = [left EXCEPT ![t] = @ + 1]
  /\ UNCHANGED << hit_count, flag, wait_flag, runs, opened >>

(* cv_.notify_all(), after the mutex was released; the call returns.       *)
Notify(t) ==
  /\ pc[t] = "notify"
  /\ asleep' = {}
  /\ pc'     = [pc EXCEPT ![t] = "out"]
  /\ left'   = [left EXCEPT ![t] = @ + 1]
  /\ UNCHANGED << hit_count, flag, wait_flag, runs, opened >>

(* Faulty variant: a woken waiter does not re-check its predicate.         *)
WakeUnchecked(t) ==
  /\ pc[t] = "wait" /\ t \notin asleep
  /\ pc'   = [pc EXCEPT ![t] = "out"]
  /\ left' = [left EXCEPT ![t] = @ + 1]
  /\ UNCHANGED << hit_count, flag, wait_flag, asleep, runs, opened >>

(* An awake waiter takes the mutex and re-checks its predicate.            *)
Wake(t) ==
  /\ pc[t] = "wait" /\ t \notin asleep
  /\ \/ /\ wait_flag[t] # flag
        /\ pc'   = [pc EXCEPT ![t] = "out"]
        /\ left' = [left EXCEPT ![t] = @ + 1]
        /\ UNCHANGED asleep
     \/ /\ wait_flag[t] = flag
        /\ asleep' = asleep \cup {t}
        /\ UNCHANGED << pc, left >>
  /\ UNCHANGED << hit_count, flag, wait_flag, runs, opened >>

(* The condition variable wakes a thread that nobody notified.             *)
SpuriousWakeup(t) ==
  /\ t \in asleep
  /\ asleep' = asleep \ {t}
  /\ UNCHANGED << hit_count, flag, pc, wait_flag, left, runs, opened >>

(* All calls have returned: the group of threads is done with the barrier. *)
Finished ==
  /\ \A t \in Threads : pc[t] = "out" /\ left[t] = Episodes
  /\ UNCHANGED vars

Step(t) ==
  \/ CallBarrier(t) \/ CallSingleFirst(t) \/ CallSingleOther(t)
  \/ ReturnFromFunc(t) \/ Notify(t) \/ Wake(t)

Next ==
  \/ \E t \in Threads : Step(t) \/ SpuriousWakeup(t)
  \/ Finished

Spec == Init /\ [][Next]_vars

(* The operating system keeps running every thread that is not blocked.    *)
FairSpec == Spec /\ \A t \in Threads : WF_vars(Step(t))

------------------------------------------------------------------------------
TypeOK ==
  /\ hit_count \in 0..init_count
  /\ flag \in BOOLEAN
  /\ pc \in [Threads -> {"out", "func", "wait", "notify"}]
  /\ wait_flag \in [Threads -> BOOLEAN]
  /\ asleep \in SUBSET Threads
  /\ left \in [Threads -> 0..Episodes]
  /\ runs \in [1..Episodes -> 0..1]
  /\ opened \in 0..Episodes

(* The threads that have hit the barrier since it last opened, and those   *)
(* it has let go whose call has not returned.                              *)
Pending  == {t \in Threads : pc[t] = "func" \/ (pc[t] = "wait" /\ wait_flag[t] = flag)}
Released == {t \in Threads : pc[t] = "notify" \/ (pc[t] = "wait" /\ wait_flag[t] # flag)}

(* How often func has been executed since the barrier last opened.         *)
RunsNow == IF opened < Episodes THEN runs[opened + 1] ELSE 0

(* hit_count_ misses one hit per pending thread and one more once func has *)
(* been executed.                                                          *)
CountsHits == hit_count = init_count - Cardinality(Pending) - RunsNow

(* No thread is an episode ahead or behind by more than the call it is in. *)
InStep ==
  \A t \in Threads : left[t] = IF t \in Released THEN opened - 1 ELSE opened

(* func runs in single() episodes only, in one thread, exactly once.       *)
RunsOnce ==
  /\ \A k \in 1..Episodes :
       /\ k \notin Singles \/ k > opened + 1 => runs[k] = 0
       /\ k \in Singles /\ k <= opened => runs[k] = 1
  /\ \A s, t \in Threads : pc[s] = "func" /\ pc[t] = "func" => s = t
  /\ \A t \in Threads :
       /\ pc[t] = "func" => Episode(t) \in Singles /\ runs[Episode(t)] = 0
       /\ t \in Pending /\ Episode(t) \in Singles =>
            runs[Episode(t)] = 1 \/ \E s \in Threads : pc[s] = "func"
  /\ RunsNow = 1 => Pending # {}
  /\ Pending # {} => opened < Episodes

(* No wake-up is lost: a sleeping thread that the barrier has let go will  *)
(* be woken, for the thread that opened the barrier has yet to notify.     *)
NoLostWakeup ==
  \A t \in asleep :
    /\ pc[t] = "wait"
    /\ wait_flag[t] # flag => \E s \in Threads : pc[s] = "notify"

(* The counter, the flag and the threads' positions always agree: the flag *)
(* is flipped exactly when all threads have hit the barrier, and nobody is *)
(* caught by a flag that flipped twice.                                    *)
BarrierInv == CountsHits /\ InStep /\ RunsOnce

(* The last episode thread t has called, in the abstract barrier's terms.  *)
Arrived == [t \in Threads |-> IF pc[t] = "out" THEN left[t] ELSE Episode(t)]

Abstract == INSTANCE AbstractBarrier WITH arrived <- Arrived

(* The barrier implements its promise: a call returns only after every     *)
(* thread has made the same call, and in a single() episode func has been  *)
(* executed, exactly once, before any thread goes on.  This is what lets   *)
(* partition() read shared_->num_buckets after single() and the other      *)
(* threads' stripes after barrier().                                       *)
ImplementsBarrier == Abstract!Spec

(* Every call returns, whatever the condition variable does on its own.    *)
EveryCallReturns == <>(\A t \in Threads : pc[t] = "out" /\ left[t] = Episodes)

==============================================================================
