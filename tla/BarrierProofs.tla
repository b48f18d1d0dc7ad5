---------------------------- MODULE BarrierProofs ----------------------------
(***************************************************************************)
(* Proofs about Barrier, for every finite group of threads and every       *)
(* sequence of barrier() and single() calls.                               *)
(*                                                                         *)
(* The inductive invariant is TypeOK /\ BarrierInv /\ NoLostWakeup.  What  *)
(* the promise needs is InStep; it is inductive only with CountsHits (the  *)
(* counter tells that everybody is there) and RunsOnce (the extra hit of a *)
(* single() call is there exactly when func has been executed).            *)
(***************************************************************************)
EXTENDS Barrier, FiniteSetTheorems, TLAPS

IInv == TypeOK /\ BarrierInv /\ NoLostWakeup

(* Sets of threads are finite, and one that counts init_count threads      *)
(* holds all of them.                                                      *)
LEMMA ThreadSets ==
  /\ init_count \in Nat \ {0}
  /\ \A S \in SUBSET Threads :
       /\ IsFiniteSet(S) /\ Cardinality(S) \in Nat
       /\ Cardinality(S) <= init_count
       /\ Cardinality(S) = init_count => S = Threads
       /\ Cardinality(S) = 0 <=> S = {}
       /\ \A t \in Threads \ S : Cardinality(S \cup {t}) = Cardinality(S) + 1
<1>1. init_count \in Nat /\ init_count # 0
  BY BarrierAssumption, FS_CardinalityType, FS_EmptySet DEF init_count
<1>2. ASSUME NEW S \in SUBSET Threads
      PROVE  /\ IsFiniteSet(S) /\ Cardinality(S) \in Nat
             /\ Cardinality(S) <= init_count
             /\ Cardinality(S) = init_count => S = Threads
             /\ Cardinality(S) = 0 <=> S = {}
             /\ \A t \in Threads \ S : Cardinality(S \cup {t}) = Cardinality(S) + 1
  <2>1. /\ IsFiniteSet(S) /\ Cardinality(S) <= init_count
        /\ Cardinality(S) = init_count => S = Threads
    BY BarrierAssumption, FS_Subset DEF init_count
  <2>2. Cardinality(S) \in Nat /\ (Cardinality(S) = 0 <=> S = {})
    BY <2>1, FS_CardinalityType, FS_EmptySet
  <2>3. ASSUME NEW t \in Threads \ S
        PROVE  Cardinality(S \cup {t}) = Cardinality(S) + 1
    BY <2>1, FS_AddElement
  <2> QED
    BY <2>1, <2>2, <2>3
<1> QED
  BY <1>1, <1>2

(* The opening of the barrier by its last thread t starts a new episode    *)
(* with every thread released and none pending.                            *)
LEMMA OpenStep ==
  ASSUME IInv, NEW t \in Threads,
         pc[t] \in {"out", "func"}, left[t] = opened, opened < Episodes,
         \A s \in Threads \ {t} : pc[s] = "wait" /\ s \in Pending,
         Open(t), left' = left,
         runs' \in [1..Episodes -> 0..1],
         runs'[opened + 1] = IF opened + 1 \in Singles THEN 1 ELSE 0,
         \A k \in (1..Episodes) \ {opened + 1} : runs'[k] = runs[k]
  PROVE  IInv'
<1> USE DEF IInv
<1>1. TypeOK'
  BY ThreadSets, BarrierAssumption DEF TypeOK, Open, init_count
<1>2. pc'[t] = "notify" /\ \A s \in Threads \ {t} : pc'[s] = "wait" /\ wait_flag'[s] # flag'
  BY DEF TypeOK, Open, Pending
<1>3. Pending' = {} /\ Released' = Threads
  BY <1>2 DEF Pending, Released
<1>4. RunsNow' = 0
  <2>1. opened' = opened + 1 /\ opened \in Nat
    BY DEF Open, TypeOK
  <2>2. CASE opened + 1 < Episodes
    <3>1. opened + 2 \in (1..Episodes) \ {opened + 1}
      BY <2>1, <2>2, BarrierAssumption
    <3>2. runs[opened + 2] = 0
      BY <2>1, <3>1 DEF BarrierInv, RunsOnce
    <3> QED
      BY <2>1, <2>2, <3>1, <3>2 DEF RunsNow
  <2> QED
    BY <2>1, <2>2, BarrierAssumption DEF RunsNow
<1>5. CountsHits'
  BY <1>3, <1>4, FS_EmptySet, ThreadSets DEF CountsHits, Open, init_count
<1>6. InStep'
  <2>1. \A s \in Threads : left[s] = opened
    BY DEF BarrierInv, InStep, Released, Pending, TypeOK
  <2> QED
    BY <2>1, <1>3 DEF InStep, Open, TypeOK
<1>7. RunsOnce'
  <2>1. opened' = opened + 1 /\ opened \in Nat
    BY DEF Open, TypeOK
  <2>2. ASSUME NEW k \in 1..Episodes
        PROVE  /\ k \notin Singles \/ k > opened' + 1 => runs'[k] = 0
               /\ k \in Singles /\ k <= opened' => runs'[k] = 1
    <3>1. CASE k = opened + 1
      BY <2>1, <3>1
    <3>2. CASE k # opened + 1
      BY <2>1, <3>2 DEF BarrierInv, RunsOnce
    <3> QED
      BY <3>1, <3>2
  <2> QED
    BY <1>2, <1>3, <1>4, <2>2 DEF RunsOnce
<1>8. NoLostWakeup'
  BY <1>2 DEF NoLostWakeup, Open
<1> QED
  BY <1>1, <1>5, <1>6, <1>7, <1>8 DEF BarrierInv

(* A thread that is not the last one to hit the barrier joins the pending  *)
(* threads and blocks.                                                     *)
LEMMA BlockStep ==
  ASSUME IInv, NEW t \in Threads,
         pc[t] = "out", left[t] < Episodes,
         Episode(t) \in Singles => hit_count # init_count,
         hit_count - 1 >= 0, Block(t, hit_count - 1),
         UNCHANGED << left, runs >>
  PROVE  IInv'
<1> USE DEF IInv
<1>1. TypeOK'
  BY ThreadSets DEF TypeOK, Block, init_count
<1>2. t \notin Pending /\ t \notin Released /\ left[t] = opened
  BY DEF Pending, Released, BarrierInv, InStep
<1>3. Pending' = Pending \cup {t} /\ Released' = Released
  BY DEF Pending, Released, Block, TypeOK
<1>4. RunsNow' = RunsNow /\ RunsNow \in 0..1
  BY BarrierAssumption DEF RunsNow, Block, TypeOK
<1>5. Pending \in SUBSET Threads
  BY DEF Pending
<1>6. CountsHits'
  <2>1. Cardinality(Pending') = Cardinality(Pending) + 1 /\ Cardinality(Pending) \in Nat
    BY <1>2, <1>3, <1>5, ThreadSets
  <2> QED
    BY <2>1, <1>4, ThreadSets DEF CountsHits, BarrierInv, Block, init_count
<1>7. InStep'
  BY <1>2, <1>3 DEF InStep, BarrierInv, Block
<1>8. RunsOnce'
  <2>1. opened \in Nat /\ opened < Episodes /\ opened' = opened
    BY <1>2, BarrierAssumption DEF TypeOK, Block
  <2>2. ASSUME Episode(t) \in Singles
        PROVE  runs[Episode(t)] = 1 \/ \E s \in Threads : pc[s] = "func"
    <3>1. Episode(t) = opened + 1 /\ RunsNow = runs[opened + 1]
      BY <1>2, <2>1 DEF Episode, RunsNow
    <3>2. CASE RunsNow = 1
      BY <3>1, <3>2
    <3>3. CASE RunsNow = 0
      <4>1. Cardinality(Pending) # 0
        BY <2>2, <3>3, <1>5, ThreadSets DEF CountsHits, BarrierInv
      <4>2. PICK s \in Pending : TRUE
        BY <4>1, <1>5, ThreadSets
      <4>3. s \in Threads /\ Episode(s) = opened + 1
        BY <4>2 DEF Pending, Released, BarrierInv, InStep, Episode
      <4> QED
        BY <2>2, <3>1, <4>2, <4>3 DEF BarrierInv, RunsOnce
    <3> QED
      BY <1>4, <3>2, <3>3
  <2>3. \A s \in Threads : (pc'[s] = "func" <=> pc[s] = "func") /\ Episode(s)' = Episode(s)
    BY DEF Block, TypeOK, Episode
  <2> QED
    BY <1>3, <1>4, <2>1, <2>2, <2>3 DEF RunsOnce, BarrierInv, Block
<1>9. NoLostWakeup'
  <2>1. \A s \in Threads : pc[s] = "notify" => pc'[s] = "notify"
    BY DEF Block, TypeOK
  <2> QED
    BY <2>1 DEF NoLostWakeup, Block, TypeOK
<1> QED
  BY <1>1, <1>6, <1>7, <1>8, <1>9 DEF BarrierInv

(* The thread that returns from func as others are missing blocks too.     *)
LEMMA BlockAfterFuncStep ==
  ASSUME IInv, NEW t \in Threads,
         pc[t] = "func",
         hit_count - 1 >= 0, Block(t, hit_count - 1),
         left' = left,
         runs' = [runs EXCEPT ![Episode(t)] = @ + 1]
  PROVE  IInv'
<1> USE DEF IInv
<1>1. t \in Pending /\ t \notin Released /\ left[t] = opened
  BY DEF Pending, Released, BarrierInv, InStep
<1>2. opened \in Nat /\ opened < Episodes /\ Episode(t) = opened + 1 /\ opened' = opened
  BY <1>1, BarrierAssumption DEF TypeOK, Block, Episode, BarrierInv, RunsOnce
<1>3. /\ opened + 1 \in Singles /\ runs[opened + 1] = 0
      /\ \A s \in Threads : pc[s] = "func" => s = t
  BY <1>2 DEF BarrierInv, RunsOnce
<1>4. runs' = [runs EXCEPT ![opened + 1] = 1]
  BY <1>2, <1>3
<1>5. TypeOK'
  <2>1. runs' \in [1..Episodes -> 0..1]
    <3>1. runs \in [1..Episodes -> 0..1] /\ 1 \in 0..1
      BY DEF TypeOK
    <3>2. \A f \in [1..Episodes -> 0..1] : [f EXCEPT ![opened + 1] = 1] \in [1..Episodes -> 0..1]
      BY <3>1
    <3> QED
      BY <1>4, <3>1, <3>2
  <2>2. hit_count' \in 0..init_count'
    BY ThreadSets DEF TypeOK, Block, init_count
  <2> QED
    BY <2>1, <2>2 DEF TypeOK, Block
<1>6. Pending' = Pending /\ Released' = Released
  BY <1>1 DEF Pending, Released, Block, TypeOK
<1>7. RunsNow = 0 /\ RunsNow' = 1
  BY <1>2, <1>3, <1>4, BarrierAssumption DEF RunsNow, TypeOK
<1>8. CountsHits'
  <2>1. Cardinality(Pending) \in Nat
    BY ThreadSets DEF Pending
  <2> QED
    BY <2>1, <1>6, <1>7, ThreadSets DEF CountsHits, BarrierInv, Block, init_count
<1>9. InStep'
  BY <1>2, <1>6 DEF InStep, BarrierInv, Block
<1>10. RunsOnce'
  <2>1. \A s \in Threads : pc'[s] # "func" /\ Episode(s)' = Episode(s)
    BY <1>3 DEF Block, TypeOK, Episode
  <2>2. ASSUME NEW s \in Pending
        PROVE  runs'[Episode(s)] = 1
    <3>1. s \in Threads /\ Episode(s) = opened + 1
      BY DEF Pending, Released, BarrierInv, InStep, Episode
    <3> QED
      BY <3>1, <1>2, <1>4, BarrierAssumption DEF TypeOK
  <2>3. ASSUME NEW k \in 1..Episodes
        PROVE  /\ k \notin Singles \/ k > opened + 1 => runs'[k] = 0
               /\ k \in Singles /\ k <= opened => runs'[k] = 1
    BY <1>2, <1>3, <1>4 DEF TypeOK, BarrierInv, RunsOnce
  <2> QED
    BY <1>1, <1>2, <1>6, <2>1, <2>2, <2>3 DEF RunsOnce
<1>11. NoLostWakeup'
  <2>1. \A s \in Threads : pc[s] = "notify" => pc'[s] = "notify"
    BY DEF Block, TypeOK
  <2> QED
    BY <2>1 DEF NoLostWakeup, Block, TypeOK
<1> QED
  BY <1>5, <1>8, <1>9, <1>10, <1>11 DEF BarrierInv

(* The first thread to call single() goes on to execute func.              *)
LEMMA CallSingleFirstStep ==
  ASSUME IInv, NEW t \in Threads, CallSingleFirst(t)
  PROVE  IInv'
<1> USE DEF IInv
<1>1. TypeOK'
  BY ThreadSets DEF TypeOK, CallSingleFirst, init_count
<1>2. t \notin Pending /\ t \notin Released /\ left[t] = opened /\ opened \in Nat
  BY DEF Pending, Released, BarrierInv, InStep, CallSingleFirst, TypeOK
<1>3. /\ opened < Episodes /\ opened' = opened
      /\ Episode(t) = opened + 1 /\ opened + 1 \in Singles
  BY <1>2 DEF CallSingleFirst, Episode
<1>4. Pending = {} /\ RunsNow = 0
  <2>1. Pending \in SUBSET Threads /\ RunsNow \in 0..1
    BY <1>2, <1>3, BarrierAssumption DEF Pending, RunsNow, TypeOK
  <2>2. init_count = init_count - Cardinality(Pending) - RunsNow
    BY DEF CallSingleFirst, BarrierInv, CountsHits
  <2>3. Cardinality(Pending) = 0 /\ RunsNow = 0
    BY <2>1, <2>2, ThreadSets
  <2> QED
    BY <2>1, <2>3, ThreadSets
<1>5. Pending' = {t} /\ Released' = Released
  BY <1>2, <1>4 DEF Pending, Released, CallSingleFirst, TypeOK
<1>6. RunsNow' = 0 /\ runs[opened + 1] = 0
  BY <1>3, <1>4 DEF RunsNow, CallSingleFirst
<1>7. CountsHits'
  <2>1. Cardinality({t}) = 1
    BY FS_Singleton
  <2> QED
    BY <2>1, <1>5, <1>6, ThreadSets DEF CountsHits, CallSingleFirst, init_count
<1>8. InStep'
  BY <1>2, <1>5 DEF InStep, BarrierInv, CallSingleFirst
<1>9. RunsOnce'
  <2>1. \A s \in Threads : pc'[s] = "func" <=> s = t
    <3>1. \A s \in Threads : pc[s] # "func"
      BY <1>4 DEF Pending
    <3> QED
      BY <3>1 DEF CallSingleFirst, TypeOK
  <2>2. \A s \in Threads : Episode(s)' = Episode(s)
    BY DEF CallSingleFirst, Episode
  <2>3. runs' = runs
    BY DEF CallSingleFirst
  <2> QED
    BY <1>3, <1>5, <1>6, <2>1, <2>2, <2>3 DEF RunsOnce, BarrierInv
<1>10. NoLostWakeup'
  <2>1. \A s \in Threads : pc[s] \in {"wait", "notify"} => pc'[s] = pc[s]
    BY DEF CallSingleFirst, TypeOK
  <2> QED
    BY <2>1 DEF NoLostWakeup, CallSingleFirst, TypeOK
<1> QED
  BY <1>1, <1>7, <1>8, <1>9, <1>10 DEF BarrierInv

(* A released thread whose call returns leaves the others as they are.     *)
LEMMA ReturnStep ==
  ASSUME IInv, NEW t \in Released,
         pc' = [pc EXCEPT ![t] = "out"],
         left' = [left EXCEPT ![t] = @ + 1],
         asleep' \in SUBSET asleep, t \notin asleep',
         pc[t] = "notify" => asleep' = {},
         UNCHANGED << hit_count, flag, wait_flag, runs, opened >>
  PROVE  IInv'
<1> USE DEF IInv
<1>1. t \in Threads /\ left[t] = opened - 1 /\ opened \in 0..Episodes /\ left[t] \in 0..Episodes
  BY DEF Released, BarrierInv, InStep, TypeOK
<1>2. TypeOK'
  <2>1. left[t] + 1 \in 0..Episodes
    BY <1>1
  <2>2. left' \in [Threads -> 0..Episodes]
    BY <2>1 DEF TypeOK
  <2> QED
    BY <2>2 DEF TypeOK, init_count
<1>3. Pending' = Pending /\ Released' = Released \ {t} /\ t \notin Pending
  BY DEF Pending, Released, TypeOK
<1>4. CountsHits' /\ RunsNow' = RunsNow
  BY <1>3 DEF CountsHits, BarrierInv, RunsNow, init_count
<1>5. InStep'
  BY <1>1, <1>3 DEF InStep, BarrierInv, TypeOK
<1>6. RunsOnce'
  <2>1. \A s \in Threads : pc'[s] = "func" <=> pc[s] = "func"
    BY DEF TypeOK, Released
  <2>2. \A s \in Threads \ {t} : Episode(s)' = Episode(s)
    BY DEF TypeOK, Episode
  <2>3. pc'[t] = "out"
    BY <1>1 DEF TypeOK
  <2> QED
    BY <1>3, <1>4, <2>1, <2>2, <2>3 DEF RunsOnce, BarrierInv
<1>7. NoLostWakeup'
  <2>1. \A s \in Threads \ {t} : pc'[s] = pc[s]
    BY DEF TypeOK
  <2>2. CASE pc[t] = "notify"
    BY <2>2 DEF NoLostWakeup
  <2>3. CASE pc[t] # "notify"
    BY <2>1, <2>3, <1>1 DEF NoLostWakeup, TypeOK
  <2> QED
    BY <2>2, <2>3
<1> QED
  BY <1>2, <1>4, <1>5, <1>6, <1>7 DEF BarrierInv

(* A waiter that wakes on its own or goes back to sleep changes nothing    *)
(* the others depend on.                                                   *)
LEMMA SleepStep ==
  ASSUME IInv, NEW t \in Threads, pc[t] = "wait",
         asleep' = asleep \ {t} \/ (asleep' = asleep \cup {t} /\ wait_flag[t] = flag),
         UNCHANGED << hit_count, flag, pc, wait_flag, left, runs, opened >>
  PROVE  IInv'
<1> USE DEF IInv
<1>1. TypeOK'
  BY DEF TypeOK, init_count
<1>2. Pending' = Pending /\ Released' = Released /\ RunsNow' = RunsNow
  BY DEF Pending, Released, RunsNow
<1>3. BarrierInv'
  BY <1>2 DEF BarrierInv, CountsHits, InStep, RunsOnce, Episode, init_count
<1>4. NoLostWakeup'
  BY DEF NoLostWakeup, TypeOK
<1> QED
  BY <1>1, <1>3, <1>4

(* The position of a thread that is about to call or is in func.           *)
LEMMA CurrentEpisode ==
  ASSUME IInv, NEW t \in Threads, pc[t] \in {"out", "func"}
  PROVE  /\ left[t] = opened /\ Episode(t) = opened + 1 /\ opened \in Nat
         /\ t \notin Released /\ (t \in Pending <=> pc[t] = "func")
         /\ opened < Episodes => RunsNow = runs[opened + 1] /\ RunsNow \in 0..1
         /\ \A s \in Pending : Episode(s) = opened + 1
<1> USE DEF IInv
<1>1. t \notin Released /\ (t \in Pending <=> pc[t] = "func")
  BY DEF Released, Pending
<1>2. left[t] = opened /\ opened \in Nat
  BY <1>1 DEF BarrierInv, InStep, TypeOK
<1>3. \A s \in Pending : Episode(s) = opened + 1
  BY DEF Pending, Released, BarrierInv, InStep, Episode
<1>4. opened < Episodes => RunsNow = runs[opened + 1] /\ RunsNow \in 0..1
  BY <1>2, BarrierAssumption DEF RunsNow, TypeOK
<1> QED
  BY <1>1, <1>2, <1>3, <1>4 DEF Episode

(* Every action preserves the inductive invariant: the two calls and the   *)
(* return from func either open the barrier, with every other thread       *)
(* waiting in the current episode, or block.                               *)
LEMMA CallBarrierStep ==
  ASSUME IInv, NEW t \in Threads, CallBarrier(t)
  PROVE  IInv'
<1>1. /\ pc[t] = "out" /\ left[t] < Episodes /\ Episode(t) \notin Singles
      /\ UNCHANGED << left, runs >> /\ hit_count \in Nat
  BY ThreadSets DEF CallBarrier, IInv, TypeOK
<1>2. CASE hit_count - 1 = 0 /\ Open(t)
  <2>1. /\ opened \in Nat /\ opened < Episodes /\ left[t] = opened /\ opened + 1 \notin Singles
        /\ t \notin Pending /\ RunsNow = runs[opened + 1]
    BY <1>1, CurrentEpisode
  <2>2. RunsNow = 0
    BY <2>1, BarrierAssumption DEF IInv, BarrierInv, RunsOnce
  <2>3. Pending \cup {t} = Threads
    <3>1. Pending \in SUBSET Threads
      BY DEF Pending
    <3>2. Cardinality(Pending \cup {t}) = init_count
      BY <1>2, <2>1, <2>2, <3>1, ThreadSets DEF IInv, BarrierInv, CountsHits
    <3> QED
      BY <3>1, <3>2, ThreadSets
  <2>4. \A s \in Threads \ {t} : pc[s] = "wait" /\ s \in Pending
    <3> TAKE s \in Threads \ {t}
    <3>1. s \in Pending
      BY <2>3
    <3>2. pc[s] # "func"
      BY <1>1, <2>1, <3>1, CurrentEpisode DEF IInv, BarrierInv, RunsOnce
    <3> QED
      BY <3>1, <3>2 DEF Pending
  <2>5. runs' \in [1..Episodes -> 0..1]
    BY <1>1 DEF IInv, TypeOK
  <2> QED
    BY <1>1, <1>2, <2>1, <2>2, <2>4, <2>5, OpenStep
<1>3. CASE hit_count - 1 # 0 /\ Block(t, hit_count - 1)
  <2>1. hit_count # 0
    <3>1. SUFFICES ASSUME hit_count = 0 PROVE FALSE
      OBVIOUS
    <3>2. opened < Episodes /\ t \notin Pending /\ RunsNow = runs[opened + 1]
            /\ opened \in Nat /\ opened + 1 \notin Singles
      BY <1>1, CurrentEpisode
    <3>3. RunsNow = 0
      BY <3>2, BarrierAssumption DEF IInv, BarrierInv, RunsOnce
    <3>4. Pending \in SUBSET Threads
      BY DEF Pending
    <3>5. Cardinality(Pending) = init_count
      BY <3>1, <3>3, <3>4, ThreadSets DEF IInv, BarrierInv, CountsHits
    <3> QED
      BY <3>2, <3>4, <3>5, ThreadSets
  <2> QED
    BY <1>1, <1>3, <2>1, BlockStep
<1> QED
  BY <1>2, <1>3 DEF CallBarrier

LEMMA CallSingleOtherStep ==
  ASSUME IInv, NEW t \in Threads, CallSingleOther(t)
  PROVE  IInv'
<1>1. /\ pc[t] = "out" /\ left[t] < Episodes /\ Episode(t) \in Singles
      /\ UNCHANGED << left, runs >> /\ hit_count \in Nat /\ hit_count # init_count
  BY ThreadSets DEF CallSingleOther, IInv, TypeOK
<1>2. CASE hit_count - 1 < 0 /\ Open(t)
  <2>1. /\ opened \in Nat /\ opened < Episodes /\ left[t] = opened /\ opened + 1 \in Singles
        /\ t \notin Pending /\ RunsNow = runs[opened + 1] /\ RunsNow \in 0..1
    BY <1>1, CurrentEpisode
  <2>2. RunsNow = 1 /\ Pending \cup {t} = Threads
    <3>1. Pending \in SUBSET Threads
      BY DEF Pending
    <3>2. Cardinality(Pending) + RunsNow = init_count
      BY <1>1, <1>2, <2>1, <3>1, ThreadSets DEF IInv, BarrierInv, CountsHits
    <3>3. Cardinality(Pending) # init_count
      BY <2>1, <3>1, ThreadSets
    <3>4. RunsNow = 1 /\ Cardinality(Pending \cup {t}) = init_count
      BY <2>1, <3>1, <3>2, <3>3, ThreadSets
    <3> QED
      BY <3>1, <3>4, ThreadSets
  <2>3. \A s \in Threads \ {t} : pc[s] = "wait" /\ s \in Pending
    <3> TAKE s \in Threads \ {t}
    <3>1. s \in Pending /\ Episode(s) = opened + 1
      BY <1>1, <2>2, CurrentEpisode
    <3>2. runs[Episode(s)] = 1
      BY <2>1, <2>2, <3>1
    <3>3. pc[s] = "func" => runs[Episode(s)] = 0
      BY DEF IInv, BarrierInv, RunsOnce
    <3> QED
      BY <3>1, <3>2, <3>3 DEF Pending
  <2>4. runs' \in [1..Episodes -> 0..1]
    BY <1>1 DEF IInv, TypeOK
  <2> QED
    BY <1>1, <1>2, <2>1, <2>2, <2>3, <2>4, OpenStep
<1>3. CASE hit_count - 1 >= 0 /\ Block(t, hit_count - 1)
  BY <1>1, <1>3, BlockStep
<1> QED
  BY <1>2, <1>3 DEF CallSingleOther, SingleTail

LEMMA ReturnFromFuncStep ==
  ASSUME IInv, NEW t \in Threads, ReturnFromFunc(t)
  PROVE  IInv'
<1>1. /\ pc[t] = "func" /\ left' = left /\ hit_count \in Nat
      /\ runs' = [runs EXCEPT ![Episode(t)] = @ + 1]
  BY ThreadSets DEF ReturnFromFunc, IInv, TypeOK
<1>2. CASE hit_count - 1 < 0 /\ Open(t)
  <2>1. /\ opened \in Nat /\ opened < Episodes /\ left[t] = opened /\ opened + 1 \in Singles
        /\ t \in Pending /\ runs[opened + 1] = 0 /\ RunsNow = 0 /\ Episode(t) = opened + 1
    <3>1. t \in Pending /\ Episode(t) = opened + 1 /\ left[t] = opened /\ opened \in Nat
      BY <1>1, CurrentEpisode
    <3>2. opened < Episodes /\ opened + 1 \in Singles /\ runs[opened + 1] = 0
      BY <1>1, <3>1 DEF IInv, BarrierInv, RunsOnce
    <3>3. RunsNow = runs[opened + 1]
      BY <1>1, <3>2, CurrentEpisode
    <3> QED
      BY <3>1, <3>2, <3>3
  <2>2. Pending = Threads
    <3>1. Pending \in SUBSET Threads
      BY DEF Pending
    <3>2. Cardinality(Pending) = init_count
      BY <1>1, <1>2, <2>1, <3>1, ThreadSets DEF IInv, BarrierInv, CountsHits
    <3> QED
      BY <3>1, <3>2, ThreadSets
  <2>3. \A s \in Threads \ {t} : pc[s] = "wait" /\ s \in Pending
    <3>1. \A s \in Threads \ {t} : pc[s] # "func"
      BY <1>1 DEF IInv, BarrierInv, RunsOnce
    <3> QED
      BY <2>2, <3>1 DEF Pending
  <2>4. runs' = [runs EXCEPT ![opened + 1] = 1]
    <3>1. runs[opened + 1] + 1 = 1 /\ Episode(t) = opened + 1
      BY <2>1
    <3> QED
      BY <1>1, <3>1, Zenon
  <2>5. runs' \in [1..Episodes -> 0..1]
    <3>1. runs \in [1..Episodes -> 0..1] /\ 1 \in 0..1
      BY DEF IInv, TypeOK
    <3>2. \A f \in [1..Episodes -> 0..1] : [f EXCEPT ![opened + 1] = 1] \in [1..Episodes -> 0..1]
      BY <3>1
    <3> QED
      BY <2>4, <3>1, <3>2
  <2>6. /\ runs'[opened + 1] = 1
        /\ \A k \in (1..Episodes) \ {opened + 1} : runs'[k] = runs[k]
    <3>1. runs \in [1..Episodes -> 0..1] /\ opened + 1 \in 1..Episodes
      BY <2>1, BarrierAssumption DEF IInv, TypeOK
    <3> QED
      BY <2>4, <3>1
  <2> QED
    BY <1>1, <1>2, <2>1, <2>3, <2>5, <2>6, OpenStep
<1>3. CASE hit_count - 1 >= 0 /\ Block(t, hit_count - 1)
  BY <1>1, <1>3, BlockAfterFuncStep
<1> QED
  BY <1>2, <1>3 DEF ReturnFromFunc, SingleTail

------------------------------------------------------------------------------
LEMMA InitIInv == Init => IInv
<1> SUFFICES ASSUME Init PROVE IInv
  OBVIOUS
<1>1. TypeOK
  <2>1. /\ pc \in [Threads -> {"out", "func", "wait", "notify"}]
        /\ wait_flag \in [Threads -> BOOLEAN] /\ asleep \in SUBSET Threads /\ flag \in BOOLEAN
    BY DEF Init
  <2>2. left \in [Threads -> 0..Episodes] /\ runs \in [1..Episodes -> 0..1] /\ opened \in 0..Episodes
    BY BarrierAssumption DEF Init
  <2>3. hit_count \in 0..init_count
    BY ThreadSets DEF Init
  <2> QED
    BY <2>1, <2>2, <2>3 DEF TypeOK
<1>2. Pending = {} /\ Released = {} /\ RunsNow = 0
  BY BarrierAssumption DEF Init, Pending, Released, RunsNow
<1>3. CountsHits
  BY <1>2, ThreadSets, FS_EmptySet DEF Init, CountsHits
<1>4. InStep /\ RunsOnce /\ NoLostWakeup
  BY <1>2, BarrierAssumption DEF Init, InStep, RunsOnce, NoLostWakeup
<1> QED
  BY <1>1, <1>3, <1>4 DEF IInv, BarrierInv

LEMMA NextIInv == IInv /\ [Next]_vars => IInv'
<1> SUFFICES ASSUME IInv, [Next]_vars PROVE IInv'
  OBVIOUS
<1>1. ASSUME NEW t \in Threads, CallBarrier(t) PROVE IInv'
  BY <1>1, CallBarrierStep
<1>2. ASSUME NEW t \in Threads, CallSingleFirst(t) PROVE IInv'
  BY <1>2, CallSingleFirstStep
<1>3. ASSUME NEW t \in Threads, CallSingleOther(t) PROVE IInv'
  BY <1>3, CallSingleOtherStep
<1>4. ASSUME NEW t \in Threads, ReturnFromFunc(t) PROVE IInv'
  BY <1>4, ReturnFromFuncStep
<1>5. ASSUME NEW t \in Threads, Notify(t) PROVE IInv'
  <2>1. t \in Released
    BY <1>5 DEF Notify, Released
  <2>2. asleep' = {} /\ asleep' \in SUBSET asleep /\ t \notin asleep'
    BY <1>5 DEF Notify
  <2> QED
    BY <1>5, <2>1, <2>2, ReturnStep DEF Notify
<1>6. ASSUME NEW t \in Threads, Wake(t) PROVE IInv'
  <2>1. CASE wait_flag[t] # flag
    <3>1. t \in Released /\ pc[t] # "notify" /\ asleep' = asleep /\ t \notin asleep
      BY <1>6, <2>1 DEF Wake, Released
    <3> QED
      BY <1>6, <2>1, <3>1, ReturnStep DEF Wake
  <2>2. CASE wait_flag[t] = flag
    BY <1>6, <2>2, SleepStep DEF Wake
  <2> QED
    BY <2>1, <2>2
<1>7. ASSUME NEW t \in Threads, SpuriousWakeup(t) PROVE IInv'
  <2>1. pc[t] = "wait"
    BY <1>7 DEF SpuriousWakeup, IInv, NoLostWakeup
  <2> QED
    BY <1>7, <2>1, SleepStep DEF SpuriousWakeup
<1>8. CASE UNCHANGED vars
  BY <1>8 DEF vars, IInv, TypeOK, BarrierInv, NoLostWakeup, CountsHits, InStep, RunsOnce,
              Pending, Released, RunsNow, Episode, init_count
<1> QED
  BY <1>1, <1>2, <1>3, <1>4, <1>5, <1>6, <1>7, <1>8 DEF Next, Step, Finished

(* The invariants the model checker checks, for every group of threads:    *)
(* the counter, the flag and the threads' positions always agree, and no   *)
(* wake-up of a waiting thread is lost.                                    *)
THEOREM Safety == Spec => [](TypeOK /\ BarrierInv /\ NoLostWakeup)
<1>1. Spec => []IInv
  BY InitIInv, NextIInv, PTL DEF Spec
<1>2. IInv => TypeOK /\ BarrierInv /\ NoLostWakeup
  BY DEF IInv
<1> QED
  BY <1>1, <1>2, PTL

(* NoLostWakeup: a thread that sleeps although it may go on is about to be *)
(* notified, by the thread that opened the barrier.                        *)
THEOREM SleepersNotified == Spec => []NoLostWakeup
  BY Safety, PTL

(* TypeOK: hit_count_ never passes its bounds, whatever calls come next,   *)
(* and no call executes func twice.                                        *)
THEOREM TypeCorrect == Spec => []TypeOK
  BY Safety, PTL

------------------------------------------------------------------------------
(* The steps of the refinement: a call arrives, the return from func is    *)
(* the execution of func, the return of a call leaves.                     *)
LEMMA ArriveStep ==
  ASSUME IInv, NEW t \in Threads,
         pc[t] = "out", left[t] < Episodes, UNCHANGED << left, runs >>,
         NEW p \in {"func", "wait", "notify"}, pc' = [pc EXCEPT ![t] = p]
  PROVE  Abstract!Arrive(t)
<1>1. Arrived[t] = left[t] /\ Arrived[t] < Episodes
  BY DEF Arrived
<1>2. Arrived' = [Arrived EXCEPT ![t] = @ + 1]
  BY DEF Arrived, Episode, IInv, TypeOK
<1> QED
  BY <1>1, <1>2 DEF Abstract!Arrive

LEMMA RunStep ==
  ASSUME IInv, NEW t \in Threads, ReturnFromFunc(t)
  PROVE  Abstract!Run(t)
<1>1. pc[t] = "func" /\ left' = left /\ runs' = [runs EXCEPT ![Episode(t)] = @ + 1]
  BY DEF ReturnFromFunc
<1>2. Episode(t) \in Singles /\ runs[Episode(t)] = 0
  BY <1>1 DEF IInv, BarrierInv, RunsOnce
<1>3. Arrived[t] = Episode(t) /\ left[t] < Episode(t)
  BY <1>1 DEF Arrived, Episode, IInv, TypeOK
<1>4. PICK p \in {"wait", "notify"} : pc' = [pc EXCEPT ![t] = p]
  BY DEF ReturnFromFunc, SingleTail, Open, Block
<1>5. Arrived' = Arrived
  BY <1>1, <1>4 DEF Arrived, Episode, IInv, TypeOK
<1>6. runs' = [runs EXCEPT ![Arrived[t]] = 1]
  <2>1. runs[Arrived[t]] + 1 = 1
    BY <1>2, <1>3
  <2> QED
    BY <1>1, <1>3, <2>1, Zenon
<1> QED
  BY <1>1, <1>2, <1>3, <1>5, <1>6 DEF Abstract!Run

LEMMA LeaveStep ==
  ASSUME IInv, NEW t \in Released,
         pc' = [pc EXCEPT ![t] = "out"], left' = [left EXCEPT ![t] = @ + 1], runs' = runs
  PROVE  Abstract!Leave(t)
<1>1. t \in Threads /\ pc[t] # "out" /\ left[t] = opened - 1 /\ opened \in 1..Episodes
  BY DEF Released, IInv, BarrierInv, InStep, TypeOK
<1>2. Arrived[t] = opened
  BY <1>1 DEF Arrived, Episode
<1>3. ASSUME NEW s \in Threads
      PROVE  opened <= Arrived[s]
  <2>1. CASE s \in Released
    <3>1. pc[s] # "out" /\ left[s] = opened - 1
      BY <2>1 DEF Released, IInv, BarrierInv, InStep
    <3> QED
      BY <3>1, <1>1 DEF Arrived, Episode
  <2>2. CASE s \notin Released
    <3>1. left[s] = opened
      BY <2>2 DEF IInv, BarrierInv, InStep
    <3> QED
      BY <3>1, <1>1 DEF Arrived, Episode
  <2> QED
    BY <2>1, <2>2
<1>4. opened \in Singles => runs[opened] = 1
  BY <1>1 DEF IInv, BarrierInv, RunsOnce
<1>5. left' = [left EXCEPT ![t] = Arrived[t]]
  BY <1>1, <1>2 DEF IInv, TypeOK
<1>6. Arrived' = Arrived
  <2>1. \A s \in Threads : Arrived'[s] = Arrived[s]
    BY <1>1 DEF Arrived, Episode, IInv, TypeOK
  <2> QED
    BY <2>1 DEF Arrived
<1> QED
  BY <1>1, <1>2, <1>3, <1>4, <1>5, <1>6 DEF Abstract!Leave

LEMMA RefinesNext == IInv /\ [Next]_vars => [Abstract!Next]_(Abstract!vars)
<1> SUFFICES ASSUME IInv, [Next]_vars PROVE Abstract!Next \/ UNCHANGED Abstract!vars
  BY DEF Abstract!vars
<1>1. ASSUME NEW t \in Threads, CallBarrier(t) \/ CallSingleFirst(t) \/ CallSingleOther(t)
      PROVE  Abstract!Arrive(t)
  <2>1. pc[t] = "out" /\ left[t] < Episodes /\ UNCHANGED << left, runs >>
    BY <1>1 DEF CallBarrier, CallSingleFirst, CallSingleOther
  <2>2. PICK p \in {"func", "wait", "notify"} : pc' = [pc EXCEPT ![t] = p]
    BY <1>1 DEF CallBarrier, CallSingleFirst, CallSingleOther, SingleTail, Open, Block
  <2> QED
    BY <2>1, <2>2, ArriveStep
<1>2. ASSUME NEW t \in Threads, ReturnFromFunc(t) PROVE Abstract!Run(t)
  BY <1>2, RunStep
<1>3. ASSUME NEW t \in Threads, Notify(t) PROVE Abstract!Leave(t)
  BY <1>3, LeaveStep DEF Notify, Released
<1>4. ASSUME NEW t \in Threads, Wake(t) PROVE Abstract!Leave(t) \/ UNCHANGED Abstract!vars
  <2>1. CASE wait_flag[t] # flag
    BY <1>4, <2>1, LeaveStep DEF Wake, Released
  <2>2. CASE wait_flag[t] = flag
    BY <1>4, <2>2 DEF Wake, Abstract!vars, Arrived, Episode
  <2> QED
    BY <2>1, <2>2
<1>5. ASSUME NEW t \in Threads, SpuriousWakeup(t) PROVE UNCHANGED Abstract!vars
  BY <1>5 DEF SpuriousWakeup, Abstract!vars, Arrived, Episode
<1>6. CASE UNCHANGED vars
  BY <1>6 DEF vars, Abstract!vars, Arrived, Episode
<1> QED
  BY <1>1, <1>2, <1>3, <1>4, <1>5, <1>6 DEF Next, Step, Finished, Abstract!Next

(* The barrier keeps its promise for every number of threads: nobody goes  *)
(* on before all have made the same call, and func is executed exactly     *)
(* once before anybody goes on.                                            *)
THEOREM Refinement == Spec => ImplementsBarrier
<1>1. Init => Abstract!Init
  BY DEF Init, Abstract!Init, Arrived
<1>2. Spec => []IInv
  BY InitIInv, NextIInv, PTL DEF Spec
<1> QED
  BY <1>1, <1>2, RefinesNext, PTL DEF Spec, ImplementsBarrier, Abstract!Spec

==============================================================================
