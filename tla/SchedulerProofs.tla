--------------------------- MODULE SchedulerProofs ---------------------------
(***************************************************************************)
(* Proofs about Scheduler, for every number of threads and every layout of *)
(* the tasks: the termination detection is never wrong, no two tasks       *)
(* overlap, and the scheduler implements AbstractTaskPool.                 *)
(*                                                                         *)
(* NoWorkAfterExit is not inductive.  That the idle counter counts         *)
(* (CountsIdle) lets a thread conclude from "idle = number of threads"     *)
(* that every thread has signalled; that a thread signals only with an     *)
(* empty queue (IdleQueues) and only after it found the global queue empty *)
(* (GlobalIsServed) makes that conclusion mean that no task is left.       *)
(***************************************************************************)
EXTENDS Scheduler, FiniteSetTheorems, SequenceTheorems, TLAPS

(* Only a thread that is getting or working on a task has tasks queued,    *)
(* and one that is about to offer a task keeps another.                    *)
IdleQueues ==
  \A t \in Threads :
    /\ QSize(queue[t]) # 0 => pc[t] = "getJob" \/ Holds(t)
    /\ pc[t] \in {"offerEmpty", "offerPush"} => QSize(queue[t]) > 1

Queues == [v : Seq(Tasks), off : Nat]

IInv ==
  /\ TypeOK
  /\ CountsIdle
  /\ GlobalIsServed
  /\ IdleQueues
  /\ NoWorkAfterExit

LEMMA ThreadSets ==
  /\ num_threads \in Nat \ {0}
  /\ \A S \in SUBSET Threads :
       /\ IsFiniteSet(S) /\ Cardinality(S) \in 0..num_threads
       /\ Cardinality(S) = num_threads => S = Threads
       /\ \A t \in Threads \ S : Cardinality(S \cup {t}) = Cardinality(S) + 1
       /\ \A t \in S : Cardinality(S \ {t}) = Cardinality(S) - 1
<1>1. num_threads \in Nat \ {0}
  BY SchedulerAssumption, FS_CardinalityType, FS_EmptySet DEF num_threads
<1>2. ASSUME NEW S \in SUBSET Threads
      PROVE  /\ IsFiniteSet(S) /\ Cardinality(S) \in 0..num_threads
             /\ Cardinality(S) = num_threads => S = Threads
             /\ \A t \in Threads \ S : Cardinality(S \cup {t}) = Cardinality(S) + 1
             /\ \A t \in S : Cardinality(S \ {t}) = Cardinality(S) - 1
  <2>1. /\ IsFiniteSet(S) /\ Cardinality(S) <= num_threads
        /\ Cardinality(S) = num_threads => S = Threads
    BY SchedulerAssumption, FS_Subset DEF num_threads
  <2>2. Cardinality(S) \in 0..num_threads
    BY <1>1, <2>1, FS_CardinalityType
  <2>3. ASSUME NEW t \in Threads \ S
        PROVE  Cardinality(S \cup {t}) = Cardinality(S) + 1
    BY <2>1, FS_AddElement
  <2>4. ASSUME NEW t \in S
        PROVE  Cardinality(S \ {t}) = Cardinality(S) - 1
    BY <2>1, FS_RemoveElement
  <2> QED
    BY <2>1, <2>2, <2>3, <2>4
<1> QED
  BY <1>1, <1>2

(* A non-empty sequence of tasks without its last or its first element.    *)
LEMMA Shorten ==
  ASSUME NEW s \in Seq(Tasks), s # << >>
  PROVE  /\ SubSeq(s, 1, Len(s) - 1) \in Seq(Tasks)
         /\ Len(SubSeq(s, 1, Len(s) - 1)) = Len(s) - 1
         /\ s[Len(s)] \in Tasks
         /\ Head(s) \in Tasks /\ Tail(s) \in Seq(Tasks)
<1>1. Len(s) \in Nat \ {0} /\ s[Len(s)] \in Tasks
  OBVIOUS
<1>2. \A n \in Nat : n <= Len(s) => SubSeq(s, 1, n) \in Seq(Tasks) /\ Len(SubSeq(s, 1, n)) = n
  OBVIOUS
<1>3. Head(s) \in Tasks /\ Tail(s) \in Seq(Tasks)
  BY HeadTailProperties
<1>4. Len(s) - 1 \in Nat /\ Len(s) - 1 <= Len(s)
  BY <1>1
<1>5. SubSeq(s, 1, Len(s) - 1) \in Seq(Tasks) /\ Len(SubSeq(s, 1, Len(s) - 1)) = Len(s) - 1
  BY <1>2, <1>4, Zenon
<1> QED
  BY <1>1, <1>3, <1>5

(* What the operations of PrivateQueue do to a queue and its size.         *)
LEMMA PopBackSize ==
  ASSUME NEW q \in Queues, q.off < Len(q.v)
  PROVE  /\ PopBack(q) \in Queues /\ PopBack(q).off <= Len(PopBack(q).v)
         /\ QSize(PopBack(q)) = QSize(q) - 1
         /\ q.v[Len(q.v)] \in Tasks
<1>1. q.v \in Seq(Tasks) /\ q.off \in Nat /\ Len(q.v) \in Nat /\ q = [v |-> q.v, off |-> q.off]
  BY DEF Queues
<1> DEFINE w == SubSeq(q.v, 1, Len(q.v) - 1)
<1>2. w \in Seq(Tasks) /\ Len(w) = Len(q.v) - 1
  <2>1. q.v # << >>
    BY <1>1
  <2> QED
    BY <1>1, <2>1, Shorten
<1>3. CASE Len(w) = q.off
  BY <1>1, <1>2, <1>3 DEF PopBack, Clear, QSize, Queues
<1>4. CASE Len(w) # q.off
  <2>1. PopBack(q) = [v |-> w, off |-> q.off]
    BY <1>1, <1>4 DEF PopBack
  <2> QED
    BY <1>1, <1>2, <2>1 DEF QSize, Queues
<1>5. q.v[Len(q.v)] \in Tasks
  BY <1>1
<1> QED
  BY <1>3, <1>4, <1>5

LEMMA PopFrontSize ==
  ASSUME NEW q \in Queues, q.off < Len(q.v)
  PROVE  /\ PopFront(q) \in Queues /\ PopFront(q).off <= Len(PopFront(q).v)
         /\ QSize(PopFront(q)) = QSize(q) - 1
         /\ q.v[q.off + 1] \in Tasks
<1>1. q.v \in Seq(Tasks) /\ q.off \in Nat /\ Len(q.v) \in Nat /\ q = [v |-> q.v, off |-> q.off]
  BY DEF Queues
<1>2. CASE Len(q.v) = q.off + 1
  BY <1>1, <1>2 DEF PopFront, Clear, QSize, Queues
<1>3. CASE Len(q.v) # q.off + 1
  <2>1. PopFront(q) = [v |-> q.v, off |-> q.off + 1]
    BY <1>1, <1>3 DEF PopFront
  <2> QED
    BY <1>1, <1>3, <2>1 DEF QSize, Queues
<1>4. q.v[q.off + 1] \in Tasks
  BY <1>1
<1> QED
  BY <1>2, <1>3, <1>4

LEMMA EmplaceType ==
  ASSUME NEW q \in Queues, q.off <= Len(q.v), NEW s \in Seq(Tasks)
  PROVE  Emplace(q, s) \in Queues /\ Emplace(q, s).off <= Len(Emplace(q, s).v)
<1>1. q.v \in Seq(Tasks) /\ q.off \in Nat /\ q = [v |-> q.v, off |-> q.off]
  BY DEF Queues
<1>2. Emplace(q, s) = [v |-> q.v \o s, off |-> q.off]
  <2>1. Emplace(q, s) = [q EXCEPT !.v = q.v \o s]
    BY DEF Emplace
  <2> QED
    BY <2>1 DEF Queues
<1>3. q.v \o s \in Seq(Tasks) /\ Len(q.v \o s) >= Len(q.v)
  BY <1>1
<1> QED
  BY <1>1, <1>2, <1>3 DEF Queues

LEMMA SplitOrdersType ==
  ASSUME NEW tk \in Tasks, NEW s \in SplitOrders[tk]
  PROVE  s \in Seq(Tasks)
<1>1. CASE Length(tk) <= SingleLevel
  BY <1>1 DEF SplitOrders
<1>2. CASE ~(Length(tk) <= SingleLevel)
  <2>1. s \in UNION {[1..k -> Parts(tk)] : k \in 0..(Size \div (BaseCase + 1))}
    BY <1>2 DEF SplitOrders
  <2>2. PICK k \in Nat : s \in [1..k -> Parts(tk)]
    BY <2>1
  <2>3. Parts(tk) \subseteq Tasks
    BY DEF Parts
  <2> QED
    BY <2>2, <2>3
<1> QED
  BY <1>1, <1>2

(* A step that moves thread t from one position to another keeps the       *)
(* counter right if it adds one for entering and takes one for leaving the *)
(* positions at which a thread counts as idle.                             *)
LEMMA IdleChange ==
  ASSUME TypeOK, CountsIdle, NEW t \in Threads, NEW x \in PCs,
         pc' = [pc EXCEPT ![t] = x],
         idle' = idle + (IF Idling(t)' THEN 1 ELSE 0) - (IF Idling(t) THEN 1 ELSE 0)
  PROVE  CountsIdle' /\ idle' \in 0..num_threads'
<1>1. pc'[t] = x /\ \A s \in Threads \ {t} : pc'[s] = pc[s]
  BY DEF TypeOK
<1>2. Idlers \in SUBSET Threads /\ idle \in Int
  BY DEF Idlers, TypeOK
<1>3. idle' = Cardinality(Idlers')
  <2>1. CASE Idling(t)' /\ Idling(t)
    <3>1. Idlers' = Idlers
      BY <1>1, <2>1 DEF Idlers, Idling
    <3> QED
      BY <1>2, <2>1, <3>1 DEF CountsIdle
  <2>2. CASE ~Idling(t)' /\ ~Idling(t)
    <3>1. Idlers' = Idlers
      BY <1>1, <2>2 DEF Idlers, Idling
    <3> QED
      BY <1>2, <2>2, <3>1 DEF CountsIdle
  <2>3. CASE Idling(t)' /\ ~Idling(t)
    <3>1. Idlers' = Idlers \cup {t} /\ t \in Threads \ Idlers
      BY <1>1, <2>3 DEF Idlers, Idling
    <3> QED
      BY <1>2, <2>3, <3>1, ThreadSets DEF CountsIdle
  <2>4. CASE ~Idling(t)' /\ Idling(t)
    <3>1. Idlers' = Idlers \ {t} /\ t \in Idlers
      BY <1>1, <2>4 DEF Idlers, Idling
    <3> QED
      BY <1>2, <2>4, <3>1, ThreadSets DEF CountsIdle
  <2> QED
    BY <2>1, <2>2, <2>3, <2>4
<1>4. Idlers' \in SUBSET Threads
  BY DEF Idlers
<1> QED
  BY <1>3, <1>4, ThreadSets DEF CountsIdle, num_threads

(* A step of a thread that has found out that nothing is left, or has yet  *)
(* to find out what it will do, and that moves no task.                    *)
LEMMA MoveStep ==
  ASSUME IInv, NEW t \in Threads, NEW x \in PCs,
         pc' = [pc EXCEPT ![t] = x],
         idle' = idle + (IF Idling(t)' THEN 1 ELSE 0) - (IF Idling(t) THEN 1 ELSE 0),
         UNCHANGED << queue, glob, task >>,
         Holds(t)' <=> Holds(t),
         pc[t] # "getJob" /\ x # "getJob",
         x \in {"offerEmpty", "offerPush"} => QSize(queue[t]) > 1,
         glob # << >> /\ pc[t] = "retryPop" => x = "retryPop",
         x = "exited" => idle = num_threads,
         x \in {"retryPop", "addIdle"} => Idling(t) \/ pc[t] = "retryPop"
  PROVE  IInv'
<1> USE DEF IInv
<1>1. pc'[t] = x /\ \A s \in Threads \ {t} : pc'[s] = pc[s]
  BY DEF TypeOK
<1>2. CountsIdle' /\ idle' \in 0..num_threads'
  BY IdleChange
<1>3. TypeOK'
  <2>1. pc' \in [Threads -> PCs]
    BY DEF TypeOK
  <2>2. \A s \in Held' : task'[s] \in Tasks
    BY <1>1 DEF TypeOK, Held, Holds
  <2> QED
    BY <1>2, <2>1, <2>2 DEF TypeOK
<1>4. GlobalIsServed'
  BY <1>1 DEF GlobalIsServed, Holds
<1>5. IdleQueues'
  BY <1>1 DEF IdleQueues, Holds, QSize
<1>6. NoWorkAfterExit'
  <2>1. SUFFICES ASSUME \E s \in Threads : pc'[s] = "exited"
                 PROVE  /\ glob = << >>
                        /\ \A s \in Threads : /\ QSize(queue[s]) = 0
                                              /\ Idling(s)' \/ pc'[s] \in {"retryPop", "addIdle"}
    BY DEF NoWorkAfterExit, QSize
  <2>2. CASE x = "exited"
    <3>1. Idlers = Threads
      <4>1. Idlers \in SUBSET Threads
        BY DEF Idlers
      <4> QED
        BY <2>2, <4>1, ThreadSets DEF CountsIdle
    <3>2. \A s \in Threads : Idling(s)
      BY <3>1 DEF Idlers
    <3> QED
      BY <1>1, <2>2, <3>2 DEF IdleQueues, GlobalIsServed, Idling, Holds
  <2>3. CASE x # "exited"
    <3>1. \E s \in Threads : pc[s] = "exited"
      BY <1>1, <2>1, <2>3
    <3>2. /\ glob = << >>
          /\ \A s \in Threads : QSize(queue[s]) = 0 /\ (Idling(s) \/ pc[s] \in {"retryPop", "addIdle"})
      BY <3>1 DEF NoWorkAfterExit
    <3>3. ~Holds(t)
      BY <3>2 DEF Idling, Holds
    <3>4. Idling(t)' \/ x \in {"retryPop", "addIdle"}
      BY <1>1, <3>3 DEF Holds, Idling, PCs
    <3> QED
      BY <1>1, <3>2, <3>4 DEF Idling
  <2> QED
    BY <2>2, <2>3
<1> QED
  BY <1>2, <1>3, <1>4, <1>5, <1>6

(* A thread gets a task, from its own queue or from the global one.        *)
LEMMA PopLocalStep ==
  ASSUME IInv, NEW t \in Threads, PopLocal(t)
  PROVE  IInv'
<1> USE DEF IInv
<1>1. /\ pc[t] = "getJob" /\ pc' = [pc EXCEPT ![t] = "offerSize"]
      /\ pc'[t] = "offerSize" /\ \A s \in Threads \ {t} : pc'[s] = pc[s]
      /\ glob' = glob /\ idle' = idle
  BY DEF PopLocal, TypeOK
<1>2. /\ queue' = [queue EXCEPT ![t] = PopBack(queue[t])]
      /\ task' = [task EXCEPT ![t] = queue[t].v[Len(queue[t].v)]]
      /\ queue[t] \in Queues /\ queue[t].off < Len(queue[t].v)
  BY DEF PopLocal, TypeOK, QSize, Queues
<1>3. /\ PopBack(queue[t]) \in Queues /\ PopBack(queue[t]).off <= Len(PopBack(queue[t]).v)
      /\ queue[t].v[Len(queue[t].v)] \in Tasks
  BY <1>2, PopBackSize
<1>4. CountsIdle' /\ idle' \in 0..num_threads'
  <2>1. ~Idling(t) /\ ~Idling(t)' /\ idle \in Int /\ idle' = idle
    BY <1>1 DEF Idling, TypeOK
  <2>2. pc'[t] \in PCs /\ pc' = [pc EXCEPT ![t] = pc'[t]]
    BY <1>1 DEF PCs
  <2>3. idle' = idle + (IF Idling(t)' THEN 1 ELSE 0) - (IF Idling(t) THEN 1 ELSE 0)
    BY <2>1
  <2> QED
    BY <2>2, <2>3, IdleChange
<1>5. TypeOK'
  <2>1. pc' \in [Threads -> PCs]
    BY <1>1 DEF TypeOK, PCs
  <2>2. /\ queue' \in [Threads -> Queues]
        /\ \A s \in Threads : queue'[s].off <= Len(queue'[s].v)
    BY <1>2, <1>3 DEF TypeOK, Queues
  <2>3. /\ task' \in [Threads -> Tasks \cup {NoTask}]
        /\ \A s \in Held' : task'[s] \in Tasks
    BY <1>1, <1>2, <1>3 DEF TypeOK, Held, Holds
  <2> QED
    BY <1>1, <1>4, <2>1, <2>2, <2>3 DEF TypeOK, Queues
<1>6. GlobalIsServed'
  BY <1>1 DEF GlobalIsServed, Holds
<1>7. IdleQueues'
  BY <1>1, <1>2 DEF IdleQueues, Holds, TypeOK
<1>8. NoWorkAfterExit'
  BY <1>1 DEF NoWorkAfterExit, Idling
<1> QED
  BY <1>4, <1>5, <1>6, <1>7, <1>8

LEMMA PopGlobalStep ==
  ASSUME IInv, NEW t \in Threads, pc[t] \in {"getJob", "retryPop"}, QSize(queue[t]) = 0,
         TryPopGlobal(t, "addIdle")
  PROVE  IInv'
<1> USE DEF IInv
<1>1. /\ queue' = queue /\ idle' = idle
      /\ pc'[t] \in {"offerSize", "addIdle"} /\ pc' = [pc EXCEPT ![t] = pc'[t]]
      /\ \A s \in Threads \ {t} : pc'[s] = pc[s]
  BY DEF TryPopGlobal, TypeOK
<1>2. \/ glob # << >> /\ task' = [task EXCEPT ![t] = Head(glob)] /\ glob' = Tail(glob) /\ pc'[t] = "offerSize"
      \/ glob = << >> /\ glob' = glob /\ task' = task /\ pc'[t] = "addIdle"
  BY DEF TryPopGlobal, TypeOK
<1>3. CountsIdle' /\ idle' \in 0..num_threads'
  <2>1. ~Idling(t) /\ ~Idling(t)' /\ idle \in Int /\ idle' = idle
    BY <1>1 DEF Idling, TypeOK
  <2>2. pc'[t] \in PCs /\ pc' = [pc EXCEPT ![t] = pc'[t]]
    BY <1>1 DEF PCs
  <2>3. idle' = idle + (IF Idling(t)' THEN 1 ELSE 0) - (IF Idling(t) THEN 1 ELSE 0)
    BY <2>1
  <2> QED
    BY <2>2, <2>3, IdleChange
<1>4. TypeOK'
  <2>1. pc' \in [Threads -> PCs]
    BY <1>1 DEF TypeOK, PCs
  <2>2. glob' \in Seq(Tasks) /\ (glob # << >> => Head(glob) \in Tasks)
    <3>1. glob \in Seq(Tasks)
      BY DEF TypeOK
    <3>2. glob # << >> => Head(glob) \in Tasks /\ Tail(glob) \in Seq(Tasks)
      BY <3>1, Shorten
    <3> QED
      BY <1>2, <3>1, <3>2
  <2>3. /\ task' \in [Threads -> Tasks \cup {NoTask}]
        /\ \A s \in Held' : task'[s] \in Tasks
    BY <1>1, <1>2, <2>2 DEF TypeOK, Held, Holds
  <2> QED
    BY <1>1, <1>3, <2>1, <2>2, <2>3 DEF TypeOK
<1>5. GlobalIsServed'
  BY <1>1, <1>2 DEF GlobalIsServed, Holds
<1>6. IdleQueues'
  BY <1>1 DEF IdleQueues, Holds, QSize
<1>7. NoWorkAfterExit'
  BY <1>1, <1>2 DEF NoWorkAfterExit, Idling, QSize
<1> QED
  BY <1>3, <1>4, <1>5, <1>6, <1>7

(* A thread with tasks left gives one of them to the global queue.         *)
LEMMA OfferPushStep ==
  ASSUME IInv, NEW t \in Threads, OfferPush(t)
  PROVE  IInv'
<1> USE DEF IInv
<1>1. /\ pc[t] = "offerPush" /\ pc' = [pc EXCEPT ![t] = "process"]
      /\ pc'[t] = "process" /\ \A s \in Threads \ {t} : pc'[s] = pc[s]
      /\ task' = task /\ idle' = idle
  BY DEF OfferPush, TypeOK
<1>2. /\ queue' = [queue EXCEPT ![t] = PopFront(queue[t])]
      /\ glob' = Append(glob, queue[t].v[queue[t].off + 1])
      /\ queue[t] \in Queues /\ queue[t].off < Len(queue[t].v)
  BY <1>1 DEF OfferPush, TypeOK, QSize, Queues, IdleQueues
<1>3. /\ PopFront(queue[t]) \in Queues /\ PopFront(queue[t]).off <= Len(PopFront(queue[t]).v)
      /\ queue[t].v[queue[t].off + 1] \in Tasks
  BY <1>2, PopFrontSize
<1>4. CountsIdle' /\ idle' \in 0..num_threads'
  <2>1. ~Idling(t) /\ ~Idling(t)' /\ idle \in Int /\ idle' = idle
    BY <1>1 DEF Idling, TypeOK
  <2>2. pc'[t] \in PCs /\ pc' = [pc EXCEPT ![t] = pc'[t]]
    BY <1>1 DEF PCs
  <2>3. idle' = idle + (IF Idling(t)' THEN 1 ELSE 0) - (IF Idling(t) THEN 1 ELSE 0)
    BY <2>1
  <2> QED
    BY <2>2, <2>3, IdleChange
<1>5. TypeOK'
  <2>1. pc' \in [Threads -> PCs]
    BY <1>1 DEF TypeOK, PCs
  <2>2. /\ queue' \in [Threads -> Queues]
        /\ \A s \in Threads : queue'[s].off <= Len(queue'[s].v)
    BY <1>2, <1>3 DEF TypeOK, Queues
  <2>3. glob' \in Seq(Tasks)
    BY <1>2, <1>3 DEF TypeOK
  <2>4. \A s \in Held' : task'[s] \in Tasks
    BY <1>1 DEF TypeOK, Held, Holds
  <2> QED
    BY <1>1, <1>4, <2>1, <2>2, <2>3, <2>4 DEF TypeOK, Queues
<1>6. GlobalIsServed'
  BY <1>1 DEF GlobalIsServed, Holds
<1>7. IdleQueues'
  BY <1>1, <1>2 DEF IdleQueues, Holds, TypeOK
<1>8. NoWorkAfterExit'
  BY <1>1 DEF NoWorkAfterExit, Idling
<1> QED
  BY <1>4, <1>5, <1>6, <1>7, <1>8

(* A thread processes its task and adds the subtasks to its own queue.     *)
LEMMA ProcessStep ==
  ASSUME IInv, NEW t \in Threads, Process(t)
  PROVE  IInv'
<1> USE DEF IInv
<1>1. /\ pc[t] = "process" /\ pc' = [pc EXCEPT ![t] = "getJob"]
      /\ pc'[t] = "getJob" /\ \A s \in Threads \ {t} : pc'[s] = pc[s]
      /\ task' = task /\ idle' = idle /\ glob' = glob
  BY DEF Process, TypeOK
<1>2. PICK s \in SplitOrders[task[t]] : queue' = [queue EXCEPT ![t] = Emplace(queue[t], s)]
  BY DEF Process
<1>3. /\ Emplace(queue[t], s) \in Queues
      /\ Emplace(queue[t], s).off <= Len(Emplace(queue[t], s).v)
  <2>1. task[t] \in Tasks
    BY <1>1 DEF TypeOK, Held, Holds
  <2>2. s \in Seq(Tasks)
    BY <2>1, <1>2, SplitOrdersType
  <2>3. queue[t] \in Queues /\ queue[t].off <= Len(queue[t].v)
    BY DEF TypeOK, Queues
  <2> QED
    BY <2>2, <2>3, EmplaceType
<1>4. CountsIdle' /\ idle' \in 0..num_threads'
  <2>1. ~Idling(t) /\ ~Idling(t)' /\ idle \in Int /\ idle' = idle
    BY <1>1 DEF Idling, TypeOK
  <2>2. pc'[t] \in PCs /\ pc' = [pc EXCEPT ![t] = pc'[t]]
    BY <1>1 DEF PCs
  <2>3. idle' = idle + (IF Idling(t)' THEN 1 ELSE 0) - (IF Idling(t) THEN 1 ELSE 0)
    BY <2>1
  <2> QED
    BY <2>2, <2>3, IdleChange
<1>5. TypeOK'
  <2>1. pc' \in [Threads -> PCs]
    BY <1>1 DEF TypeOK, PCs
  <2>2. /\ queue' \in [Threads -> Queues]
        /\ \A r \in Threads : queue'[r].off <= Len(queue'[r].v)
    BY <1>2, <1>3 DEF TypeOK, Queues
  <2>3. \A r \in Held' : task'[r] \in Tasks
    BY <1>1 DEF TypeOK, Held, Holds
  <2> QED
    BY <1>1, <1>4, <2>1, <2>2, <2>3 DEF TypeOK, Queues
<1>6. GlobalIsServed'
  BY <1>1 DEF GlobalIsServed, Holds
<1>7. IdleQueues'
  BY <1>1, <1>2 DEF IdleQueues, Holds, TypeOK
<1>8. NoWorkAfterExit'
  BY <1>1 DEF NoWorkAfterExit, Idling
<1> QED
  BY <1>4, <1>5, <1>6, <1>7, <1>8

------------------------------------------------------------------------------
LEMMA InitIInv == Init => IInv
<1> SUFFICES ASSUME Init PROVE IInv
  OBVIOUS
<1>1. PICK q \in InitialQueues : queue = [t \in Threads |-> [v |-> q[t], off |-> 0]]
  BY DEF Init
<1>2. \A t \in Threads : queue[t] \in Queues /\ queue[t].off <= Len(queue[t].v)
  BY <1>1, SchedulerAssumption DEF Queues
<1>3. TypeOK
  <2>1. queue \in [Threads -> Queues]
    BY <1>1, <1>2
  <2>2. pc \in [Threads -> PCs] /\ task \in [Threads -> Tasks \cup {NoTask}] /\ Held = {}
    BY DEF Init, PCs, Held, Holds
  <2>3. idle \in 0..num_threads /\ glob \in Seq(Tasks)
    BY ThreadSets DEF Init
  <2> QED
    BY <1>2, <2>1, <2>2, <2>3 DEF TypeOK, Queues
<1>4. CountsIdle
  <2>1. Idlers = {}
    BY DEF Init, Idlers, Idling
  <2> QED
    BY <2>1, FS_EmptySet DEF CountsIdle, Init
<1>5. GlobalIsServed /\ IdleQueues /\ NoWorkAfterExit
  BY DEF Init, GlobalIsServed, IdleQueues, NoWorkAfterExit
<1> QED
  BY <1>3, <1>4, <1>5 DEF IInv

LEMMA NextIInv == IInv /\ [Next]_vars => IInv'
<1> SUFFICES ASSUME IInv, [Next]_vars PROVE IInv'
  OBVIOUS
<1>1. ASSUME NEW t \in Threads, PopLocal(t) PROVE IInv'
  BY <1>1, PopLocalStep
<1>2. ASSUME NEW t \in Threads, PopGlobal(t) PROVE IInv'
  BY <1>2, PopGlobalStep DEF PopGlobal
<1>3. ASSUME NEW t \in Threads, RetryPop(t) PROVE IInv'
  <2>1. QSize(queue[t]) = 0
    BY <1>3 DEF RetryPop, IInv, IdleQueues, Holds
  <2> QED
    BY <1>3, <2>1, PopGlobalStep DEF RetryPop
<1>4. ASSUME NEW t \in Threads, OfferPush(t) PROVE IInv'
  BY <1>4, OfferPushStep
<1>5. ASSUME NEW t \in Threads, Process(t) PROVE IInv'
  BY <1>5, ProcessStep
<1>6. ASSUME NEW t \in Threads,
             \/ AddIdle(t) \/ ReadIdle(t) \/ ReadEmpty(t)
             \/ SubIdle(t) \/ OfferSize(t) \/ OfferEmpty(t)
      PROVE  IInv'
  <2>1. pc \in [Threads -> PCs] /\ idle \in Int
    BY DEF IInv, TypeOK
  <2>2. PICK x \in PCs : pc' = [pc EXCEPT ![t] = x]
    BY <1>6 DEF AddIdle, ReadIdle, ReadEmpty, SubIdle, OfferSize, OfferEmpty, PCs
  <2>3. pc'[t] = x
    BY <2>1, <2>2
  <2>4. UNCHANGED << queue, glob, task >> /\ pc[t] # "getJob" /\ x # "getJob"
    BY <1>6, <2>1, <2>3 DEF AddIdle, ReadIdle, ReadEmpty, SubIdle, OfferSize, OfferEmpty
  <2>5. idle' = idle + (IF Idling(t)' THEN 1 ELSE 0) - (IF Idling(t) THEN 1 ELSE 0)
    BY <1>6, <2>1, <2>3
       DEF AddIdle, ReadIdle, ReadEmpty, SubIdle, OfferSize, OfferEmpty, Idling
  <2>6. Holds(t)' <=> Holds(t)
    BY <1>6, <2>1, <2>3
       DEF AddIdle, ReadIdle, ReadEmpty, SubIdle, OfferSize, OfferEmpty, Holds
  <2>7. /\ x \in {"offerEmpty", "offerPush"} => QSize(queue[t]) > 1
        /\ x = "exited" => idle = num_threads
        /\ pc[t] # "retryPop"
        /\ x \in {"retryPop", "addIdle"} => Idling(t)
    BY <1>6, <2>1, <2>3
       DEF AddIdle, ReadIdle, ReadEmpty, SubIdle, OfferSize, OfferEmpty, IInv, IdleQueues, Idling
  <2> QED
    BY <2>2, <2>4, <2>5, <2>6, <2>7, MoveStep
<1>7. CASE UNCHANGED vars
  BY <1>7 DEF vars, IInv, TypeOK, CountsIdle, GlobalIsServed, IdleQueues, NoWorkAfterExit,
              Held, Holds, Idlers, Idling, QSize, num_threads
<1> QED
  BY <1>1, <1>2, <1>3, <1>4, <1>5, <1>6, <1>7 DEF Next, Step, Finished

(* The termination detection is right for every number of threads and      *)
(* tasks: the counter counts the idle threads, a task in the global queue  *)
(* always has somebody who will look for it, and a thread that getJob      *)
(* turns away leaves no work behind.                                       *)
THEOREM TerminationDetection ==
  Spec => [](TypeOK /\ CountsIdle /\ GlobalIsServed /\ NoWorkAfterExit)
<1>1. Spec => []IInv
  BY InitIInv, NextIInv, PTL DEF Spec
<1>2. IInv => TypeOK /\ CountsIdle /\ GlobalIsServed /\ NoWorkAfterExit
  BY DEF IInv
<1> QED
  BY <1>1, <1>2, PTL

(* TypeOK, with the bounds of the counter and of the queues' offsets: the  *)
(* counter never exceeds the number of threads and never becomes negative. *)
THEOREM TypeCorrect == Spec => []TypeOK
  BY TerminationDetection, PTL

(* CountsIdle: the idle counter is exact, whichever threads race for the   *)
(* last task of the global queue.                                          *)
THEOREM CounterExact == Spec => []CountsIdle
  BY TerminationDetection, PTL

(* GlobalIsServed: a task that was offered to the others is never left     *)
(* with nobody to look for it.                                             *)
THEOREM OffersServed == Spec => []GlobalIsServed
  BY TerminationDetection, PTL

-----------------------------------------------------------------------------
(***************************************************************************)
(* No two tasks overlap, and the scheduler implements AbstractTaskPool.    *)
(*                                                                         *)
(* A step moves tasks between places.  Each place after the step is traced *)
(* back to the one that its task was in before; if no two places have the  *)
(* same origin, and every place is an origin, no task is doubled or lost.  *)
(* Only Process changes tasks: the parts of a task come from its place.    *)
(***************************************************************************)
Within(p, q) == q.begin <= p.begin /\ p.end <= q.end

LEMMA PlacesAre ==
  /\ \A p : p \in Places <=>
       \/ \E t \in Held : p = << "hands", t, 0 >>
       \/ \E t \in Threads : \E i \in Slots(queue[t]) : p = << "queue", t, i >>
       \/ \E i \in 1 .. Len(glob) : p = << "global", 0, i >>
  /\ \A t, i : TaskAt(<< "hands", t, i >>) = task[t]
  /\ \A t, i : TaskAt(<< "queue", t, i >>) = queue[t].v[i]
  /\ \A t, i : TaskAt(<< "global", t, i >>) = glob[i]
<1>1. ASSUME NEW p
      PROVE  p \in Places <=>
       \/ \E t \in Held : p = << "hands", t, 0 >>
       \/ \E t \in Threads : \E i \in Slots(queue[t]) : p = << "queue", t, i >>
       \/ \E i \in 1 .. Len(glob) : p = << "global", 0, i >>
  <2> DEFINE InQueue(t) == {<< "queue", t, i >> : i \in Slots(queue[t])}
  <2>1. p \in UNION {InQueue(t) : t \in Threads} <=> \E t \in Threads : p \in InQueue(t)
    BY Zenon
  <2>2. \A t : p \in InQueue(t)
          <=> \E i \in Slots(queue[t]) : p = << "queue", t, i >>
    BY Zenon
  <2>3. p \in Places <=> \/ \E t \in Held : p = << "hands", t, 0 >>
                         \/ p \in UNION {InQueue(t) : t \in Threads}
                         \/ \E i \in 1 .. Len(glob) : p = << "global", 0, i >>
    BY Zenon DEF Places
  <2> HIDE DEF InQueue
  <2> QED
    BY <2>1, <2>2, <2>3, Zenon
<1>2. ASSUME NEW t, NEW i PROVE TaskAt(<< "hands", t, i >>) = task[t]
  BY DEF TaskAt
<1>3. ASSUME NEW t, NEW i PROVE TaskAt(<< "queue", t, i >>) = queue[t].v[i]
  BY DEF TaskAt
<1>4. ASSUME NEW t, NEW i PROVE TaskAt(<< "global", t, i >>) = glob[i]
  BY DEF TaskAt
<1> QED
  BY <1>1, <1>2, <1>3, <1>4, Zenon

LEMMA PlacesWillBe ==
  /\ \A p : p \in Places' <=>
       \/ \E t \in Held' : p = << "hands", t, 0 >>
       \/ \E t \in Threads : \E i \in Slots(queue'[t]) : p = << "queue", t, i >>
       \/ \E i \in 1 .. Len(glob') : p = << "global", 0, i >>
  /\ \A t, i : TaskAt(<< "hands", t, i >>)' = task'[t]
  /\ \A t, i : TaskAt(<< "queue", t, i >>)' = queue'[t].v[i]
  /\ \A t, i : TaskAt(<< "global", t, i >>)' = glob'[i]
<1>1. ASSUME NEW p
      PROVE  p \in Places' <=>
       \/ \E t \in Held' : p = << "hands", t, 0 >>
       \/ \E t \in Threads : \E i \in Slots(queue'[t]) : p = << "queue", t, i >>
       \/ \E i \in 1 .. Len(glob') : p = << "global", 0, i >>
  <2> DEFINE InQueue(t) == {<< "queue", t, i >> : i \in Slots(queue'[t])}
  <2>1. p \in UNION {InQueue(t) : t \in Threads} <=> \E t \in Threads : p \in InQueue(t)
    BY Zenon
  <2>2. \A t : p \in InQueue(t)
          <=> \E i \in Slots(queue'[t]) : p = << "queue", t, i >>
    BY Zenon
  <2>3. p \in Places' <=> \/ \E t \in Held' : p = << "hands", t, 0 >>
                         \/ p \in UNION {InQueue(t) : t \in Threads}
                         \/ \E i \in 1 .. Len(glob') : p = << "global", 0, i >>
    BY Zenon DEF Places
  <2> HIDE DEF InQueue
  <2> QED
    BY <2>1, <2>2, <2>3, Zenon
<1>2. ASSUME NEW t, NEW i PROVE TaskAt(<< "hands", t, i >>)' = task'[t]
  BY DEF TaskAt
<1>3. ASSUME NEW t, NEW i PROVE TaskAt(<< "queue", t, i >>)' = queue'[t].v[i]
  BY DEF TaskAt
<1>4. ASSUME NEW t, NEW i PROVE TaskAt(<< "global", t, i >>)' = glob'[i]
  BY DEF TaskAt
<1> QED
  BY <1>1, <1>2, <1>3, <1>4, Zenon

LEMMA TasksInPlaces == TypeOK => \A p \in Places : TaskAt(p) \in Tasks
<1> SUFFICES ASSUME TypeOK, NEW p \in Places PROVE TaskAt(p) \in Tasks
  OBVIOUS
<1>1. CASE \E t \in Held : p = << "hands", t, 0 >>
  BY <1>1, PlacesAre DEF TypeOK
<1>2. CASE \E t \in Threads : \E i \in Slots(queue[t]) : p = << "queue", t, i >>
  <2>0. PICK t \in Threads : \E i \in Slots(queue[t]) : p = << "queue", t, i >>
    BY <1>2
  <2>1. PICK i \in Slots(queue[t]) : p = << "queue", t, i >>
    BY <2>0
  <2>2. queue[t].v \in Seq(Tasks) /\ queue[t].off \in Nat /\ i \in 1 .. Len(queue[t].v)
    BY <2>1 DEF TypeOK, Slots
  <2>3. queue[t].v[i] \in Tasks
    BY <2>2
  <2> QED
    BY <2>1, <2>3, PlacesAre
<1>3. CASE \E i \in 1 .. Len(glob) : p = << "global", 0, i >>
  <2>1. PICK i \in 1 .. Len(glob) : p = << "global", 0, i >>
    BY <1>3
  <2>2. glob[i] \in Tasks
    BY <2>1 DEF TypeOK
  <2> QED
    BY <2>1, <2>2, PlacesAre
<1> QED
  BY <1>1, <1>2, <1>3, PlacesAre

(* A step that moves every task from Origin[p] to p.                       *)
LEMMA TasksMoved ==
  ASSUME NoOverlap, NEW Origin,
         \A p \in Places' : Origin[p] \in Places /\ TaskAt(p)' = TaskAt(Origin[p]),
         \A p, q \in Places' : Origin[p] = Origin[q] => p = q,
         \A p \in Places : \E q \in Places' : Origin[q] = p
  PROVE  NoOverlap' /\ Unsorted' = Unsorted
<1>1. NoOverlap'
  <2> SUFFICES ASSUME NEW p \in Places', NEW q \in Places', p # q
               PROVE  Disjoint(TaskAt(p)', TaskAt(q)')
    BY DEF NoOverlap
  <2>1. Origin[p] \in Places /\ Origin[q] \in Places /\ Origin[p] # Origin[q]
    OBVIOUS
  <2>2. Disjoint(TaskAt(Origin[p]), TaskAt(Origin[q]))
    BY <2>1 DEF NoOverlap
  <2> QED
    BY <2>2
<1>2. Unsorted' \subseteq Unsorted
  BY DEF Unsorted
<1>3. ASSUME NEW tk \in Unsorted PROVE tk \in Unsorted'
  <2>1. PICK p \in Places : tk = TaskAt(p)
    BY DEF Unsorted
  <2>2. PICK q \in Places' : Origin[q] = p
    BY <2>1
  <2>3. tk = TaskAt(q)'
    BY <2>1, <2>2
  <2> QED
    BY <2>3 DEF Unsorted
<1> QED
  BY <1>1, <1>2, <1>3

(* A step that moves one task.                                             *)
LEMMA OneTaskMoved ==
  ASSUME NoOverlap, NEW from \in Places, NEW to \in Places', from \notin Places', to \notin Places,
         TaskAt(to)' = TaskAt(from),
         \A p \in Places' : p # to => p \in Places /\ TaskAt(p)' = TaskAt(p),
         \A p \in Places : p # from => p \in Places'
  PROVE  NoOverlap' /\ Unsorted' = Unsorted
<1> DEFINE Origin == [p \in Places' |-> IF p = to THEN from ELSE p]
<1>1. \A p \in Places' : Origin[p] \in Places /\ TaskAt(p)' = TaskAt(Origin[p])
  OBVIOUS
<1>2. \A p, q \in Places' : Origin[p] = Origin[q] => p = q
  OBVIOUS
<1>3. \A p \in Places : \E q \in Places' : Origin[q] = p
  OBVIOUS
<1> HIDE DEF Origin
<1> QED
  BY <1>1, <1>2, <1>3, TasksMoved

(* A step that leaves every task where it is.                              *)
LEMMA TasksKept ==
  ASSUME NoOverlap, UNCHANGED << queue, glob, task, Held >>
  PROVE  NoOverlap' /\ Unsorted' = Unsorted
<1>1. Places' = Places
  BY DEF Places
<1>2. \A p : TaskAt(p)' = TaskAt(p)
  BY DEF TaskAt
<1> QED
  BY <1>1, <1>2 DEF NoOverlap, Unsorted

LEMMA PopLocalMoves ==
  ASSUME IInv, NoOverlap, NEW t \in Threads, PopLocal(t)
  PROVE  NoOverlap' /\ Unsorted' = Unsorted
<1> DEFINE back == << "queue", t, Len(queue[t].v) >>
           hand == << "hands", t, 0 >>
<1>1. /\ queue[t].v \in Seq(Tasks) /\ queue[t].off \in Nat /\ Len(queue[t].v) \in Nat
      /\ queue[t].off < Len(queue[t].v)
  BY DEF PopLocal, IInv, TypeOK, QSize
<1>2. /\ glob' = glob /\ Held' = Held \cup {t} /\ t \notin Held
      /\ task'[t] = queue[t].v[Len(queue[t].v)]
      /\ \A u \in Threads \ {t} : task'[u] = task[u] /\ queue'[u] = queue[u]
  BY DEF PopLocal, IInv, TypeOK, Held, Holds
<1>3. /\ Len(queue[t].v) \in Slots(queue[t])
      /\ Slots(queue'[t]) = Slots(queue[t]) \ {Len(queue[t].v)}
      /\ \A i \in Slots(queue'[t]) : queue'[t].v[i] = queue[t].v[i]
  <2>1. queue'[t] = PopBack(queue[t])
    BY DEF PopLocal, IInv, TypeOK
  <2> DEFINE w == SubSeq(queue[t].v, 1, Len(queue[t].v) - 1)
  <2>2. Len(w) = Len(queue[t].v) - 1 /\ \A i \in 1 .. Len(queue[t].v) - 1 : w[i] = queue[t].v[i]
    BY <1>1
  <2>3. CASE Len(w) = queue[t].off
    BY <1>1, <2>1, <2>2, <2>3 DEF PopBack, Clear, Slots
  <2>4. CASE Len(w) # queue[t].off
    <3>1. queue'[t].v = w /\ queue'[t].off = queue[t].off
      BY <2>1, <2>4 DEF PopBack, IInv, TypeOK
    <3> HIDE DEF w
    <3>2. /\ Slots(queue[t]) = queue[t].off + 1 .. Len(queue[t].v)
          /\ Slots(queue'[t]) = queue[t].off + 1 .. Len(queue[t].v) - 1
      BY <2>2, <3>1 DEF Slots
    <3>3. /\ Len(queue[t].v) \in Slots(queue[t])
          /\ Slots(queue'[t]) = Slots(queue[t]) \ {Len(queue[t].v)}
      BY <1>1, <3>2
    <3>4. \A i \in Slots(queue'[t]) : i \in 1 .. Len(queue[t].v) - 1
      BY <1>1, <3>2
    <3> QED
      BY <2>2, <3>1, <3>3, <3>4
  <2> QED
    BY <2>3, <2>4
<1>4. back \in Places /\ back \notin Places' /\ back # hand /\ TaskAt(back) = task'[t]
  <2>1. back \in Places /\ TaskAt(back) = task'[t]
    BY <1>2, <1>3, PlacesAre
  <2>2. back \notin Places'
    BY <1>3, PlacesWillBe
  <2> QED
    BY <2>1, <2>2
<1>5. hand \in Places' /\ hand \notin Places /\ TaskAt(hand)' = task'[t]
  BY <1>2, PlacesAre, PlacesWillBe
<1>6. ASSUME NEW p \in Places', p # hand PROVE p \in Places /\ TaskAt(p)' = TaskAt(p)
  <2>1. CASE \E u \in Held' : p = << "hands", u, 0 >>
    <3>1. PICK u \in Held' : p = << "hands", u, 0 >>
      BY <2>1
    <3>2. u \in Held /\ u \in Threads \ {t}
      BY <1>2, <1>6, <3>1 DEF Held
    <3> QED
      BY <1>2, <3>1, <3>2, PlacesAre, PlacesWillBe
  <2>2. CASE \E u \in Threads : \E i \in Slots(queue'[u]) : p = << "queue", u, i >>
    BY <1>2, <1>3, <2>2, PlacesAre, PlacesWillBe
  <2>3. CASE \E i \in 1 .. Len(glob') : p = << "global", 0, i >>
    BY <1>2, <2>3, PlacesAre, PlacesWillBe
  <2> QED
    BY <2>1, <2>2, <2>3, PlacesWillBe
<1>7. ASSUME NEW p \in Places, p # back PROVE p \in Places'
  <2>1. CASE \E u \in Held : p = << "hands", u, 0 >>
    BY <1>2, <2>1, PlacesWillBe
  <2>2. CASE \E u \in Threads : \E i \in Slots(queue[u]) : p = << "queue", u, i >>
    <3>1. PICK u \in Threads : \E i \in Slots(queue[u]) : p = << "queue", u, i >>
      BY <2>2
    <3>2. PICK i \in Slots(queue[u]) : p = << "queue", u, i >>
      BY <3>1
    <3>3. i \in Slots(queue'[u])
      BY <1>2, <1>3, <1>7, <3>2
    <3> QED
      BY <3>2, <3>3, PlacesWillBe
  <2>3. CASE \E i \in 1 .. Len(glob) : p = << "global", 0, i >>
    BY <1>2, <2>3, PlacesWillBe
  <2> QED
    BY <2>1, <2>2, <2>3, PlacesAre
<1> HIDE DEF back, hand
<1> QED
  BY <1>4, <1>5, <1>6, <1>7, OneTaskMoved

LEMMA OfferPushMoves ==
  ASSUME IInv, NoOverlap, NEW t \in Threads, OfferPush(t)
  PROVE  NoOverlap' /\ Unsorted' = Unsorted
<1>0. PICK n : n = Len(glob) + 1
  OBVIOUS
<1> DEFINE front == << "queue", t, queue[t].off + 1 >>
           last  == << "global", 0, n >>
<1>1. /\ queue[t].v \in Seq(Tasks) /\ queue[t].off \in Nat /\ Len(queue[t].v) \in Nat
      /\ queue[t].off < Len(queue[t].v)
  BY DEF OfferPush, IInv, TypeOK, QSize, IdleQueues
<1>2. /\ task' = task /\ Held' = Held
      /\ \A u \in Threads \ {t} : queue'[u] = queue[u]
  BY DEF OfferPush, IInv, TypeOK, Held, Holds
<1>3. /\ 1 .. Len(glob') = 1 .. Len(glob) \cup {n} /\ n \notin 1 .. Len(glob)
      /\ \A i \in 1 .. Len(glob) : glob'[i] = glob[i]
      /\ glob'[n] = queue[t].v[queue[t].off + 1]
  <2>1. glob \in Seq(Tasks) /\ Len(glob) \in Nat
    BY DEF IInv, TypeOK
  <2>2. glob' = Append(glob, queue[t].v[queue[t].off + 1])
    BY DEF OfferPush
  <2>3. Len(glob') = n
    BY <1>0, <2>1, <2>2
  <2> QED
    BY <1>0, <2>1, <2>2, <2>3
<1>4. /\ queue[t].off + 1 \in Slots(queue[t])
      /\ Slots(queue'[t]) = Slots(queue[t]) \ {queue[t].off + 1}
      /\ \A i \in Slots(queue'[t]) : queue'[t].v[i] = queue[t].v[i]
  <2>1. queue'[t] = PopFront(queue[t])
    BY DEF OfferPush, IInv, TypeOK
  <2>2. CASE Len(queue[t].v) = queue[t].off + 1
    BY <1>1, <2>1, <2>2 DEF PopFront, Clear, Slots
  <2>3. CASE Len(queue[t].v) # queue[t].off + 1
    <3>1. queue'[t].v = queue[t].v /\ queue'[t].off = queue[t].off + 1
      BY <2>1, <2>3 DEF PopFront, IInv, TypeOK
    <3> QED
      BY <1>1, <3>1 DEF Slots
  <2> QED
    BY <2>2, <2>3
<1>5. front \in Places /\ front \notin Places'
  BY <1>4, PlacesAre, PlacesWillBe
<1>6. last \in Places' /\ last \notin Places
  BY <1>3, PlacesAre, PlacesWillBe
<1>7. TaskAt(last)' = TaskAt(front)
  BY <1>3, PlacesAre, PlacesWillBe
<1>8. ASSUME NEW p \in Places', p # last PROVE p \in Places /\ TaskAt(p)' = TaskAt(p)
  <2>1. CASE \E u \in Held' : p = << "hands", u, 0 >>
    BY <1>2, <2>1, PlacesAre, PlacesWillBe
  <2>2. CASE \E u \in Threads : \E i \in Slots(queue'[u]) : p = << "queue", u, i >>
    BY <1>2, <1>4, <2>2, PlacesAre, PlacesWillBe
  <2>3. CASE \E i \in 1 .. Len(glob') : p = << "global", 0, i >>
    <3>1. PICK i \in 1 .. Len(glob') : p = << "global", 0, i >>
      BY <2>3
    <3>2. i \in 1 .. Len(glob) /\ glob'[i] = glob[i]
      BY <1>3, <1>8, <3>1
    <3> QED
      BY <3>1, <3>2, PlacesAre, PlacesWillBe
  <2> QED
    BY <2>1, <2>2, <2>3, PlacesWillBe
<1>9. ASSUME NEW p \in Places, p # front PROVE p \in Places'
  <2>1. CASE \E u \in Held : p = << "hands", u, 0 >>
    BY <1>2, <2>1, PlacesWillBe
  <2>2. CASE \E u \in Threads : \E i \in Slots(queue[u]) : p = << "queue", u, i >>
    <3>1. PICK u \in Threads : \E i \in Slots(queue[u]) : p = << "queue", u, i >>
      BY <2>2
    <3>2. PICK i \in Slots(queue[u]) : p = << "queue", u, i >>
      BY <3>1
    <3>3. i \in Slots(queue'[u])
      BY <1>2, <1>4, <1>9, <3>2
    <3> QED
      BY <3>2, <3>3, PlacesWillBe
  <2>3. CASE \E i \in 1 .. Len(glob) : p = << "global", 0, i >>
    <3>1. PICK i \in 1 .. Len(glob) : p = << "global", 0, i >>
      BY <2>3
    <3>2. i \in 1 .. Len(glob')
      BY <1>3
    <3> QED
      BY <3>1, <3>2, PlacesWillBe
  <2> QED
    BY <2>1, <2>2, <2>3, PlacesAre
<1> HIDE DEF front, last
<1> QED
  BY <1>5, <1>6, <1>7, <1>8, <1>9, OneTaskMoved

LEMMA TryPopGlobalMoves ==
  ASSUME IInv, NoOverlap, NEW t \in Threads, pc[t] \in {"getJob", "retryPop"},
         TryPopGlobal(t, "addIdle")
  PROVE  NoOverlap' /\ Unsorted' = Unsorted
<1>1. CASE glob = << >>
  <2>1. UNCHANGED << queue, glob, task >> /\ pc' = [pc EXCEPT ![t] = "addIdle"]
    BY <1>1 DEF TryPopGlobal
  <2>2. Held' = Held
    BY <2>1 DEF IInv, TypeOK, Held, Holds
  <2> QED
    BY <2>1, <2>2, TasksKept
<1>2. CASE glob # << >>
  <2> DEFINE hand == << "hands", t, 0 >>
             Origin == [p \in Places' |-> IF p = hand THEN << "global", 0, 1 >>
                                          ELSE IF p[1] = "global" THEN << "global", 0, p[3] + 1 >>
                                          ELSE p]
  <2>1. /\ queue' = queue /\ Held' = Held \cup {t} /\ t \notin Held
        /\ task'[t] = Head(glob) /\ glob' = Tail(glob)
        /\ \A u \in Threads \ {t} : task'[u] = task[u]
    BY <1>2 DEF TryPopGlobal, IInv, TypeOK, Held, Holds
  <2>2. /\ 1 \in 1 .. Len(glob) /\ task'[t] = glob[1]
        /\ \A i \in 1 .. Len(glob') : i + 1 \in 1 .. Len(glob) /\ i + 1 # 1 /\ glob'[i] = glob[i + 1]
        /\ \A i \in 1 .. Len(glob) : i # 1 => i - 1 \in 1 .. Len(glob') /\ (i - 1) + 1 = i
    <3>1. glob \in Seq(Tasks) /\ Len(glob) \in Nat \ {0}
      BY <1>2 DEF IInv, TypeOK
    <3>2. Len(glob') = Len(glob) - 1 /\ \A i \in 1 .. Len(glob) - 1 : glob'[i] = glob[i + 1]
      BY <2>1, <3>1
    <3> QED
      BY <2>1, <3>1, <3>2
  <2>3. hand \in Places' /\ hand \notin Places /\ TaskAt(hand)' = glob[1]
    BY <2>1, <2>2, PlacesAre, PlacesWillBe
  <2>4. << "global", 0, 1 >> \in Places /\ TaskAt(<< "global", 0, 1 >>) = glob[1]
    BY <2>2, PlacesAre
  <2>5. ASSUME NEW u \in Held', u # t
        PROVE  /\ << "hands", u, 0 >> \in Places
               /\ TaskAt(<< "hands", u, 0 >>)' = TaskAt(<< "hands", u, 0 >>)
    <3>1. u \in Held /\ u \in Threads \ {t}
      BY <2>1, <2>5 DEF Held
    <3> QED
      BY <2>1, <3>1, PlacesAre, PlacesWillBe
  <2>6. ASSUME NEW u \in Threads, NEW i \in Slots(queue'[u])
        PROVE  /\ << "queue", u, i >> \in Places
               /\ TaskAt(<< "queue", u, i >>)' = TaskAt(<< "queue", u, i >>)
    BY <2>1, PlacesAre, PlacesWillBe
  <2>7. ASSUME NEW i \in 1 .. Len(glob')
        PROVE  /\ << "global", 0, i + 1 >> \in Places
               /\ TaskAt(<< "global", 0, i >>)' = TaskAt(<< "global", 0, i + 1 >>)
    BY <2>2, PlacesAre, PlacesWillBe
  <2>8. \A p \in Places' : Origin[p] \in Places /\ TaskAt(p)' = TaskAt(Origin[p])
    BY <2>3, <2>4, <2>5, <2>6, <2>7, PlacesWillBe
  <2> DEFINE Back(p) == IF p[1] # "global" THEN p
                        ELSE IF p[3] = 1 THEN hand ELSE << "global", 0, p[3] - 1 >>
  <2>9. ASSUME NEW p \in Places' PROVE Back(Origin[p]) = p
    <3>1. CASE \E u \in Held' : p = << "hands", u, 0 >>
      BY <3>1
    <3>2. CASE \E u \in Threads : \E i \in Slots(queue'[u]) : p = << "queue", u, i >>
      BY <3>2
    <3>3. CASE \E i \in 1 .. Len(glob') : p = << "global", 0, i >>
      <4>1. PICK i \in 1 .. Len(glob') : p = << "global", 0, i >>
        BY <3>3
      <4>2. Origin[p] = << "global", 0, i + 1 >> /\ i \in Int /\ i + 1 # 1 /\ (i + 1) - 1 = i
        BY <2>2, <4>1
      <4> QED
        BY <4>1, <4>2
    <3> QED
      BY <3>1, <3>2, <3>3, PlacesWillBe
  <2>10. ASSUME NEW p \in Places PROVE Back(p) \in Places' /\ Origin[Back(p)] = p
    <3>1. CASE \E u \in Held : p = << "hands", u, 0 >>
      BY <2>1, <3>1, PlacesWillBe
    <3>2. CASE \E u \in Threads : \E i \in Slots(queue[u]) : p = << "queue", u, i >>
      BY <2>1, <3>2, PlacesWillBe
    <3>3. CASE \E i \in 1 .. Len(glob) : p = << "global", 0, i >>
      <4>1. PICK i \in 1 .. Len(glob) : p = << "global", 0, i >>
        BY <3>3
      <4>2. CASE i = 1
        BY <2>3, <4>1, <4>2
      <4>3. CASE i # 1
        <5>1. Back(p) = << "global", 0, i - 1 >> /\ i - 1 \in 1 .. Len(glob') /\ (i - 1) + 1 = i
          BY <2>2, <4>1, <4>3
        <5>2. Back(p) \in Places'
          BY <5>1, PlacesWillBe
        <5> QED
          BY <4>1, <5>1, <5>2
      <4> QED
        BY <4>2, <4>3
    <3> QED
      BY <3>1, <3>2, <3>3, PlacesAre
  <2> HIDE DEF Back
  <2>11. \A p, q \in Places' : Origin[p] = Origin[q] => p = q
    BY <2>9
  <2>12. \A p \in Places : \E q \in Places' : Origin[q] = p
    BY <2>10
  <2> HIDE DEF Origin
  <2> QED
    BY <2>8, <2>11, <2>12, TasksMoved
<1> QED
  BY <1>1, <1>2

(* What processing a task may leave: tasks inside it that do not overlap.  *)
LEMMA SplitOrdersParts ==
  ASSUME NEW tk \in Tasks, NEW s \in SplitOrders[tk]
  PROVE  /\ \A i \in DOMAIN s : s[i] \in Tasks /\ Within(s[i], tk)
         /\ \A i, j \in DOMAIN s : i # j => Disjoint(s[i], s[j])
<1>1. CASE Length(tk) <= SingleLevel
  BY <1>1 DEF SplitOrders
<1>2. CASE ~(Length(tk) <= SingleLevel)
  <2>1. /\ s \in UNION {[1..k -> Parts(tk)] : k \in 0..(Size \div (BaseCase + 1))}
        /\ \A i, j \in DOMAIN s : i < j => s[j].end <= s[i].begin
    BY <1>2 DEF SplitOrders
  <2>2. PICK k \in Nat : s \in [1..k -> Parts(tk)]
    BY <2>1
  <2>3. \A i \in DOMAIN s : s[i] \in Parts(tk) /\ i \in Int
    BY <2>2
  <2>4. ASSUME NEW i \in DOMAIN s, NEW j \in DOMAIN s, i # j PROVE Disjoint(s[i], s[j])
    <3>1. i < j \/ j < i
      BY <2>3, <2>4
    <3> QED
      BY <2>1, <2>4, <3>1 DEF Disjoint
  <2>5. \A i \in DOMAIN s : s[i] \in Tasks /\ Within(s[i], tk)
    BY <2>3 DEF Parts, Within
  <2> QED
    BY <2>4, <2>5
<1> QED
  BY <1>1, <1>2

LEMMA DisjointTasks ==
  ASSUME NEW p \in Tasks, NEW q \in Tasks, Disjoint(p, q)
  PROVE  /\ p # q /\ Disjoint(q, p)
         /\ \A r \in Tasks : Within(r, p) => Disjoint(r, q)
  BY SchedulerAssumption DEF Tasks, Disjoint, Within

LEMMA Concatenated ==
  ASSUME NEW a \in Seq(Tasks), NEW b \in Seq(Tasks)
  PROVE  /\ Len(a \o b) = Len(a) + Len(b)
         /\ \A i \in 1 .. Len(a) : (a \o b)[i] = a[i]
         /\ \A k \in 1 .. Len(b) : (a \o b)[Len(a) + k] = b[k]
<1>1. Len(a) \in Nat /\ Len(b) \in Nat /\ Len(a \o b) = Len(a) + Len(b)
  OBVIOUS
<1>2. ASSUME NEW i \in 1 .. Len(a) PROVE (a \o b)[i] = a[i]
  OBVIOUS
<1>3. ASSUME NEW k \in 1 .. Len(b) PROVE (a \o b)[Len(a) + k] = b[k]
  OBVIOUS
<1> QED
  BY <1>1, <1>2, <1>3

(* A thread's task becomes its parts, at the end of the thread's queue.    *)
LEMMA ProcessMoves ==
  ASSUME IInv, NoOverlap, NEW t \in Threads, NEW s \in SplitOrders[task[t]],
         pc[t] = "process", pc' = [pc EXCEPT ![t] = "getJob"],
         queue' = [queue EXCEPT ![t] = Emplace(queue[t], s)], UNCHANGED << glob, task >>
  PROVE  NoOverlap' /\ Unsorted' = (Unsorted \ {task[t]}) \cup SetOf(s)
<1>0. PICK n : n = Len(queue[t].v)
  OBVIOUS
<1> DEFINE hand == << "hands", t, 0 >>
           New(k) == << "queue", t, n + k >>
<1>1. /\ t \in Held /\ Held' = Held \ {t} /\ task[t] \in Tasks
      /\ \A u \in Threads \ {t} : queue'[u] = queue[u]
  BY DEF IInv, TypeOK, Held, Holds
<1>2. /\ \A i \in Slots(queue'[t]) : i \notin Slots(queue[t]) => \E k \in DOMAIN s : i = n + k
      /\ \A i \in Slots(queue[t]) : i \in Slots(queue'[t]) /\ queue'[t].v[i] = queue[t].v[i]
      /\ \A k \in DOMAIN s : /\ n + k \in Slots(queue'[t]) /\ n + k \notin Slots(queue[t])
                             /\ queue'[t].v[n + k] = s[k]
  <2>1. /\ queue[t].v \in Seq(Tasks) /\ queue[t].off \in Nat /\ n \in Nat
        /\ queue[t].off <= n
    BY <1>0 DEF IInv, TypeOK
  <2>2. s \in Seq(Tasks) /\ Len(s) \in Nat /\ DOMAIN s = 1 .. Len(s)
    <3>1. s \in Seq(Tasks)
      BY <1>1, SplitOrdersType
    <3> QED
      BY <3>1
  <2>3. queue'[t].v = queue[t].v \o s /\ queue'[t].off = queue[t].off
    BY DEF Emplace, IInv, TypeOK
  <2>4. /\ Len(queue'[t].v) = n + Len(s)
        /\ \A i \in 1 .. n : queue'[t].v[i] = queue[t].v[i]
        /\ \A k \in 1 .. Len(s) : queue'[t].v[n + k] = s[k]
    <3> DEFINE w == queue[t].v \o s
    <3>1. /\ Len(w) = n + Len(s)
          /\ \A i \in 1 .. n : w[i] = queue[t].v[i]
          /\ \A k \in 1 .. Len(s) : w[n + k] = s[k]
      BY <1>0, <2>1, <2>2, Concatenated, Zenon
    <3>2. w = queue'[t].v
      BY <2>3
    <3> HIDE DEF w
    <3> QED
      BY <3>1, <3>2
  <2>5. /\ Slots(queue[t]) = queue[t].off + 1 .. n
        /\ Slots(queue'[t]) = queue[t].off + 1 .. n + Len(s)
    BY <1>0, <2>3, <2>4 DEF Slots
  <2>6. ASSUME NEW i \in Slots(queue'[t]), i \notin Slots(queue[t])
        PROVE  \E k \in DOMAIN s : i = n + k
    <3>1. i - n \in 1 .. Len(s) /\ i = n + (i - n)
      BY <2>1, <2>2, <2>5, <2>6
    <3> QED
      BY <2>2, <3>1
  <2>7. ASSUME NEW i \in Slots(queue[t])
        PROVE  i \in Slots(queue'[t]) /\ queue'[t].v[i] = queue[t].v[i]
    <3>1. i \in 1 .. n /\ i \in queue[t].off + 1 .. n + Len(s)
      BY <2>1, <2>2, <2>5
    <3> QED
      BY <2>4, <2>5, <3>1
  <2>8. ASSUME NEW k \in DOMAIN s
        PROVE  /\ n + k \in Slots(queue'[t]) /\ n + k \notin Slots(queue[t])
               /\ queue'[t].v[n + k] = s[k]
    <3>1. k \in 1 .. Len(s) /\ n + k \in queue[t].off + 1 .. n + Len(s) /\ ~(n + k <= n)
      BY <2>1, <2>2
    <3> QED
      BY <2>1, <2>4, <2>5, <3>1
  <2> QED
    BY <2>6, <2>7, <2>8
<1>3. /\ \A k \in DOMAIN s : s[k] \in Tasks /\ Within(s[k], task[t])
      /\ \A j, k \in DOMAIN s : j # k => Disjoint(s[j], s[k])
  BY <1>1, SplitOrdersParts
<1>4. hand \in Places /\ hand \notin Places' /\ TaskAt(hand) = task[t]
  BY <1>1, PlacesAre, PlacesWillBe
<1>5. ASSUME NEW k \in DOMAIN s PROVE New(k) \in Places' /\ TaskAt(New(k))' = s[k]
  BY <1>2, PlacesWillBe
<1>6. ASSUME NEW p \in Places, p # hand PROVE p \in Places' /\ TaskAt(p)' = TaskAt(p)
  <2>1. CASE \E u \in Held : p = << "hands", u, 0 >>
    <3>1. PICK u \in Held : p = << "hands", u, 0 >>
      BY <2>1
    <3>2. u \in Held'
      BY <1>1, <1>6, <3>1
    <3> QED
      BY <3>1, <3>2, PlacesAre, PlacesWillBe
  <2>2. CASE \E u \in Threads : \E i \in Slots(queue[u]) : p = << "queue", u, i >>
    BY <1>1, <1>2, <2>2, PlacesAre, PlacesWillBe
  <2>3. CASE \E i \in 1 .. Len(glob) : p = << "global", 0, i >>
    BY <2>3, PlacesAre, PlacesWillBe
  <2> QED
    BY <2>1, <2>2, <2>3, PlacesAre
<1>7. ASSUME NEW p \in Places'
      PROVE  (p \in Places /\ p # hand) \/ \E k \in DOMAIN s : p = New(k)
  <2>1. CASE \E u \in Held' : p = << "hands", u, 0 >>
    BY <1>1, <2>1, PlacesAre
  <2>2. CASE \E u \in Threads : \E i \in Slots(queue'[u]) : p = << "queue", u, i >>
    BY <1>1, <1>2, <2>2, PlacesAre
  <2>3. CASE \E i \in 1 .. Len(glob') : p = << "global", 0, i >>
    BY <2>3, PlacesAre
  <2> QED
    BY <2>1, <2>2, <2>3, PlacesWillBe
<1>8. ASSUME NEW p \in Places, p # hand
      PROVE  /\ TaskAt(p) \in Tasks /\ Disjoint(TaskAt(p), task[t])
             /\ \A k \in DOMAIN s : Disjoint(TaskAt(p), s[k]) /\ Disjoint(s[k], TaskAt(p))
  <2>1. TaskAt(p) \in Tasks
    BY TasksInPlaces DEF IInv
  <2>2. Disjoint(TaskAt(p), task[t])
    BY <1>4, <1>8 DEF NoOverlap
  <2>3. ASSUME NEW k \in DOMAIN s PROVE Disjoint(TaskAt(p), s[k]) /\ Disjoint(s[k], TaskAt(p))
    <3>1. Disjoint(task[t], TaskAt(p))
      BY <1>1, <2>1, <2>2, DisjointTasks
    <3>2. Disjoint(s[k], TaskAt(p))
      BY <1>1, <1>3, <2>1, <3>1, DisjointTasks
    <3> QED
      BY <1>3, <2>1, <3>2, DisjointTasks
  <2> QED
    BY <2>1, <2>2, <2>3
<1> HIDE DEF hand
<1>9. NoOverlap'
  <2> SUFFICES ASSUME NEW p \in Places', NEW q \in Places', p # q
               PROVE  Disjoint(TaskAt(p)', TaskAt(q)')
    BY DEF NoOverlap
  <2>1. CASE /\ p \in Places /\ p # hand /\ q \in Places /\ q # hand
    <3>1. Disjoint(TaskAt(p), TaskAt(q))
      BY <2>1 DEF NoOverlap
    <3> QED
      BY <1>6, <2>1, <3>1
  <2>2. CASE /\ p \in Places /\ p # hand /\ \E k \in DOMAIN s : q = New(k)
    BY <1>5, <1>6, <1>8, <2>2
  <2>3. CASE /\ q \in Places /\ q # hand /\ \E k \in DOMAIN s : p = New(k)
    BY <1>5, <1>6, <1>8, <2>3
  <2>4. CASE (\E j \in DOMAIN s : p = New(j)) /\ \E k \in DOMAIN s : q = New(k)
    <3>1. PICK j \in DOMAIN s : p = New(j)
      BY <2>4
    <3>2. PICK k \in DOMAIN s : q = New(k)
      BY <2>4
    <3>3. j # k
      BY <3>1, <3>2
    <3> QED
      BY <1>3, <1>5, <3>1, <3>2, <3>3
  <2> QED
    BY <1>7, <2>1, <2>2, <2>3, <2>4
<1>10. ASSUME NEW tk \in Unsorted' PROVE tk \in (Unsorted \ {task[t]}) \cup SetOf(s)
  <2>1. PICK p \in Places' : tk = TaskAt(p)'
    BY DEF Unsorted
  <2>2. CASE p \in Places /\ p # hand
    <3>1. tk = TaskAt(p) /\ tk # task[t]
      BY <1>1, <1>6, <1>8, <2>1, <2>2, DisjointTasks
    <3> QED
      BY <2>2, <3>1 DEF Unsorted
  <2>3. CASE \E k \in DOMAIN s : p = New(k)
    BY <1>5, <2>1, <2>3 DEF SetOf
  <2> QED
    BY <1>7, <2>2, <2>3
<1>11. ASSUME NEW tk \in (Unsorted \ {task[t]}) \cup SetOf(s) PROVE tk \in Unsorted'
  <2>1. CASE tk \in Unsorted /\ tk # task[t]
    <3>1. PICK p \in Places : tk = TaskAt(p)
      BY <2>1 DEF Unsorted
    <3>2. p # hand
      BY <1>4, <2>1, <3>1
    <3>3. p \in Places' /\ tk = TaskAt(p)'
      BY <1>6, <3>1, <3>2
    <3> QED
      BY <3>3 DEF Unsorted
  <2>2. CASE tk \in SetOf(s)
    <3>1. PICK k \in DOMAIN s : tk = s[k]
      BY <2>2 DEF SetOf
    <3>2. PICK p \in Places' : tk = TaskAt(p)'
      BY <1>5, <3>1
    <3> QED
      BY <3>2 DEF Unsorted
  <2> QED
    BY <1>11, <2>1, <2>2
<1> QED
  BY <1>9, <1>10, <1>11

------------------------------------------------------------------------------
LEMMA InitNoOverlap == Init => NoOverlap /\ Pool!Init
<1> SUFFICES ASSUME Init PROVE NoOverlap /\ Pool!Init
  OBVIOUS
<1>1. PICK q \in InitialQueues : queue = [t \in Threads |-> [v |-> q[t], off |-> 0]]
  BY DEF Init
<1>2. /\ Held = {} /\ 1 .. Len(glob) = {}
      /\ \A t \in Threads : /\ queue[t].v = q[t] /\ Slots(queue[t]) = DOMAIN q[t]
  <2>1. q \in [Threads -> Seq(Tasks)]
    BY SchedulerAssumption
  <2>2. ASSUME NEW t \in Threads PROVE queue[t].v = q[t] /\ Slots(queue[t]) = DOMAIN q[t]
    <3>1. queue[t].v = q[t] /\ queue[t].off = 0 /\ q[t] \in Seq(Tasks)
      BY <1>1, <2>1
    <3> QED
      BY <3>1 DEF Slots
  <2> QED
    BY <2>2 DEF Init, Held, Holds
<1>3. ASSUME NEW p \in Places
      PROVE  \E t \in Threads : \E i \in DOMAIN q[t] : p = << "queue", t, i >> /\ TaskAt(p) = q[t][i]
  BY <1>2, PlacesAre
<1>4. NoOverlap
  <2> SUFFICES ASSUME NEW p \in Places, NEW r \in Places, p # r
               PROVE  Disjoint(TaskAt(p), TaskAt(r))
    BY DEF NoOverlap
  <2>1. PICK t \in Threads : \E i \in DOMAIN q[t] : p = << "queue", t, i >> /\ TaskAt(p) = q[t][i]
    BY <1>3
  <2>2. PICK i \in DOMAIN q[t] : p = << "queue", t, i >> /\ TaskAt(p) = q[t][i]
    BY <2>1
  <2>3. PICK u \in Threads : \E j \in DOMAIN q[u] : r = << "queue", u, j >> /\ TaskAt(r) = q[u][j]
    BY <1>3
  <2>4. PICK j \in DOMAIN q[u] : r = << "queue", u, j >> /\ TaskAt(r) = q[u][j]
    BY <2>3
  <2>5. << t, i >> # << u, j >>
    BY <2>2, <2>4
  <2>6. Disjoint(q[t][i], q[u][j])
    BY <2>5, SchedulerAssumption
  <2> QED
    BY <2>2, <2>4, <2>6
<1>5. Unsorted = UNION {SetOf(q[t]) : t \in Threads}
  <2>1. ASSUME NEW tk \in Unsorted PROVE \E t \in Threads : tk \in SetOf(q[t])
    <3>1. PICK p \in Places : tk = TaskAt(p)
      BY DEF Unsorted
    <3> QED
      BY <1>3, <3>1 DEF SetOf
  <2>2. ASSUME NEW t \in Threads, NEW tk \in SetOf(q[t]) PROVE tk \in Unsorted
    <3>1. PICK i \in DOMAIN q[t] : tk = q[t][i]
      BY DEF SetOf
    <3>2. << "queue", t, i >> \in Places /\ TaskAt(<< "queue", t, i >>) = tk
      BY <1>2, <3>1, PlacesAre
    <3> QED
      BY <3>2 DEF Unsorted
  <2> QED
    BY <2>1, <2>2
<1>6. {t \in Threads : pc[t] = "exited"} = {}
  BY DEF Init
<1> QED
  BY <1>4, <1>5, <1>6 DEF Pool!Init

(* What each step does to the tasks, and to the abstract pool.             *)
LEMMA NextNoOverlap ==
  ASSUME IInv, IInv', NoOverlap, [Next]_vars
  PROVE  NoOverlap' /\ [Pool!Next]_(Pool!vars)
<1> DEFINE out == {t \in Threads : pc[t] = "exited"}
<1> USE DEF Pool!vars
<1>1. ASSUME NEW t \in Threads, Process(t) PROVE NoOverlap' /\ [Pool!Next]_(Pool!vars)
  <2>1. PICK s \in SplitOrders[task[t]] : queue' = [queue EXCEPT ![t] = Emplace(queue[t], s)]
    BY <1>1 DEF Process
  <2>2. /\ pc[t] = "process" /\ pc' = [pc EXCEPT ![t] = "getJob"] /\ UNCHANGED << glob, task >>
    BY <1>1 DEF Process
  <2>3. NoOverlap' /\ Unsorted' = (Unsorted \ {task[t]}) \cup SetOf(s)
    BY <2>1, <2>2, ProcessMoves
  <2>4. task[t] \in Unsorted /\ task[t] \in Tasks
    <3>1. t \in Held /\ task[t] \in Tasks
      BY <2>2 DEF Held, Holds, IInv, TypeOK
    <3>2. << "hands", t, 0 >> \in Places /\ TaskAt(<< "hands", t, 0 >>) = task[t]
      BY <3>1, PlacesAre
    <3> QED
      BY <3>1, <3>2 DEF Unsorted
  <2>5. SetOf(s) \in SplitSets[task[t]]
    BY <2>4 DEF SplitSets
  <2>6. out' = out
    BY <2>2 DEF IInv, TypeOK
  <2>7. Pool!Process(task[t])
    BY <2>3, <2>5, <2>6 DEF Pool!Process
  <2> QED
    BY <2>3, <2>4, <2>7 DEF Pool!Next
<1>2. ASSUME NEW t \in Threads, PopLocal(t) \/ PopGlobal(t) \/ RetryPop(t) \/ OfferPush(t)
      PROVE  NoOverlap' /\ [Pool!Next]_(Pool!vars)
  <2>1. NoOverlap' /\ Unsorted' = Unsorted
    BY <1>2, PopLocalMoves, TryPopGlobalMoves, OfferPushMoves DEF PopGlobal, RetryPop
  <2>2. out' = out
    BY <1>2 DEF PopLocal, PopGlobal, RetryPop, TryPopGlobal, OfferPush, IInv, TypeOK
  <2> QED
    BY <2>1, <2>2
<1>3. ASSUME NEW t \in Threads,
             AddIdle(t) \/ ReadEmpty(t) \/ SubIdle(t) \/ OfferSize(t) \/ OfferEmpty(t)
      PROVE  NoOverlap' /\ [Pool!Next]_(Pool!vars)
  <2>1. UNCHANGED << queue, glob, task, Held >>
    BY <1>3 DEF AddIdle, ReadEmpty, SubIdle, OfferSize, OfferEmpty, Held, Holds, IInv, TypeOK
  <2>2. out' = out
    BY <1>3 DEF AddIdle, ReadEmpty, SubIdle, OfferSize, OfferEmpty, IInv, TypeOK
  <2> QED
    BY <2>1, <2>2, TasksKept
<1>4. ASSUME NEW t \in Threads, ReadIdle(t) PROVE NoOverlap' /\ [Pool!Next]_(Pool!vars)
  <2>1. UNCHANGED << queue, glob, task, Held >>
    BY <1>4 DEF ReadIdle, Held, Holds, IInv, TypeOK
  <2>2. NoOverlap' /\ Unsorted' = Unsorted
    BY <2>1, TasksKept
  <2>3. CASE idle # num_threads
    <3>1. out' = out
      BY <1>4, <2>3 DEF ReadIdle, IInv, TypeOK
    <3> QED
      BY <2>2, <3>1
  <2>4. CASE idle = num_threads
    <3>1. pc' = [pc EXCEPT ![t] = "exited"] /\ pc'[t] = "exited"
      BY <1>4, <2>4 DEF ReadIdle, IInv, TypeOK
    <3>2. out' = out \cup {t}
      BY <3>1 DEF IInv, TypeOK
    <3>3. /\ glob' = << >> /\ Held' = {}
          /\ \A u \in Threads : QSize(queue'[u]) = 0
      BY <3>1 DEF IInv, NoWorkAfterExit, Held, Holds, Idling
    <3>4. \A u \in Threads : Slots(queue'[u]) = {}
      <4>1. \A u \in Threads : queue'[u].v \in Seq(Tasks) /\ queue'[u].off \in Nat
        BY DEF IInv, TypeOK
      <4> QED
        BY <3>3, <4>1 DEF QSize, Slots
    <3>5. Places' = {}
      BY <3>3, <3>4, PlacesWillBe
    <3>6. Unsorted = {}
      BY <2>2, <3>5 DEF Unsorted
    <3>7. Pool!Exit(t)
      BY <2>2, <3>2, <3>6 DEF Pool!Exit
    <3> QED
      BY <2>2, <3>7 DEF Pool!Next
  <2> QED
    BY <2>3, <2>4
<1>5. CASE UNCHANGED vars
  <2>1. UNCHANGED << queue, glob, task, Held >> /\ out' = out
    BY <1>5 DEF vars, Held, Holds
  <2> QED
    BY <2>1, TasksKept
<1> QED
  BY <1>1, <1>2, <1>3, <1>4, <1>5 DEF Next, Step, Finished

(* NoOverlap: at no time do two tasks share an element, wherever they are, *)
(* for every number of threads and whatever tasks splitting leaves.        *)
THEOREM TasksDisjoint == Spec => []NoOverlap
<1>1. Spec => []IInv
  BY InitIInv, NextIInv, PTL DEF Spec
<1>2. Init => NoOverlap
  BY InitNoOverlap
<1>3. IInv /\ IInv' /\ NoOverlap /\ [Next]_vars => NoOverlap'
  BY NextNoOverlap
<1> QED
  BY <1>1, <1>2, <1>3, PTL DEF Spec

(* ImplementsTaskPool: every task, given or split off, is processed once,  *)
(* and threads leave only when nothing is left.                            *)
THEOREM TaskPoolRefinement == Spec => ImplementsTaskPool
<1>1. Spec => []IInv
  BY InitIInv, NextIInv, PTL DEF Spec
<1>2. Init => Pool!Init
  BY InitNoOverlap
<1>3. IInv /\ IInv' /\ NoOverlap /\ [Next]_vars => [Pool!Next]_(Pool!vars)
  BY NextNoOverlap
<1> QED
  BY <1>1, <1>2, <1>3, TasksDisjoint, PTL DEF Spec, ImplementsTaskPool, Pool!Spec

==============================================================================
