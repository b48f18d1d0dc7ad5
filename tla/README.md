# Models of ips4o

TLA+ models of the in-place parallel super scalar samplesort in this repository
(`include/ips4o/*.hpp`). The hard part of this library is not sorting but
sharing: all threads permute the blocks of one array in place, guided by a few
atomic words, between barriers that the library builds itself. The models state
what must not go wrong there and in the arithmetic around it, TLC checks it on
small instances, and TLAPS proves a part of it for all instances.

## 1. The system

One partitioning step (`partition` in `partitioning.hpp`) goes through

1. *sampling* - one thread chooses splitters, inside `sync.single`;
2. *local classification* - each thread distributes its stripe to one buffer
   per bucket and flushes full buffers to the front of the stripe;
3. *empty block movement* - blocks are moved until every bucket consists of
   full blocks followed by empty ones;
4. *block permutation* - full blocks are moved to their buckets, in place;
5. *cleanup* - heads, tails and buffers are put where they belong;

with barriers in between. Buckets become new tasks: *big tasks* for teams of
threads, small ones for the *scheduler*, which hands them to single threads.

| component | state | operations | hard behaviour | what makes it correct |
|---|---|---|---|---|
| Barrier (`synchronization.hpp`) | counter, flag, sleepers of a condition variable | `barrier`, `single`, `setNumThreads` | immediate reuse, spurious wakeups, notification after the unlock | nobody leaves before all have arrived; `func` ran once by then; every call returns |
| Scheduler (`scheduler.hpp`) | a private queue per thread, a global queue, the idle counter | `getJob`, `offerJob` | termination detection with a counter that goes up and down, stale tests | no task lost, none done twice, nobody leaves too early, everybody leaves |
| Small tasks (`parallel.hpp`, `sequential.hpp`) | the task in hand | `processSmallTasks`, `sequential` | - | subtasks are disjoint and smaller |
| Local classification (`local_classification.hpp`, `buffers.hpp`) | buffers, bucket sizes, first empty block of each stripe | `classifyLocally`, buffer operations | flushing over elements that were not read yet, rounding of stripes | the counts describe the stripes |
| Empty block movement (`empty_block_movement.hpp`) | slots, bucket pointers | `moveEmptyBlocks` | unsynchronised moves between stripes | moves are disjoint; full blocks, then empty ones |
| Block permutation (`block_permutation.hpp`, `bucket_pointers.hpp`) | slots, a write/read pointer word and a reader counter per bucket, swap and overflow buffers | `classifyAndReadBlock`, `swapBlock` | claims by fetch-and-add, a reader late for the slot that a writer has claimed, overflow | exclusive access, no block lost, blocks end up in their buckets |
| Cleanup (`cleanup_margins.hpp`) | swap buffer, buffers, elements | `saveMargins`, `writeMargins` | margins across threads, overflow | every element is in its bucket, once |
| Partitioning step (`partitioning.hpp`) | the fields of `SharedData` | `partition` | what may be read between which barriers | no phase reads what another thread still writes |
| Big tasks (`parallel.hpp`) | `big_tasks`, `thread_pools` | `queueTasks`, `processBigTasks` | rounding of teams, hand-over of slots | every thread in at most one team, all subtasks queued |
| Thread pools (`thread_pool.hpp`) | `func_`, `num_threads_`, `done_`, a barrier | `run`, `main`, `join`, `release_threads` | fields without a lock | each call runs on every thread once; threads end |
| Parallel sorter (`parallel.hpp`, `memory.hpp`) | the fields of `SharedData` and `LocalData` | the jobs a pool executes: `alloc`, `sort`, `partition` | reuse of one sorter by calls with other teams | nobody sees what an earlier call left behind |
| Sampling, classifier (`sampling.hpp`, `classifier.hpp`) | splitters, search tree | `buildClassifier`, `classify` | equal elements, powers of two | classification agrees with comparison; progress |
| Sortedness test, base case (`base_case.hpp`) | a vector of bits | `isSorted`, `baseCaseSort` | bits that share a word | never takes an unsorted input for sorted |
| Sequential sorter (`sequential.hpp`), state machine (`ips4o_state_machine.hpp`) | recursion, or a stack of tasks; one classifier and one set of parameters | `sequential`, `sequential_rec`, handlers | sampling recurses into the same sorter; what is sorted where | the output is the sorted input; the recursion ends |
| Configuration, utilities, entry points | - | thresholds, `logBuckets`, `log2`, `sort` | rounding | - |
| Allocation, affinity | - | - | - | system calls |

`PROJECT.json` lists the components with their status and the hazards with the
properties that cover them.

## 2. The modules

| module | models | kind |
|---|---|---|
| `AbstractBarrier` | what a barrier promises | abstract specification |
| `Barrier` | `detail::Barrier` | state machine, implements `AbstractBarrier` |
| `BarrierProofs` | | theorems |
| `AbstractTaskPool` | what the scheduler promises | abstract specification |
| `Scheduler` | `Scheduler`, `PrivateQueue`, `processSmallTasks` | state machine, implements `AbstractTaskPool` |
| `SchedulerProofs` | | theorems |
| `ThreadPool` | `StdThreadPool`, `ThreadJoiningThreadPool` | the pool's part of a state machine |
| `ParallelSorter` | `ParallelSorter`, `partition<true>`: who uses which field when | state machine, extends `ThreadPool` |
| `ParallelSorterProofs` | | theorems |
| `BigTasks` | `queueTasks`, `processBigTasks` | state machine |
| `BigTasksProofs` | | theorems |
| `BucketLayout` | the invariant between phases 3 and 4 | operators |
| `LocalClassification` | what phase 2 leaves behind | functions of the input |
| `EmptyBlockPlan` | what each thread computes in phase 3 | functions of phase 2's result |
| `EmptyBlockMovement` | the execution of these plans | state machine |
| `EmptyBlockProofs` | phases 2 and 3 | theorems |
| `BlockPermutation` | phase 4 | state machine |
| `BlockPermutationProofs` | | theorems |
| `Cleanup` | phase 5 | state machine |
| `CleanupProofs` | | theorems |
| `Classifier` | sampling, splitters, search tree, `logBuckets` | functions |
| `SampleSort` | the array, a stack of tasks, the simple cases | shared by the next two |
| `SequentialSorter` | `sequential`, `sequential_rec`, `sort`, the sequential `make_sorter` | steps of a state machine |
| `StateMachine` | `ips4o_state_machine.hpp` | steps of a state machine |
| `SequentialSorters` | both, with what may call them | state machine |
| `SortedCheck` | `isSorted` | state machine |
| `SortedCheckProofs` | | theorems |
| `StripeInputs`, `MC*` | inputs and constants for TLC | instances |

How the models fit together. A partitioning step is modelled twice.
`ParallelSorter` has all of its phases, for any number of calls, but of the data
only which call it belongs to; it says that the barriers order all accesses.
Each phase then has a model of its own, which may take for granted that what the
phases before it wrote is complete. The chain input -> `LocalClassification` ->
`EmptyBlockPlan` -> `BlockPermutation` is closed: the layouts on which the
permutation is checked are those which the models of the earlier phases
produce, `EmptyBlockMovement` shows that the interleaved execution produces the
same layouts, and both check that they satisfy `IsLayout`, the assumption of
the permutation; `EmptyBlockProofs` proves it for every input. `Cleanup` starts from what `LocalClassification` counts and
from where, by `Permuted` and `Overflow`, the permutation leaves the blocks.
`BucketComplete` of `Cleanup` says that the buckets which partitioning returns
are buckets, which `BigTasks` and `Scheduler` turn into tasks: `BigTasks` has any
buckets with splitters from the task, and its `EverythingOnce` is why the
initial queues of `Scheduler` hold disjoint tasks.

Operators named as a *faulty variant* are not used by a specification. Each is
the right definition with one plausible mistake, and replaces it to show that
a property would notice.

### Barrier

`hit_count`, `flag` and `wait_flag[t]` are `hit_count_`, `flag_` and the copy
`f` in the wait predicate. A critical section of the mutex is a step;
`notify_all` is two, since the mutex is released before `cv_.notify_all()`.
The sleepers are the set `asleep`; `SpuriousWakeup` takes a thread out of it at
any time and `Wake` checks the predicate again. `func` runs between
`CallSingleFirst` and `ReturnFromFunc`, without the mutex. `runs` and `opened`
are history variables. The number of threads is fixed here; `setNumThreads`,
which the pools call between two calls, is in `ThreadPool`.

### Scheduler

One action per access to the shared counter or to the global queue. What a
thread does with its own queue, which no other thread sees, is merged with such
an access. TBB's `concurrent_queue` is a linearizable FIFO queue. A task is an
interval; processing a task larger than `SingleLevel` leaves any set of disjoint
smaller intervals, from right to left, which includes what any splitters may
give. That the parts are *strictly* smaller holds for the default
configuration, where more than `kSingleLevelThreshold` elements are cut into at
least 16 buckets by splitters from the input. The tasks that the queues hold
initially are disjoint, by `BigTasks!EverythingOnce`. `Places` are all the
places a task may be in: a thread's hands, a private queue behind its offset,
the global queue.

### Thread pools and parallel sorter

`pc[t]` is the place in the code that thread `t` executes *next*, and what it
accesses there (`PoolAccess`, `JobAccess`) it accesses while it is at that place;
the step that leaves the place has the effect. `NoConflict` therefore means
that no two threads are ever inside conflicting accesses, of plain fields with
a write among them, or of a plain and an atomic access. `at[t]` tells whether
the thread runs or waits, at the pool's barrier or at `sync_`. A call of a pool
is `CallPool`, `SetUp`, the stages of a job, `Return`; a thread that is in no
team goes through both barriers of `main` all the same. `Join` and `Finish` are
destructor and `release_threads`. Barriers are those of `Barrier`, with a hit as
one step, which its refinement of `AbstractBarrier` justifies.

The contents of a field are the call (and thread) that wrote it: `built` for
`classifier` and `num_buckets`, `sums` for `bucket_start`, `overflow` for the shared
pointer, `full` for the overflow buffers that hold elements. A job partitions
once: `sort` goes on to its tasks, `partition` is a big task's step. Which
thread overflows, if any, and which one owns the bucket, are choices;
that there is at most one is `BlockPermutation!Overflow`.

### Big tasks

`big_tasks`, `thread_pools` and `queue` are the slots of `SharedData` and the queues of
the threads; a pool is named by its task, and joined and released as in
`ThreadPool`. `queueTasks` is `Queue`, which takes the task out of the slots of the
team, then `Divide` for one bucket after the other (`bucket`), with `QueueTask` for
each task that is left. `NoConflict` says that nobody else looks at the slots
meanwhile: the other threads of the team wait in the pool. `Partitions(n)` is any sequence of bucket boundaries in which no bucket
that is sorted further is as large as the task; splitters are elements of the
task, so that at least one element is elsewhere. Equality buckets are as
`queueTasks` expects them: odd numbers, but the last bucket is none.

### Classification and empty block movement

An input is a function from positions to buckets; a block is named by the slot
it was flushed to, and the model keeps its bucket. `MyBegin` rounds
`my_id_ * elements_per_thread + 0.5` exactly, where the code uses `double`: the
two agree below 2^52 elements up to the rounding of a boundary case. The plan
of a thread depends only on what all threads published before the first
barrier (`Classified`), so it is a function; its execution is interleaved block
by block. Threads without a stripe are excluded by `MovementAssumption`. The
code never gets there, and this is proved: `numThreadsFor` grants a team only for
four blocks per thread, a big task then has two blocks for each thread of its
team (`TeamHasBlocks`), and with two blocks per thread no stripe is empty
(`StripesDivideInput`). `Before(f)` are the sums of the code's counting loops,
`ReadBound` is where `read_from_thread` stops, and `Reading` holds the state of the
reading loop (what is reserved, `write_ptr`, the moves) after each of its rounds:
the recursion goes by rounds, as the code's loop does, so that the loop has an
invariant to prove.

### Block permutation

Pointers count blocks. One action per access to a pointer word, to
`num_reading_`, or to a slot: `StartRead` and `DecRead` are `decRead`,
`ReadBlock`, `StopRead` and `NoMoreBlocks` the rest of `classifyAndReadBlock`,
the other actions are `swapBlock`. Moving a block is one step; that this is no
loss is what `ExclusiveAccess` says: between claim and access nobody else
touches the slot. The swap buffer in use is `hand`; a block that is moved away
leaves `NoBlock`. Memory is sequentially consistent.

### Cleanup

Here positions hold elements, `<< bucket, number >>`, since the margins are
moved element by element; `Junk` is a place whose element has been moved away.
`SaveMargins` is `saveMargins` of a thread, `WriteMargin` one round of the loop in
`writeMargins`, with the cases of the code (`HasOverflow`, `HasSaved`,
`ReachesOver`) in the code's order. That a bucket is written in one step is
justified by `NoSharedElement`: what a thread touches while writing, no other
thread touches in that phase. `Trivial = FALSE` makes `readFrom` leave `Junk`
behind, as the move constructor of `std::string` does.

### Sequential sorters

Recursion, and the private queue of a small task, are a stack of tasks with the
next operation of each (`op`). `Sample` chooses any sample, pushes the task to
sort it, and leaves the task itself at `Build`: what the recursion does to
`classifier` and `params`, the sorter's only set of them, is visible to the
task that waits. `Divide` is a whole partitioning step, stable here, with the
sorting that cleanup does and the subtasks that are left. `Classifier` has
splitters, tree and classification as the code computes them, with the
doubled last splitter and the descent through the tree. In `StateMachine` every
handler is an action, named as in the source.

### Sortedness test

`is_sorted` is the set of bits that are set; a store reads the word and writes
it in a second step. Of the input only the set of descents matters.

## 3. The runs

| run | instance | question |
|---|---|---|
| `barrier` | 3 threads; calls single, barrier, barrier, single | all properties of the barrier, with liveness and refinement |
| `scheduler` | 3 threads, 6 elements, tasks above 2 elements are split, 2 initial queues | termination detection, no task lost or doubled, refinement, liveness |
| `parallel_sorter` | 3 threads; two lives of a standard pool, one of a joining pool | accesses are ordered by barriers only; no call sees another's data; all threads end |
| `big_tasks` | 4 threads, 8 elements, two buckets with or without equality buckets | teams, hand-over of slots, every element sorted once, all threads get to the small tasks |
| `empty_blocks` | 4 threads, 3 buckets, all inputs of 9 one-element blocks | disjoint moves, resulting layout |
| `block_permutation` | 2 threads, 3 buckets, blocks of 4, inputs of 15 elements | all properties, with liveness |
| `block_permutation_threads` | 3 threads, 2 buckets, blocks of 2, all inputs of 11 elements | exclusive access and conservation with two readers and a writer |
| `cleanup` | 1, 2 and 3 threads, 4 or 5 buckets, blocks of 3, 11 elements | the code's assumptions, no shared element, every bucket complete |
| `cleanup_moved_elements` | 3 threads of `cleanup`, elements that lose their value when moved | the comment on who writes the swap buffer is violated |
| `sequential_sorters` | 4 callers; all inputs of up to 6 elements of 3 values, and 3 longer ones | sorted at the end, termination, partitioning divides |
| `sorted_check` | 3 threads, 12 to 14 elements, all sets of descents | an unsorted input is never skipped |
| `sorted_check_lost_bit` | the same | the comment "Do nothing if input is already sorted" is violated |

Why the bounds are enough for what they are meant to show:

* *barrier*: three threads, so that one may run ahead while one waits and one
  is being woken. Four episodes take each kind of call after each kind and the
  flag through both values twice; a thread is never more than a call ahead.
* *scheduler*: the global queue reaches a length of two, with two threads that
  offer to a third at the same time; a task is split twice in a row.
* *parallel_sorter*: one life allocates and sorts twice with the whole pool, so
  that what the first call leaves behind is there for the second. One
  allocates alone, without the pool, then partitions with two of three threads,
  then sorts with all, so that the team shrinks and grows and an idle thread
  passes the pool's barriers. The third is a joining pool of three threads with
  the step of a big task. Three threads let one be late at a barrier that
  the others have already passed.
* *big_tasks*: with eight elements on four threads a team of four, three or two
  divides itself again; a big task lies on the left or on the right, on the next
  level in between, with small ones beside it; tasks on the last level (at most four
  elements) and above it both occur, as do equality buckets. `SubSingleLevel`,
  the threshold of a team's sorter, which always has the default
  configuration, equals `SingleLevel`; see the hazard at `parallel.hpp:207` for
  what happens when it does not.
* *empty_blocks*: a bucket may cross all four stripes, so that a thread in the
  middle reserves blocks for one to its left and reads past another; stripes of
  two and three blocks. Unaligned bucket boundaries occur in the layouts of
  `block_permutation`, for which TLC evaluates `IsLayout`.
* *block_permutation*: overflow needs blocks of at least four elements with two
  threads (each keeps an element back in its buffer), and fifteen elements
  give it, together with empty, full and one-slot buckets. The inputs are those
  whose stripes hold each bucket in one run, in rising or falling order, which
  gives 109 layouts.
* *block_permutation_threads*: three threads meet in one bucket; blocks of two
  keep the number of layouts (49) small. No overflow occurs there.
* *cleanup*: a block reaches over its bucket's end only if a block has three
  elements or more. Eleven elements are not a multiple of a block, so that one
  may overflow. One and two threads get all distributions of elements to four
  buckets. Three threads with five buckets are there for a thread all of whose
  buckets are empty; the second and third stripe are then restricted.
  `SingleLevel` is above the input's size, so that buckets are sorted while
  others are written.
* *sequential_sorters*: a base case of two elements (one would let the sample be
  larger than n / 2), up to eight buckets, equality buckets if at least two
  splitters are lost. Short inputs are complete. `LargeSample` has a sample
  that is itself sampled; `OneSplitter` is on two levels and may have only
  equal splitters; `BehindEqual` leaves an unsorted last bucket behind an
  equality bucket. Every sample that the code may draw is drawn.
* *sorted_check*: all remainders of the division of the input into stripes. All
  bits are taken to be in one word, the worst case; threads whose bits are in
  different words do not disturb each other.

Deadlock is checked in all runs: `Finished` keeps the final states alive, and
only those.

**Fairness.** Weak fairness of each thread's next step, and nothing else: the
operating system keeps running every thread that can run. The condition
variable is not assumed to wake anybody, and spinning threads (`ReadIdle`,
`ReadEmpty`, `Spin`) need no more than that, since what they wait for is never
taken back for good. The sequential sorters state the same in another form: if
there is a task, a step is enabled, so that weak fairness of `Step` is
`[]<>(stack = << >>) \/ []<><<stack' # stack>>_vars`, which TLC evaluates without
trying all samples for `ENABLED`. Nothing is assumed about the samples:
`SequentialTerminates` holds for the worst ones.

**Findings.**

* `isSorted` stores the threads' results in one `std::vector<bool>` without
  synchronisation. A store can undo another one, so that a sorted input is
  sorted again, against the comment in `base_case.hpp:83`. The result stays
  right, which `sorted_check` checks and `SortedCheckProofs` proves.
* `saveMargins` (`cleanup_margins.hpp:79`) may move the same elements to the swap
  buffers of two threads, if all buckets of one of them are small or empty and
  lie in the last block of a bucket of the thread before it. The comment in
  `cleanup_margins.hpp:129`, "Bucket of last block in this thread's area => write
  swap buffer", takes it for granted that the swap buffer of the bucket's owner
  has the elements. If the other thread was first, the owner gets elements that
  have been moved from. Trivially copyable types are not affected (run
  `cleanup`); with `std::string`, the compiled library can lose strings this way.

A third divergence depends on the configuration and is listed as a hazard: with
a configuration whose `kSingleLevelThreshold` is above the default one, the
sorter of a team, which has the default configuration (`parallel.hpp:207`), and
`queueTasks` of the parallel sorter disagree on the last level, and a task
between the thresholds is sorted by neither. With `SubSingleLevel` below
`SingleLevel`, TLC finds `EverythingOnce` violated.

## 4. The proofs

* `BarrierProofs!Safety`: `Spec => [](TypeOK /\ BarrierInv /\ NoLostWakeup)`,
  for any finite set of threads and any sequence of calls. `BarrierInv` is the
  inductive invariant: `CountsHits` counts the threads that have hit the barrier
  (`Pending`) and the execution of `func`, `InStep` says who is one call ahead,
  `RunsOnce` who may be in `func`. The threads that have been let go are told
  from those that wait by the flag, which is why the flag flips.
  `SleepersNotified` is its part `NoLostWakeup`.
* `BarrierProofs!Refinement`: `Spec => ImplementsBarrier`, from the same
  invariant: each step is a step of the abstract barrier or stutters.
* `SchedulerProofs!TerminationDetection`: `Spec => [](TypeOK /\ CountsIdle /\
  GlobalIsServed /\ NoWorkAfterExit)` for any number of threads, any input size
  and any disjoint initial queues. The invariant adds that a thread that signals
  that it is idle has an empty queue. When the counter equals the number of
  threads, `CountsIdle` makes all of them idle, `GlobalIsServed` makes the global
  queue empty, and no thread ever adds a task again. `TypeCorrect`,
  `CounterExact` and `OffersServed` are its parts.
* `SchedulerProofs!TasksDisjoint` and `TaskPoolRefinement`: `Spec => []NoOverlap` and
  `Spec => ImplementsTaskPool`. A step moves tasks between places. Each place
  after the step is traced back to the place that its task came from; different
  places have different origins, so no task is doubled, and every place is an
  origin, so none is lost. Only `Process` changes tasks: it replaces the task in
  a thread's hands by parts of it, which are disjoint from each other and, being
  parts, from everything the task was disjoint from. The refinement maps the
  pool of unfinished tasks to `Unsorted`, the tasks in all places; it needs
  `NoOverlap`, for two equal tasks would be one element of that set.
* `BlockPermutationProofs`: `ExclusiveAccesses`, `NoBlockLost`,
  `PassedSlotsSettled`, `OneOverflow` and `BlocksPermuted` are `Spec => []P` for the
  safety properties `TypeOK`, `ExclusiveAccess`, `OnePlace`, `Settled`,
  `Overflow` and `Permuted` of the permutation phase, for any number of threads
  and buckets and any set of layouts that satisfy `IsLayout`. None of them is
  inductive. The inductive invariant `IInv` adds
  - `CountsReaders`: `num_reading_` counts the threads in `Readers`;
  - `Pointers`: the slots from the write to the read pointer hold blocks, the
    slots after both are empty or about to be emptied by a reader;
  - `ReaderClaims`, `WriterClaims`: no two readers and no two writers have
    claimed the same slot; a reader and a writer may have, and then the
    writer is still waiting for `num_reading_` to become zero;
  - `Apart`, `Somewhere`: each block is in at most and at least one place;
  - `OverflowClaim`: a write pointer beyond the last slot has an overflow block.

  The claims only exclude each other if a bucket's write pointer never leaves
  the bucket's area. That is shown by counting (`RoomForBlock`): each slot that
  the pointer has passed stands for another block of the bucket, and the block
  that is to be placed is none of them. For `Permuted`, `Exhausted` says that a
  thread has left no bucket before its pointers crossed, and the counting
  argument in both directions gives the position of the write pointer.
* `EmptyBlockProofs!StripesDivideInput`: for any number of threads and any
  block size, an input of at least two blocks per thread is divided by the
  stripes, and none is empty. With `BigTasksProofs!TeamHasBlocks`, that rounding
  never leaves a team of k > 1 threads less than 2k blocks if the input has four per
  thread, this is the part of `MovementAssumption` that is about the code. A team's
  task ends at most half a stripe before and begins at most half a stripe behind
  the borders of its threads' stripes, so that it has at least k - 1 stripes, of
  four blocks, and 4(k - 1) >= 2k.
* `EmptyBlockProofs!MovesAreDisjoint`: `Spec => []DisjointMoves`, for any number of
  threads and buckets, any block size and any inputs. The argument has four steps.
  - *What classification leaves* (`ClassifiedStripes`): a record with the property
    `Stripes`. Every stripe has full blocks up to `first_empty`, which is no
    further than its end; the bucket boundaries ascend. `ClassifyCounts` counts
    the elements of every bucket through each step of `ClassifyAll`.
  - *What the counts mean.* `Full(d, y)` is the number of elements in full blocks
    in front of position y, and `Holes(d, y)` = y - `Full(d, y)` is the free space.
    What a thread counts of other stripes are differences of these: `FlushedLeft`
    (`LeftCount`), `FlushedRight` (`RightCount`), `elements_reserved` (`ReservedIsHoles`:
    the holes between the bucket's begin and the stripe), and
    `first_empty_block_in_bucket` (`FirstEmptyIsFilled`: the same number for all
    threads with a share of the bucket, although each computes it from other
    terms).
  - *The loop's invariant* (`RoundsMade`, `MovesFacts`). Counted from the bucket's
    end, a thread takes the full elements from number R to R + w, where R is what it
    has reserved and w the size of its gap. The loop ends in a stripe behind the
    thread's own one, which the code does not check, because the full elements
    behind the stripe suffice for R + w (`NeedFacts`).
  - *Ranges apart* (`TakenApart`): the thread to the right begins to take at
    R plus all holes of this stripe, which is at least R + w. Threads with different
    overlapping buckets, which ascend (`RangesAscend`), stay in different areas.

  The inductive invariant `IInv` (`PlanIsFollowed`) says that the moves which are
  left are the last ones of each plan, that the slots hold the input's blocks but for
  the moves that are done, and that the pointers are those of the threads that have
  set them. `DisjointMoves` follows from it; by itself it is not inductive, as it does
  not say that the moves left are those that were planned.
* `EmptyBlockProofs!LayoutIsEstablished`: for every input, the plans make a layout:
  `IsLayout(LayoutAfterMoves(Classified(input)))`. This is `PermutationAssumption` of
  the next phase for the layouts that the code produces, so that the theorems of
  `BlockPermutationProofs` hold behind this phase for every input. The gaps in front of
  `Filled`, the bucket's first empty position, are all filled (`WithinFilled`), each by
  the thread in whose stripe it is, and all blocks behind it are taken (`BeyondTaken`),
  because the ranges that are taken have no space in between and the holes in front of
  `Filled` are as many as these blocks. That a bucket's blocks have room in its area,
  and that a bucket with blocks is larger than a block, comes from classification
  (`RoomForBlocks`): a block is flushed only for a further element.
  `MovementEstablishesLayout`, `Spec => []EstablishesLayout`, says that the
  interleaved execution ends there, and that every bucket has been given its
  pointers by exactly one thread.
* `EmptyBlockProofs!MovementTypes`: `Spec => []TypeOK`. The attempt to prove it showed
  that the bound that `TypeOK` had for read pointers was wrong for blocks of
  several elements: the area of an empty bucket at the end of the input may begin
  behind the last whole block, and its read pointer is then one less than its
  write pointer. The code is right (such a bucket has no block to read), the
  bound has been corrected.
* `BigTasksProofs!TeamsDisjoint` and `OwnerInTeam`: the borders of teams are rounded
  in the same way on both sides, so that tasks that do not overlap have teams
  that do not; and the thread that gets a small subtask, found by dividing by the
  parent's stripe, belongs to the parent's team.
* `BigTasksProofs!TeamsAgreeing` and `DividesAlone`: `Spec => []TeamsAgree` and
  `Spec => []NoConflict`, for any number of threads, any input size and any
  outcome of partitioning. A pool is named by its task, and its `Members` are the
  threads from the one in whose stripe the task begins (`First`). The inductive
  invariant `IInv` says of every thread: its place agrees with its slot and its
  pool (`InPlaceOf`); all slots of a task's team say the same and name the
  pool that the first thread has made for it (`TaskAgrees`); a first thread
  inside `queueTasks` has all members of its pool waiting in it (`Gathered`), and
  the slots it has filled so far hold tasks behind the bucket it looks at
  (`Divides`). A step of `queueTasks` writes only slots of members, so that other
  teams, which share no thread with this one (`TeamsDisjoint`), are not disturbed;
  and members that wait in the pool look at nothing, which is `NoConflict`.
* `BigTasksProofs!ElementsSortedOnce`: `SubSingleLevel = SingleLevel => (Spec =>
  []EverythingOnce)`. `Once` states the same as a relation between positions and
  tasks instead of counting: a position is sorted, or covered by one of the
  tasks in slots, in queues or in the buckets that are still to be queued, and
  by no second one. The hypothesis holds for the default configuration; without
  it the property is wrong (see the third divergence above).
* `ParallelSorterProofs!OncePerCall`: `Spec => []CallsInStep`. `RanInv` adds to the
  invariant of `ConflictFree` that what a thread has executed grows in the order
  of the calls, holds all calls it was due before the present one, and
  the present one exactly if it has left the job.
* `TypeCorrect` of `BarrierProofs` and `BlockPermutationProofs` are the type
  invariants, as parts of the inductive ones.
* `ParallelSorterProofs!ConflictFree`: `Spec => []NoConflict`, for any number of
  threads, any calls and any sizes of their teams. The flag of the pool's
  barrier splits a pool's life into phases: `Idle`, in which only thread 0
  touches the pool's fields, `Working`, in which it waits or does the job like
  the others, and `Ending`. While they work there is one number `e` of
  barriers of the job that all members of the team have passed (`Fits`):
  those that have not begun fit 0, those that are gone fit 7, and those that wait for the
  next barrier fit `e` as well. `CountsPool` and the last part of `Working` count
  the threads in front of the two barriers, so that a barrier that opens has
  everybody in front of it. Between the same two barriers `StageConflicts`
  compares what the stages access; at two places only `Alone` helps: one
  thread samples, since `single` elects one, and one publishes its overflow
  buffer, since one block overflows.
* `ParallelSorterProofs!StepsAreCurrent`: `Spec => []CurrentStep`. `Data(e)` says what
  the shared fields hold when the team has passed `e` barriers: from whom counts
  are in `bucket_start`, whose overflow buffer is in use and whether it is still
  full, and, from the last barrier on, that everything is as fresh as at the
  beginning (`Fresh`), which the next job starts from. `DataInv` demands `Data(e)`
  for the same `e` that every member fits; the case in which a barrier opens is the one in
  which `e` becomes `e + 1`, and then all others have just done what the
  thread that opens it does.
* `SortedCheckProofs!NeverWrong`: `Spec => []NeverSkipsUnsorted`, for any number
  of threads and any size. A bit that is set, in the vector or in a word that
  a thread has read, belongs to a thread whose stripe is sorted; every descent
  lies in what some thread tests (`StripesCover`, `StripeOf`).

* `CleanupProofs!AssumptionsAlwaysHold` and `NoElementShared`: `Spec =>
  []AssumptionsHold` and `Spec => []NoSharedElement`, for any number of threads and
  buckets, any block size and anything that the phases before may leave
  behind. Aligned borders and ends of blocks are multiples of the block size,
  and two multiples that differ do so by a block (`MultipleFacts`). So a bucket's
  blocks end at the latest at the first boundary behind the bucket, and what reaches
  behind it is the bucket's room in front of its first block less the elements
  in buffers (`BlocksEnd`); only the last bucket with blocks can overflow, and
  it is the one `computeOverflowBucket` names (`OverFacts`). `Shape` is the part of the
  invariant that does not look at elements: where every thread is, what the
  buffers, the overflow buffer and the saved margins of unwritten buckets hold or how
  long they are, and that all places a thread has accessed lie in its own
  buckets (`OwnPlaces`). The case to worry about is a block that reaches over the
  end of the thread's last bucket: then `MarginSaved` shows that this very thread
  has saved it, so that it is never read from the array during writing.
* `CleanupProofs!CompleteUnlessSavedTwice`: `Spec => [](Trivial \/ SavedOnce =>
  BucketComplete)`. `Contents` adds which elements the blocks of unwritten
  buckets and the saved margins hold; it is inductive because neither a place
  in an unwritten bucket's blocks (`BlocksKept`) nor one of a written bucket
  (`WrittenKept`) is written again. The places in a bucket that `writeMargins`
  fills are exactly those without an element (`PlaceFacts`). `SavedOnce` says
  that no two threads find the same margin: it is what the second finding
  violates, and the theorem says that nothing else goes wrong in this phase.
  `BucketsComplete` is the case of elements that keep their value when moved from;
  `CompleteIfBlockEach` shows how small the buckets of a thread must be for the
  finding: less than a block of elements together.

The assumptions on constants are `BarrierAssumption`, `SchedulerAssumption`,
`ThreadPoolAssumption`, `ParallelSorterAssumption`, `PermutationAssumption`,
`ClassificationAssumption`, `BigTasksAssumption`, `CleanupAssumption` and
`SortedCheckAssumption`; TLC evaluates each of them. `ParallelSorterAssumption` says that only the
constructor's job is ever done by one thread alone: `numThreadsFor` sends an input
that one thread would sort to the sequential sorter; and that a pool which
threads join executes one call, since it belongs to one task of `big_tasks`. `PermutationAssumption`
demands `IsLayout` of the layouts, which `EstablishesLayout` checks for what the
phase before leaves behind; `CleanupAssumption` demands that a bucket's blocks
and what is in buffers add up to the bucket, and that a bucket with blocks has
elements in buffers: `classifyLocally` flushes a full buffer only when one more
element comes for it; `SchedulerAssumption` demands disjoint initial
tasks, which is what `ElementsSortedOnce` proves of what big tasks leave behind.

The theorems of `EmptyBlockProofs` rest on `MovementAssumption` as well: the inputs
are functions from positions to buckets, and every thread has a stripe.

Only model-checked: liveness, which is out of reach of this prover, and of the
invariants of the runs `SortedAtEnd` of the sequential sorters. What the classifier
and the two sorters do with a sequence of any length is written with folds whose
argument is an operator (`Insert`, the search tree, the partitions of `Divide`), and
what these compute is shown by induction over the sequence, for which the prover
has no rule. An induction over numbers can be done by hand, from the least
counterexample, as `Least` in `BigTasksProofs` and `CleanupProofs` or with a recursive
function as in `EmptyBlockProofs` (`Recursions`); a definition that passes an
operator to a recursive one cannot be unfolded.

## 5. Not modelled

* `OpenMPThreadPool`: a call into the OpenMP runtime.
* The parallel entry points in `ips4o.hpp` choose between the sequential sort,
  `isSorted` and `ParallelSorter`; what they choose from is modelled, the choice
  is not, but for what `numThreadsFor` grants, which the proofs use.
* `sequentialClassification` and the sequential instantiation of the permutation:
  `SequentialSorter` has only the result of a sequential partitioning step,
  `Cleanup` has the end of it.
* Unrolling in `classifier.hpp`, iterators, moves of single elements within a
  block, timers, and the contents of elements beyond their bucket or value.
* Aligned allocation and thread affinity: system calls without an effect on the
  algorithm's state. The two hazards about storage that is too small for an
  unusual configuration stay without a property.
* Memory models weaker than sequential consistency (a hazard is listed where
  the code depends on one).
* `example.cpp` and `test.cpp`, which call the library.

## 6. What is left

1. The parallel entry points over `ParallelSorter` and `SortedCheck`, with the
   choice made by `numThreadsFor`.
2. The sequential partitioning step, phase by phase, as a refinement of
   `Divide`.
3. `SortedAtEnd` for all sizes, with recursive functions in the place of the folds of
   `Classifier` and `SampleSort`.
