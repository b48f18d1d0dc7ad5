------------------------------ MODULE MCCleanup ------------------------------
(* The steps are those that classification makes of MCSize elements: by    *)
(* one thread; by two threads; and by three threads and one more bucket,   *)
(* when the second finds elements of one bucket only and the third only of *)
(* the last bucket.  The order of the elements in a stripe does not matter.*)
EXTENDS Cleanup

CONSTANTS MCBuckets, MCSize

One   == INSTANCE LocalClassification WITH NumThreads <- 1, NumBuckets <- MCBuckets
Two   == INSTANCE LocalClassification WITH NumThreads <- 2, NumBuckets <- MCBuckets
Three == INSTANCE LocalClassification WITH NumThreads <- 3, NumBuckets <- MCBuckets + 1

Sum(f) == FoldFunction(+, 0, f)

(* What a thread knows after a stripe with size[b] elements of bucket b.   *)
LocalOf(size, classify(_)) ==
  LET elements == FlattenSeq([b \in 1 .. Cardinality(DOMAIN size) |->
                                [j \in 1 .. size[b - 1] |-> b - 1]])
      st == classify(elements)
  IN [size   |-> size,
      blocks |-> [b \in DOMAIN size |-> Len(SelectSeq(st.flushed, LAMBDA c : c = b))],
      fill   |-> st.size]

(* The sizes of k buckets with m elements; all of them in one, or the last.*)
Sizes(k, m)   == {f \in [0 .. k - 1 -> 0 .. m] : Sum(f) = m}
Uniform(k, m) == {f \in [0 .. k - 1 -> {0, m}] : Sum(f) = m}
LastOnly(k, m) == {f \in Uniform(k, m) : f[k - 1] = m}

StepOf(local) ==
  LET T == 0 .. Len(local) - 1
      B == DOMAIN local[1].size
      size(b) == Sum([t \in T |-> local[t + 1].size[b]])
  IN [threads      |-> Len(local),
      n            |-> MCSize,
      bucket_start |-> [b \in 0 .. Cardinality(B) |-> Sum([a \in 0 .. b - 1 |-> size(a)])],
      left         |-> [t \in 0 .. Len(local) |->
                          [b \in B |-> Sum([u \in 0 .. t - 1 |-> local[u + 1].fill[b]])]],
      blocks       |-> [b \in B |-> Sum([t \in T |-> local[t + 1].blocks[b]])]]

SequentialSteps ==
  {StepOf(<< LocalOf(f, One!ClassifyAll) >>) : f \in Sizes(MCBuckets, MCSize)}

TwoThreadSteps ==
  LET m(t) == Two!MyEnd(MCSize, t) - Two!MyBegin(MCSize, t)
      local == [t \in 0 .. 1 |-> {LocalOf(f, Two!ClassifyAll) : f \in Sizes(MCBuckets, m(t))}]
  IN {StepOf(l) : l \in local[0] \X local[1]}

ThreeThreadSteps ==
  LET k == MCBuckets + 1
      m(t) == Three!MyEnd(MCSize, t) - Three!MyBegin(MCSize, t)
      local == [t \in 0 .. 2 |-> {LocalOf(f, Three!ClassifyAll) :
                                    f \in CASE t = 0 -> Sizes(k, m(t))
                                            [] t = 1 -> Uniform(k, m(t))
                                            [] t = 2 -> LastOnly(k, m(t))}]
  IN {StepOf(l) : l \in local[0] \X local[1] \X local[2]}

MCSteps == SequentialSteps \cup TwoThreadSteps \cup ThreeThreadSteps
=============================================================================
