-------------------------- MODULE SortedCheckProofs ---------------------------
(***************************************************************************)
(* An unsorted input is never taken for sorted, for every number of threads*)
(* and every size.  A bit that is set, in the vector or in a word that a   *)
(* thread has read, belongs to a thread that found its stripe sorted; lost *)
(* bits do not change that.  And each descent is in the stripe of a thread.*)
(***************************************************************************)
EXTENDS SortedCheck, TLAPS

TypeOK ==
  /\ size \in Nat /\ size > 0
  /\ descents \subseteq 1 .. size - 1
  /\ is_sorted \subseteq Threads
  /\ word \in [Threads -> SUBSET Threads]
  /\ pc \in [Threads -> {"test", "store", "done"}]

BitsAreRight ==
  /\ \A t \in is_sorted : StripeIsSorted(t)
  /\ \A s \in Threads : \A t \in word[s] : StripeIsSorted(t)

Inv == TypeOK /\ BitsAreRight

------------------------------------------------------------------------------
(* S = (n + T - 1) div T elements for each of T threads cover n elements.  *)
LEMMA StripesCover ==
  ASSUME NEW n \in Nat, NEW T \in Nat \ {0}, NEW S \in Nat, S = (n + T - 1) \div T
  PROVE  n <= S * T
<1>1. n + T - 1 = T * S + ((n + T - 1) % T) /\ (n + T - 1) % T \in 0 .. T - 1
  BY SMT
<1>. QED  BY <1>1, SMT

(* The stripe that a position is in.                                       *)
LEMMA StripeOf ==
  ASSUME NEW S \in Nat \ {0}, NEW p \in Nat
  PROVE  \E t \in Nat : S * t <= p /\ p < S * (t + 1)
<1>. DEFINE t == p \div S
<1>1. p = S * t + (p % S) /\ p % S \in 0 .. S - 1 /\ t \in Nat
  BY SMT
<1>2. S * t <= p /\ p < S * (t + 1)
  BY <1>1, SMT
<1>. QED  BY <1>1, <1>2

(* Each descent is seen by some thread.                                    *)
LEMMA DescentIsTested ==
  ASSUME TypeOK, NEW i \in descents
  PROVE  \E t \in Threads : i \in Tested(t) /\ i - 1 \in Tested(t)
<1>. DEFINE S == StripeSize
<1>1. /\ NumThreads \in Nat \ {0} /\ size \in Nat /\ size > 0
      /\ i \in 1 .. size - 1
  BY SortedCheckAssumption DEF TypeOK
<1>2. S \in Nat /\ size <= S * NumThreads
  <2>1. S \in Nat
    BY <1>1, SMT DEF StripeSize
  <2>2. size <= S * NumThreads
    BY <1>1, <2>1, StripesCover DEF StripeSize
  <2>. QED  BY <2>1, <2>2
<1>3. S # 0
  BY <1>1, <1>2, SMT
<1>. HIDE DEF S
<1>4. PICK t \in Nat : S * t <= i - 1 /\ i - 1 < S * (t + 1)
  <2>1. i - 1 \in Nat
    BY <1>1
  <2>. QED  BY <1>2, <1>3, <2>1, StripeOf
<1>5. t < NumThreads
  <2>. SUFFICES ASSUME NumThreads <= t PROVE FALSE
    BY <1>1
  <2>1. S * NumThreads <= S * t
    BY <1>1, <1>2, SMT
  <2>. QED  BY <1>1, <1>2, <1>4, <2>1, SMT
<1>6. i \in Tested(t) /\ i - 1 \in Tested(t)
  <2>1. S * t \in Nat /\ S * (t + 1) \in Nat
    BY <1>2, SMT
  <2>2. Tested(t) = MinOf(S * t, size) .. MinOf(S * (t + 1) + 1, size) - 1
    BY DEF Tested, S
  <2>. QED  BY <1>1, <1>4, <2>1, <2>2, SMT DEF MinOf
<1>. QED  BY <1>1, <1>5, <1>6 DEF Threads

LEMMA InvImplies ==
  Inv => NeverSkipsUnsorted
<1>. SUFFICES ASSUME Inv, Result, NEW i \in descents PROVE FALSE
  BY DEF NeverSkipsUnsorted, Inv, TypeOK
<1>1. PICK t \in Threads : i \in Tested(t) /\ i - 1 \in Tested(t)
  BY DescentIsTested DEF Inv
<1>2. StripeIsSorted(t)
  BY DEF Inv, BitsAreRight, Result
<1>. QED  BY <1>1, <1>2 DEF StripeIsSorted

LEMMA InvInductive ==
  Inv /\ [Next]_vars => Inv'
<1>. SUFFICES ASSUME Inv, [Next]_vars PROVE Inv'
  OBVIOUS
<1>. USE DEF Inv, TypeOK, BitsAreRight
<1>0. \A t : size' = size /\ descents' = descents => (StripeIsSorted(t)' <=> StripeIsSorted(t))
  BY DEF StripeIsSorted, Tested, StripeSize
<1>1. ASSUME NEW t \in Threads, ReadWord(t) PROVE Inv'
  BY <1>0, <1>1 DEF ReadWord
<1>2. ASSUME NEW t \in Threads, WriteWord(t) PROVE Inv'
  <2>1. TypeOK'
    BY <1>2 DEF WriteWord
  <2>2. \A s \in is_sorted' : StripeIsSorted(s)
    BY <1>2 DEF WriteWord
  <2>3. \A s \in is_sorted' : StripeIsSorted(s)'
    BY <1>0, <1>2, <2>2 DEF WriteWord
  <2>4. \A r \in Threads : \A s \in word'[r] : StripeIsSorted(s)'
    BY <1>0, <1>2 DEF WriteWord
  <2>. QED  BY <2>1, <2>3, <2>4
<1>3. CASE UNCHANGED vars
  BY <1>0, <1>3 DEF vars
<1>. QED  BY <1>1, <1>2, <1>3 DEF Next, Finished

(* An input that is not sorted is never taken for sorted, whatever bits    *)
(* the threads overwrite.                                                  *)
THEOREM NeverWrong ==
  Spec => []NeverSkipsUnsorted
<1>1. Init => Inv
  BY SortedCheckAssumption DEF Init, Inv, TypeOK, BitsAreRight
<1>. QED  BY <1>1, InvInductive, InvImplies, PTL DEF Spec

===============================================================================
