----------------------------- MODULE StripeInputs -----------------------------
(* Inputs for model checking the phases after classification: within the   *)
(* stripe of a thread, all elements of a bucket come one after the other,  *)
(* the buckets in ascending or in descending order.                        *)
EXTENDS LocalClassification

CONSTANT MCSize  (* the number of elements *)

Longest == MyEnd(MCSize, 0)
Cuts    == {k \in [1 .. NumBuckets - 1 -> 0 .. Longest] :
              \A i \in 2 .. NumBuckets - 1 : k[i - 1] <= k[i]}

StripeOf(i) == CHOOSE t \in Threads : MyBegin(MCSize, t) <= i /\ i < MyEnd(MCSize, t)

InputOf(cuts, descending) ==
  LET stripe  == [i \in 0 .. MCSize - 1 |-> StripeOf(i)]
      begin   == [t \in Threads |-> MyBegin(MCSize, t)]
      rank(i) == Cardinality({k \in DOMAIN cuts[stripe[i]] :
                                cuts[stripe[i]][k] <= i - begin[stripe[i]]})
  IN  [i \in 0 .. MCSize - 1 |->
         IF stripe[i] \in descending THEN NumBuckets - 1 - rank(i) ELSE rank(i)]

RunInputs ==
  {InputOf(cuts, descending) : cuts \in [Threads -> Cuts], descending \in SUBSET Threads}

(* Or every input. *)
AllInputs == [0 .. MCSize - 1 -> Buckets]

===============================================================================
