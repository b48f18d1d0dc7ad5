------------------------- MODULE MCBlockPermutation --------------------------
(* The layouts are those that classification and empty block movement make *)
(* of inputs of MCSize elements.                                           *)
EXTENDS BlockPermutation

CONSTANTS BlockSize, MCSize

Plan   == INSTANCE EmptyBlockPlan
Stripe == INSTANCE StripeInputs

LayoutsOf(inputs) ==
  {Plan!LayoutAfterMoves(c) : c \in {Plan!Classified(input) : input \in inputs}}

MCRunLayouts == LayoutsOf(Stripe!RunInputs)
MCAllLayouts == LayoutsOf(Stripe!AllInputs)

==============================================================================
