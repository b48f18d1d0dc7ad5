------------------------- MODULE MCEmptyBlockMovement -------------------------
EXTENDS EmptyBlockMovement, StripeInputs

===============================================================================
