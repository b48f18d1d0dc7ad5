----------------------------- MODULE MCBigTasks -----------------------------
EXTENDS BigTasks
=============================================================================
