---------------------------- MODULE MCSortedCheck -----------------------------
(* Three threads, and sizes with every remainder of the division into      *)
(* stripes.                                                                *)
EXTENDS SortedCheck

MCSizes == 12 .. 14

===============================================================================
