------------------------------ MODULE MCBarrier ------------------------------
(* Three threads and the calls single, barrier, barrier, single: each kind *)
(* of call follows the other and its own kind is reached again with the    *)
(* flag in a value it has had before.                                      *)
EXTENDS Barrier

MCThreads == 1..3
MCEpisodes == 4
MCSingles == {1, 4}

==============================================================================
