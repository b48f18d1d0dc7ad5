--------------------------- MODULE AbstractBarrier ---------------------------
(***************************************************************************)
(* What detail::Barrier of synchronization.hpp promises its callers.       *)
(*                                                                         *)
(* A fixed group of threads passes through the episodes 1..Episodes.  In   *)
(* an episode every thread makes the same call: single(func) if the        *)
(* episode is in Singles, barrier() otherwise.                             *)
(***************************************************************************)
EXTENDS Naturals

CONSTANTS
  Threads,   (* the threads that share the barrier        *)
  Episodes,  (* how many calls each thread makes          *)
  Singles    (* the episodes whose call is single(func)   *)

VARIABLES
  arrived,   (* arrived[t]: the last episode thread t has called    *)
  left,      (* left[t]: the last episode whose call has returned   *)
  runs       (* runs[k]: how often func was executed in episode k   *)

vars == << arrived, left, runs >>

Init ==
  /\ arrived = [t \in Threads |-> 0]
  /\ left    = [t \in Threads |-> 0]
  /\ runs    = [k \in 1..Episodes |-> 0]

Arrive(t) ==
  /\ arrived[t] = left[t]
  /\ arrived[t] < Episodes
  /\ arrived' = [arrived EXCEPT ![t] = @ + 1]
  /\ UNCHANGED << left, runs >>

(* "Single: Only the first thread executes F, other threads wait."         *)
Run(t) ==
  /\ left[t] < arrived[t]
  /\ arrived[t] \in Singles
  /\ runs[arrived[t]] = 0
  /\ runs' = [runs EXCEPT ![arrived[t]] = 1]
  /\ UNCHANGED << arrived, left >>

(* "Execution resumes only after all threads reached this point."          *)
Leave(t) ==
  /\ left[t] < arrived[t]
  /\ \A s \in Threads : arrived[t] <= arrived[s]
  /\ arrived[t] \in Singles => runs[arrived[t]] = 1
  /\ left' = [left EXCEPT ![t] = arrived[t]]
  /\ UNCHANGED << arrived, runs >>

Next == \E t \in Threads : Arrive(t) \/ Run(t) \/ Leave(t)

Spec == Init /\ [][Next]_vars

==============================================================================
