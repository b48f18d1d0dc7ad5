-------------------------- MODULE EmptyBlockMovement --------------------------
(***************************************************************************)
(* Empty block movement between the two barriers of parallelClassification:*)
(* the threads close the gaps that classification has left where a bucket  *)
(* crosses stripes, each thread in its own stripe, with blocks from the    *)
(* stripes to its right, and set the bucket pointers.  Moving a block is a *)
(* step.  There is no synchronisation between the barriers: what keeps the *)
(* threads apart is that each one counts which blocks the others take.     *)
(***************************************************************************)
EXTENDS EmptyBlockPlan

CONSTANT Inputs  (* inputs with their classification: position -> bucket   *)

(* numThreadsFor grants a thread only for several blocks of elements, so   *)
(* that all threads have a stripe.                                         *)
ASSUME MovementAssumption ==
  \A input \in Inputs :
    /\ SizeOf(input) \in Nat /\ input \in [0 .. SizeOf(input) - 1 -> Buckets]
    /\ \A id \in Threads : MyBegin(SizeOf(input), id) < MyEnd(SizeOf(input), id)

VARIABLES
  c,         (* what the stripes hold after classification; does not change *)
  content,   (* the block in each slot                                      *)
  moves,     (* the moves that each thread has yet to make                  *)
  pointers,  (* for each bucket, the pointers it has been given, a set      *)
  pc         (* "moving" or "done" for each thread                          *)

vars == << c, content, moves, pointers, pc >>

Init ==
  /\ c \in {Classified(input) : input \in Inputs}
  /\ content  = [s \in Slots(c) |-> IF s \in DOMAIN c.bucket THEN s ELSE NoBlock]
  /\ moves    = [id \in Threads |-> Moves(c, id)]
  /\ pointers = [b \in Buckets |-> {}]
  /\ pc       = [id \in Threads |-> "moving"]

(* std::move of one block                                                  *)
MoveBlock(id) ==
  /\ pc[id] = "moving" /\ moves[id] # << >>
  /\ LET m == Head(moves[id])
     IN  content' = [content EXCEPT ![m.to] = content[m.from], ![m.from] = NoBlock]
  /\ moves' = [moves EXCEPT ![id] = Tail(@)]
  /\ UNCHANGED << c, pointers, pc >>

(* bucket_pointers_[b].set for the buckets of the thread; then the barrier *)
SetPointers(id) ==
  /\ pc[id] = "moving" /\ moves[id] = << >>
  /\ LET mine == Pointers(c, id)
     IN  pointers' = [b \in Buckets |->
                        pointers[b] \cup (IF b \in DOMAIN mine THEN {<< id, mine[b] >>} ELSE {})]
  /\ pc' = [pc EXCEPT ![id] = "done"]
  /\ UNCHANGED << c, content, moves >>

Finished ==
  /\ \A id \in Threads : pc[id] = "done"
  /\ UNCHANGED vars

Next == (\E id \in Threads : MoveBlock(id) \/ SetPointers(id)) \/ Finished

Spec == Init /\ [][Next]_vars

------------------------------------------------------------------------------
TypeOK ==
  /\ content \in [Slots(c) -> DOMAIN c.bucket \cup {NoBlock}]
  /\ \A id \in Threads : \A k \in DOMAIN moves[id] :
       moves[id][k] \in [from : Slots(c), to : Slots(c)]
  /\ \A b \in Buckets : \A p \in pointers[b] :
       /\ p[1] \in Threads
       /\ p[2].write \in 0 .. SlotsUpTo(c.n)
       /\ p[2].read \in p[2].write - 1 .. MaxOf(p[2].write, c.n \div BlockSize) - 1
  /\ pc \in [Threads -> {"moving", "done"}]

(* The moves that are still to be made, with their threads.                *)
Pending == UNION {{<< id, k >> : k \in DOMAIN moves[id]} : id \in Threads}
From(m) == moves[m[1]][m[2]].from
To(m)   == moves[m[1]][m[2]].to

(* No two threads touch the same slot: nobody takes a block that another   *)
(* thread takes or fills a slot that another thread fills or takes from.   *)
(* Every move still to be made finds a block and a free slot, which is in  *)
(* the mover's own stripe.                                                 *)
DisjointMoves ==
  /\ \A l, m \in Pending : l # m => {From(l), To(l)} \cap {From(m), To(m)} = {}
  /\ \A m \in Pending :
       /\ content[From(m)] # NoBlock /\ content[To(m)] = NoBlock
       /\ c.my_begin[m[1]] <= To(m) * BlockSize /\ To(m) * BlockSize < c.my_end[m[1]]

(* The layout that the block permutation starts from, as the pointers and  *)
(* the slots describe it.                                                  *)
Result ==
  LayoutOf(c, content, [b \in Buckets |-> (CHOOSE p \in pointers[b] : TRUE)[2].read])

(* "Moves empty blocks to establish invariant: All buckets must consist of *)
(* full blocks followed by empty blocks."  The pointers of every bucket are*)
(* set, by one thread, to the begin of its area and its last full block.   *)
EstablishesLayout ==
  (\A id \in Threads : pc[id] = "done") =>
    /\ \A b \in Buckets : Cardinality(pointers[b]) = 1
    /\ \A b \in Buckets : \A p \in pointers[b] : p[2].write = Result.first[b]
    /\ IsLayout(Result)
    /\ Result = LayoutAfterMoves(c)

===============================================================================
