------------------------------ MODULE MCNonceCache -----------------------------
(* NonceCache for TLC. The goroutines of one kind are interchangeable, and *)
(* states that differ only in variables that went out of scope, or in a    *)
(* queue that nobody can reach any more, are the same.                     *)
EXTENDS NonceCache, TLC

Symmetry == Permutations(PoolCallers) \cup Permutations(Executors)

Live ==
  [cache |-> cache, lock |-> lock, pc |-> pc,
   queue |-> [q \in Procs |-> IF InUse(q) THEN queue[q] ELSE <<>>],
   arg   |-> [p \in Procs |-> IF pc[p] = "idle" THEN 0 ELSE arg[p]],
   ptr   |-> [p \in Procs |-> IF pc[p] \in Held THEN ptr[p] ELSE p],
   got   |-> [p \in Procs |-> IF pc[p] = "decide" THEN got[p] ELSE 0]]
===============================================================================
