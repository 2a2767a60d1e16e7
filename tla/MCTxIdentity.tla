------------------------------ MODULE MCTxIdentity -----------------------------
(* TxIdentity for TLC: the node where the client submits, and another. *)
EXTENDS TxIdentity, TLC

Symmetry == Permutations(Nodes)
===============================================================================
