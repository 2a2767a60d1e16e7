-------------------------------- MODULE MCTxPool -------------------------------
(* TxPool for TLC: one account, two transactions with its first
   nonce and one with the next. *)
EXTENDS TxPool, TLC

CONSTANTS a1, MCAdds, MCFetches, MCBlocks, MCLosses, MCRestarts

T(n, price) == [from |-> a1, nonce |-> n, gasPrice |-> price]

MCAccounts == {a1}
MCTwoTxs   == {T(0, 1), T(0, 2)}
MCThreeTxs == MCTwoTxs \cup {T(1, 1)}

MCBudget == [add |-> MCAdds, fetch |-> MCFetches, block |-> MCBlocks,
             loss |-> MCLosses, restart |-> MCRestarts]

Symmetry == Permutations(Adders)
===============================================================================
