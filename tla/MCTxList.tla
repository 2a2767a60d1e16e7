------------------------------- MODULE MCTxList -------------------------------
(* TxList for TLC: nonces with a gap, prices, costs and gas limits that differ. *)
EXTENDS TxList

MCTx(n, price, gas, value) == [nonce |-> n, gasPrice |-> price, gasLimit |-> gas, value |-> value]

MCTxs    == {MCTx(1, 2, 1, 0), MCTx(1, 3, 1, 0), MCTx(2, 1, 1, 3), MCTx(3, 1, 2, 0), MCTx(5, 1, 1, 1)}
MCBumps  == {0, 100}
MCLimits == {1, 2, 3}

ASSUME MCPrices == NoWrap
===============================================================================
