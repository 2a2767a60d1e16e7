------------------------------ MODULE MCExecution ------------------------------
(* Execution for TLC: gas costs 2 where the code has 21000, words have 3 bits. *)
EXTENDS Execution, TLC

CONSTANTS a1, c1, zero

MCAccounts  == {a1, c1, zero}
MCContracts == {c1}
MCBalance   == [a \in MCAccounts |-> IF a = a1 THEN 6 ELSE 0]

Tx(kind, nonce, value, limit, price, intrinsic) ==
  [kind |-> kind, from |-> a1, to |-> c1, nonce |-> nonce, value |-> value,
   gasLimit |-> limit, gasPrice |-> price, intrinsic |-> intrinsic]

Transfer      == Tx("base", 0, 2, 1, 0, 0)
WrappingCost  == Tx("base", 1, 4, 2, 4, 0)
CallContract  == Tx("evm", 0, 1, 3, 1, 2)
CallAhead     == Tx("evm", 1, 1, 4, 1, 2)
CallTooPoor   == Tx("evm", 0, 4, 3, 1, 2)
CallTooLittle == Tx("evm", 0, 0, 2, 1, 3)
Register      == Tx("account", 0, 0, 0, 0, 0)
Domain(admin) == [Tx("domain", 0, 0, 0, 0, 0) EXCEPT !.to = admin]
Supervisor    == Tx("permission", 0, 0, 0, 0, 0)
Certificate   == Tx("ca", 0, 0, 0, 0, 0)

EthereumCall(n, limit) == Tx("ethereum", n, 1, limit, 1, 2)

MCCalls    == {CallContract, CallAhead, CallTooPoor}
MCEthereum == {EthereumCall(0, 2), EthereumCall(0, 3), EthereumCall(1, 3)}
MCAllTxs   == {Transfer, WrappingCost, CallContract, CallAhead, CallTooPoor, CallTooLittle,
               Register, Domain(a1), Domain(c1), Supervisor, Certificate} \cup MCEthereum
===============================================================================
