-------------------------------- MODULE Execution ------------------------------
(***************************************************************************)
(* How a block changes the state: application.Prepare and Commit           *)
(* (app/app.go) with the interpreters that apply the transactions, and the *)
(* StateTransition that the two contract interpreters share.  The account  *)
(* and lost interpreters count by what they do to gas and nonces here.     *)
(*                                                                         *)
(* One actor works on a state context: the interleavings are the order of  *)
(* the transactions and the outcomes of the calls that leave the           *)
(* repository (the EVM, the permission service, signatures).               *)
(***************************************************************************)
EXTENDS Integers, Sequences, FiniteSets, Functions

CONSTANTS
  Accounts,
  Contracts,      \* the accounts a contract transaction may call
  Coinbase,       \* the account that earns the gas (the zero address in the code)
  Txs,            \* intrinsic is the gas that a contract transaction's data costs
  InitialBalance,
  TotalGas,       \* the gas limit that Prepare is called with
  TxGas,          \* 21000
  Word,           \* 2^64
  MaxTxs,         \* bound: transactions in a block
  MaxBlocks       \* bound: blocks prepared

\* an account transaction that registers a domain is of kind "domain": its to is
\* the name of the domain's administrator
Kinds == {"base", "account", "domain", "permission", "ca", "evm", "ethereum"}

ASSUME AccountsAssumption ==
  /\ IsFiniteSet(Accounts)
  /\ Contracts \subseteq Accounts
  /\ Coinbase \in Accounts
  /\ InitialBalance \in [Accounts -> Nat]

ASSUME TxsAssumption ==
  /\ IsFiniteSet(Txs)
  /\ Txs \subseteq [kind : Kinds, from : Accounts, to : Accounts, nonce : Nat, value : Nat,
                    gasLimit : 0..(Word - 1), gasPrice : Nat, intrinsic : Nat]

ASSUME GasAssumption ==
  /\ TotalGas \in Nat /\ Word \in Nat \ {0} /\ TxGas \in 1..(Word - 1)
  /\ MaxTxs \in Nat /\ MaxBlocks \in Nat

VARIABLES
  useEthereum,\* the address model that the chain's configuration chose
  phase,      \* what the context is used for: "idle", "preparing", "prepared",
              \* or "panicked" when an interpreter followed a nil state database
  committed,  \* the state of the last block
  state,      \* the state of the context
  todo,       \* the transactions still to execute
  gasPool,    \* the block's gas that no contract transaction has bought
  usedGas,
  okTxs, errTxs,
  receipts,
  blocks,     \* blocks prepared so far
  spoilt,     \* transactions that failed after they used gas (not in the code)
  erased      \* the balances and nonces that were overwritten (not in the code)

vars == <<useEthereum, phase, committed, state, todo, gasPool, usedGas, okTxs, errTxs, receipts,
          blocks, spoilt, erased>>

States == [balance : [Accounts -> Int], nonce : [Accounts -> Nat]]

Receipts == [tx : Txs, gasUsed : Int, cumulative : Int]

TypeOK ==
  /\ useEthereum \in BOOLEAN
  /\ phase \in {"idle", "preparing", "prepared", "panicked"}
  /\ committed \in States
  /\ state \in States
  /\ todo \subseteq Txs
  /\ gasPool \in 0..TotalGas
  /\ usedGas \in Nat
  /\ okTxs \subseteq Txs /\ errTxs \subseteq Txs
  /\ receipts \in Seq(Receipts)
  /\ blocks \in 0..MaxBlocks
  /\ spoilt \subseteq Txs
  /\ erased \in States

NothingErased == [balance |-> [a \in Accounts |-> 0], nonce |-> [a \in Accounts |-> 0]]

Init ==
  /\ useEthereum \in BOOLEAN
  /\ phase = "idle"
  /\ committed = [balance |-> InitialBalance, nonce |-> [a \in Accounts |-> 0]]
  /\ state = committed
  /\ todo = {}
  /\ gasPool = 0
  /\ usedGas = 0
  /\ okTxs = {} /\ errTxs = {}
  /\ receipts = <<>>
  /\ blocks = 0
  /\ spoilt = {}
  /\ erased = NothingErased

-------------------------------------------------------------------------------
(***************************************************************************)
(* State database                                                          *)
(***************************************************************************)
Paid(st, from, amount) == [st EXCEPT !.balance[from] = @ - amount]

\* mutant: nothing is credited
Unearned(st, to, amount) == st

Earned(st, to, amount) == [st EXCEPT !.balance[to] = @ + amount]

Moved(st, from, to, amount) == Earned(Paid(st, from, amount), to, amount)

\* mutant: the nonce stays
NonceKept(st, account) == st

NonceBumped(st, account) == [st EXCEPT !.nonce[account] = @ + 1]

\* CreateAccount with the empty balance and nonce that registrations must have
Created(st, account) == [balance |-> [st.balance EXCEPT ![account] = 0],
                         nonce   |-> [st.nonce EXCEPT ![account] = 0]]

\* mutant: the value is left out
GasCost(tx) == (tx.gasLimit * tx.gasPrice) % Word

\* Transaction.Cost: the product of limit and price wraps around
Cost(tx) == tx.value + ((tx.gasLimit * tx.gasPrice) % Word)

Contract(tx) == tx.kind \in {"evm", "ethereum"}

-------------------------------------------------------------------------------
(***************************************************************************)
(* Prepare.  That the Ethereum interpreter and the others exclude each     *)
(* other is checked by ValidateTx only (checkInterpreters): a block may    *)
(* have transactions of both.                                              *)
(***************************************************************************)
Prepare ==
  /\ phase = "idle"
  /\ blocks < MaxBlocks
  /\ \E batch \in SUBSET Txs : Cardinality(batch) <= MaxTxs /\ todo' = batch
  /\ phase' = "preparing"
  /\ blocks' = blocks + 1
  /\ state' = committed
  /\ gasPool' = TotalGas
  /\ usedGas' = 0
  /\ okTxs' = {} /\ errTxs' = {}
  /\ receipts' = <<>>
  /\ spoilt' = {}
  /\ erased' = NothingErased
  /\ UNCHANGED <<useEthereum, committed>>

\* mutant: the gas used is not looked at
OfferedAlways(tx) ==
  /\ phase = "preparing"
  /\ tx \in todo

\* the loop goes on only while the gas used is within the limit
Offered(tx) ==
  /\ phase = "preparing"
  /\ tx \in todo
  /\ usedGas <= TotalGas

Taken(tx) ==
  /\ todo' = todo \ {tx}
  /\ UNCHANGED <<useEthereum, phase, committed, blocks>>

\* the context has the state database that the interpreter uses; one uses none
Served(tx) == tx.kind = "ca" \/ (tx.kind = "ethereum") = useEthereum

(***************************************************************************)
(* VerifyTx.  The interpreters refuse for reasons that are not modelled    *)
(* (signature, frozen account, permission, a domain that exists); these    *)
(* two also for the balance.                                               *)
(***************************************************************************)
Verified(tx) ==
  /\ Served(tx)
  /\ tx.kind \in {"base", "ethereum"} => state.balance[tx.from] >= Cost(tx)

\* these ask for the signer before they look at the state
SignerFirst(tx) == tx.kind \in {"base", "evm", "ethereum"}

Refuse(tx) ==
  /\ Offered(tx) /\ Taken(tx)
  /\ tx.kind # "ca"
  /\ Served(tx) \/ SignerFirst(tx)
  /\ errTxs' = errTxs \cup {tx}
  /\ UNCHANGED <<state, gasPool, usedGas, okTxs, receipts, spoilt, erased>>

\* the state database of the other address model is nil
Panic(tx) ==
  /\ Offered(tx)
  /\ ~ Served(tx)
  /\ phase' = "panicked"
  /\ UNCHANGED <<useEthereum, committed, state, todo, gasPool, usedGas, okTxs, errTxs, receipts,
                 blocks, spoilt, erased>>

\* the error is logged, RevertToSnapshot is never reached
Fail == UNCHANGED <<okTxs, errTxs, receipts>>

Succeed(tx, gas, cumulative) ==
  /\ okTxs' = okTxs \cup {tx}
  /\ receipts' = Append(receipts, [tx |-> tx, gasUsed |-> gas, cumulative |-> cumulative])
  /\ UNCHANGED <<errTxs, spoilt>>

(***************************************************************************)
(* The base interpreter counts the gas before writeState looks at the      *)
(* nonce.                                                                  *)
(***************************************************************************)
BaseApply(tx) ==
  /\ tx.kind = "base"
  /\ Offered(tx) /\ Taken(tx) /\ Verified(tx)
  /\ usedGas' = usedGas + TxGas
  /\ \/ /\ state.nonce[tx.from] # tx.nonce
        /\ spoilt' = spoilt \cup {tx}
        /\ Fail
        /\ UNCHANGED state
     \/ /\ state.nonce[tx.from] = tx.nonce
        /\ state' = NonceBumped(Moved(state, tx.from, tx.to, tx.value), tx.from)
        /\ Succeed(tx, TxGas, usedGas')
  /\ UNCHANGED <<gasPool, erased>>

\* mutant: the gas does not reach the block
AccountApplyUncounted(tx) ==
  /\ tx.kind = "account"
  /\ Offered(tx) /\ Taken(tx) /\ Verified(tx)
  /\ state' = NonceBumped(state, tx.from)
  /\ Succeed(tx, TxGas, usedGas)
  /\ UNCHANGED <<usedGas, gasPool, erased>>

\* the account and lost interpreters do not look at the nonce
AccountApply(tx) ==
  /\ tx.kind = "account"
  /\ Offered(tx) /\ Taken(tx) /\ Verified(tx)
  /\ usedGas' = usedGas + TxGas
  /\ state' = NonceBumped(state, tx.from)
  /\ Succeed(tx, TxGas, usedGas')
  /\ UNCHANGED <<gasPool, erased>>

(***************************************************************************)
(* RegisterDomain creates the administrator's account whether or not there *)
(* is one of that name: what it owned is gone and its nonce starts again.  *)
(***************************************************************************)
DomainApply(tx) ==
  /\ tx.kind = "domain"
  /\ Offered(tx) /\ Taken(tx) /\ Verified(tx)
  /\ usedGas' = usedGas + TxGas
  /\ state' = NonceBumped(Created(state, tx.to), tx.from)
  /\ erased' = [balance |-> [erased.balance EXCEPT ![tx.to] = @ + state.balance[tx.to]],
                nonce   |-> [erased.nonce EXCEPT ![tx.to] = @ + state.nonce[tx.to]]]
  /\ Succeed(tx, TxGas, usedGas')
  /\ UNCHANGED gasPool

(***************************************************************************)
(* The permission interpreter assigns its gas to a pointer of its own: the *)
(* block's gas and the receipt's cumulative gas stay as they are.  The     *)
(* permission service may fail.                                            *)
(***************************************************************************)
PermissionApply(tx) ==
  /\ tx.kind = "permission"
  /\ Offered(tx) /\ Taken(tx) /\ Verified(tx)
  /\ \/ Fail /\ UNCHANGED <<state, spoilt>>
     \/ /\ state' = NonceBumped(state, tx.from)
        /\ Succeed(tx, TxGas, 0)
  /\ UNCHANGED <<usedGas, gasPool, erased>>

\* the CA interpreter does nothing and gives no receipt
CaApply(tx) ==
  /\ tx.kind = "ca"
  /\ Offered(tx) /\ Taken(tx)
  /\ okTxs' = okTxs \cup {tx}
  /\ UNCHANGED <<state, gasPool, usedGas, errTxs, receipts, spoilt, erased>>

(***************************************************************************)
(* preCheck and buyGas: the contract interpreter lets a nonce that is too  *)
(* high pass.                                                              *)
(***************************************************************************)
NonceChecked(tx) ==
  IF tx.kind = "evm" THEN state.nonce[tx.from] <= tx.nonce
                     ELSE state.nonce[tx.from] = tx.nonce

Affordable(tx) == state.balance[tx.from] >= tx.gasLimit * tx.gasPrice

Bought(tx) == Paid(state, tx.from, tx.gasLimit * tx.gasPrice)

Executable(tx) ==
  /\ tx.kind = "evm" => tx.to \in Contracts
  /\ NonceChecked(tx) /\ Affordable(tx)

ContractReject(tx) ==
  /\ Contract(tx)
  /\ Offered(tx) /\ Taken(tx) /\ Verified(tx)
  /\ ~ Executable(tx)
  /\ Fail
  /\ UNCHANGED <<state, gasPool, usedGas, spoilt, erased>>

\* ErrGasLimitReached leaves the loop
ContractBlockFull(tx) ==
  /\ Contract(tx)
  /\ Offered(tx) /\ Verified(tx) /\ Executable(tx)
  /\ gasPool < tx.gasLimit
  /\ phase' = "prepared"
  /\ todo' = {}
  /\ UNCHANGED <<useEthereum, committed, blocks, state, gasPool, usedGas, okTxs, errTxs,
                 receipts, spoilt, erased>>

\* mutant: the block's gas is not looked at
BuysGasUnchecked(tx) ==
  /\ Contract(tx)
  /\ Offered(tx) /\ Taken(tx) /\ Verified(tx) /\ Executable(tx)

BuysGas(tx) ==
  /\ Contract(tx)
  /\ Offered(tx) /\ Taken(tx) /\ Verified(tx) /\ Executable(tx)
  /\ gasPool >= tx.gasLimit

\* refundGas, and the coinbase's share: left is what the call returned and the refund
Settled(tx, called, left) ==
  Earned(Earned(called, tx.from, left * tx.gasPrice),
         Coinbase, (tx.gasLimit - left) * tx.gasPrice)

(***************************************************************************)
(* The two errors after buyGas: the gas limit is below the intrinsic gas,  *)
(* or the sender cannot pay the value.  Nothing is given back.             *)
(***************************************************************************)
ContractSpoil(tx) ==
  /\ BuysGas(tx)
  /\ \/ /\ tx.gasLimit < tx.intrinsic
        /\ state' = Bought(tx)
     \/ /\ tx.gasLimit >= tx.intrinsic
        /\ Bought(tx).balance[tx.from] < tx.value
        /\ state' = NonceBumped(Bought(tx), tx.from)
  /\ gasPool' = gasPool - tx.gasLimit
  /\ spoilt' = spoilt \cup {tx}
  /\ Fail
  /\ UNCHANGED <<usedGas, erased>>

\* mutant: what is left of the gas does not go back to the block
ContractApplyKeepsGas(tx) ==
  /\ BuysGas(tx)
  /\ tx.gasLimit >= tx.intrinsic
  /\ Bought(tx).balance[tx.from] >= tx.value
  /\ \E left \in 0..(tx.gasLimit - tx.intrinsic) :
       LET gas    == tx.gasLimit - left
           called == NonceBumped(Moved(Bought(tx), tx.from, tx.to, tx.value), tx.from)
       IN  /\ state' = Settled(tx, called, left)
           /\ gasPool' = gasPool - tx.gasLimit
           /\ usedGas' = usedGas + gas
           /\ Succeed(tx, gas, usedGas')
           /\ UNCHANGED erased

(***************************************************************************)
(* The call returns what is left of the gas, and succeeds or is undone.    *)
(* At most half of the gas used is refunded.                               *)
(***************************************************************************)
ContractApply(tx) ==
  /\ BuysGas(tx)
  /\ tx.gasLimit >= tx.intrinsic
  /\ Bought(tx).balance[tx.from] >= tx.value
  /\ \E returned \in 0..(tx.gasLimit - tx.intrinsic), failed \in BOOLEAN :
     \E refund \in 0..((tx.gasLimit - returned) \div 2) :
       LET left   == returned + refund
           gas    == tx.gasLimit - left
           called == NonceBumped(IF failed THEN Bought(tx)
                                 ELSE Moved(Bought(tx), tx.from, tx.to, tx.value), tx.from)
       IN  /\ state' = Settled(tx, called, left)
           /\ gasPool' = gasPool - tx.gasLimit + left
           /\ usedGas' = usedGas + gas
           /\ Succeed(tx, gas, usedGas')
           /\ UNCHANGED erased

PrepareTx(tx) ==
  \/ Refuse(tx) \/ Panic(tx)
  \/ BaseApply(tx) \/ AccountApply(tx) \/ DomainApply(tx) \/ PermissionApply(tx) \/ CaApply(tx)
  \/ ContractReject(tx) \/ ContractBlockFull(tx) \/ ContractSpoil(tx) \/ ContractApply(tx)

PrepareEnd ==
  /\ phase = "preparing"
  /\ todo = {} \/ usedGas > TotalGas
  /\ phase' = "prepared"
  /\ todo' = {}
  /\ UNCHANGED <<useEthereum, committed, blocks, state, gasPool, usedGas, okTxs, errTxs,
                 receipts, spoilt, erased>>

(***************************************************************************)
(* Commit, which computes every receipt's GasUsed but the first's from the *)
(* cumulative gas, in uint64.  The receipts stay to be looked at.          *)
(***************************************************************************)
\* mutant: the first receipt's cumulative gas is left out
NoCumulative(i) == IF i = 1 THEN 0 ELSE receipts[i].cumulative

FirstCumulative(i) == IF i = 1 THEN receipts[1].gasUsed ELSE receipts[i].cumulative

Commit ==
  /\ phase = "prepared"
  /\ phase' = "idle"
  /\ committed' = state
  /\ receipts' = [i \in DOMAIN receipts |->
       [receipts[i] EXCEPT
          !.cumulative = FirstCumulative(i),
          !.gasUsed = IF i = 1 THEN @
                      ELSE (FirstCumulative(i) - FirstCumulative(i - 1)) % Word]]
  /\ UNCHANGED <<useEthereum, state, todo, gasPool, usedGas, okTxs, errTxs, blocks, spoilt,
                 erased>>

\* the block is not agreed on, the context is dropped
Abandon ==
  /\ phase = "prepared"
  /\ phase' = "idle"
  /\ state' = committed
  /\ okTxs' = {} /\ errTxs' = {}
  /\ receipts' = <<>>
  /\ spoilt' = {}
  /\ erased' = NothingErased
  /\ UNCHANGED <<useEthereum, committed, todo, gasPool, usedGas, blocks>>

Next ==
  \/ Prepare
  \/ \E tx \in Txs : PrepareTx(tx)
  \/ PrepareEnd \/ Commit \/ Abandon

Spec == Init /\ [][Next]_vars

-------------------------------------------------------------------------------
(***************************************************************************)
(* Properties                                                              *)
(***************************************************************************)
Total(st) == SumFunctionOnSet(st.balance, Accounts)

Open == phase # "idle"

SpoiltCalls == {tx \in spoilt : Contract(tx)}

SpoiltTransfers == spoilt \ SpoiltCalls

(***************************************************************************)
(* No account spends what it has not got: VerifyTx (baseInterpreter.go:57, *)
(* with a cost that wraps), buyGas and the EVM's own check keep every      *)
(* balance at or above zero through the whole block, although the state    *)
(* database would go below.                                                *)
(***************************************************************************)
BalancesCovered == \A a \in Accounts : state.balance[a] >= 0

(***************************************************************************)
(* A block moves value between the accounts and neither makes nor destroys *)
(* any (state_transition.go:132-245, baseInterpreter.go:88-104), but for   *)
(* what the transactions that failed after buyGas paid, and what accounts  *)
(* owned that the registration of a domain overwrote (register.go:140-162).*)
(***************************************************************************)
GasPaid == [tx \in Txs |-> tx.gasLimit * tx.gasPrice]

ValueConserved ==
  Open => Total(state) + Total(erased) + SumFunctionOnSet(GasPaid, SpoiltCalls)
            = Total(committed)

(***************************************************************************)
(* The block's gas pool is neither overdrawn nor refilled beyond what was  *)
(* taken (state_transition.go:143, 241): it lacks what the contract        *)
(* transactions used, and the limits of those that failed after buyGas.    *)
(***************************************************************************)
ContractReceipts == {i \in DOMAIN receipts : Contract(receipts[i].tx)}

GasUsed == [i \in DOMAIN receipts |-> receipts[i].gasUsed]

GasLimits == [tx \in Txs |-> tx.gasLimit]

GasAccounted ==
  Open => gasPool + SumFunctionOnSet(GasUsed, ContractReceipts)
                  + SumFunctionOnSet(GasLimits, SpoiltCalls) = TotalGas

(***************************************************************************)
(* The block overshoots its gas limit by at most one transaction: Prepare  *)
(* stops when the gas used is above the limit (app.go:251), and contract   *)
(* transactions share the pool.                                            *)
(***************************************************************************)
UsedGasBound ==
  \/ usedGas <= TotalGas + TxGas
  \/ \E tx \in Txs : usedGas <= TotalGas + tx.gasLimit

(***************************************************************************)
(* A nonce counts the transactions that were executed: an account's nonce  *)
(* grew in this block by its transactions with a receipt and by those that *)
(* failed inside the call (state_transition.go:207), less what it was when *)
(* the registration of a domain overwrote the account (register.go:153).   *)
(***************************************************************************)
SpoiltInCall == {tx \in SpoiltCalls : tx.gasLimit >= tx.intrinsic}

NoncesCounted ==
  Open => \A a \in Accounts :
    state.nonce[a] + erased.nonce[a] = committed.nonce[a]
      + Cardinality({i \in DOMAIN receipts : receipts[i].tx.from = a})
      + Cardinality({tx \in SpoiltInCall : tx.from = a})

(***************************************************************************)
(* state_transition.go:107-109: an error means "that the message would     *)
(* always fail for that particular state and would never be accepted       *)
(* within a block".  A transaction that fails leaves the state alone.      *)
(***************************************************************************)
FailureLeavesState ==
  [][\A tx \in Txs : PrepareTx(tx) /\ okTxs' = okTxs => state' = state]_vars

(***************************************************************************)
(* The gas that Prepare reports (app.go:243) is what the receipts say,     *)
(* but for the permission transactions, whose gas does not reach it        *)
(* (permissionInterpreter/interpreter.go:227), and the transfers with a    *)
(* wrong nonce, whose gas does (baseInterpreter.go:70).                    *)
(***************************************************************************)
Uncounted == {i \in DOMAIN receipts : receipts[i].tx.kind = "permission"}

UsedGasExplained ==
  Open => usedGas = TxGas * Cardinality(SpoiltTransfers)
            + SumFunctionOnSet(GasUsed, DOMAIN receipts \ Uncounted)

(***************************************************************************)
(* Commit computes every receipt's gas again from the cumulative gas       *)
(* (app.go:320-328).  Each comes out as the interpreter wrote it, in a     *)
(* block in which no gas is uncounted or counted without a receipt.        *)
(***************************************************************************)
ReceiptGasKept ==
  [][phase = "prepared" /\ Uncounted = {} /\ SpoiltTransfers = {} /\ receipts' # <<>> =>
       \A i \in DOMAIN receipts : receipts'[i].gasUsed = receipts[i].gasUsed]_vars
===============================================================================
