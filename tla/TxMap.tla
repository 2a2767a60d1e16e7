--------------------------------- MODULE TxMap ---------------------------------
(***************************************************************************)
(* What a txList (app/nonce.go) is for: the transactions of one account,   *)
(* at most one for each nonce, and the answers that its calls give.  No    *)
(* heap, no cache of the sorted list, no bounds kept to save work, and     *)
(* arithmetic that does not wrap.                                          *)
(***************************************************************************)
EXTENDS NonceOrder

CONSTANTS
  Txs,       \* records with nonce, gasPrice, gasLimit and value
  Bumps,     \* price bumps in percent
  Limits     \* the limits that Filter is called with

VARIABLES
  strict,    \* newTxList's argument
  txs,       \* the transaction of each nonce
  out        \* what the last call returned

Init == strict \in BOOLEAN /\ txs = <<>> /\ out = <<TRUE, <<>>, {}, {}>>

\* an answer is a flag, a list, and the sets of removed and of invalid transactions
Listed(list) == out' = <<TRUE, list, {}, {}>>

Dropped(ok, removed, invalid) == out' = <<ok, <<>>, removed, invalid>>

Nonces == DOMAIN txs

ByNonce(nonces) == [i \in DOMAIN Ascending(nonces) |-> txs[Ascending(nonces)[i]]]

Without(gone) == [n \in Nonces \ gone |-> txs[n]]

Above(n) == {m \in Nonces : m > n}

Improves(old, tx, bump) ==
  /\ tx.gasPrice > old.gasPrice
  /\ tx.gasPrice >= (old.gasPrice * (100 + bump)) \div 100

Add(tx, bump) ==
  LET replaced == Nonces \cap {tx.nonce}
  IN  IF \A n \in replaced : Improves(txs[n], tx, bump)
      THEN /\ Dropped(TRUE, {txs[n] : n \in replaced}, {})
           /\ txs' = [n \in Nonces \cup {tx.nonce} |-> IF n = tx.nonce THEN tx ELSE txs[n]]
      ELSE Dropped(FALSE, {}, {}) /\ UNCHANGED txs

\* takes the transactions of the nonces away, lowest first
Take(nonces) == Listed(ByNonce(nonces)) /\ txs' = Without(nonces)

Forward(threshold) == Take({n \in Nonces : n < threshold})

Highest(k) == {n \in Nonces : Cardinality(Above(n)) < k}

Cap(k) ==
  LET dropped == Highest(Cardinality(Nonces) - k)
  IN  Listed(Reverse(ByNonce(dropped))) /\ txs' = Without(dropped)

Run(n) == {m \in Nonces : m >= n /\ n..m \subseteq Nonces}

Ready(start) ==
  IF \E n \in Nonces : n <= start
  THEN Take(Run(Ascending(Nonces)[1]))
  ELSE Take({})

Flatten == Listed(ByNonce(Nonces)) /\ UNCHANGED txs

\* in a strict list what follows a removed transaction goes with it
Followers(gone) ==
  IF strict THEN {m \in Nonces \ gone : \E n \in gone : m > n} ELSE {}

RemoveTx(n) ==
  LET gone == {n} \cap Nonces
  IN  /\ Dropped(gone # {}, {}, {txs[m] : m \in Followers(gone)})
      /\ txs' = Without(gone \cup Followers(gone))

Over(tx, costLimit, gasLimit) ==
  tx.value + tx.gasLimit * tx.gasPrice > costLimit \/ tx.gasLimit > gasLimit

Filter(costLimit, gasLimit) ==
  LET gone == {n \in Nonces : Over(txs[n], costLimit, gasLimit)}
  IN  /\ Dropped(TRUE, {txs[n] : n \in gone}, {txs[n] : n \in Followers(gone)})
      /\ txs' = Without(gone \cup Followers(gone))

Numbers == {tx.nonce : tx \in Txs}

Next ==
  /\ UNCHANGED strict
  /\ \/ \E tx \in Txs, bump \in Bumps : Add(tx, bump)
     \/ \E n \in Numbers : Forward(n) \/ Ready(n) \/ RemoveTx(n)
     \/ \E k \in 0..Cardinality(Nonces) : Cap(k)
     \/ \E cost, gas \in Limits : Filter(cost, gas)
     \/ Flatten

Spec == Init /\ [][Next]_<<strict, txs, out>>
===============================================================================
