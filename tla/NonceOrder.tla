------------------------------- MODULE NonceOrder ------------------------------
(***************************************************************************)
(* The order of a list's nonces (app/nonce.go): the order in which         *)
(* nonceHeap pops them, and in which a TransactionSortedList has their     *)
(* transactions.                                                           *)
(***************************************************************************)
EXTENDS Integers, Sequences, FiniteSets, SequencesExt

Increasing(q) == \A i, j \in DOMAIN q : i < j => q[i] < q[j]

\* a finite set of nonces, lowest first
Ascending(nonces) ==
  CHOOSE q \in [1..Cardinality(nonces) -> nonces] : Increasing(q) /\ ToSet(q) = nonces

\* how many of the first nonces are below a threshold
Below(q, threshold) == Cardinality({i \in DOMAIN q : q[i] < threshold})
===============================================================================
