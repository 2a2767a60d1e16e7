--------------------------------- MODULE TxList --------------------------------
(***************************************************************************)
(* txList and its txSortedMap (app/nonce.go): the transactions of one      *)
(* account by nonce, with a heap of the nonces, a cache of the sorted list *)
(* that some calls keep and others drop, and bounds on cost and gas that   *)
(* save Filter a pass.  The calls of one list are sequential.              *)
(*                                                                         *)
(* container/heap is taken for what it does: the heap is the sequence of   *)
(* nonces in the order in which they would be popped.                      *)
(***************************************************************************)
EXTENDS NonceOrder

CONSTANTS
  Txs,       \* records with nonce, gasPrice, gasLimit and value
  Bumps,     \* price bumps in percent
  Limits,    \* the limits that Filter is called with
  Word,      \* 2^64
  NoCache

ASSUME TxsAssumption ==
  /\ Word \in Nat \ {0}
  /\ Txs \subseteq [nonce : 0..(Word - 1), gasPrice : 0..(Word - 1), gasLimit : 0..(Word - 1),
                   value : Nat]
  /\ Bumps \subseteq Nat /\ Limits \subseteq Nat

VARIABLES
  strict,    \* newTxList's argument
  items,     \* nonce --> tx
  index,     \* the heap
  cache,     \* the sorted transactions, or NoCache
  costCap, gasCap,
  out        \* what the last call returned

vars == <<strict, items, index, cache, costCap, gasCap, out>>
mapVars == <<items, index, cache>>

Numbers == {tx.nonce : tx \in Txs}

TypeOK ==
  /\ strict \in BOOLEAN
  /\ DOMAIN items \subseteq Numbers
  /\ \A n \in DOMAIN items : items[n] \in Txs /\ items[n].nonce = n
  /\ index \in Seq(Numbers) /\ IsInjective(index)
  /\ cache = NoCache \/ cache \in Seq(Txs)
  /\ costCap \in Nat /\ gasCap \in Nat

Init ==
  /\ strict \in BOOLEAN
  /\ items = <<>>
  /\ index = <<>>
  /\ cache = NoCache
  /\ costCap = 0 /\ gasCap = 0
  /\ out = <<TRUE, <<>>, {}, {}>>

\* an answer is a flag, a list, and the sets of removed and of invalid transactions
Listed(list) == out' = <<TRUE, list, {}, {}>>

Dropped(ok, removed, invalid) == out' = <<ok, <<>>, removed, invalid>>

-------------------------------------------------------------------------------
(***************************************************************************)
(* txSortedMap                                                             *)
(***************************************************************************)
HeapPush(heap, n) ==
  LET k == Below(heap, n)
  IN  SubSeq(heap, 1, k) \o <<n>> \o SubSeq(heap, k + 1, Len(heap))

Delete(nonces) == items' = [n \in DOMAIN items \ nonces |-> items[n]]

TxSet(nonces) == {items[n] : n \in nonces}

TxsAt(nonces) == [i \in DOMAIN nonces |-> items[nonces[i]]]

\* mutant: the heap gets the nonce whether or not it has it
PutAlwaysPushes(tx) ==
  /\ items' = [n \in DOMAIN items \cup {tx.nonce} |-> IF n = tx.nonce THEN tx ELSE items[n]]
  /\ index' = HeapPush(index, tx.nonce)
  /\ cache' = NoCache

Put(tx) ==
  /\ items' = [n \in DOMAIN items \cup {tx.nonce} |-> IF n = tx.nonce THEN tx ELSE items[n]]
  /\ index' = IF tx.nonce \in DOMAIN items THEN index ELSE HeapPush(index, tx.nonce)
  /\ cache' = NoCache

\* pops the first k nonces of the heap
Popped(k) ==
  /\ Delete(ToSet(SubSeq(index, 1, k)))
  /\ index' = SubSeq(index, k + 1, Len(index))
  /\ Listed(TxsAt(SubSeq(index, 1, k)))

\* mutant: the cache keeps what was popped
ForwardKeepsCache(threshold) ==
  /\ Popped(Below(index, threshold))
  /\ UNCHANGED <<cache, costCap, gasCap>>

Forward(threshold) ==
  LET k == Below(index, threshold)
  IN  /\ Popped(k)
      /\ cache' = IF cache = NoCache THEN NoCache ELSE SubSeq(cache, k + 1, Len(cache))
      /\ UNCHANGED <<costCap, gasCap>>

\* what the map and the heap are when the nonces are filtered out
FilterOut(gone) ==
  /\ Delete(gone)
  /\ index' = IF gone = {} THEN index ELSE Ascending(DOMAIN items \ gone)
  /\ cache' = IF gone = {} THEN cache ELSE NoCache

Cap(threshold) ==
  LET surplus == Cardinality(DOMAIN items) - threshold
  IN  /\ IF surplus <= 0
         THEN UNCHANGED mapVars /\ Listed(<<>>)
         ELSE LET dropped == SubSeq(index, threshold + 1, Len(index))
              IN  /\ Delete(ToSet(dropped))
                  /\ Listed(Reverse(TxsAt(dropped)))
                  /\ index' = SubSeq(index, 1, threshold)
                  /\ cache' = IF cache = NoCache THEN NoCache
                              ELSE SubSeq(cache, 1, Len(cache) - surplus)
      /\ UNCHANGED <<costCap, gasCap>>

(***************************************************************************)
(* Ready pops the run of consecutive nonces at the top of the heap, if the *)
(* top is not above start.                                                 *)
(***************************************************************************)
InRun(k) == \A i \in 1..k : index[i] = (index[1] + i - 1) % Word

Ready(start) ==
  /\ IF index = <<>> \/ Head(index) > start
     THEN UNCHANGED mapVars /\ Listed(<<>>)
     ELSE /\ \E k \in 1..Len(index) :
               /\ InRun(k)
               /\ k < Len(index) => ~ InRun(k + 1)
               /\ Popped(k)
          /\ cache' = NoCache
  /\ UNCHANGED <<costCap, gasCap>>

Flatten ==
  /\ cache' = IF cache = NoCache THEN TxsAt(Ascending(DOMAIN items)) ELSE cache
  /\ Listed(cache')
  /\ UNCHANGED <<items, index, costCap, gasCap>>

-------------------------------------------------------------------------------
(***************************************************************************)
(* txList                                                                  *)
(***************************************************************************)
Larger(a, b) == IF a < b THEN b ELSE a

Cost(tx) == tx.value + ((tx.gasLimit * tx.gasPrice) % Word)

Threshold(old, bump) == ((old.gasPrice * (100 + bump)) % Word) \div 100

Rejected(tx, bump) ==
  /\ tx.nonce \in DOMAIN items
  /\ LET old == items[tx.nonce]
     IN  old.gasPrice >= tx.gasPrice \/ Threshold(old, bump) > tx.gasPrice

Add(tx, bump) ==
  \/ /\ Rejected(tx, bump)
     /\ Dropped(FALSE, {}, {})
     /\ UNCHANGED <<mapVars, costCap, gasCap>>
  \/ /\ ~ Rejected(tx, bump)
     /\ Dropped(TRUE, TxSet(DOMAIN items \cap {tx.nonce}), {})
     /\ Put(tx)
     /\ costCap' = Larger(costCap, Cost(tx))
     /\ gasCap' = Larger(gasCap, tx.gasLimit)

\* mutant: a strict list keeps what follows a removed transaction
NoFollowers(gone) == {}

\* the nonces that a strict list drops together with the removed ones
Followers(gone) ==
  IF strict /\ gone # {}
  THEN {n \in DOMAIN items \ gone : \A m \in gone : (\A o \in gone : m <= o) => n > m}
  ELSE {}

Filter(costLimit, gasLimit) ==
  IF costCap <= costLimit /\ gasCap <= gasLimit
  THEN UNCHANGED <<mapVars, costCap, gasCap>> /\ Dropped(TRUE, {}, {})
  ELSE LET gone == {n \in DOMAIN items : \/ Cost(items[n]) > costLimit
                                         \/ items[n].gasLimit > gasLimit}
       IN  /\ costCap' = costLimit
           /\ gasCap' = gasLimit
           /\ FilterOut(gone \cup Followers(gone))
           /\ Dropped(TRUE, TxSet(gone), TxSet(Followers(gone)))

RemoveTx(nonce) ==
  LET gone == {nonce} \cap DOMAIN items
  IN  /\ FilterOut(gone \cup Followers(gone))
      /\ Dropped(gone # {}, {}, TxSet(Followers(gone)))
      /\ UNCHANGED <<costCap, gasCap>>

Next ==
  /\ UNCHANGED strict
  /\ \/ \E tx \in Txs, bump \in Bumps : Add(tx, bump)
     \/ \E n \in Numbers : Forward(n) \/ Ready(n) \/ RemoveTx(n)
     \/ \E k \in 0..Cardinality(DOMAIN items) : Cap(k)
     \/ \E cost, gas \in Limits : Filter(cost, gas)
     \/ Flatten

Spec == Init /\ [][Next]_vars

-------------------------------------------------------------------------------
(***************************************************************************)
(* Properties                                                              *)
(***************************************************************************)
(***************************************************************************)
(* The heap, the cache and the caps never show: every call answers as a    *)
(* plain map from nonces to transactions would.  So the cache that Forward *)
(* and Cap trim (nonce.go:78-81, 130-132) is the sorted list, the heap has *)
(* the map's nonces, and Filter's early return (nonce.go:262) misses no    *)
(* transaction.                                                            *)
(***************************************************************************)
Plain == INSTANCE TxMap WITH txs <- items

ImplementsTxMap == Plain!Spec

(***************************************************************************)
(* The prices and gas limits that the products of uint64 (nonce.go:233,    *)
(* transaction_state.go:308) have room for.  Above them the two differ.    *)
(***************************************************************************)
NoWrap ==
  \A tx \in Txs : /\ tx.gasLimit * tx.gasPrice < Word
                  /\ \A bump \in Bumps : tx.gasPrice * (100 + bump) < Word

(***************************************************************************)
(* nonce.go:199: "strict: whether nonces are strictly consecutive".        *)
(* Nothing but Add opens a gap between the nonces of a strict list.        *)
(***************************************************************************)
Gapless(nonces) == \A m, n \in nonces : m..n \subseteq nonces

StrictKeepsGapless ==
  [][strict /\ DOMAIN items' \subseteq DOMAIN items /\ Gapless(DOMAIN items) =>
       Gapless(DOMAIN items')]_vars
===============================================================================
