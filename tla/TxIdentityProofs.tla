---------------------------- MODULE TxIdentityProofs ---------------------------
(***************************************************************************)
(* For any nodes: what comes out of a pool answers to the hash that it is  *)
(* stored under, nothing answers with a zero, and Delete reaches the entry *)
(* of a transaction whose hash is the same everywhere.                     *)
(***************************************************************************)
EXTENDS TxIdentity, TLAPS

(***************************************************************************)
(* The inductive invariant.  Good is what holds of every object: only a    *)
(* transaction that came with its key and whose signer is asked for can    *)
(* have two hashes, and only a key that can be recovered has a signer.     *)
(* What Add is about to encode has its caches filled.                      *)
(***************************************************************************)
Good(tx) ==
  /\ tx \in Object
  /\ tx.hash # "zero"
  /\ asks => tx.signer # "zero"
  /\ tx.signer = "signer" => ~ tx.pubKey /\ FALSE \in recovers
  /\ ~ keyed => ~ tx.pubKey /\ tx.hash # "keyed"
  /\ keyed /\ ~ asks => tx.pubKey /\ tx.hash # "bare"

Ready(tx) == Good(tx) /\ tx.hash # NoHash /\ (asks => tx.signer # NoSigner)

Kept(entry) == Ready(entry.bytes) /\ entry = Stored(entry.bytes)

IInv ==
  /\ TypeOK
  /\ \A n \in Nodes : /\ \A tx \in objects[n] : Good(tx)
                      /\ \A tx \in adding[n] : Ready(tx)
                      /\ \A entry \in entries[n] : Kept(entry)

LEMMA InitIInv == Init => IInv
  BY DEF Init, IInv, TypeOK

-------------------------------------------------------------------------------
(***************************************************************************)
(* The operations keep an object good.                                     *)
(***************************************************************************)
LEMMA FreshGood ==
  ASSUME TypeOK PROVE Good(Fresh(keyed))
  BY DEF TypeOK, Good, Fresh, Object, NoHash, NoSigner

LEMMA SentGood ==
  ASSUME TypeOK, NEW tx, Good(tx) PROVE Good(Sent(tx))
  BY DEF TypeOK, Good, Sent, Fresh, Object, NoHash, NoSigner

LEMMA HashedGood ==
  ASSUME TypeOK, NEW tx, Good(tx)
  PROVE  /\ Good(Hashed(tx))
         /\ Hashed(tx).hash # NoHash
         /\ HashOf(tx) \in {"keyed", "bare"}
         /\ ~ keyed => HashOf(tx) = "bare"
         /\ keyed /\ ~ asks => HashOf(tx) = "keyed"
  <1>1. tx \in Object
    BY DEF Good
  <1>2. /\ HashOf(tx) \in {"keyed", "bare"}
        /\ ~ keyed => HashOf(tx) = "bare"
        /\ keyed /\ ~ asks => HashOf(tx) = "keyed"
    BY <1>1 DEF TypeOK, Good, HashOf, Object, NoHash
  <1> QED BY <1>1, <1>2 DEF Good, Hashed, Object, NoHash

LEMMA VerifiedGood ==
  ASSUME TypeOK, NEW tx, Good(tx)
  PROVE  Good(Verified(tx)) /\ Verified(tx).hash = tx.hash
  BY DEF TypeOK, Good, Verified, SignerAsked, Cleared, Object, NoSigner

LEMMA DecodedGood ==
  ASSUME TypeOK, NEW tx, Ready(tx) PROVE \A o \in Decoded(tx) : Good(o)
  <1>1. tx \in Object /\ Good(Sent(tx))
    BY SentGood DEF Ready, Good
  <1>2. Good(Deserialized(tx))
    BY <1>1 DEF Ready, Good, Deserialized, Object, NoHash, NoSigner
  <1> QED BY <1>1, <1>2 DEF Decoded

-------------------------------------------------------------------------------
(***************************************************************************)
(* The steps                                                               *)
(***************************************************************************)
LEMMA GoodKept ==
  ASSUME UNCHANGED sort, NEW tx
  PROVE  (Good(tx)' <=> Good(tx)) /\ (Ready(tx)' <=> Ready(tx)) /\ (Kept(tx)' <=> Kept(tx))
  BY DEF sort, Good, Ready, Kept, Stored, HashOf

\* a step that makes more objects known, and at most takes entries out
LEMMA QuietStep ==
  ASSUME IInv, UNCHANGED <<sort, adding>>,
         NEW n \in Nodes, NEW txs, \A tx \in txs : Good(tx), Known(n, txs),
         entries' \in [Nodes -> SUBSET Entry],
         \A m \in Nodes : entries'[m] \subseteq entries[m]
  PROVE  IInv'
  <1>1. TypeOK'
    BY DEF IInv, TypeOK, Known, Good, sort
  <1>2. /\ \A m \in Nodes : \A o \in objects'[m] : Good(o)
        /\ \A m \in Nodes : \A o \in adding'[m] : Ready(o)
        /\ \A m \in Nodes : \A entry \in entries'[m] : Kept(entry)
    BY DEF IInv, TypeOK, Known
  <1> QED BY <1>1, <1>2, GoodKept DEF IInv

LEMMA AddStep ==
  ASSUME IInv, NEW n \in Nodes, NEW tx \in objects[n], Add(n, tx)
  PROVE  IInv'
  <1>1. Good(tx) /\ TypeOK
    BY DEF IInv
  <1>2. Good(Hashed(tx)) /\ Good(Verified(Hashed(tx)))
    BY <1>1, HashedGood, VerifiedGood
  <1>3. Answered(Hashed(tx)) => Ready(Verified(Hashed(tx)))
    BY <1>1, <1>2, HashedGood, VerifiedGood DEF Ready, Answered
  <1>4. UNCHANGED <<sort, entries>>
    BY DEF Add
  <1>5. PICK o : Good(o) /\ Known(n, {o})
    BY <1>2 DEF Add
  <1>6. /\ adding' \in [Nodes -> SUBSET Cached]
        /\ \A m \in Nodes : \A a \in adding'[m] : Ready(a)
    <2>1. /\ adding \in [Nodes -> SUBSET Cached]
          /\ \A m \in Nodes : \A a \in adding[m] : Ready(a)
      BY DEF IInv, TypeOK
    <2>2. CASE UNCHANGED adding
      BY <2>1, <2>2
    <2>3. CASE /\ Ready(Verified(Hashed(tx)))
               /\ adding' = [adding EXCEPT ![n] = @ \cup {Verified(Hashed(tx))}]
      BY <2>1, <2>3 DEF Ready, Good, Cached
    <2> QED BY <1>3, <2>2, <2>3 DEF Add
  <1>7. TypeOK'
    BY <1>1, <1>4, <1>5, <1>6 DEF TypeOK, Known, Good, sort
  <1>8. /\ \A m \in Nodes : \A a \in objects'[m] : Good(a)
        /\ \A m \in Nodes : \A entry \in entries'[m] : Kept(entry)
    BY <1>1, <1>4, <1>5 DEF IInv, TypeOK, Known
  <1> QED BY <1>4, <1>6, <1>7, <1>8, GoodKept DEF IInv

LEMMA AddQueueStep ==
  ASSUME IInv, NEW n \in Nodes, NEW tx \in adding[n], AddQueue(n, tx)
  PROVE  IInv'
  <1>1. Ready(tx) /\ TypeOK /\ tx \in Object
    BY DEF IInv, Ready, Good
  <1>2. Kept(Stored(tx)) /\ Stored(tx) \in Entry
    BY <1>1, HashedGood DEF Kept, Stored, Ready, Entry, Cached
  <1>3. UNCHANGED <<sort, objects>>
    BY DEF AddQueue
  <1>4. /\ adding' \in [Nodes -> SUBSET Cached]
        /\ \A m \in Nodes : \A o \in adding'[m] : Ready(o)
    BY DEF AddQueue, IInv, TypeOK
  <1>5. /\ entries' \in [Nodes -> SUBSET Entry]
        /\ \A m \in Nodes : \A entry \in entries'[m] : Kept(entry)
    BY <1>2 DEF AddQueue, IInv, TypeOK
  <1>6. TypeOK' /\ \A m \in Nodes : \A o \in objects'[m] : Good(o)
    BY <1>3, <1>4, <1>5 DEF IInv, TypeOK, sort
  <1> QED BY <1>3, <1>4, <1>5, <1>6, GoodKept DEF IInv

LEMMA SendStep ==
  ASSUME IInv, NEW n \in Nodes, NEW m \in Nodes, NEW tx \in objects[n],
         SendTransactions(n, tx, m)
  PROVE  IInv'
  <1>1. Good(Hashed(tx)) /\ Good(Sent(tx)) /\ TypeOK
    BY HashedGood, SentGood DEF IInv
  <1>2. UNCHANGED <<sort, adding, entries>>
    BY DEF SendTransactions
  <1>3. /\ objects' \in [Nodes -> SUBSET Object]
        /\ \A k \in Nodes : \A o \in objects'[k] : Good(o)
    BY <1>1 DEF SendTransactions, IInv, TypeOK, Good
  <1>4. TypeOK'
    BY <1>1, <1>2, <1>3 DEF TypeOK, sort
  <1> QED BY <1>2, <1>3, <1>4, GoodKept DEF IInv

LEMMA NextIInv == IInv /\ [Next]_vars => IInv'
  <1> SUFFICES ASSUME IInv, [Next]_vars PROVE IInv'
    OBVIOUS
  <1>1. CASE UNCHANGED vars
    BY <1>1, GoodKept DEF vars, IInv, TypeOK, sort
  <1>2. ASSUME NEW n \in Nodes, Submit(n) PROVE IInv'
    BY <1>2, FreshGood, QuietStep DEF Submit, IInv, TypeOK
  <1>3. ASSUME NEW n \in Nodes, NEW entry \in entries[n]
        PROVE  \A o \in Decoded(entry.bytes) : Good(o) /\ Good(Verified(o))
    BY <1>3, DecodedGood, VerifiedGood DEF IInv, Kept
  <1>4. ASSUME NEW n \in Nodes, NEW tx \in objects[n], Delete(n, tx) PROVE IInv'
    <2> DEFINE gone == {entry \in entries[n] : entry.key = HashOf(tx)}
               txs == {Hashed(tx)} \cup UNION {Decoded(entry.bytes) : entry \in gone}
    <2>1. Good(Hashed(tx))
      BY HashedGood DEF IInv
    <2>2. \A o \in txs : Good(o)
      BY <1>3, <2>1
    <2>3. Known(n, txs) /\ UNCHANGED <<sort, adding>>
      BY <1>4 DEF Delete
    <2>4. /\ entries' \in [Nodes -> SUBSET Entry]
          /\ \A m \in Nodes : entries'[m] \subseteq entries[m]
      BY <1>4 DEF Delete, IInv, TypeOK
    <2> HIDE DEF txs
    <2> QED BY <2>2, <2>3, <2>4, QuietStep
  <1>5. ASSUME NEW n \in Nodes, NEW entry \in entries[n], OnRemoveWithReason(n, entry)
        PROVE  IInv'
    <2>1. /\ entries' \in [Nodes -> SUBSET Entry]
          /\ \A m \in Nodes : entries'[m] \subseteq entries[m]
      BY <1>5 DEF OnRemoveWithReason, IInv, TypeOK
    <2> QED BY <1>3, <1>5, <2>1, QuietStep DEF OnRemoveWithReason
  <1>6. ASSUME NEW n \in Nodes, NEW entry \in entries[n], NEW txs,
               txs = Decoded(entry.bytes) \/ \E o \in Decoded(entry.bytes) : txs = {Verified(o)},
               Known(n, txs), UNCHANGED <<sort, adding, entries>>
        PROVE  IInv'
    <2>1. \A o \in txs : Good(o)
      BY <1>3, <1>6
    <2> QED BY <1>6, <2>1, QuietStep DEF IInv, TypeOK
  <1>7. ASSUME NEW n \in Nodes, NEW entry \in entries[n], Get(n, entry) \/ FetchTxs(n, entry)
        PROVE  IInv'
    BY <1>5, <1>6, <1>7 DEF Get, FetchTxs
  <1> QED BY <1>1, <1>2, <1>4, <1>5, <1>7, AddStep, AddQueueStep, SendStep DEF Next

-------------------------------------------------------------------------------
(***************************************************************************)
(* Every object and entry keeps its type and its caches as IInv says.      *)
(***************************************************************************)
THEOREM InvariantHolds == Spec => []IInv
  BY InitIInv, NextIInv, PTL DEF Spec

(***************************************************************************)
(* Every variable keeps its type (transaction_state.go, tx_pool.go).       *)
(***************************************************************************)
THEOREM TypeCorrect == Spec => []TypeOK
  <1>1. IInv => TypeOK
    BY DEF IInv
  <1> QED BY <1>1, InvariantHolds, PTL

(***************************************************************************)
(* An entry of the pool decodes to a transaction with the hash that it is  *)
(* stored under (tx_pool.go:140, 169), on every node, unless the encoding  *)
(* loses a hash that Signer has changed, or nobody tried the signature.    *)
(***************************************************************************)
THEOREM PoolAlwaysAnswers == Spec => []PoolAnswers
  <1>1. ASSUME IInv, NEW n \in Nodes, NEW entry \in entries[n], ~ (keyed /\ asks /\ ~ carries)
        PROVE  \/ \E o \in Decoded(entry.bytes) : HashOf(Verified(o)) = entry.key
               \/ ~ asks /\ Decoded(entry.bytes) = {}
    <2> DEFINE tx == entry.bytes
    <2>1. Ready(tx) /\ Good(tx) /\ TypeOK /\ tx \in Object
      BY <1>1 DEF IInv, Kept, Ready, Good
    <2>2. entry.key = HashOf(tx) /\ HashOf(tx) = tx.hash
      BY <1>1, <2>1 DEF IInv, Kept, Stored, HashOf, Ready
    <2>3. asks => tx.signer = "signer" /\ ~ tx.pubKey /\ FALSE \in recovers
      BY <2>1 DEF Good, Ready, Object
    <2>4. CASE carries /\ tx.pubKey \in recovers
      <3>1. Decoded(tx) = {Deserialized(tx)} /\ Deserialized(tx).hash = tx.hash
        BY <2>1, <2>4 DEF Decoded, Deserialized, Ready, Object
      <3>2. Good(Deserialized(tx))
        BY <2>1, <3>1, DecodedGood
      <3>3. Verified(Deserialized(tx)).hash = tx.hash
        BY <2>1, <3>1, <3>2, VerifiedGood
      <3>4. HashOf(Verified(Deserialized(tx))) = entry.key
        BY <2>1, <2>2, <3>3 DEF HashOf, Ready
      <3> QED BY <3>1, <3>4
    <2>5. CASE carries /\ tx.pubKey \notin recovers
      <3>1. Decoded(tx) = {}
        BY <2>5 DEF Decoded
      <3>2. ~ asks
        BY <2>1, <2>3, <2>5 DEF Object
      <3> QED BY <3>1, <3>2
    <2>6. CASE ~ carries
      <3>1. Decoded(tx) = {Sent(tx)} /\ Good(Verified(Sent(tx)))
        BY <2>1, <2>6, DecodedGood, VerifiedGood DEF Decoded
      <3>2. HashOf(Verified(Sent(tx))) = entry.key
        BY <1>1, <2>1, <2>2, <2>6, <3>1, HashedGood
      <3> QED BY <3>1, <3>2
    <2> QED BY <2>4, <2>5, <2>6
  <1>2. IInv => PoolAnswers
    BY <1>1 DEF PoolAnswers
  <1> QED BY <1>2, InvariantHolds, PTL

(***************************************************************************)
(* Deserialize never fills a cache with a zero that anybody reads as the   *)
(* transaction's hash, or as a signer that an interpreter asks for         *)
(* (transaction_state.go:106-144).                                         *)
(***************************************************************************)
THEOREM NothingIsZero == Spec => []NeverZero
  <1>1. IInv => NeverZero
    BY DEF IInv, NeverZero, Good
  <1> QED BY <1>1, InvariantHolds, PTL

(***************************************************************************)
(* Delete takes the transaction out of the pool with any copy of it, when  *)
(* all copies have one hash (tx_pool.go:267).                              *)
(***************************************************************************)
THEOREM DeleteAlwaysReaches == Spec => DeleteReaches
  <1>1. ASSUME IInv, NEW n \in Nodes, NEW tx \in objects[n], Delete(n, tx), ~ (keyed /\ asks)
        PROVE  entries'[n] = {}
    <2>1. Good(tx) /\ TypeOK
      BY <1>1 DEF IInv
    <2>2. \A entry \in entries[n] : entry.key = HashOf(tx)
      <3> SUFFICES ASSUME NEW entry \in entries[n] PROVE entry.key = HashOf(tx)
        OBVIOUS
      <3>1. Good(entry.bytes) /\ entry.key = HashOf(entry.bytes)
        BY <1>1 DEF IInv, Kept, Ready, Stored
      <3> QED BY <1>1, <2>1, <3>1, HashedGood
    <2> QED BY <1>1, <2>1, <2>2 DEF Delete, TypeOK
  <1>2. IInv /\ [Next]_vars =>
          [\A n \in Nodes : \A tx \in objects[n] :
             Delete(n, tx) => entries'[n] = {} \/ (keyed /\ asks)]_vars
    BY <1>1
  <1> QED BY <1>2, InvariantHolds, PTL DEF Spec, DeleteReaches
===============================================================================
