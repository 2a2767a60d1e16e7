-------------------------------- MODULE TxIdentity -----------------------------
(***************************************************************************)
(* What one transaction is called (transaction_state.go): its hash, by     *)
(* which the pool, the peers and the receipts know it, and its signer.     *)
(* Both are computed once for each object and cached.  Signer clears the   *)
(* public key in the signature, which is part of what is hashed, so the    *)
(* hash depends on which of the two is asked for first; and an object that *)
(* is encoded with its caches is decoded with them, the empty ones too.    *)
(*                                                                         *)
(* The objects are those of one transaction on some nodes: one that a      *)
(* client submits, those that come out of a pool and those that come from  *)
(* another node.  An object is what the code can see of it; a node's set   *)
(* of objects has every state that one of them was in.                     *)
(***************************************************************************)
EXTENDS Naturals

CONSTANT Nodes

NoHash   == "no hash"
NoSigner == "no signer"

Object == [pubKey : BOOLEAN,              \* Signature.PubKey is there
           hash   : {NoHash, "keyed", "bare", "zero"},
           signer : {NoSigner, "signer", "zero"}]

Cached == {tx \in Object : tx.hash # NoHash}

VARIABLES
  keyed,     \* the client sends the public key with the signature
  asks,      \* VerifyTx of the transaction's interpreter asks for the signer (all but CA's)
  carries,   \* TxEncode keeps the caches (Serialize), or it does not (EncodeRLP)
  recovers,  \* RecoverPubKey succeeds with a signature that has the key, that has it not
  objects,   \* each node's objects
  adding,    \* those that Add has validated and not yet encoded
  entries    \* each node's pool: what is stored under which hash

\* what sort of transaction, interpreter and encoding: the same throughout
sort == <<keyed, asks, carries, recovers>>

vars == <<sort, objects, adding, entries>>

Entry == [key : {"keyed", "bare", "zero"}, bytes : Cached]

TypeOK ==
  /\ keyed \in BOOLEAN /\ asks \in BOOLEAN /\ carries \in BOOLEAN /\ recovers \subseteq BOOLEAN
  /\ objects \in [Nodes -> SUBSET Object]
  /\ adding \in [Nodes -> SUBSET Cached]
  /\ entries \in [Nodes -> SUBSET Entry]

Init ==
  /\ keyed \in BOOLEAN /\ asks \in BOOLEAN /\ carries \in BOOLEAN /\ recovers \in SUBSET BOOLEAN
  /\ objects = [n \in Nodes |-> {}]
  /\ adding = [n \in Nodes |-> {}]
  /\ entries = [n \in Nodes |-> {}]

-------------------------------------------------------------------------------
(***************************************************************************)
(* Hash and Signer: what they answer, and the object afterwards.           *)
(***************************************************************************)
HashOf(tx) ==
  IF tx.hash # NoHash THEN tx.hash ELSE IF tx.pubKey THEN "keyed" ELSE "bare"

Hashed(tx) == [tx EXCEPT !.hash = HashOf(tx)]

\* the signer, when the key can be recovered from the signature without it
Cleared(tx) ==
  [tx EXCEPT !.pubKey = FALSE, !.signer = IF FALSE \in recovers THEN "signer" ELSE @]

\* mutant: the key that was recovered stays in the signature
SignerKeepsKey(tx) == IF tx.signer # NoSigner THEN tx ELSE [Cleared(tx) EXCEPT !.pubKey = TRUE]

\* the key is cleared even if the recovery fails
SignerAsked(tx) == IF tx.signer # NoSigner THEN tx ELSE Cleared(tx)

Verified(tx) == IF asks THEN SignerAsked(tx) ELSE tx

\* an interpreter that asks for the signer refuses the transaction without one
Answered(tx) == asks => Verified(tx).signer # NoSigner

(***************************************************************************)
(* EncodeRLP and DecodeRLP leave the caches behind.  Serialize writes both *)
(* caches, as zero if they are empty, and Deserialize fills both, unless   *)
(* it cannot recover the public key.                                       *)
(***************************************************************************)
Fresh(pubKey) == [pubKey |-> pubKey, hash |-> NoHash, signer |-> NoSigner]

Sent(tx) == Fresh(tx.pubKey)

\* mutant: the hash is not restored
DeserializedWithoutHash(tx) ==
  [tx EXCEPT !.hash = NoHash, !.signer = IF @ = NoSigner THEN "zero" ELSE @]

Deserialized(tx) ==
  [tx EXCEPT !.hash = IF @ = NoHash THEN "zero" ELSE @,
             !.signer = IF @ = NoSigner THEN "zero" ELSE @]

\* TxDecode of what TxEncode wrote for tx: the object, or none
Decoded(tx) ==
  IF ~ carries THEN {Sent(tx)} ELSE IF tx.pubKey \in recovers THEN {Deserialized(tx)} ELSE {}

-------------------------------------------------------------------------------
Known(n, txs) == objects' = [objects EXCEPT ![n] = @ \cup txs]

Keys(n) == {entry.key : entry \in entries[n]}

\* a client hands the transaction to a node
Submit(n) ==
  /\ Known(n, {Fresh(keyed)})
  /\ UNCHANGED <<sort, adding, entries>>

(***************************************************************************)
(* Add looks the hash up, then validates, then encodes and stores.  The    *)
(* validation may fail.                                                    *)
(***************************************************************************)
\* mutant: the pool is not asked before the validation
AddUnchecked(n, tx) ==
  /\ Known(n, {Verified(tx)})
  /\ \/ UNCHANGED adding
     \/ Answered(tx) /\ adding' = [adding EXCEPT ![n] = @ \cup {Verified(tx)}]
  /\ UNCHANGED <<sort, entries>>

Add(n, tx) ==
  /\ \/ Known(n, {Hashed(tx)}) /\ UNCHANGED adding
     \/ /\ HashOf(tx) \notin Keys(n)
        /\ Known(n, {Verified(Hashed(tx))})
        /\ \/ UNCHANGED adding
           \/ /\ Answered(Hashed(tx))
              /\ adding' = [adding EXCEPT ![n] = @ \cup {Verified(Hashed(tx))}]
  /\ UNCHANGED <<sort, entries>>

Stored(tx) == [key |-> HashOf(tx), bytes |-> tx]

\* addQueue: what was under the key is replaced
AddQueue(n, tx) ==
  /\ tx \in adding[n]
  /\ adding' = [adding EXCEPT ![n] = @ \ {tx}]
  /\ entries' = [entries EXCEPT ![n] =
                   {entry \in @ : entry.key # HashOf(tx)} \cup {Stored(tx)}]
  /\ UNCHANGED <<sort, objects>>

(***************************************************************************)
(* What the pool gives back: Get as it is, FetchTxs and GetTxs after the   *)
(* validation.  What expires, fails there or is deleted leaves the pool,   *)
(* and the removal callback has it.  What cannot be decoded gives nothing. *)
(***************************************************************************)
Get(n, entry) ==
  /\ Known(n, Decoded(entry.bytes))
  /\ UNCHANGED <<sort, adding, entries>>

OnRemoveWithReason(n, entry) ==
  /\ Known(n, Decoded(entry.bytes))
  /\ entries' = [entries EXCEPT ![n] = @ \ {entry}]
  /\ UNCHANGED <<sort, adding>>

FetchTxs(n, entry) ==
  \/ \E tx \in Decoded(entry.bytes) :
       /\ Answered(tx)
       /\ Known(n, {Verified(tx)})
       /\ UNCHANGED <<sort, adding, entries>>
  \/ OnRemoveWithReason(n, entry)

Delete(n, tx) ==
  LET gone == {entry \in entries[n] : entry.key = HashOf(tx)} IN
  /\ Known(n, {Hashed(tx)} \cup UNION {Decoded(entry.bytes) : entry \in gone})
  /\ entries' = [entries EXCEPT ![n] = @ \ gone]
  /\ UNCHANGED <<sort, adding>>

\* in a broadcast the hash is taken first, in a block it need not be
SendTransactions(n, tx, m) ==
  /\ objects' = [objects EXCEPT ![n] = @ \cup {Hashed(tx)}, ![m] = @ \cup {Sent(tx)}]
  /\ UNCHANGED <<sort, adding, entries>>

Next ==
  \E n \in Nodes :
    \/ Submit(n)
    \/ \E tx \in objects[n] : Add(n, tx) \/ Delete(n, tx)
    \/ \E tx \in adding[n] : AddQueue(n, tx)
    \/ \E entry \in entries[n] :
         Get(n, entry) \/ FetchTxs(n, entry) \/ OnRemoveWithReason(n, entry)
    \/ \E tx \in objects[n], m \in Nodes \ {n} : SendTransactions(n, tx, m)

Spec == Init /\ [][Next]_vars

-------------------------------------------------------------------------------
(***************************************************************************)
(* Properties                                                              *)
(***************************************************************************)
(***************************************************************************)
(* An entry of the pool decodes to a transaction that answers to the hash  *)
(* that it is stored under, so that the Delete that follows finds it       *)
(* (tx_pool.go:140, 169, 267): a hash that Signer would change is in the   *)
(* cache before Signer is asked, and goes through the encoding.  It is     *)
(* lost when the encoding leaves the caches behind; and nobody has tried   *)
(* the signature of a transaction whose interpreter does not ask.          *)
(***************************************************************************)
PoolAnswers ==
  \A n \in Nodes : \A entry \in entries[n] :
    \/ \E tx \in Decoded(entry.bytes) : HashOf(Verified(tx)) = entry.key
    \/ keyed /\ asks /\ ~ carries
    \/ ~ asks /\ Decoded(entry.bytes) = {}

(***************************************************************************)
(* No object answers with the zero hash or the zero signer that            *)
(* transaction_state.go:106-144 would make of an empty cache: Add asks for *)
(* both before it encodes.  It does not for the signer of a transaction    *)
(* whose interpreter never asks.                                           *)
(***************************************************************************)
NeverZero ==
  \A n \in Nodes : \A tx \in objects[n] :
    tx.hash # "zero" /\ (tx.signer = "zero" => ~ asks)

(***************************************************************************)
(* Delete empties the pool of the transaction, whichever copy of it the    *)
(* chain or a callback has (tx_pool.go:267), unless a public key came with *)
(* the signature: then the copies on other nodes have another hash         *)
(* (transaction_state.go:232).                                             *)
(***************************************************************************)
DeleteReaches ==
  [][\A n \in Nodes : \A tx \in objects[n] :
       Delete(n, tx) => entries'[n] = {} \/ (keyed /\ asks)]_vars
===============================================================================
