------------------------------ MODULE NonceQueue ------------------------------
(***************************************************************************)
(* The queue of nonces that app/nonce.go keeps for one account: the        *)
(* collection/queue.LinkedQueue behind nonceCache, front at index 1.  An   *)
(* element of the code is item{nonce, value} with a value that is never    *)
(* nil, so only the nonce is kept.                                         *)
(*                                                                         *)
(* The operators say what one whole call does to the queue when nothing    *)
(* else touches it.  TxPool uses them as if calls were atomic; NonceCache  *)
(* has the calls cut at every access to shared memory, and AccountQueue    *)
(* says what is left of them then.                                         *)
(***************************************************************************)
EXTENDS Naturals, Sequences, FiniteSetsExt

NonceQueues == Seq(Nat)

(***************************************************************************)
(* getNonceCache: the nonce at the back, 0 when the queue is empty.        *)
(***************************************************************************)
CachedNonce(q) == IF q = <<>> THEN 0 ELSE q[Len(q)]

HasAbove(q, n) == \E i \in 1..Len(q) : q[i] > n

(***************************************************************************)
(* push: a nonce below the front is dropped, any other goes to the back,   *)
(* whether or not it is above the nonce that is there.                     *)
(***************************************************************************)
BelowFront(q, n) == q # <<>> /\ n < q[1]

Pushed(q, n) == IF BelowFront(q, n) THEN q ELSE Append(q, n)

(***************************************************************************)
(* popTopNonceLockFree: polls the back while it is above n.  The nonce n   *)
(* itself stays.                                                           *)
(***************************************************************************)
PopTop(q, n) ==
  SubSeq(q, 1, Max({0} \cup {i \in 1..Len(q) : q[i] <= n}))

(***************************************************************************)
(* popBottomNonceLockFree: polls the front while it is below n and is not  *)
(* the only element left.                                                  *)
(***************************************************************************)
PopBottom(q, n) ==
  IF q = <<>> THEN q
  ELSE SubSeq(q, Min({Len(q)} \cup {i \in 1..Len(q) : q[i] >= n}), Len(q))
===============================================================================
