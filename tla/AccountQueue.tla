------------------------------ MODULE AccountQueue -----------------------------
(***************************************************************************)
(* What app/nonce.go promises about one account, whoever runs at the same  *)
(* time: from some moment on the account has one queue for good, and once  *)
(* it has, nonces only enter at the back, one by one, and only a delete    *)
(* takes any out: DeleteOkTx the lower ones from the front, DeleteErrTx    *)
(* from the back while a higher one is there.  When a delete returns       *)
(* nothing is left for it to take.                                         *)
(*                                                                         *)
(* Before that moment, while the goroutines that saw no queue are still in *)
(* their calls, nothing is promised.                                       *)
(***************************************************************************)
EXTENDS NonceQueue

CONSTANT Nonces  \* the nonces that transactions carry

VARIABLES
  nonces,   \* the account's queue
  settled,  \* it is the account's queue for good
  op        \* the pool's call that has appContextLock

Idle == [call |-> "none", nonce |-> 0]

Init == nonces = <<>> /\ ~ settled /\ op = Idle

\* a pool caller takes the lock
Begin(call, n) ==
  /\ op = Idle
  /\ op' = [call |-> call, nonce |-> n]
  /\ UNCHANGED <<nonces, settled>>

FirstUse ==
  /\ ~ settled
  /\ settled' \in BOOLEAN
  /\ nonces' \in NonceQueues
  /\ op' \in {op, Idle}

\* ValidateTx for the pool, or Prepare without the lock
Push(n) ==
  /\ settled
  /\ nonces' = Append(nonces, n)
  /\ UNCHANGED <<settled, op>>

DropFront ==
  /\ settled
  /\ op.call = "ok" /\ nonces # <<>> /\ nonces[1] < op.nonce
  /\ nonces' = Tail(nonces)
  /\ UNCHANGED <<settled, op>>

\* not always the nonce that was compared: Prepare may have pushed behind it
DropBack ==
  /\ settled
  /\ op.call = "err" /\ HasAbove(nonces, op.nonce)
  /\ nonces' = SubSeq(nonces, 1, Len(nonces) - 1)
  /\ UNCHANGED <<settled, op>>

End ==
  /\ settled
  /\ op # Idle /\ op' = Idle
  /\ op.call = "ok" => Len(nonces) <= 1 \/ nonces[1] >= op.nonce
  /\ op.call = "err" => CachedNonce(nonces) <= op.nonce
  /\ UNCHANGED <<nonces, settled>>

Next ==
  \/ \E call \in {"add", "ok", "err"}, n \in Nonces : Begin(call, n)
  \/ FirstUse
  \/ \E n \in Nonces : Push(n)
  \/ DropFront \/ DropBack \/ End

Spec == Init /\ [][Next]_<<nonces, settled, op>>
===============================================================================
