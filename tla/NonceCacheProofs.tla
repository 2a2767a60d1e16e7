---------------------------- MODULE NonceCacheProofs ---------------------------
(***************************************************************************)
(* For every set of goroutines and every bound: NonceCache is type         *)
(* correct, appContextLock excludes, the deletes poll only what they may,  *)
(* and the cache, cut at every access to shared memory, implements         *)
(* AccountQueue whatever Prepare and GetCacheNonce do.                     *)
(***************************************************************************)
EXTENDS NonceCache, DataTheorems, SequenceTheorems, TLAPS

(***************************************************************************)
(* The inductive invariant.  Only pool callers reach the steps that hold   *)
(* the lock, and only they poll.                                           *)
(***************************************************************************)
Polls == Tops \cup Bottoms

Roles ==
  /\ \A p \in Procs : pc[p] \in Polls => p \in PoolCallers
  /\ \A p \in PoolCallers : pc[p] # "idle" => lock = p

\* a queue that is not in the map yet is known to its allocator alone
Fresh(p) == cache # p /\ \A q \in Procs : ptr[q] = p => q = p

Allocation ==
  /\ cache = NoQueue => \A p \in Procs : ptr[p] = p
  /\ \A p \in Procs : pc[p] = "getStore" => Fresh(p)

\* who has the lock is in a call, with the nonce of a transaction
Calling ==
  /\ lock # Unlocked => pc[lock] # "idle"
  /\ arg \in [Procs -> Nonces]

IInv == TypeOK /\ Roles /\ Allocation /\ Calling /\ OkPollsLower /\ ErrPollsAbove

(***************************************************************************)
(* Taking elements off either end of a queue leaves a queue.               *)
(***************************************************************************)
LEMMA Polled ==
  ASSUME NEW q \in NonceQueues
  PROVE  /\ SubSeq(q, 1, Len(q) - 1) \in NonceQueues
         /\ SubSeq(q, 2, Len(q)) \in NonceQueues
  BY SubSeqProperties, LenProperties DEF NonceQueues

(***************************************************************************)
(* A push leaves the front of a queue that is not empty where it is.       *)
(***************************************************************************)
LEMMA Appended ==
  ASSUME NEW q \in NonceQueues, NEW n \in Nat
  PROVE  /\ Append(q, n) \in NonceQueues
         /\ Append(q, n) # <<>>
         /\ q # <<>> => Append(q, n)[1] = q[1]
  <1>1. Append(q, n) \in NonceQueues /\ Len(Append(q, n)) = Len(q) + 1
    BY AppendProperties DEF NonceQueues
  <1>2. Append(q, n) # <<>>
    BY <1>1, LenProperties, EmptySeq DEF NonceQueues
  <1>3. ASSUME q # <<>> PROVE Append(q, n)[1] = q[1]
    <2>1. 1 \in 1..Len(q)
      BY <1>3, EmptySeq, LenProperties DEF NonceQueues
    <2> QED BY <2>1, AppendProperties DEF NonceQueues
  <1> QED BY <1>1, <1>2, <1>3

(***************************************************************************)
(* What a queue reports is a nonce.                                        *)
(***************************************************************************)
LEMMA CachedNonceType ==
  ASSUME NEW q \in NonceQueues
  PROVE  CachedNonce(q) \in Nat
  <1>1. ASSUME q # <<>> PROVE Len(q) \in 1..Len(q)
    BY <1>1, EmptySeq, LenProperties DEF NonceQueues
  <1> QED BY <1>1, ElementOfSeq DEF CachedNonce, NonceQueues

LEMMA InitIInv == Init => IInv
  <1> SUFFICES ASSUME Init PROVE IInv
    OBVIOUS
  <1>1. \A p \in Procs : pc[p] = "idle" /\ ptr[p] = p
    BY DEF Init
  <1>2. TypeOK
    BY EmptySeq DEF Init, TypeOK, Steps, NonceQueues
  <1>3. Roles
    BY <1>1 DEF Roles, Polls, Tops, Bottoms, Procs
  <1>4. Allocation
    BY <1>1 DEF Allocation
  <1>5. Calling
    BY BoundsAssumption DEF Init, Calling, Nonces
  <1>6. OkPollsLower /\ ErrPollsAbove
    BY <1>1 DEF OkPollsLower, ErrPollsAbove, Procs
  <1> QED BY <1>2, <1>3, <1>4, <1>5, <1>6 DEF IInv

(***************************************************************************)
(* TypeOK after one step.                                                  *)
(***************************************************************************)
LEMMA NextTypeOK == TypeOK /\ [Next]_vars => TypeOK'
  <1> SUFFICES ASSUME TypeOK, [Next]_vars PROVE TypeOK'
    OBVIOUS
  <1> USE DEF TypeOK, Steps, Adds, Tops, Bottoms
  <1>1. CASE UNCHANGED vars
    BY <1>1 DEF vars
  <1>2. ASSUME NEW p \in Procs, Begin(p) PROVE TypeOK'
    <2>1. \A n \in Nonces : n \in Nat
      BY BoundsAssumption DEF Nonces
    <2>2. ASSUME NEW n \in Nonces, p \in PoolCallers,
                 ValidateTx(p, n) \/ DeleteErrTx(p, n) \/ DeleteOkTx(p, n)
          PROVE  TypeOK'
      BY <2>1, <2>2 DEF ValidateTx, DeleteErrTx, DeleteOkTx, Acquire, Call
    <2>3. ASSUME NEW n \in Nonces, Prepare(p, n) PROVE TypeOK'
      BY <2>1, <2>3 DEF Prepare, Call
    <2>4. ASSUME GetCacheNonce(p) PROVE TypeOK'
      BY <2>4 DEF GetCacheNonce, Call
    <2> QED BY <1>2, <2>2, <2>3, <2>4 DEF Begin
  <1>3. ASSUME NEW p \in Procs, Continue(p) PROVE TypeOK'
    <2>1. CASE GetLoad(p)
      BY <2>1 DEF GetLoad, Goto
    <2>2. CASE GetStore(p)
      BY <2>2, EmptySeq DEF GetStore, Got, Goto, Return, NonceQueues
    <2>3. CASE GetPeek(p)
      <3>1. CachedNonce(queue[ptr[p]]) \in Nat
        BY CachedNonceType
      <3> QED BY <2>3, <3>1 DEF GetPeek, Got, Goto, Return
    <2>4. CASE Decide(p)
      BY <2>4 DEF Decide, Goto, Return
    <2>5. CASE PushLoad(p)
      <3>1. <<>> \in NonceQueues
        BY EmptySeq DEF NonceQueues
      <3>2. UNCHANGED <<cache, got, lock, arg>>
        BY <2>5 DEF PushLoad, Goto
      <3>3. queue' \in [Procs -> NonceQueues]
        BY <2>5, <3>1 DEF PushLoad
      <3>4. ptr' \in [Procs -> Procs]
        BY <2>5 DEF PushLoad
      <3>5. pc' \in [Procs -> Steps]
        BY <2>5 DEF PushLoad, Goto
      <3> QED BY <3>2, <3>3, <3>4, <3>5
    <2>6. CASE PushFront(p)
      BY <2>6 DEF PushFront, Goto, Return
    <2>7. CASE PushBack(p)
      <3>1. Append(queue[ptr[p]], arg[p]) \in NonceQueues
        BY Appended
      <3> QED BY <2>7, <3>1 DEF PushBack, Goto
    <2>8. CASE PushStore(p)
      BY <2>8 DEF PushStore, Return
    <2>9. CASE TopLoad(p) \/ BottomLoad(p)
      BY <2>9 DEF TopLoad, BottomLoad, PopLoad, Goto, Return
    <2>10. CASE TopPeek(p)
      BY <2>10 DEF TopPeek, Goto, Return
    <2>11. CASE TopPoll(p)
      <3>1. SubSeq(queue[ptr[p]], 1, Len(queue[ptr[p]]) - 1) \in NonceQueues
        BY Polled
      <3> QED BY <2>11, <3>1 DEF TopPoll, Goto
    <2>12. CASE BottomSize(p)
      BY <2>12 DEF BottomSize, Goto, Return
    <2>13. CASE BottomPeek(p)
      BY <2>13 DEF BottomPeek, Goto, Return
    <2>14. CASE BottomPoll(p)
      <3>1. SubSeq(queue[ptr[p]], 2, Len(queue[ptr[p]])) \in NonceQueues
        BY Polled
      <3> QED BY <2>14, <3>1 DEF BottomPoll, Goto
    <2> QED
      BY <1>3, <2>1, <2>2, <2>3, <2>4, <2>5, <2>6, <2>7, <2>8, <2>9, <2>10,
         <2>11, <2>12, <2>13, <2>14 DEF Continue
  <1> QED BY <1>1, <1>2, <1>3 DEF Next

(***************************************************************************)
(* A call begins under the lock when a pool caller makes it.               *)
(***************************************************************************)
LEMMA NextRoles == TypeOK /\ Roles /\ [Next]_vars => Roles'
  <1> SUFFICES ASSUME TypeOK, Roles, [Next]_vars PROVE Roles'
    OBVIOUS
  <1> USE ProcsAssumption DEF TypeOK, Steps, Adds, Tops, Bottoms, Roles, Polls, Procs
  <1>1. CASE UNCHANGED vars
    BY <1>1 DEF vars
  <1>2. ASSUME NEW p \in Procs, Begin(p) PROVE Roles'
    <2>1. ASSUME NEW n \in Nonces, p \in PoolCallers,
                 ValidateTx(p, n) \/ DeleteErrTx(p, n) \/ DeleteOkTx(p, n)
          PROVE  Roles'
      BY <2>1 DEF ValidateTx, DeleteErrTx, DeleteOkTx, Acquire, Call
    <2>2. ASSUME NEW n \in Nonces, p \in Executors, Prepare(p, n) PROVE Roles'
      BY <2>2 DEF Prepare, Call
    <2>3. ASSUME p \in Readers, GetCacheNonce(p) PROVE Roles'
      BY <2>3 DEF GetCacheNonce, Call
    <2> QED BY <1>2, <2>1, <2>2, <2>3 DEF Begin
  <1>3. ASSUME NEW p \in Procs, Continue(p) PROVE Roles'
    <2>1. CASE GetLoad(p)
      BY <2>1 DEF GetLoad, Goto
    <2>2. CASE GetStore(p) \/ GetPeek(p)
      BY <2>2 DEF GetStore, GetPeek, Got, Goto, Return
    <2>3. CASE Decide(p)
      BY <2>3 DEF Decide, Goto, Return
    <2>4. CASE PushLoad(p) \/ PushBack(p)
      BY <2>4 DEF PushLoad, PushBack, Goto
    <2>5. CASE PushFront(p) \/ PushStore(p)
      BY <2>5 DEF PushFront, PushStore, Goto, Return
    <2>6. CASE TopLoad(p) \/ BottomLoad(p)
      BY <2>6 DEF TopLoad, BottomLoad, PopLoad, Goto, Return
    <2>7. CASE TopPeek(p) \/ TopPoll(p)
      <3>1. pc[p] \in {"topPeek", "topPoll"}
        BY <2>7 DEF TopPeek, TopPoll
      <3>2. Goto(p, "topPeek") \/ Goto(p, "topPoll") \/ Return(p)
        BY <2>7 DEF TopPeek, TopPoll
      <3>3. CASE Goto(p, "topPeek") \/ Goto(p, "topPoll")
        BY <3>1, <3>3 DEF Goto
      <3>4. CASE Return(p)
        BY <3>1, <3>4 DEF Return
      <3> QED BY <3>2, <3>3, <3>4
    <2>8. CASE BottomSize(p)
      BY <2>8 DEF BottomSize, Goto, Return
    <2>9. CASE BottomPeek(p)
      <3>1. pc[p] = "bottomPeek" /\ (Goto(p, "bottomPoll") \/ Return(p))
        BY <2>9 DEF BottomPeek
      <3>2. CASE Goto(p, "bottomPoll")
        BY <3>1, <3>2 DEF Goto
      <3>3. CASE Return(p)
        BY <3>1, <3>3 DEF Return
      <3> QED BY <3>1, <3>2, <3>3
    <2>10. CASE BottomPoll(p)
      BY <2>10 DEF BottomPoll, Goto
    <2> QED
      BY <1>3, <2>1, <2>2, <2>3, <2>4, <2>5, <2>6, <2>7, <2>8, <2>9, <2>10
         DEF Continue
  <1> QED BY <1>1, <1>2, <1>3 DEF Next

(***************************************************************************)
(* A queue that a getter is about to store is still its own.               *)
(***************************************************************************)
LEMMA NextAllocation == TypeOK /\ Allocation /\ [Next]_vars => Allocation'
  <1> SUFFICES ASSUME TypeOK, Allocation, [Next]_vars PROVE Allocation'
    OBVIOUS
  <1> USE ProcsAssumption DEF TypeOK, Allocation, Fresh
  <1>1. CASE UNCHANGED vars
    BY <1>1 DEF vars
  <1>2. ASSUME NEW p \in Procs, Begin(p) PROVE Allocation'
    BY <1>2 DEF Begin, ValidateTx, DeleteErrTx, DeleteOkTx, Prepare,
                GetCacheNonce, Call
  <1>3. ASSUME NEW p \in Procs, Continue(p) PROVE Allocation'
    <2>1. CASE GetLoad(p)
      <3>1. CASE cache = NoQueue
        BY <2>1, <3>1 DEF GetLoad, Goto
      <3>2. CASE cache # NoQueue
        BY <2>1, <3>2 DEF GetLoad, Goto
      <3> QED BY <3>1, <3>2
    <2>2. CASE GetStore(p)
      BY <2>2 DEF GetStore, Got, Goto, Return
    <2>3. CASE GetPeek(p) \/ Decide(p)
      BY <2>3 DEF GetPeek, Got, Decide, Goto, Return
    <2>4. CASE PushLoad(p)
      <3>1. CASE cache = NoQueue
        BY <2>4, <3>1 DEF PushLoad, Goto
      <3>2. CASE cache # NoQueue
        BY <2>4, <3>2 DEF PushLoad, Goto
      <3> QED BY <3>1, <3>2
    <2>5. CASE PushFront(p) \/ PushBack(p)
      BY <2>5 DEF PushFront, PushBack, Goto, Return
    <2>6. CASE PushStore(p)
      BY <2>6 DEF PushStore, Return
    <2>7. CASE TopLoad(p) \/ BottomLoad(p)
      BY <2>7 DEF TopLoad, BottomLoad, PopLoad, Goto, Return
    <2>8. CASE TopPeek(p) \/ TopPoll(p)
      <3>1. UNCHANGED <<cache, ptr>>
        BY <2>8 DEF TopPeek, TopPoll
      <3>2. \A q \in Procs : pc'[q] = "getStore" => pc[q] = "getStore"
        BY <2>8 DEF TopPeek, TopPoll, Goto, Return
      <3> QED BY <3>1, <3>2
    <2>9. CASE BottomSize(p) \/ BottomPeek(p) \/ BottomPoll(p)
      BY <2>9 DEF BottomSize, BottomPeek, BottomPoll, Goto, Return
    <2> QED
      BY <1>3, <2>1, <2>2, <2>3, <2>4, <2>5, <2>6, <2>7, <2>8, <2>9 DEF Continue
  <1> QED BY <1>1, <1>2, <1>3 DEF Next

(***************************************************************************)
(* A step inside a call: who makes it, and when its call is over.          *)
(***************************************************************************)
LEMMA ContinueFrame ==
  ASSUME TypeOK, NEW p \in Procs, Continue(p)
  PROVE  /\ pc[p] # "idle" /\ arg' = arg
         /\ \A q \in Procs : q # p => pc'[q] = pc[q]
         /\ IF pc'[p] = "idle" THEN lock' = (IF lock = p THEN Unlocked ELSE lock)
            ELSE lock' = lock
  <1>1. /\ pc[p] # "idle"
        /\ Return(p) \/ \E step \in Steps \ {"idle"} : Goto(p, step)
    BY DEF Continue, GetLoad, GetStore, GetPeek, Got, Decide, PushLoad, PushFront, PushBack,
           PushStore, TopLoad, TopPeek, TopPoll, BottomLoad, BottomSize, BottomPeek, BottomPoll,
           PopLoad, Steps, Adds, Tops, Bottoms
  <1>2. pc \in [Procs -> Steps] /\ "idle" \in Steps
    BY DEF TypeOK, Steps
  <1>3. CASE Return(p)
    BY <1>1, <1>2, <1>3 DEF Return
  <1>4. ASSUME NEW step \in Steps \ {"idle"}, Goto(p, step)
        PROVE  /\ arg' = arg /\ lock' = lock /\ pc'[p] # "idle"
               /\ \A q \in Procs : q # p => pc'[q] = pc[q]
    BY <1>2, <1>4 DEF Goto
  <1> QED BY <1>1, <1>3, <1>4

(***************************************************************************)
(* A call begins with the nonce of a transaction, and ends with Unlock.    *)
(***************************************************************************)
LEMMA NextCalling == TypeOK /\ Calling /\ [Next]_vars => Calling'
  <1> SUFFICES ASSUME TypeOK, Calling, [Next]_vars PROVE Calling'
    OBVIOUS
  <1>1. CASE UNCHANGED vars
    BY <1>1 DEF vars, Calling
  <1>2. ASSUME NEW p \in Procs, Begin(p) PROVE Calling'
    <2>1. PICK n \in Nonces, step \in {"get", "top", "bottom", "push"} :
            /\ Call(p, step, n)
            /\ lock' = p \/ lock' = lock
      BY <1>2, BoundsAssumption
         DEF Begin, ValidateTx, DeleteErrTx, DeleteOkTx, Prepare, GetCacheNonce,
             Acquire, Nonces
    <2> QED BY <2>1, ProcsAssumption DEF Calling, Call, TypeOK, Procs
  <1>3. ASSUME NEW p \in Procs, Continue(p) PROVE Calling'
    BY <1>3, ContinueFrame, ProcsAssumption DEF Calling, TypeOK, Procs
  <1> QED BY <1>1, <1>2, <1>3 DEF Next

(***************************************************************************)
(* While q is about to poll, nobody else polls (they would need the lock), *)
(* and a queue that is made empty is one that q does not have: all that    *)
(* can happen to its queue is a push behind the back.                      *)
(***************************************************************************)
LEMMA PollerUndisturbed ==
  ASSUME IInv, NEW p \in Procs, Continue(p), NEW q \in PoolCallers, p # q,
         pc'[q] \in {"topPoll", "bottomPoll"}
  PROVE  /\ pc[q] = pc'[q] /\ ptr'[q] = ptr[q] /\ arg' = arg
         /\ \/ queue'[ptr[q]] = queue[ptr[q]]
            \/ \E n \in Nat : queue'[ptr[q]] = Append(queue[ptr[q]], n)
  <1> USE DEF IInv, TypeOK
  <1>1. q \in Procs /\ arg' = arg /\ pc[q] = pc'[q]
    BY ContinueFrame DEF Procs
  <1>2. ptr'[q] = ptr[q]
    BY <1>1
       DEF Continue, GetLoad, GetStore, GetPeek, Decide, PushLoad, PushFront, PushBack,
           PushStore, TopLoad, TopPeek, TopPoll, BottomLoad, BottomSize, BottomPeek,
           BottomPoll, PopLoad
  <1>3. CASE GetStore(p)
    BY <1>1, <1>2, <1>3 DEF GetStore, Allocation, Fresh
  <1>4. CASE PushLoad(p)
    <2>1. CASE cache = NoQueue
      BY <1>1, <1>2, <1>4, <2>1 DEF PushLoad, Allocation
    <2>2. CASE cache # NoQueue
      BY <1>1, <1>2, <1>4, <2>2 DEF PushLoad
    <2> QED BY <2>1, <2>2
  <1>5. CASE PushBack(p)
    <2>1. arg[p] \in Nat
      OBVIOUS
    <2>2. CASE ptr[p] = ptr[q]
      BY <1>1, <1>2, <1>5, <2>1, <2>2 DEF PushBack
    <2>3. CASE ptr[p] # ptr[q]
      BY <1>1, <1>2, <1>5, <2>3 DEF PushBack
    <2> QED BY <2>2, <2>3
  <1>6. CASE TopPoll(p) \/ BottomPoll(p)
    <2>1. p \in PoolCallers /\ pc[p] # "idle"
      BY <1>6 DEF Roles, Polls, Tops, Bottoms, TopPoll, BottomPoll
    <2>2. lock = p /\ lock = q
      BY <1>1, <2>1 DEF Roles
    <2> QED BY <2>2
  <1>7. \/ UNCHANGED queue
        \/ GetStore(p) \/ PushLoad(p) \/ PushBack(p)
        \/ TopPoll(p) \/ BottomPoll(p)
    BY DEF Continue, GetLoad, GetPeek, Decide, PushFront, PushStore,
           TopLoad, BottomLoad, PopLoad, TopPeek, BottomSize, BottomPeek
  <1> QED BY <1>1, <1>2, <1>3, <1>4, <1>5, <1>6, <1>7

(***************************************************************************)
(* A goroutine comes to a poll from the comparison before it.              *)
(***************************************************************************)
LEMMA PollAfterPeek ==
  ASSUME TypeOK, NEW q \in Procs, Continue(q)
  PROVE  /\ pc'[q] = "bottomPoll" => BottomPeek(q)
         /\ pc'[q] = "topPoll" => TopPeek(q)
  BY DEF TypeOK, Continue, GetLoad, GetStore, GetPeek, Got, Decide, PushLoad, PushFront,
         PushBack, PushStore, TopLoad, TopPeek, TopPoll, BottomLoad, BottomSize, BottomPeek,
         BottomPoll, PopLoad, Goto, Return

LEMMA NextOkPollsLower == IInv /\ [Next]_vars => OkPollsLower'
  <1> SUFFICES ASSUME IInv, [Next]_vars PROVE OkPollsLower'
    OBVIOUS
  <1> USE DEF IInv, TypeOK
  <1>1. CASE UNCHANGED vars
    BY <1>1 DEF vars, OkPollsLower
  <1>2. ASSUME NEW p \in Procs, Begin(p) PROVE OkPollsLower'
    BY <1>2 DEF Begin, ValidateTx, DeleteErrTx, DeleteOkTx, Prepare,
                GetCacheNonce, Call, OkPollsLower, Procs
  <1>3. ASSUME NEW p \in Procs, Continue(p) PROVE OkPollsLower'
    <2> SUFFICES ASSUME NEW q \in PoolCallers, pc'[q] = "bottomPoll"
                 PROVE  /\ (queue[ptr[q]])' # <<>>
                        /\ (queue[ptr[q]])'[1] < arg'[q]
      BY DEF OkPollsLower
    <2>1. q \in Procs
      BY DEF Procs
    <2>2. CASE p = q
      <3>1. BottomPeek(q)
        BY <1>3, <2>1, <2>2, PollAfterPeek
      <3> QED BY <2>1, <3>1 DEF BottomPeek, Goto, Return
    <2>3. CASE p # q
      <3>1. /\ pc[q] = "bottomPoll" /\ ptr'[q] = ptr[q] /\ arg' = arg
            /\ \/ queue'[ptr[q]] = queue[ptr[q]]
               \/ \E n \in Nat : queue'[ptr[q]] = Append(queue[ptr[q]], n)
        BY <1>3, <2>3, PollerUndisturbed
      <3>2. queue[ptr[q]] # <<>> /\ queue[ptr[q]][1] < arg[q]
        BY <3>1 DEF OkPollsLower
      <3>3. queue[ptr[q]] \in NonceQueues
        BY <2>1
      <3>4. ASSUME NEW n \in Nat, queue'[ptr[q]] = Append(queue[ptr[q]], n)
            PROVE  queue'[ptr[q]] # <<>> /\ queue'[ptr[q]][1] < arg[q]
        <4>1. /\ Append(queue[ptr[q]], n) # <<>>
              /\ Append(queue[ptr[q]], n)[1] = queue[ptr[q]][1]
          BY <3>2, <3>3, Appended
        <4> QED BY <3>2, <3>4, <4>1
      <3>5. queue'[ptr[q]] # <<>> /\ queue'[ptr[q]][1] < arg[q]
        BY <3>1, <3>2, <3>4
      <3> QED BY <3>1, <3>5
    <2> QED BY <2>2, <2>3
  <1> QED BY <1>1, <1>2, <1>3 DEF Next

(***************************************************************************)
(* What has a nonce above n still has it after a push, and so has a queue  *)
(* that reports one.                                                       *)
(***************************************************************************)
LEMMA AboveKept ==
  ASSUME NEW q \in NonceQueues, NEW n \in Nat
  PROVE  /\ CachedNonce(q) > n => HasAbove(q, n)
         /\ \A m \in Nat : HasAbove(q, n) => HasAbove(Append(q, m), n)
  <1>1. Len(q) \in Nat /\ (q # <<>> => Len(q) # 0)
    BY LenProperties, EmptySeq DEF NonceQueues
  <1>2. ASSUME CachedNonce(q) > n PROVE HasAbove(q, n)
    <2>1. q # <<>> /\ q[Len(q)] > n
      BY <1>2 DEF CachedNonce
    <2> QED BY <1>1, <2>1 DEF HasAbove
  <1>3. ASSUME NEW m \in Nat, HasAbove(q, n) PROVE HasAbove(Append(q, m), n)
    <2>1. /\ Len(Append(q, m)) = Len(q) + 1
          /\ \A i \in 1..Len(q) : Append(q, m)[i] = q[i]
      BY AppendProperties DEF NonceQueues
    <2>2. PICK i \in 1..Len(q) : q[i] > n
      BY <1>3 DEF HasAbove
    <2>3. i \in 1..Len(Append(q, m)) /\ Append(q, m)[i] > n
      BY <1>1, <2>1, <2>2
    <2> QED BY <2>3 DEF HasAbove
  <1> QED BY <1>2, <1>3

LEMMA NextErrPollsAbove == IInv /\ [Next]_vars => ErrPollsAbove'
  <1> SUFFICES ASSUME IInv, [Next]_vars PROVE ErrPollsAbove'
    OBVIOUS
  <1> USE DEF IInv, TypeOK
  <1>1. CASE UNCHANGED vars
    BY <1>1 DEF vars, ErrPollsAbove
  <1>2. ASSUME NEW p \in Procs, Begin(p) PROVE ErrPollsAbove'
    BY <1>2 DEF Begin, ValidateTx, DeleteErrTx, DeleteOkTx, Prepare,
                GetCacheNonce, Call, ErrPollsAbove, Procs
  <1>3. ASSUME NEW p \in Procs, Continue(p) PROVE ErrPollsAbove'
    <2> SUFFICES ASSUME NEW q \in PoolCallers, pc'[q] = "topPoll"
                 PROVE  HasAbove((queue[ptr[q]])', arg'[q])
      BY DEF ErrPollsAbove
    <2>1. q \in Procs
      BY DEF Procs
    <2>2. queue[ptr[q]] \in NonceQueues /\ arg[q] \in Nat
      BY <2>1
    <2>3. CASE p = q
      <3>1. TopPeek(q)
        BY <1>3, <2>1, <2>3, PollAfterPeek
      <3>2. CachedNonce(queue[ptr[q]]) > arg[q] /\ UNCHANGED <<queue, ptr, arg>>
        BY <2>1, <3>1 DEF TopPeek, Goto, Return
      <3> QED BY <2>2, <3>2, AboveKept
    <2>4. CASE p # q
      <3>1. /\ pc[q] = "topPoll" /\ ptr'[q] = ptr[q] /\ arg' = arg
            /\ \/ queue'[ptr[q]] = queue[ptr[q]]
               \/ \E n \in Nat : queue'[ptr[q]] = Append(queue[ptr[q]], n)
        BY <1>3, <2>4, PollerUndisturbed
      <3>2. HasAbove(queue[ptr[q]], arg[q])
        BY <3>1 DEF ErrPollsAbove
      <3> QED BY <2>2, <3>1, <3>2, AboveKept
    <2> QED BY <2>3, <2>4
  <1> QED BY <1>1, <1>2, <1>3 DEF Next

LEMMA NextIInv == IInv /\ [Next]_vars => IInv'
  BY NextTypeOK, NextRoles, NextAllocation, NextCalling, NextOkPollsLower,
     NextErrPollsAbove DEF IInv

LEMMA IInvHolds == Spec => []IInv
  BY InitIInv, NextIInv, PTL DEF Spec

(***************************************************************************)
(* The state of every goroutine and of the map has the type it should.     *)
(***************************************************************************)
THEOREM TypeCorrect == Spec => []TypeOK
  <1>1. IInv => TypeOK
    BY DEF IInv
  <1> QED BY IInvHolds, <1>1, PTL

(***************************************************************************)
(* DeleteOkTx never removes a nonce at or above the one delivered,         *)
(* whatever Prepare and GetCacheNonce do meanwhile (nonce.go:436-451).     *)
(***************************************************************************)
THEOREM OkDeletesOnlyLower == Spec => []OkPollsLower
  <1>1. IInv => OkPollsLower
    BY DEF IInv
  <1> QED BY IInvHolds, <1>1, PTL

(***************************************************************************)
(* DeleteErrTx removes nothing from a queue that has no nonce above the    *)
(* failed one, whatever Prepare and GetCacheNonce do between its           *)
(* comparison and its poll (nonce.go:410-424).                             *)
(***************************************************************************)
THEOREM ErrDeletesOnlyAbove == Spec => []ErrPollsAbove
  <1>1. IInv => ErrPollsAbove
    BY DEF IInv
  <1> QED BY IInvHolds, <1>1, PTL

(***************************************************************************)
(* At most one pool caller is between its Lock and its Unlock              *)
(* (tx_pool.go:185-186, 261-262).                                          *)
(***************************************************************************)
THEOREM PoolCallersExclude ==
  Spec => [](\A p, q \in PoolCallers :
               pc[p] # "idle" /\ pc[q] # "idle" => p = q)
  <1>1. IInv => \A p, q \in PoolCallers :
                  pc[p] # "idle" /\ pc[q] # "idle" => p = q
    BY DEF IInv, Roles
  <1> QED BY IInvHolds, <1>1, PTL

-------------------------------------------------------------------------------
(***************************************************************************)
(* The cache implements AccountQueue.                                      *)
(***************************************************************************)
QueueStep == [Queue!Next]_<<Stored, Settled, PoolCall>>

(***************************************************************************)
(* The instance's operators are those of NonceQueue.                       *)
(***************************************************************************)
LEMMA SameOperators ==
  /\ Queue!Idle = [call |-> "none", nonce |-> 0]
  /\ Queue!NonceQueues = NonceQueues
  /\ \A q, n : Queue!HasAbove(q, n) = HasAbove(q, n)
  /\ \A q : Queue!CachedNonce(q) = CachedNonce(q)
  BY DEF Queue!Idle, Queue!NonceQueues, NonceQueues, Queue!HasAbove, HasAbove,
         Queue!CachedNonce, CachedNonce

(***************************************************************************)
(* A call that begins touches no queue.                                    *)
(***************************************************************************)
LEMMA BeginStep ==
  ASSUME IInv, NEW p \in Procs, Begin(p)
  PROVE  QueueStep
  <1>1. PICK n \in Nonces, step \in {"get", "top", "bottom", "push"} :
          /\ Call(p, step, n)
          /\ \/ lock = Unlocked /\ lock' = p /\ step # "push"
             \/ lock' = lock /\ p \notin PoolCallers
    BY BoundsAssumption, ProcsAssumption
       DEF Begin, ValidateTx, DeleteErrTx, DeleteOkTx, Prepare, GetCacheNonce, Acquire,
           Nonces
  <1>2. /\ pc \in [Procs -> Steps] /\ arg \in [Procs -> Nat]
        /\ pc[p] = "idle" /\ UNCHANGED <<cache, queue, ptr>>
        /\ pc' = [pc EXCEPT ![p] = step] /\ arg' = [arg EXCEPT ![p] = n]
    BY <1>1 DEF IInv, TypeOK, Call
  <1>3. Stored' = Stored
    BY <1>2 DEF Stored
  <1>4. Settled' = Settled
    <2>1. \A q \in Procs : /\ pc'[q] = "getStore" <=> pc[q] = "getStore"
                           /\ pc'[q] \in Held <=> pc[q] \in Held
      BY <1>1, <1>2 DEF Held
    <2> QED BY <1>2, <2>1 DEF Settled
  <1>5. CASE lock = Unlocked /\ lock' = p
    <2>1. PoolCall = Queue!Idle
      BY <1>5, SameOperators DEF PoolCall
    <2>2. PoolCall' = [call |-> CallOf(step), nonce |-> n]
      BY <1>2, <1>5, ProcsAssumption DEF PoolCall, CallOf
    <2>3. CallOf(step) \in {"add", "ok", "err"}
      BY DEF CallOf
    <2>4. Queue!Begin(CallOf(step), n)
      BY <1>3, <1>4, <2>1, <2>2 DEF Queue!Begin
    <2> QED BY <2>3, <2>4 DEF QueueStep, Queue!Next
  <1>6. CASE lock' = lock /\ p \notin PoolCallers
    <2>1. lock = Unlocked \/ (lock \in Procs /\ lock # p)
      BY <1>6 DEF IInv, TypeOK, Procs
    <2>2. PoolCall' = PoolCall
      BY <1>2, <1>6, <2>1 DEF PoolCall, CallOf
    <2> QED BY <1>3, <1>4, <2>2 DEF QueueStep
  <1> QED BY <1>1, <1>5, <1>6

(***************************************************************************)
(* A step inside a call goes on with the call that has the lock, or it is  *)
(* the last one of that call.                                              *)
(***************************************************************************)
LEMMA CallKept ==
  ASSUME IInv, NEW p \in Procs, Continue(p)
  PROVE  \/ PoolCall' = PoolCall
         \/ /\ p = lock /\ pc'[p] = "idle" /\ PoolCall # Queue!Idle
            /\ PoolCall' = Queue!Idle
  <1>1. /\ arg' = arg /\ \A q \in Procs : q # p => pc'[q] = pc[q]
        /\ IF pc'[p] = "idle" THEN lock' = (IF lock = p THEN Unlocked ELSE lock)
           ELSE lock' = lock
    BY ContinueFrame DEF IInv
  <1>2. lock \in Procs \cup {Unlocked} /\ Unlocked \notin Procs
    BY ProcsAssumption DEF IInv, TypeOK, Procs
  <1>3. CASE lock # p
    BY <1>1, <1>2, <1>3 DEF PoolCall, CallOf
  <1>4. CASE lock = p /\ pc'[p] = "idle"
    <2>1. lock' = Unlocked /\ lock # Unlocked
      BY <1>1, <1>2, <1>4
    <2>2. PoolCall' = Queue!Idle
      BY <2>1, SameOperators DEF PoolCall
    <2>3. PoolCall.call # "none"
      BY <2>1 DEF PoolCall, CallOf
    <2>4. PoolCall # Queue!Idle
      BY <2>3, SameOperators
    <2> QED BY <1>4, <2>2, <2>4
  <1>5. CASE lock = p /\ pc'[p] # "idle"
    <2>1. CallOf(pc'[p]) = CallOf(pc[p])
      BY <1>5 DEF IInv, TypeOK, CallOf, Tops, Bottoms, Continue, GetLoad, GetStore, GetPeek,
         Got, Decide, PushLoad, PushFront, PushBack, PushStore, TopLoad, TopPeek, TopPoll,
         BottomLoad, BottomSize, BottomPeek, BottomPoll, PopLoad, Goto, Return
    <2> QED BY <1>1, <1>5, <2>1 DEF PoolCall
  <1> QED BY <1>3, <1>4, <1>5

(***************************************************************************)
(* Before the cache is settled, nothing is promised.                       *)
(***************************************************************************)
LEMMA UnsettledStep ==
  ASSUME IInv, IInv', NEW p \in Procs, Continue(p), ~ Settled
  PROVE  QueueStep
  <1>1. PoolCall' \in {PoolCall, Queue!Idle}
    BY CallKept
  <1>2. Stored' \in Queue!NonceQueues
    <2>1. <<>> \in NonceQueues
      BY EmptySeq DEF NonceQueues
    <2> QED BY <2>1, SameOperators DEF Stored, IInv, TypeOK
  <1>3. Settled' \in BOOLEAN
    BY DEF Settled
  <1>4. Queue!FirstUse
    BY <1>1, <1>2, <1>3 DEF Queue!FirstUse
  <1> QED BY <1>4 DEF QueueStep, Queue!Next

(***************************************************************************)
(* Once it is, it stays so: every Load hits, and every push stores the     *)
(* queue that is there.                                                    *)
(***************************************************************************)
LEMMA SettledFrame ==
  ASSUME IInv, NEW p \in Procs, Continue(p), Settled
  PROVE  /\ Settled' /\ cache' = cache /\ cache # NoQueue /\ cache \in Procs
         /\ pc[p] \in Held => ptr[p] = cache
  <1> USE DEF IInv, TypeOK
  <1>1. /\ cache # NoQueue /\ cache \in Procs /\ pc[p] # "getStore"
        /\ pc[p] \in Held => ptr[p] = cache
    BY DEF Settled
  <1>2. cache' = cache
    BY <1>1 DEF Continue, GetLoad, GetStore, GetPeek, Decide, PushLoad, PushFront, PushBack,
           PushStore, TopLoad, TopPeek, TopPoll, BottomLoad, BottomSize, BottomPeek,
           BottomPoll, PopLoad, Held
  <1>3. /\ \A q \in Procs : q # p => pc'[q] = pc[q] /\ ptr'[q] = ptr[q]
    <2>1. \A q \in Procs : q # p => ptr'[q] = ptr[q]
      BY DEF Continue, GetLoad, GetStore, GetPeek, Decide, PushLoad, PushFront, PushBack,
             PushStore, TopLoad, TopPeek, TopPoll, BottomLoad, BottomSize, BottomPeek,
             BottomPoll, PopLoad
    <2> QED BY <2>1, ContinueFrame
  <1>4. pc'[p] # "getStore" /\ (pc'[p] \in Held => ptr'[p] = cache)
    <2>1. CASE GetLoad(p) \/ PushLoad(p) \/ TopLoad(p) \/ BottomLoad(p)
      BY <1>1, <2>1 DEF GetLoad, PushLoad, TopLoad, BottomLoad, PopLoad, Goto
    <2>2. CASE GetPeek(p) \/ Decide(p)
      BY <2>2 DEF GetPeek, Decide, Got, Goto, Return, Held
    <2>3. CASE \/ PushFront(p) \/ PushBack(p) \/ PushStore(p) \/ TopPeek(p) \/ TopPoll(p)
               \/ BottomSize(p) \/ BottomPeek(p) \/ BottomPoll(p)
      <3>1. pc[p] \in Held /\ ptr' = ptr
        BY <2>3 DEF PushFront, PushBack, PushStore, TopPeek, TopPoll, BottomSize, BottomPeek,
                    BottomPoll, Held
      <3>2. pc'[p] # "getStore"
        BY <2>3 DEF PushFront, PushBack, PushStore, TopPeek, TopPoll, BottomSize, BottomPeek,
                    BottomPoll, Goto, Return
      <3> QED BY <1>1, <3>1, <3>2
    <2>4. ~ GetStore(p)
      BY <1>1 DEF GetStore
    <2> QED BY <2>1, <2>2, <2>3, <2>4 DEF Continue
  <1> QED BY <1>1, <1>2, <1>3, <1>4 DEF Settled

(***************************************************************************)
(* What a step then does to the account's queue.                           *)
(***************************************************************************)
LEMMA SettledOutcome ==
  ASSUME IInv, NEW p \in Procs, Continue(p), Settled
  PROVE  \/ Stored' = Stored
         \/ Stored' = Append(Stored, arg[p]) /\ pc'[p] # "idle"
         \/ /\ TopPoll(p) /\ pc'[p] # "idle"
            /\ Stored' = SubSeq(Stored, 1, Len(Stored) - 1)
         \/ /\ BottomPoll(p) /\ pc'[p] # "idle"
            /\ Stored' = SubSeq(Stored, 2, Len(Stored))
  <1> USE DEF IInv, TypeOK
  <1>1. /\ cache' = cache /\ cache # NoQueue /\ cache \in Procs
        /\ pc[p] # "getStore" /\ (pc[p] \in Held => ptr[p] = cache)
    BY SettledFrame DEF Settled
  <1>2. Stored = queue[cache] /\ Stored' = queue'[cache]
    BY <1>1 DEF Stored
  <1>3. CASE PushBack(p)
    BY <1>1, <1>2, <1>3 DEF PushBack, Held, Goto
  <1>4. CASE TopPoll(p)
    BY <1>1, <1>2, <1>4 DEF TopPoll, Held, Goto
  <1>5. CASE BottomPoll(p)
    BY <1>1, <1>2, <1>5 DEF BottomPoll, Held, Goto
  <1>6. UNCHANGED queue \/ PushBack(p) \/ TopPoll(p) \/ BottomPoll(p)
    BY <1>1 DEF Continue, GetLoad, GetStore, GetPeek, Decide, PushLoad, PushFront,
                PushStore, TopLoad, BottomLoad, PopLoad, TopPeek, BottomSize, BottomPeek
  <1> QED BY <1>2, <1>3, <1>4, <1>5, <1>6

(***************************************************************************)
(* A delete returns when nothing is left for it.                           *)
(***************************************************************************)
LEMMA NothingLeft ==
  ASSUME IInv, NEW p \in Procs, Continue(p), Settled, pc'[p] = "idle"
  PROVE  /\ Stored' = Stored
         /\ pc[p] \in Tops => CachedNonce(Stored) <= arg[p]
         /\ pc[p] \in Bottoms => Len(Stored) <= 1 \/ Stored[1] >= arg[p]
  <1> USE DEF IInv, TypeOK
  <1>1. /\ cache # NoQueue /\ cache \in Procs
        /\ pc[p] \in Held => ptr[p] = cache
    BY SettledFrame
  <1>2. Stored = queue[cache] /\ Stored \in NonceQueues /\ arg[p] \in Nat
    BY <1>1 DEF Stored
  <1>3. Stored' = Stored
    BY SettledOutcome DEF TopPoll, BottomPoll, Goto
  <1>4. ASSUME pc[p] \in Tops PROVE CachedNonce(Stored) <= arg[p]
    <2>1. TopPeek(p)
      BY <1>1, <1>4
         DEF Tops, Continue, GetLoad, GetStore, GetPeek, Decide, PushLoad, PushFront,
             PushBack, PushStore, TopLoad, TopPoll, BottomLoad, BottomSize, BottomPeek,
             BottomPoll, PopLoad, Goto
    <2>2. ~ (CachedNonce(Stored) > arg[p])
      BY <1>1, <1>2, <2>1 DEF TopPeek, Goto, Held
    <2>3. CachedNonce(Stored) \in Nat
      BY <1>2, CachedNonceType
    <2> QED BY <1>2, <2>2, <2>3
  <1>5. ASSUME pc[p] \in Bottoms PROVE Len(Stored) <= 1 \/ Stored[1] >= arg[p]
    <2>1. BottomSize(p) \/ BottomPeek(p)
      BY <1>1, <1>5
         DEF Bottoms, Continue, GetLoad, GetStore, GetPeek, Decide, PushLoad, PushFront,
             PushBack, PushStore, TopLoad, TopPeek, TopPoll, BottomLoad,
             BottomPoll, PopLoad, Goto
    <2>2. CASE BottomSize(p)
      <3>1. pc[p] = "bottomSize" /\ Len(queue[ptr[p]]) = 1
        BY <2>2 DEF BottomSize, Goto
      <3>2. Len(Stored) = 1
        BY <1>1, <1>2, <3>1 DEF Held
      <3> QED BY <3>2
    <2>3. CASE BottomPeek(p)
      <3>1. Stored = <<>> \/ ~ (Stored[1] < arg[p])
        BY <1>1, <1>2, <2>3 DEF BottomPeek, Goto, Held
      <3>2. Len(Stored) \in Nat /\ (Stored = <<>> => Len(Stored) = 0)
        BY <1>2, LenProperties, EmptySeq DEF NonceQueues
      <3>3. Stored # <<>> => Stored[1] \in Nat
        <4>1. Stored # <<>> => 1 \in 1..Len(Stored)
          BY <1>2, LenProperties, EmptySeq DEF NonceQueues
        <4> QED BY <1>2, <4>1, ElementOfSeq DEF NonceQueues
      <3> QED BY <1>2, <3>1, <3>2, <3>3
    <2> QED BY <2>1, <2>2, <2>3
  <1> QED BY <1>3, <1>4, <1>5

LEMMA SettledStep ==
  ASSUME IInv, NEW p \in Procs, Continue(p), Settled
  PROVE  QueueStep
  <1>1. Settled' = Settled
    BY SettledFrame DEF Settled
  <1>2. ASSUME pc'[p] # "idle" PROVE PoolCall' = PoolCall
    BY <1>2, CallKept
  <1>3. CASE Stored' = Stored
    <2>1. CASE PoolCall' = PoolCall
      BY <1>1, <1>3, <2>1 DEF QueueStep
    <2>2. CASE PoolCall' # PoolCall
      <3>1. /\ p = lock /\ pc'[p] = "idle" /\ PoolCall # Queue!Idle
            /\ PoolCall' = Queue!Idle /\ lock # Unlocked
        BY <2>2, CallKept, ProcsAssumption
      <3>2. PoolCall.call = CallOf(pc[p]) /\ PoolCall.nonce = arg[p]
        BY <3>1 DEF PoolCall
      <3>3. /\ PoolCall.call = "err" => pc[p] \in Tops
            /\ PoolCall.call = "ok" => pc[p] \in Bottoms
        BY <3>2 DEF CallOf
      <3>4. Queue!End
        BY <1>1, <1>3, <3>1, <3>2, <3>3, NothingLeft, SameOperators DEF Queue!End
      <3> QED BY <3>4 DEF QueueStep, Queue!Next
    <2> QED BY <2>1, <2>2
  <1>4. CASE Stored' = Append(Stored, arg[p]) /\ pc'[p] # "idle"
    <2>1. Queue!Push(arg[p])
      BY <1>1, <1>2, <1>4 DEF Queue!Push
    <2>2. arg[p] \in Nonces
      BY DEF IInv, Calling
    <2> QED BY <2>1, <2>2 DEF QueueStep, Queue!Next
  <1>5. ASSUME pc[p] \in Tops \cup Bottoms
        PROVE  /\ p \in PoolCallers
               /\ PoolCall = [call |-> CallOf(pc[p]), nonce |-> arg[p]]
    <2>1. p \in PoolCallers /\ lock = p
      BY <1>5 DEF IInv, Roles, Polls, Tops, Bottoms
    <2> QED BY <2>1, ProcsAssumption DEF PoolCall
  <1>6. pc[p] \in Held => ptr[p] = cache /\ Stored = queue[ptr[p]]
    BY SettledFrame DEF Stored
  <1>7. CASE /\ TopPoll(p) /\ pc'[p] # "idle"
             /\ Stored' = SubSeq(Stored, 1, Len(Stored) - 1)
    <2>1. pc[p] = "topPoll"
      BY <1>7 DEF TopPoll
    <2>2. p \in PoolCallers /\ PoolCall.call = "err" /\ PoolCall.nonce = arg[p]
      BY <1>5, <2>1 DEF CallOf, Tops
    <2>3. Queue!HasAbove(Stored, PoolCall.nonce)
      BY <1>6, <2>1, <2>2, SameOperators DEF IInv, ErrPollsAbove, Held
    <2>4. Queue!DropBack
      BY <1>1, <1>2, <1>7, <2>2, <2>3 DEF Queue!DropBack
    <2> QED BY <2>4 DEF QueueStep, Queue!Next
  <1>8. CASE /\ BottomPoll(p) /\ pc'[p] # "idle"
             /\ Stored' = SubSeq(Stored, 2, Len(Stored))
    <2>1. pc[p] = "bottomPoll"
      BY <1>8 DEF BottomPoll
    <2>2. p \in PoolCallers /\ PoolCall.call = "ok" /\ PoolCall.nonce = arg[p]
      BY <1>5, <2>1 DEF CallOf, Tops, Bottoms
    <2>3. Stored # <<>> /\ Stored[1] < PoolCall.nonce
      BY <1>6, <2>1, <2>2 DEF IInv, OkPollsLower, Held
    <2>4. Stored \in Seq(Nat)
      BY <1>6, <2>1 DEF IInv, TypeOK, Held, NonceQueues
    <2>5. Stored' = Tail(Stored)
      BY <1>8, <2>3, <2>4, TailIsSubSeq
    <2>6. Queue!DropFront
      BY <1>1, <1>2, <1>8, <2>2, <2>3, <2>5 DEF Queue!DropFront
    <2> QED BY <2>6 DEF QueueStep, Queue!Next
  <1> QED BY <1>3, <1>4, <1>7, <1>8, SettledOutcome

LEMMA NextStep == IInv /\ IInv' /\ [Next]_vars => QueueStep
  <1> SUFFICES ASSUME IInv, IInv', [Next]_vars PROVE QueueStep
    OBVIOUS
  <1>1. CASE UNCHANGED vars
    <2>1. Stored' = Stored
      BY <1>1 DEF Stored, vars
    <2>2. Settled' = Settled
      BY <1>1 DEF Settled, vars
    <2>3. PoolCall' = PoolCall
      BY <1>1 DEF PoolCall, CallOf, vars
    <2> QED BY <2>1, <2>2, <2>3 DEF QueueStep
  <1> QED BY <1>1, BeginStep, UnsettledStep, SettledStep DEF Next

LEMMA InitStep == Init => Queue!Init
  BY SameOperators DEF Init, Queue!Init, Stored, Settled, PoolCall

(***************************************************************************)
(* Whatever Prepare and GetCacheNonce do without the lock, once the        *)
(* goroutines that found no queue are out of their calls the cache         *)
(* (nonce.go:366-519), cut at each of its loads, stores, peeks and polls,  *)
(* does what AccountQueue says: no push is lost, only the delete that has  *)
(* the lock takes nonces, at its end of the queue and while it may, and    *)
(* when it returns none is left for it.                                    *)
(***************************************************************************)
THEOREM CacheImplementsQueue == Spec => ImplementsQueue
  <1>1. IInv /\ IInv' /\ [Next]_vars => [Queue!Next]_<<Stored, Settled, PoolCall>>
    BY NextStep DEF QueueStep
  <1>2. Spec => Queue!Spec
    BY <1>1, IInvHolds, InitStep, PTL DEF Spec, Queue!Spec
  <1> QED BY <1>2 DEF ImplementsQueue
===============================================================================
