------------------------------- MODULE NonceCache ------------------------------
(***************************************************************************)
(* app.Nonce (app/nonce.go) for one account, cut at every access to the    *)
(* sync.Map and to the LinkedQueue in it: these are the points where the   *)
(* goroutines that share the cache interleave.                             *)
(*                                                                         *)
(*   - pool callers run txPool.Add, FetchTxs or Delete, hence ValidateTx,  *)
(*     DeleteOkTx and DeleteErrTx, under txPool.appContextLock;            *)
(*   - executors run application.Prepare, which pushes the nonce of every  *)
(*     transaction it executed and takes no lock;                          *)
(*   - readers run application.GetCacheNonce for an RPC (the "pending"     *)
(*     transaction count) and take no lock.                                *)
(*                                                                         *)
(* A goroutine allocates at most one queue for the account: once a Store   *)
(* happened every Load hits.  So a queue is named by its allocator.        *)
(***************************************************************************)
EXTENDS NonceQueue

CONSTANTS
  PoolCallers, Executors, Readers,  \* the goroutines
  NoQueue,      \* sync.Map has no entry for the account
  Unlocked,     \* nobody holds appContextLock
  StateNonce,   \* the account's nonce in the pool's state context
  MaxNonce,     \* bound: the transactions have nonces 0..MaxNonce
  MaxLength     \* bound: no push begins when a queue is this long

Procs  == PoolCallers \cup Executors \cup Readers
Nonces == 0..MaxNonce

ASSUME ProcsAssumption ==
  /\ PoolCallers \cap Executors = {}
  /\ PoolCallers \cap Readers = {}
  /\ Executors \cap Readers = {}
  /\ NoQueue \notin Procs
  /\ Unlocked \notin Procs

ASSUME BoundsAssumption ==
  StateNonce \in Nat /\ MaxNonce \in Nat /\ MaxLength \in Nat

VARIABLES
  cache,   \* nonceCache's entry: the allocator of the stored queue or NoQueue
  queue,   \* the queue each goroutine allocated
  lock,    \* the holder of appContextLock
  pc,      \* where each goroutine is
  arg,     \* the nonce of the transaction it works on
  ptr,     \* the queue its Load returned, or that it allocated
  got      \* what getNonceCache returned to it

vars == <<cache, queue, lock, pc, arg, ptr, got>>

Adds    == {"get", "getStore", "getPeek", "decide",
            "push", "pushFront", "pushBack", "pushStore"}
Tops    == {"top", "topPeek", "topPoll"}
Bottoms == {"bottom", "bottomSize", "bottomPeek", "bottomPoll"}
Steps   == {"idle"} \cup Adds \cup Tops \cup Bottoms

\* the steps at which a goroutine has the queue that its Load returned
Held == {"getPeek", "pushFront", "pushBack", "pushStore", "topPeek", "topPoll",
         "bottomSize", "bottomPeek", "bottomPoll"}

TypeOK ==
  /\ cache \in Procs \cup {NoQueue}
  /\ queue \in [Procs -> NonceQueues]
  /\ lock \in PoolCallers \cup {Unlocked}
  /\ pc \in [Procs -> Steps]
  /\ arg \in [Procs -> Nat]
  /\ ptr \in [Procs -> Procs]
  /\ got \in [Procs -> Nat]

Init ==
  /\ cache = NoQueue
  /\ queue = [p \in Procs |-> <<>>]
  /\ lock = Unlocked
  /\ pc = [p \in Procs |-> "idle"]
  /\ arg = [p \in Procs |-> 0]
  /\ ptr = [p \in Procs |-> p]
  /\ got = [p \in Procs |-> 0]

(***************************************************************************)
(* Control                                                                 *)
(***************************************************************************)
Call(p, step, n) ==
  /\ pc[p] = "idle"
  /\ pc' = [pc EXCEPT ![p] = step]
  /\ arg' = [arg EXCEPT ![p] = n]
  /\ UNCHANGED <<cache, queue, ptr, got>>

Goto(p, step) ==
  /\ pc' = [pc EXCEPT ![p] = step]
  /\ UNCHANGED <<lock, arg>>

\* the call returns; the deferred Unlock runs if it took the lock
Return(p) ==
  /\ pc' = [pc EXCEPT ![p] = "idle"]
  /\ lock' = IF lock = p THEN Unlocked ELSE lock
  /\ UNCHANGED arg

Acquire(p) == lock = Unlocked /\ lock' = p

(***************************************************************************)
(* The calls.  A transaction below StateNonce is refused before the cache  *)
(* is looked at.                                                           *)
(***************************************************************************)
InUse(q) == cache = q \/ \E p \in Procs : pc[p] \in Held /\ ptr[p] = q

Room == \A q \in Procs : InUse(q) => Len(queue[q]) < MaxLength

ValidateTx(p, n) == Acquire(p) /\ n >= StateNonce /\ Room /\ Call(p, "get", n)

DeleteErrTx(p, n) == Acquire(p) /\ Call(p, "top", n)

\* mutant: txPool.Delete forgets appContextLock
DeleteOkTxUnlocked(p, n) == UNCHANGED lock /\ Call(p, "bottom", n)

DeleteOkTx(p, n) == Acquire(p) /\ Call(p, "bottom", n)

Prepare(e, n) == Room /\ Call(e, "push", n) /\ UNCHANGED lock

GetCacheNonce(r) == Call(r, "get", 0) /\ UNCHANGED lock

(***************************************************************************)
(* getNonceCache: a miss stores a new empty queue and reports 0.           *)
(***************************************************************************)
GetLoad(p) ==
  /\ pc[p] = "get"
  /\ \/ /\ cache = NoQueue
        /\ Goto(p, "getStore")
        /\ UNCHANGED ptr
     \/ /\ cache # NoQueue
        /\ ptr' = [ptr EXCEPT ![p] = cache]
        /\ Goto(p, "getPeek")
  /\ UNCHANGED <<cache, queue, got>>

Got(p, n) ==
  /\ got' = [got EXCEPT ![p] = n]
  /\ IF p \in Readers THEN Return(p) ELSE Goto(p, "decide")

GetStore(p) ==
  /\ pc[p] = "getStore"
  /\ queue' = [queue EXCEPT ![p] = <<>>]
  /\ cache' = p
  /\ Got(p, 0)
  /\ UNCHANGED ptr

GetPeek(p) ==
  /\ pc[p] = "getPeek"
  /\ Got(p, CachedNonce(queue[ptr[p]]))
  /\ UNCHANGED <<cache, queue, ptr>>

(***************************************************************************)
(* ValidateTx compares the nonce and calls the interpreter's VerifyTx,     *)
(* which may refuse the transaction.                                       *)
(***************************************************************************)
Decide(p) ==
  /\ pc[p] = "decide"
  /\ \/ arg[p] = Max({StateNonce, got[p]}) /\ Goto(p, "push")
     \/ Return(p)
  /\ UNCHANGED <<cache, queue, ptr, got>>

(***************************************************************************)
(* push                                                                    *)
(***************************************************************************)
\* mutant: push allocates a queue on a hit too
PushLoadAllocates(p) ==
  /\ pc[p] = "push"
  /\ queue' = [queue EXCEPT ![p] = <<>>]
  /\ ptr' = [ptr EXCEPT ![p] = p]
  /\ Goto(p, "pushBack")
  /\ UNCHANGED <<cache, got>>

\* mutant: push does not allocate a queue on a miss
PushLoadUnchecked(p) ==
  /\ pc[p] = "push"
  /\ ptr' = [ptr EXCEPT ![p] = cache]
  /\ Goto(p, "pushFront")
  /\ UNCHANGED <<cache, queue, got>>

PushLoad(p) ==
  /\ pc[p] = "push"
  /\ \/ /\ cache = NoQueue
        /\ queue' = [queue EXCEPT ![p] = <<>>]
        /\ ptr' = [ptr EXCEPT ![p] = p]
        /\ Goto(p, "pushBack")
     \/ /\ cache # NoQueue
        /\ ptr' = [ptr EXCEPT ![p] = cache]
        /\ Goto(p, "pushFront")
        /\ UNCHANGED queue
  /\ UNCHANGED <<cache, got>>

PushFront(p) ==
  /\ pc[p] = "pushFront"
  /\ IF BelowFront(queue[ptr[p]], arg[p]) THEN Return(p) ELSE Goto(p, "pushBack")
  /\ UNCHANGED <<cache, queue, ptr, got>>

PushBack(p) ==
  /\ pc[p] = "pushBack"
  /\ queue' = [queue EXCEPT ![ptr[p]] = Append(@, arg[p])]
  /\ Goto(p, "pushStore")
  /\ UNCHANGED <<cache, ptr, got>>

PushStore(p) ==
  /\ pc[p] = "pushStore"
  /\ cache' = ptr[p]
  /\ Return(p)
  /\ UNCHANGED <<queue, ptr, got>>

(***************************************************************************)
(* popTopNonce and popBottomNonce: the Load, then the loop of peeks and    *)
(* polls (tail calls in the code).                                         *)
(***************************************************************************)
PopLoad(p, from, to) ==
  /\ pc[p] = from
  /\ \/ cache = NoQueue /\ Return(p) /\ UNCHANGED ptr
     \/ cache # NoQueue /\ ptr' = [ptr EXCEPT ![p] = cache] /\ Goto(p, to)
  /\ UNCHANGED <<cache, queue, got>>

TopLoad(p) == PopLoad(p, "top", "topPeek")

\* mutant: the comparison of nonce.go:418 is >=
TopPeekInclusive(p) ==
  /\ pc[p] = "topPeek"
  /\ IF queue[ptr[p]] # <<>> /\ CachedNonce(queue[ptr[p]]) >= arg[p]
     THEN Goto(p, "topPoll") ELSE Return(p)
  /\ UNCHANGED <<cache, queue, ptr, got>>

TopPeek(p) ==
  /\ pc[p] = "topPeek"
  /\ IF CachedNonce(queue[ptr[p]]) > arg[p] THEN Goto(p, "topPoll") ELSE Return(p)
  /\ UNCHANGED <<cache, queue, ptr, got>>

\* mutant: the loop peeks where it should poll
TopPollKeeps(p) ==
  /\ pc[p] = "topPoll"
  /\ Goto(p, "topPeek")
  /\ UNCHANGED <<cache, queue, ptr, got>>

TopPoll(p) ==
  /\ pc[p] = "topPoll"
  /\ queue' = [queue EXCEPT ![ptr[p]] = SubSeq(@, 1, Len(@) - 1)]
  /\ Goto(p, "topPeek")
  /\ UNCHANGED <<cache, ptr, got>>

BottomLoad(p) == PopLoad(p, "bottom", "bottomSize")

BottomSize(p) ==
  /\ pc[p] = "bottomSize"
  /\ IF Len(queue[ptr[p]]) = 1 THEN Return(p) ELSE Goto(p, "bottomPeek")
  /\ UNCHANGED <<cache, queue, ptr, got>>

BottomPeek(p) ==
  /\ pc[p] = "bottomPeek"
  /\ LET q == queue[ptr[p]]
     IN  IF q # <<>> /\ q[1] < arg[p] THEN Goto(p, "bottomPoll") ELSE Return(p)
  /\ UNCHANGED <<cache, queue, ptr, got>>

BottomPoll(p) ==
  /\ pc[p] = "bottomPoll"
  /\ queue' = [queue EXCEPT ![ptr[p]] = SubSeq(@, 2, Len(@))]
  /\ Goto(p, "bottomSize")
  /\ UNCHANGED <<cache, ptr, got>>

Begin(p) ==
  \/ p \in PoolCallers /\ \E n \in Nonces :
       ValidateTx(p, n) \/ DeleteErrTx(p, n) \/ DeleteOkTx(p, n)
  \/ p \in Executors /\ \E n \in Nonces : Prepare(p, n)
  \/ p \in Readers /\ GetCacheNonce(p)

Continue(p) ==
  \/ GetLoad(p) \/ GetStore(p) \/ GetPeek(p) \/ Decide(p)
  \/ PushLoad(p) \/ PushFront(p) \/ PushBack(p) \/ PushStore(p)
  \/ TopLoad(p) \/ TopPeek(p) \/ TopPoll(p)
  \/ BottomLoad(p) \/ BottomSize(p) \/ BottomPeek(p) \/ BottomPoll(p)

Next == \E p \in Procs : Begin(p) \/ Continue(p)

Spec == Init /\ [][Next]_vars

\* a goroutine that is inside a call is scheduled again: nothing in a call blocks
Fairness == \A p \in Procs : WF_vars(Continue(p))

FairSpec == Spec /\ Fairness

-------------------------------------------------------------------------------
(***************************************************************************)
(* Properties                                                              *)
(***************************************************************************)
\* the queue that the next Load finds
Stored == IF cache = NoQueue THEN <<>> ELSE queue[cache]

(***************************************************************************)
(* DeleteOkTx removes only nonces below the one delivered: when it polls   *)
(* the front (nonce.go:448), the front is still the one it compared, even  *)
(* while Prepare pushes and a getter replaces the map's entry.             *)
(***************************************************************************)
OkPollsLower ==
  \A p \in PoolCallers : pc[p] = "bottomPoll" =>
    LET q == queue[ptr[p]] IN q # <<>> /\ q[1] < arg[p]

(***************************************************************************)
(* DeleteErrTx polls the back only while a nonce above the failed one is   *)
(* in the queue (nonce.go:410-424).  What it polls need not be the nonce   *)
(* it compared, since Prepare pushes in between, but it never clears away  *)
(* a queue in which nothing is above.                                      *)
(***************************************************************************)
ErrPollsAbove ==
  \A p \in PoolCallers : pc[p] = "topPoll" => HasAbove(queue[ptr[p]], arg[p])

(***************************************************************************)
(* Calls return, so appContextLock is released: a validation, a getter and *)
(* a push do whatever the others do; a delete, whose loop Prepare can feed *)
(* between every peek and poll (nonce.go:410-452), does if Prepare's       *)
(* pushes for the account cease.                                           *)
(***************************************************************************)
PushesCease == <>[][\A e \in Executors, n \in Nonces : ~ Prepare(e, n)]_vars

CallsReturn ==
  /\ \A p \in Procs : pc[p] \in Adds ~> pc[p] = "idle"
  /\ PushesCease => \A p \in PoolCallers : pc[p] \in Tops \cup Bottoms ~> pc[p] = "idle"

(***************************************************************************)
(* Once nobody is in a call that missed the stored queue, the cache does   *)
(* what AccountQueue promises, with Prepare and GetCacheNonce running at   *)
(* any time in between: pushes are not lost, and nonces leave only by the  *)
(* delete that has the lock, at the right end, until none is left for it.  *)
(***************************************************************************)
Settled ==
  /\ cache # NoQueue
  /\ \A p \in Procs : pc[p] # "getStore" /\ (pc[p] \in Held => ptr[p] = cache)

CallOf(step) ==
  IF step \in Tops THEN "err" ELSE IF step \in Bottoms THEN "ok" ELSE "add"

PoolCall ==
  IF lock = Unlocked THEN [call |-> "none", nonce |-> 0]
  ELSE [call |-> CallOf(pc[lock]), nonce |-> arg[lock]]

Queue == INSTANCE AccountQueue
           WITH nonces <- Stored, settled <- Settled, op <- PoolCall

ImplementsQueue == Queue!Spec

(***************************************************************************)
(* nonce.go:482: push "stores the tx in the cache".  A nonce that is in    *)
(* the cache leaves it only when a delete polls it: no push and no getter  *)
(* of another goroutine loses it.                                          *)
(***************************************************************************)
OnlyDeletesRemove ==
  [][Len(Stored') < Len(Stored) =>
       \E p \in PoolCallers : pc[p] \in {"topPoll", "bottomPoll"}]_vars
===============================================================================
