--------------------------------- MODULE TxPool --------------------------------
(***************************************************************************)
(* The transaction pool (txpool/tx_pool.go) together with what it shares   *)
(* with the application (app/app.go, app/nonce.go): the callers of Add and *)
(* FetchTxs, the goroutines that the removal callback of the pool's lookup *)
(* starts, the consensus thread that prepares and commits blocks, and a    *)
(* restart of the node.                                                    *)
(*                                                                         *)
(* Transactions go through the base interpreter, whose writeState asks for *)
(* the sender's exact nonce.  ValidateTx is two steps, because Prepare     *)
(* pushes without appContextLock.  A push and a Delete of the nonce cache  *)
(* are whole here, which is an abstraction: what Prepare can do to them in *)
(* between, and that a queue may get lost in its first use, is NonceCache. *)
(***************************************************************************)
EXTENDS NonceQueue, FiniteSets

CONSTANTS
  Accounts,
  Txs,          \* records with the from, nonce and gasPrice of a transaction
  Adders,       \* goroutines that call Add or Fallback
  Fetchers,     \* goroutines that call FetchTxs or GetTxs
  Capacity,     \* TxPoolConfig().Capacity
  TxsLimit,     \* the limit FetchTxs is called with
  NoTx, Unlocked,
  Budget        \* bound: how often each kind of event happens

Callers == Adders \cup Fetchers

Events == {"add", "fetch", "block", "loss", "restart"}

ASSUME TxsAssumption ==
  /\ Txs \subseteq [from : Accounts, nonce : Nat, gasPrice : Nat]
  /\ IsFiniteSet(Txs)
  /\ NoTx \notin Txs

ASSUME CallersAssumption ==
  /\ IsFiniteSet(Adders) /\ Adders # {}
  /\ Adders \cap Fetchers = {}
  /\ Unlocked \notin Callers

ASSUME LimitsAssumption ==
  /\ Capacity \in Nat \ {0}
  /\ TxsLimit \in Nat
  /\ Budget \in [Events -> Nat]

(***************************************************************************)
(* A removal is a goroutine of OnRemoveWithReason, or a call of Delete by  *)
(* the chain: at "Expired" or "NoSpace" it is about to delete the key, at  *)
(* "ok" or "err" it waits for appContextLock in Delete(tx, noErr).  A      *)
(* callback with reason Deleted goes to Delete(tx, true) at once.          *)
(***************************************************************************)
Stages   == {"Expired", "NoSpace", "ok", "err"}
Removals == Txs \X Stages

VARIABLES
  entries,     \* txQueue: the transactions in the lookup
  removals,    \* how many removals are at each stage
  nonceCache,  \* app.Nonce: the queue of each account
  lock,        \* the holder of appContextLock
  pc, job,     \* each caller's place and transaction
  keys, data,  \* FetchTxs: the keys still to visit, the transactions taken
  ctxNonce,    \* the nonces in the pool's appContexts
  dbNonce,     \* the nonces in the committed state
  committed,   \* the transactions that committed blocks applied
  block,       \* the block that consensus works on
  budget,      \* what is left of Budget
  reach        \* one more than the highest nonce executed (not in the code)

poolVars   == <<entries, removals>>
callerVars == <<lock, pc, job, keys, data>>
chainVars  == <<dbNonce, committed, block, reach>>
vars == <<poolVars, nonceCache, callerVars, ctxNonce, chainVars, budget>>

Zero == [a \in Accounts |-> 0]

NoBlock == [phase |-> "none", todo |-> {}, ok |-> {}, err |-> {}, cursor |-> Zero]

Blocks == [phase : {"none", "preparing", "prepared"},
           todo : SUBSET Txs, ok : SUBSET Txs, err : SUBSET Txs,
           cursor : [Accounts -> Nat]]

Places == {"idle", "room", "validate", "push", "insert", "fetch", "drop"}

TypeOK ==
  /\ entries \subseteq Txs
  /\ removals \in [Removals -> Nat]
  /\ nonceCache \in [Accounts -> NonceQueues]
  /\ lock \in Callers \cup {Unlocked}
  /\ pc \in [Callers -> Places]
  /\ job \in [Callers -> Txs \cup {NoTx}]
  /\ \A c \in Callers : pc[c] \notin {"idle", "fetch"} => job[c] \in Txs
  /\ keys \in [Callers -> SUBSET Txs]
  /\ data \in [Callers -> SUBSET Txs]
  /\ ctxNonce \in [Accounts -> Nat]
  /\ dbNonce \in [Accounts -> Nat]
  /\ committed \subseteq Txs
  /\ block \in Blocks
  /\ budget \in [Events -> Nat]
  /\ reach \in [Accounts -> Nat]

Init ==
  /\ entries = {}
  /\ removals = [r \in Removals |-> 0]
  /\ nonceCache = [a \in Accounts |-> <<>>]
  /\ lock = Unlocked
  /\ pc = [c \in Callers |-> "idle"]
  /\ job = [c \in Callers |-> NoTx]
  /\ keys = [c \in Callers |-> {}]
  /\ data = [c \in Callers |-> {}]
  /\ ctxNonce = Zero
  /\ dbNonce = Zero
  /\ committed = {}
  /\ block = NoBlock
  /\ budget = Budget
  /\ reach = Zero

Spend(event) ==
  /\ budget[event] > 0
  /\ budget' = [budget EXCEPT ![event] = @ - 1]

Goto(c, step) == pc' = [pc EXCEPT ![c] = step]

(***************************************************************************)
(* lookup.Del: an absent key is ignored, a present one is removed and the  *)
(* callback runs with reason Deleted.                                      *)
(***************************************************************************)
Starting(tx) == IF tx \in entries THEN {<<tx, "ok">>} ELSE {}

Started(new, done) ==
  [r \in Removals |->
     removals[r] + (IF r \in new THEN 1 ELSE 0) - (IF r \in done THEN 1 ELSE 0)]

Del(tx, done) ==
  /\ entries' = entries \ {tx}
  /\ removals' = Started(Starting(tx), done)

-------------------------------------------------------------------------------
(***************************************************************************)
(* Add: a duplicate is refused, then a full pool, both before the lock is  *)
(* taken.  Fallback is a loop of Adds.                                     *)
(***************************************************************************)
Add(c, tx) ==
  /\ c \in Adders
  /\ pc[c] = "idle"
  /\ tx \notin entries
  /\ Spend("add")
  /\ Goto(c, "room")
  /\ job' = [job EXCEPT ![c] = tx]
  /\ UNCHANGED <<poolVars, nonceCache, lock, keys, data, ctxNonce, chainVars>>

\* mutant: the pool counts as full one transaction too late
RoomForOneMore(c) ==
  /\ pc[c] = "room"
  /\ Goto(c, IF Cardinality(entries) <= Capacity THEN "validate" ELSE "idle")
  /\ UNCHANGED <<poolVars, nonceCache, lock, job, keys, data, ctxNonce, chainVars, budget>>

Room(c) ==
  /\ pc[c] = "room"
  /\ Goto(c, IF Cardinality(entries) < Capacity THEN "validate" ELSE "idle")
  /\ UNCHANGED <<poolVars, nonceCache, lock, job, keys, data, ctxNonce, chainVars, budget>>

(***************************************************************************)
(* ValidateTx under appContextLock.  Validate compares the nonce with the  *)
(* larger of the state's and the cache's, and asks the interpreter, which  *)
(* may refuse; Push is the nonce cache's push, and the Unlock.             *)
(***************************************************************************)
\* mutant: a nonce above the one asked for passes too
NonceReached(tx) ==
  tx.nonce >= Max({ctxNonce[tx.from], CachedNonce(nonceCache[tx.from])})

NonceMatches(tx) ==
  /\ tx.nonce >= ctxNonce[tx.from]
  /\ tx.nonce = Max({ctxNonce[tx.from], CachedNonce(nonceCache[tx.from])})

Refused(c) == Goto(c, IF c \in Adders THEN "idle" ELSE "drop")

\* mutant: a refusal returns without the Unlock
ValidateKeepsLock(c) ==
  /\ pc[c] = "validate"
  /\ lock = Unlocked
  /\ lock' = c
  /\ \/ NonceMatches(job[c]) /\ Goto(c, "push")
     \/ Refused(c)
  /\ UNCHANGED <<poolVars, nonceCache, job, keys, data, ctxNonce, chainVars, budget>>

Validate(c) ==
  /\ pc[c] = "validate"
  /\ lock = Unlocked
  /\ \/ NonceMatches(job[c]) /\ Goto(c, "push") /\ lock' = c
     \/ Refused(c) /\ UNCHANGED lock
  /\ UNCHANGED <<poolVars, nonceCache, job, keys, data, ctxNonce, chainVars, budget>>

Push(c) ==
  /\ pc[c] = "push"
  /\ nonceCache' = [nonceCache EXCEPT ![job[c].from] = Pushed(@, job[c].nonce)]
  /\ lock' = Unlocked
  /\ IF c \in Adders
     THEN Goto(c, "insert") /\ UNCHANGED data
     ELSE Goto(c, "fetch") /\ data' = [data EXCEPT ![c] = @ \cup {job[c]}]
  /\ UNCHANGED <<poolVars, job, keys, ctxNonce, chainVars, budget>>

\* addQueue
Insert(c) ==
  /\ pc[c] = "insert"
  /\ entries' = entries \cup {job[c]}
  /\ Goto(c, "idle")
  /\ UNCHANGED <<removals, nonceCache, lock, job, keys, data, ctxNonce, chainVars, budget>>

(***************************************************************************)
(* FetchTxs, and GetTxs without the shortcut for an empty pool: visits the *)
(* keys of a snapshot in any order until it has enough transactions,       *)
(* validates again each one it can still read, and deletes the others.     *)
(***************************************************************************)
Fetch(c) ==
  /\ c \in Fetchers
  /\ pc[c] = "idle"
  /\ entries # {}
  /\ Spend("fetch")
  /\ Goto(c, "fetch")
  /\ keys' = [keys EXCEPT ![c] = entries]
  /\ data' = [data EXCEPT ![c] = {}]
  /\ UNCHANGED <<poolVars, nonceCache, lock, job, ctxNonce, chainVars>>

Enough(c) == keys[c] = {} \/ Cardinality(data[c]) >= TxsLimit

\* mutant: the transaction read for the key is not kept
FetchKeyForgets(c) ==
  /\ pc[c] = "fetch"
  /\ ~ Enough(c)
  /\ \E tx \in keys[c] :
       /\ keys' = [keys EXCEPT ![c] = @ \ {tx}]
       /\ Goto(c, IF tx \in entries THEN "validate" ELSE "drop")
  /\ UNCHANGED <<poolVars, nonceCache, lock, job, data, ctxNonce, chainVars, budget>>

FetchKey(c) ==
  /\ pc[c] = "fetch"
  /\ ~ Enough(c)
  /\ \E tx \in keys[c] :
       /\ keys' = [keys EXCEPT ![c] = @ \ {tx}]
       /\ job' = [job EXCEPT ![c] = tx]
       /\ Goto(c, IF tx \in entries THEN "validate" ELSE "drop")
  /\ UNCHANGED <<poolVars, nonceCache, lock, data, ctxNonce, chainVars, budget>>

Drop(c) ==
  /\ pc[c] = "drop"
  /\ Del(job[c], {})
  /\ Goto(c, "fetch")
  /\ UNCHANGED <<nonceCache, lock, job, keys, data, ctxNonce, chainVars, budget>>

FetchDone(c) ==
  /\ pc[c] = "fetch"
  /\ Enough(c)
  /\ Goto(c, "idle")
  /\ keys' = [keys EXCEPT ![c] = {}]
  /\ UNCHANGED <<poolVars, nonceCache, lock, job, data, ctxNonce, chainVars, budget>>

-------------------------------------------------------------------------------
(***************************************************************************)
(* The lookup drops an entry that got too old, or for lack of space.       *)
(***************************************************************************)
Lose(tx, reason) ==
  /\ tx \in entries
  /\ Spend("loss")
  /\ entries' = entries \ {tx}
  /\ removals' = Started({<<tx, reason>>}, {})
  /\ UNCHANGED <<nonceCache, callerVars, ctxNonce, chainVars>>

(***************************************************************************)
(* OnRemoveWithReason up to its call of Delete: the key of an expired or   *)
(* evicted transaction is deleted once more, without the lock.             *)
(***************************************************************************)
OnRemoveWithReason(tx, reason) ==
  /\ reason \in {"Expired", "NoSpace"}
  /\ removals[<<tx, reason>>] > 0
  /\ entries' = entries \ {tx}
  /\ LET next == <<tx, IF reason = "Expired" THEN "err" ELSE "ok">>
     IN  removals' = [Started(Starting(tx), {<<tx, reason>>}) EXCEPT ![next] = @ + 1]
  /\ UNCHANGED <<nonceCache, callerVars, ctxNonce, chainVars, budget>>

(***************************************************************************)
(* Delete(tx, noErr), under appContextLock.                                *)
(***************************************************************************)
Delete(tx, verdict) ==
  /\ verdict \in {"ok", "err"}
  /\ removals[<<tx, verdict>>] > 0
  /\ lock = Unlocked
  /\ Del(tx, {<<tx, verdict>>})
  /\ nonceCache' = [nonceCache EXCEPT ![tx.from] =
       IF verdict = "ok" THEN PopBottom(@, tx.nonce) ELSE PopTop(@, tx.nonce)]
  /\ UNCHANGED <<callerVars, ctxNonce, chainVars, budget>>

-------------------------------------------------------------------------------
\* mutant: the block is prepared on the state that the pool holds
PrepareOnPoolState(batch) ==
  /\ block.phase = "none"
  /\ Spend("block")
  /\ block' = [NoBlock EXCEPT !.phase = "preparing", !.todo = batch, !.cursor = ctxNonce]
  /\ UNCHANGED <<poolVars, nonceCache, callerVars, ctxNonce, dbNonce, committed, reach>>

(***************************************************************************)
(* Consensus prepares a block of transactions, its own or one it received, *)
(* on the committed state.                                                 *)
(***************************************************************************)
Prepare(batch) ==
  /\ block.phase = "none"
  /\ Spend("block")
  /\ block' = [NoBlock EXCEPT !.phase = "preparing", !.todo = batch, !.cursor = dbNonce]
  /\ UNCHANGED <<poolVars, nonceCache, callerVars, ctxNonce, dbNonce, committed, reach>>

\* Transaction.Less
Less(t, u) == t.nonce < u.nonce \/ (t.nonce = u.nonce /\ t.gasPrice > u.gasPrice)

NextInOrder == {t \in block.todo : \A u \in block.todo : ~ Less(u, t)}

\* writeState of the base interpreter applies a transaction only in this case
Applicable(tx) == tx.nonce = block.cursor[tx.from]

(***************************************************************************)
(* One turn of Prepare's loop.  A transaction that VerifyTx refuses is     *)
(* reported as an error, one that does not apply is not reported at all,   *)
(* one that applies is pushed to the nonce cache, without the lock.        *)
(***************************************************************************)
Refuse(tx) ==
  /\ block' = [block EXCEPT !.todo = @ \ {tx}, !.err = @ \cup {tx}]
  /\ UNCHANGED <<nonceCache, reach>>

Skip(tx) ==
  /\ ~ Applicable(tx)
  /\ block' = [block EXCEPT !.todo = @ \ {tx}]
  /\ UNCHANGED <<nonceCache, reach>>

Apply(tx) ==
  /\ Applicable(tx)
  /\ block' = [block EXCEPT !.todo = @ \ {tx}, !.ok = @ \cup {tx},
                            !.cursor[tx.from] = tx.nonce + 1]
  /\ nonceCache' = [nonceCache EXCEPT ![tx.from] = Pushed(@, tx.nonce)]
  /\ reach' = [reach EXCEPT ![tx.from] = Max({@, tx.nonce + 1})]

PrepareTx(tx) ==
  /\ block.phase = "preparing"
  /\ tx \in NextInOrder
  /\ Refuse(tx) \/ Skip(tx) \/ Apply(tx)
  /\ UNCHANGED <<poolVars, callerVars, ctxNonce, dbNonce, committed, budget>>

\* the list is done, or the block's gas is used up
PrepareEnd ==
  /\ block.phase = "preparing"
  /\ block' = [block EXCEPT !.phase = "prepared", !.todo = {}]
  /\ UNCHANGED <<poolVars, nonceCache, callerVars, ctxNonce, dbNonce, committed,
                 budget, reach>>

(***************************************************************************)
(* Commit, and what the chain's event makes of it: a Delete for every      *)
(* transaction of the block and for every one that failed.  A block that   *)
(* is not agreed on is forgotten.                                          *)
(***************************************************************************)
Commit ==
  /\ block.phase = "prepared"
  /\ dbNonce' = block.cursor
  /\ committed' = committed \cup block.ok
  /\ removals' = Started((block.ok \X {"ok"}) \cup (block.err \X {"err"}), {})
  /\ block' = NoBlock
  /\ UNCHANGED <<entries, nonceCache, callerVars, ctxNonce, budget, reach>>

Abandon ==
  /\ block.phase = "prepared"
  /\ block' = NoBlock
  /\ UNCHANGED <<poolVars, nonceCache, callerVars, ctxNonce, dbNonce, committed,
                 budget, reach>>

(***************************************************************************)
(* The node stops and starts: the pool and the nonce cache are in memory,  *)
(* Start opens a state context at the current block.                       *)
(***************************************************************************)
Restart ==
  /\ Spend("restart")
  /\ entries' = {}
  /\ removals' = [r \in Removals |-> 0]
  /\ nonceCache' = [a \in Accounts |-> <<>>]
  /\ lock' = Unlocked
  /\ pc' = [c \in Callers |-> "idle"]
  /\ job' = [c \in Callers |-> NoTx]
  /\ keys' = [c \in Callers |-> {}]
  /\ data' = [c \in Callers |-> {}]
  /\ ctxNonce' = dbNonce
  /\ block' = NoBlock
  /\ UNCHANGED <<dbNonce, committed, reach>>

-------------------------------------------------------------------------------
Call(c) == Fetch(c) \/ \E tx \in Txs : Add(c, tx)

Continue(c) ==
  \/ Room(c) \/ Validate(c) \/ Push(c) \/ Insert(c)
  \/ FetchKey(c) \/ Drop(c) \/ FetchDone(c)

Consensus ==
  \/ \E batch \in SUBSET Txs : Prepare(batch)
  \/ \E tx \in Txs : PrepareTx(tx)
  \/ PrepareEnd \/ Commit \/ Abandon

Next ==
  \/ \E c \in Callers : Call(c) \/ Continue(c)
  \/ \E tx \in Txs, stage \in {"Expired", "NoSpace"} :
       Lose(tx, stage) \/ OnRemoveWithReason(tx, stage)
  \/ \E tx \in Txs, verdict \in {"ok", "err"} : Delete(tx, verdict)
  \/ Consensus
  \/ Restart

Spec == Init /\ [][Next]_vars

(***************************************************************************)
(* A goroutine that can run is scheduled; Go's mutex hands itself over to  *)
(* a goroutine that waited too long, hence strong fairness where           *)
(* appContextLock is taken.                                                *)
(***************************************************************************)
Fairness ==
  /\ \A c \in Callers :
       WF_vars(Continue(c)) /\ SF_vars(Validate(c))
  /\ \A tx \in Txs :
       /\ WF_vars(OnRemoveWithReason(tx, "Expired"))
       /\ WF_vars(OnRemoveWithReason(tx, "NoSpace"))
       /\ SF_vars(Delete(tx, "ok"))
       /\ SF_vars(Delete(tx, "err"))

FairSpec == Spec /\ Fairness

-------------------------------------------------------------------------------
(***************************************************************************)
(* Properties                                                              *)
(***************************************************************************)
Adding == {c \in Adders : pc[c] \in {"validate", "push", "insert"}}

(***************************************************************************)
(* Add compares Len with Capacity before it validates and inserts          *)
(* (tx_pool.go:148-159), so the pool can overshoot, but by less than the   *)
(* number of goroutines that add.                                          *)
(***************************************************************************)
PoolBound ==
  Cardinality(entries) + Cardinality(Adding) < Capacity + Cardinality(Adders)

(***************************************************************************)
(* No transaction gets ahead of its account (tx_pool.go:6): whatever is in *)
(* the nonce cache, in the pool or past the nonce check of ValidateTx      *)
(* (app.go:173-189) has the nonce of the pool's state, or one that some    *)
(* block already executed, although pushes, pops, Prepare and removals     *)
(* interleave.                                                             *)
(***************************************************************************)
Reached(a, n) == n = ctxNonce[a] \/ n < reach[a]

NoGap ==
  /\ \A a \in Accounts : \A i \in 1..Len(nonceCache[a]) : Reached(a, nonceCache[a][i])
  /\ \A tx \in entries : Reached(tx.from, tx.nonce)
  /\ \A c \in Callers : pc[c] \in {"push", "insert"} => Reached(job[c].from, job[c].nonce)

(***************************************************************************)
(* A block may be prepared from any transactions, several with one nonce   *)
(* among them, and be abandoned, and the node may restart; still the       *)
(* blocks that are committed applied, for each account, exactly one        *)
(* transaction of each nonce below the state's (app.go:243-290,            *)
(* baseInterpreter.go:92).                                                 *)
(***************************************************************************)
ExactlyBelow(txs, a, n) ==
  /\ \A tx \in txs : tx.from = a => tx.nonce < n
  /\ \A k \in 0..(n - 1) : \E tx \in txs : tx.from = a /\ tx.nonce = k
  /\ \A t, u \in txs : t.from = a /\ u.from = a /\ t.nonce = u.nonce => t = u

LedgerExact == \A a \in Accounts : ExactlyBelow(committed, a, dbNonce[a])

(***************************************************************************)
(* Every removal gets to the nonce cache in the end: the callbacks that    *)
(* removals start themselves (tx_pool.go:89, 267) die out, and no path of  *)
(* ValidateTx keeps appContextLock.                                        *)
(***************************************************************************)
RemovalsRun == \A r \in Removals : removals[r] > 0 ~> removals[r] = 0

(***************************************************************************)
(* tx_pool.go:259: Delete is for transactions "that the blockchain has     *)
(* processed, or that are in the database already".  Whatever it takes out *)
(* of the pool, at once or in a removal callback, is in a committed block. *)
(***************************************************************************)
OnlyProcessedDeleted ==
  [][\A tx \in entries, verdict \in {"ok", "err"} :
       Delete(tx, verdict) => tx \in committed]_vars
===============================================================================
