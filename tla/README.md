# chain5j-stateApp in TLA+

chain5j-stateApp is the state application of a chain5j node: it validates transactions and keeps them in a
pool, executes blocks through a set of interpreters, commits the resulting state, and has the peer
bookkeeping for broadcasting transactions. This directory holds TLA+ models of it, the TLC configurations that
check them, and proofs checked by TLAPS.

The paths below are relative to `src/`.

## The system

| Part | Code | State | Operations |
| --- | --- | --- | --- |
| Nonce cache | `app/nonce.go` 348-519 | a `sync.Map` from account to a linked queue of nonces | `getOrNewNonceCache`, `push`, `DeleteOkTx` (polls low nonces from the front), `DeleteErrTx` (polls high nonces from the back) |
| Transaction pool | `txpool/tx_pool.go` | `txQueue` (a lookup with expiry and a removal callback), `appContexts` (state of the start), `appContextLock` | `Add`, `Fallback`, `FetchTxs`, `GetTxs`, `Delete`, `ValidateTx`, `OnRemoveWithReason`, `Start` |
| Block execution | `app/app.go`, `app/app_context.go`, `interpreter.go` | a state context: state database, gas pool, receipts | `ValidateTx`, `Prepare`, `Commit`, `NewAppContexts` |
| Interpreters | `interpreter/*` | none of their own; they change the context's state | `VerifyTx`, `ApplyTransaction` |
| Account tree | `interpreter/accountInterpreter/*`, `interpreter/lostInterpreter/*` | in the state database: accounts by name, domains with their administrators, requests for lost accounts | `RegisterAccount`, `RegisterDomain`, `FrozenAccount`, `UpdatePermission`, `SetPartner`, `LostRequest`, `FoundRequest`, `LostReset` |
| Transaction list by nonce | `app/nonce.go` 1-346 | a map by nonce, a heap of nonces, a cache of the sorted list, two caps | `Add`, `Forward`, `Filter`, `Cap`, `Remove`, `Ready`, `Flatten` |
| Peers and broadcast | `txpool/tx_manager.go` | the peers by id; each has a queue, a stop channel and a set of known transactions | `Register`, `Deregister`, `Close`, `BroadcastTxs`, `MarkTransaction` and the goroutine `broadcast` |
| Transaction | `transaction_state.go` | the transaction and caches of its hash and signer | `Less`, `Cost`, `Hash`, `Signer`, `Serialize`, `Deserialize`, RLP coding, `Sign` |
| RPC | `app/api*.go`, `txpool/api.go` | none | queries |

How they interact. A caller of `Add` passes the capacity check, then `ValidateTx` takes `appContextLock`,
compares the nonce with the larger of the state's and the cache's, asks the interpreter, pushes the nonce to
the cache and releases the lock; only then is the transaction inserted. `FetchTxs` does the same again for every
transaction it hands to consensus, and deletes the ones that fail. Every deletion, expiry and eviction makes
the lookup start a goroutine with `OnRemoveWithReason`, which may delete again (hence start another one) and
ends in `Delete`, where the lock is taken once more and the nonce cache is trimmed at one end or at the other.
`Prepare` runs on the consensus side, without the pool's lock, and pushes to the same cache. `Commit` makes the
state durable; the chain then reports every transaction of the block to `Delete`.

What is hard here:
- the nonce cache is shared by goroutines with a lock (the pool's) and without one (`Prepare`, `GetCacheNonce`),
  and its operations are sequences of atomic accesses;
- removals run later than what caused them, in any order, more than once, and trim the cache on a guess about
  why the transaction left;
- the pool validates against a state that never changes, while blocks change the chain's;
- execution fails at many places, some after state or gas has changed, and the revert is never reached;
- costs and receipts are computed in 64-bit arithmetic that wraps around;
- the transaction list keeps three views of one set (map, heap, sorted cache) and two caps to save work;
- peers leave and come back while goroutines still hold their objects;
- rights are checked against the caller's at each step, while what counts is what a sequence of registrations, updates
  and recoveries makes of the tree, with two clocks (the block's and the node's) in it;
- a transaction's hash is computed once for each object, from a signature that `Signer` changes.

What makes the parts correct:
- nonce cache: once the account has its queue, no push is lost and only a delete takes nonces, those that it may and all of
  those; calls return;
- pool: nothing in it, in the cache or past validation is ahead of the account; the overshoot of the capacity is
  bounded; every removal gets through;
- execution: blocks apply one transaction per account and nonce; no value and no gas appears or disappears in a way that is
  not named; no
  balance goes below zero; the gas limit is overshot by at most one transaction;
- list: it answers like a map by nonce; a strict list has no gap that a removal made;
- peers: no channel is closed twice, no broadcaster is lost, a stopped one ends, and what is taken for known was
  queued or heard;
- account tree: an administrator has permissions and a domain an administrator, a right comes from above, a
  registered account is not overwritten, and nobody takes an account over unannounced;
- transaction: what the pool gives back answers to the hash that it is stored under.

## The modules

| Module | Models | Extends / uses |
| --- | --- | --- |
| `NonceQueue` | what a whole `push`, pop and read does to one account's queue | |
| `AccountQueue` | what the nonce cache promises about one account's queue while everybody works on it | `NonceQueue` |
| `NonceCache` | the calls cut at every access to the map and the queue, with the pool's lock | `NonceQueue`; implements `AccountQueue` |
| `TxPool` | pool, callers, removal goroutines, consensus, restart | `NonceQueue` |
| `TxIdentity` | the copies of one transaction on several nodes: hash, signer, caches, encodings, pool entries | |
| `Execution` | `Prepare` and `Commit` over all interpreters | |
| `Accounts` | accounts, domains, permissions, recoveries | |
| `NonceOrder` | the order of a list's nonces | |
| `TxMap` | what a transaction list promises: a map by nonce | `NonceOrder` |
| `TxList` | `txList` and `txSortedMap` with heap, cache and caps | `NonceOrder`; implements `TxMap` |
| `PeerSet` | peers, broadcasters, broadcasting callers | |
| `DataTheorems` | facts about sets of naturals, sums over finite sets and nonce queues | `NonceQueue`, TLAPS |
| `NonceCacheProofs`, `TxPoolProofs`, `TxIdentityProofs`, `ExecutionProofs`, `AccountsProofs`, `TxListProofs`, `PeerSetProofs` | theorems | the module of their name, `DataTheorems`, TLAPS |
| `MC*` | constants for TLC | the module of their name |

Operators that a comment calls `mutant` are a definition of the code with a plausible bug in it; PROJECT.json
pairs each of them with the property that then fails. They are not part of any specification.

### NonceCache

The model has one account. `cache` is the entry of the `sync.Map`, named by the goroutine that allocated the stored queue
(once there is an entry every `Load` hits, so a goroutine allocates at most once); `queue` is what each of them
allocated, `ptr` the queue a goroutine works on, `got` what it read. `pc` goes through the accesses: `GetLoad`,
`GetStore` and `GetPeek` are `getNonceCache`, `PushLoad`, `PushFront`, `PushBack` and `PushStore` are `push`,
`Top*` and `Bottom*` are the polling loops. `ValidateTx`, `DeleteOkTx` and `DeleteErrTx` take `appContextLock`,
`Prepare` and `GetCacheNonce` do not. One call of `LinkedQueue` is one step, because the queue has a lock of its own.

What is left of a call's effect when the accesses interleave is `AccountQueue`. Once the cache is `Settled` (there is an entry, and
nobody works on another queue or is about to store one) it stays so: every push appends to the queue, a delete that has the lock takes
nonces one by one, from the front while the front is lower than its own, from the back while a nonce above its own is there, and when it returns
it has nothing left to take. Prepare and GetCacheNonce run at any time in between; no restriction is put on them. Before that moment nothing is
promised, because nothing is true: `getNonceCache` and `push` store a new queue without looking again, and pushes get lost (the finding `cache_lost`).
That the moment comes is not claimed either: it takes that the goroutines that missed finish, and no new account queue is created after that.
AccountQueue does not say that a delete is atomic or that the queue is in order; neither is the case.

`CallsReturn` has a premise for the two deletes. Their loops peek and poll in turn, and `Prepare` may push in every gap, so that under weak
fairness alone there is a behaviour in which a delete, with `appContextLock`, never returns. It takes that Prepare pushes for the account for
ever, in step with the loop. `PushesCease` excludes it: from some time on `Prepare` begins no more pushes for the account. Pushes and reads
return without a premise.

### TxPool

`entries` is the lookup, `removals` counts the goroutines of the callback and the calls of `Delete` by the
stage they are at, `nonceCache` has the queue of each account, `ctxNonce` the nonces of the state the pool was
started with, `dbNonce` those of the committed state, `block` what consensus works on. `pc` puts a caller of `Add`
or `FetchTxs` between the capacity check, validation, push and insertion. `reach` is a history variable.

Three simplifications, with their reasons:
- A push and a trim of the nonce cache are whole. This is an abstraction and not a consequence of `NonceCache`: in the code
  Prepare's push may fall between two polls of a trim, and the first pushes for an account may be lost. What the pool's properties need is that
  a nonce in the cache came from a push, which is so in `NonceCache` too. `ValidateTx` is still two steps (`Validate`,
  `Push`), since `Prepare` may push in between.
- `Delete` removes the key and trims the cache in one step, although only the trimming depends on the lock. The
  other steps that read `entries` in between would see the key already gone, which is what they see if they run after it,
  and none of them that changes `entries` reads the cache.
- `FetchTxs` compares the size with zero and takes the keys in one step: an empty snapshot ends the call in
  either case.

Transactions go through the base interpreter, whose nonce check is exact. The nonces a block may execute depend on
that. A refusal by the interpreter (balance, signature, account) is nondeterministic in `Validate` and
in `Refuse`.

`Add` is cut where the code reads: the key (`Add`), the size (`Room`), then the validation.

### TxIdentity

`TxPool` takes a transaction for what it is, whichever object carries it. The code goes by `Hash()`, and this module says when
that is the same. An object is whether the signature has its public key, and the two caches; `HashOf` and
`SignerAsked` are `Hash` and `Signer`, `Sent` is what RLP keeps (no caches), `Deserialized` what `Serialize` and
`Deserialize` keep (the caches, an empty one as zero). `models.TxEncode` is external, so `carries` says which of the two it
does; `keyed` and `asks` are whether the client sends the public key and whether the interpreter asks for the signer. `recovers` says from
which signatures, with the key in it or without, the external `RecoverPubKey` can recover the key: `Signer` clears the key first and fails
after that, an interpreter that asks then refuses the transaction, and `Deserialize` fails, so that the pool has an entry that gives nothing. `objects`
has all states that an object of a node was in, so that a call may find any of them. `Hash` and `Signer` are one step
each: two goroutines with one object are not looked at. That the public key is hashed as a part of the signature is read off
`getSignedHash`; if the external `SignResult` leaves it out of its encoding, `keyed` behaves as if it were false.

### Execution

`state` and `committed` are balances and nonces, `gasPool` and `usedGas` the block's counters, `receipts` the list
Prepare builds and Commit rewrites, `spoilt` (a history variable) the transactions that failed after gas was used: contract
transactions after `buyGas`, and transfers with a wrong nonce. `erased` (another one) is what accounts had that a domain was registered over. `Settled` is what a call's end does to the balances. Each
interpreter is one action or a few: `BaseApply`, `AccountApply` (account and lost), `DomainApply` (a `RegisterDomain`, which creates the
account of the administrator and so sets the balance and nonce of an existing one to zero), `PermissionApply`, `CaApply`,
and `ContractReject`, `ContractBlockFull`, `ContractSpoil`, `ContractApply` for the two contract interpreters, which
differ in the nonce check. A chain has either the state of the Ethereum interpreter or that of the others, so `useEthereum` is chosen at
the start. The EVM is external: a call returns any amount of gas, any refund of at most half of what was used, and
succeeds or is undone. A refusal other than for the balance (signature, frozen account, permission, a domain
that exists already) is nondeterministic. `checkInterpreters` is asked by `ValidateTx` and not by `Prepare`, so a block may have transactions
of both address models, and an interpreter whose state database the context does not have follows a nil pointer: `Panic`. An interpreter name that is not
registered at all would do the same and is not among the kinds. `EvmStateDB` is taken to resolve the signer's address to the account `tx.From()`.
`Prepare`'s push to the nonce cache is in `TxPool` and `NonceCache` and not here. A commit that fails is `Abandon`. Gas limits are
below `Word`, as the code's are 64 bits wide.

### Accounts

`accounts` and `domains` are what the two interpreters read and write through the state database, which is external; an
account is its `AccountStore` without the balance. Each operation is one action with the checks of `VerifyTx` in front,
since `ApplyTransaction` verifies again and returns on the first error. `now` is the node's clock, `header` the time of the
block that is executed, and they move independently but for `header <= now`. A registration decodes
the whole `AccountStore` from the transaction, and nothing looks at the map in it that keeps the partner and the recovery request, so an account may
be created with both (`Extras`). `asked`, `carried` and `recovered` are history
variables: the requests of an account's partner since the last reset, the request that came with the registration, and the addresses that came by a
recovery. A
transaction may be applied any number of times, since no nonce is compared. A domain is the sequence of its labels, so
that the code's suffix test on strings is the suffix of a sequence.

`GenesisAssumption` says what the first block must have: administrators are those with permissions, addresses are
distinct, each domain has its administrator, no recovery is pending. What else is in an account's map, a request in it that does not
decode, the normalisation of names and the new account's balance are left out.

### TxList

`items`, `index` and `cache` are the map, the heap and the cached sorted slice; `costCap` and `gasCap` are
the caps. `container/heap` is taken for what it does: `index` has the nonces in the order in which they would be popped, and
`Popped`, `HeapPush` and `Ascending` stand for `heap.Pop`, `heap.Push` and `heap.Init`. `Cap` is called with thresholds up to the
number of transactions: above it nothing happens, as at it. The price threshold wraps at `Word`. `TxMap` is a function
from nonces to transactions with the answers of each call. In the repository only the test uses `txList`.

### PeerSet

An object of `Peers` is one `peer`, `IdOf` its id, so one peer that reconnects is two objects. `loop` is where
its goroutine is, `queue` its channel, `known` its `knownTxs`, `stopped` the objects whose stop channel is closed.
Closing a closed channel sets `panicked`, after which nothing runs. A caller of `BroadcastTxs` is cut where
the set's lock is released and between queueing and marking. There is no bound on the calls: callers broadcast and mark for ever, also with
objects that they picked before a `Deregister`, and `Close` leaves the peers in the map, so their queues go on being filled. A panic
within `Close` leaves `closed` as it was. `reason` is a history variable, and `Batches` is what `BroadcastTxs` may be called with.

## What is checked

All runs finish with two workers in less than three minutes.

| Run | Shows |
| --- | --- |
| `cache` | `NonceCache` implements `AccountQueue`, `DeleteOkTx` polls only lower nonces (`OkPollsLower`), `DeleteErrTx` polls only while a higher one is there (`ErrPollsAbove`), and calls return (`CallsReturn`), with `Prepare` and `GetCacheNonce` racing. Two pool callers, an executor, a reader, nonces 0..2, state nonce 1, an empty queue when a push begins, any number of calls. |
| `pool_safety` | `NoGap` and `PoolBound`: two adders, one fetcher, three transactions (two with one nonce, one with the next), three adds, a block, a restart, capacity 1. |
| `pool_blocks` | `LedgerExact` over two blocks, each of any of two transactions with one nonce (whatever the pool has), an expiry or eviction, and a restart; `RemovalsRun`: the callbacks die out. |
| `identity` | `PoolAnswers`, `NeverZero` and `DeleteReaches`: one transaction on two nodes, with and without a public key, with signatures from which it can be recovered or not, under both encodings. No bound. |
| `execution` | `ValueConserved`, `BalancesCovered`, `GasAccounted`, `UsedGasBound`, `NoncesCounted`, `UsedGasExplained`, `ReceiptGasKept`: any block of up to four transactions out of fourteen, of every kind, under both address models. |
| `accounts` | `AdminsHavePermissions`, `DomainsHaveAdmin`, `RightsHaveSource`, `AddressesDistinct`, `RegisteredKept`, `TakeoversAnnounced`: three transactions on five names in three levels and beside them, with time passing, and registrations that carry a partner and a request, or not. |
| `list` | `TxList` implements `TxMap`, strict or not, and removals open no gap in a strict list. Five transactions over nonces 1, 2, 3, 5. |
| `peers` | `PanicsOnlyClosed`, `NoOrphans`, `KnownHasReason`, `BroadcastersStop`: a peer and its successor with the same id, one caller that broadcasts and marks two transactions for ever, also after `Deregister` and `Close`, queue length 1. |

These runs refute what a comment of the code says:

| Run | Property | What happens |
| --- | --- | --- |
| `cache_lost` | `OnlyDeletesRemove` | `getNonceCache` and `push` store a new queue when their `Load` missed, over one that another goroutine's push has stored since (`app/nonce.go:469`, 517). |
| `pool_readd` | `OnlyProcessedDeleted` | The callback of an expiry runs late and deletes the transaction that was added again, which no block has (`txpool/tx_pool.go:94`, 267). |
| `execution_failure` | `FailureLeavesState` | The branch with `RevertToSnapshot` is unreachable (`app/app.go:274`). |
| `accounts_grant` | `WithinCaller` | An administrator without `registerDomain` gives it to one below: `IsValidPermission` does not compare it (`permission.go:12-29`). |

The models show more of the same sort, for which there is no run:
- `setAppContexts` is never called (`txpool/tx_pool.go:198`): the pool validates against the state of its start, so a
  transaction below the committed nonce is valid, against the comment at `app/app.go:166`. `LedgerExact` shows that blocks cope with it.
- Only one of four places that add to `knownTxs` makes room for it (`txpool/tx_manager.go:60`, 89 and 208, against line 19).
- A pushed nonce may be smaller than one in the cache (`app/app.go:285` against the comment at line 143).
- `DeleteErrTx` leaves nonces above the failed one (`app/nonce.go:418` against the comment at 367): it stops at the first
  nonce from the back that is not above, and a block that is prepared again pushes its nonces behind higher ones.
- The pool accepts several transactions with one nonce, since the cache keeps the nonce and not its successor
  (`app/nonce.go:500`, where the `+1` is commented out, against `txpool/tx_pool.go:6`). `LedgerExact` shows that blocks cope with it.
- A transaction that `FetchTxs` refuses is deleted as if the chain had processed it (`txpool/tx_pool.go:97` against 259).
- The pool exceeds its capacity (`txpool/tx_pool.go:147`). `PoolBound` says by how much at most.
- A transfer with the wrong nonce adds its gas to the block's and gives no receipt (`baseInterpreter.go:70`).
- `Commit` computes wrong gas for the receipt of a permission transaction and for the one after it (`app/app.go:326`).
- The EVM interpreter executes a nonce that is too high (`evmInterpreter/state_transition.go:157-164`).
- `Ready` stops at a gap and leaves nonces below `start` (`app/nonce.go:160-169`).
- The price threshold of a replacement wraps around for a large price (`app/nonce.go:233`).
- Two broadcasts can queue a transaction twice for one peer (`txpool/tx_manager.go:246`).
- The gas of a permission transaction is not in the block's, although Prepare says that it computes it (`app/app.go:243`, against
  `permissionInterpreter/interpreter.go:227`). `UsedGasExplained` says what the block's gas is.
- A transaction whose signature came with its public key is known by another hash on the nodes that it is sent to, so
  their blocks do not delete it from the pool of the first (`transaction_state.go:232`; `DeleteReaches` excludes the case). A
  CA transaction that was serialised answers with the zero signer (line 141; `NeverZero` says so).
- `EnableUpdateUser` and `EnableFrozenUser` are compared but never asked for (`permission.go:18-22`): being an administrator is enough.
- A domain may be registered above an existing one, and its administrator's account overwrites one of that name that
  was registered before the domain, with its balance and nonce (`register.go:154`). `RegisteredKept`, `TakeoversAnnounced`, `ValueConserved` and
  `NoncesCounted` name the case.
- An account may be registered with a recovery request that its partner never made and that no interval holds back
  (`accountInterpreter.go:61`, `lostinterpreter.go:177`). `TakeoversAnnounced` names the case (`Carried`).
- `Prepare` does not ask `checkInterpreters` (`app/app.go:255` against 160): a block with a transaction of the other address model
  panics.
- A CA transaction whose signature nobody can recover enters the pool, and its entry never decodes if it was serialised
  (`transaction_state.go:136`); `FetchTxs` takes it out (`PoolAnswers` names the case).
- `lostFoundInterval` is `60 * 3600 * 24 * 2`, "two days" in the comment (`lostinterpreter.go:24`): sixty times as long in seconds, less
  than three hours in milliseconds.
- The permission service is changed while a block is prepared and not changed back when the block is abandoned, and its
  COLLEAGUE and OBSERVER transactions do nothing and get a receipt of success (`permissionInterpreter/interpreter.go:163-217`).
- A second `Prepare` on a context would append its receipts to those of the first (`app/app_context.go:38`).
- `txpool/tx_list.go`, which nothing uses: `CanInsert` shadows `old`, so `add` never returns what it replaced (line 61); `All` copies
  into an empty slice; `Del` writes the map without the lock.

### Bounds

- `MaxLength` and `MaxNonce` in `NonceCache`: no push begins while a queue in use has `MaxLength` nonces (those that have begun go
  on: an executor and a pool caller that both begin at an empty queue make it two long, so that `DeleteOkTx`, which leaves a single
  nonce alone, has one to poll), and calls are unbounded. A race needs a getter, a pusher and a delete, with a nonce below, equal and above the
  state's. The view `Live` hides what nobody will read before it is written: queues that are not in use, and the variables of goroutines
  that are not in a call that reads them. Two states with one view have the same steps, so neither safety nor liveness tells them apart. The theorems hold for
  every length.
- `Budget` in `TxPool`: how many adds, fetches, blocks, losses and restarts a behaviour has. Three adds let two
  callers pass the check of a pool that one of them has filled already. Two blocks are what it takes to execute
  the second of two transactions with one nonce. The theorems hold for every budget.
- `MaxTxs`, `MaxBlocks` in `Execution`: four transactions reach the block's gas limit on every path. A second block
  starts from any balances and nonces that the first one left, with the same counters as the first.
- `MaxTxs`, `MaxTime`, `Names`, `Extras` in `Accounts`: three transactions are a request, a second request or a
  reset, and a recovery; or an administrator, an update and an administrator below; or an account and a domain registered over it. Three levels
  are what it takes for a right to be passed on twice. An interval of 1 on a clock up to 2 lets a second request come after the first. A
  registration carries nothing, or a partner and a request that answers from the time 1 on. The theorems hold for every tree,
  interval, number of transactions and content of a registration.
- Gas is 2 where the code has 21000, and `Word` is 8, so that the cost of one of the transactions wraps around.
- `Word` is 2^20 in the list, where prices do not wrap: that case is described above.
- Queue and known set hold one entry in `PeerSet`: full after one broadcast, of one of two transactions. There is one caller; the theorems
  hold for any number, and for broadcasts of any transactions.

### Deadlock and fairness

`TxPool`, `Execution` and `Accounts` are bounded in events, so they stop when these are used up, and `PeerSet` stops after a panic.
Deadlock is checked for the others. `CallsReturn`, `RemovalsRun` and `BroadcastersStop` say that nobody waits for ever.

- Goroutines that can run are scheduled: weak fairness of every step of a caller, of the removal callback and of the
  broadcaster (as long as the process has not panicked).
- Go's `select` chooses among the branches that are ready at random, so a broadcaster whose stop channel is closed does not take from
  its queue for ever: strong fairness of `Stop`. Weak fairness would not do when the queue is always filled again.
- Where `appContextLock` is taken, strong fairness: Go's mutex hands itself to a goroutine that has waited too long.
- Nothing makes anybody call `Add`, prepare a block, register a peer or deregister one.

## What is proved

For every value of the constants that the modules' assumptions admit.

`NonceCacheProofs`. The inductive invariant `IInv` is `TypeOK` with
- `Roles`: only pool callers reach the polling steps, and a pool caller inside a call holds the lock;
- `Allocation`: without an entry in the map everybody points at a queue of their own, and a queue that is about to be
  stored is known to its allocator alone;
- `Calling`: who has the lock is in a call, with the nonce of a transaction;
- `OkPollsLower` and `ErrPollsAbove` themselves.

The lock alone does not give `OkPollsLower`, as executors and readers do not take it. The argument is that they
only append, or store a queue that nobody else points at, while the goroutine that peeked goes on with the queue it
had: its front stays what it was, and a nonce that was above stays in it (`AboveKept`). Theorems: `TypeCorrect`,
`OkDeletesOnlyLower`, `ErrDeletesOnlyAbove`, `PoolCallersExclude`.

`CacheImplementsQueue`, that `NonceCache` implements `AccountQueue`, needs no further invariant. A step of a cache that is not settled is
`FirstUse` (`UnsettledStep`). A settled cache stays settled, since every `Load` hits and nobody is about to store (`SettledFrame`); then a step touches
the one queue as `SettledOutcome` lists, and a delete that returns compared last and found nothing (`NothingLeft`).

`TxPoolProofs`:
- `TypeCorrect`: in particular the number of removals at a stage never goes below zero;
- `NothingAhead` (`NoGap`): inductive together with `TypeOK`. `Validate` lets only the larger of the pool's nonce and the
  back of the cache pass, and both are reached; a push by `Prepare` is reached because `reach` grows with it; pops only take away;
- `PoolBounded` (`PoolBound`): by counting the adders between check and insertion. `Roles` says that a caller stays on the
  steps of `Add` or of `FetchTxs`;
- `LedgerIsExact` (`LedgerExact`): strengthened by `BlockExact`, the same statement about the committed
  transactions together with those of the block in work, with the block's cursor for the committed nonce.

`DataTheorems`: what the two pops leave of a queue, which the proof of `NoGap` uses; sums over finite sets (below).

`TxIdentityProofs`: `PoolAlwaysAnswers`, `NothingIsZero`, `DeleteAlwaysReaches`, from `Good`, which holds of every object: only a
transaction that came with its key and whose signer is asked for can have two hashes, and a signer is there only if it can be recovered. What `Add` is about to store has its caches
filled (`Ready`), and an entry is stored under its own hash (`Kept`).

`ExecutionProofs`: `BalancesAlwaysCovered`, `UsedGasAlwaysBound`, `NoncesAlwaysCounted`, `ReceiptGasAlwaysKept`. The cost covers the
value, wrapped around or not (`CostCoversValue`), and what is paid beyond it is checked again in `buyGas`. `NotTwice` (a transaction that
failed is not still to do) makes each failure count once. `CumulativeExact` is what Commit relies on: each cumulative gas is the one
before it and the receipt's own, as long as all gas is counted and has a receipt.

`ValueAlwaysConserved`, `GasAlwaysAccounted` and `UsedGasAlwaysExplained` are about sums over the accounts, the receipts and the failed
transactions. They are one invariant, `Books`, which every way a transaction can end keeps (`SucceedBooks`, `QuietBooks` and one lemma for
each interpreter; `DomainBooks` moves what a new domain overwrites from the state to `erased`). What the sums need is in `DataTheorems`: a sum does not depend on the order of its summands (`SumRemove`), so it
changes with one summand by as much as that one does (`SumExcept`, `SumAdd`). The library's induction theorems take an operator as
parameter, which the provers cannot instantiate. `NatSetInduction` is about the elements of a set instead, and comes from the fact that the
naturals are well-founded: the smallest natural that is missing from a set has a predecessor. That the recursion of a fold over subsets
has a solution (`IterStep`) is proved with it.

`AccountsProofs`: `InvariantHolds`, for `TypeOK`, the four other invariants of the run, `LostAsked` (a pending recovery is one that the partner
of the time asked for, or that the registration carried) and `GenesisKept` (domains stay). From it follow the two action properties, `AllTakeoversAnnounced` and
`RegisteredAlwaysKept`. Rights keep their source because lying below a domain is transitive, which is proved for sequences of
labels of any length.

`TxListProofs`: `TypeCorrect`, `StrictAlwaysKeepsGapless` and `ListImplementsMap`, that `TxList` implements `TxMap`. The inductive invariant
`LInv` says that the heap is the increasing sequence of the map's nonces (`Indexed`), that a cache, if there is one, is the list of their
transactions (`Cached`), and that the caps bound every transaction of the map (`Capped`). A finite set of naturals has exactly one increasing sequence
(`IncreasingExists`, `IncreasingUnique`), so it is enough to know which nonces a call leaves: `FirstPart` and `LastPart` for what is popped and what is
not, `BelowPart` for a threshold, `HighestPart` for `Cap`, `RunPart` for `Ready`, `HeapPushed` for `Add`. Then `CacheLeft` and `CacheFirst` show
that trimming the cache by a count is right, and `Capped` that the early return of `Filter` misses nothing. The set of transactions may be
infinite. `ListImplementsMap` assumes `NoWrap`: no transaction's `gasPrice * (100 + bump)` or `gasLimit * gasPrice` exceeds 64 bits. Nothing in
the code ensures it, and without it the theorem is false: the threshold of a replacement wraps around in the list and not in the map. The module
`MCTxList` assumes it too, so TLC evaluates it for the transactions of the run. The other two theorems do without. A nonce needs no such
assumption, since the run that `Ready` pops cannot wrap around before it meets a gap (`Growth`).

`PeerSetProofs`: `PanicsOnlyAfterClose`, `NeverOrphans`, `KnownAlwaysHasReason`. `IInv` adds that a registered object was started under its own id
(`OwnStarted`), that what is stopped was started, that an open set holds nothing stopped (`OpenRunning`), and that what waits in a
queue or is about to be marked entered the queue.

Every invariant, action property and refinement of a passing run is a theorem. Only model-checked are the liveness properties `CallsReturn`,
`RemovalsRun` and `BroadcastersStop`, because fairness and ENABLED are out of the prover's reach.

## What is not modelled

- Which role may change which permission (`permissionInterpreter`): who is an administrator or a supervisor is kept by the permission
  service, which is external; the interpreter's own part is in `Execution`.
- Contract creation (the interpreters disable it), `GetHash` for the EVM, logs and blooms.
- `txpool/tx_list.go` (unused), `app/tx_pool.go` (commented out), the RPC services (queries), options and errors, signatures, and of
  encoding and hashing all but what `TxIdentity` needs.

## Plan

1. Composition of `TxPool` with `NonceCache` in pieces for one account, and `FetchTxs` whose result feeds `Prepare`.
2. `TxIdentity` with two goroutines that share an object: `Hash` and `Signer` cut at their loads and stores.
