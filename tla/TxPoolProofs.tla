------------------------------ MODULE TxPoolProofs -----------------------------
(***************************************************************************)
(* For every set of transactions, callers and bounds: TxPool is type       *)
(* correct, its pool stays below Capacity plus the number of adders, no    *)
(* transaction gets ahead of its account, and the ledger has every nonce   *)
(* once.                                                                   *)
(***************************************************************************)
EXTENDS TxPool, DataTheorems, FiniteSetTheorems

(***************************************************************************)
(* Transactions have an account, a nonce and a price.                      *)
(***************************************************************************)
LEMMA TxFields ==
  ASSUME NEW tx \in Txs
  PROVE  tx.from \in Accounts /\ tx.nonce \in Nat /\ tx.gasPrice \in Nat
  BY TxsAssumption

LEMMA InitTypeOK == Init => TypeOK
  <1>1. <<>> \in NonceQueues
    BY EmptySeq DEF NonceQueues
  <1>2. Zero \in [Accounts -> Nat]
    BY DEF Zero
  <1>3. NoBlock \in Blocks
    BY <1>2 DEF NoBlock, Blocks
  <1> QED
    BY <1>1, <1>2, <1>3, LimitsAssumption DEF Init, TypeOK, Places

(***************************************************************************)
(* Removals are only added to, or taken away where there are some.         *)
(***************************************************************************)
LEMMA StartedType ==
  ASSUME TypeOK, NEW new, NEW done, \A r \in done : r \in Removals => removals[r] > 0
  PROVE  Started(new, done) \in [Removals -> Nat]
  <1>1. ASSUME NEW r \in Removals
        PROVE  removals[r] + (IF r \in new THEN 1 ELSE 0)
                 - (IF r \in done THEN 1 ELSE 0) \in Nat
    <2>1. removals[r] \in Nat /\ (r \in done => removals[r] > 0)
      BY DEF TypeOK
    <2> QED BY <2>1
  <1> QED BY <1>1 DEF Started

LEMMA SpendType ==
  ASSUME TypeOK, NEW event \in Events, Spend(event)
  PROVE  budget' \in [Events -> Nat]
  BY DEF TypeOK, Spend

(***************************************************************************)
(* The steps of one caller keep TypeOK.                                    *)
(***************************************************************************)
LEMMA CallerTypeOK ==
  ASSUME TypeOK, NEW c \in Callers, Call(c) \/ Continue(c)
  PROVE  TypeOK'
  <1> USE DEF TypeOK, Places, poolVars, callerVars, chainVars, Goto
  <1>1. ASSUME NEW tx \in Txs, Add(c, tx) PROVE TypeOK'
    <2>1. budget' \in [Events -> Nat]
      BY <1>1, SpendType DEF Add, Events
    <2>2. job' \in [Callers -> Txs \cup {NoTx}] /\ job'[c] \in Txs
      BY <1>1 DEF Add
    <2> QED BY <1>1, <2>1, <2>2 DEF Add
  <1>2. ASSUME Fetch(c) PROVE TypeOK'
    <2>1. budget' \in [Events -> Nat]
      BY <1>2, SpendType DEF Fetch, Events
    <2> QED BY <1>2, <2>1 DEF Fetch
  <1>3. ASSUME Validate(c) PROVE TypeOK'
    <2>1. CASE NonceMatches(job[c]) /\ Goto(c, "push") /\ lock' = c
      BY <1>3, <2>1 DEF Validate
    <2>2. CASE Refused(c) /\ UNCHANGED lock
      BY <1>3, <2>2 DEF Validate, Refused
    <2> QED BY <1>3, <2>1, <2>2 DEF Validate
  <1>4. ASSUME Push(c) PROVE TypeOK'
    <2>1. job[c] \in Txs
      BY <1>4 DEF Push
    <2>2. job[c].from \in Accounts /\ job[c].nonce \in Nat
      BY <2>1, TxFields
    <2>3. nonceCache' \in [Accounts -> NonceQueues]
      BY <1>4, <2>2, PushedElements DEF Push
    <2>4. data' \in [Callers -> SUBSET Txs]
      BY <1>4, <2>1 DEF Push
    <2>5. pc' \in [Callers -> Places]
      BY <1>4 DEF Push
    <2>6. \A b \in Callers : pc'[b] \notin {"idle", "fetch"}
                               => job'[b] \in Txs
      BY <1>4, <2>1 DEF Push
    <2> QED BY <1>4, <2>3, <2>4, <2>5, <2>6 DEF Push
  <1>5. ASSUME Insert(c) PROVE TypeOK'
    BY <1>5 DEF Insert
  <1>6. ASSUME FetchKey(c) PROVE TypeOK'
    <2>1. PICK tx \in keys[c] :
            /\ keys' = [keys EXCEPT ![c] = @ \ {tx}]
            /\ job' = [job EXCEPT ![c] = tx]
            /\ Goto(c, IF tx \in entries THEN "validate" ELSE "drop")
      BY <1>6 DEF FetchKey
    <2>2. tx \in Txs
      OBVIOUS
    <2>3. keys' \in [Callers -> SUBSET Txs]
      BY <2>1
    <2>4. job' \in [Callers -> Txs \cup {NoTx}] /\ job'[c] \in Txs
      BY <2>1, <2>2
    <2>5. pc' \in [Callers -> Places]
      BY <2>1
    <2>6. \A b \in Callers : pc'[b] \notin {"idle", "fetch"}
                               => job'[b] \in Txs
      BY <2>1, <2>2
    <2> QED BY <1>6, <2>3, <2>4, <2>5, <2>6 DEF FetchKey
  <1>7. ASSUME Drop(c) PROVE TypeOK'
    <2>1. removals' \in [Removals -> Nat]
      BY <1>7, StartedType DEF Drop, Del
    <2> QED BY <1>7, <2>1 DEF Drop, Del
  <1>8. ASSUME FetchDone(c) PROVE TypeOK'
    BY <1>8 DEF FetchDone
  <1>9. ASSUME Room(c) PROVE TypeOK'
    BY <1>9 DEF Room
  <1> QED
    BY <1>1, <1>2, <1>3, <1>4, <1>5, <1>6, <1>7, <1>8, <1>9 DEF Call, Continue

(***************************************************************************)
(* The steps of the lookup and of its callbacks keep TypeOK.               *)
(***************************************************************************)
LEMMA RemovalTypeOK ==
  ASSUME TypeOK, NEW tx \in Txs, NEW stage \in Stages,
         \/ stage \in {"Expired", "NoSpace"} /\ Lose(tx, stage)
         \/ OnRemoveWithReason(tx, stage)
         \/ Delete(tx, stage)
  PROVE  TypeOK'
  <1> USE DEF TypeOK, poolVars, callerVars, chainVars
  <1>1. <<tx, stage>> \in Removals
    BY DEF Removals
  <1>2. CASE Lose(tx, stage)
    <2>1. removals' \in [Removals -> Nat]
      BY <1>2, StartedType DEF Lose
    <2>2. budget' \in [Events -> Nat]
      BY <1>2, SpendType DEF Lose, Events
    <2> QED BY <1>2, <2>1, <2>2 DEF Lose
  <1>3. CASE OnRemoveWithReason(tx, stage)
    <2>1. Started(Starting(tx), {<<tx, stage>>}) \in [Removals -> Nat]
      BY <1>3, StartedType DEF OnRemoveWithReason
    <2>2. removals' \in [Removals -> Nat]
      <3> DEFINE s == Started(Starting(tx), {<<tx, stage>>})
                 next == <<tx, IF stage = "Expired" THEN "err" ELSE "ok">>
      <3>1. removals' = [s EXCEPT ![next] = @ + 1]
        BY <1>3, Zenon DEF OnRemoveWithReason
      <3>2. next \in Removals
        BY DEF Removals, Stages
      <3> HIDE DEF s, next
      <3>3. s \in [Removals -> Nat]
        BY <2>1 DEF s
      <3>4. s[next] + 1 \in Nat
        BY <3>2, <3>3
      <3> QED BY <3>1, <3>3, <3>4
    <2> QED BY <1>3, <2>2 DEF OnRemoveWithReason
  <1>4. CASE Delete(tx, stage)
    <2>1. removals' \in [Removals -> Nat]
      BY <1>4, StartedType DEF Delete, Del
    <2>2. PopBottom(nonceCache[tx.from], tx.nonce) \in NonceQueues
          /\ PopTop(nonceCache[tx.from], tx.nonce) \in NonceQueues
      BY TxFields, PopBottomElements, PopTopElements
    <2>3. nonceCache' \in [Accounts -> NonceQueues]
      BY <1>4, <2>2 DEF Delete
    <2> QED BY <1>4, <2>1, <2>3 DEF Delete, Del
  <1> QED BY <1>2, <1>3, <1>4

(***************************************************************************)
(* The steps of consensus, and a restart, keep TypeOK.                     *)
(***************************************************************************)
LEMMA ConsensusTypeOK ==
  ASSUME TypeOK, Consensus \/ Restart
  PROVE  TypeOK'
  <1> USE DEF TypeOK, poolVars, callerVars, chainVars
  <1>1. Zero \in [Accounts -> Nat] /\ NoBlock \in Blocks
    BY DEF Zero, NoBlock, Blocks
  <1>2. ASSUME NEW batch \in SUBSET Txs, Prepare(batch) PROVE TypeOK'
    <2>1. budget' \in [Events -> Nat]
      BY <1>2, SpendType DEF Prepare, Events
    <2>2. block' \in Blocks
      BY <1>1, <1>2 DEF Prepare, NoBlock, Blocks
    <2> QED BY <1>2, <2>1, <2>2 DEF Prepare
  <1>3. ASSUME NEW tx \in Txs, PrepareTx(tx) PROVE TypeOK'
    <2>1. tx.from \in Accounts /\ tx.nonce \in Nat
      BY TxFields
    <2>2. CASE Refuse(tx) \/ Skip(tx)
      <3>1. block' \in Blocks
        <4>1. CASE Refuse(tx)
          BY <4>1 DEF Refuse, Blocks
        <4>2. CASE Skip(tx)
          BY <4>2 DEF Skip, Blocks
        <4> QED BY <2>2, <4>1, <4>2
      <3> QED BY <1>3, <2>2, <3>1 DEF PrepareTx, Refuse, Skip
    <2>3. CASE Apply(tx)
      <3>1. nonceCache' \in [Accounts -> NonceQueues]
        <4>1. Pushed(nonceCache[tx.from], tx.nonce) \in NonceQueues
          BY <2>1, PushedElements
        <4> QED BY <2>3, <4>1 DEF Apply
      <3>2. reach' \in [Accounts -> Nat]
        <4>1. reach[tx.from] \in Nat /\ tx.nonce + 1 \in Nat
          BY <2>1
        <4>2. Max({reach[tx.from], tx.nonce + 1}) \in Nat
          BY <4>1, MaxOfTwo
        <4> QED BY <2>3, <4>2 DEF Apply
      <3>3. block' \in Blocks
        <4>1. [block.cursor EXCEPT ![tx.from] = tx.nonce + 1] \in [Accounts -> Nat]
          BY <2>1 DEF Blocks
        <4> QED BY <2>3, <4>1 DEF Apply, Blocks
      <3> QED BY <1>3, <3>1, <3>2, <3>3 DEF PrepareTx
    <2> QED BY <1>3, <2>2, <2>3 DEF PrepareTx
  <1>4. ASSUME PrepareEnd PROVE TypeOK'
    BY <1>4 DEF PrepareEnd, Blocks
  <1>5. ASSUME Commit PROVE TypeOK'
    <2>1. removals' \in [Removals -> Nat]
      BY <1>5, StartedType DEF Commit
    <2>2. dbNonce' \in [Accounts -> Nat] /\ committed' \subseteq Txs
      BY <1>5 DEF Commit, Blocks
    <2> QED BY <1>1, <1>5, <2>1, <2>2 DEF Commit
  <1>6. ASSUME Abandon PROVE TypeOK'
    BY <1>1, <1>6 DEF Abandon
  <1>7. ASSUME Restart PROVE TypeOK'
    <2>1. budget' \in [Events -> Nat]
      BY <1>7, SpendType DEF Restart, Events
    <2>2. <<>> \in NonceQueues
      BY EmptySeq DEF NonceQueues
    <2> QED BY <1>1, <1>7, <2>1, <2>2 DEF Restart, Places
  <1> QED
    BY <1>2, <1>3, <1>4, <1>5, <1>6, <1>7 DEF Consensus

LEMMA NextTypeOK == TypeOK /\ [Next]_vars => TypeOK'
  <1> SUFFICES ASSUME TypeOK, [Next]_vars PROVE TypeOK'
    OBVIOUS
  <1>1. CASE UNCHANGED vars
    BY <1>1 DEF vars, poolVars, callerVars, chainVars, TypeOK
  <1>2. CASE \E c \in Callers : Call(c) \/ Continue(c)
    BY <1>2, CallerTypeOK
  <1>3. ASSUME NEW tx \in Txs, NEW stage \in {"Expired", "NoSpace"},
               Lose(tx, stage) \/ OnRemoveWithReason(tx, stage)
        PROVE  TypeOK'
    BY <1>3, RemovalTypeOK DEF Stages
  <1>4. ASSUME NEW tx \in Txs, NEW verdict \in {"ok", "err"}, Delete(tx, verdict)
        PROVE  TypeOK'
    BY <1>4, RemovalTypeOK DEF Stages
  <1>5. CASE Consensus \/ Restart
    BY <1>5, ConsensusTypeOK
  <1> QED BY <1>1, <1>2, <1>3, <1>4, <1>5 DEF Next

(***************************************************************************)
(* The state of the pool, of the application and of the callers has the    *)
(* type it should.                                                         *)
(***************************************************************************)
THEOREM TypeCorrect == Spec => []TypeOK
  BY InitTypeOK, NextTypeOK, PTL DEF Spec

-------------------------------------------------------------------------------
(***************************************************************************)
(* NoGap.  What a step puts in the cache or takes past the nonce check is  *)
(* the nonce of the state, one that is in the cache, or one that was just  *)
(* executed.                                                               *)
(***************************************************************************)
LEMMA MatchedReached ==
  ASSUME TypeOK, NoGap, NEW tx \in Txs, NonceMatches(tx)
  PROVE  Reached(tx.from, tx.nonce)
  <1> DEFINE q == nonceCache[tx.from]
             n == ctxNonce[tx.from]
  <1>1. tx.from \in Accounts /\ tx.nonce \in Nat
    BY TxFields
  <1>2. q \in NonceQueues /\ n \in Nat
    BY <1>1 DEF TypeOK
  <1>3. CachedNonce(q) \in Nat
        /\ (CachedNonce(q) = 0 \/ \E i \in 1..Len(q) : CachedNonce(q) = q[i])
    BY <1>2, CachedNonceIn
  <1>4. tx.nonce = n \/ tx.nonce = CachedNonce(q)
    BY <1>2, <1>3, MaxOfTwo DEF NonceMatches
  <1>5. \A i \in 1..Len(q) : Reached(tx.from, q[i])
    BY <1>1 DEF NoGap
  <1>6. CASE tx.nonce = n
    BY <1>6 DEF Reached
  <1>7. CASE tx.nonce = CachedNonce(q) /\ CachedNonce(q) # 0
    BY <1>3, <1>5, <1>7
  <1>8. CASE tx.nonce = 0
    BY <1>2, <1>6, <1>8 DEF NonceMatches
  <1> QED BY <1>4, <1>6, <1>7, <1>8

LEMMA CallerNoGap ==
  ASSUME TypeOK, NoGap, NEW c \in Callers, Call(c) \/ Continue(c)
  PROVE  NoGap'
  <1> USE DEF poolVars, callerVars, chainVars, Goto, TypeOK
  <1>1. UNCHANGED <<ctxNonce, reach>>
    BY DEF Call, Continue, Add, Room, Fetch, Validate, Push, Insert, FetchKey, Drop,
           FetchDone
  <1>2. \A a, n : Reached(a, n) => Reached(a, n)'
    BY <1>1 DEF Reached
  <1>3. \A b \in Callers : pc[b] \in {"push", "insert"} => Reached(job[b].from, job[b].nonce)
    BY DEF NoGap
  <1>4. (\A a \in Accounts : \A i \in 1..Len(nonceCache[a]) : Reached(a, nonceCache[a][i]))'
    <2>1. CASE Push(c)
      <3> DEFINE tx == job[c]
                 q == nonceCache[tx.from]
      <3>1. tx \in Txs /\ Reached(tx.from, tx.nonce)
        BY <1>3, <2>1 DEF Push
      <3>2. tx.from \in Accounts /\ tx.nonce \in Nat
        BY <3>1, TxFields
      <3>3. nonceCache' = [nonceCache EXCEPT ![tx.from] = Pushed(q, tx.nonce)]
        BY <2>1 DEF Push
      <3>4. \A i \in 1..Len(Pushed(q, tx.nonce)) : Reached(tx.from, Pushed(q, tx.nonce)[i])
        <4>1. \A j \in 1..Len(q) : Reached(tx.from, q[j])
          BY <3>2 DEF NoGap
        <4>2. q \in NonceQueues
          BY <3>2
        <4> QED BY <3>1, <3>2, <4>1, <4>2, PushedElements
      <3> HIDE DEF tx, q
      <3>5. \A a \in Accounts : \A i \in 1..Len(nonceCache'[a]) : Reached(a, nonceCache'[a][i])
        BY <3>2, <3>3, <3>4 DEF NoGap
      <3> QED BY <1>2, <3>5
    <2>2. CASE ~ Push(c)
      <3>1. nonceCache' = nonceCache
        BY <2>2 DEF Call, Continue, Add, Room, Fetch, Validate, Insert, FetchKey, Drop,
                    FetchDone
      <3> QED BY <1>2, <3>1 DEF NoGap
    <2> QED BY <2>1, <2>2
  <1>5. (\A tx \in entries : Reached(tx.from, tx.nonce))'
    <2>1. CASE Insert(c)
      <3>1. entries' = entries \cup {job[c]} /\ Reached(job[c].from, job[c].nonce)
        BY <1>3, <2>1 DEF Insert
      <3> QED BY <1>2, <3>1 DEF NoGap
    <2>2. CASE ~ Insert(c)
      <3>1. entries' \subseteq entries
        BY <2>2 DEF Call, Continue, Add, Room, Fetch, Validate, Push, FetchKey, Drop, Del,
                    FetchDone
      <3> QED BY <1>2, <3>1 DEF NoGap
    <2> QED BY <2>1, <2>2
  <1>6. (\A b \in Callers : pc[b] \in {"push", "insert"}
           => Reached(job[b].from, job[b].nonce))'
    <2>1. CASE Validate(c)
      <3>1. CASE NonceMatches(job[c]) /\ pc' = [pc EXCEPT ![c] = "push"]
        <4>1. job' = job /\ job[c] \in Txs
          BY <2>1 DEF Validate
        <4>2. Reached(job[c].from, job[c].nonce)
          BY <3>1, <4>1, MatchedReached
        <4> QED BY <1>2, <1>3, <3>1, <4>1, <4>2
      <3>2. CASE Refused(c)
        BY <1>2, <1>3, <2>1, <3>2 DEF Validate, Refused
      <3> QED BY <2>1, <3>1, <3>2 DEF Validate
    <2>2. CASE Push(c)
      BY <1>2, <1>3, <2>2 DEF Push
    <2>3. CASE Room(c) \/ Insert(c) \/ Drop(c) \/ FetchDone(c) \/ Fetch(c)
      BY <1>2, <1>3, <2>3 DEF Room, Insert, Drop, FetchDone, Fetch
    <2>4. CASE FetchKey(c)
      <3>1. PICK tx \in keys[c] :
              /\ job' = [job EXCEPT ![c] = tx]
              /\ Goto(c, IF tx \in entries THEN "validate" ELSE "drop")
        BY <2>4 DEF FetchKey
      <3> QED BY <1>2, <1>3, <3>1
    <2>5. ASSUME NEW tx \in Txs, Add(c, tx)
          PROVE  (\A b \in Callers : pc[b] \in {"push", "insert"}
                    => Reached(job[b].from, job[b].nonce))'
      BY <1>2, <1>3, <2>5 DEF Add
    <2> QED BY <2>1, <2>2, <2>3, <2>4, <2>5 DEF Call, Continue
  <1> QED BY <1>4, <1>5, <1>6 DEF NoGap

LEMMA RemovalNoGap ==
  ASSUME TypeOK, NoGap, NEW tx \in Txs, NEW stage \in Stages,
         Lose(tx, stage) \/ OnRemoveWithReason(tx, stage) \/ Delete(tx, stage)
  PROVE  NoGap'
  <1> USE DEF callerVars, chainVars
  <1>1. UNCHANGED <<ctxNonce, reach, pc, job>> /\ entries' \subseteq entries
    BY DEF Lose, OnRemoveWithReason, Delete, Del
  <1>2. \A a, n : Reached(a, n) => Reached(a, n)'
    BY <1>1 DEF Reached
  <1>3. \A a \in Accounts : \A i \in 1..Len(nonceCache'[a]) : Reached(a, nonceCache'[a][i])
    <2>1. CASE Delete(tx, stage)
      <3> DEFINE q == nonceCache[tx.from]
                 s == IF stage = "ok" THEN PopBottom(q, tx.nonce) ELSE PopTop(q, tx.nonce)
      <3>1. tx.from \in Accounts /\ tx.nonce \in Nat /\ q \in NonceQueues
        BY TxFields DEF TypeOK
      <3>2. nonceCache \in [Accounts -> NonceQueues]
            /\ nonceCache' = [nonceCache EXCEPT ![tx.from] = s]
        BY <2>1 DEF Delete, TypeOK
      <3>3. \A i \in 1..Len(s) : \E j \in 1..Len(q) : s[i] = q[j]
        <4> HIDE DEF q
        <4>1. CASE stage = "ok"
          BY <3>1, <4>1, PopBottomElements
        <4>2. CASE stage # "ok"
          BY <3>1, <4>2, PopTopElements
        <4> QED BY <4>1, <4>2
      <3>4. \A j \in 1..Len(q) : Reached(tx.from, q[j])
        BY <3>1 DEF NoGap
      <3>5. \A i \in 1..Len(s) : Reached(tx.from, s[i])
        BY <3>3, <3>4
      <3> HIDE DEF s, q
      <3> QED BY <3>1, <3>2, <3>5 DEF NoGap
    <2>2. CASE ~ Delete(tx, stage)
      BY <2>2 DEF Lose, OnRemoveWithReason, NoGap
    <2> QED BY <2>1, <2>2
  <1> QED BY <1>1, <1>2, <1>3 DEF NoGap

LEMMA ConsensusNoGap ==
  ASSUME TypeOK, NoGap, Consensus \/ Restart
  PROVE  NoGap'
  <1> USE DEF poolVars, callerVars, chainVars
  <1>1. ASSUME NEW tx \in Txs, PrepareTx(tx), Apply(tx) PROVE NoGap'
    <2> DEFINE a == tx.from
               q == nonceCache[a]
               r == Max({reach[a], tx.nonce + 1})
               After(b, n) == n = ctxNonce'[b] \/ n < reach'[b]
    <2>1. a \in Accounts /\ tx.nonce \in Nat /\ reach \in [Accounts -> Nat]
          /\ nonceCache \in [Accounts -> NonceQueues]
      BY TxFields DEF TypeOK
    <2>2. r \in Nat /\ r >= reach[a] /\ r >= tx.nonce + 1
      <3>1. reach[a] \in Nat /\ tx.nonce + 1 \in Nat
        BY <2>1
      <3> QED BY <3>1, MaxOfTwo
    <2>3. /\ UNCHANGED <<ctxNonce, pc, job, entries>>
          /\ reach' = [reach EXCEPT ![a] = r]
          /\ nonceCache' = [nonceCache EXCEPT ![a] = Pushed(q, tx.nonce)]
      BY <1>1 DEF PrepareTx, Apply
    <2> HIDE DEF r
    <2>4. \A b \in Accounts, n \in Nat : Reached(b, n) => After(b, n)
      BY <2>1, <2>2, <2>3 DEF Reached
    <2>5. After(a, tx.nonce)
      BY <2>1, <2>2, <2>3 DEF Reached
    <2>6. \A b \in Accounts : nonceCache[b] \in NonceQueues
          /\ \A i \in 1..Len(nonceCache[b]) : nonceCache[b][i] \in Nat
      BY <2>1, ElementOfSeq DEF NonceQueues
    <2>7. (\A b \in Accounts : \A i \in 1..Len(nonceCache[b]) : Reached(b, nonceCache[b][i]))'
      <3>1. \A i \in 1..Len(Pushed(q, tx.nonce)) :
              \/ Pushed(q, tx.nonce)[i] = tx.nonce
              \/ \E j \in 1..Len(q) : Pushed(q, tx.nonce)[i] = q[j]
        BY <2>1, <2>6, PushedElements
      <3>2. \A b \in Accounts : \A i \in 1..Len(nonceCache[b]) : After(b, nonceCache[b][i])
        BY <2>4, <2>6 DEF NoGap
      <3>3. \A i \in 1..Len(Pushed(q, tx.nonce)) : After(a, Pushed(q, tx.nonce)[i])
        BY <2>1, <2>5, <3>1, <3>2
      <3>4. \A b \in Accounts : \A i \in 1..Len(nonceCache'[b]) : After(b, nonceCache'[b][i])
        <4> HIDE DEF After, q
        <4> QED BY <2>1, <2>3, <3>2, <3>3
      <3> QED BY <3>4 DEF Reached
    <2>8. (\A t \in entries : Reached(t.from, t.nonce))'
      <3>1. \A t \in entries : t.from \in Accounts /\ t.nonce \in Nat
        BY TxFields DEF TypeOK
      <3>2. \A t \in entries : After(t.from, t.nonce)
        BY <2>4, <3>1 DEF NoGap
      <3> QED BY <2>3, <3>2 DEF Reached
    <2>9. (\A c \in Callers : pc[c] \in {"push", "insert"}
             => Reached(job[c].from, job[c].nonce))'
      <3>1. \A c \in Callers : pc[c] \in {"push", "insert"}
              => job[c].from \in Accounts /\ job[c].nonce \in Nat
        BY TxFields DEF TypeOK
      <3>2. \A c \in Callers : pc[c] \in {"push", "insert"} => After(job[c].from, job[c].nonce)
        BY <2>4, <3>1 DEF NoGap
      <3> QED BY <2>3, <3>2 DEF Reached
    <2> QED BY <2>7, <2>8, <2>9 DEF NoGap
  <1>2. CASE Restart
    <2>1. entries' = {} /\ \A c \in Callers : pc'[c] = "idle"
      BY <1>2 DEF Restart
    <2>2. \A a \in Accounts : nonceCache'[a] = <<>> /\ Len(nonceCache'[a]) = 0
      BY <1>2, EmptySeq DEF Restart
    <2> QED BY <2>1, <2>2 DEF NoGap
  <1>3. CASE UNCHANGED <<ctxNonce, reach, pc, job, entries, nonceCache>>
    BY <1>3 DEF NoGap, Reached
  <1>4. \/ Restart
        \/ \E tx \in Txs : PrepareTx(tx) /\ Apply(tx)
        \/ UNCHANGED <<ctxNonce, reach, pc, job, entries, nonceCache>>
    BY DEF Consensus, Prepare, PrepareTx, Refuse, Skip, PrepareEnd, Commit, Abandon
  <1> QED BY <1>1, <1>2, <1>3, <1>4

(***************************************************************************)
(* No transaction gets ahead of its account (tx_pool.go:6).                *)
(***************************************************************************)
THEOREM NothingAhead == Spec => []NoGap
  <1>1. Init => NoGap
    BY EmptySeq DEF Init, NoGap
  <1>2. TypeOK /\ NoGap /\ [Next]_vars => NoGap'
    <2> SUFFICES ASSUME TypeOK, NoGap, [Next]_vars PROVE NoGap'
      OBVIOUS
    <2>1. CASE UNCHANGED vars
      BY <2>1 DEF vars, poolVars, callerVars, chainVars, NoGap, Reached
    <2>2. CASE \E c \in Callers : Call(c) \/ Continue(c)
      BY <2>2, CallerNoGap
    <2>3. ASSUME NEW tx \in Txs, NEW stage \in {"Expired", "NoSpace"},
                 Lose(tx, stage) \/ OnRemoveWithReason(tx, stage)
          PROVE  NoGap'
      BY <2>3, RemovalNoGap DEF Stages
    <2>4. ASSUME NEW tx \in Txs, NEW verdict \in {"ok", "err"}, Delete(tx, verdict)
          PROVE  NoGap'
      BY <2>4, RemovalNoGap DEF Stages
    <2>5. CASE Consensus \/ Restart
      BY <2>5, ConsensusNoGap
    <2> QED BY <2>1, <2>2, <2>3, <2>4, <2>5 DEF Next
  <1> QED BY <1>1, <1>2, TypeCorrect, PTL DEF Spec

-------------------------------------------------------------------------------
(***************************************************************************)
(* PoolBound.  An adder passes the comparison with Capacity when the pool  *)
(* has room, and each adder brings at most the one transaction it passed   *)
(* with.                                                                   *)
(***************************************************************************)
LEMMA FinitePool ==
  ASSUME TypeOK
  PROVE  /\ IsFiniteSet(entries) /\ Cardinality(entries) \in Nat
         /\ IsFiniteSet(Adding) /\ Cardinality(Adding) \in Nat
         /\ Cardinality(Adding) <= Cardinality(Adders)
         /\ Cardinality(Adders) \in Nat
  <1>1. entries \subseteq Txs /\ IsFiniteSet(Txs)
    BY TxsAssumption DEF TypeOK
  <1>2. Adding \subseteq Adders /\ IsFiniteSet(Adders)
    BY CallersAssumption DEF Adding
  <1> QED BY <1>1, <1>2, FS_Subset, FS_CardinalityType

LEMMA ShrinkingPool ==
  ASSUME TypeOK, PoolBound, entries' \subseteq entries, Adding' \subseteq Adding
  PROVE  PoolBound'
  <1>1. /\ Cardinality(entries') <= Cardinality(entries)
        /\ Cardinality(Adding') <= Cardinality(Adding)
        /\ Cardinality(entries') \in Nat /\ Cardinality(Adding') \in Nat
    BY FinitePool, FS_Subset, FS_CardinalityType
  <1> QED BY <1>1, FinitePool, LimitsAssumption DEF PoolBound

\* FetchTxs never inserts, Add never fetches
Roles ==
  /\ \A c \in Fetchers : pc[c] \notin {"room", "insert"}
  /\ \A c \in Adders : pc[c] \notin {"fetch", "drop"}

LEMMA NextRoles == TypeOK /\ Roles /\ [Next]_vars => Roles'
  <1> SUFFICES ASSUME TypeOK, Roles, [Next]_vars PROVE Roles'
    OBVIOUS
  <1> USE CallersAssumption DEF callerVars, Goto, Roles, Callers, TypeOK
  <1>1. ASSUME NEW c \in Callers, Call(c) PROVE Roles'
    BY <1>1 DEF Call, Add, Fetch
  <1>2. ASSUME NEW c \in Callers, Room(c) \/ Validate(c) \/ Push(c) PROVE Roles'
    BY <1>2 DEF Room, Validate, Refused, Push
  <1>3. ASSUME NEW c \in Callers, Insert(c) \/ FetchKey(c) \/ Drop(c) \/ FetchDone(c)
        PROVE  Roles'
    BY <1>3 DEF Insert, FetchKey, Drop, FetchDone
  <1>4. CASE UNCHANGED pc
    BY <1>4
  <1>5. CASE Restart
    BY <1>5 DEF Restart
  <1>6. \/ \E c \in Callers : Call(c) \/ Continue(c)
        \/ UNCHANGED pc
        \/ Restart
    BY DEF Next, Lose, OnRemoveWithReason, Delete, Consensus, Prepare, PrepareTx,
           PrepareEnd, Commit, Abandon, vars
  <1> QED BY <1>1, <1>2, <1>3, <1>4, <1>5, <1>6 DEF Continue

LEMMA NextPoolBound == TypeOK /\ Roles /\ PoolBound /\ [Next]_vars => PoolBound'
  <1> SUFFICES ASSUME TypeOK, Roles, PoolBound, [Next]_vars PROVE PoolBound'
    OBVIOUS
  <1> USE DEF poolVars, callerVars, chainVars
  <1>1. ASSUME NEW c \in Callers, Room(c), Cardinality(entries) < Capacity PROVE PoolBound'
    <2>1. entries' = entries /\ Cardinality(entries) < Capacity
      BY <1>1 DEF Room
    <2>2. /\ Cardinality(Adding') <= Cardinality(Adders)
          /\ Cardinality(Adding') \in Nat /\ Cardinality(Adders) \in Nat
      <3>1. Adding' \subseteq Adders /\ IsFiniteSet(Adders)
        BY CallersAssumption DEF Adding
      <3> QED BY <3>1, FS_Subset, FS_CardinalityType
    <2> QED BY <2>1, <2>2, FinitePool, LimitsAssumption DEF PoolBound
  <1>2. ASSUME NEW c \in Callers, Insert(c) PROVE PoolBound'
    <2>1. /\ pc \in [Callers -> Places]
          /\ pc[c] = "insert" /\ pc' = [pc EXCEPT ![c] = "idle"]
          /\ entries' = entries \cup {job[c]}
      BY <1>2 DEF Insert, Goto, TypeOK
    <2>2. c \in Adders
      BY <2>1 DEF Roles, Callers
    <2>3. Cardinality(entries') <= Cardinality(entries) + 1 /\ Cardinality(entries') \in Nat
      <3>1. IsFiniteSet(entries) /\ Cardinality(entries) \in Nat
        BY FinitePool
      <3>2. IsFiniteSet(entries \cup {job[c]})
            /\ \/ Cardinality(entries \cup {job[c]}) = Cardinality(entries)
               \/ Cardinality(entries \cup {job[c]}) = Cardinality(entries) + 1
        BY <3>1, FS_AddElement
      <3> QED BY <2>1, <3>1, <3>2
    <2>4. Adding' = Adding \ {c} /\ c \in Adding
      BY <2>1, <2>2 DEF Adding, Callers
    <2>5. Cardinality(Adding') = Cardinality(Adding) - 1
      BY <2>4, FinitePool, FS_RemoveElement
    <2> QED BY <2>3, <2>5, FinitePool, LimitsAssumption DEF PoolBound
  <1>3. ASSUME NEW c \in Callers, Validate(c) \/ Push(c) PROVE PoolBound'
    <2>1. entries' = entries
      BY <1>3 DEF Validate, Push
    <2>2. Adding' \subseteq Adding
      BY <1>3, CallersAssumption DEF Adding, Validate, Refused, Push, Goto, TypeOK, Callers
    <2> QED BY <2>1, <2>2, ShrinkingPool
  <1>4. ASSUME NEW c \in Callers, Fetch(c) \/ FetchKey(c) \/ Drop(c) \/ FetchDone(c)
        PROVE  PoolBound'
    <2>1. entries' \subseteq entries
      BY <1>4 DEF Fetch, FetchKey, Drop, Del, FetchDone
    <2>2. pc[c] = "fetch" \/ pc[c] = "drop" \/ c \in Fetchers
      BY <1>4 DEF Fetch, FetchKey, Drop, FetchDone
    <2>3. c \notin Adders
      BY <2>2, CallersAssumption DEF Roles
    <2>4. \A b \in Adders : pc'[b] = pc[b]
      BY <1>4, <2>3 DEF Fetch, FetchKey, Drop, FetchDone, Goto, TypeOK, Callers
    <2>5. Adding' = Adding
      BY <2>4 DEF Adding
    <2> QED BY <2>1, <2>5, ShrinkingPool
  <1>5. CASE Restart
    <2>1. entries' = {} /\ Adding' = {}
      BY <1>5 DEF Restart, Adding, Callers
    <2> QED BY <2>1, ShrinkingPool
  <1>6. CASE UNCHANGED pc /\ entries' \subseteq entries
    <2>1. Adding' = Adding
      BY <1>6 DEF Adding
    <2> QED BY <1>6, <2>1, ShrinkingPool
  <1>7. ASSUME NEW c \in Callers, NEW tx \in Txs, Add(c, tx) PROVE PoolBound'
    <2>1. entries' = entries /\ Adding' \subseteq Adding
      BY <1>7 DEF Add, Goto, Adding, TypeOK, Callers
    <2> QED BY <2>1, ShrinkingPool
  <1>8. ASSUME NEW c \in Callers, Room(c), ~ (Cardinality(entries) < Capacity)
        PROVE  PoolBound'
    <2>1. entries' = entries /\ Adding' \subseteq Adding
      BY <1>8 DEF Room, Goto, Adding, TypeOK, Callers
    <2> QED BY <2>1, ShrinkingPool
  <1>9. \/ \E c \in Callers : Call(c) \/ Continue(c)
        \/ UNCHANGED pc /\ entries' \subseteq entries
        \/ Restart
    BY DEF Next, Lose, OnRemoveWithReason, Delete, Del, Consensus, Prepare, PrepareTx,
           PrepareEnd, Commit, Abandon, vars
  <1> QED BY <1>1, <1>2, <1>3, <1>4, <1>5, <1>6, <1>7, <1>8, <1>9 DEF Call, Continue

(***************************************************************************)
(* The pool holds fewer transactions than Capacity and the adders together *)
(* (tx_pool.go:148-159).                                                   *)
(***************************************************************************)
THEOREM PoolBounded == Spec => []PoolBound
  <1>1. Init => Roles
    BY DEF Init, Roles, Callers
  <1>2. Init => PoolBound
    <2> SUFFICES ASSUME Init PROVE PoolBound
      OBVIOUS
    <2>1. entries = {} /\ Adding = {}
      BY DEF Init, Adding, Callers
    <2>2. Cardinality(Adders) \in Nat /\ Cardinality({}) = 0
      BY CallersAssumption, FS_CardinalityType, FS_EmptySet
    <2> QED BY <2>1, <2>2, LimitsAssumption DEF PoolBound
  <1> QED BY <1>1, <1>2, NextRoles, NextPoolBound, TypeCorrect, PTL DEF Spec

-------------------------------------------------------------------------------
(***************************************************************************)
(* LedgerExact.  It has to hold of the block that is being prepared too,   *)
(* on top of what is committed: Commit then only makes it the ledger.      *)
(***************************************************************************)
BlockExact ==
  block.phase # "none" =>
    \A a \in Accounts : ExactlyBelow(committed \cup block.ok, a, block.cursor[a])

LEMMA ExactlyAppended ==
  ASSUME NEW S \in SUBSET Txs, NEW tx \in Txs, NEW a \in Accounts, NEW n \in Nat,
         ExactlyBelow(S, a, n),
         tx.from = a => tx.nonce = n
  PROVE  ExactlyBelow(S \cup {tx}, a, IF tx.from = a THEN n + 1 ELSE n)
  <1>1. CASE tx.from # a
    BY <1>1 DEF ExactlyBelow
  <1>2. CASE tx.from = a
    <2> DEFINE T == S \cup {tx}
    <2>1. \A t \in T : t.nonce \in Nat
      BY TxFields
    <2>2. \A t \in T : t.from = a => t.nonce < n + 1
      BY <1>2, <2>1 DEF ExactlyBelow
    <2>3. ASSUME NEW k \in 0..n PROVE \E t \in T : t.from = a /\ t.nonce = k
      <3>1. CASE k = n
        BY <1>2, <3>1
      <3>2. CASE k # n
        <4>1. k \in 0..(n - 1)
          BY <3>2
        <4> QED BY <4>1 DEF ExactlyBelow
      <3> QED BY <3>1, <3>2
    <2>4. ASSUME NEW t \in T, NEW u \in T, t.from = a, u.from = a, t.nonce = u.nonce
          PROVE  t = u
      <3>1. CASE t \in S /\ u \in S
        BY <2>4, <3>1 DEF ExactlyBelow
      <3>2. CASE t = tx /\ u \in S
        <4>1. u.nonce < n /\ u.nonce = n
          BY <1>2, <2>4, <3>2 DEF ExactlyBelow
        <4> QED BY <4>1
      <3>3. CASE t \in S /\ u = tx
        <4>1. t.nonce < n /\ t.nonce = n
          BY <1>2, <2>4, <3>3 DEF ExactlyBelow
        <4> QED BY <4>1
      <3> QED BY <3>1, <3>2, <3>3
    <2>5. (n + 1) - 1 = n
      OBVIOUS
    <2> QED BY <1>2, <2>2, <2>3, <2>4, <2>5 DEF ExactlyBelow
  <1> QED BY <1>1, <1>2

LEMMA NextLedger ==
  TypeOK /\ LedgerExact /\ BlockExact /\ [Next]_vars => LedgerExact' /\ BlockExact'
  <1> SUFFICES ASSUME TypeOK, LedgerExact, BlockExact, [Next]_vars
               PROVE  LedgerExact' /\ BlockExact'
    OBVIOUS
  <1> USE DEF chainVars, LedgerExact, BlockExact
  <1>1. CASE UNCHANGED <<dbNonce, committed, block>>
    BY <1>1
  <1>2. ASSUME NEW batch \in SUBSET Txs, Prepare(batch) PROVE LedgerExact' /\ BlockExact'
    <2>1. block'.ok = {} /\ block'.cursor = dbNonce /\ UNCHANGED <<dbNonce, committed>>
      BY <1>2 DEF Prepare, NoBlock
    <2>2. committed' \cup block'.ok = committed
      BY <2>1
    <2> QED BY <2>1, <2>2
  <1>3. ASSUME NEW tx \in Txs, PrepareTx(tx) PROVE LedgerExact' /\ BlockExact'
    <2>1. block.phase # "none" /\ UNCHANGED <<dbNonce, committed>>
      BY <1>3 DEF PrepareTx
    <2>2. CASE Refuse(tx) \/ Skip(tx)
      <3>1. block'.ok = block.ok /\ block'.cursor = block.cursor
        BY <2>2 DEF Refuse, Skip, TypeOK, Blocks
      <3> QED BY <2>1, <3>1
    <2>3. CASE Apply(tx)
      <3> DEFINE S == committed \cup block.ok
      <3>1. /\ block.ok \in SUBSET Txs /\ block.cursor \in [Accounts -> Nat]
            /\ S \in SUBSET Txs
        BY DEF TypeOK, Blocks
      <3>2. /\ block'.ok = block.ok \cup {tx}
            /\ block'.cursor = [block.cursor EXCEPT ![tx.from] = tx.nonce + 1]
            /\ tx.nonce = block.cursor[tx.from]
        BY <2>3 DEF Apply, Applicable, TypeOK, Blocks
      <3>3. committed' \cup block'.ok = S \cup {tx}
        BY <2>1, <3>2
      <3>4. ASSUME NEW a \in Accounts
            PROVE  ExactlyBelow(S \cup {tx}, a, block'.cursor[a])
        <4>1. ExactlyBelow(S, a, block.cursor[a]) /\ block.cursor[a] \in Nat
          BY <2>1, <3>1
        <4>2. tx.from = a => tx.nonce = block.cursor[a]
          BY <3>2
        <4>3. block'.cursor[a] = IF tx.from = a THEN block.cursor[a] + 1 ELSE block.cursor[a]
          BY <3>1, <3>2
        <4> HIDE DEF S
        <4> QED BY <3>1, <4>1, <4>2, <4>3, ExactlyAppended
      <3> HIDE DEF S
      <3> QED BY <2>1, <3>3, <3>4
    <2> QED BY <1>3, <2>2, <2>3 DEF PrepareTx
  <1>4. CASE PrepareEnd
    <2>1. block'.ok = block.ok /\ block'.cursor = block.cursor /\ block.phase # "none"
          /\ UNCHANGED <<dbNonce, committed>>
      BY <1>4 DEF PrepareEnd, TypeOK, Blocks
    <2> QED BY <2>1
  <1>5. CASE Commit
    BY <1>5 DEF Commit, NoBlock
  <1>6. CASE Abandon \/ Restart
    BY <1>6 DEF Abandon, Restart, NoBlock
  <1>7. \/ UNCHANGED <<dbNonce, committed, block>>
        \/ Consensus \/ Restart
    BY DEF Next, Call, Continue, Add, Room, Fetch, Validate, Push, Insert, FetchKey, Drop,
           FetchDone, Lose, OnRemoveWithReason, Delete, vars
  <1> QED BY <1>1, <1>2, <1>3, <1>4, <1>5, <1>6, <1>7 DEF Consensus

(***************************************************************************)
(* The committed blocks applied, for each account, exactly one transaction *)
(* of each nonce below the state's (app.go:243-290).                       *)
(***************************************************************************)
THEOREM LedgerIsExact == Spec => []LedgerExact
  <1>1. Init => LedgerExact /\ BlockExact
    BY DEF Init, LedgerExact, BlockExact, ExactlyBelow, Zero, NoBlock
  <1> QED BY <1>1, NextLedger, TypeCorrect, PTL DEF Spec
===============================================================================
