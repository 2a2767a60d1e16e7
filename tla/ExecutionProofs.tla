----------------------------- MODULE ExecutionProofs ---------------------------
(***************************************************************************)
(* For every set of accounts and transactions, every gas limit and every   *)
(* outcome of the calls: Execution is type correct, value moves between    *)
(* accounts or is overwritten and never appears, the gas that the pool     *)
(* lacks is the gas that was offered and not given back, no balance goes   *)
(* below zero, the gas limit is overshot by at most one transaction,       *)
(* nonces count what was executed since they were overwritten, and Commit  *)
(* gives back the gas of the receipts.                                     *)
(***************************************************************************)
EXTENDS Execution, DataTheorems, FiniteSetTheorems, SequenceTheorems, TLAPS

-------------------------------------------------------------------------------
(***************************************************************************)
(* The operations of the state database.                                   *)
(***************************************************************************)
Covered(st) == \A a \in Accounts : st.balance[a] >= 0

LEMMA PaidFacts ==
  ASSUME NEW st \in States, NEW from \in Accounts, NEW amount \in Nat,
         Covered(st), st.balance[from] >= amount
  PROVE  /\ Paid(st, from, amount) \in States /\ Covered(Paid(st, from, amount))
         /\ Paid(st, from, amount).nonce = st.nonce
         /\ Paid(st, from, amount).balance[from] = st.balance[from] - amount
  BY DEF States, Covered, Paid

LEMMA EarnedFacts ==
  ASSUME NEW st \in States, NEW to \in Accounts, NEW amount \in Nat, Covered(st)
  PROVE  /\ Earned(st, to, amount) \in States /\ Covered(Earned(st, to, amount))
         /\ Earned(st, to, amount).nonce = st.nonce
  BY DEF States, Covered, Earned

LEMMA MovedFacts ==
  ASSUME NEW st \in States, NEW from \in Accounts, NEW to \in Accounts, NEW amount \in Nat,
         Covered(st), st.balance[from] >= amount
  PROVE  /\ Moved(st, from, to, amount) \in States /\ Covered(Moved(st, from, to, amount))
         /\ Moved(st, from, to, amount).nonce = st.nonce
  BY PaidFacts, EarnedFacts DEF Moved

LEMMA BumpedFacts ==
  ASSUME NEW st \in States, NEW account \in Accounts, Covered(st)
  PROVE  /\ NonceBumped(st, account) \in States /\ Covered(NonceBumped(st, account))
         /\ NonceBumped(st, account).nonce = [st.nonce EXCEPT ![account] = @ + 1]
  BY DEF States, Covered, NonceBumped

LEMMA TxFacts ==
  ASSUME NEW tx \in Txs
  PROVE  /\ tx.kind \in Kinds /\ tx.from \in Accounts /\ tx.to \in Accounts
         /\ tx.nonce \in Nat /\ tx.value \in Nat /\ tx.gasPrice \in Nat
         /\ tx.gasLimit \in 0..(Word - 1) /\ tx.gasLimit \in Nat /\ tx.intrinsic \in Nat
         /\ tx.gasLimit * tx.gasPrice \in Nat
  <1>1. tx \in [kind : Kinds, from : Accounts, to : Accounts, nonce : Nat, value : Nat,
                gasLimit : 0..(Word - 1), gasPrice : Nat, intrinsic : Nat]
    BY TxsAssumption
  <1>2. \A limit, price \in Nat : limit * price \in Nat
    OBVIOUS
  <1> QED BY <1>1, <1>2, GasAssumption

(***************************************************************************)
(* The cost of a transaction, wrapped around or not, covers its value.     *)
(***************************************************************************)
LEMMA CostCoversValue ==
  ASSUME NEW tx \in Txs
  PROVE  Cost(tx) >= tx.value
  <1>1. tx.gasLimit * tx.gasPrice \in Nat /\ tx.value \in Nat
    BY TxFacts
  <1>2. \A n \in Nat : n % Word \in Nat
    BY GasAssumption
  <1>3. (tx.gasLimit * tx.gasPrice) % Word \in Nat
    BY <1>1, <1>2
  <1> QED BY <1>1, <1>3 DEF Cost

-------------------------------------------------------------------------------
(***************************************************************************)
(* The inductive invariant.  CumulativeExact is what Commit relies on: as  *)
(* long as every gas is counted and has a receipt, the cumulative gas of a *)
(* receipt is the one before it and its own.                               *)
(***************************************************************************)
Previous(i) == IF i = 1 THEN 0 ELSE receipts[i - 1].cumulative

CumulativeExact ==
  Open /\ Uncounted = {} /\ SpoiltTransfers = {} =>
    /\ usedGas = IF receipts = <<>> THEN 0 ELSE receipts[Len(receipts)].cumulative
    /\ \A i \in DOMAIN receipts :
         /\ receipts[i].gasUsed \in 0..(Word - 1)
         /\ receipts[i].cumulative = Previous(i) + receipts[i].gasUsed

NotTwice == Open => todo \cap spoilt = {}

IInv ==
  /\ TypeOK /\ BalancesCovered /\ Covered(committed) /\ UsedGasBound
  /\ NoncesCounted /\ NotTwice /\ CumulativeExact

(***************************************************************************)
(* Counting the receipts and the failed calls of an account.               *)
(***************************************************************************)
ReceiptsOf(list, a) == {i \in DOMAIN list : list[i].tx.from = a}

LEMMA AppendCounts ==
  ASSUME NEW list \in Seq(Receipts), NEW receipt \in Receipts, NEW a
  PROVE  /\ Cardinality(ReceiptsOf(list, a)) \in Nat
         /\ Cardinality(ReceiptsOf(Append(list, receipt), a))
              = Cardinality(ReceiptsOf(list, a)) + (IF receipt.tx.from = a THEN 1 ELSE 0)
  <1> DEFINE longer == Append(list, receipt)
  <1>1. /\ longer \in Seq(Receipts) /\ Len(longer) = Len(list) + 1 /\ Len(list) \in Nat
        /\ \A i \in 1..Len(list) : longer[i] = list[i]
        /\ longer[Len(list) + 1] = receipt
    BY AppendProperties, LenProperties
  <1>2. DOMAIN list = 1..Len(list) /\ DOMAIN longer = 1..(Len(list) + 1)
    BY <1>1, LenProperties
  <1>3. IsFiniteSet(ReceiptsOf(list, a)) /\ Cardinality(ReceiptsOf(list, a)) \in Nat
    <2>1. IsFiniteSet(1..Len(list))
      BY <1>1, FS_Interval
    <2>2. ReceiptsOf(list, a) \in SUBSET (1..Len(list))
      BY <1>2 DEF ReceiptsOf
    <2>3. IsFiniteSet(ReceiptsOf(list, a))
      BY <2>1, <2>2, FS_Subset
    <2> QED BY <2>3, FS_CardinalityType
  <1>4. Len(list) + 1 \notin ReceiptsOf(list, a)
    BY <1>1, <1>2 DEF ReceiptsOf
  <1> HIDE DEF longer
  <1>5. CASE receipt.tx.from = a
    <2>1. ReceiptsOf(longer, a) = ReceiptsOf(list, a) \cup {Len(list) + 1}
      BY <1>1, <1>2, <1>5 DEF ReceiptsOf
    <2> QED BY <1>3, <1>4, <1>5, <2>1, FS_AddElement DEF longer
  <1>6. CASE receipt.tx.from # a
    <2>1. ReceiptsOf(longer, a) = ReceiptsOf(list, a)
      BY <1>1, <1>2, <1>6 DEF ReceiptsOf
    <2> QED BY <1>3, <1>6, <2>1 DEF longer
  <1> QED BY <1>5, <1>6

LEMMA FailedCount ==
  ASSUME TypeOK, NEW a
  PROVE  /\ IsFiniteSet({tx \in SpoiltInCall : tx.from = a})
         /\ Cardinality({tx \in SpoiltInCall : tx.from = a}) \in Nat
  <1>1. {tx \in SpoiltInCall : tx.from = a} \in SUBSET Txs
    BY DEF TypeOK, SpoiltInCall, SpoiltCalls
  <1>2. IsFiniteSet({tx \in SpoiltInCall : tx.from = a})
    BY <1>1, TxsAssumption, FS_Subset
  <1> QED BY <1>2, FS_CardinalityType

NonceCounted(a) ==
  state.nonce[a] + erased.nonce[a]
    = committed.nonce[a] + Cardinality(ReceiptsOf(receipts, a))
        + Cardinality({tx \in SpoiltInCall : tx.from = a})

LEMMA NoncesCountedByReceipts == NoncesCounted <=> (Open => \A a \in Accounts : NonceCounted(a))
  BY DEF NoncesCounted, NonceCounted, ReceiptsOf

-------------------------------------------------------------------------------
LEMMA InitIInv == Init => IInv
  <1> SUFFICES ASSUME Init PROVE IInv
    OBVIOUS
  <1>1. committed \in States /\ Covered(committed)
    BY AccountsAssumption DEF Init, States, Covered
  <1>2. TypeOK
    BY <1>1, GasAssumption, EmptySeq DEF Init, TypeOK, NothingErased, States
  <1>3. BalancesCovered
    BY <1>1 DEF Init, BalancesCovered, Covered
  <1>4. UsedGasBound
    BY GasAssumption DEF Init, UsedGasBound
  <1>5. NoncesCounted /\ NotTwice /\ CumulativeExact
    BY DEF Init, NoncesCounted, NotTwice, CumulativeExact, Open
  <1> QED BY <1>1, <1>2, <1>3, <1>4, <1>5 DEF IInv

(***************************************************************************)
(* A transaction that gets its receipt.                                    *)
(***************************************************************************)
LEMMA SucceedStep ==
  ASSUME IInv, NEW tx \in Txs, Offered(tx), Taken(tx), state' \in States, Covered(state'),
         erased' \in States,
         \A a \in Accounts : state'.nonce[a] + erased'.nonce[a]
           = state.nonce[a] + erased.nonce[a] + (IF tx.from = a THEN 1 ELSE 0),
         gasPool' \in 0..TotalGas,
         NEW gas \in 0..(Word - 1), gas = TxGas \/ gas <= tx.gasLimit,
         NEW cumulative \in Int, Succeed(tx, gas, cumulative),
         \/ usedGas' = usedGas + gas /\ cumulative = usedGas'
         \/ usedGas' = usedGas /\ tx.kind = "permission"
  PROVE  IInv'
  <1> DEFINE receipt == [tx |-> tx, gasUsed |-> gas, cumulative |-> cumulative]
  <1>1. /\ Open /\ phase' = phase /\ usedGas <= TotalGas
        /\ TypeOK /\ usedGas \in Nat /\ receipts \in Seq(Receipts)
    BY DEF Offered, Taken, Open, IInv, TypeOK
  <1>2. receipt \in Receipts
    BY DEF Receipts
  <1>3. receipts' = Append(receipts, receipt) /\ okTxs' = okTxs \cup {tx}
        /\ UNCHANGED <<errTxs, spoilt>>
    BY DEF Succeed
  <1> HIDE DEF receipt
  <1>4. /\ receipts' \in Seq(Receipts) /\ Len(receipts') = Len(receipts) + 1
        /\ \A i \in 1..Len(receipts) : receipts'[i] = receipts[i]
        /\ receipts'[Len(receipts) + 1] = receipt /\ receipts' # <<>>
        /\ Len(receipts) \in Nat /\ DOMAIN receipts = 1..Len(receipts)
        /\ DOMAIN receipts' = 1..(Len(receipts) + 1)
    BY <1>1, <1>2, <1>3, AppendProperties, LenProperties
  <1>5. usedGas' \in Nat
    BY <1>1, GasAssumption
  <1>6. TypeOK'
    BY <1>1, <1>3, <1>4, <1>5 DEF TypeOK, Taken
  <1>7. BalancesCovered' /\ Covered(committed)'
    BY DEF IInv, BalancesCovered, Covered, Taken
  <1>8. UsedGasBound'
    <2>1. tx.gasLimit \in Nat /\ TotalGas \in Nat /\ TxGas \in Nat /\ gas \in Nat
      BY TxFacts, GasAssumption
    <2>2. usedGas' <= TotalGas + TxGas \/ usedGas' <= TotalGas + tx.gasLimit
      BY <1>1, <2>1
    <2> QED BY <2>2 DEF UsedGasBound
  <1>9. NoncesCounted'
    <2> SUFFICES ASSUME NEW a \in Accounts PROVE NonceCounted(a)'
      BY DEF NoncesCounted, NonceCounted, ReceiptsOf
    <2>1. NonceCounted(a)
      BY <1>1, NoncesCountedByReceipts DEF IInv
    <2>2. /\ Cardinality(ReceiptsOf(receipts, a)) \in Nat
          /\ Cardinality(ReceiptsOf(receipts', a))
               = Cardinality(ReceiptsOf(receipts, a)) + (IF tx.from = a THEN 1 ELSE 0)
      <3>1. receipt.tx.from = tx.from
        BY DEF receipt
      <3> QED BY <1>1, <1>2, <1>3, <3>1, AppendCounts
    <2>3. Cardinality({t \in SpoiltInCall : t.from = a}) \in Nat
      BY <1>1, FailedCount
    <2>4. /\ state.nonce[a] + erased.nonce[a] \in Nat /\ committed.nonce[a] \in Nat
      <3>1. /\ state.nonce \in [Accounts -> Nat] /\ erased.nonce \in [Accounts -> Nat]
            /\ committed.nonce \in [Accounts -> Nat]
        BY <1>1 DEF TypeOK, States
      <3> QED BY <3>1
    <2>5. SpoiltInCall' = SpoiltInCall /\ committed' = committed
      BY <1>3 DEF SpoiltInCall, SpoiltCalls, Taken
    <2>6. state'.nonce[a] + erased'.nonce[a]
            = state.nonce[a] + erased.nonce[a] + (IF tx.from = a THEN 1 ELSE 0)
      OBVIOUS
    <2> QED BY <2>1, <2>2, <2>3, <2>4, <2>5, <2>6 DEF NonceCounted
  <1>10. NotTwice'
    BY <1>1, <1>3 DEF IInv, NotTwice, Taken, Open
  <1>11. CumulativeExact'
    <2> SUFFICES ASSUME Uncounted' = {}, SpoiltTransfers' = {}
                 PROVE  /\ usedGas' = receipts'[Len(receipts')].cumulative
                        /\ \A i \in DOMAIN receipts' :
                             /\ receipts'[i].gasUsed \in 0..(Word - 1)
                             /\ receipts'[i].cumulative = Previous(i)' + receipts'[i].gasUsed
      BY <1>4 DEF CumulativeExact
    <2>1. /\ receipt.tx = tx /\ receipt.gasUsed = gas /\ receipt.cumulative = cumulative
      BY DEF receipt
    <2>2. tx.kind # "permission" /\ Uncounted = {}
      BY <1>4, <2>1 DEF Uncounted
    <2>3. usedGas' = usedGas + gas /\ cumulative = usedGas'
      BY <2>2
    <2>4. SpoiltTransfers = {}
      BY <1>3 DEF SpoiltTransfers, SpoiltCalls
    <2>5. /\ usedGas = IF receipts = <<>> THEN 0 ELSE receipts[Len(receipts)].cumulative
          /\ \A i \in DOMAIN receipts :
               /\ receipts[i].gasUsed \in 0..(Word - 1)
               /\ receipts[i].cumulative = Previous(i) + receipts[i].gasUsed
      BY <1>1, <2>2, <2>4 DEF IInv, CumulativeExact
    <2>6. receipts = <<>> <=> Len(receipts) = 0
      BY <1>1, EmptySeq
    <2>7. \A i \in 1..Len(receipts) : Previous(i)' = Previous(i)
      BY <1>4 DEF Previous
    <2>8. ASSUME NEW i \in Nat, i = Len(receipts) + 1
          PROVE  Previous(i)' = usedGas
      <3>1. CASE Len(receipts) = 0
        BY <2>5, <2>6, <2>8, <3>1 DEF Previous
      <3>2. CASE Len(receipts) # 0
        <4>1. /\ i - 1 = Len(receipts) /\ i # 1 /\ Len(receipts) \in 1..Len(receipts)
          BY <1>4, <2>8, <3>2
        <4>2. Previous(i)' = receipts[Len(receipts)].cumulative
          BY <1>4, <4>1 DEF Previous
        <4> QED BY <2>5, <2>6, <3>2, <4>2
      <3> QED BY <3>1, <3>2
    <2>9. ASSUME NEW i \in DOMAIN receipts'
          PROVE  /\ receipts'[i].gasUsed \in 0..(Word - 1)
                 /\ receipts'[i].cumulative = Previous(i)' + receipts'[i].gasUsed
      <3>1. CASE i = Len(receipts) + 1
        <4>1. receipts'[i] = receipt /\ Previous(i)' = usedGas
          BY <1>4, <2>8, <3>1
        <4> QED BY <2>1, <2>3, <4>1
      <3>2. CASE i \in 1..Len(receipts)
        BY <1>4, <2>5, <2>7, <3>2
      <3> QED BY <1>4, <3>1, <3>2
    <2> QED BY <1>4, <2>1, <2>3, <2>9
  <1> QED BY <1>6, <1>7, <1>8, <1>9, <1>10, <1>11 DEF IInv

LEMMA BumpedStep ==
  ASSUME IInv, NEW tx \in Txs, Offered(tx), Taken(tx), state' \in States, Covered(state'),
         state'.nonce = [state.nonce EXCEPT ![tx.from] = @ + 1], UNCHANGED erased,
         gasPool' \in 0..TotalGas,
         NEW gas \in 0..(Word - 1), gas = TxGas \/ gas <= tx.gasLimit,
         NEW cumulative \in Int, Succeed(tx, gas, cumulative),
         \/ usedGas' = usedGas + gas /\ cumulative = usedGas'
         \/ usedGas' = usedGas /\ tx.kind = "permission"
  PROVE  IInv'
  <1>1. /\ state.nonce \in [Accounts -> Nat] /\ erased.nonce \in [Accounts -> Nat]
        /\ erased' \in States
    BY DEF IInv, TypeOK, States
  <1>2. \A a \in Accounts : state'.nonce[a] + erased'.nonce[a]
          = state.nonce[a] + erased.nonce[a] + (IF tx.from = a THEN 1 ELSE 0)
    BY <1>1
  <1> QED BY <1>1, <1>2, SucceedStep

(***************************************************************************)
(* A step that leaves state, gas and receipts as they are, within a block. *)
(***************************************************************************)
LEMMA QuietStep ==
  ASSUME IInv, Open, phase' \in {"preparing", "prepared", "panicked"},
         todo' \subseteq todo, okTxs' \subseteq Txs, errTxs' \subseteq Txs,
         UNCHANGED <<useEthereum, committed, blocks, state, gasPool, usedGas, receipts, spoilt,
                     erased>>
  PROVE  IInv'
  <1>1. TypeOK'
    BY DEF IInv, TypeOK
  <1>2. BalancesCovered' /\ Covered(committed)' /\ UsedGasBound'
    BY DEF IInv, BalancesCovered, Covered, UsedGasBound
  <1>3. NoncesCounted'
    BY DEF IInv, NoncesCounted, SpoiltInCall, SpoiltCalls, Open
  <1>4. NotTwice' /\ CumulativeExact'
    BY DEF IInv, Open, NotTwice, CumulativeExact, Uncounted, SpoiltTransfers, SpoiltCalls, Previous
  <1> QED BY <1>1, <1>2, <1>3, <1>4 DEF IInv

LEMMA TakenQuietStep ==
  ASSUME IInv, NEW tx \in Txs, Offered(tx), Taken(tx),
         okTxs' \subseteq Txs, errTxs' \subseteq Txs,
         UNCHANGED <<state, gasPool, usedGas, receipts, spoilt, erased>>
  PROVE  IInv'
  BY QuietStep DEF Offered, Taken, Open

-------------------------------------------------------------------------------
(***************************************************************************)
(* Every action keeps the invariant.                                       *)
(***************************************************************************)
LEMMA PrepareStep ==
  ASSUME IInv, Prepare
  PROVE  IInv'
  <1>1. TypeOK'
    <2>1. NothingErased \in States
      BY DEF NothingErased, States
    <2> QED BY <2>1, GasAssumption, EmptySeq DEF IInv, TypeOK, Prepare
  <1>2. BalancesCovered' /\ Covered(committed)' /\ UsedGasBound'
    BY GasAssumption DEF IInv, BalancesCovered, Covered, UsedGasBound, Prepare
  <1>3. NoncesCounted'
    <2> SUFFICES ASSUME NEW a \in Accounts PROVE NonceCounted(a)'
      BY DEF NoncesCounted, NonceCounted, ReceiptsOf
    <2>1. receipts' = <<>> /\ spoilt' = {} /\ state' = committed /\ committed' = committed
      BY DEF Prepare
    <2>2. ReceiptsOf(receipts', a) = {}
      BY <2>1, EmptySeq DEF ReceiptsOf
    <2>3. {tx \in SpoiltInCall' : tx.from = a} = {}
      BY <2>1 DEF SpoiltInCall, SpoiltCalls
    <2>4. committed.nonce[a] \in Nat
      BY DEF IInv, TypeOK, States
    <2>5. /\ Cardinality(ReceiptsOf(receipts', a)) = 0
          /\ Cardinality({tx \in SpoiltInCall' : tx.from = a}) = 0
      BY <2>2, <2>3, FS_EmptySet
    <2>6. erased'.nonce[a] = 0
      BY DEF Prepare, NothingErased
    <2>7. state'.nonce[a] + erased'.nonce[a] = committed'.nonce[a]
            + Cardinality(ReceiptsOf(receipts', a))
            + Cardinality({tx \in SpoiltInCall' : tx.from = a})
      BY <2>1, <2>4, <2>5, <2>6
    <2> QED BY <2>7 DEF NonceCounted
  <1>4. NotTwice'
    BY DEF NotTwice, Prepare
  <1>5. CumulativeExact'
    BY EmptySeq DEF CumulativeExact, Prepare
  <1> QED BY <1>1, <1>2, <1>3, <1>4, <1>5 DEF IInv

LEMMA RefuseStep ==
  ASSUME IInv, NEW tx \in Txs, Refuse(tx)
  PROVE  IInv'
  BY TakenQuietStep DEF Refuse, IInv, TypeOK

LEMMA PanicStep ==
  ASSUME IInv, NEW tx \in Txs, Panic(tx)
  PROVE  IInv'
  BY QuietStep DEF Panic, Offered, Open, IInv, TypeOK

LEMMA CaStep ==
  ASSUME IInv, NEW tx \in Txs, CaApply(tx)
  PROVE  IInv'
  BY TakenQuietStep DEF CaApply, IInv, TypeOK

LEMMA RejectStep ==
  ASSUME IInv, NEW tx \in Txs, ContractReject(tx)
  PROVE  IInv'
  BY TakenQuietStep DEF ContractReject, Fail, IInv, TypeOK

LEMMA BlockFullStep ==
  ASSUME IInv, NEW tx \in Txs, ContractBlockFull(tx)
  PROVE  IInv'
  BY QuietStep DEF ContractBlockFull, Offered, Open, IInv, TypeOK

LEMMA PrepareEndStep ==
  ASSUME IInv, PrepareEnd
  PROVE  IInv'
  BY QuietStep DEF PrepareEnd, Open, IInv, TypeOK

(***************************************************************************)
(* The transfer: what VerifyTx asked covers the value.                     *)
(***************************************************************************)
LEMMA BaseStep ==
  ASSUME IInv, NEW tx \in Txs, BaseApply(tx)
  PROVE  IInv'
  <1>1. /\ tx.kind = "base" /\ Offered(tx) /\ Taken(tx) /\ Verified(tx)
        /\ usedGas' = usedGas + TxGas /\ UNCHANGED <<gasPool, erased>>
    BY DEF BaseApply
  <1>2. /\ TypeOK /\ state \in States /\ Covered(state) /\ gasPool \in 0..TotalGas
        /\ usedGas \in Nat /\ usedGas <= TotalGas /\ phase' = phase /\ Open
    BY <1>1 DEF IInv, TypeOK, BalancesCovered, Covered, Offered, Taken, Open
  <1>3. CASE state.nonce[tx.from] = tx.nonce
    <2>1. /\ state' = NonceBumped(Moved(state, tx.from, tx.to, tx.value), tx.from)
          /\ Succeed(tx, TxGas, usedGas')
      BY <1>3 DEF BaseApply
    <2>2. state.balance[tx.from] >= tx.value
      <3>1. state.balance[tx.from] >= Cost(tx)
        BY <1>1 DEF Verified
      <3>2. state.balance[tx.from] \in Int /\ Cost(tx) \in Int /\ tx.value \in Nat
        BY <1>2, TxFacts, GasAssumption DEF States, Cost
      <3> QED BY <3>1, <3>2, CostCoversValue
    <2>3. /\ state' \in States /\ Covered(state')
          /\ state'.nonce = [state.nonce EXCEPT ![tx.from] = @ + 1]
      <3> DEFINE moved == Moved(state, tx.from, tx.to, tx.value)
      <3>1. moved \in States /\ Covered(moved) /\ moved.nonce = state.nonce
        BY <1>2, <2>2, TxFacts, MovedFacts
      <3>2. tx.from \in Accounts /\ state' = NonceBumped(moved, tx.from)
        BY <2>1, TxFacts
      <3> HIDE DEF moved
      <3> QED BY <3>1, <3>2, BumpedFacts
    <2>4. TxGas \in 0..(Word - 1) /\ usedGas' \in Int
      BY <1>1, <1>2, GasAssumption
    <2> QED BY <1>1, <1>2, <2>1, <2>3, <2>4, BumpedStep
  <1>4. CASE state.nonce[tx.from] # tx.nonce
    <2>1. UNCHANGED <<state, okTxs, errTxs, receipts>> /\ spoilt' = spoilt \cup {tx}
      BY <1>4 DEF BaseApply, Fail
    <2>2. TypeOK'
      BY <1>1, <1>2, <2>1, GasAssumption DEF TypeOK, Taken
    <2>3. BalancesCovered' /\ Covered(committed)'
      BY <1>1, <2>1 DEF IInv, BalancesCovered, Covered, Taken
    <2>4. UsedGasBound'
      BY <1>1, <1>2, GasAssumption DEF UsedGasBound
    <2>5. tx \notin SpoiltInCall' /\ SpoiltInCall' = SpoiltInCall /\ tx \in SpoiltTransfers'
      BY <1>1, <2>1 DEF SpoiltInCall, SpoiltCalls, SpoiltTransfers, Contract
    <2>6. NoncesCounted'
      BY <1>1, <1>2, <2>1, <2>5 DEF IInv, NoncesCounted, Taken
    <2>7. NotTwice'
      BY <1>1, <1>2, <2>1 DEF IInv, NotTwice, Taken
    <2>8. CumulativeExact'
      BY <2>5 DEF CumulativeExact
    <2> QED BY <2>2, <2>3, <2>4, <2>6, <2>7, <2>8 DEF IInv
  <1> QED BY <1>3, <1>4

LEMMA AccountStep ==
  ASSUME IInv, NEW tx \in Txs, AccountApply(tx)
  PROVE  IInv'
  <1>1. /\ Offered(tx) /\ Taken(tx) /\ usedGas' = usedGas + TxGas
        /\ UNCHANGED <<gasPool, erased>>
        /\ state' = NonceBumped(state, tx.from) /\ Succeed(tx, TxGas, usedGas')
    BY DEF AccountApply
  <1>2. /\ state \in States /\ Covered(state) /\ gasPool \in 0..TotalGas /\ usedGas \in Nat
    BY DEF IInv, TypeOK, BalancesCovered, Covered
  <1>3. /\ state' \in States /\ Covered(state')
        /\ state'.nonce = [state.nonce EXCEPT ![tx.from] = @ + 1]
    BY <1>1, <1>2, TxFacts, BumpedFacts
  <1>4. TxGas \in 0..(Word - 1) /\ usedGas' \in Int
    BY <1>1, <1>2, GasAssumption
  <1> QED BY <1>1, <1>2, <1>3, <1>4, BumpedStep

(***************************************************************************)
(* What the administrator's account had is counted as overwritten.         *)
(***************************************************************************)
LEMMA CreatedFacts ==
  ASSUME NEW st \in States, NEW account \in Accounts, Covered(st)
  PROVE  /\ Created(st, account) \in States /\ Covered(Created(st, account))
         /\ Created(st, account).nonce = [st.nonce EXCEPT ![account] = 0]
         /\ Created(st, account).balance = [st.balance EXCEPT ![account] = 0]
  BY DEF States, Covered, Created

LEMMA DomainStep ==
  ASSUME IInv, NEW tx \in Txs, DomainApply(tx)
  PROVE  IInv'
  <1>1. /\ Offered(tx) /\ Taken(tx) /\ usedGas' = usedGas + TxGas /\ UNCHANGED gasPool
        /\ state' = NonceBumped(Created(state, tx.to), tx.from)
        /\ erased' = [balance |-> [erased.balance EXCEPT ![tx.to] = @ + state.balance[tx.to]],
                      nonce   |-> [erased.nonce EXCEPT ![tx.to] = @ + state.nonce[tx.to]]]
        /\ Succeed(tx, TxGas, usedGas')
    BY DEF DomainApply
  <1>2. /\ state \in States /\ Covered(state) /\ erased \in States
        /\ gasPool \in 0..TotalGas /\ usedGas \in Nat
        /\ tx.from \in Accounts /\ tx.to \in Accounts
    BY TxFacts DEF IInv, TypeOK, BalancesCovered, Covered
  <1> DEFINE created == Created(state, tx.to)
  <1>3. created \in States /\ Covered(created)
        /\ created.nonce = [state.nonce EXCEPT ![tx.to] = 0]
    BY <1>2, CreatedFacts
  <1> HIDE DEF created
  <1>4. /\ state' \in States /\ Covered(state')
        /\ state'.nonce = [created.nonce EXCEPT ![tx.from] = @ + 1]
    BY <1>1, <1>2, <1>3, BumpedFacts DEF created
  <1>5. /\ erased' \in States
        /\ erased'.nonce = [erased.nonce EXCEPT ![tx.to] = @ + state.nonce[tx.to]]
    BY <1>1, <1>2 DEF States
  <1>6. \A a \in Accounts : state'.nonce[a] + erased'.nonce[a]
          = state.nonce[a] + erased.nonce[a] + (IF tx.from = a THEN 1 ELSE 0)
    <2>1. /\ state.nonce \in [Accounts -> Nat] /\ erased.nonce \in [Accounts -> Nat]
          /\ created.nonce \in [Accounts -> Nat]
      BY <1>2, <1>3 DEF States
    <2> QED BY <1>2, <1>3, <1>4, <1>5, <2>1
  <1>7. TxGas \in 0..(Word - 1) /\ usedGas' \in Int
    BY <1>1, <1>2, GasAssumption
  <1> QED BY <1>1, <1>2, <1>4, <1>5, <1>6, <1>7, SucceedStep

LEMMA PermissionStep ==
  ASSUME IInv, NEW tx \in Txs, PermissionApply(tx)
  PROVE  IInv'
  <1>1. Offered(tx) /\ Taken(tx) /\ UNCHANGED <<usedGas, gasPool, erased>> /\ tx.kind = "permission"
    BY DEF PermissionApply
  <1>2. CASE Fail /\ UNCHANGED <<state, spoilt>>
    BY <1>1, <1>2, TakenQuietStep DEF Fail, IInv, TypeOK
  <1>3. CASE state' = NonceBumped(state, tx.from) /\ Succeed(tx, TxGas, 0)
    <2>1. state \in States /\ Covered(state) /\ gasPool \in 0..TotalGas
      BY DEF IInv, TypeOK, BalancesCovered, Covered
    <2>2. /\ state' \in States /\ Covered(state')
          /\ state'.nonce = [state.nonce EXCEPT ![tx.from] = @ + 1]
      BY <1>3, <2>1, TxFacts, BumpedFacts
    <2>3. TxGas \in 0..(Word - 1)
      BY GasAssumption
    <2> QED BY <1>1, <1>3, <2>1, <2>2, <2>3, BumpedStep
  <1> QED BY <1>2, <1>3 DEF PermissionApply

(***************************************************************************)
(* A contract transaction: buyGas leaves the balance covered.              *)
(***************************************************************************)
LEMMA BoughtFacts ==
  ASSUME IInv, NEW tx \in Txs, BuysGas(tx)
  PROVE  /\ Bought(tx) \in States /\ Covered(Bought(tx)) /\ Bought(tx).nonce = state.nonce
         /\ Bought(tx).balance[tx.from] \in Int
         /\ Offered(tx) /\ Taken(tx) /\ Contract(tx)
         /\ gasPool \in 0..TotalGas /\ gasPool >= tx.gasLimit
         /\ state \in States /\ Covered(state)
  <1>1. state \in States /\ Covered(state) /\ gasPool \in 0..TotalGas
    BY DEF IInv, TypeOK, BalancesCovered, Covered
  <1>2. /\ Offered(tx) /\ Taken(tx) /\ Contract(tx) /\ gasPool >= tx.gasLimit /\ Affordable(tx)
    BY DEF BuysGas, Executable
  <1>3. /\ Bought(tx) \in States /\ Covered(Bought(tx)) /\ Bought(tx).nonce = state.nonce
    BY <1>1, <1>2, TxFacts, PaidFacts DEF Bought, Affordable
  <1>4. Bought(tx).balance[tx.from] \in Int
    BY <1>3, TxFacts DEF States
  <1> QED BY <1>1, <1>2, <1>3, <1>4

LEMMA SpoilStep ==
  ASSUME IInv, NEW tx \in Txs, ContractSpoil(tx)
  PROVE  IInv'
  <1>1. BuysGas(tx) /\ gasPool' = gasPool - tx.gasLimit /\ spoilt' = spoilt \cup {tx}
        /\ UNCHANGED <<usedGas, okTxs, errTxs, receipts, erased>>
    BY DEF ContractSpoil, Fail
  <1>2. /\ Bought(tx) \in States /\ Covered(Bought(tx)) /\ Bought(tx).nonce = state.nonce
        /\ Offered(tx) /\ Taken(tx) /\ Contract(tx)
        /\ gasPool \in 0..TotalGas /\ gasPool >= tx.gasLimit /\ state \in States
    BY <1>1, BoughtFacts
  <1>3. tx.from \in Accounts /\ tx.gasLimit \in Nat /\ tx.intrinsic \in Nat
    BY TxFacts
  <1>4. /\ Open /\ phase' = phase /\ tx \in todo /\ tx \notin spoilt /\ TypeOK
        /\ committed' = committed
    BY <1>2 DEF Offered, Taken, Open, IInv, NotTwice
  <1>5. /\ state' \in States /\ Covered(state')
        /\ state'.nonce = [state.nonce EXCEPT ![tx.from] =
                             @ + (IF tx.gasLimit >= tx.intrinsic THEN 1 ELSE 0)]
    <2>1. CASE tx.gasLimit < tx.intrinsic
      <3>1. state' = Bought(tx)
        BY <1>3, <2>1 DEF ContractSpoil
      <3>2. [state.nonce EXCEPT ![tx.from] = @ + 0] = state.nonce
        BY <1>2, <1>3 DEF States
      <3> QED BY <1>2, <1>3, <2>1, <3>1, <3>2
    <2>2. CASE tx.gasLimit >= tx.intrinsic
      <3>1. state' = NonceBumped(Bought(tx), tx.from)
        BY <1>3, <2>2 DEF ContractSpoil
      <3> QED BY <1>2, <1>3, <2>2, <3>1, BumpedFacts
    <2> QED BY <1>3, <2>1, <2>2
  <1>6. TypeOK'
    <2>1. gasPool' \in 0..TotalGas
      BY <1>1, <1>2, <1>3, GasAssumption
    <2> QED BY <1>1, <1>2, <1>4, <1>5, <2>1 DEF TypeOK, Taken
  <1>7. BalancesCovered' /\ Covered(committed)' /\ UsedGasBound'
    BY <1>1, <1>4, <1>5 DEF IInv, BalancesCovered, Covered, UsedGasBound
  <1>8. NoncesCounted'
    <2> SUFFICES ASSUME NEW a \in Accounts PROVE NonceCounted(a)'
      BY DEF NoncesCounted, NonceCounted, ReceiptsOf
    <2> DEFINE failed == {t \in SpoiltInCall : t.from = a}
    <2>1. NonceCounted(a)
      BY <1>4, NoncesCountedByReceipts DEF IInv
    <2>2. IsFiniteSet(failed) /\ Cardinality(failed) \in Nat
      BY <1>4, FailedCount
    <2>3. Cardinality({t \in SpoiltInCall' : t.from = a}) =
            Cardinality(failed)
              + (IF tx.from = a /\ tx.gasLimit >= tx.intrinsic THEN 1 ELSE 0)
      <3>1. CASE tx.from = a /\ tx.gasLimit >= tx.intrinsic
        <4>1. {t \in SpoiltInCall' : t.from = a} = failed \cup {tx} /\ tx \notin failed
          BY <1>1, <1>2, <1>4, <3>1 DEF SpoiltInCall, SpoiltCalls
        <4> HIDE DEF failed
        <4> QED BY <2>2, <3>1, <4>1, FS_AddElement
      <3>2. CASE ~ (tx.from = a /\ tx.gasLimit >= tx.intrinsic)
        <4>1. {t \in SpoiltInCall' : t.from = a} = failed
          BY <1>1, <3>2 DEF SpoiltInCall, SpoiltCalls
        <4> HIDE DEF failed
        <4> QED BY <2>2, <3>2, <4>1
      <3> QED BY <3>1, <3>2
    <2>4. /\ state'.nonce[a] = state.nonce[a]
               + (IF tx.from = a /\ tx.gasLimit >= tx.intrinsic THEN 1 ELSE 0)
          /\ state.nonce[a] \in Nat /\ committed.nonce[a] \in Nat /\ erased.nonce[a] \in Nat
      <3>1. /\ erased.nonce \in [Accounts -> Nat]
            /\ state.nonce \in [Accounts -> Nat] /\ committed.nonce \in [Accounts -> Nat]
        BY <1>4 DEF TypeOK, States
      <3>2. state'.nonce[a] = IF tx.from = a
                              THEN state.nonce[a]
                                     + (IF tx.gasLimit >= tx.intrinsic THEN 1 ELSE 0)
                              ELSE state.nonce[a]
        BY <1>3, <1>5, <3>1
      <3> QED BY <3>1, <3>2
    <2>5. Cardinality(ReceiptsOf(receipts, a)) \in Nat
      <3>1. state.nonce[a] \in Nat /\ receipts \in Seq(Receipts)
        BY <1>4, <2>4 DEF TypeOK
      <3>2. IsFiniteSet(1..Len(receipts)) /\ DOMAIN receipts = 1..Len(receipts)
        BY <3>1, FS_Interval, LenProperties
      <3>3. ReceiptsOf(receipts, a) \in SUBSET (1..Len(receipts))
        BY <3>2 DEF ReceiptsOf
      <3> QED BY <3>2, <3>3, FS_Subset, FS_CardinalityType
    <2>6. receipts' = receipts /\ erased' = erased
      BY <1>1
    <2> HIDE DEF failed
    <2>7. state.nonce[a] + erased.nonce[a]
            = committed.nonce[a] + Cardinality(ReceiptsOf(receipts, a)) + Cardinality(failed)
      BY <2>1 DEF NonceCounted, failed
    <2>8. state'.nonce[a] + erased'.nonce[a]
            = committed'.nonce[a] + Cardinality(ReceiptsOf(receipts', a))
                + Cardinality({t \in SpoiltInCall' : t.from = a})
      BY <1>4, <2>2, <2>3, <2>4, <2>5, <2>6, <2>7
    <2> QED BY <2>8 DEF NonceCounted
  <1>9. NotTwice'
    BY <1>1, <1>2, <1>4 DEF IInv, NotTwice, Taken
  <1>10. CumulativeExact'
    <2>1. SpoiltTransfers' = SpoiltTransfers /\ Uncounted' = Uncounted
      BY <1>1, <1>2 DEF SpoiltTransfers, SpoiltCalls, Uncounted
    <2> QED BY <1>1, <1>4, <2>1 DEF IInv, CumulativeExact, Previous
  <1> QED BY <1>6, <1>7, <1>8, <1>9, <1>10 DEF IInv

LEMMA SettledFacts ==
  ASSUME NEW tx \in Txs, NEW called \in States, Covered(called), NEW left \in 0..tx.gasLimit
  PROVE  /\ Settled(tx, called, left) \in States /\ Covered(Settled(tx, called, left))
         /\ Settled(tx, called, left).nonce = called.nonce
  <1>1. \A m, n \in Nat : m * n \in Nat
    OBVIOUS
  <1>2. left \in Nat /\ tx.gasLimit - left \in Nat /\ tx.gasPrice \in Nat /\ tx.from \in Accounts
    BY TxFacts
  <1>3. left * tx.gasPrice \in Nat /\ (tx.gasLimit - left) * tx.gasPrice \in Nat
    BY <1>1, <1>2
  <1> DEFINE back == left * tx.gasPrice
             share == (tx.gasLimit - left) * tx.gasPrice
  <1>4. back \in Nat /\ share \in Nat
    BY <1>3
  <1>5. Settled(tx, called, left) = Earned(Earned(called, tx.from, back), Coinbase, share)
    BY DEF Settled
  <1> HIDE DEF back, share
  <1>6. /\ Earned(called, tx.from, back) \in States /\ Covered(Earned(called, tx.from, back))
        /\ Earned(called, tx.from, back).nonce = called.nonce
    BY <1>2, <1>4, EarnedFacts
  <1> QED BY <1>4, <1>5, <1>6, EarnedFacts, AccountsAssumption

LEMMA ContractStep ==
  ASSUME IInv, NEW tx \in Txs, ContractApply(tx)
  PROVE  IInv'
  <1>1. BuysGas(tx) /\ tx.gasLimit >= tx.intrinsic /\ Bought(tx).balance[tx.from] >= tx.value
    BY DEF ContractApply
  <1>2. /\ Bought(tx) \in States /\ Covered(Bought(tx)) /\ Bought(tx).nonce = state.nonce
        /\ Offered(tx) /\ Taken(tx) /\ gasPool \in 0..TotalGas /\ gasPool >= tx.gasLimit
    BY <1>1, BoughtFacts
  <1>3. /\ tx.from \in Accounts /\ tx.to \in Accounts /\ tx.value \in Nat
        /\ tx.gasLimit \in 0..(Word - 1) /\ tx.gasLimit \in Nat /\ tx.intrinsic \in Nat
    BY TxFacts
  <1>4. PICK returned \in 0..(tx.gasLimit - tx.intrinsic), failed \in BOOLEAN :
          \E refund \in 0..((tx.gasLimit - returned) \div 2) :
            LET left   == returned + refund
                gas    == tx.gasLimit - left
                called == NonceBumped(IF failed THEN Bought(tx)
                                      ELSE Moved(Bought(tx), tx.from, tx.to, tx.value), tx.from)
            IN  /\ state' = Settled(tx, called, left)
                /\ gasPool' = gasPool - tx.gasLimit + left
                /\ usedGas' = usedGas + gas
                /\ Succeed(tx, gas, usedGas')
                /\ UNCHANGED erased
    BY DEF ContractApply
  <1> DEFINE paid   == IF failed THEN Bought(tx)
                       ELSE Moved(Bought(tx), tx.from, tx.to, tx.value)
             called == NonceBumped(paid, tx.from)
  <1>5. PICK refund \in 0..((tx.gasLimit - returned) \div 2) :
          /\ state' = Settled(tx, called, returned + refund)
          /\ gasPool' = gasPool - tx.gasLimit + (returned + refund)
          /\ usedGas' = usedGas + (tx.gasLimit - (returned + refund))
          /\ Succeed(tx, tx.gasLimit - (returned + refund), usedGas')
          /\ UNCHANGED erased
    BY <1>4
  <1>6. /\ paid \in States /\ Covered(paid) /\ paid.nonce = state.nonce
    <2>1. /\ Moved(Bought(tx), tx.from, tx.to, tx.value) \in States
          /\ Covered(Moved(Bought(tx), tx.from, tx.to, tx.value))
          /\ Moved(Bought(tx), tx.from, tx.to, tx.value).nonce = state.nonce
      BY <1>1, <1>2, <1>3, MovedFacts
    <2> QED BY <1>2, <2>1
  <1> HIDE DEF paid
  <1>7. /\ called \in States /\ Covered(called)
        /\ called.nonce = [state.nonce EXCEPT ![tx.from] = @ + 1]
    BY <1>3, <1>6, BumpedFacts
  <1> HIDE DEF called
  <1> DEFINE left == returned + refund
             gas  == tx.gasLimit - left
  <1>8. left \in 0..tx.gasLimit /\ gas \in 0..(Word - 1) /\ gas <= tx.gasLimit
    <2>1. \A n \in Nat : n \div 2 \in Nat /\ n \div 2 <= n
      OBVIOUS
    <2>2. returned \in Nat /\ tx.gasLimit - returned \in Nat
      BY <1>3
    <2>3. refund \in Nat /\ refund <= tx.gasLimit - returned
      BY <2>1, <2>2
    <2>4. left \in Nat /\ left <= tx.gasLimit /\ Word \in Nat
      BY <1>3, <2>2, <2>3, GasAssumption
    <2> HIDE DEF left
    <2> QED BY <1>3, <2>4
  <1>9. /\ state' = Settled(tx, called, left) /\ gasPool' = gasPool - tx.gasLimit + left
        /\ usedGas' = usedGas + gas /\ Succeed(tx, gas, usedGas') /\ erased' = erased
    BY <1>5
  <1> HIDE DEF left, gas
  <1>10. /\ state' \in States /\ Covered(state')
         /\ state'.nonce = [state.nonce EXCEPT ![tx.from] = @ + 1]
    BY <1>7, <1>8, <1>9, SettledFacts
  <1>11. gasPool' \in 0..TotalGas /\ usedGas' \in Int
    <2>1. usedGas \in Nat /\ TotalGas \in Nat /\ Word \in Nat
      BY GasAssumption DEF IInv, TypeOK
    <2> QED BY <1>2, <1>3, <1>8, <1>9, <2>1
  <1> QED BY <1>2, <1>8, <1>9, <1>10, <1>11, BumpedStep

LEMMA CommitStep ==
  ASSUME IInv, Commit
  PROVE  IInv'
  <1>1. receipts \in Seq(Receipts) /\ \A i \in DOMAIN receipts : receipts[i] \in Receipts
    BY ElementOfSeq, LenProperties DEF IInv, TypeOK
  <1>2. \A m, n \in Int : (m - n) % Word \in Int
    BY GasAssumption
  <1>3. \A i \in DOMAIN receipts : FirstCumulative(i) \in Int
    <2>1. \A i \in DOMAIN receipts : receipts[i].gasUsed \in Int /\ receipts[i].cumulative \in Int
      BY <1>1 DEF Receipts
    <2> QED BY <2>1 DEF FirstCumulative
  <1>4. receipts' \in Seq(Receipts)
    <2>1. DOMAIN receipts = 1..Len(receipts) /\ Len(receipts) \in Nat
      BY <1>1, LenProperties
    <2>2. ASSUME NEW i \in DOMAIN receipts
          PROVE  receipts'[i] \in Receipts
      <3>1. receipts'[i] = [receipts[i] EXCEPT
               !.cumulative = FirstCumulative(i),
               !.gasUsed = IF i = 1 THEN @
                           ELSE (FirstCumulative(i) - FirstCumulative(i - 1)) % Word]
        BY DEF Commit
      <3>2. i # 1 => i - 1 \in DOMAIN receipts
        BY <2>1
      <3>3. i # 1 => (FirstCumulative(i) - FirstCumulative(i - 1)) % Word \in Int
        BY <1>2, <1>3, <3>2
      <3>4. FirstCumulative(i) \in Int /\ receipts[i] \in Receipts
        BY <1>1, <1>3
      <3> QED BY <3>1, <3>3, <3>4 DEF Receipts
    <2>3. /\ DOMAIN receipts' = 1..Len(receipts)
          /\ receipts' = [i \in 1..Len(receipts) |-> receipts'[i]]
      BY <2>1 DEF Commit
    <2> QED BY <2>1, <2>2, <2>3, IsASeq
  <1>5. TypeOK'
    BY <1>4 DEF IInv, TypeOK, Commit
  <1>6. BalancesCovered' /\ Covered(committed)' /\ UsedGasBound'
    BY DEF IInv, BalancesCovered, Covered, UsedGasBound, Commit
  <1>7. NoncesCounted' /\ NotTwice' /\ CumulativeExact'
    BY DEF NoncesCounted, NotTwice, CumulativeExact, Open, Commit
  <1> QED BY <1>5, <1>6, <1>7 DEF IInv

LEMMA AbandonStep ==
  ASSUME IInv, Abandon
  PROVE  IInv'
  <1>1. TypeOK'
    BY EmptySeq DEF IInv, TypeOK, Abandon, NothingErased, States
  <1>2. BalancesCovered' /\ Covered(committed)' /\ UsedGasBound'
    BY DEF IInv, BalancesCovered, Covered, UsedGasBound, Abandon
  <1>3. NoncesCounted' /\ NotTwice' /\ CumulativeExact'
    BY DEF NoncesCounted, NotTwice, CumulativeExact, Open, Abandon
  <1> QED BY <1>1, <1>2, <1>3 DEF IInv

LEMMA NextIInv == IInv /\ [Next]_vars => IInv'
  <1> SUFFICES ASSUME IInv, [Next]_vars PROVE IInv'
    OBVIOUS
  <1>1. CASE Prepare
    BY <1>1, PrepareStep
  <1>2. ASSUME NEW tx \in Txs, PrepareTx(tx) PROVE IInv'
    BY <1>2, RefuseStep, PanicStep, BaseStep, AccountStep, DomainStep, PermissionStep, CaStep,
       RejectStep, BlockFullStep, SpoilStep, ContractStep DEF PrepareTx
  <1>3. CASE UNCHANGED vars
    <2>1. TypeOK' /\ BalancesCovered' /\ Covered(committed)' /\ UsedGasBound'
      BY <1>3 DEF IInv, TypeOK, BalancesCovered, Covered, UsedGasBound, vars
    <2>2. NoncesCounted' /\ NotTwice' /\ CumulativeExact'
      BY <1>3 DEF IInv, NoncesCounted, NotTwice, CumulativeExact, Open, SpoiltInCall,
                  SpoiltCalls, SpoiltTransfers, Uncounted, Previous, vars
    <2> QED BY <2>1, <2>2 DEF IInv
  <1> QED BY <1>1, <1>2, <1>3, PrepareEndStep, CommitStep, AbandonStep DEF Next


-------------------------------------------------------------------------------
THEOREM InvariantHolds == Spec => []IInv
  <1> QED BY InitIInv, NextIInv, PTL DEF Spec

(***************************************************************************)
(* Every field of the state context keeps its type; the block's gas pool   *)
(* stays between zero and the limit (state_transition.go:143, 241), and no *)
(* nonce is ever below zero.                                               *)
(***************************************************************************)
THEOREM TypeCorrect == Spec => []TypeOK
  <1>1. IInv => TypeOK
    BY DEF IInv
  <1> QED BY <1>1, InvariantHolds, PTL

(***************************************************************************)
(* No account ever spends what it has not got (baseInterpreter.go:57), for *)
(* every set of transactions and every word width: the wrapped cost still  *)
(* covers the value.                                                       *)
(***************************************************************************)
THEOREM BalancesAlwaysCovered == Spec => []BalancesCovered
  <1>1. IInv => BalancesCovered
    BY DEF IInv
  <1> QED BY <1>1, InvariantHolds, PTL

(***************************************************************************)
(* The block overshoots its gas limit by at most one transaction           *)
(* (app.go:251).                                                           *)
(***************************************************************************)
THEOREM UsedGasAlwaysBound == Spec => []UsedGasBound
  <1>1. IInv => UsedGasBound
    BY DEF IInv
  <1> QED BY <1>1, InvariantHolds, PTL

(***************************************************************************)
(* An account's nonce counts its executed transactions                     *)
(* (state_transition.go:207, baseInterpreter.go:94), less what it was when *)
(* the registration of a domain overwrote it (register.go:153).            *)
(***************************************************************************)
THEOREM NoncesAlwaysCounted == Spec => []NoncesCounted
  <1>1. IInv => NoncesCounted
    BY DEF IInv
  <1> QED BY <1>1, InvariantHolds, PTL

-------------------------------------------------------------------------------
(***************************************************************************)
(* Commit gives back each receipt's gas (app.go:320-328): the difference   *)
(* of two cumulative gases that are exact is the gas itself, since a gas   *)
(* is below the word.                                                      *)
(***************************************************************************)
LEMMA CommitKeepsGas ==
  ASSUME IInv, Commit, Uncounted = {}, SpoiltTransfers = {}, NEW i \in DOMAIN receipts
  PROVE  receipts'[i].gasUsed = receipts[i].gasUsed
  <1>1. /\ receipts \in Seq(Receipts) /\ \A k \in DOMAIN receipts : receipts[k] \in Receipts
        /\ DOMAIN receipts = 1..Len(receipts) /\ Len(receipts) \in Nat
    BY ElementOfSeq, LenProperties DEF IInv, TypeOK
  <1>2. \A k \in DOMAIN receipts :
          /\ receipts[k].gasUsed \in 0..(Word - 1)
          /\ receipts[k].cumulative = Previous(k) + receipts[k].gasUsed
    BY DEF IInv, CumulativeExact, Open, Commit
  <1>3. receipts'[i].gasUsed = IF i = 1 THEN receipts[i].gasUsed
                               ELSE (FirstCumulative(i) - FirstCumulative(i - 1)) % Word
    BY <1>1 DEF Commit, Receipts
  <1>4. CASE i = 1
    BY <1>3, <1>4
  <1>5. CASE i # 1
    <2>1. i - 1 \in DOMAIN receipts
      BY <1>1, <1>5
    <2>2. FirstCumulative(i - 1) = receipts[i - 1].cumulative
      <3>1. CASE i - 1 = 1
        <4>1. receipts[1].cumulative = 0 + receipts[1].gasUsed /\ receipts[1].gasUsed \in Int
          BY <1>2, <2>1, <3>1, GasAssumption DEF Previous
        <4> QED BY <3>1, <4>1 DEF FirstCumulative
      <3>2. CASE i - 1 # 1
        BY <3>2 DEF FirstCumulative
      <3> QED BY <3>1, <3>2
    <2>3. FirstCumulative(i) = receipts[i - 1].cumulative + receipts[i].gasUsed
      BY <1>2, <1>5 DEF FirstCumulative, Previous
    <2>4. receipts[i - 1].cumulative \in Int /\ receipts[i].gasUsed \in 0..(Word - 1)
      BY <1>1, <1>2, <2>1 DEF Receipts
    <2>5. FirstCumulative(i) - FirstCumulative(i - 1) = receipts[i].gasUsed
      BY <2>2, <2>3, <2>4, GasAssumption
    <2>6. \A n \in 0..(Word - 1) : n % Word = n
      BY GasAssumption
    <2> QED BY <1>3, <1>5, <2>4, <2>5, <2>6
  <1> QED BY <1>4, <1>5

(***************************************************************************)
(* Every receipt that Commit writes has the gas that the interpreter wrote *)
(* (app.go:320-328), in a block in which no gas is uncounted or counted    *)
(* without a receipt.                                                      *)
(***************************************************************************)
THEOREM ReceiptGasAlwaysKept == Spec => ReceiptGasKept
  <1> DEFINE Given == phase = "prepared" /\ Uncounted = {} /\ SpoiltTransfers = {}
                      /\ receipts' # <<>>
             Kept  == \A i \in DOMAIN receipts : receipts'[i].gasUsed = receipts[i].gasUsed
  <1>1. IInv /\ [Next]_vars => [Given => Kept]_vars
    <2> SUFFICES ASSUME IInv, Next, Given PROVE Kept
      BY DEF vars
    <2>1. Commit \/ Abandon
      BY DEF Next, Prepare, PrepareTx, Refuse, Panic, BaseApply, AccountApply, DomainApply,
             PermissionApply, CaApply, ContractReject, ContractBlockFull, ContractSpoil,
             ContractApply, BuysGas, Offered, PrepareEnd
    <2>2. ~ Abandon
      BY DEF Abandon
    <2> QED BY <2>1, <2>2, CommitKeepsGas
  <1> HIDE DEF Given, Kept
  <1>2. Spec => [][Given => Kept]_vars
    BY <1>1, InvariantHolds, PTL DEF Spec
  <1> QED BY <1>2 DEF ReceiptGasKept, Given, Kept
-------------------------------------------------------------------------------
(***************************************************************************)
(* The books of a block: what its accounts own, what its gas pool lacks    *)
(* and what it has used.                                                   *)
(***************************************************************************)
Books == ValueConserved /\ GasAccounted /\ UsedGasExplained

LEMMA TotalInt ==
  ASSUME NEW st \in States
  PROVE  Total(st) \in Int
  BY AccountsAssumption, SumInt DEF Total, States

LEMMA TotalPaid ==
  ASSUME NEW st \in States, NEW from \in Accounts, NEW amount \in Nat
  PROVE  /\ Paid(st, from, amount) \in States
         /\ Total(Paid(st, from, amount)) = Total(st) - amount
  <1>1. Paid(st, from, amount) \in States
    BY DEF Paid, States
  <1> DEFINE d == 0 - amount
  <1>2. st.balance \in [Accounts -> Int] /\ d \in Int
    BY DEF States
  <1>3. Paid(st, from, amount).balance = [st.balance EXCEPT ![from] = @ + d]
    BY <1>2 DEF Paid, States
  <1> HIDE DEF d
  <1>4. Total(Paid(st, from, amount)) = Total(st) + d
    BY <1>2, <1>3, SumExcept, AccountsAssumption DEF Total
  <1> QED BY <1>1, <1>4, TotalInt DEF d

LEMMA TotalEarned ==
  ASSUME NEW st \in States, NEW to \in Accounts, NEW amount \in Nat
  PROVE  /\ Earned(st, to, amount) \in States
         /\ Total(Earned(st, to, amount)) = Total(st) + amount
  <1>1. Earned(st, to, amount) \in States
    BY DEF Earned, States
  <1>2. st.balance \in [Accounts -> Int] /\ amount \in Int
    BY DEF States
  <1>3. Earned(st, to, amount).balance = [st.balance EXCEPT ![to] = @ + amount]
    BY <1>2 DEF Earned, States
  <1> QED BY <1>1, <1>2, <1>3, SumExcept, AccountsAssumption DEF Total

LEMMA TotalMoved ==
  ASSUME NEW st \in States, NEW from \in Accounts, NEW to \in Accounts, NEW amount \in Nat
  PROVE  /\ Moved(st, from, to, amount) \in States
         /\ Total(Moved(st, from, to, amount)) = Total(st)
  BY TotalPaid, TotalEarned, TotalInt DEF Moved

LEMMA TotalBumped ==
  ASSUME NEW st \in States, NEW account \in Accounts
  PROVE  /\ NonceBumped(st, account) \in States
         /\ Total(NonceBumped(st, account)) = Total(st)
  <1>1. NonceBumped(st, account) \in States
    BY DEF NonceBumped, States
  <1>2. NonceBumped(st, account).balance = st.balance
    BY DEF NonceBumped, States
  <1> QED BY <1>1, <1>2 DEF Total

(***************************************************************************)
(* What buyGas takes is what is given back and what the coinbase earns.    *)
(***************************************************************************)
LEMMA TotalSettled ==
  ASSUME NEW tx \in Txs, NEW called \in States, NEW left \in 0..tx.gasLimit
  PROVE  Total(Settled(tx, called, left)) = Total(called) + tx.gasLimit * tx.gasPrice
  <1> DEFINE back  == left * tx.gasPrice
             share == (tx.gasLimit - left) * tx.gasPrice
  <1>1. left \in Nat /\ tx.gasLimit - left \in Nat /\ tx.gasPrice \in Nat /\ tx.from \in Accounts
        /\ tx.gasLimit \in Nat
    BY TxFacts
  <1>2. \A m, n \in Nat : m * n \in Nat
    OBVIOUS
  <1>3. back \in Nat /\ share \in Nat
    BY <1>1, <1>2
  <1>4. back + share = tx.gasLimit * tx.gasPrice
    <2>1. \A l, m, p \in Int : l * p + (m - l) * p = m * p
      OBVIOUS
    <2> QED BY <1>1, <2>1
  <1>5. Settled(tx, called, left) = Earned(Earned(called, tx.from, back), Coinbase, share)
    BY DEF Settled
  <1> HIDE DEF back, share
  <1>6. /\ Earned(called, tx.from, back) \in States
        /\ Total(Earned(called, tx.from, back)) = Total(called) + back
    BY <1>1, <1>3, TotalEarned
  <1>7. Total(Settled(tx, called, left)) = (Total(called) + back) + share
    BY <1>3, <1>5, <1>6, TotalEarned, AccountsAssumption
  <1> QED BY <1>3, <1>4, <1>7, TotalInt

(***************************************************************************)
(* The sums of a block are sums of integers over finite sets.              *)
(***************************************************************************)
LEMMA BookTypes ==
  ASSUME TypeOK
  PROVE  /\ IsFiniteSet(SpoiltCalls) /\ SpoiltCalls \subseteq Txs
         /\ \A tx \in Txs : /\ GasPaid[tx] = tx.gasLimit * tx.gasPrice /\ GasPaid[tx] \in Int
                            /\ GasLimits[tx] = tx.gasLimit /\ GasLimits[tx] \in Int
         /\ IsFiniteSet(DOMAIN receipts)
         /\ \A i \in DOMAIN receipts : GasUsed[i] = receipts[i].gasUsed /\ GasUsed[i] \in Int
         /\ SumFunctionOnSet(GasPaid, SpoiltCalls) \in Int
         /\ SumFunctionOnSet(GasLimits, SpoiltCalls) \in Int
         /\ SumFunctionOnSet(GasUsed, ContractReceipts) \in Int
         /\ SumFunctionOnSet(GasUsed, DOMAIN receipts \ Uncounted) \in Int
         /\ IsFiniteSet(SpoiltTransfers) /\ Cardinality(SpoiltTransfers) \in Nat
  <1>1. SpoiltCalls \in SUBSET Txs /\ SpoiltTransfers \in SUBSET Txs
    BY DEF TypeOK, SpoiltCalls, SpoiltTransfers
  <1>2. IsFiniteSet(SpoiltCalls) /\ IsFiniteSet(SpoiltTransfers)
    BY <1>1, TxsAssumption, FS_Subset
  <1>3. \A tx \in Txs : /\ GasPaid[tx] = tx.gasLimit * tx.gasPrice /\ GasPaid[tx] \in Int
                        /\ GasLimits[tx] = tx.gasLimit /\ GasLimits[tx] \in Int
    <2> SUFFICES ASSUME NEW tx \in Txs
                 PROVE  /\ GasPaid[tx] = tx.gasLimit * tx.gasPrice /\ GasPaid[tx] \in Int
                        /\ GasLimits[tx] = tx.gasLimit /\ GasLimits[tx] \in Int
      OBVIOUS
    <2> QED BY TxFacts DEF GasPaid, GasLimits
  <1>4. /\ receipts \in Seq(Receipts) /\ DOMAIN receipts = 1..Len(receipts)
        /\ Len(receipts) \in Nat /\ \A i \in DOMAIN receipts : receipts[i] \in Receipts
    BY ElementOfSeq, LenProperties DEF TypeOK
  <1>5. IsFiniteSet(DOMAIN receipts)
    BY <1>4, FS_Interval
  <1>6. \A i \in DOMAIN receipts : GasUsed[i] = receipts[i].gasUsed /\ GasUsed[i] \in Int
    BY <1>4 DEF GasUsed, Receipts
  <1>7. /\ ContractReceipts \in SUBSET DOMAIN receipts
        /\ DOMAIN receipts \ Uncounted \in SUBSET DOMAIN receipts
    BY DEF ContractReceipts
  <1>8. IsFiniteSet(ContractReceipts) /\ IsFiniteSet(DOMAIN receipts \ Uncounted)
    BY <1>5, <1>7, FS_Subset
  <1>9. /\ SumFunctionOnSet(GasPaid, SpoiltCalls) \in Int
        /\ SumFunctionOnSet(GasLimits, SpoiltCalls) \in Int
    BY <1>1, <1>2, <1>3, SumInt
  <1>10. /\ SumFunctionOnSet(GasUsed, ContractReceipts) \in Int
         /\ SumFunctionOnSet(GasUsed, DOMAIN receipts \ Uncounted) \in Int
    BY <1>6, <1>7, <1>8, SumInt
  <1> QED BY <1>1, <1>2, <1>3, <1>5, <1>6, <1>9, <1>10, FS_CardinalityType

(***************************************************************************)
(* A step within a block that leaves money, gas and receipts as they are.  *)
(***************************************************************************)
LEMMA QuietBooks ==
  ASSUME Books, Open,
         UNCHANGED <<committed, state, gasPool, usedGas, receipts, spoilt, erased>>
  PROVE  Books'
  <1>1. /\ SpoiltCalls' = SpoiltCalls /\ SpoiltTransfers' = SpoiltTransfers
        /\ ContractReceipts' = ContractReceipts /\ Uncounted' = Uncounted /\ GasUsed' = GasUsed
    BY DEF SpoiltCalls, SpoiltTransfers, ContractReceipts, Uncounted, GasUsed
  <1> QED BY <1>1 DEF Books, ValueConserved, GasAccounted, UsedGasExplained

(***************************************************************************)
(* A transaction that gets its receipt: value is moved or overwritten, a   *)
(* contract takes its gas from the pool, and all but the permission        *)
(* interpreter count it.                                                   *)
(***************************************************************************)
LEMMA SucceedBooks ==
  ASSUME IInv, Books, NEW tx \in Txs, Offered(tx), Taken(tx),
         Total(state') + Total(erased') = Total(state) + Total(erased),
         NEW gas \in Nat, NEW cumulative \in Int, Succeed(tx, gas, cumulative),
         gasPool' = IF Contract(tx) THEN gasPool - gas ELSE gasPool,
         usedGas' = IF tx.kind = "permission" THEN usedGas ELSE usedGas + gas
  PROVE  Books'
  <1> DEFINE receipt == [tx |-> tx, gasUsed |-> gas, cumulative |-> cumulative]
             n == Len(receipts) + 1
  <1>1. /\ Open /\ TypeOK /\ receipts \in Seq(Receipts) /\ committed' = committed
        /\ gasPool \in Int /\ usedGas \in Int
    BY GasAssumption DEF Offered, Taken, Open, IInv, TypeOK
  <1>2. /\ receipt \in Receipts /\ receipts' = Append(receipts, receipt) /\ spoilt' = spoilt
        /\ receipt.tx = tx /\ receipt.gasUsed = gas
    BY DEF Receipts, Succeed
  <1> HIDE DEF receipt
  <1>3. /\ DOMAIN receipts' = DOMAIN receipts \cup {n} /\ n \notin DOMAIN receipts
        /\ \A i \in DOMAIN receipts : receipts'[i] = receipts[i]
        /\ receipts'[n] = receipt
    <2>1. /\ receipts' \in Seq(Receipts) /\ Len(receipts') = n
          /\ Len(receipts) \in Nat /\ DOMAIN receipts = 1..Len(receipts)
          /\ DOMAIN receipts' = 1..Len(receipts')
          /\ \A i \in 1..Len(receipts) : receipts'[i] = receipts[i]
          /\ receipts'[n] = receipt
      BY <1>1, <1>2, AppendProperties, LenProperties
    <2> QED BY <2>1
  <1> HIDE DEF n
  <1>4. /\ IsFiniteSet(DOMAIN receipts)
        /\ \A i \in DOMAIN receipts : GasUsed[i] \in Int
        /\ SumFunctionOnSet(GasUsed, ContractReceipts) \in Int
        /\ SumFunctionOnSet(GasUsed, DOMAIN receipts \ Uncounted) \in Int
        /\ SumFunctionOnSet(GasLimits, SpoiltCalls) \in Int
        /\ Cardinality(SpoiltTransfers) \in Nat
    BY <1>1, BookTypes
  <1>5. GasUsed'[n] = gas /\ \A i \in DOMAIN receipts : GasUsed'[i] = GasUsed[i]
    BY <1>2, <1>3 DEF GasUsed
  <1>6. SpoiltCalls' = SpoiltCalls /\ SpoiltTransfers' = SpoiltTransfers
    BY <1>2 DEF SpoiltCalls, SpoiltTransfers
  <1>7. ASSUME NEW S \in SUBSET DOMAIN receipts
        PROVE  /\ SumFunctionOnSet(GasUsed', S) = SumFunctionOnSet(GasUsed, S)
               /\ SumFunctionOnSet(GasUsed', S \cup {n}) = gas + SumFunctionOnSet(GasUsed, S)
    <2> DEFINE used == GasUsed'
    <2>1. /\ IsFiniteSet(S) /\ n \notin S /\ used[n] \in Int
          /\ \A i \in S : used[i] = GasUsed[i] /\ used[i] \in Int
      BY <1>3, <1>4, <1>5, FS_Subset
    <2>2. used[n] = gas
      BY <1>5
    <2> HIDE DEF used
    <2>3. SumFunctionOnSet(used, S) = SumFunctionOnSet(GasUsed, S)
      BY <2>1, SumAgree
    <2>4. SumFunctionOnSet(used, S \cup {n}) = used[n] + SumFunctionOnSet(used, S)
      BY <2>1, SumAdd
    <2> QED BY <2>2, <2>3, <2>4 DEF used
  <1>8. ValueConserved'
    BY <1>1, <1>6 DEF Books, ValueConserved
  <1>9. GasAccounted'
    <2>1. gasPool + SumFunctionOnSet(GasUsed, ContractReceipts)
            + SumFunctionOnSet(GasLimits, SpoiltCalls) = TotalGas
      BY <1>1 DEF Books, GasAccounted
    <2>2. ContractReceipts \in SUBSET DOMAIN receipts
      BY DEF ContractReceipts
    <2>3. CASE Contract(tx)
      <3>1. ContractReceipts' = ContractReceipts \cup {n}
        BY <1>2, <1>3, <2>3 DEF ContractReceipts
      <3>2. SumFunctionOnSet(GasUsed, ContractReceipts)'
              = gas + SumFunctionOnSet(GasUsed, ContractReceipts)
        BY <1>7, <2>2, <3>1
      <3> QED BY <1>1, <1>4, <1>6, <2>1, <2>3, <3>2 DEF GasAccounted
    <2>4. CASE ~ Contract(tx)
      <3>1. ContractReceipts' = ContractReceipts
        BY <1>2, <1>3, <2>4 DEF ContractReceipts
      <3>2. SumFunctionOnSet(GasUsed, ContractReceipts)'
              = SumFunctionOnSet(GasUsed, ContractReceipts)
        BY <1>7, <2>2, <3>1
      <3> QED BY <1>6, <2>1, <2>4, <3>2 DEF GasAccounted
    <2> QED BY <2>3, <2>4
  <1>10. UsedGasExplained'
    <2> DEFINE Counted == DOMAIN receipts \ Uncounted
    <2>1. usedGas = TxGas * Cardinality(SpoiltTransfers) + SumFunctionOnSet(GasUsed, Counted)
      BY <1>1 DEF Books, UsedGasExplained
    <2>2. Counted \in SUBSET DOMAIN receipts
      OBVIOUS
    <2>3. CASE tx.kind = "permission"
      <3>1. Counted' = Counted
        BY <1>2, <1>3, <2>3 DEF Uncounted
      <3>2. SumFunctionOnSet(GasUsed, Counted)' = SumFunctionOnSet(GasUsed, Counted)
        BY <1>7, <2>2, <3>1
      <3>3. usedGas' = usedGas
        BY <2>3
      <3> QED BY <1>6, <2>1, <3>2, <3>3 DEF UsedGasExplained
    <2>4. CASE tx.kind # "permission"
      <3>1. Counted' = Counted \cup {n}
        BY <1>2, <1>3, <2>4 DEF Uncounted
      <3>2. SumFunctionOnSet(GasUsed, Counted)' = gas + SumFunctionOnSet(GasUsed, Counted)
        BY <1>7, <2>2, <3>1
      <3>3. usedGas' = usedGas + gas /\ TxGas * Cardinality(SpoiltTransfers) \in Int
            /\ SumFunctionOnSet(GasUsed, Counted) \in Int
        <4>1. \A m, k \in Int : m * k \in Int
          OBVIOUS
        <4> QED BY <1>4, <2>4, <4>1, GasAssumption
      <3>4. usedGas' = TxGas * Cardinality(SpoiltTransfers)
                         + SumFunctionOnSet(GasUsed, Counted)'
        <4> DEFINE failed == TxGas * Cardinality(SpoiltTransfers)
                   sum == SumFunctionOnSet(GasUsed, Counted)
        <4>1. usedGas = failed + sum /\ failed \in Int /\ sum \in Int
          BY <2>1, <3>3
        <4>2. sum' = gas + sum
          BY <3>2
        <4> HIDE DEF failed, sum
        <4>3. usedGas' = failed + sum'
          BY <3>3, <4>1, <4>2
        <4> QED BY <4>3 DEF failed, sum
      <3> QED BY <1>6, <3>4 DEF UsedGasExplained
    <2> QED BY <2>3, <2>4
  <1> QED BY <1>8, <1>9, <1>10 DEF Books

-------------------------------------------------------------------------------
(***************************************************************************)
(* Every action keeps the books.                                           *)
(***************************************************************************)
LEMMA InitBooks == Init => Books
  BY DEF Init, Books, ValueConserved, GasAccounted, UsedGasExplained, Open

LEMMA PrepareBooks ==
  ASSUME IInv, Prepare
  PROVE  Books'
  <1>1. /\ state' = committed /\ committed' = committed /\ gasPool' = TotalGas /\ usedGas' = 0
        /\ receipts' = <<>> /\ spoilt' = {} /\ committed \in States
    BY DEF Prepare, IInv, TypeOK
  <1>2. /\ SpoiltCalls' = {} /\ SpoiltTransfers' = {} /\ ContractReceipts' = {}
        /\ (DOMAIN receipts \ Uncounted)' = {}
    <2>1. DOMAIN receipts' = {}
      BY <1>1, EmptySeq
    <2> QED BY <1>1, <2>1 DEF SpoiltCalls, SpoiltTransfers, ContractReceipts, Uncounted
  <1>3. /\ SumFunctionOnSet(GasPaid, SpoiltCalls)' = 0
        /\ SumFunctionOnSet(GasLimits, SpoiltCalls)' = 0
        /\ SumFunctionOnSet(GasUsed, ContractReceipts)' = 0
        /\ SumFunctionOnSet(GasUsed, DOMAIN receipts \ Uncounted)' = 0
    BY <1>2, SumEmpty
  <1>4. Cardinality(SpoiltTransfers') = 0
    BY <1>2, FS_EmptySet
  <1>5. Total(committed) \in Int
    BY <1>1, TotalInt
  <1>6. Total(erased') = 0
    BY SumZero, AccountsAssumption DEF Prepare, NothingErased, Total
  <1> QED BY <1>1, <1>3, <1>4, <1>5, <1>6, GasAssumption
          DEF Books, ValueConserved, GasAccounted, UsedGasExplained

LEMMA BaseBooks ==
  ASSUME IInv, Books, NEW tx \in Txs, BaseApply(tx)
  PROVE  Books'
  <1>1. /\ tx.kind = "base" /\ ~ Contract(tx) /\ Offered(tx) /\ Taken(tx)
        /\ usedGas' = usedGas + TxGas /\ gasPool' = gasPool /\ erased' = erased
    BY DEF BaseApply, Contract
  <1>2. /\ TypeOK /\ Open /\ state \in States /\ usedGas \in Nat /\ committed' = committed
        /\ tx \notin spoilt /\ TxGas \in Nat
    BY <1>1, GasAssumption DEF IInv, TypeOK, NotTwice, Offered, Taken, Open
  <1>3. CASE state.nonce[tx.from] = tx.nonce
    <2>1. /\ state' = NonceBumped(Moved(state, tx.from, tx.to, tx.value), tx.from)
          /\ Succeed(tx, TxGas, usedGas')
      BY <1>3 DEF BaseApply
    <2>2. Total(state') = Total(state)
      <3> DEFINE moved == Moved(state, tx.from, tx.to, tx.value)
      <3>1. moved \in States /\ Total(moved) = Total(state)
        BY <1>2, TxFacts, TotalMoved
      <3> HIDE DEF moved
      <3>2. Total(NonceBumped(moved, tx.from)) = Total(moved)
        BY <3>1, TxFacts, TotalBumped
      <3> QED BY <2>1, <3>1, <3>2 DEF moved
    <2>3. usedGas' \in Int
      BY <1>1, <1>2
    <2> QED BY <1>1, <1>2, <2>1, <2>2, <2>3, SucceedBooks
  <1>4. CASE state.nonce[tx.from] # tx.nonce
    <2>1. UNCHANGED <<state, receipts>> /\ spoilt' = spoilt \cup {tx}
      BY <1>4 DEF BaseApply, Fail
    <2>2. /\ SpoiltCalls' = SpoiltCalls /\ ContractReceipts' = ContractReceipts
          /\ GasUsed' = GasUsed /\ Uncounted' = Uncounted
          /\ SpoiltTransfers' = SpoiltTransfers \cup {tx} /\ tx \notin SpoiltTransfers
      BY <1>1, <1>2, <2>1 DEF SpoiltCalls, SpoiltTransfers, ContractReceipts, GasUsed, Uncounted
    <2>3. Cardinality(SpoiltTransfers') = Cardinality(SpoiltTransfers) + 1
          /\ Cardinality(SpoiltTransfers) \in Nat
      BY <1>2, <2>2, BookTypes, FS_AddElement
    <2>4. ValueConserved' /\ GasAccounted'
      BY <1>1, <1>2, <2>1, <2>2 DEF Books, ValueConserved, GasAccounted
    <2>5. UsedGasExplained'
      <3> DEFINE count == Cardinality(SpoiltTransfers)
                 sum   == SumFunctionOnSet(GasUsed, DOMAIN receipts \ Uncounted)
      <3>1. usedGas = TxGas * count + sum /\ sum \in Int
        BY <1>2, BookTypes DEF Books, UsedGasExplained
      <3>2. sum' = sum /\ count' = count + 1 /\ count \in Nat
        BY <2>1, <2>2, <2>3
      <3>3. TxGas * (count + 1) = TxGas * count + TxGas /\ TxGas * count \in Int
        <4>1. \A m, k \in Nat : m * (k + 1) = m * k + m /\ m * k \in Int
          OBVIOUS
        <4> HIDE DEF count
        <4> QED BY <1>2, <3>2, <4>1
      <3>4. usedGas' = TxGas * count' + sum'
        <4> HIDE DEF count, sum
        <4>1. usedGas' = (TxGas * count + sum) + TxGas
          BY <1>1, <3>1
        <4> QED BY <1>2, <3>1, <3>2, <3>3, <4>1
      <3> QED BY <3>4 DEF UsedGasExplained
    <2> QED BY <2>4, <2>5 DEF Books
  <1> QED BY <1>3, <1>4

LEMMA AccountBooks ==
  ASSUME IInv, Books, NEW tx \in Txs, AccountApply(tx)
  PROVE  Books'
  <1>1. /\ tx.kind = "account" /\ ~ Contract(tx) /\ Offered(tx) /\ Taken(tx)
        /\ usedGas' = usedGas + TxGas /\ gasPool' = gasPool /\ erased' = erased
        /\ state' = NonceBumped(state, tx.from) /\ Succeed(tx, TxGas, usedGas')
    BY DEF AccountApply, Contract
  <1>2. state \in States /\ TxGas \in Nat /\ usedGas' \in Int
    BY <1>1, GasAssumption DEF IInv, TypeOK
  <1>3. Total(state') = Total(state)
    BY <1>1, <1>2, TxFacts, TotalBumped
  <1> QED BY <1>1, <1>2, <1>3, SucceedBooks

LEMMA DomainBooks ==
  ASSUME IInv, Books, NEW tx \in Txs, DomainApply(tx)
  PROVE  Books'
  <1>1. /\ tx.kind = "domain" /\ ~ Contract(tx) /\ Offered(tx) /\ Taken(tx)
        /\ usedGas' = usedGas + TxGas /\ gasPool' = gasPool
        /\ state' = NonceBumped(Created(state, tx.to), tx.from)
        /\ erased' = [balance |-> [erased.balance EXCEPT ![tx.to] = @ + state.balance[tx.to]],
                      nonce   |-> [erased.nonce EXCEPT ![tx.to] = @ + state.nonce[tx.to]]]
        /\ Succeed(tx, TxGas, usedGas')
    BY DEF DomainApply, Contract
  <1>2. /\ state \in States /\ Covered(state) /\ erased \in States
        /\ TxGas \in Nat /\ usedGas' \in Int /\ tx.from \in Accounts /\ tx.to \in Accounts
    BY <1>1, TxFacts, GasAssumption DEF IInv, TypeOK, BalancesCovered, Covered
  <1> DEFINE had == state.balance[tx.to]
             lost == 0 - had
             created == Created(state, tx.to)
  <1>3. /\ state.balance \in [Accounts -> Int] /\ erased.balance \in [Accounts -> Int]
        /\ had \in Int /\ lost \in Int
    BY <1>2 DEF States
  <1>4. /\ created \in States
        /\ created.balance = [state.balance EXCEPT ![tx.to] = @ + lost]
    <2>1. [state.balance EXCEPT ![tx.to] = 0] = [state.balance EXCEPT ![tx.to] = @ + lost]
      BY <1>3
    <2> QED BY <1>2, <2>1, CreatedFacts
  <1>5. erased'.balance = [erased.balance EXCEPT ![tx.to] = @ + had]
    BY <1>1, <1>2 DEF States
  <1>6. Total(state') = Total(created)
    BY <1>1, <1>2, <1>4, TotalBumped
  <1> HIDE DEF created, lost
  <1>7. Total(created) = Total(state) + lost
    BY <1>2, <1>3, <1>4, SumExcept, AccountsAssumption DEF Total
  <1> HIDE DEF had
  <1>8. Total(erased') = Total(erased) + had
    BY <1>2, <1>3, <1>5, SumExcept, AccountsAssumption DEF Total
  <1>9. Total(state') + Total(erased') = Total(state) + Total(erased)
    <2>1. Total(state) \in Int /\ Total(erased) \in Int
      BY <1>2, TotalInt
    <2> QED BY <1>3, <1>6, <1>7, <1>8, <2>1 DEF lost
  <1> QED BY <1>1, <1>2, <1>9, SucceedBooks

LEMMA PermissionBooks ==
  ASSUME IInv, Books, NEW tx \in Txs, PermissionApply(tx)
  PROVE  Books'
  <1>1. /\ tx.kind = "permission" /\ ~ Contract(tx) /\ Offered(tx) /\ Taken(tx)
        /\ usedGas' = usedGas /\ gasPool' = gasPool /\ erased' = erased
    BY DEF PermissionApply, Contract
  <1>2. CASE Fail /\ UNCHANGED <<state, spoilt>>
    BY <1>1, <1>2, QuietBooks DEF Fail, Offered, Taken, Open
  <1>3. CASE state' = NonceBumped(state, tx.from) /\ Succeed(tx, TxGas, 0)
    <2>1. state \in States /\ TxGas \in Nat
      BY GasAssumption DEF IInv, TypeOK
    <2>2. Total(state') = Total(state)
      BY <1>3, <2>1, TxFacts, TotalBumped
    <2> QED BY <1>1, <1>3, <2>1, <2>2, SucceedBooks
  <1> QED BY <1>2, <1>3 DEF PermissionApply

(***************************************************************************)
(* What a contract transaction that fails after buyGas has paid, and the   *)
(* gas it has bought, are counted with it.                                 *)
(***************************************************************************)
LEMMA SpoilBooks ==
  ASSUME IInv, Books, NEW tx \in Txs, ContractSpoil(tx)
  PROVE  Books'
  <1>1. /\ BuysGas(tx) /\ gasPool' = gasPool - tx.gasLimit /\ spoilt' = spoilt \cup {tx}
        /\ UNCHANGED <<usedGas, receipts, erased>>
    BY DEF ContractSpoil, Fail
  <1>2. /\ Offered(tx) /\ Taken(tx) /\ Contract(tx) /\ state \in States /\ gasPool \in Int
    BY <1>1, BoughtFacts, GasAssumption
  <1>3. /\ TypeOK /\ Open /\ tx \notin spoilt /\ committed' = committed
    BY <1>2 DEF IInv, NotTwice, Offered, Taken, Open
  <1>4. /\ SpoiltCalls' = SpoiltCalls \cup {tx} /\ tx \notin SpoiltCalls
        /\ SpoiltTransfers' = SpoiltTransfers /\ ContractReceipts' = ContractReceipts
        /\ GasUsed' = GasUsed /\ Uncounted' = Uncounted
        /\ GasPaid' = GasPaid /\ GasLimits' = GasLimits
    BY <1>1, <1>2, <1>3 DEF SpoiltCalls, SpoiltTransfers, ContractReceipts, GasUsed, Uncounted,
                            GasPaid, GasLimits
  <1> DEFINE paid == SumFunctionOnSet(GasPaid, SpoiltCalls)
             limits == SumFunctionOnSet(GasLimits, SpoiltCalls)
             used == SumFunctionOnSet(GasUsed, ContractReceipts)
  <1>5. /\ IsFiniteSet(SpoiltCalls) /\ paid \in Int /\ limits \in Int /\ used \in Int
        /\ \A t \in SpoiltCalls \cup {tx} : GasPaid[t] \in Int /\ GasLimits[t] \in Int
        /\ GasPaid[tx] = tx.gasLimit * tx.gasPrice /\ GasLimits[tx] = tx.gasLimit
    BY <1>3, BookTypes
  <1>6. paid' = tx.gasLimit * tx.gasPrice + paid /\ limits' = tx.gasLimit + limits
    BY <1>4, <1>5, SumAdd
  <1>7. used' = used
    BY <1>4
  <1>8. tx.from \in Accounts /\ tx.gasLimit \in Nat /\ tx.gasLimit * tx.gasPrice \in Nat
    BY TxFacts
  <1>9. Bought(tx) \in States /\ Total(Bought(tx)) = Total(state) - tx.gasLimit * tx.gasPrice
    BY <1>2, <1>8, TotalPaid DEF Bought
  <1>10. Total(state') = Total(state) - tx.gasLimit * tx.gasPrice
    <2>1. CASE state' = Bought(tx)
      BY <1>9, <2>1
    <2>2. CASE state' = NonceBumped(Bought(tx), tx.from)
      BY <1>8, <1>9, <2>2, TotalBumped
    <2> QED BY <2>1, <2>2 DEF ContractSpoil
  <1>11. ValueConserved'
    <2> DEFINE price == tx.gasLimit * tx.gasPrice
    <2>1. /\ Total(state) + Total(erased) + paid = Total(committed)
          /\ Total(state) \in Int /\ Total(erased) \in Int /\ Total(erased') = Total(erased)
      BY <1>1, <1>2, <1>3, TotalInt DEF Books, ValueConserved, TypeOK
    <2>2. paid' = price + paid /\ Total(state') = Total(state) - price /\ price \in Nat
      BY <1>6, <1>8, <1>10
    <2>3. Total(state') + Total(erased') + paid' = Total(committed')
      <3> HIDE DEF paid, price
      <3> QED BY <1>3, <1>5, <2>1, <2>2
    <2> QED BY <2>3 DEF ValueConserved
  <1>12. GasAccounted'
    <2>1. gasPool + used + limits = TotalGas
      BY <1>3 DEF Books, GasAccounted
    <2>2. gasPool' + used' + limits' = TotalGas
      <3> HIDE DEF used, limits
      <3> QED BY <1>1, <1>2, <1>5, <1>6, <1>7, <1>8, <2>1
    <2> QED BY <2>2 DEF GasAccounted
  <1>13. UsedGasExplained'
    BY <1>1, <1>3, <1>4 DEF Books, UsedGasExplained
  <1> QED BY <1>11, <1>12, <1>13 DEF Books

LEMMA ContractBooks ==
  ASSUME IInv, Books, NEW tx \in Txs, ContractApply(tx)
  PROVE  Books'
  <1>1. BuysGas(tx) /\ tx.gasLimit >= tx.intrinsic
    BY DEF ContractApply
  <1>2. /\ Offered(tx) /\ Taken(tx) /\ Contract(tx) /\ state \in States
        /\ gasPool \in Int /\ usedGas \in Nat /\ tx.kind # "permission"
    BY <1>1, BoughtFacts, GasAssumption DEF IInv, TypeOK, Contract
  <1>3. /\ tx.from \in Accounts /\ tx.to \in Accounts /\ tx.value \in Nat
        /\ tx.gasLimit \in Nat /\ tx.intrinsic \in Nat /\ tx.gasLimit * tx.gasPrice \in Nat
    BY TxFacts
  <1>4. PICK returned \in 0..(tx.gasLimit - tx.intrinsic), failed \in BOOLEAN :
          \E refund \in 0..((tx.gasLimit - returned) \div 2) :
            LET left   == returned + refund
                gas    == tx.gasLimit - left
                called == NonceBumped(IF failed THEN Bought(tx)
                                      ELSE Moved(Bought(tx), tx.from, tx.to, tx.value), tx.from)
            IN  /\ state' = Settled(tx, called, left)
                /\ gasPool' = gasPool - tx.gasLimit + left
                /\ usedGas' = usedGas + gas
                /\ Succeed(tx, gas, usedGas')
                /\ UNCHANGED erased
    BY DEF ContractApply
  <1> DEFINE paid   == IF failed THEN Bought(tx)
                       ELSE Moved(Bought(tx), tx.from, tx.to, tx.value)
             called == NonceBumped(paid, tx.from)
  <1>5. PICK refund \in 0..((tx.gasLimit - returned) \div 2) :
          /\ state' = Settled(tx, called, returned + refund)
          /\ gasPool' = gasPool - tx.gasLimit + (returned + refund)
          /\ usedGas' = usedGas + (tx.gasLimit - (returned + refund))
          /\ Succeed(tx, tx.gasLimit - (returned + refund), usedGas')
          /\ UNCHANGED erased
    BY <1>4
  <1> DEFINE price == tx.gasLimit * tx.gasPrice
  <1>6. Bought(tx) \in States /\ Total(Bought(tx)) = Total(state) - price
    BY <1>2, <1>3, TotalPaid DEF Bought
  <1>7. paid \in States /\ Total(paid) = Total(state) - price
    <2>1. /\ Moved(Bought(tx), tx.from, tx.to, tx.value) \in States
          /\ Total(Moved(Bought(tx), tx.from, tx.to, tx.value)) = Total(Bought(tx))
      BY <1>3, <1>6, TotalMoved
    <2> QED BY <1>6, <2>1
  <1> HIDE DEF paid
  <1>8. called \in States /\ Total(called) = Total(state) - price
    BY <1>3, <1>7, TotalBumped
  <1> HIDE DEF called
  <1> DEFINE left == returned + refund
             gas  == tx.gasLimit - left
  <1>9. left \in 0..tx.gasLimit /\ gas \in Nat
    <2>1. \A n \in Nat : n \div 2 \in Nat /\ n \div 2 <= n
      OBVIOUS
    <2>2. returned \in Nat /\ tx.gasLimit - returned \in Nat
      BY <1>3
    <2>3. refund \in Nat /\ refund <= tx.gasLimit - returned
      BY <2>1, <2>2
    <2> QED BY <1>3, <2>2, <2>3
  <1>10. /\ state' = Settled(tx, called, left) /\ gasPool' = gasPool - tx.gasLimit + left
         /\ usedGas' = usedGas + gas /\ Succeed(tx, gas, usedGas') /\ erased' = erased
    BY <1>5
  <1>11. gasPool' = gasPool - gas
    <2> HIDE DEF left
    <2> QED BY <1>2, <1>3, <1>9, <1>10
  <1> HIDE DEF left, gas
  <1>12. Total(state') = Total(state)
    <2>1. Total(state') = Total(called) + price
      BY <1>8, <1>9, <1>10, TotalSettled
    <2>2. price \in Nat /\ Total(state) \in Int
      BY <1>2, <1>3, TotalInt
    <2> HIDE DEF price
    <2> QED BY <1>8, <2>1, <2>2
  <1>13. usedGas' \in Int
    BY <1>2, <1>9, <1>10
  <1> QED BY <1>2, <1>9, <1>10, <1>11, <1>12, <1>13, SucceedBooks

LEMMA NextBooks == IInv /\ Books /\ [Next]_vars => Books'
  <1> SUFFICES ASSUME IInv, Books, [Next]_vars PROVE Books'
    OBVIOUS
  <1>1. CASE Prepare
    BY <1>1, PrepareBooks
  <1>2. ASSUME NEW tx \in Txs,
               Refuse(tx) \/ Panic(tx) \/ CaApply(tx) \/ ContractReject(tx)
        PROVE  Books'
    BY <1>2, QuietBooks DEF Refuse, Panic, CaApply, ContractReject, Fail, Offered, Taken, Open
  <1>3. ASSUME NEW tx \in Txs, ContractBlockFull(tx) \/ PrepareEnd PROVE Books'
    BY <1>3, QuietBooks DEF ContractBlockFull, PrepareEnd, Offered, Open
  <1>4. ASSUME NEW tx \in Txs, PrepareTx(tx) PROVE Books'
    BY <1>2, <1>3, <1>4, BaseBooks, AccountBooks, DomainBooks, PermissionBooks,
       SpoilBooks, ContractBooks DEF PrepareTx
  <1>5. CASE PrepareEnd
    BY <1>5, QuietBooks DEF PrepareEnd, Open
  <1>6. CASE Commit \/ Abandon
    BY <1>6 DEF Commit, Abandon, Books, ValueConserved, GasAccounted, UsedGasExplained, Open
  <1>7. CASE UNCHANGED vars
    <2>1. CASE Open
      BY <1>7, <2>1, QuietBooks DEF vars
    <2>2. CASE ~ Open
      BY <1>7, <2>2 DEF Books, ValueConserved, GasAccounted, UsedGasExplained, Open, vars
    <2> QED BY <2>1, <2>2
  <1> QED BY <1>1, <1>4, <1>5, <1>6, <1>7 DEF Next

THEOREM BooksHold == Spec => []Books
  <1> QED BY InvariantHolds, InitBooks, NextBooks, PTL DEF Spec

(***************************************************************************)
(* A block makes and destroys no value (state_transition.go:132-245,       *)
(* baseInterpreter.go:88-104), whatever its transactions and the outcomes  *)
(* of their calls, but for what the transactions that failed after buyGas  *)
(* paid and what accounts owned that the registration of a domain          *)
(* overwrote (register.go:140-162).                                        *)
(***************************************************************************)
THEOREM ValueAlwaysConserved == Spec => []ValueConserved
  <1>1. Books => ValueConserved
    BY DEF Books
  <1> QED BY <1>1, BooksHold, PTL

(***************************************************************************)
(* The block's gas pool lacks exactly the gas in the receipts of contract  *)
(* transactions and the limits of those that failed after buyGas           *)
(* (state_transition.go:143, 241).                                         *)
(***************************************************************************)
THEOREM GasAlwaysAccounted == Spec => []GasAccounted
  <1>1. Books => GasAccounted
    BY DEF Books
  <1> QED BY <1>1, BooksHold, PTL

(***************************************************************************)
(* The gas that Prepare reports (app.go:243) is the sum of the receipts'   *)
(* but for the permission transactions', and the gas of the transfers with *)
(* a wrong nonce (baseInterpreter.go:70).                                  *)
(***************************************************************************)
THEOREM UsedGasAlwaysExplained == Spec => []UsedGasExplained
  <1>1. Books => UsedGasExplained
    BY DEF Books
  <1> QED BY <1>1, BooksHold, PTL
===============================================================================
