----------------------------- MODULE PeerSetProofs -----------------------------
(***************************************************************************)
(* For every set of peers, callers and transactions and every limit:       *)
(* PeerSet is type correct, a stopCh is closed twice only after Close, no  *)
(* running broadcaster is out of reach, and a peer is taken to know only   *)
(* what it could know.                                                     *)
(***************************************************************************)
EXTENDS PeerSet, SequenceTheorems, TLAPS

(***************************************************************************)
(* The inductive invariant.  An id holds an object of its own that was     *)
(* started; a stopped object was started; while the set is open, what it   *)
(* holds is not stopped.  What waits in a queue, or is about to be marked, *)
(* entered the queue.                                                      *)
(***************************************************************************)
OwnStarted ==
  \A i \in Ids : peers[i] # NoPeer => IdOf[peers[i]] = i /\ loop[peers[i]] # "none"

StoppedStarted == \A p \in stopped : loop[p] # "none"

OpenRunning == ~ closed => \A i \in Ids : peers[i] \notin stopped

WaitingQueued ==
  \A p \in Peers : \A i \in 1..Len(queue[p]) : queue[p][i] \subseteq reason[p]

MarkQueued ==
  \A c \in Callers : pc[c] = "mark" => txSet[c][target[c]] \subseteq reason[target[c]]

SetInv == OwnStarted /\ StoppedStarted /\ OpenRunning /\ PanicsOnlyClosed /\ NoOrphans

TxInv == WaitingQueued /\ MarkQueued /\ KnownHasReason

IInv == TypeOK /\ SetInv /\ TxInv

LEMMA InitIInv == Init => IInv
  <1> SUFFICES ASSUME Init PROVE IInv
    OBVIOUS
  <1>1. TypeOK
    <2>1. <<>> \in Seq(SUBSET Txs) /\ Len(<<>>) = 0
      BY EmptySeq
    <2>2. /\ queue \in [Peers -> Seq(SUBSET Txs)]
          /\ \A p \in Peers : Len(queue[p]) <= MaxQueuedTxs
      BY <2>1, LimitsAssumption DEF Init
    <2>3. Nothing \in [Peers -> SUBSET Txs]
      BY DEF Nothing
    <2>4. /\ batch \in [Peers -> SUBSET Txs] /\ known \in [Peers -> SUBSET Txs]
          /\ reason \in [Peers -> SUBSET Txs]
          /\ txSet \in [Callers -> [Peers -> SUBSET Txs]]
      BY <2>3 DEF Init
    <2>5. /\ peers \in [Ids -> Peers \cup {NoPeer}]
          /\ closed \in BOOLEAN /\ panicked \in BOOLEAN /\ stopped \subseteq Peers
          /\ loop \in [Peers -> {"none", "select", "send", "done"}]
      BY DEF Init
    <2>6. /\ pc \in [Callers -> {"idle", "pick", "send", "mark"}]
          /\ todo \in [Callers -> SUBSET Txs]
          /\ source \in [Callers -> Ids \cup {NoPeer}]
          /\ target \in [Callers -> Peers \cup {NoPeer}]
          /\ \A c \in Callers : pc[c] = "mark" => target[c] # NoPeer
      BY DEF Init
    <2> QED BY <2>2, <2>4, <2>5, <2>6 DEF TypeOK
  <1>2. SetInv
    BY PeersAssumption DEF Init, SetInv, OwnStarted, StoppedStarted, OpenRunning,
                           PanicsOnlyClosed, NoOrphans
  <1>3. TxInv
    BY EmptySeq DEF Init, TxInv, WaitingQueued, MarkQueued, KnownHasReason, Nothing
  <1> QED BY <1>1, <1>2, <1>3 DEF IInv

-------------------------------------------------------------------------------
(***************************************************************************)
(* The set: what touches no transaction keeps TxInv.                       *)
(***************************************************************************)
LEMMA TxInvKept ==
  ASSUME TxInv, UNCHANGED <<queue, known, pc, txSet, target, reason>>
  PROVE  TxInv'
  BY DEF TxInv, WaitingQueued, MarkQueued, KnownHasReason

LEMMA RegisterStep ==
  ASSUME IInv, NEW p \in Peers, Register(p)
  PROVE  IInv'
  <1>1. TypeOK'
    BY PeersAssumption DEF IInv, TypeOK, Register, callerVars
  <1>2. peers \in [Ids -> Peers \cup {NoPeer}] /\ IdOf[p] \in Ids /\ loop \in [Peers -> {"none", "select", "send", "done"}]
        /\ stopped \subseteq Peers
    BY PeersAssumption DEF IInv, TypeOK
  <1>3. /\ OwnStarted' /\ StoppedStarted' /\ OpenRunning'
    BY <1>2, PeersAssumption DEF IInv, SetInv, Register, OwnStarted, StoppedStarted, OpenRunning
  <1>4. PanicsOnlyClosed' /\ NoOrphans'
    BY <1>2, PeersAssumption DEF IInv, SetInv, Register, PanicsOnlyClosed, NoOrphans, Registered
  <1>5. TxInv'
    BY TxInvKept DEF IInv, Register, callerVars
  <1> QED BY <1>1, <1>3, <1>4, <1>5 DEF IInv, SetInv

LEMMA DeregisterStep ==
  ASSUME IInv, NEW i \in Ids, Deregister(i), ~ panicked
  PROVE  IInv'
  <1>1. /\ peers \in [Ids -> Peers \cup {NoPeer}] /\ peers[i] \in Peers
        /\ stopped \subseteq Peers
        /\ stopped' = stopped \cup {peers[i]} /\ peers' = [peers EXCEPT ![i] = NoPeer]
        /\ panicked' = (peers[i] \in stopped)
        /\ closed' = closed /\ loop' = loop
    BY DEF IInv, TypeOK, Deregister, CloseAll, loopVars
  <1>2. TypeOK'
    BY <1>1 DEF IInv, TypeOK, Deregister, loopVars, callerVars
  <1>3. OwnStarted' /\ StoppedStarted'
    BY <1>1, PeersAssumption DEF IInv, SetInv, OwnStarted, StoppedStarted
  <1>4. OpenRunning'
    BY <1>1, PeersAssumption DEF IInv, SetInv, OwnStarted, OpenRunning
  <1>5. PanicsOnlyClosed'
    BY <1>1 DEF IInv, SetInv, OpenRunning, PanicsOnlyClosed
  <1>6. NoOrphans'
    BY <1>1, PeersAssumption DEF IInv, SetInv, NoOrphans, Registered
  <1>7. TxInv'
    BY TxInvKept DEF IInv, Deregister, loopVars, callerVars
  <1> QED BY <1>2, <1>3, <1>4, <1>5, <1>6, <1>7 DEF IInv, SetInv

LEMMA CloseStep ==
  ASSUME IInv, Close
  PROVE  IInv'
  <1>1. /\ stopped' = stopped \cup {p \in Peers : Registered(p)}
        /\ panicked' = ({p \in Peers : Registered(p)} \cap stopped # {})
        /\ panicked' \in BOOLEAN /\ closed' \in BOOLEAN
        /\ UNCHANGED <<peers, loop>>
    BY DEF Close, CloseAll, loopVars
  <1>2. closed'
    <2>1. \A p \in Peers : Registered(p) => p \notin stopped \/ closed
      BY PeersAssumption DEF IInv, SetInv, OpenRunning, Registered
    <2> QED BY <1>1, <2>1 DEF Close
  <1>3. TypeOK'
    BY <1>1 DEF IInv, TypeOK, Close, loopVars, callerVars
  <1>4. OwnStarted' /\ OpenRunning' /\ PanicsOnlyClosed'
    BY <1>1, <1>2 DEF IInv, SetInv, OwnStarted, OpenRunning, PanicsOnlyClosed
  <1>5. StoppedStarted'
    BY <1>1, PeersAssumption DEF IInv, SetInv, TypeOK, OwnStarted, StoppedStarted, Registered
  <1>6. NoOrphans'
    BY <1>1 DEF IInv, SetInv, NoOrphans, Registered
  <1>7. TxInv'
    BY TxInvKept DEF IInv, Close, loopVars, callerVars
  <1> QED BY <1>3, <1>4, <1>5, <1>6, <1>7 DEF IInv, SetInv

-------------------------------------------------------------------------------
(***************************************************************************)
(* The goroutines: what leaves the set alone, and starts no loop, keeps    *)
(* SetInv.                                                                 *)
(***************************************************************************)
LEMMA SetInvKept ==
  ASSUME SetInv, UNCHANGED setVars,
         \A p \in Peers : loop[p] # "none" => loop'[p] # "none",
         \A p \in Peers : loop'[p] \in {"select", "send"} => loop[p] \in {"select", "send"},
         TypeOK
  PROVE  SetInv'
  <1>1. OwnStarted' /\ StoppedStarted'
    BY PeersAssumption DEF TypeOK, SetInv, OwnStarted, StoppedStarted, setVars
  <1>2. OpenRunning' /\ PanicsOnlyClosed' /\ NoOrphans'
    BY DEF SetInv, OpenRunning, PanicsOnlyClosed, NoOrphans, Registered, setVars
  <1> QED BY <1>1, <1>2 DEF SetInv

LEMMA TakeStep ==
  ASSUME IInv, NEW p \in Peers, Take(p)
  PROVE  IInv'
  <1>1. /\ queue \in [Peers -> Seq(SUBSET Txs)] /\ queue[p] \in Seq(SUBSET Txs) /\ queue[p] # <<>>
        /\ queue' = [queue EXCEPT ![p] = Tail(@)]
        /\ known' = [known EXCEPT ![p] = @ \cup Head(queue[p])]
        /\ known \in [Peers -> SUBSET Txs]
        /\ UNCHANGED <<pc, txSet, target, reason>>
    BY DEF IInv, TypeOK, Take, callerVars
  <1>2. /\ Head(queue[p]) = queue[p][1] /\ queue[p][1] \in SUBSET Txs
        /\ Tail(queue[p]) \in Seq(SUBSET Txs) /\ Len(Tail(queue[p])) = Len(queue[p]) - 1
        /\ Len(queue[p]) \in Nat /\ 1 \in 1..Len(queue[p])
        /\ \A i \in 1..Len(Tail(queue[p])) :
             i + 1 \in 1..Len(queue[p]) /\ Tail(queue[p])[i] = queue[p][i + 1]
    BY <1>1, HeadTailProperties, LenProperties, EmptySeq, ElementOfSeq
  <1>3. TypeOK'
    BY <1>1, <1>2, LimitsAssumption DEF IInv, TypeOK, Take, setVars, callerVars
  <1>4. SetInv'
    BY SetInvKept DEF IInv, Take, TypeOK
  <1>5. WaitingQueued'
    BY <1>1, <1>2 DEF IInv, TxInv, WaitingQueued
  <1>6. MarkQueued'
    BY <1>1 DEF IInv, TxInv, MarkQueued
  <1>7. KnownHasReason'
    BY <1>1, <1>2 DEF IInv, TxInv, WaitingQueued, KnownHasReason
  <1> QED BY <1>3, <1>4, <1>5, <1>6, <1>7 DEF IInv, TxInv

LEMMA SentStep ==
  ASSUME IInv, NEW p \in Peers, Sent(p)
  PROVE  IInv'
  <1>1. TypeOK'
    BY DEF IInv, TypeOK, Sent, setVars, callerVars
  <1>2. SetInv'
    BY SetInvKept DEF IInv, Sent, TypeOK
  <1>3. TxInv'
    BY TxInvKept DEF IInv, Sent, callerVars
  <1> QED BY <1>1, <1>2, <1>3 DEF IInv

LEMMA StopStep ==
  ASSUME IInv, NEW p \in Peers, Stop(p)
  PROVE  IInv'
  <1>1. TypeOK'
    BY DEF IInv, TypeOK, Stop, setVars, callerVars
  <1>2. SetInv'
    BY SetInvKept DEF IInv, Stop, TypeOK
  <1>3. TxInv'
    BY TxInvKept DEF IInv, Stop, callerVars
  <1> QED BY <1>1, <1>2, <1>3 DEF IInv

-------------------------------------------------------------------------------
(***************************************************************************)
(* BroadcastTxs and MarkTransaction, which leave the set and its           *)
(* goroutines alone.                                                       *)
(***************************************************************************)
LEMMA BroadcastStep ==
  ASSUME IInv, NEW c \in Callers, NEW from \in Ids \cup {NoPeer}, NEW txs \in SUBSET Txs,
         NEW force \in BOOLEAN, BroadcastTxs(c, from, txs, force)
  PROVE  IInv'
  <1>1. TypeOK'
    <2>1. source' \in [Callers -> Ids \cup {NoPeer}]
      BY DEF IInv, TypeOK, BroadcastTxs
    <2>2. txSet' \in [Callers -> [Peers -> SUBSET Txs]]
      BY DEF IInv, TypeOK, BroadcastTxs, Nothing
    <2>3. /\ pc' \in [Callers -> {"idle", "pick", "send", "mark"}]
          /\ todo' \in [Callers -> SUBSET Txs]
          /\ \A d \in Callers : pc'[d] = "mark" => target'[d] # NoPeer
      BY DEF IInv, TypeOK, BroadcastTxs
    <2> QED BY <2>1, <2>2, <2>3 DEF IInv, TypeOK, BroadcastTxs, setVars, loopVars
  <1>2. SetInv'
    BY SetInvKept DEF IInv, BroadcastTxs, loopVars
  <1>3. /\ UNCHANGED <<queue, known, target, reason>>
        /\ \A d \in Callers : pc'[d] = "mark" => pc[d] = "mark" /\ txSet'[d] = txSet[d]
    BY DEF IInv, TypeOK, BroadcastTxs, loopVars
  <1>4. TxInv'
    BY <1>3 DEF IInv, TxInv, WaitingQueued, MarkQueued, KnownHasReason
  <1> QED BY <1>1, <1>2, <1>4 DEF IInv

LEMMA PeersWithoutTxStep ==
  ASSUME IInv, NEW c \in Callers, PeersWithoutTx(c)
  PROVE  IInv'
  <1> DEFINE mark == {p \in Peers : Registered(p) /\ FromSource(c, p)}
             list(tx) == {p \in Peers : Registered(p) /\ ~ FromSource(c, p) /\ tx \notin known[p]}
  <1>1. PICK tx \in todo[c] :
          /\ todo' = [todo EXCEPT ![c] = @ \ {tx}]
          /\ txSet' = [txSet EXCEPT ![c] =
               [p \in Peers |-> IF p \in list(tx) THEN @[p] \cup {tx} ELSE @[p]]]
          /\ known' = [p \in Peers |-> IF p \in mark THEN known[p] \cup {tx} ELSE known[p]]
          /\ reason' = [p \in Peers |-> IF p \in mark THEN reason[p] \cup {tx} ELSE reason[p]]
    BY DEF PeersWithoutTx
  <1>2. tx \in Txs /\ pc[c] = "pick"
        /\ UNCHANGED <<setVars, loopVars, queue, pc, source, target>>
    BY <1>1 DEF IInv, TypeOK, PeersWithoutTx
  <1> HIDE DEF mark, list
  <1>3. TypeOK'
    <2>1. /\ known' \in [Peers -> SUBSET Txs] /\ reason' \in [Peers -> SUBSET Txs]
          /\ todo' \in [Callers -> SUBSET Txs]
      BY <1>1, <1>2 DEF IInv, TypeOK
    <2>2. txSet' \in [Callers -> [Peers -> SUBSET Txs]]
      <3>1. [p \in Peers |-> IF p \in list(tx) THEN txSet[c][p] \cup {tx} ELSE txSet[c][p]]
              \in [Peers -> SUBSET Txs]
        BY <1>2 DEF IInv, TypeOK
      <3> QED BY <1>1, <3>1 DEF IInv, TypeOK
    <2> QED BY <1>2, <2>1, <2>2 DEF IInv, TypeOK, setVars, loopVars
  <1>4. SetInv'
    BY <1>2, SetInvKept DEF IInv, loopVars
  <1>4a. \A p \in Peers : reason[p] \subseteq reason'[p]
    BY <1>1
  <1>5. WaitingQueued'
    BY <1>2, <1>4a DEF IInv, TxInv, WaitingQueued
  <1>6. MarkQueued'
    <2>1. \A d \in Callers : pc'[d] = "mark" => pc[d] = "mark" /\ txSet'[d] = txSet[d]
      BY <1>1, <1>2 DEF IInv, TypeOK
    <2>2. \A d \in Callers : pc[d] = "mark" => target[d] \in Peers
      BY DEF IInv, TypeOK
    <2> QED BY <1>2, <1>4a, <2>1, <2>2 DEF IInv, TxInv, MarkQueued
  <1>7. KnownHasReason'
    BY <1>1, <1>2 DEF IInv, TxInv, KnownHasReason
  <1> QED BY <1>3, <1>4, <1>5, <1>6, <1>7 DEF IInv, TxInv

LEMMA PickedStep ==
  ASSUME IInv, NEW c \in Callers, Picked(c)
  PROVE  IInv'
  <1>1. TypeOK'
    BY DEF IInv, TypeOK, Picked, setVars, loopVars
  <1>2. SetInv'
    BY SetInvKept DEF IInv, Picked, loopVars
  <1>3. TxInv'
    BY DEF IInv, TypeOK, TxInv, WaitingQueued, MarkQueued, KnownHasReason, Picked
  <1> QED BY <1>1, <1>2, <1>3 DEF IInv

LEMMA AsyncSendStep ==
  ASSUME IInv, NEW c \in Callers, NEW p \in Peers, AsyncSend(c, p)
  PROVE  IInv'
  <1>1. /\ UNCHANGED <<setVars, loopVars, known, todo, source>>
        /\ pc[c] = "send"
    BY DEF AsyncSend
  <1>2. SetInv'
    BY <1>1, SetInvKept DEF IInv, loopVars
  <1>3. /\ queue \in [Peers -> Seq(SUBSET Txs)] /\ queue[p] \in Seq(SUBSET Txs)
        /\ txSet[c][p] \in SUBSET Txs /\ reason \in [Peers -> SUBSET Txs]
        /\ Len(queue[p]) \in Nat
    BY LenProperties DEF IInv, TypeOK
  <1>4. CASE Len(queue[p]) < MaxQueuedTxs
    <2>1. /\ queue' = [queue EXCEPT ![p] = Append(@, txSet[c][p])]
          /\ reason' = [reason EXCEPT ![p] = @ \cup txSet[c][p]]
          /\ pc' = [pc EXCEPT ![c] = "mark"] /\ target' = [target EXCEPT ![c] = p]
          /\ txSet' = txSet
      BY <1>3, <1>4, LimitsAssumption DEF AsyncSend
    <2>2. /\ Append(queue[p], txSet[c][p]) \in Seq(SUBSET Txs)
          /\ Len(Append(queue[p], txSet[c][p])) = Len(queue[p]) + 1
          /\ \A i \in 1..Len(queue[p]) : Append(queue[p], txSet[c][p])[i] = queue[p][i]
          /\ Append(queue[p], txSet[c][p])[Len(queue[p]) + 1] = txSet[c][p]
      BY <1>3, AppendProperties
    <2>3. TypeOK'
      BY <1>1, <1>3, <1>4, <2>1, <2>2, PeersAssumption, LimitsAssumption
      DEF IInv, TypeOK, setVars, loopVars
    <2>4. WaitingQueued'
      <3> SUFFICES ASSUME NEW q \in Peers, NEW i \in 1..Len(queue'[q])
                   PROVE  queue'[q][i] \subseteq reason'[q]
        BY DEF WaitingQueued
      <3>1. CASE q # p
        BY <1>3, <2>1, <3>1 DEF IInv, TxInv, WaitingQueued
      <3>2. CASE q = p
        <4>1. i \in 1..Len(queue[p]) \/ i = Len(queue[p]) + 1
          BY <1>3, <2>1, <2>2, <3>2
        <4> QED BY <1>3, <2>1, <2>2, <3>2, <4>1 DEF IInv, TxInv, WaitingQueued
      <3> QED BY <3>1, <3>2
    <2>5. MarkQueued'
      BY <1>3, <2>1 DEF IInv, TypeOK, TxInv, MarkQueued
    <2>6. KnownHasReason'
      BY <1>1, <1>3, <2>1 DEF IInv, TxInv, KnownHasReason
    <2> QED BY <1>2, <2>3, <2>4, <2>5, <2>6 DEF IInv, TxInv
  <1>5. CASE ~ (Len(queue[p]) < MaxQueuedTxs)
    <2>1. /\ txSet' = [txSet EXCEPT ![c][p] = {}]
          /\ UNCHANGED <<queue, reason, pc, target>>
      BY <1>5 DEF AsyncSend
    <2>2. TypeOK'
      BY <1>1, <2>1 DEF IInv, TypeOK, setVars, loopVars
    <2>3. TxInv'
      BY <1>1, <2>1 DEF IInv, TypeOK, TxInv, WaitingQueued, MarkQueued, KnownHasReason
    <2> QED BY <1>2, <2>2, <2>3 DEF IInv
  <1> QED BY <1>4, <1>5

LEMMA MarkStep ==
  ASSUME IInv, NEW c \in Callers, Mark(c)
  PROVE  IInv'
  <1>1. /\ pc[c] = "mark" /\ target[c] \in Peers
        /\ txSet[c][target[c]] \subseteq reason[target[c]] /\ txSet[c][target[c]] \subseteq Txs
    BY DEF IInv, TypeOK, TxInv, MarkQueued, Mark
  <1>2. TypeOK'
    BY <1>1 DEF IInv, TypeOK, Mark, setVars, loopVars
  <1>3. SetInv'
    BY SetInvKept DEF IInv, Mark, loopVars
  <1>4. WaitingQueued'
    BY DEF IInv, TxInv, WaitingQueued, Mark
  <1>5. MarkQueued'
    <2>1. \A d \in Callers : pc'[d] = "mark" =>
            pc[d] = "mark" /\ txSet'[d] = txSet[d] /\ target'[d] = target[d]
      BY DEF IInv, TypeOK, Mark
    <2> QED BY <2>1 DEF IInv, TxInv, MarkQueued, Mark
  <1>6. KnownHasReason'
    BY <1>1 DEF IInv, TypeOK, TxInv, KnownHasReason, Mark
  <1> QED BY <1>2, <1>3, <1>4, <1>5, <1>6 DEF IInv, TxInv

LEMMA DoneStep ==
  ASSUME IInv, NEW c \in Callers, Done(c)
  PROVE  IInv'
  <1>1. TypeOK'
    BY DEF IInv, TypeOK, Done, setVars, loopVars
  <1>2. SetInv'
    BY SetInvKept DEF IInv, Done, loopVars
  <1>3. TxInv'
    BY DEF IInv, TypeOK, TxInv, WaitingQueued, MarkQueued, KnownHasReason, Done
  <1> QED BY <1>1, <1>2, <1>3 DEF IInv

LEMMA MarkTransactionStep ==
  ASSUME IInv, NEW p \in Peers, NEW tx \in Txs, MarkTransaction(p, tx)
  PROVE  IInv'
  <1>1. PICK kept \in SUBSET known[p] : known' = [known EXCEPT ![p] = kept \cup {tx}]
    BY DEF MarkTransaction
  <1>2. /\ reason' = [reason EXCEPT ![p] = @ \cup {tx}]
        /\ UNCHANGED <<setVars, loopVars, queue, callerVars>>
    BY DEF MarkTransaction
  <1>3. TypeOK'
    BY <1>1, <1>2, LimitsAssumption DEF IInv, TypeOK, setVars, loopVars, callerVars
  <1>4. SetInv'
    BY <1>2, SetInvKept DEF IInv, loopVars
  <1>5. WaitingQueued' /\ MarkQueued'
    BY <1>2 DEF IInv, TxInv, WaitingQueued, MarkQueued, callerVars
  <1>6. KnownHasReason'
    BY <1>1, <1>2 DEF IInv, TypeOK, TxInv, KnownHasReason
  <1> QED BY <1>3, <1>4, <1>5, <1>6 DEF IInv, TxInv

LEMMA NextIInv == IInv /\ [Next]_vars => IInv'
  <1> SUFFICES ASSUME IInv, [Next]_vars PROVE IInv'
    OBVIOUS
  <1>1. CASE UNCHANGED vars
    <2>1. TypeOK'
      BY <1>1 DEF IInv, TypeOK, vars, setVars, loopVars, callerVars
    <2>2. SetInv'
      BY <1>1, SetInvKept DEF IInv, vars, loopVars
    <2>3. TxInv'
      BY <1>1, TxInvKept DEF IInv, vars, callerVars
    <2> QED BY <2>1, <2>2, <2>3 DEF IInv
  <1>2. ASSUME NEW p \in Peers, Register(p) \/ Broadcaster(p) PROVE IInv'
    BY <1>2, RegisterStep, TakeStep, SentStep, StopStep DEF Broadcaster
  <1>3. ASSUME NEW c \in Callers, Caller(c) PROVE IInv'
    <2>1. Batches \subseteq SUBSET Txs
      BY PeersAssumption
    <2> QED BY <1>3, <2>1, BroadcastStep, PeersWithoutTxStep, PickedStep, AsyncSendStep,
               MarkStep, DoneStep
            DEF Caller
  <1> QED BY <1>1, <1>2, <1>3, DeregisterStep, CloseStep, MarkTransactionStep DEF Next

-------------------------------------------------------------------------------
THEOREM InvariantHolds == Spec => []IInv
  <1> QED BY InitIInv, NextIInv, PTL DEF Spec

(***************************************************************************)
(* Every variable of the set, its goroutines and the callers keeps its     *)
(* type; no queue has more than its capacity (tx_manager.go:91).           *)
(***************************************************************************)
THEOREM TypeCorrect == Spec => []TypeOK
  <1>1. IInv => TypeOK
    BY DEF IInv
  <1> QED BY <1>1, InvariantHolds, PTL

(***************************************************************************)
(* A stopCh is closed twice only after Close of the whole set              *)
(* (tx_manager.go:125, 149-179), whatever peers come, go and come back.    *)
(***************************************************************************)
THEOREM PanicsOnlyAfterClose == Spec => []PanicsOnlyClosed
  <1>1. IInv => PanicsOnlyClosed
    BY DEF IInv, SetInv
  <1> QED BY <1>1, InvariantHolds, PTL

(***************************************************************************)
(* A goroutine that runs with an open stopCh always belongs to the object  *)
(* registered under its id (tx_manager.go:149-179, 225-233).               *)
(***************************************************************************)
THEOREM NeverOrphans == Spec => []NoOrphans
  <1>1. IInv => NoOrphans
    BY DEF IInv, SetInv
  <1> QED BY <1>1, InvariantHolds, PTL

(***************************************************************************)
(* A peer is taken to know only what entered its queue or what it sent     *)
(* (tx_manager.go:82-93), although marking and queueing take no lock.      *)
(***************************************************************************)
THEOREM KnownAlwaysHasReason == Spec => []KnownHasReason
  <1>1. IInv => KnownHasReason
    BY DEF IInv, TxInv
  <1> QED BY <1>1, InvariantHolds, PTL
===============================================================================
