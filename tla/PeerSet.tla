-------------------------------- MODULE PeerSet --------------------------------
(***************************************************************************)
(* The broadcast of transactions to peers (txpool/tx_manager.go): the set  *)
(* of peers, the goroutine that Register starts for each of them, and the  *)
(* callers of BroadcastTxs.                                                *)
(*                                                                         *)
(* The set's lock is held for one step at a time, so what it protects is   *)
(* one action each.  The set of known transactions of a peer and its queue *)
(* are used outside of the lock.                                           *)
(***************************************************************************)
EXTENDS Naturals, Sequences, FiniteSets

CONSTANTS
  Ids,          \* peer ids
  Peers,        \* peer objects: an id that comes back gets a new one
  IdOf,         \* currentPeerId of each
  Txs,
  Batches,      \* the sets of transactions that BroadcastTxs may be called with
  Callers,      \* goroutines that call BroadcastTxs
  NoPeer,       \* no object, or no id
  MaxKnownTxs, MaxQueuedTxs

ASSUME PeersAssumption ==
  /\ IdOf \in [Peers -> Ids]
  /\ NoPeer \notin Peers /\ NoPeer \notin Ids
  /\ IsFiniteSet(Peers) /\ IsFiniteSet(Txs)
  /\ Batches \subseteq SUBSET Txs

ASSUME LimitsAssumption ==
  MaxKnownTxs \in Nat \ {0} /\ MaxQueuedTxs \in Nat \ {0}

VARIABLES
  peers,      \* the registered object of each id
  closed,     \* Close was called
  panicked,   \* stopCh was closed twice: the process is gone
  stopped,    \* the objects whose stopCh is closed
  loop,       \* where each peer's broadcast goroutine is
  batch,      \* what it is sending
  queue,      \* queuedTxs
  known,      \* knownTxs
  pc, todo, txSet, source, target,   \* of each caller of BroadcastTxs
  reason     \* what entered the queue, or came from the peer (not in the code)

setVars    == <<peers, closed, panicked, stopped>>
loopVars   == <<loop, batch>>
callerVars == <<pc, todo, txSet, source, target>>
vars == <<setVars, loopVars, queue, known, callerVars, reason>>

TypeOK ==
  /\ peers \in [Ids -> Peers \cup {NoPeer}]
  /\ closed \in BOOLEAN /\ panicked \in BOOLEAN
  /\ stopped \subseteq Peers
  /\ loop \in [Peers -> {"none", "select", "send", "done"}]
  /\ batch \in [Peers -> SUBSET Txs]
  /\ queue \in [Peers -> Seq(SUBSET Txs)]
  /\ \A p \in Peers : Len(queue[p]) <= MaxQueuedTxs
  /\ known \in [Peers -> SUBSET Txs]
  /\ pc \in [Callers -> {"idle", "pick", "send", "mark"}]
  /\ todo \in [Callers -> SUBSET Txs]
  /\ txSet \in [Callers -> [Peers -> SUBSET Txs]]
  /\ source \in [Callers -> Ids \cup {NoPeer}]
  /\ target \in [Callers -> Peers \cup {NoPeer}]
  /\ \A c \in Callers : pc[c] = "mark" => target[c] # NoPeer
  /\ reason \in [Peers -> SUBSET Txs]

Nothing == [p \in Peers |-> {}]

Init ==
  /\ peers = [i \in Ids |-> NoPeer]
  /\ closed = FALSE /\ panicked = FALSE
  /\ stopped = {}
  /\ loop = [p \in Peers |-> "none"]
  /\ batch = Nothing
  /\ queue = [p \in Peers |-> <<>>]
  /\ known = Nothing
  /\ pc = [c \in Callers |-> "idle"]
  /\ todo = [c \in Callers |-> {}]
  /\ txSet = [c \in Callers |-> Nothing]
  /\ source = [c \in Callers |-> NoPeer]
  /\ target = [c \in Callers |-> NoPeer]
  /\ reason = Nothing

Registered(p) == peers[IdOf[p]] = p

-------------------------------------------------------------------------------
(***************************************************************************)
(* The set                                                                 *)
(***************************************************************************)
\* mutant: an id that is there is registered again
RegisterReplaces(p) ==
  /\ ~ closed
  /\ loop[p] = "none"
  /\ peers' = [peers EXCEPT ![IdOf[p]] = p]
  /\ loop' = [loop EXCEPT ![p] = "select"]
  /\ UNCHANGED <<closed, panicked, stopped, batch, queue, known, callerVars, reason>>

Register(p) ==
  /\ ~ closed
  /\ loop[p] = "none"
  /\ peers[IdOf[p]] = NoPeer
  /\ peers' = [peers EXCEPT ![IdOf[p]] = p]
  /\ loop' = [loop EXCEPT ![p] = "select"]
  /\ UNCHANGED <<closed, panicked, stopped, batch, queue, known, callerVars, reason>>

\* closes the stopCh of each: closing a closed channel panics
CloseAll(ps) ==
  /\ stopped' = stopped \cup ps
  /\ panicked' = (ps \cap stopped # {})

\* mutant: the peer stays in the map
DeregisterKeeps(i) ==
  /\ peers[i] # NoPeer
  /\ CloseAll({peers[i]})
  /\ UNCHANGED <<peers, closed, loopVars, queue, known, callerVars, reason>>

Deregister(i) ==
  /\ peers[i] # NoPeer
  /\ peers' = [peers EXCEPT ![i] = NoPeer]
  /\ CloseAll({peers[i]})
  /\ UNCHANGED <<closed, loopVars, queue, known, callerVars, reason>>

\* a panic in the loop leaves closed as it is
Close ==
  /\ CloseAll({p \in Peers : Registered(p)})
  /\ closed' = (closed \/ ~ panicked')
  /\ UNCHANGED <<peers, loopVars, queue, known, callerVars, reason>>

-------------------------------------------------------------------------------
(***************************************************************************)
(* A peer's broadcast goroutine.  SendTransactions marks what it is about  *)
(* to send; the network may fail it.  select takes any branch that is      *)
(* ready.                                                                  *)
(***************************************************************************)
Take(p) ==
  /\ loop[p] = "select"
  /\ queue[p] # <<>>
  /\ batch' = [batch EXCEPT ![p] = Head(queue[p])]
  /\ queue' = [queue EXCEPT ![p] = Tail(@)]
  /\ known' = [known EXCEPT ![p] = @ \cup Head(queue[p])]
  /\ loop' = [loop EXCEPT ![p] = "send"]
  /\ UNCHANGED <<setVars, callerVars, reason>>

\* p2pService.Send returns, with or without an error
Sent(p) ==
  /\ loop[p] = "send"
  /\ loop' = [loop EXCEPT ![p] = "select"]
  /\ batch' = [batch EXCEPT ![p] = {}]
  /\ UNCHANGED <<setVars, queue, known, callerVars, reason>>

\* mutant: a break ends the select and not the loop
StopBreaks(p) ==
  /\ loop[p] = "select"
  /\ p \in stopped
  /\ UNCHANGED vars

Stop(p) ==
  /\ loop[p] = "select"
  /\ p \in stopped
  /\ loop' = [loop EXCEPT ![p] = "done"]
  /\ UNCHANGED <<setVars, batch, queue, known, callerVars, reason>>

Broadcaster(p) == Take(p) \/ Sent(p) \/ Stop(p)

-------------------------------------------------------------------------------
(***************************************************************************)
(* BroadcastTxs: PeersWithoutTx for each transaction in turn, then one     *)
(* AsyncSendTransactions for each peer that got some.  A source that is    *)
(* nil, or that isForce overrides, is NoPeer.                              *)
(***************************************************************************)
BroadcastTxs(c, from, txs, force) ==
  /\ pc[c] = "idle"
  /\ pc' = [pc EXCEPT ![c] = "pick"]
  /\ todo' = [todo EXCEPT ![c] = txs]
  /\ txSet' = [txSet EXCEPT ![c] = Nothing]
  /\ source' = [source EXCEPT ![c] = IF force THEN NoPeer ELSE from]
  /\ UNCHANGED <<setVars, loopVars, queue, known, target, reason>>

FromSource(c, p) == IdOf[p] = source[c]

PeersWithoutTx(c) ==
  /\ pc[c] = "pick"
  /\ \E tx \in todo[c] :
       LET mark == {p \in Peers : Registered(p) /\ FromSource(c, p)}
           list == {p \in Peers : Registered(p) /\ ~ FromSource(c, p) /\ tx \notin known[p]}
       IN  /\ todo' = [todo EXCEPT ![c] = @ \ {tx}]
           /\ txSet' = [txSet EXCEPT ![c] =
                [p \in Peers |-> IF p \in list THEN @[p] \cup {tx} ELSE @[p]]]
           /\ known' = [p \in Peers |-> IF p \in mark THEN known[p] \cup {tx} ELSE known[p]]
           /\ reason' = [p \in Peers |-> IF p \in mark THEN reason[p] \cup {tx} ELSE reason[p]]
  /\ UNCHANGED <<setVars, loopVars, queue, pc, source, target>>

Picked(c) ==
  /\ pc[c] = "pick"
  /\ todo[c] = {}
  /\ pc' = [pc EXCEPT ![c] = "send"]
  /\ UNCHANGED <<setVars, loopVars, queue, known, todo, txSet, source, target,
                 reason>>

\* mutant: transactions are marked although the queue had no room
AsyncSendMarksAlways(c, p) ==
  /\ pc[c] = "send"
  /\ txSet[c][p] # {}
  /\ pc' = [pc EXCEPT ![c] = "mark"]
  /\ target' = [target EXCEPT ![c] = p]
  /\ IF Len(queue[p]) < MaxQueuedTxs
     THEN /\ queue' = [queue EXCEPT ![p] = Append(@, txSet[c][p])]
          /\ reason' = [reason EXCEPT ![p] = @ \cup txSet[c][p]]
     ELSE UNCHANGED <<queue, reason>>
  /\ UNCHANGED <<setVars, loopVars, known, todo, txSet, source>>

\* mutant: the channel has no limit
AsyncSendUnlimited(c, p) ==
  /\ pc[c] = "send"
  /\ txSet[c][p] # {}
  /\ pc' = [pc EXCEPT ![c] = "mark"]
  /\ target' = [target EXCEPT ![c] = p]
  /\ queue' = [queue EXCEPT ![p] = Append(@, txSet[c][p])]
  /\ reason' = [reason EXCEPT ![p] = @ \cup txSet[c][p]]
  /\ UNCHANGED <<setVars, loopVars, known, todo, txSet, source>>

(***************************************************************************)
(* AsyncSendTransactions: a full queue drops the transactions.             *)
(***************************************************************************)
AsyncSend(c, p) ==
  /\ pc[c] = "send"
  /\ txSet[c][p] # {}
  /\ \/ /\ Len(queue[p]) < MaxQueuedTxs
        /\ queue' = [queue EXCEPT ![p] = Append(@, txSet[c][p])]
        /\ reason' = [reason EXCEPT ![p] = @ \cup txSet[c][p]]
        /\ pc' = [pc EXCEPT ![c] = "mark"]
        /\ target' = [target EXCEPT ![c] = p]
        /\ UNCHANGED txSet
     \/ /\ Len(queue[p]) = MaxQueuedTxs
        /\ txSet' = [txSet EXCEPT ![c][p] = {}]
        /\ UNCHANGED <<queue, reason, pc, target>>
  /\ UNCHANGED <<setVars, loopVars, known, todo, source>>

Mark(c) ==
  /\ pc[c] = "mark"
  /\ known' = [known EXCEPT ![target[c]] = @ \cup txSet[c][target[c]]]
  /\ txSet' = [txSet EXCEPT ![c][target[c]] = {}]
  /\ pc' = [pc EXCEPT ![c] = "send"]
  /\ target' = [target EXCEPT ![c] = NoPeer]
  /\ UNCHANGED <<setVars, loopVars, queue, todo, source, reason>>

Done(c) ==
  /\ pc[c] = "send"
  /\ txSet[c] = Nothing
  /\ pc' = [pc EXCEPT ![c] = "idle"]
  /\ source' = [source EXCEPT ![c] = NoPeer]
  /\ UNCHANGED <<setVars, loopVars, queue, known, todo, txSet, target, reason>>

(***************************************************************************)
(* MarkTransaction, for a transaction that the peer sent: makes room first.*)
(* The caller may hold an object that is not registered any more.          *)
(***************************************************************************)
MarkTransaction(p, tx) ==
  /\ \E kept \in SUBSET known[p] :
       /\ IF Cardinality(known[p]) < MaxKnownTxs THEN kept = known[p]
          ELSE Cardinality(kept) = MaxKnownTxs - 1
       /\ known' = [known EXCEPT ![p] = kept \cup {tx}]
  /\ reason' = [reason EXCEPT ![p] = @ \cup {tx}]
  /\ UNCHANGED <<setVars, loopVars, queue, callerVars>>

Caller(c) ==
  \/ \E from \in Ids \cup {NoPeer}, txs \in Batches, force \in BOOLEAN :
       BroadcastTxs(c, from, txs, force)
  \/ PeersWithoutTx(c) \/ Picked(c)
  \/ \E p \in Peers : AsyncSend(c, p)
  \/ Mark(c) \/ Done(c)

Next ==
  /\ ~ panicked
  /\ \/ \E p \in Peers : Register(p) \/ Broadcaster(p)
     \/ \E i \in Ids : Deregister(i)
     \/ Close
     \/ \E c \in Callers : Caller(c)
     \/ \E p \in Peers, tx \in Txs : MarkTransaction(p, tx)

Spec == Init /\ [][Next]_vars

(***************************************************************************)
(* The goroutine of a peer is scheduled as long as the process lives, and  *)
(* select chooses among the branches that are ready at random: it does not *)
(* pass over the same one for ever.                                        *)
(***************************************************************************)
Fairness ==
  \A p \in Peers : /\ WF_vars(~ panicked /\ Broadcaster(p))
                   /\ SF_vars(~ panicked /\ Stop(p))

FairSpec == Spec /\ Fairness

-------------------------------------------------------------------------------
(***************************************************************************)
(* Properties                                                              *)
(***************************************************************************)
(***************************************************************************)
(* The close of a closed channel needs a Close of the whole set before: as *)
(* long as the set is open, peers that come, go and come back have their   *)
(* stopCh closed once (tx_manager.go:125, 149-179).                        *)
(***************************************************************************)
PanicsOnlyClosed == panicked => closed

(***************************************************************************)
(* Nobody loses hold of a broadcaster: a goroutine whose stopCh is open    *)
(* belongs to the object that is registered under its id, so Deregister or *)
(* Close can still stop it (tx_manager.go:149-179, 225-233).               *)
(***************************************************************************)
NoOrphans ==
  \A p \in Peers : loop[p] \in {"select", "send"} /\ p \notin stopped => Registered(p)

(***************************************************************************)
(* A peer is taken to know only what entered its queue or what it sent     *)
(* itself.  So a transaction that a full queue dropped (tx_manager.go:91)  *)
(* can still be broadcast to it later.                                     *)
(***************************************************************************)
KnownHasReason == \A p \in Peers : known[p] \subseteq reason[p]

(***************************************************************************)
(* A goroutine whose stopCh is closed ends (tx_manager.go:97-113),         *)
(* although its queue may never be empty: callers that picked the peer     *)
(* before go on filling it, and after Close, which leaves the peers in the *)
(* map, every BroadcastTxs does.                                           *)
(***************************************************************************)
BroadcastersStop ==
  \A p \in Peers : p \in stopped ~> loop[p] = "done" \/ panicked
===============================================================================
