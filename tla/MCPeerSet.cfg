CONSTANTS
  i1 = i1
  p1 = p1
  p2 = p2
  Ids = {i1}
  Peers = {p1, p2}
  IdOf <- MCReturning
  Txs = {t1, t2}
  Batches = {{t1}, {t2}}
  Callers = {c1}
  NoPeer = NoPeer
  MaxKnownTxs = 1
  MaxQueuedTxs = 1
SPECIFICATION FairSpec
INVARIANT TypeOK
INVARIANT PanicsOnlyClosed
INVARIANT NoOrphans
INVARIANT KnownHasReason
PROPERTY BroadcastersStop
CHECK_DEADLOCK FALSE
