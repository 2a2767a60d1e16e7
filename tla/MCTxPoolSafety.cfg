CONSTANTS
  a1 = a1
  Accounts <- MCAccounts
  Txs <- MCThreeTxs
  Adders = {c1, c2}
  Fetchers = {f1}
  Capacity = 1
  TxsLimit = 1
  NoTx = NoTx
  Unlocked = Unlocked
  MCAdds = 3
  MCFetches = 1
  MCBlocks = 1
  MCLosses = 0
  MCRestarts = 1
  Budget <- MCBudget
SPECIFICATION Spec
SYMMETRY Symmetry
INVARIANT TypeOK
INVARIANT NoGap
INVARIANT PoolBound
CHECK_DEADLOCK FALSE
