CONSTANTS
  a1 = a1
  Accounts <- MCAccounts
  Txs <- MCTwoTxs
  Adders = {c1}
  Fetchers = {}
  Capacity = 2
  TxsLimit = 1
  NoTx = NoTx
  Unlocked = Unlocked
  MCAdds = 1
  MCFetches = 0
  MCBlocks = 2
  MCLosses = 1
  MCRestarts = 1
  Budget <- MCBudget
SPECIFICATION FairSpec
INVARIANT LedgerExact
PROPERTY RemovalsRun
CHECK_DEADLOCK FALSE
