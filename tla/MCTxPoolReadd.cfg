CONSTANTS
  a1 = a1
  Accounts <- MCAccounts
  Txs <- MCTwoTxs
  Adders = {c1}
  Fetchers = {}
  Capacity = 2
  TxsLimit = 1
  NoTx = NoTx
  Unlocked = Unlocked
  MCAdds = 2
  MCFetches = 0
  MCBlocks = 0
  MCLosses = 1
  MCRestarts = 0
  Budget <- MCBudget
SPECIFICATION Spec
PROPERTY OnlyProcessedDeleted
CHECK_DEADLOCK FALSE
