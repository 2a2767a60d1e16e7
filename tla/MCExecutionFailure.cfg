CONSTANTS
  a1 = a1
  c1 = c1
  zero = zero
  Accounts <- MCAccounts
  Contracts <- MCContracts
  Coinbase = zero
  Txs <- MCCalls
  InitialBalance <- MCBalance
  TotalGas = 8
  TxGas = 2
  Word = 8
  MaxTxs = 4
  MaxBlocks = 1
SPECIFICATION Spec
PROPERTY FailureLeavesState
CHECK_DEADLOCK FALSE
