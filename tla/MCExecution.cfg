CONSTANTS
  a1 = a1
  c1 = c1
  zero = zero
  Accounts <- MCAccounts
  Contracts <- MCContracts
  Coinbase = zero
  Txs <- MCAllTxs
  InitialBalance <- MCBalance
  TotalGas = 5
  TxGas = 2
  Word = 8
  MaxTxs = 4
  MaxBlocks = 1
SPECIFICATION Spec
INVARIANT TypeOK
INVARIANT ValueConserved
INVARIANT BalancesCovered
INVARIANT GasAccounted
INVARIANT UsedGasBound
INVARIANT NoncesCounted
INVARIANT UsedGasExplained
PROPERTY ReceiptGasKept
CHECK_DEADLOCK FALSE
