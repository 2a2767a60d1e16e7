CONSTANTS
  Txs <- MCTxs
  Bumps <- MCBumps
  Limits <- MCLimits
  Word = 1048576
  NoCache = NoCache
SPECIFICATION Spec
INVARIANT TypeOK
PROPERTY ImplementsTxMap
PROPERTY StrictKeepsGapless
