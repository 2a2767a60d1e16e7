CONSTANTS
  k1 = k1
  k2 = k2
  k3 = k3
  k4 = k4
  Names <- MCNames
  Addresses = {k1, k2, k3, k4}
  NoPartner = NoPartner
  NoRequest = NoRequest
  GenesisAccounts <- MCGenesisAccounts
  GenesisDomains <- MCGenesisDomains
  KeySets <- MCKeySets
  Grants <- MCGrants
  Extras <- MCExtras
  LostFoundInterval = 1
  MaxTime = 1
  MaxTxs = 3
SPECIFICATION Spec
PROPERTY WithinCaller
CHECK_DEADLOCK FALSE
