CONSTANTS
  k1 = k1
  k2 = k2
  k3 = k3
  k4 = k4
  Names <- MCNames
  Addresses = {k1, k2, k3, k4}
  NoPartner = NoPartner
  NoRequest = NoRequest
  GenesisAccounts <- MCGenesisAccounts
  GenesisDomains <- MCGenesisDomains
  KeySets <- MCKeySets
  Grants <- MCGrants
  Extras <- MCExtras
  LostFoundInterval = 1
  MaxTime = 2
  MaxTxs = 3
SPECIFICATION Spec
SYMMETRY Symmetry
INVARIANT TypeOK
INVARIANT AdminsHavePermissions
INVARIANT DomainsHaveAdmin
INVARIANT RightsHaveSource
INVARIANT AddressesDistinct
PROPERTY RegisteredKept
CHECK_DEADLOCK FALSE
PROPERTY TakeoversAnnounced
