CONSTANTS
  k1 = k1
  k2 = k2
  p1 = p1
  usdc = usdc
  wsol = wsol
  main = main
  dud = dud
  Funds = 2
  NoMint = NoMint
  NoKey = NoKey
  Keys <- MCKeys
  Programs <- MCPrograms
  Executable <- MCPrograms
  NameLens <- MCNameLens
  Mints <- MCMints
  Venues <- MCVenues
  VenueMint <- MCVenueMint
  WalletFunds <- MCWalletFunds
  OtherFunds <- MCOtherFunds
  Marginfi = p1
  Banks <- MCBanks
  MAX_NAME_LEN = 32
  MAX_ADAPTERS = 1
  MaxVersion = 1
  MaxU64 = 4
  ONE = 4
  CUT = 2
  Growth = 1
  Losses = {3}
  MaxShares = 12
  MaxSlot = 2
SYMMETRY Symmetry
SPECIFICATION MSpec
INVARIANTS
  NothingStranded
  ValueNeverOverstated
PROPERTIES
  FullExitPaysAll
  Spec
