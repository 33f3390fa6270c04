CONSTANTS
  k1 = k1
  k2 = k2
  p1 = p1
  p2 = p2
  p3 = p3
  p4 = p4
  usdc = usdc
  wsol = wsol
  main = main
  side = side
  NoKey = NoKey
  NoMint = NoMint
  Keys <- MCKeys
  Programs <- MCPrograms
  Executable <- MCExecutable
  NameLens <- MCNameLens
  Mints <- MCMints
  Venues <- MCVenues
  VenueMint <- MCVenueMint
  WalletFunds <- MCWalletFunds
  OtherFunds <- MCOtherFunds
  MAX_NAME_LEN = 32
  MAX_ADAPTERS = 2
  MaxVersion = 2
  MaxU64 = 2
SYMMETRY Symmetry
SPECIFICATION Spec
INVARIANTS
  TypeOK
  PositionsAreListed
  CountIsExact
PROPERTIES
  PoolNeverDrains
  PositionsIsolated
  FrozenStaysFrozen
  HistoryPreserved
