CONSTANTS
  k1 = k1
  k2 = k2
  p1 = p1
  usdc = usdc
  market = market
  Funds = 2
  OthersHave = 1
  NoMint = NoMint
  NoKey = NoKey
  Keys <- MCKeys
  Programs <- MCPrograms
  Executable <- MCPrograms
  NameLens <- MCNameLens
  Mints <- MCMints
  Venues <- MCVenues
  VenueMint <- MCVenueMint
  WalletFunds <- MCWalletFunds
  OtherFunds <- MCOtherFunds
  Drift = p1
  SpotMarket = market
  MAX_NAME_LEN = 32
  MAX_ADAPTERS = 1
  MaxVersion = 1
  MaxU64 = 4
  MaxShares = 4
  Periods = {0, 1}
  MaxTime = 1
SYMMETRY Symmetry
SPECIFICATION XSpec
INVARIANTS
  StakeIsBooked
  StakesCovered
  CooldownDecides
  NoRequestLingers
PROPERTIES
  LockedByCooldown
  NobodyDiluted
  DFullExitPaysValue
  DSpec
