CONSTANTS
  k1 = k1
  p1 = p1
  usdc = usdc
  wsol = wsol
  orca = orca
  Funds = 4
  OthersHave = 2
  NoMint = NoMint
  NoKey = NoKey
  Keys <- MCKeys
  Programs <- MCPrograms
  Executable <- MCPrograms
  NameLens <- MCNameLens
  Mints <- MCMints
  Venues <- MCVenues
  VenueMint <- MCVenueMint
  WalletFunds <- MCWalletFunds
  OtherFunds <- MCOtherFunds
  Maple = p1
  Whirlpool = orca
  ONE = 2
  MIN_SQRT_PRICE = 1
  MAX_SQRT_PRICE = 4
  Syrup = 3
  MAX_NAME_LEN = 32
  MAX_ADAPTERS = 1
  MaxVersion = 1
  MaxU64 = 6
SPECIFICATION SSpec
PROPERTIES
  PayoutWithinValue
  SKeepsCustody
  Spec
