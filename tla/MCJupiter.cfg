CONSTANTS
  k1 = k1
  k2 = k2
  p1 = p1
  usdc = usdc
  wsol = wsol
  jlp = jlp
  Funds = 2
  OthersHave = 1
  NoMint = NoMint
  NoKey = NoKey
  Keys <- MCKeys
  Programs <- MCPrograms
  Executable <- MCPrograms
  NameLens <- MCNameLens
  Mints <- MCMints
  Venues <- MCVenues
  VenueMint <- MCVenueMint
  WalletFunds <- MCWalletFunds
  OtherFunds <- MCOtherFunds
  Jupiter = p1
  JlpPool = jlp
  Fees = {0, 1}
  MaxAum = 3
  MAX_NAME_LEN = 32
  MAX_ADAPTERS = 1
  MaxVersion = 1
  MaxU64 = 3
SYMMETRY Symmetry
SPECIFICATION JSpec
INVARIANTS
  JExitNeverBlocked
  LpCovered
PROPERTIES
  JFullExitPaysValue
  JKeepsCustody
  Spec
