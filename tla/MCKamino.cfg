CONSTANTS
  k1 = k1
  k2 = k2
  p1 = p1
  usdc = usdc
  main = main
  dud = dud
  Funds = 2
  OthersHave = 1
  NoMint = NoMint
  NoKey = NoKey
  Keys <- MCKeys
  Programs <- MCPrograms
  Executable <- MCPrograms
  NameLens <- MCNameLens
  Mints <- MCMints
  Venues <- MCVenues
  VenueMint <- MCVenueMint
  WalletFunds <- MCWalletFunds
  OtherFunds <- MCOtherFunds
  Kamino = p1
  Reserves <- MCReserves
  MAX_NAME_LEN = 32
  MAX_ADAPTERS = 1
  MaxVersion = 1
  MaxU64 = 5
  SF = 4
  RateDiv = 3
  MaxSlot = 2
  BorrowLimit = 2
SPECIFICATION PersistentOwners
INVARIANTS
  SharesBacked
  ExitNeverBlocked
  ValueTight
  ValuesCovered
PROPERTIES
  EveryoneGetsOut
  RoundingIsAllItCosts
  RateNeverFalls
  KKeepsCustody
  Spec
