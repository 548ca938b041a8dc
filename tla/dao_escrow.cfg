SPECIFICATION QuerySpec
CONSTANTS
  u1 = u1
  u2 = u2
  DaoModule = daomod
  BlockedAddr = blocked
  OtherAccounts = {}
  Users <- MCUsers
  Labels = {}
  Bases <- MCBases
  EmptyTLD = ""
  ReservedTLDs = {"com"}
  WrongLengthTLDs = {"x", ""}
  BadCharTLDs = {}
  Prec = 10
  Word = 1000
  Addresses <- MCAddresses
  DefaultLimit = 2
  Limits = {1}
  Jobs = {"list"}
  Contents <- GrantContents
  Options = {"YES"}
  GenesisParams <- MCParams
  GenesisTldList <- MCGenesisTlds
  InitialBalance <- SmallBalance
  SendAmounts = {1}
  MaxHeight = 4
  MaxProposals = 2
  MaxSupply = 3
  MaxRestarts = 0
INVARIANT EscrowExact SupplyAccounted LotsMatchGrants ListingComplete PageAtTheLimits
