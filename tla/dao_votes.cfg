SPECIFICATION QuerySpec
CONSTANTS
  u1 = u1
  u2 = u2
  DaoModule = daomod
  BlockedAddr = blocked
  OtherAccounts = {}
  Users <- MCUsers
  Labels = {}
  Bases <- MCBases
  EmptyTLD = ""
  ReservedTLDs = {"com"}
  WrongLengthTLDs = {"x", ""}
  BadCharTLDs = {}
  Prec = 10
  Word = 1000
  Addresses <- MCAddresses
  DefaultLimit = 2
  Limits = {0, 1}
  Jobs = {"audit"}
  Contents <- OneTld
  Options = {"YES", "NO", "ABSTAIN", "UNSPECIFIED", "UNKNOWN"}
  GenesisParams <- NoDeposit
  GenesisTldList <- MCGenesisTlds
  InitialBalance <- SmallBalance
  SendAmounts = {1}
  MaxHeight = 4
  MaxProposals = 1
  MaxSupply = 0
  MaxRestarts = 0
INVARIANT TypeOK TallyFinal AuditAgrees
PROPERTY VotesImmutable
