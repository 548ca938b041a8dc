SPECIFICATION ChainSpec
CONSTANTS
  u1 = u1
  u2 = u2
  l1 = l1
  DaoModule = daomod
  DnsModule = dnsmod
  BlockedAddr = blocked
  OtherAccounts = {dnsmod}
  NoSigner = nobody
  Users <- MCUsers
  Labels <- MCLabels
  Bases <- MCBases
  EmptyTLD = ""
  ReservedTLDs = {"com"}
  WrongLengthTLDs = {"x", ""}
  BadCharTLDs = {}
  Prec = 10
  Word = 1000
  Contents <- MCContents
  Options = {"YES"}
  GenesisParams <- MCParams
  GenesisTldList <- MCGenesisTlds
  GenesisStates <- MCGenesisStates
  InitialBalance <- MCBalance
  SendAmounts = {}
  MaxHeight = 5
  MaxProposals = 2
  MaxSupply = 0
  MaxRestarts = 1
  Names <- MCNames
  NsRecordSets = {"none", "ns1"}
  NoNs = "none"
  BadNs = {}
  Fees = {2}
  MaxDomains = 1
  BlockGaps = {1}
  MaxTime = 5
  DayTicks = 2
  YearDays = 3
  LeapDays = {}
VIEW ChainView
INVARIANT DomainsFollowVotes ChainSupplyAccounted TldProvenance DecidedOnTime EscrowExact
PROPERTY RestartKeepsRegistry ImplementsEscrow ChainKeepsNames
