SPECIFICATION Spec
CONSTANTS
  u1 = u1
  u2 = u2
  l1 = l1
  DnsModule = dnsmod
  OtherAccounts = {daomod}
  NoSigner = nobody
  Users <- MCUsers
  Labels <- MCLabels
  Bases <- MCBases
  EmptyTLD = ""
  ReservedTLDs <- MCReserved
  WrongLengthTLDs <- MCWrongLength
  BadCharTLDs = {}
  Names <- OneName
  TldRequests = {}
  NsRecordSets <- MCNs
  NoNs = "none"
  BadNs = {"bad"}
  Fees = {0, 1}
  GenesisStates <- CleanGenesisStates
  InitialBalance <- MCBalance
  InitialSupply = 2
  MaxDomains = 3
  BlockGaps = {3}
  MaxTime = 12
  DayTicks = 2
  YearDays = 3
  LeapDays = {1}
INVARIANT ExpiredNamesAvailable
