SPECIFICATION Spec
CONSTANTS
  u1 = u1
  u2 = u2
  l1 = l1
  DnsModule = dnsmod
  OtherAccounts = {daomod}
  NoSigner = nobody
  Users <- MCUsers
  Labels <- MCLabels
  Bases <- MCBases
  EmptyTLD = ""
  ReservedTLDs <- MCReserved
  WrongLengthTLDs <- MCWrongLength
  BadCharTLDs = {}
  Names <- MCNames
  TldRequests <- MCTldRequests
  NsRecordSets <- MCNs
  NoNs = "none"
  BadNs = {"bad"}
  Fees = {1, 2}
  GenesisStates <- FeeGenesisStates
  InitialBalance <- MCBalance
  InitialSupply = 2
  MaxDomains = 3
  BlockGaps = {1}
  MaxTime = 2
  DayTicks = 2
  YearDays = 3
  LeapDays = {0}
INVARIANT TypeOK NameIndexConsistent DomainsUnderPermittedTLDs EveryFeeIsBurned
PROPERTY ExpiryNeverRecedesByADay IdsNeverReused Authority ImplementsNameRegistry
