SPECIFICATION FairSpec
CONSTANTS
  u1 = u1
  u2 = u2
  DaoModule = daomod
  BlockedAddr = blocked
  OtherAccounts = {}
  Users <- MCUsers
  Labels = {}
  Bases <- MCBases
  EmptyTLD = ""
  ReservedTLDs = {"com"}
  WrongLengthTLDs = {"x", ""}
  BadCharTLDs = {}
  Prec = 10
  Word = 1000
  Contents <- MixedContents
  Options = {"YES"}
  GenesisParams <- ShortDecay
  GenesisTldList <- MCGenesisTlds
  InitialBalance <- MCBalance
  SendAmounts = {}
  MaxHeight = 6
  MaxProposals = 2
  MaxSupply = 9
  MaxRestarts = 1
PROPERTY EveryProposalDecided GovernanceFreeze
