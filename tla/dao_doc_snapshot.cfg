SPECIFICATION Spec
CONSTANTS
  u1 = u1
  u2 = u2
  DaoModule = daomod
  BlockedAddr = blocked
  OtherAccounts = {}
  Users <- MCUsers
  Labels = {}
  Bases <- MCBases
  EmptyTLD = ""
  ReservedTLDs = {"com"}
  WrongLengthTLDs = {"x", ""}
  BadCharTLDs = {}
  Prec = 10
  Word = 1000
  Contents <- OneTld
  Options = {"YES"}
  GenesisParams <- MCParams
  GenesisTldList <- MCGenesisTlds
  InitialBalance <- MCBalance
  SendAmounts = {2}
  MaxHeight = 4
  MaxProposals = 2
  MaxSupply = 0
  MaxRestarts = 0
INVARIANT VotedWithinSnapshot
