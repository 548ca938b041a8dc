--------------------------- MODULE DnsChainProofs ---------------------------
(***************************************************************************)
(* Proofs about the chain.  To the DAO a step of the chain is one of its   *)
(* own steps or a fee that somebody pays and the registry burns, so what   *)
(* is proved of its steps is used again here; what is proved of the        *)
(* registry's steps comes with the instance Registry of its proofs.        *)
(***************************************************************************)
EXTENDS DnsChain, DaoMoneyProofs

Registry == INSTANCE DnsRegistryPromises
       WITH TldRequests <- {c.tld : c \in {d \in Contents : IsAddTld(d)}},
            OtherAccounts <- OtherAccounts \cup {DaoModule, BlockedAddr}

-----------------------------------------------------------------------------
(* The TLDs as both modules store them: no upper case, no enclosing dots,  *)
(* not empty.  This is what makes a restart, which normalizes them again,  *)
(* keep them.                                                              *)
TldsNormal ==
  \A t \in PermittedTLDs : Normalize(t) = t /\ ~IsEmptyString(t)

LEMMA TldsReimported ==
  ASSUME NEW P, \A t \in P : Normalize(t) = t /\ ~IsEmptyString(t)
  PROVE  GenesisTLDs(P) = P
BY DEF GenesisTLDs

LEMMA GenesisTldsNormal ==
  ASSUME NEW P, P \subseteq TldString
  PROVE  \A t \in GenesisTLDs(P) : Normalize(t) = t /\ ~IsEmptyString(t)
<1>1. \A t \in P : Normalize(Normalize(t)) = Normalize(t)
  BY DEF Normalize, ToLower, TrimDots, TldString
<1> QED BY <1>1 DEF GenesisTLDs

LEMMA AddedTldNormal ==
  ASSUME NEW P, NEW t \in TldString, CanAddPermittedTLD(t, P)
  PROVE  Normalize(AddedTLD(t)) = AddedTLD(t) /\ ~IsEmptyString(AddedTLD(t))
<1> DEFINE n == AddedTLD(t)
<1>1. n \in TldString /\ ~n.upper
  BY DEF AddedTLD, ToLower, TrimSpace, TldString
<1>2. ~n.dots /\ ~IsEmptyString(n)
  BY DEF CanAddPermittedTLD
<1> HIDE DEF n
<1>3. Normalize(n) = n
  BY <1>1, <1>2 DEF Normalize, ToLower, TrimDots, TldString
<1> QED BY <1>2, <1>3 DEF n

LEMMA NextTldsNormal ==
  ASSUME TypeInv, TldsNormal, [Next]_vars
  PROVE  TldsNormal'
<1>1. CASE PermittedTLDs' = PermittedTLDs
  BY <1>1 DEF TldsNormal
<1>2. ASSUME NEW id, ProcessProposal(id) PROVE TldsNormal'
  <2>1. CASE AddsTld(id)
    <3> DEFINE t == Proposals[id].Content.tld
    <3>1. /\ CanAddPermittedTLD(t, PermittedTLDs)
          /\ PermittedTLDs' = PermittedTLDs \cup {AddedTLD(t)}
          /\ IsAddTld(Proposals[id].Content)
      BY <2>1 DEF AddsTld
    <3>2. t \in TldString
      BY <1>2, <3>1, ProcessCases, ContentFacts DEF ProposalType
    <3> HIDE DEF t
    <3>3. Normalize(AddedTLD(t)) = AddedTLD(t) /\ ~IsEmptyString(AddedTLD(t))
      BY <3>1, <3>2, AddedTldNormal
    <3> QED BY <3>1, <3>3 DEF TldsNormal
  <2> QED BY <1>1, <1>2, <2>1, ProcessCases
          DEF Rejects, RefusesTld, RefusesGrant, PaysGrant
<1>3. CASE Deliver
  BY <1>1, <1>3 DEF Deliver, SubmitProposal, Vote, BankSend, Inflation
<1>4. CASE Block
  BY <1>1, <1>2, <1>4 DEF Block, EndBlockStart, Commit
<1>5. CASE GenesisRestart \/ BoundReached \/ UNCHANGED vars
  BY <1>1, <1>5 DEF GenesisRestart, BoundReached, vars
<1> QED BY <1>3, <1>4, <1>5 DEF Next

-----------------------------------------------------------------------------
(***************************************************************************)
(* A step of the chain, as the DAO sees it.                                *)
(***************************************************************************)
BaseInv ==
  TypeInv /\ TldsNormal /\ DomainCreationFee \in Nat /\ DomainSeq \in Nat

(* CreateDomain: the fee leaves the creator and the supply.                *)
FeeStep(who) ==
  /\ who \in Users /\ phase = "deliver"
  /\ CanPay(bank, who, DomainCreationFee)
  /\ bank' = BurnCoins(SendCoins(bank, who, DnsModule, DomainCreationFee),
                       DnsModule, DomainCreationFee)
  /\ DomainSeq' = DomainSeq + 1
  /\ feesBurned' = feesBurned + DomainCreationFee
  /\ UNCHANGED <<Proposals, ProposalSeq, Votes, VoterPowerLots, PermittedTLDs,
                 height, phase, toProcess, loose, inflated, restarts,
                 DomainCreationFee>>

LEMMA MessageStep ==
  ASSUME BaseInv, NEW who \in Users, RegistryMessage(who)
  PROVE  \/ FeeStep(who)
         \/ UNCHANGED <<vars, DomainSeq, DomainCreationFee, feesBurned>>
<1>1. /\ phase = "deliver" /\ R!Message(who)
      /\ UNCHANGED <<Proposals, ProposalSeq, Votes, VoterPowerLots,
                     height, phase, toProcess, loose, inflated, restarts>>
  BY DEF RegistryMessage, daoVars, coinVars, blockVars
<1>2. ASSUME NEW owner, NEW name, NEW ns, R!CreateDomain(who, owner, name, ns)
      PROVE  FeeStep(who)
  BY <1>1, <1>2 DEF R!CreateDomain, R!ChargeFee, R!CanPay, R!BurnCoins,
        R!SendCoins, CanPay, BurnCoins, SendCoins, FeeStep, BaseInv
<1>3. ASSUME ~ \E owner \in Users, name \in Names, ns \in NsRecordSets :
                 R!CreateDomain(who, owner, name, ns)
      PROVE  UNCHANGED <<PermittedTLDs, bank, DomainSeq, DomainCreationFee,
                         feesBurned>>
  BY <1>1, <1>3 DEF R!Message, R!RejectedCreate, R!Discard, R!registry,
        R!UpdateDomain, R!DeleteDomain, R!HeartbeatDomain, R!TransferDomain
<1> QED BY <1>1, <1>2, <1>3 DEF vars

LEMMA RestartStep ==
  ASSUME BaseInv, Restart
  PROVE  GenesisRestart /\ UNCHANGED <<DomainSeq, DomainCreationFee, feesBurned>>
<1>1. /\ DaoRestart /\ PermittedTLDs' = R!GenesisTLDs(PermittedTLDs)
      /\ UNCHANGED <<DomainSeq, DomainCreationFee, feesBurned>>
  BY DEF Restart, R!GenesisRestart, R!ExportGenesis, history
<1>2. R!GenesisTLDs(PermittedTLDs) = GenesisTLDs(PermittedTLDs)
  BY DEF R!GenesisTLDs, R!Normalize, R!ToLower, R!TrimDots, R!IsEmptyString,
         GenesisTLDs, Normalize, ToLower, TrimDots, IsEmptyString
<1>3. PermittedTLDs' = PermittedTLDs
  BY <1>1, <1>2, TldsReimported DEF BaseInv, TldsNormal
<1> QED BY <1>1, <1>3 DEF GenesisRestart

(* Every step of the chain is a step of the DAO that leaves the fees       *)
(* alone, or a fee.                                                        *)
LEMMA ChainStep ==
  ASSUME BaseInv, [ChainNext]_chainVars
  PROVE  \/ \E who \in Users : FeeStep(who)
         \/ /\ [Next]_vars
            /\ UNCHANGED <<DomainSeq, feesBurned>>
            /\ DomainCreationFee' = DomainCreationFee \/ DomainCreationFee' \in Fees
<1>1. ASSUME NEW who \in Users, RegistryMessage(who)
      PROVE  \/ FeeStep(who)
             \/ UNCHANGED <<vars, DomainSeq, DomainCreationFee, feesBurned>>
  BY <1>1, MessageStep
<1>2. ASSUME NEW fee \in Fees, UpdateParams(fee)
      PROVE  /\ UNCHANGED <<vars, DomainSeq, feesBurned>>
             /\ DomainCreationFee' \in Fees
  BY <1>2 DEF UpdateParams, R!UpdateParams, R!registry, daoVars, coinVars,
              blockVars, vars, history
<1>3. CASE DaoStep
  BY <1>3 DEF DaoStep, Next, Block, registryVars, history
<1>4. ASSUME NEW gap \in BlockGaps, NextBlock(gap)
      PROVE  /\ Commit
             /\ UNCHANGED <<DomainSeq, DomainCreationFee, feesBurned>>
  BY <1>4 DEF NextBlock, R!NextBlock, R!registry, history
<1>5. CASE Restart
  BY <1>5, RestartStep DEF Next
<1>6. CASE Idle
  BY <1>6 DEF Idle, Next, registryVars, history
<1>7. CASE UNCHANGED chainVars
  BY <1>7 DEF chainVars, registryVars, history
<1>8. ASSUME ChainNext
      PROVE  \/ \E who \in Users : RegistryMessage(who)
             \/ \E fee \in Fees : UpdateParams(fee)
             \/ DaoStep \/ (\E gap \in BlockGaps : NextBlock(gap))
             \/ Restart \/ Idle
  BY <1>8 DEF ChainNext
<1>9. CASE \E who \in Users : RegistryMessage(who)
  BY <1>1, <1>9
<1>10. CASE \E fee \in Fees : UpdateParams(fee)
  BY <1>2, <1>10
<1>11. CASE \E gap \in BlockGaps : NextBlock(gap)
  BY <1>4, <1>11 DEF Next, Block
<1> QED BY <1>3, <1>5, <1>6, <1>7, <1>8, <1>9, <1>10, <1>11

(* What a fee does to the bank.                                            *)
LEMMA FeeFacts ==
  ASSUME BaseInv, NEW who \in Users, FeeStep(who)
  PROVE  /\ Balanced(bank')
         /\ bank'.supply = bank.supply - DomainCreationFee
         /\ bank'.bal[who] = bank.bal[who] - DomainCreationFee
         /\ \A a \in Accounts \ {who} : bank'.bal[a] = bank.bal[a]
<1> DEFINE fee == DomainCreationFee
           b == SendCoins(bank, who, DnsModule, fee)
           c == BurnCoins(b, DnsModule, fee)
<1>1. /\ Balanced(bank) /\ fee \in Nat /\ CanPay(bank, who, fee) /\ bank' = c
      /\ who \in Accounts /\ DnsModule \in Accounts /\ who # DnsModule
      /\ \A a \in Accounts : bank.bal[a] \in Nat
  BY ChainAssumption, DaoAssumption, AccountsFacts
     DEF ChainAssumption, DaoAssumption, FeeStep, BaseInv, TypeInv, TypeOK,
         BankType, Accounts
<1> HIDE DEF fee
<1>2. /\ Balanced(b) /\ b.supply = bank.supply
      /\ b.bal[who] = bank.bal[who] - fee
      /\ b.bal[DnsModule] = bank.bal[DnsModule] + fee
      /\ \A a \in Accounts \ {who, DnsModule} : b.bal[a] = bank.bal[a]
  BY <1>1, SendBalanced
<1> HIDE DEF b
<1>3. CanPay(b, DnsModule, fee)
  BY <1>1, <1>2 DEF CanPay
<1>4. /\ Balanced(c) /\ c.supply = b.supply - fee
      /\ c.bal[DnsModule] = b.bal[DnsModule] - fee
      /\ \A a \in Accounts \ {DnsModule} : c.bal[a] = b.bal[a]
  BY <1>1, <1>2, <1>3, BurnBalanced
<1> HIDE DEF c
<1>5. c.bal[DnsModule] = bank.bal[DnsModule]
  BY <1>1, <1>2, <1>4
<1>6. \A a \in Accounts \ {who} : c.bal[a] = bank.bal[a]
  BY <1>2, <1>4, <1>5
<1> QED BY <1>1, <1>2, <1>4, <1>6 DEF fee

LEMMA ChainInitBase == ChainInit => BaseInv
<1> SUFFICES ASSUME ChainInit PROVE BaseInv
  OBVIOUS
<1>1. TypeInv /\ PermittedTLDs = GenesisTLDs(GenesisTldList)
  BY InitTypeInv DEF ChainInit, Init
<1>2. TldsNormal
  BY <1>1, GenesisTldsNormal, DaoAssumption DEF DaoAssumption, TldsNormal
<1>3. DomainCreationFee \in Nat /\ DomainSeq \in Nat
  BY ChainAssumption DEF ChainAssumption, R!RegistryAssumption, ChainInit
<1> QED BY <1>1, <1>2, <1>3 DEF BaseInv

LEMMA ChainNextBase == BaseInv /\ [ChainNext]_chainVars => BaseInv'
<1> SUFFICES ASSUME BaseInv, [ChainNext]_chainVars PROVE BaseInv'
  OBVIOUS
<1>1. ASSUME NEW who \in Users, FeeStep(who) PROVE BaseInv'
  <2>1. Balanced(bank')
    BY <1>1, FeeFacts
  <2>2. /\ UNCHANGED <<Proposals, ProposalSeq, Votes, VoterPowerLots,
                       PermittedTLDs, height, phase, toProcess, restarts>>
        /\ UNCHANGED <<loose, inflated, DomainCreationFee>>
        /\ DomainSeq' = DomainSeq + 1
    BY <1>1 DEF FeeStep
  <2>3. TypeInv'
    BY <2>1, <2>2, BankTypeInv DEF BaseInv, TypeInv, TypeOK
  <2> QED BY <2>2, <2>3 DEF BaseInv, TldsNormal
<1>2. CASE /\ [Next]_vars /\ DomainSeq' = DomainSeq
           /\ DomainCreationFee' = DomainCreationFee \/ DomainCreationFee' \in Fees
  <2>1. TypeInv' /\ TldsNormal'
    BY <1>2, NextTypeInv, NextTldsNormal DEF BaseInv
  <2>2. Fees \subseteq Nat
    BY ChainAssumption DEF ChainAssumption, R!RegistryAssumption
  <2> QED BY <1>2, <2>1, <2>2 DEF BaseInv
<1> QED BY <1>1, <1>2, ChainStep

LEMMA ChainBase == ChainSpec => []BaseInv
BY ChainInitBase, ChainNextBase, PTL DEF ChainSpec

-----------------------------------------------------------------------------
(***************************************************************************)
(* What the DAO promises, promised by the chain.                           *)
(***************************************************************************)
LEMMA ChainEscrowInv == ChainSpec => []EscrowInv
<1>1. ChainInit => EscrowInv
  BY InitEscrow DEF ChainInit
<1>2. ASSUME BaseInv, EscrowInv, [ChainNext]_chainVars PROVE EscrowInv'
  <2>1. ASSUME NEW who \in Users, FeeStep(who) PROVE EscrowInv'
    <3>1. bank'.bal[DaoModule] = bank.bal[DaoModule]
      BY <1>2, <2>1, FeeFacts, AccountsFacts
    <3>2. Held' = Held /\ loose' = loose
      BY <2>1 DEF FeeStep, Held, ActiveOf, Active, Voting
    <3> QED BY <1>2, <3>1, <3>2 DEF EscrowInv
  <2> QED BY <1>2, <2>1, ChainStep, NextEscrow DEF BaseInv
<1> QED BY <1>1, <1>2, ChainBase, PTL DEF ChainSpec

(* Fees of CreateDomain never touch the deposits: with both modules at     *)
(* work on one bank the DAO account holds exactly the deposits in voting   *)
(* and the coins that came in otherwise.                                   *)
THEOREM ChainDepositsExact == ChainSpec => []EscrowExact
<1>1. BaseInv /\ EscrowInv => EscrowExact
  BY EscrowMeaning DEF BaseInv
<1> QED BY <1>1, ChainBase, ChainEscrowInv, PTL

(* In the chain, too, a permitted TLD comes from the genesis file or from  *)
(* one executed proposal: no message of the registry adds one, and the     *)
(* normalisation of a restart neither adds, drops nor merges any.          *)
THEOREM ChainTldsFollowVotes == ChainSpec => []TldProvenance
<1>1. ChainInit => TldProvenance
  BY InitProvenance DEF ChainInit
<1>2. ASSUME BaseInv, TldProvenance, [ChainNext]_chainVars PROVE TldProvenance'
  <2>1. ASSUME NEW who \in Users, FeeStep(who) PROVE TldProvenance'
    <3>1. UNCHANGED <<Proposals, PermittedTLDs, restarts>>
      BY <2>1 DEF FeeStep
    <3>2. ExecutedTldProposals' = ExecutedTldProposals
      BY <3>1 DEF ExecutedTldProposals
    <3> QED BY <1>2, <3>1, <3>2, SameProvenance
  <2> QED BY <1>2, <2>1, ChainStep, NextProvenance DEF BaseInv
<1> QED BY <1>1, <1>2, ChainBase, PTL DEF ChainSpec

LEMMA ChainTimeInv == ChainSpec => []TimeInv
<1>1. ChainInit => TimeInv
  BY InitTime DEF ChainInit
<1>2. ASSUME BaseInv, TimeInv, [ChainNext]_chainVars PROVE TimeInv'
  <2>1. ASSUME NEW who \in Users, FeeStep(who) PROVE TimeInv'
    BY <1>2, <2>1 DEF FeeStep, TimeInv, TimeOf, Finished, Voting
  <2> QED BY <1>2, <2>1, ChainStep, NextTime DEF BaseInv
<1> QED BY <1>1, <1>2, ChainBase, PTL DEF ChainSpec

(* Nothing that the registry does moves the end of a vote.                 *)
THEOREM ChainDecisionsOnTime == ChainSpec => []DecidedOnTime
<1>1. BaseInv /\ TimeInv => DecidedOnTime
  BY TimeMeaning DEF BaseInv
<1> QED BY <1>1, ChainBase, ChainTimeInv, PTL

(* The supply, over both modules: CreateDomain burns exactly the fee that  *)
(* is in force when it runs, whatever UpdateParams made of it before, and  *)
(* a deleted domain gives nothing back.                                    *)
THEOREM ChainSupplyExplained == ChainSpec => []ChainSupplyAccounted
<1>1. ChainInit => ChainSupplyAccounted /\ feesBurned \in Int
  <2> SUFFICES ASSUME ChainInit PROVE ChainSupplyAccounted /\ feesBurned \in Int
    OBVIOUS
  <2>1. SupplyAccounted /\ feesBurned = 0 /\ restarts = 0 /\ TypeInv
    BY InitSupply, InitTypeInv DEF ChainInit, Init
  <2>2. Issued \in Int /\ inflated \in Int /\ InitialSupply \in Int
    BY <2>1, IssuedFacts, InitialSupplyInt DEF TypeInv, TypeOK
  <2> QED BY <2>1, <2>2 DEF SupplyAccounted, ChainSupplyAccounted
<1>2. ASSUME BaseInv, EscrowInv, ChainSupplyAccounted, feesBurned \in Int,
             [ChainNext]_chainVars
      PROVE  ChainSupplyAccounted' /\ (feesBurned \in Int)'
  <2>1. /\ Issued \in Int /\ inflated \in Int /\ bank.supply \in Int
        /\ InitialSupply \in Int /\ DomainCreationFee \in Int /\ TypeInv
    BY <1>2, IssuedFacts, InitialSupplyInt DEF BaseInv, TypeInv, TypeOK, BankType
  <2>2. ASSUME NEW who \in Users, FeeStep(who)
        PROVE  ChainSupplyAccounted' /\ (feesBurned \in Int)'
    <3>1. bank'.supply = bank.supply - DomainCreationFee
      BY <1>2, <2>2, FeeFacts
    <3>2. /\ feesBurned' = feesBurned + DomainCreationFee
          /\ UNCHANGED <<inflated, restarts, Proposals>>
      BY <2>2 DEF FeeStep
    <3>3. Issued' = Issued
      BY <3>2 DEF Issued
    <3> QED BY <1>2, <2>1, <3>1, <3>2, <3>3 DEF ChainSupplyAccounted
  <2>3. CASE [Next]_vars /\ feesBurned' = feesBurned
    <3>1. ASSUME restarts' = 0
          PROVE  /\ restarts = 0
                 /\ bank'.supply - inflated' - Issued'
                      = bank.supply - inflated - Issued
                 /\ bank'.supply \in Int /\ inflated' \in Int /\ Issued' \in Int
      <4>1. restarts \in Nat
        BY <2>1 DEF TypeInv, TypeOK
      <4> QED BY <1>2, <2>1, <2>3, <3>1, <4>1, SupplyStep
    <3> QED BY <1>2, <2>1, <2>3, <3>1 DEF ChainSupplyAccounted
  <2> QED BY <1>2, <2>2, <2>3, ChainStep
<1> QED BY <1>1, <1>2, ChainBase, ChainEscrowInv, PTL DEF ChainSpec

(* A fee is a payment that is burned.                                      *)
LEMMA FeeImplements ==
  ASSUME BaseInv, NEW who \in Users, FeeStep(who)
  PROVE  AbstractEscrow!Next
<1> DEFINE n == -DomainCreationFee
<1>1. n \in Int /\ Proposals' = Proposals
  BY DEF BaseInv, FeeStep
<1>2. /\ who \in Accounts /\ bank.supply \in Int
      /\ \A a \in Accounts : bank.bal[a] \in Int
  BY AccountsFacts DEF BaseInv, TypeInv, TypeOK, BankType
<1>3. /\ bank'.supply = bank.supply + n /\ bank'.bal[who] = bank.bal[who] + n
      /\ \A x \in Accounts \ {who} : bank'.bal[x] = bank.bal[x]
  BY <1>2, FeeFacts DEF BaseInv
<1> HIDE DEF n
<1>4. \A a \in Accounts : bank'.bal[a] \in Int
  BY <1>1, <1>2, <1>3
<1>5. /\ Worth \in [Accounts -> Int] /\ DepositsHeld' = DepositsHeld
      /\ Worth' = [a \in Accounts |-> Worth'[a]]
      /\ \A a \in Accounts : Worth'[a] = Worth[a] + (bank'.bal[a] - bank.bal[a])
  BY <1>1, <1>4, WorthWithBank DEF BaseInv
<1>6. \A a \in Accounts : Worth'[a] = IF a = who THEN Worth[a] + n ELSE Worth[a]
  BY <1>1, <1>2, <1>3, <1>5
<1>7. Worth' = [Worth EXCEPT ![who] = @ + n]
  BY <1>5, <1>6
<1>8. bank'.supply - bank.supply = n
  BY <1>1, <1>2, <1>3
<1>9. AbstractEscrow!Issue(who, n)
  BY <1>3, <1>5, <1>7 DEF AbstractEscrow!Issue, AbstractEscrow!Add
<1> QED BY <1>2, <1>8, <1>9 DEF AbstractEscrow!Next

(* The whole chain implements Escrow: beside what the DAO does a fee costs *)
(* the one who signed CreateDomain and nobody else, and a restart leaves   *)
(* the deposits it forgets in the DAO's account.                           *)
THEOREM ChainDepositsRefine == ChainSpec => ImplementsEscrow
<1>1. ChainSpec => AbstractEscrow!Init
  BY InitImplements DEF ChainSpec, ChainInit
<1>2. ASSUME BaseInv, EscrowInv, [ChainNext]_chainVars
      PROVE  [AbstractEscrow!Next]_(AbstractEscrow!vars)
  <2>1. ASSUME NEW who \in Users, FeeStep(who) PROVE AbstractEscrow!Next
    BY <1>2, <2>1, FeeImplements
  <2> QED BY <1>2, <2>1, ChainStep, NextImplements DEF BaseInv
<1>3. ChainSpec => [][AbstractEscrow!Next]_(AbstractEscrow!vars)
  BY <1>2, ChainBase, ChainEscrowInv, PTL DEF ChainSpec
<1> QED BY <1>1, <1>3, PTL DEF ImplementsEscrow, AbstractEscrow!Spec

-----------------------------------------------------------------------------
(***************************************************************************)
(* The registry in the chain.                                              *)
(***************************************************************************)
LEMMA RegistryConstants ==
  /\ Registry!TldAssumption
  /\ Registry!CalendarAssumption
  /\ Registry!RegistryAssumption
<1>1. Registry!TldAssumption
  BY TldAssumption DEF TldAssumption, Registry!TldAssumption
<1>2. Registry!CalendarAssumption
  BY ChainAssumption DEF ChainAssumption, R!CalendarAssumption,
     Registry!CalendarAssumption
<1>3. R!RegistryAssumption => Registry!RegistryAssumption
  <2>1. R!IsFiniteSet(Users) => Registry!IsFiniteSet(Users)
    BY Zenon DEF R!IsFiniteSet, Registry!IsFiniteSet
  <2>2. R!DomainType = Registry!DomainType
    BY DEF R!DomainType, Registry!DomainType, R!NameString, Registry!NameString
  <2>3. R!NameString = Registry!NameString /\ R!TldString = Registry!TldString
    BY DEF R!NameString, Registry!NameString, R!TldString, Registry!TldString
  <2>4. \A g : R!GenesisValidate(g) <=> Registry!GenesisValidate(g)
    BY DEF R!GenesisValidate, Registry!GenesisValidate
  <2> QED BY <2>1, <2>2, <2>3, <2>4
          DEF R!RegistryAssumption, Registry!RegistryAssumption
<1> QED BY <1>1, <1>2, <1>3, ChainAssumption DEF ChainAssumption

LEMMA SameAccounts == Registry!Accounts = Accounts
BY ChainAssumption DEF ChainAssumption, Registry!Accounts, Accounts

LEMMA SameMessages ==
  ASSUME NEW who
  PROVE  R!Message(who) <=> Registry!Message(who)
<1>0. ASSUME NEW name, NEW ns
      PROVE  R!CreateChecks(name, ns) <=> Registry!CreateChecks(name, ns)
  BY DEF R!CreateChecks, Registry!CreateChecks, R!Normalize, Registry!Normalize,
     R!ToLower, Registry!ToLower, R!TrimDots, Registry!TrimDots,
     R!TldPart, Registry!TldPart, R!IsTLDPermitted, Registry!IsTLDPermitted,
     R!TrimSpace, Registry!TrimSpace, R!IsEmptyString, Registry!IsEmptyString,
     R!NameAvailable, Registry!NameAvailable, R!ValidNsRecords,
     Registry!ValidNsRecords
<1>1. ASSUME NEW owner, NEW name, NEW ns
      PROVE  R!CreateDomain(who, owner, name, ns)
               <=> Registry!CreateDomain(who, owner, name, ns)
  BY <1>0 DEF R!CreateDomain, Registry!CreateDomain, R!Normalize,
     Registry!Normalize, R!ToLower, Registry!ToLower, R!TrimDots,
     Registry!TrimDots, R!CanPay, Registry!CanPay, R!ChargeFee,
     Registry!ChargeFee, R!BurnCoins, Registry!BurnCoins, R!SendCoins,
     Registry!SendCoins, R!Put, Registry!Put,
     R!AddYear, Registry!AddYear, R!LeapDayWithinYear,
     Registry!LeapDayWithinYear, R!DayOf, Registry!DayOf
<1>2. ASSUME NEW id, NEW owner, NEW ns
      PROVE  R!UpdateDomain(who, id, owner, ns)
               <=> Registry!UpdateDomain(who, id, owner, ns)
  BY DEF R!UpdateDomain, Registry!UpdateDomain, R!ValidNsRecords,
     Registry!ValidNsRecords, R!Put, Registry!Put
<1>3. ASSUME NEW id
      PROVE  R!DeleteDomain(who, id) <=> Registry!DeleteDomain(who, id)
  BY DEF R!DeleteDomain, Registry!DeleteDomain, R!Del, Registry!Del
<1>4. ASSUME NEW id
      PROVE  R!HeartbeatDomain(who, id) <=> Registry!HeartbeatDomain(who, id)
  BY DEF R!HeartbeatDomain, Registry!HeartbeatDomain, R!Put, Registry!Put,
     R!AddYear, Registry!AddYear, R!LeapDayWithinYear,
     Registry!LeapDayWithinYear, R!DayOf, Registry!DayOf
<1>5. ASSUME NEW id, NEW newOwner
      PROVE  R!TransferDomain(who, id, newOwner)
               <=> Registry!TransferDomain(who, id, newOwner)
  BY DEF R!TransferDomain, Registry!TransferDomain, R!Put, Registry!Put
<1>6. ASSUME NEW name, NEW ns
      PROVE  R!RejectedCreate(who, name, ns)
               <=> Registry!RejectedCreate(who, name, ns)
  BY <1>0 DEF R!RejectedCreate, Registry!RejectedCreate, R!CanPay,
     Registry!CanPay, R!Discard, Registry!Discard, R!registry, Registry!registry
<1> QED BY <1>1, <1>2, <1>3, <1>4, <1>5, <1>6 DEF R!Message, Registry!Message

LEMMA SameRestart == R!GenesisRestart <=> Registry!GenesisRestart
BY DEF R!GenesisRestart, Registry!GenesisRestart, R!ExportGenesis,
   Registry!ExportGenesis, R!InitDomains, Registry!InitDomains, R!InitIndex,
   Registry!InitIndex, R!Indexed, Registry!Indexed, R!Normalize,
   Registry!Normalize, R!ToLower, Registry!ToLower, R!TrimDots,
   Registry!TrimDots, R!GenesisTLDs, Registry!GenesisTLDs, R!IsEmptyString,
   Registry!IsEmptyString

(* A message of the registry, and a restart, keep its invariant.           *)
LEMMA MessageIndexInv ==
  ASSUME Registry!IndexInv, NEW who \in Users, R!Message(who)
  PROVE  Registry!IndexInv'
<1>1. Registry!Next
  BY SameMessages DEF Registry!Next
<1> QED BY <1>1, Registry!NextIndexInv, RegistryConstants

LEMMA RestartIndexInv ==
  ASSUME Registry!IndexInv, R!GenesisRestart
  PROVE  Registry!IndexInv'
<1>1. Registry!GenesisRestart
  BY SameRestart
<1> QED BY <1>1, Registry!RestartIndexInv, RegistryConstants

(* Steps that leave the registry's collections alone.                      *)
LEMMA FrameIndexInv ==
  ASSUME Registry!IndexInv, TypeInv', signer' \in {signer, NoSigner},
         now' \in Nat, DomainCreationFee' \in Nat,
         UNCHANGED <<Domain, DomainName, DomainSeq, feesBurned>>
  PROVE  Registry!IndexInv'
<1>1. PermittedTLDs' \subseteq Registry!TldString
  BY DEF TypeInv, TypeOK, TldString, Registry!TldString
<1>2. bank' \in Registry!BankType(Registry!Accounts)
  BY SameAccounts DEF TypeInv, TypeOK, BankType, Registry!BankType
<1> QED BY <1>1, <1>2 DEF Registry!IndexInv, Registry!TypeOK,
        Registry!NameIndexConsistent, Registry!StoredNamesNormal,
        Registry!IdsBelowSeq

(* The collections are maps, rebuilt or rewritten entry by entry.          *)
MapsInv ==
  /\ Domain = [id \in DOMAIN Domain |-> Domain[id]]
  /\ DomainName = [n \in DOMAIN DomainName |-> DomainName[n]]

LEMMA MapOfPut == ASSUME NEW f, NEW k, NEW v
                  PROVE  R!Put(f, k, v) = [x \in DOMAIN R!Put(f, k, v) |->
                                             R!Put(f, k, v)[x]]
BY DEF R!Put

LEMMA MapOfDel == ASSUME NEW f, NEW k
                  PROVE  R!Del(f, k) = [x \in DOMAIN R!Del(f, k) |->
                                          R!Del(f, k)[x]]
BY DEF R!Del

LEMMA MapOfGenesis ==
  ASSUME NEW list
  PROVE  /\ R!InitDomains(list)
              = [x \in DOMAIN R!InitDomains(list) |-> R!InitDomains(list)[x]]
         /\ R!InitIndex(list)
              = [x \in DOMAIN R!InitIndex(list) |-> R!InitIndex(list)[x]]
BY DEF R!InitDomains, R!InitIndex

LEMMA MessageMaps ==
  ASSUME MapsInv, NEW who \in Users, R!Message(who)
  PROVE  MapsInv'
<1>1. ASSUME NEW owner, NEW name, NEW ns, R!CreateDomain(who, owner, name, ns)
      PROVE  MapsInv'
  BY <1>1, MapOfPut DEF R!CreateDomain, MapsInv
<1>2. ASSUME NEW id, NEW owner, NEW ns, R!UpdateDomain(who, id, owner, ns)
      PROVE  MapsInv'
  BY <1>2, MapOfPut DEF R!UpdateDomain, MapsInv
<1>3. ASSUME NEW id, R!DeleteDomain(who, id) PROVE MapsInv'
  BY <1>3, MapOfDel DEF R!DeleteDomain, MapsInv
<1>4. ASSUME NEW id, R!HeartbeatDomain(who, id) PROVE MapsInv'
  BY <1>4, MapOfPut DEF R!HeartbeatDomain, MapsInv
<1>5. ASSUME NEW id, NEW newOwner, R!TransferDomain(who, id, newOwner)
      PROVE  MapsInv'
  BY <1>5, MapOfPut DEF R!TransferDomain, MapsInv
<1>6. ASSUME NEW name, NEW ns, R!RejectedCreate(who, name, ns) PROVE MapsInv'
  BY <1>6 DEF R!RejectedCreate, R!registry, MapsInv
<1> QED BY <1>1, <1>2, <1>3, <1>4, <1>5, <1>6 DEF R!Message

LEMMA RestartMaps == ASSUME R!GenesisRestart PROVE MapsInv'
BY MapOfGenesis DEF R!GenesisRestart, R!ExportGenesis, MapsInv

(* The registry's part of the invariant.                                   *)
RegistryInv == Registry!IndexInv /\ MapsInv

(* The chain starts as the registry does, from a genesis file of its own.  *)
LEMMA ChainInitRegistry ==
  ASSUME R!AllGenesisClean, ChainInit
  PROVE  /\ Registry!AllGenesisClean /\ Registry!Init
         /\ RegistryInv /\ Registry!TldInv
<1>1. Registry!AllGenesisClean
  BY DEF R!AllGenesisClean, R!CleanGenesis, R!GenesisTLDs, R!Normalize,
     R!ToLower, R!TrimDots, R!TrimSpace, R!IsTLDPermitted, R!TldPart,
     R!IsReservedTLD, Registry!AllGenesisClean, Registry!CleanGenesis,
     Registry!GenesisTLDs, Registry!Normalize, Registry!ToLower,
     Registry!TrimDots, Registry!TrimSpace, Registry!IsTLDPermitted,
     Registry!TldPart, Registry!IsReservedTLD, R!IsEmptyString,
     Registry!IsEmptyString
<1>2. PICK g \in GenesisStates :
        /\ Domain = R!InitDomains(g.DomainList)
        /\ DomainName = R!InitIndex(g.DomainList)
        /\ DomainSeq = g.DomainCount
        /\ DomainCreationFee = g.DomainCreationFee
  BY DEF ChainInit
<1>3. /\ R!InitDomains(g.DomainList) = Registry!InitDomains(g.DomainList)
      /\ R!InitIndex(g.DomainList) = Registry!InitIndex(g.DomainList)
  BY DEF R!InitDomains, Registry!InitDomains, R!InitIndex, Registry!InitIndex,
     R!Indexed, Registry!Indexed, R!Normalize, R!ToLower, R!TrimDots,
     Registry!Normalize, Registry!ToLower, Registry!TrimDots
<1>4. PermittedTLDs = Registry!GenesisTLDs(g.PermittedTlds)
  BY ChainAssumption DEF ChainAssumption, ChainInit, Init, GenesisTLDs,
     Normalize, ToLower, TrimDots, IsEmptyString, Registry!GenesisTLDs,
     Registry!Normalize, Registry!ToLower, Registry!TrimDots,
     Registry!IsEmptyString
<1>5. /\ bank = [bal |-> [a \in Registry!Accounts |->
                            IF a \in Users THEN InitialBalance[a] ELSE 0],
                 supply |-> InitialSupply]
      /\ now = 0 /\ signer = NoSigner /\ feesBurned = 0
  BY SameAccounts DEF ChainInit, Init
<1>6. Registry!Init
  BY <1>2, <1>3, <1>4, <1>5 DEF Registry!Init
<1>7. Registry!IndexInv /\ Registry!TldInv
  BY <1>1, <1>6, Registry!InitIndexInv, Registry!InitTldInv, RegistryConstants
<1>8. MapsInv
  BY <1>2, MapOfGenesis DEF MapsInv
<1> QED BY <1>1, <1>6, <1>7, <1>8 DEF RegistryInv

LEMMA ChainNextRegistry ==
  ASSUME BaseInv, BaseInv', RegistryInv, [ChainNext]_chainVars
  PROVE  RegistryInv'
<1>1. ASSUME NEW who \in Users, RegistryMessage(who) PROVE RegistryInv'
  BY <1>1, MessageIndexInv, MessageMaps DEF RegistryMessage, RegistryInv
<1>2. CASE Restart
  BY <1>2, RestartIndexInv, RestartMaps DEF Restart, RegistryInv
<1>3. now \in Nat /\ BlockGaps \subseteq Nat
  BY RegistryConstants DEF RegistryInv, Registry!IndexInv, Registry!TypeOK,
     Registry!RegistryAssumption
<1>4. CASE /\ UNCHANGED <<Domain, DomainName, DomainSeq, feesBurned>>
           /\ signer' \in {signer, NoSigner}
           /\ now' = now \/ \E gap \in BlockGaps : now' = now + gap
  BY <1>3, <1>4, FrameIndexInv DEF BaseInv, RegistryInv, MapsInv
<1>5. CASE DaoStep \/ Idle
  BY <1>4, <1>5 DEF DaoStep, Idle, registryVars, history
<1>6. CASE \E fee \in Fees : UpdateParams(fee)
  BY <1>4, <1>6 DEF UpdateParams, R!UpdateParams, R!registry
<1>7. CASE \E gap \in BlockGaps : NextBlock(gap)
  BY <1>4, <1>7 DEF NextBlock, R!NextBlock, R!registry
<1>8. CASE UNCHANGED chainVars
  BY <1>4, <1>8 DEF chainVars, registryVars, history
<1> QED BY <1>1, <1>2, <1>5, <1>6, <1>7, <1>8 DEF ChainNext

LEMMA ChainRegistryInv ==
  ASSUME R!AllGenesisClean
  PROVE  ChainSpec => []RegistryInv
<1>1. ChainInit => RegistryInv
  BY ChainInitRegistry
<1>2. BaseInv /\ BaseInv' /\ RegistryInv /\ [ChainNext]_chainVars => RegistryInv'
  BY ChainNextRegistry
<1> QED BY <1>1, <1>2, ChainBase, PTL DEF ChainSpec

(* With both modules at work every domain is found under its own name and  *)
(* every index entry leads to a domain: the index that InitGenesis builds  *)
(* and CreateDomain and DeleteDomain maintain.                             *)
THEOREM ChainIndexConsistent ==
  ASSUME R!AllGenesisClean
  PROVE  ChainSpec => []R!NameIndexConsistent
<1>1. RegistryInv => R!NameIndexConsistent
  BY DEF RegistryInv, Registry!IndexInv, Registry!NameIndexConsistent,
         R!NameIndexConsistent
<1> QED BY <1>1, ChainRegistryInv, PTL

-----------------------------------------------------------------------------
(* ExportGenesis and InitGenesis are inverse to each other on a consistent *)
(* registry.                                                               *)
LEMMA RestartIdentity ==
  ASSUME RegistryInv, R!GenesisRestart
  PROVE  UNCHANGED <<Domain, DomainName, DomainSeq, DomainCreationFee>>
<1>1. /\ DomainName' = R!InitIndex(Domain)
      /\ UNCHANGED <<DomainSeq, DomainCreationFee>>
      /\ MapsInv /\ MapsInv' /\ Registry!IndexInv /\ Registry!IndexInv'
  BY RestartMaps, RestartIndexInv DEF R!GenesisRestart, R!ExportGenesis, RegistryInv
<1>2. /\ DOMAIN Domain' = DOMAIN Domain
      /\ \A id \in DOMAIN Domain : Domain'[id] = Domain[id]
  BY <1>1, SameRestart, Registry!RestartKeepsDomains, RegistryConstants
<1>3. Domain' = Domain
  BY <1>1, <1>2 DEF MapsInv
<1>4. /\ Registry!NameIndexConsistent
      /\ \A id \in DOMAIN Domain :
           /\ Domain'[id].Name \in DOMAIN DomainName'
           /\ DomainName'[Domain'[id].Name] = id
      /\ \A n \in DOMAIN DomainName' :
           /\ DomainName'[n] \in DOMAIN Domain'
           /\ Domain'[DomainName'[n]].Name = n
  BY <1>1, <1>2 DEF Registry!IndexInv, Registry!NameIndexConsistent
<1>5. DOMAIN DomainName' = DOMAIN DomainName
  BY <1>3, <1>4, ZenonT(60) DEF Registry!NameIndexConsistent
<1>6. \A n \in DOMAIN DomainName : DomainName'[n] = DomainName[n]
  BY <1>3, <1>4, <1>5 DEF Registry!NameIndexConsistent
<1>7. DomainName' = DomainName
  BY <1>1, <1>5, <1>6 DEF MapsInv
<1> QED BY <1>1, <1>3, <1>7

(* Only a restart counts as one.                                           *)
LEMMA RestartsOnlyRestart ==
  ASSUME BaseInv, [ChainNext]_chainVars
  PROVE  Restart \/ restarts' = restarts
<1>1. ASSUME NEW who \in Users, RegistryMessage(who) PROVE restarts' = restarts
  BY <1>1 DEF RegistryMessage, daoVars, blockVars
<1>2. ASSUME NEW fee \in Fees, UpdateParams(fee) PROVE restarts' = restarts
  BY <1>2 DEF UpdateParams, daoVars, blockVars
<1>3. CASE DaoStep
  BY <1>3 DEF DaoStep, Deliver, SubmitProposal, Vote, BankSend, Inflation,
              EndBlockStart, ProcessProposal, blockVars
<1>4. ASSUME NEW gap \in BlockGaps, NextBlock(gap) PROVE restarts' = restarts
  BY <1>4 DEF NextBlock, Commit
<1>5. CASE Idle
  BY <1>5 DEF Idle, BoundReached, vars
<1>6. CASE UNCHANGED chainVars
  BY <1>6 DEF chainVars, vars
<1> QED BY <1>1, <1>2, <1>3, <1>4, <1>5, <1>6 DEF ChainNext

(* An export and import of the chain changes nothing of the registry: the  *)
(* index that InitGenesis rebuilds is the one that was there, although it  *)
(* is not in the file, the TLDs normalize to themselves, and sequence and  *)
(* fee come back as they were.                                             *)
THEOREM RestartIsLossless ==
  ASSUME R!AllGenesisClean
  PROVE  ChainSpec => RestartKeepsRegistry
<1>1. ASSUME BaseInv, RegistryInv, [ChainNext]_chainVars
      PROVE  [restarts' # restarts
                => UNCHANGED <<Domain, DomainName, DomainSeq,
                               DomainCreationFee, PermittedTLDs>>]_chainVars
  <2>1. CASE Restart
    <3>1. UNCHANGED <<Domain, DomainName, DomainSeq, DomainCreationFee>>
      BY <1>1, <2>1, RestartIdentity DEF Restart
    <3>2. PermittedTLDs' = PermittedTLDs
      BY <1>1, <2>1, RestartStep DEF GenesisRestart
    <3> QED BY <3>1, <3>2
  <2>2. CASE restarts' = restarts
    BY <2>2
  <2> QED BY <1>1, <2>1, <2>2, RestartsOnlyRestart
<1> QED BY <1>1, ChainBase, ChainRegistryInv, PTL
        DEF ChainSpec, RestartKeepsRegistry

-----------------------------------------------------------------------------
(***************************************************************************)
(* Names and votes.  While messages run, every decided proposal was        *)
(* decided in an earlier block: EndBlocker runs after them.                *)
(***************************************************************************)
DecidedBefore ==
  \A id \in DOMAIN Proposals :
    Finished(id) /\ phase = "deliver" => height > Proposals[id].VotingEndBlock + 1

LEMMA ChainDecidedBefore == ChainSpec => []DecidedBefore
<1>1. ChainInit => DecidedBefore
  BY DEF ChainInit, Init, NoEntries, DecidedBefore
<1>2. ASSUME BaseInv, TimeInv, DecidedBefore, [ChainNext]_chainVars
      PROVE  DecidedBefore'
  <2>1. CASE UNCHANGED <<Proposals, phase, height>>
    BY <1>2, <2>1 DEF DecidedBefore, Finished, Voting
  <2>2. ASSUME NEW who \in Users, NEW c \in Contents, SubmitProposal(who, c)
        PROVE  DecidedBefore'
    <3>1. /\ DOMAIN Proposals' = DOMAIN Proposals \cup {ProposalSeq}
          /\ \A j \in DOMAIN Proposals : Proposals'[j] = Proposals[j]
          /\ Proposals'[ProposalSeq].Status = "VOTING_PERIOD"
          /\ UNCHANGED <<height, phase>>
      BY <1>2, <2>2, SubmitFacts DEF BaseInv
    <3> QED BY <1>2, <3>1 DEF DecidedBefore, Finished, Voting
  <2>3. CASE phase' = "endblock"
    BY <2>3 DEF DecidedBefore
  <2>4. CASE Commit
    <3>1. /\ height' = height + 1 /\ Proposals' = Proposals /\ height \in Nat
          /\ \A id \in DOMAIN Proposals : Proposals[id].VotingEndBlock \in Nat
      BY <1>2, <2>4, BlocksFacts DEF Commit, BaseInv
    <3> QED BY <1>2, <3>1 DEF DecidedBefore, TimeInv, TimeOf, Finished, Voting
  <2>5. CASE GenesisRestart
    BY <2>5 DEF GenesisRestart, DaoRestart, NoEntries, DecidedBefore
  <2>6. CASE Deliver
    BY <2>1, <2>2, <2>6 DEF Deliver, Vote, BankSend, Inflation, blockVars
  <2>7. CASE Block
    BY <2>3, <2>4, <2>7 DEF Block, EndBlockStart, ProcessProposal
  <2>8. CASE [Next]_vars
    BY <2>1, <2>5, <2>6, <2>7, <2>8 DEF Next, BoundReached, vars
  <2>9. ASSUME NEW who \in Users, FeeStep(who) PROVE DecidedBefore'
    BY <2>1, <2>9 DEF FeeStep
  <2> QED BY <1>2, <2>8, <2>9, ChainStep
<1> QED BY <1>1, <1>2, ChainBase, ChainTimeInv, PTL DEF ChainSpec

(* What a proposal has added it has added for good.                        *)
LEMMA ExecutedStay ==
  ASSUME TypeInv, [Next]_vars, restarts' = restarts, NEW p \in ExecutedTldProposals
  PROVE  /\ p \in ExecutedTldProposals'
         /\ Proposals'[p].Content = Proposals[p].Content
         /\ Proposals'[p].VotingEndBlock = Proposals[p].VotingEndBlock
<1>1. p \in DOMAIN Proposals /\ Proposals[p].Status = "EXECUTED"
  BY DEF ExecutedTldProposals
<1>2. CASE p \in DOMAIN Proposals' /\ Proposals'[p] = Proposals[p]
  BY <1>2 DEF ExecutedTldProposals
<1>3. CASE Proposals' = Proposals
  BY <1>1, <1>2, <1>3
<1>4. CASE Deliver
  BY <1>1, <1>2, <1>3, <1>4, SubmitFacts DEF Deliver, Vote, BankSend, Inflation
<1>5. ASSUME NEW id, ProcessProposal(id)
      PROVE  p \in DOMAIN Proposals' /\ Proposals'[p] = Proposals[p]
  <2>1. Voting(id) /\ \E status : Decided(id, status)
    BY <1>5, ProcessCases DEF Rejects, AddsTld, RefusesTld, RefusesGrant, PaysGrant
  <2> QED BY <1>1, <2>1 DEF Decided, Voting
<1>6. CASE Block
  BY <1>2, <1>3, <1>5, <1>6 DEF Block, EndBlockStart, Commit
<1>7. ~GenesisRestart
  BY DEF GenesisRestart, DaoRestart, TypeInv, TypeOK
<1> QED BY <1>3, <1>4, <1>6, <1>7 DEF Next, BoundReached, vars
-----------------------------------------------------------------------------
(* A name t is in because of the genesis file, or because of a proposal    *)
(* that was decided before block b.                                        *)
LetIn(t, b) ==
  \/ t \in GenesisTLDs(GenesisTldList)
  \/ \E p \in ExecutedTldProposals :
       /\ AddedTLD(Proposals[p].Content.tld) = t
       /\ b > Proposals[p].VotingEndBlock + 1

LookedUp(id) == AddedTLD(TldPart(Domain[id].Name))

LEMMA FollowVotesMeaning ==
  DomainsFollowVotes
    <=> (restarts = 0 => \A id \in DOMAIN Domain : LetIn(LookedUp(id), born[id]))
BY DEF DomainsFollowVotes, LetIn, LookedUp

(* A TLD that IsTLDPermitted finds in the set.                             *)
LEMMA LookUp ==
  ASSUME NEW n, NEW P, Registry!IsTLDPermitted(Registry!TldPart(n), P)
  PROVE  AddedTLD(TldPart(n)) \in P
BY DEF Registry!IsTLDPermitted, Registry!TldPart, Registry!ToLower,
   Registry!TrimSpace, AddedTLD, TldPart, ToLower, TrimSpace

LEMMA ChainInitNames ==
  ASSUME R!AllGenesisClean, ChainInit
  PROVE  DomainsFollowVotes
<1>1. /\ Registry!DomainsUnderPermittedTLDs
      /\ PermittedTLDs = GenesisTLDs(GenesisTldList)
  BY ChainInitRegistry DEF Registry!TldInv, ChainInit, Init
<1>2. \A id \in DOMAIN Domain :
        Registry!IsTLDPermitted(Registry!TldPart(Domain[id].Name), PermittedTLDs)
  BY <1>1 DEF Registry!DomainsUnderPermittedTLDs
<1>3. \A id \in DOMAIN Domain : LookedUp(id) \in PermittedTLDs
  BY <1>2, LookUp, Zenon DEF LookedUp
<1> QED BY <1>1, <1>3, FollowVotesMeaning DEF LetIn

(* CreateDomain lets in only what is permitted by then.                    *)
LEMMA MessageNames ==
  ASSUME RegistryInv, TldProvenance, DecidedBefore, DomainsFollowVotes,
         NEW who \in Users, RegistryMessage(who)
  PROVE  DomainsFollowVotes'
<1> SUFFICES ASSUME restarts' = 0, NEW id \in DOMAIN Domain'
             PROVE  LetIn(LookedUp(id), born[id])'
  BY FollowVotesMeaning DEF DomainsFollowVotes, LetIn, LookedUp
<1>1. /\ restarts = 0 /\ phase = "deliver" /\ Proposals' = Proposals
      /\ born' = [i \in DOMAIN Domain' |->
                    IF i \in DOMAIN Domain THEN born[i] ELSE height]
  BY DEF RegistryMessage, daoVars, blockVars
<1>2. Registry!Next /\ Registry!IndexInv
  BY SameMessages DEF RegistryMessage, Registry!Next, RegistryInv
<1>3. ExecutedTldProposals' = ExecutedTldProposals
  BY <1>1 DEF ExecutedTldProposals
<1>4. CASE id \in DOMAIN Domain
  <2>1. Domain'[id].Name = Domain[id].Name
    BY <1>2, <1>4, Registry!StepOnDomains, RegistryConstants
  <2>2. LookedUp(id)' = LookedUp(id) /\ born'[id] = born[id]
    BY <1>1, <1>4, <2>1 DEF LookedUp
  <2>3. LetIn(LookedUp(id), born[id])
    BY <1>1, <1>4, FollowVotesMeaning
  <2> QED BY <1>1, <1>3, <2>2, <2>3 DEF LetIn
<1>5. CASE id \notin DOMAIN Domain
  <2> DEFINE t == AddedTLD(TldPart(Domain'[id].Name))
  <2>1. Registry!IsTLDPermitted(Registry!TldPart(Domain'[id].Name), PermittedTLDs)
    BY <1>2, <1>5, Registry!NamesAfterStep, RegistryConstants
  <2>2. t \in PermittedTLDs /\ LookedUp(id)' = t
    BY <2>1, LookUp DEF LookedUp
  <2>3. born'[id] = height
    BY <1>1, <1>5
  <2> HIDE DEF t
  <2>4. \/ t \in GenesisTLDs(GenesisTldList)
        \/ \E p \in ExecutedTldProposals : AddedTLD(Proposals[p].Content.tld) = t
    BY <1>1, <2>2 DEF TldProvenance
  <2>5. \A p \in ExecutedTldProposals : height > Proposals[p].VotingEndBlock + 1
    BY <1>1 DEF ExecutedTldProposals, DecidedBefore, Finished, Voting
  <2> QED BY <1>1, <1>3, <2>2, <2>3, <2>4, <2>5 DEF LetIn
<1> QED BY <1>4, <1>5

(* All other steps keep names, creation blocks and executed proposals.     *)
LEMMA OtherNames ==
  ASSUME TypeInv, DomainsFollowVotes, [Next]_vars, restarts' = restarts,
         UNCHANGED <<Domain, born>>
  PROVE  DomainsFollowVotes'
<1> SUFFICES ASSUME restarts = 0, NEW id \in DOMAIN Domain
             PROVE  LetIn(LookedUp(id), born[id])'
  BY FollowVotesMeaning DEF DomainsFollowVotes, LetIn, LookedUp
<1>1. LetIn(LookedUp(id), born[id]) /\ LookedUp(id)' = LookedUp(id)
  BY FollowVotesMeaning DEF LookedUp
<1>2. \A p \in ExecutedTldProposals :
        /\ p \in ExecutedTldProposals'
        /\ Proposals'[p].Content = Proposals[p].Content
        /\ Proposals'[p].VotingEndBlock = Proposals[p].VotingEndBlock
  BY ExecutedStay
<1> QED BY <1>1, <1>2 DEF LetIn

(* No order of proposals, votes, tallies and CreateDomain messages lets a  *)
(* name in ahead of the decision on its TLD: CreateDomain consults the set *)
(* that only InitGenesis and the EndBlocker's AddPermittedTLD write, and   *)
(* the EndBlocker runs after the messages of its block.                    *)
THEOREM NamesFollowVotes ==
  ASSUME R!AllGenesisClean
  PROVE  ChainSpec => []DomainsFollowVotes
<1>1. ChainInit => DomainsFollowVotes
  BY ChainInitNames
<1>2. ASSUME BaseInv, RegistryInv, TldProvenance, DecidedBefore,
             DomainsFollowVotes, [ChainNext]_chainVars
      PROVE  DomainsFollowVotes'
  <2>1. ASSUME NEW who \in Users, RegistryMessage(who) PROVE DomainsFollowVotes'
    BY <1>2, <2>1, MessageNames
  <2>2. CASE Restart
    <3>1. restarts \in Nat /\ restarts' = restarts + 1
      BY <1>2, <2>2 DEF BaseInv, TypeInv, TypeOK, Restart, DaoRestart
    <3> QED BY <3>1 DEF DomainsFollowVotes
  <2>3. CASE /\ restarts' = restarts /\ UNCHANGED <<Domain, born>> /\ [Next]_vars
    BY <1>2, <2>3, OtherNames DEF BaseInv
  <2>4. ASSUME DaoStep \/ Idle \/ UNCHANGED chainVars
        PROVE  UNCHANGED <<Domain, born>> /\ [Next]_vars
    BY <2>4 DEF DaoStep, Idle, Next, Block, registryVars, history, chainVars
  <2>5. ASSUME NEW fee \in Fees, UpdateParams(fee)
        PROVE  UNCHANGED <<Domain, born>> /\ [Next]_vars
    BY <2>5 DEF UpdateParams, R!UpdateParams, R!registry, daoVars, coinVars,
                blockVars, vars, history
  <2>6. ASSUME NEW gap \in BlockGaps, NextBlock(gap)
        PROVE  UNCHANGED <<Domain, born>> /\ [Next]_vars
    BY <2>6 DEF NextBlock, R!NextBlock, R!registry, history, Next, Block
  <2> QED BY <1>2, <2>1, <2>2, <2>3, <2>4, <2>5, <2>6, RestartsOnlyRestart
          DEF ChainNext
<1> QED BY <1>1, <1>2, ChainBase, ChainRegistryInv, ChainTldsFollowVotes,
           ChainDecidedBefore, PTL DEF ChainSpec

-----------------------------------------------------------------------------
(***************************************************************************)
(* The TLD policy in the chain, where the DAO writes the permitted TLDs.   *)
(***************************************************************************)
LEMMA TldsOnlyGrow ==
  ASSUME TypeInv, [Next]_vars
  PROVE  PermittedTLDs \subseteq PermittedTLDs'
<1>1. ASSUME NEW id, ProcessProposal(id) PROVE PermittedTLDs \subseteq PermittedTLDs'
  BY <1>1, ProcessCases DEF AddsTld, Rejects, RefusesTld, RefusesGrant, PaysGrant
<1>2. CASE Deliver
  BY <1>2 DEF Deliver, SubmitProposal, Vote, BankSend, Inflation
<1>3. CASE Block
  BY <1>1, <1>3 DEF Block, EndBlockStart, Commit
<1>4. CASE GenesisRestart \/ BoundReached \/ UNCHANGED vars
  BY <1>4 DEF GenesisRestart, BoundReached, vars
<1> QED BY <1>2, <1>3, <1>4 DEF Next

(* Every name is under a permitted TLD, and no permitted TLD is reserved.  *)
PolicyInv ==
  /\ \A id \in DOMAIN Domain : LookedUp(id) \in PermittedTLDs
  /\ \A t \in PermittedTLDs : ~IsReservedTLD(t)

LEMMA SameReserved == ASSUME NEW t
                      PROVE  /\ Registry!IsReservedTLD(t) <=> IsReservedTLD(t)
                             /\ R!IsReservedTLD(t) <=> IsReservedTLD(t)
BY DEF Registry!IsReservedTLD, Registry!Normalize, Registry!ToLower,
   Registry!TrimDots, R!IsReservedTLD, R!Normalize, R!ToLower, R!TrimDots,
   IsReservedTLD, Normalize, ToLower, TrimDots

LEMMA ChainInitPolicy ==
  ASSUME R!AllGenesisClean, ChainInit
  PROVE  PolicyInv
<1>1. Registry!DomainsUnderPermittedTLDs /\ Registry!NoReservedPermitted
  BY ChainInitRegistry DEF Registry!TldInv
<1>2. \A id \in DOMAIN Domain :
        Registry!IsTLDPermitted(Registry!TldPart(Domain[id].Name), PermittedTLDs)
  BY <1>1 DEF Registry!DomainsUnderPermittedTLDs
<1>3. \A id \in DOMAIN Domain : LookedUp(id) \in PermittedTLDs
  BY <1>2, LookUp, Zenon DEF LookedUp
<1> QED BY <1>1, <1>3, SameReserved DEF PolicyInv, Registry!NoReservedPermitted

LEMMA ChainNextPolicy ==
  ASSUME BaseInv, RegistryInv, TldProvenance, TldProvenance', PolicyInv,
         [ChainNext]_chainVars
  PROVE  PolicyInv'
<1>1. PermittedTLDs \subseteq PermittedTLDs'
  <2>1. ASSUME NEW who \in Users, FeeStep(who) PROVE PermittedTLDs' = PermittedTLDs
    BY <2>1 DEF FeeStep
  <2> QED BY <2>1, ChainStep, TldsOnlyGrow DEF BaseInv
<1>2. \A t \in PermittedTLDs' : ~IsReservedTLD(t)
  <2>1. GenesisTLDs(GenesisTldList) \subseteq PermittedTLDs
    BY DEF TldProvenance
  <2>2. \A t \in PermittedTLDs' \ GenesisTLDs(GenesisTldList) : ~IsReservedTLD(t)
    BY DEF TldProvenance
  <2> QED BY <2>1, <2>2 DEF PolicyInv
<1>3. CASE Domain' = Domain
  BY <1>1, <1>2, <1>3 DEF PolicyInv, LookedUp
<1>4. ASSUME NEW who \in Users, RegistryMessage(who) PROVE PolicyInv'
  <2>1. Registry!Next /\ Registry!IndexInv
    BY <1>4, SameMessages DEF RegistryMessage, Registry!Next, RegistryInv
  <2>2. ASSUME NEW id \in DOMAIN Domain'
        PROVE  AddedTLD(TldPart(Domain'[id].Name)) \in PermittedTLDs
    <3>1. CASE id \in DOMAIN Domain /\ Domain'[id].Name = Domain[id].Name
      BY <3>1 DEF PolicyInv, LookedUp
    <3>2. CASE Registry!IsTLDPermitted(Registry!TldPart(Domain'[id].Name),
                                       PermittedTLDs)
      BY <3>2, LookUp
    <3> QED BY <2>1, <2>2, <3>1, <3>2, Registry!NamesAfterStep, RegistryConstants
  <2> QED BY <1>1, <1>2, <2>2 DEF PolicyInv, LookedUp
<1>5. CASE Restart
  BY <1>3, <1>5, RestartIdentity DEF Restart
<1>6. CASE DaoStep \/ Idle \/ UNCHANGED chainVars
  BY <1>3, <1>6 DEF DaoStep, Idle, chainVars, registryVars
<1>7. CASE \E fee \in Fees : UpdateParams(fee)
  BY <1>3, <1>7 DEF UpdateParams, R!UpdateParams, R!registry
<1>8. CASE \E gap \in BlockGaps : NextBlock(gap)
  BY <1>3, <1>8 DEF NextBlock, R!NextBlock, R!registry
<1> QED BY <1>4, <1>5, <1>6, <1>7, <1>8 DEF ChainNext

(* The registry checks a TLD once, in CreateDomain; afterwards the DAO's   *)
(* EndBlocker and the InitGenesis of a restart write the set.  Still every *)
(* domain stays under a TLD that is permitted and not reserved.            *)
THEOREM ChainTldPolicy ==
  ASSUME R!AllGenesisClean
  PROVE  ChainSpec => []R!DomainsUnderPermittedTLDs
<1>1. ChainInit => PolicyInv
  BY ChainInitPolicy
<1>2. BaseInv /\ RegistryInv /\ TldProvenance /\ TldProvenance' /\ PolicyInv
        /\ [ChainNext]_chainVars => PolicyInv'
  BY ChainNextPolicy
<1>3. ASSUME BaseInv, PolicyInv PROVE R!DomainsUnderPermittedTLDs
  <2>1. ASSUME NEW id \in DOMAIN Domain
        PROVE  /\ R!AddedTLD(R!TldPart(Domain[id].Name)) = LookedUp(id)
               /\ R!IsTLDPermitted(R!TldPart(Domain[id].Name), PermittedTLDs)
                    <=> /\ ~IsEmptyString(LookedUp(id))
                        /\ LookedUp(id) \in PermittedTLDs
    BY DEF R!AddedTLD, R!TldPart, R!ToLower, R!TrimSpace, R!IsTLDPermitted,
           R!IsEmptyString, IsEmptyString, LookedUp, AddedTLD, TldPart, ToLower, TrimSpace
  <2>2. ASSUME NEW id \in DOMAIN Domain
        PROVE  /\ LookedUp(id) \in PermittedTLDs /\ ~IsEmptyString(LookedUp(id))
               /\ ~R!IsReservedTLD(LookedUp(id))
    BY <1>3, SameReserved DEF BaseInv, TldsNormal, PolicyInv
  <2> HIDE DEF LookedUp
  <2> QED BY <2>1, <2>2 DEF R!DomainsUnderPermittedTLDs
<1> QED BY <1>1, <1>2, <1>3, ChainBase, ChainRegistryInv,
           ChainTldsFollowVotes, PTL DEF ChainSpec

-----------------------------------------------------------------------------
(* A message of the registry moves coins between the opening of a vote and *)
(* its end; the tally and the verdict that EndBlocker stores still agree   *)
(* with the votes for ever.                                                *)
THEOREM ChainDecisionsFollowVotes == ChainSpec => []TallyFinal
<1>1. ChainInit => TallyFinal
  BY InitTally DEF ChainInit
<1>2. ASSUME BaseInv, TallyFinal, [ChainNext]_chainVars PROVE TallyFinal'
  <2>1. ASSUME NEW who \in Users, FeeStep(who) PROVE TallyFinal'
    BY <1>2, <2>1, UnchangedTally DEF FeeStep
  <2> QED BY <1>2, <2>1, ChainStep, NextTally DEF BaseInv
<1> QED BY <1>1, <1>2, ChainBase, PTL DEF ChainSpec

-----------------------------------------------------------------------------
(***************************************************************************)
(* Names, for whoever holds one.                                           *)
(***************************************************************************)
LEMMA ChainStepOnNames ==
  ASSUME RegistryInv, [ChainNext]_chainVars
  PROVE  [Registry!Abstract!Next]_(Registry!Abstract!vars)
<1>1. Registry!IndexInv
  BY DEF RegistryInv
<1>2. ASSUME NEW who \in Users, RegistryMessage(who)
      PROVE  [Registry!Abstract!Next]_(Registry!Abstract!vars)
  <2>1. Registry!Next
    BY <1>2, SameMessages DEF RegistryMessage, Registry!Next
  <2> QED BY <1>1, <2>1, Registry!NextImplements, RegistryConstants
<1>3. CASE Restart
  <2>1. Registry!Next
    BY <1>3, SameRestart DEF Restart, Registry!Next
  <2> QED BY <1>1, <2>1, Registry!NextImplements, RegistryConstants
<1>4. CASE signer' = NoSigner /\ UNCHANGED <<Domain, DomainName, DomainSeq>>
  BY <1>1, <1>4, Registry!RestImplements, RegistryConstants
<1>5. CASE UNCHANGED <<Domain, DomainName, DomainSeq, signer>>
  BY <1>5 DEF Registry!Holders, Registry!Abstract!vars
<1>6. CASE DaoStep
  BY <1>4, <1>6 DEF DaoStep, registryVars
<1>7. CASE \E fee \in Fees : UpdateParams(fee)
  BY <1>4, <1>7 DEF UpdateParams, R!UpdateParams, R!registry
<1>8. CASE \E gap \in BlockGaps : NextBlock(gap)
  BY <1>4, <1>8 DEF NextBlock, R!NextBlock, R!registry
<1>9. CASE Idle \/ UNCHANGED chainVars
  BY <1>5, <1>9 DEF Idle, chainVars, registryVars
<1> QED BY <1>2, <1>3, <1>6, <1>7, <1>8, <1>9 DEF ChainNext

LEMMA SameAbstract ==
  /\ R!Abstract!Init <=> Registry!Abstract!Init
  /\ R!Abstract!Next <=> Registry!Abstract!Next
  /\ R!Abstract!vars = Registry!Abstract!vars
  /\ R!Abstract!vars' = Registry!Abstract!vars'
<1>1. R!Holders = Registry!Holders /\ R!Holders' = Registry!Holders'
  BY DEF R!Holders, Registry!Holders
<1>2. {R!Normalize(n) : n \in Names} = {Registry!Normalize(n) : n \in Names}
  BY DEF R!Normalize, Registry!Normalize, R!ToLower, Registry!ToLower,
     R!TrimDots, Registry!TrimDots
<1>3. ASSUME NEW f, NEW k, NEW v
      PROVE  /\ R!Abstract!Put(f, k, v) = Registry!Abstract!Put(f, k, v)
             /\ R!Abstract!Del(f, k) = Registry!Abstract!Del(f, k)
  BY DEF R!Abstract!Put, Registry!Abstract!Put, R!Abstract!Del,
     Registry!Abstract!Del
<1>4. ASSUME NEW who, NEW n, NEW o
      PROVE  /\ R!Abstract!Register(who, n, o)
                  <=> Registry!Abstract!Register(who, n, o)
             /\ R!Abstract!Appoint(who, n, o)
                  <=> Registry!Abstract!Appoint(who, n, o)
             /\ R!Abstract!HandOver(who, n, o)
                  <=> Registry!Abstract!HandOver(who, n, o)
             /\ R!Abstract!Release(who, n) <=> Registry!Abstract!Release(who, n)
             /\ R!Abstract!Tend(who, n) <=> Registry!Abstract!Tend(who, n)
  BY <1>1, <1>3, Zenon DEF R!Abstract!Register, Registry!Abstract!Register,
     R!Abstract!Appoint, Registry!Abstract!Appoint,
     R!Abstract!HandOver, Registry!Abstract!HandOver,
     R!Abstract!Release, Registry!Abstract!Release,
     R!Abstract!Tend, Registry!Abstract!Tend
<1>5. R!Abstract!Rest <=> Registry!Abstract!Rest
  BY <1>1 DEF R!Abstract!Rest, Registry!Abstract!Rest
<1>6. R!Abstract!Next <=> Registry!Abstract!Next
  BY <1>1, <1>2, <1>4, <1>5 DEF R!Abstract!Next, Registry!Abstract!Next
<1>7. R!Abstract!Init <=> Registry!Abstract!Init
  BY <1>1 DEF R!Abstract!Init, Registry!Abstract!Init
<1>8. /\ R!Abstract!vars = Registry!Abstract!vars
      /\ R!Abstract!vars' = Registry!Abstract!vars'
  BY <1>1 DEF R!Abstract!vars, Registry!Abstract!vars
<1> QED BY <1>6, <1>7, <1>8

(* The chain implements NameRegistry: between the votes, tallies, blocks   *)
(* and restarts of the whole application a name has one holder, who came   *)
(* to it by CreateDomain or by the creator's word and leaves it by         *)
(* DeleteDomain alone.                                                     *)
THEOREM ChainNamesRefine ==
  ASSUME R!AllGenesisClean
  PROVE  ChainSpec => ChainKeepsNames
<1>1. ChainInit /\ RegistryInv => R!Abstract!Init
  <2> SUFFICES ASSUME ChainInit, RegistryInv PROVE Registry!Abstract!Init
    BY SameAbstract
  <2>1. signer = NoSigner
    BY DEF ChainInit
  <2>2. \A n \in DOMAIN Registry!Holders : Registry!Holders[n].id < DomainSeq
    BY DEF Registry!Holders, RegistryInv, Registry!IndexInv,
       Registry!NameIndexConsistent, Registry!IdsBelowSeq
  <2> QED BY <2>1, <2>2 DEF Registry!Abstract!Init
<1>2. RegistryInv /\ [ChainNext]_chainVars
        => [R!Abstract!Next]_(R!Abstract!vars)
  <2> SUFFICES ASSUME RegistryInv, [ChainNext]_chainVars
               PROVE  R!Abstract!Next \/ UNCHANGED R!Abstract!vars
    OBVIOUS
  <2>1. Registry!Abstract!Next \/ UNCHANGED Registry!Abstract!vars
    BY ChainStepOnNames
  <2> QED BY <2>1, SameAbstract
<1> QED BY <1>1, <1>2, ChainRegistryInv, PTL
        DEF ChainSpec, ChainKeepsNames, R!ImplementsNameRegistry, R!Abstract!Spec

-----------------------------------------------------------------------------
(***************************************************************************)
(* What the registry promises about each domain, in the chain.             *)
(***************************************************************************)
(* To the registry a step of the chain is one of its own messages, a       *)
(* restart, or a step that leaves the domains alone while time goes on.    *)
LEMMA ChainStepOnRegistry ==
  ASSUME RegistryInv, [ChainNext]_chainVars
  PROVE  \/ Registry!Next
         \/ /\ UNCHANGED <<Domain, DomainSeq>>
            /\ now' \in Nat /\ now' >= now
<1>1. now \in Nat /\ BlockGaps \subseteq Nat
  BY RegistryConstants DEF RegistryInv, Registry!IndexInv, Registry!TypeOK,
     Registry!RegistryAssumption
<1>2. ASSUME NEW who \in Users, RegistryMessage(who) PROVE Registry!Next
  BY <1>2, SameMessages DEF RegistryMessage, Registry!Next
<1>3. CASE Restart
  BY <1>3, SameRestart DEF Restart, Registry!Next
<1>4. CASE \E fee \in Fees : UpdateParams(fee)
  BY <1>1, <1>4 DEF UpdateParams, R!UpdateParams, R!registry
<1>5. CASE \E gap \in BlockGaps : NextBlock(gap)
  BY <1>1, <1>5 DEF NextBlock, R!NextBlock, R!registry
<1>6. CASE DaoStep \/ Idle \/ UNCHANGED chainVars
  BY <1>1, <1>6 DEF DaoStep, Idle, chainVars, registryVars
<1> QED BY <1>2, <1>3, <1>4, <1>5, <1>6 DEF ChainNext

(* In the whole chain, restarts included, an id that DeleteDomain freed is *)
(* not given out again: DomainSeq only goes up.                            *)
THEOREM ChainIdsOnlyGoUp ==
  ASSUME R!AllGenesisClean
  PROVE  ChainSpec => R!IdsNeverReused
<1> DEFINE A == /\ DomainSeq' >= DomainSeq
                /\ \A id \in DOMAIN Domain' \ DOMAIN Domain :
                     DomainSeq <= id /\ id < DomainSeq'
<1>1. RegistryInv /\ [ChainNext]_chainVars => [A]_(R!vars)
  <2> SUFFICES ASSUME RegistryInv, [ChainNext]_chainVars PROVE A
    OBVIOUS
  <2>1. Registry!IndexInv /\ DomainSeq \in Nat
    BY DEF RegistryInv, Registry!IndexInv, Registry!TypeOK
  <2>2. \/ /\ DomainSeq' = DomainSeq + 1
           /\ DOMAIN Domain' \ DOMAIN Domain \subseteq {DomainSeq}
        \/ /\ DomainSeq' = DomainSeq
           /\ DOMAIN Domain' \ DOMAIN Domain = {}
    <3>1. CASE Registry!Next
      BY <2>1, <3>1, Registry!StepOnDomains, RegistryConstants
    <3>2. CASE UNCHANGED <<Domain, DomainSeq>>
      BY <3>2
    <3> QED BY <3>1, <3>2, ChainStepOnRegistry
  <2> QED BY <2>1, <2>2
<1> QED BY <1>1, ChainRegistryInv, PTL DEF ChainSpec, R!IdsNeverReused

(* In the whole chain nothing but a message of a domain's creator or owner *)
(* touches it: no vote, tally, TLD, parameter change or restart does, and  *)
(* of the two only the owner deletes it and only the creator gives it away.*)
THEOREM ChainAuthority ==
  ASSUME R!AllGenesisClean
  PROVE  ChainSpec => R!Authority
<1> DEFINE A == \A id \in DOMAIN Domain :
       IF id \notin DOMAIN Domain'
         THEN signer' = Domain[id].Owner
         ELSE /\ Domain'[id].Name = Domain[id].Name
              /\ \/ Domain'[id].Owner = Domain[id].Owner
                 \/ signer' = Domain[id].Creator
              /\ \/ Domain'[id].Creator = Domain[id].Creator
                 \/ signer' = Domain[id].Creator
              /\ \/ Domain'[id] = Domain[id]
                 \/ signer' \in {Domain[id].Creator, Domain[id].Owner}
<1>1. RegistryInv /\ [ChainNext]_chainVars => [A]_(R!vars)
  <2> SUFFICES ASSUME RegistryInv, [ChainNext]_chainVars PROVE A
    OBVIOUS
  <2>1. Registry!IndexInv
    BY DEF RegistryInv
  <2>2. CASE Registry!Next
    BY <2>1, <2>2, Registry!StepOnDomains, RegistryConstants
  <2>3. CASE UNCHANGED <<Domain, DomainSeq>>
    BY <2>3
  <2> QED BY <2>2, <2>3, ChainStepOnRegistry
<1> QED BY <1>1, ChainRegistryInv, PTL DEF ChainSpec, R!Authority

(* The steps of the chain that are no message keep every expiration within *)
(* a year of a block that has been.                                        *)
LEMMA ChainNextYear ==
  ASSUME RegistryInv, Registry!YearInv, [ChainNext]_chainVars
  PROVE  Registry!YearInv'
<1>1. Registry!IndexInv /\ now \in Nat
  BY DEF RegistryInv, Registry!IndexInv, Registry!TypeOK
<1>2. CASE Registry!Next
  BY <1>1, <1>2, Registry!NextYear, RegistryConstants
<1>3. CASE UNCHANGED <<Domain, DomainSeq>> /\ now' \in Nat /\ now' >= now
  <2>1. ASSUME NEW id \in DOMAIN Domain,
               \E t \in Nat : t <= now
                  /\ Domain[id].Expiration <= Registry!AddYear(t)
        PROVE  \E t \in Nat : t <= now'
                  /\ Domain[id].Expiration <= Registry!AddYear(t)
    <3>1. PICK t \in Nat : t <= now /\ Domain[id].Expiration <= Registry!AddYear(t)
      BY <2>1
    <3>2. t <= now'
      BY <1>1, <1>3, <3>1
    <3> QED BY <3>1, <3>2
  <2> QED BY <1>3, <2>1 DEF Registry!YearInv
<1> QED BY <1>2, <1>3, ChainStepOnRegistry

(* In the whole chain a heartbeat moves an expiration back by less than a  *)
(* day, and nothing else moves one back at all.                            *)
THEOREM ChainExpiryRecedesLittle ==
  ASSUME R!AllGenesisClean, Registry!GenesisWithinAYear
  PROVE  ChainSpec => R!ExpiryNeverRecedesByADay
<1> DEFINE A == \A id \in DOMAIN Domain \cap DOMAIN Domain' :
                  Domain'[id].Expiration > Domain[id].Expiration - DayTicks
<1>1. RegistryInv /\ Registry!YearInv /\ [ChainNext]_chainVars => [A]_(R!vars)
  <2> SUFFICES ASSUME RegistryInv, Registry!YearInv, [ChainNext]_chainVars,
                      NEW id \in DOMAIN Domain \cap DOMAIN Domain'
               PROVE  Domain'[id].Expiration > Domain[id].Expiration - DayTicks
    OBVIOUS
  <2>1. /\ Registry!IndexInv
        /\ now \in Nat /\ Domain[id].Expiration \in Nat
        /\ DayTicks \in Nat \ {0}
    BY RegistryConstants DEF Registry!CalendarAssumption, RegistryInv,
       Registry!IndexInv, Registry!TypeOK, Registry!DomainType
  <2>2. CASE Domain'[id].Expiration = Registry!AddYear(now)
    <3>1. PICK t \in Nat : t <= now /\ Domain[id].Expiration <= Registry!AddYear(t)
      BY DEF Registry!YearInv
    <3>2. Registry!AddYear(t) < Registry!AddYear(now) + DayTicks
      BY <2>1, <3>1, Registry!AddYearAlmostMonotone, RegistryConstants
    <3>3. Registry!AddYear(t) \in Nat /\ Registry!AddYear(now) \in Nat
      BY <2>1, Registry!AddYearType, RegistryConstants
    <3> QED BY <2>1, <2>2, <3>1, <3>2, <3>3
  <2>3. CASE Domain'[id].Expiration = Domain[id].Expiration
    BY <2>1, <2>3
  <2>4. CASE Registry!Next
    BY <2>1, <2>2, <2>3, <2>4, Registry!StepOnExpirations, RegistryConstants
  <2> QED BY <2>3, <2>4, ChainStepOnRegistry
<1>2. ChainInit => Registry!YearInv
  BY ChainInitRegistry, Registry!InitYear, RegistryConstants
<1>3. RegistryInv /\ Registry!YearInv /\ [ChainNext]_chainVars => Registry!YearInv'
  BY ChainNextYear
<1> QED BY <1>1, <1>2, <1>3, ChainRegistryInv, PTL
        DEF ChainSpec, R!ExpiryNeverRecedesByADay
=============================================================================
