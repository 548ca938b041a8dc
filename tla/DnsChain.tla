------------------------------ MODULE DnsChain ------------------------------
(***************************************************************************)
(* The chain: the DAO and the registry in one application.  They share the *)
(* permitted TLDs, which the registry keeps and the DAO adds to, and the   *)
(* bank, in which the fees of one and the deposits of the other lie.  A    *)
(* registry message runs in the deliver phase of a block, between messages *)
(* of the DAO; the end blocker of the registry does nothing and the DAO's  *)
(* is the last; a restart exports and imports both modules.                *)
(***************************************************************************)
EXTENDS Dao

CONSTANTS
  DnsModule, NoSigner, Names, NsRecordSets, NoNs, BadNs, Fees, GenesisStates,
  MaxDomains, BlockGaps, MaxTime, DayTicks, YearDays, LeapDays

VARIABLES
  Domain, DomainName, DomainSeq, DomainCreationFee, now, signer,
  feesBurned, \* history of the registry: the fees of the domains created
  born        \* history: id -> the block in which the domain was created

R == INSTANCE DnsRegistry
       WITH TldRequests <- {c.tld : c \in {d \in Contents : IsAddTld(d)}},
            OtherAccounts <- OtherAccounts \cup {DaoModule, BlockedAddr}

registryVars == <<Domain, DomainName, DomainSeq, DomainCreationFee, now>>
history == <<feesBurned, born>>
daoVars == <<Proposals, ProposalSeq, Votes, VoterPowerLots, coinVars, blockVars>>
chainVars == <<vars, registryVars, signer, history>>

(* The module account of the registry is an account of the bank, the       *)
(* constants are what the registry asks for, and both modules start from   *)
(* one genesis file.                                                       *)
ASSUME ChainAssumption ==
  /\ DnsModule \in OtherAccounts
  /\ R!CalendarAssumption
  /\ R!RegistryAssumption
  /\ \A g \in GenesisStates : g.PermittedTlds = GenesisTldList

ChainInit ==
  /\ Init
  /\ \E g \in GenesisStates :
       /\ Domain = R!InitDomains(g.DomainList)
       /\ DomainName = R!InitIndex(g.DomainList)
       /\ DomainSeq = g.DomainCount
       /\ DomainCreationFee = g.DomainCreationFee
       /\ born = [id \in {g.DomainList[i].Id : i \in DOMAIN g.DomainList} |-> 0]
  /\ now = 0
  /\ signer = NoSigner
  /\ feesBurned = 0

-----------------------------------------------------------------------------
RegistryMessage(who) ==
  /\ phase = "deliver"
  /\ R!Message(who)
  /\ born' = [id \in DOMAIN Domain' |->
               IF id \in DOMAIN Domain THEN born[id] ELSE height]
  /\ UNCHANGED daoVars

(* x/gov executes MsgUpdateParams before the DAO's end blocker runs.       *)
UpdateParams(fee) ==
  /\ phase = "deliver"
  /\ R!UpdateParams(fee)
  /\ UNCHANGED <<daoVars, history>>

DaoStep ==
  /\ \/ Deliver
     \/ EndBlockStart
     \/ \E id \in toProcess : ProcessProposal(id)
  /\ signer' = NoSigner
  /\ UNCHANGED <<registryVars, history>>

(* A block is committed: the height grows by one and time goes on.         *)
NextBlock(gap) ==
  /\ Commit
  /\ R!NextBlock(gap)
  /\ UNCHANGED history

(* ExportAppStateAndValidators and the InitGenesis of both modules.        *)
Restart ==
  /\ DaoRestart
  /\ R!GenesisRestart
  /\ UNCHANGED history

Idle == BoundReached /\ UNCHANGED <<registryVars, signer, history>>

ChainNext ==
  \/ \E who \in Users : RegistryMessage(who)
  \/ \E fee \in Fees : UpdateParams(fee)
  \/ DaoStep
  \/ \E gap \in BlockGaps : NextBlock(gap)
  \/ Restart
  \/ Idle

ChainSpec == ChainInit /\ [][ChainNext]_chainVars

-----------------------------------------------------------------------------
(* A domain is under a TLD of the genesis file, or under one that a vote   *)
(* put there, and then it was created after the block in which that vote   *)
(* was decided: no order of votes, tallies and CreateDomain messages lets  *)
(* a name in ahead of the decision on its TLD.  The TLD of a name is what  *)
(* the registry looks up, its white space trimmed.                         *)
DomainsFollowVotes ==
  restarts = 0 =>
    \A id \in DOMAIN Domain :
      LET t == AddedTLD(TldPart(Domain[id].Name))
      IN  \/ t \in GenesisTLDs(GenesisTldList)
          \/ \E p \in ExecutedTldProposals :
               /\ AddedTLD(Proposals[p].Content.tld) = t
               /\ born[id] > Proposals[p].VotingEndBlock + 1

(* The supply, over both modules: the fees that created domains, those of  *)
(* deleted ones included, are gone from it, besides what the proposals     *)
(* issued, and a creation that failed took nothing.  So each snapshot of   *)
(* the DAO is free of coins that a fee took.  This is the code's burning   *)
(* of fees, where whitepaper.md:88 has them distributed to validators.     *)
ChainSupplyAccounted ==
  restarts = 0 => bank.supply = InitialSupply + inflated + Issued - feesBurned

(* A restart loses the DAO's proposals and nothing of the registry: the    *)
(* records, the rebuilt index, the sequence, the fee and the TLDs that the *)
(* forgotten proposals had added are what they were.                       *)
RestartKeepsRegistry ==
  [][restarts' # restarts
       => UNCHANGED <<Domain, DomainName, DomainSeq, DomainCreationFee,
                      PermittedTLDs>>]_chainVars

(* For whoever holds a name the DAO, the blocks and the restarts of the    *)
(* chain do not exist: what happens to names, between all of these, is     *)
(* what NameRegistry allows.                                               *)
ChainKeepsNames == R!ImplementsNameRegistry
=============================================================================
