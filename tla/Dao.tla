-------------------------------- MODULE Dao --------------------------------
(***************************************************************************)
(* The DAO, x/dao: proposals with deposits, votes weighted by bank balance *)
(* or by decaying lots, and the EndBlocker that tallies, executes and      *)
(* settles.  It writes to two other modules: the bank, and the permitted   *)
(* TLDs of the registry.                                                   *)
(*                                                                         *)
(* A block is a "deliver" phase, in which messages run one at a time and a *)
(* rejected one leaves no trace, and an "endblock" phase, in which         *)
(* EndBlocker handles the proposals whose voting period is over.  Each     *)
(* turn of its loop is a step; no message runs between two of them.  What  *)
(* an iteration wrote stays written when a later call in it fails: the     *)
(* SDK rolls back messages, not EndBlocker.                                *)
(***************************************************************************)
EXTENDS TldPolicy, VotingPower, Bank, Store, FiniteSets, FiniteSetsExt

CONSTANTS
  Users,          \* addresses that sign messages
  DaoModule,      \* the module account; the bank accepts transfers to it
  BlockedAddr,    \* an address that the bank refuses to send to
  OtherAccounts,  \* module accounts of other modules
  Contents,       \* contents that proposals may have
  Options,        \* vote options that messages may carry
  GenesisParams,  \* the parameters in the genesis file
  GenesisTldList, \* TLDs permitted at genesis
  InitialBalance, \* voting tokens of each user at genesis
  SendAmounts,    \* amounts that users transfer
  MaxHeight,      \* bound: last block
  MaxProposals,   \* bound: proposals submitted
  MaxSupply,      \* bound: voting tokens minted by x/mint
  MaxRestarts     \* bound: exports and re-imports of the chain

Accounts == Users \cup {DaoModule, BlockedAddr} \cup OtherAccounts

(* Proposal contents.  amount counts coins of the voting denomination,     *)
(* other coins of other denominations; text is the free text, which only   *)
(* the duplicate check looks at.                                           *)
AddTldContent == [type: {"AddTld"}, tld: TldString, text: STRING]
RequestTokensContent ==
  [type: {"RequestTokens"}, recipient: Accounts, amount: Nat, other: Nat,
   text: STRING]

ContentType == AddTldContent \cup RequestTokensContent

IsAddTld(c) == c.type = "AddTld"

(* The two ValidateBasic methods of proposal_content.go.                   *)
ValidContent(c) ==
  IF IsAddTld(c) THEN ValidTldContent(c.tld)
                 ELSE c.amount + c.other > 0 /\ c.text # ""

(***************************************************************************)
(* Parameters.  There is no message that changes them after genesis.       *)
(***************************************************************************)
ParamsType ==
  [VotingPeriodBlocks: 0 .. Word - 1, ProposalSubmissionDeposit: Nat,
   AddTldProposalCost: Nat, MinYesThresholdPercent: Int, QuorumPercent: Int,
   VotingPowerDecayDurationBlocks: 0 .. Word - 1]

DefaultParams ==
  [VotingPeriodBlocks |-> 500, ProposalSubmissionDeposit |-> 10000000,
   AddTldProposalCost |-> 5000000, MinYesThresholdPercent |-> Prec \div 2,
   QuorumPercent |-> (334 * Prec) \div 1000,
   VotingPowerDecayDurationBlocks |-> 100]

ValidParams(p) ==
  /\ p.VotingPeriodBlocks # 0
  /\ 0 <= p.MinYesThresholdPercent /\ p.MinYesThresholdPercent <= Prec
  /\ 0 <= p.QuorumPercent /\ p.QuorumPercent <= Prec

(* InitGenesis falls back to the defaults when the file's are not valid.   *)
Params == IF ValidParams(GenesisParams) THEN GenesisParams ELSE DefaultParams

Period == Params.VotingPeriodBlocks

(* What SubmitProposal collects and EndBlocker settles, by kind.           *)
DepositOf(c) == IF IsAddTld(c) THEN Params.AddTldProposalCost
                               ELSE Params.ProposalSubmissionDeposit

ASSUME DaoAssumption ==
  /\ IsFiniteSet(Users) /\ IsFiniteSet(OtherAccounts)
  /\ DaoModule \notin Users /\ BlockedAddr \notin Users
  /\ DaoModule # BlockedAddr
  /\ OtherAccounts \cap (Users \cup {DaoModule, BlockedAddr}) = {}
  /\ Contents \subseteq ContentType
  /\ GenesisParams \in ParamsType /\ DefaultParams \in ParamsType
  /\ GenesisTldList \subseteq TldString
  /\ InitialBalance \in [Users -> Nat]
  /\ SendAmounts \subseteq Nat
  /\ MaxHeight \in Nat \ {0} /\ MaxProposals \in Nat /\ MaxSupply \in Nat
  /\ MaxRestarts \in Nat
  /\ MaxHeight < Word \div 2 \* the block height is an int64

VARIABLES
  Proposals,      \* id -> proposal
  ProposalSeq,    \* the next id
  Votes,          \* <<id, voter>> -> [Option, VotingPower]
  VoterPowerLots, \* <<recipient, id>> -> [InitialAmount, GrantBlockHeight]
  PermittedTLDs,  \* the registry's permitted TLDs
  bank,           \* balances and supply of the voting token
  height,         \* the current block
  phase,          \* "deliver" or "endblock"
  toProcess,      \* ids in proposalsToProcess that are still to be handled
  loose,          \* history: coins of the DAO account that are no deposit
  inflated,       \* history: coins that x/mint created
  restarts        \* history: number of restarts

vars == <<Proposals, ProposalSeq, Votes, VoterPowerLots, PermittedTLDs, bank,
          height, phase, toProcess, loose, inflated, restarts>>

blockVars == <<height, phase, toProcess, restarts>>
coinVars == <<loose, inflated>>

InitialSupply == SumFunction(InitialBalance)

NoEntries == [x \in {} |-> x]

Init ==
  /\ Proposals = NoEntries
  /\ ProposalSeq = 0
  /\ Votes = NoEntries
  /\ VoterPowerLots = NoEntries
  /\ PermittedTLDs = GenesisTLDs(GenesisTldList)
  /\ bank = [bal |-> [a \in Accounts |->
                        IF a \in Users THEN InitialBalance[a] ELSE 0],
             supply |-> InitialSupply]
  /\ height = 1
  /\ phase = "deliver"
  /\ toProcess = {}
  /\ loose = 0
  /\ inflated = 0
  /\ restarts = 0

Voting(id) == Proposals[id].Status = "VOTING_PERIOD"

Active == {id \in DOMAIN Proposals : Voting(id)}

-----------------------------------------------------------------------------
(* MsgSubmitProposal.  An active proposal with the same bytes as content   *)
(* blocks a new one; two spellings of a TLD are different bytes.  The      *)
(* deposit is set by the parameters; the message's own InitialDeposit can  *)
(* only make the handler reject.  The snapshot is the whole supply.        *)
SubmitProposal(who, c) ==
  /\ phase = "deliver"
  /\ ProposalSeq < MaxProposals
  /\ height + Period < MaxHeight
  /\ ValidContent(c)
  /\ \A id \in Active : Proposals[id].Content # c
  /\ IsAddTld(c) => /\ ~IsReservedTLD(Normalize(c.tld))
                    /\ ~IsTLDPermitted(Normalize(c.tld), PermittedTLDs)
  /\ CanPay(bank, who, DepositOf(c))
  /\ bank' = SendCoins(bank, who, DaoModule, DepositOf(c))
  /\ Proposals' = Put(Proposals, ProposalSeq,
       [Proposer |-> who, Content |-> c, Status |-> "VOTING_PERIOD",
        SubmitBlock |-> height, VotingEndBlock |-> (height + Period) % Word,
        YesVotes |-> 0, NoVotes |-> 0, AbstainVotes |-> 0,
        TotalVotingPowerAtSnapshot |-> bank.supply])
  /\ ProposalSeq' = ProposalSeq + 1
  /\ UNCHANGED <<Votes, VoterPowerLots, PermittedTLDs, coinVars, blockVars>>

(* IsLotBasedVotingActive: some lot exists; lots are never removed.        *)
IsLotBasedVotingActive == DOMAIN VoterPowerLots # {}

LotPower(k, h) ==
  LET lot == VoterPowerLots[k]
  IN  DecayedPower(lot.InitialAmount, lot.GrantBlockHeight, h,
                   Params.VotingPowerDecayDurationBlocks)

LotsOf(who) == {k \in DOMAIN VoterPowerLots : k[1] = who}

(* Mutant: a voter without lots falls back to the balance.                 *)
PowerOrBalance(who, h) ==
  LET lots == LotsOf(who)
  IN  IF lots = {} THEN bank.bal[who]
      ELSE SumFunction([k \in lots |-> LotPower(k, h)])

(* CalculateVoterPower: the balance as long as there is no lot anywhere,   *)
(* the voter's own decayed lots from then on.                              *)
CalculateVoterPower(who, h) ==
  IF ~IsLotBasedVotingActive THEN bank.bal[who]
  ELSE SumFunction([k \in LotsOf(who) |-> LotPower(k, h)])

(* Mutant: a vote without power is accepted.                               *)
VoteWithoutPower(who, id, option) ==
  /\ phase = "deliver"
  /\ id \in DOMAIN Proposals
  /\ Voting(id)
  /\ height <= Proposals[id].VotingEndBlock
  /\ <<id, who>> \notin DOMAIN Votes
  /\ Votes' = Put(Votes, <<id, who>>,
       [Option |-> option, VotingPower |-> CalculateVoterPower(who, height)])
  /\ UNCHANGED <<Proposals, ProposalSeq, VoterPowerLots, PermittedTLDs, bank,
                 coinVars, blockVars>>

(* Mutant: a voter may vote again.                                         *)
VoteAgain(who, id, option) ==
  /\ phase = "deliver"
  /\ id \in DOMAIN Proposals
  /\ Voting(id)
  /\ height <= Proposals[id].VotingEndBlock
  /\ CalculateVoterPower(who, height) # 0
  /\ Votes' = Put(Votes, <<id, who>>,
       [Option |-> option, VotingPower |-> CalculateVoterPower(who, height)])
  /\ UNCHANGED <<Proposals, ProposalSeq, VoterPowerLots, PermittedTLDs, bank,
                 coinVars, blockVars>>

(* MsgVote.  The option is stored as it comes, whatever it is.             *)
Vote(who, id, option) ==
  /\ phase = "deliver"
  /\ id \in DOMAIN Proposals
  /\ Voting(id)
  /\ height <= Proposals[id].VotingEndBlock
  /\ <<id, who>> \notin DOMAIN Votes
  /\ CalculateVoterPower(who, height) # 0
  /\ Votes' = Put(Votes, <<id, who>>,
       [Option |-> option, VotingPower |-> CalculateVoterPower(who, height)])
  /\ UNCHANGED <<Proposals, ProposalSeq, VoterPowerLots, PermittedTLDs, bank,
                 coinVars, blockVars>>

-----------------------------------------------------------------------------
(* The rest of the chain: transfers between accounts (the bank accepts the *)
(* DAO's account as a recipient) and the inflation of x/mint, which        *)
(* reaches users as rewards.                                               *)
BankSend(who, to, amt) ==
  /\ phase = "deliver"
  /\ to # who /\ to # BlockedAddr
  /\ CanPay(bank, who, amt)
  /\ bank' = SendCoins(bank, who, to, amt)
  /\ loose' = IF to = DaoModule THEN loose + amt ELSE loose
  /\ UNCHANGED <<Proposals, ProposalSeq, Votes, VoterPowerLots,
                 PermittedTLDs, inflated, blockVars>>

Inflation(to) ==
  /\ phase = "deliver"
  /\ bank.supply < MaxSupply
  /\ bank' = MintCoins(bank, to, 1)
  /\ inflated' = inflated + 1
  /\ UNCHANGED <<Proposals, ProposalSeq, Votes, VoterPowerLots,
                 PermittedTLDs, loose, blockVars>>

-----------------------------------------------------------------------------
(* The tally of a proposal.  Any option but UNSPECIFIED counts as voted,   *)
(* the unknown ones included.                                              *)
VotesFor(id, options) ==
  {k \in DOMAIN Votes : k[1] = id /\ Votes[k].Option \in options}

PowerOf(id, options) ==
  SumFunction([k \in VotesFor(id, options) |-> Votes[k].VotingPower])

Yes(id) == PowerOf(id, {"YES"})
No(id) == PowerOf(id, {"NO"})
Abstain(id) == PowerOf(id, {"ABSTAIN"})
Voted(id) == PowerOf(id, Options \ {"UNSPECIFIED"})

HasQuorum(voted, snapshot) ==
  IF snapshot > 0 THEN DecRatio(voted, snapshot) >= Params.QuorumPercent
                  ELSE Params.QuorumPercent = 0

PassedVotingThreshold(yes, no, voted) ==
  /\ voted # 0
  /\ IF yes + no > 0
       THEN DecRatio(yes, yes + no) >= Params.MinYesThresholdPercent
       ELSE Params.MinYesThresholdPercent = 0

Passes(id) ==
  /\ HasQuorum(Voted(id), Proposals[id].TotalVotingPowerAtSnapshot)
  /\ PassedVotingThreshold(Yes(id), No(id), Voted(id))

(* Mutant: a failed proposal is refunded as well.                          *)
RefundFailed(b, p, status) ==
  LET d == DepositOf(p.Content)
  IN  IF status = "REJECTED" THEN BurnCoins(b, DaoModule, d)
      ELSE SendCoins(b, DaoModule, p.Proposer, d)

(* Mutant: the burn of a failed execution is followed by that of a failed  *)
(* proposal.                                                               *)
BurnFailedTwice(b, p, status) ==
  LET d == DepositOf(p.Content)
  IN  IF status = "EXECUTED" THEN SendCoins(b, DaoModule, p.Proposer, d)
      ELSE IF status = "FAILED" /\ CanPay(b, DaoModule, 2 * d)
             THEN BurnCoins(b, DaoModule, 2 * d)
      ELSE BurnCoins(b, DaoModule, d)

(* Mutant: the deposit goes to the recipient of the grant.                 *)
RefundRecipient(b, p, status) ==
  LET d == DepositOf(p.Content)
      to == IF IsAddTld(p.Content) THEN p.Proposer ELSE p.Content.recipient
  IN  IF status = "EXECUTED" THEN SendCoins(b, DaoModule, to, d)
      ELSE BurnCoins(b, DaoModule, d)

(* Mutant: every deposit is taken for a general one.                       *)
SettleGeneralDeposit(b, p, status) ==
  LET d == Params.ProposalSubmissionDeposit
  IN  IF status = "EXECUTED" THEN SendCoins(b, DaoModule, p.Proposer, d)
      ELSE BurnCoins(b, DaoModule, d)

(* Refund the deposit of an executed proposal, burn that of any other.  A  *)
(* call that the bank refuses is only logged.                              *)
SettleDeposit(b, p, status) ==
  LET d == DepositOf(p.Content)
  IN  IF ~CanPay(b, DaoModule, d) THEN b
      ELSE IF status = "EXECUTED" THEN SendCoins(b, DaoModule, p.Proposer, d)
      ELSE BurnCoins(b, DaoModule, d)

(* Mutant: the status is stored, the tally is not.                         *)
FinishWithoutTally(id, status, b) ==
  LET p == Proposals[id]
  IN  /\ bank' = SettleDeposit(b, p, status)
      /\ Proposals' = Put(Proposals, id, [p EXCEPT !.Status = status])

(* The end of an iteration: settle, store the status and the tally.        *)
Finish(id, status, b) ==
  LET p == Proposals[id]
  IN  /\ bank' = SettleDeposit(b, p, status)
      /\ Proposals' = Put(Proposals, id,
           [Proposer |-> p.Proposer, Content |-> p.Content, Status |-> status,
            SubmitBlock |-> p.SubmitBlock, VotingEndBlock |-> p.VotingEndBlock,
            YesVotes |-> Yes(id), NoVotes |-> No(id),
            AbstainVotes |-> Abstain(id),
            TotalVotingPowerAtSnapshot |-> p.TotalVotingPowerAtSnapshot])

(* No quorum, or not enough YES.                                           *)
Reject(id) ==
  /\ ~Passes(id)
  /\ Finish(id, "REJECTED", bank)
  /\ UNCHANGED <<VoterPowerLots, PermittedTLDs, loose>>

(* executeAddTldProposal: the registry has the last word.  It fails when   *)
(* another spelling of the TLD was permitted in the meantime.              *)
ExecuteAddTld(id) ==
  LET t == Proposals[id].Content.tld
  IN  /\ IsAddTld(Proposals[id].Content)
      /\ Passes(id)
      /\ IF CanAddPermittedTLD(t, PermittedTLDs)
           THEN /\ PermittedTLDs' = PermittedTLDs \cup {AddedTLD(t)}
                /\ Finish(id, "EXECUTED", bank)
           ELSE /\ Finish(id, "FAILED", bank)
                /\ UNCHANGED PermittedTLDs
      /\ UNCHANGED <<VoterPowerLots, loose>>

(* Mutant: the lot goes to the proposer.                                   *)
GrantLotToProposer(id, c) ==
  Put(VoterPowerLots, <<Proposals[id].Proposer, id>>,
      [InitialAmount |-> c.amount, GrantBlockHeight |-> height])

(* The lot of a grant: only coins of the voting denomination make one.     *)
GrantLot(id, c) ==
  IF c.amount = 0 THEN VoterPowerLots
  ELSE Put(VoterPowerLots, <<c.recipient, id>>,
           [InitialAmount |-> c.amount, GrantBlockHeight |-> height])

(* executeRequestTokensProposal: mint to the DAO account, send, and record *)
(* a lot for coins of the voting denomination.  When the bank refuses the  *)
(* recipient the minted coins are burned again.                            *)
ExecuteRequestTokens(id) ==
  LET c == Proposals[id].Content
      minted == MintCoins(bank, DaoModule, c.amount)
  IN  /\ ~IsAddTld(c)
      /\ Passes(id)
      /\ IF c.recipient = BlockedAddr
           THEN /\ Finish(id, "FAILED", BurnCoins(minted, DaoModule, c.amount))
                /\ UNCHANGED <<VoterPowerLots, loose>>
           ELSE /\ Finish(id, "EXECUTED",
                          SendCoins(minted, DaoModule, c.recipient, c.amount))
                /\ VoterPowerLots' = GrantLot(id, c)
                /\ loose' = IF c.recipient = DaoModule THEN loose + c.amount
                                                       ELSE loose
      /\ UNCHANGED PermittedTLDs

(* Mutant: a proposal is decided in its last voting block.                 *)
EndBlockStartEarly ==
  /\ phase = "deliver"
  /\ phase' = "endblock"
  /\ toProcess' = {id \in Active : height >= Proposals[id].VotingEndBlock}
  /\ UNCHANGED <<Proposals, ProposalSeq, Votes, VoterPowerLots, PermittedTLDs,
                 bank, height, coinVars, restarts>>

(* Mutant: proposals that nobody voted on are passed over.                 *)
EndBlockStartVotedOnly ==
  /\ phase = "deliver"
  /\ phase' = "endblock"
  /\ toProcess' = {id \in Active : height > Proposals[id].VotingEndBlock
                                   /\ \E k \in DOMAIN Votes : k[1] = id}
  /\ UNCHANGED <<Proposals, ProposalSeq, Votes, VoterPowerLots, PermittedTLDs,
                 bank, height, coinVars, restarts>>

(* EndBlocker collects the proposals whose voting period is over ...       *)
EndBlockStart ==
  /\ phase = "deliver"
  /\ phase' = "endblock"
  /\ toProcess' = {id \in Active : height > Proposals[id].VotingEndBlock}
  /\ UNCHANGED <<Proposals, ProposalSeq, Votes, VoterPowerLots, PermittedTLDs,
                 bank, height, coinVars, restarts>>

(* ... and handles them in the order of their ids.                         *)
ProcessProposal(id) ==
  /\ phase = "endblock"
  /\ id \in toProcess
  /\ \A j \in toProcess : id <= j
  /\ Reject(id) \/ ExecuteAddTld(id) \/ ExecuteRequestTokens(id)
  /\ toProcess' = toProcess \ {id}
  /\ UNCHANGED <<ProposalSeq, Votes, height, phase, inflated, restarts>>

(* The block is committed and the next one begins.                         *)
Commit ==
  /\ phase = "endblock" /\ toProcess = {}
  /\ height < MaxHeight
  /\ height' = height + 1
  /\ phase' = "deliver"
  /\ UNCHANGED <<Proposals, ProposalSeq, Votes, VoterPowerLots, PermittedTLDs,
                 bank, toProcess, coinVars, restarts>>

(* The committed state is exported and a new chain starts from the file at *)
(* the next height.  The DAO exports its parameters and nothing else ...   *)
DaoRestart ==
  /\ phase = "endblock" /\ toProcess = {}
  /\ height < MaxHeight /\ restarts < MaxRestarts
  /\ Proposals' = NoEntries
  /\ ProposalSeq' = 0
  /\ Votes' = NoEntries
  /\ VoterPowerLots' = NoEntries
  /\ loose' = bank.bal[DaoModule]
  /\ height' = height + 1
  /\ phase' = "deliver"
  /\ restarts' = restarts + 1
  /\ UNCHANGED <<bank, toProcess, inflated>>

(* ... while the bank and the registry keep what they had.                 *)
GenesisRestart == DaoRestart /\ UNCHANGED PermittedTLDs

(* The model, not the chain, stops at its last block.                      *)
BoundReached ==
  /\ phase = "endblock" /\ toProcess = {} /\ height = MaxHeight
  /\ UNCHANGED vars

Block ==
  \/ EndBlockStart
  \/ \E id \in toProcess : ProcessProposal(id)
  \/ Commit

Deliver ==
  \/ \E who \in Users, c \in Contents : SubmitProposal(who, c)
  \/ \E who \in Users, id \in DOMAIN Proposals, option \in Options :
       Vote(who, id, option)
  \/ \E who \in Users, to \in Accounts, amt \in SendAmounts :
       BankSend(who, to, amt)
  \/ \E to \in Users : Inflation(to)

Next == Deliver \/ Block \/ GenesisRestart \/ BoundReached

Spec == Init /\ [][Next]_vars

(* Consensus keeps producing blocks: a block ends, and its EndBlocker runs *)
(* to completion.  Nothing is assumed of users.                            *)
FairSpec == Spec /\ WF_vars(Block)

-----------------------------------------------------------------------------
Statuses == {"VOTING_PERIOD", "REJECTED", "EXECUTED", "FAILED"}

Finished(id) == ~Voting(id)

ProposalType ==
  [Proposer: Users, Content: Contents, Status: Statuses,
   SubmitBlock: Nat, VotingEndBlock: Nat, YesVotes: Nat, NoVotes: Nat,
   AbstainVotes: Nat, TotalVotingPowerAtSnapshot: Nat]

(* Types of the DAO's collections and of the model's own variables.        *)
TypeOK ==
  /\ DOMAIN Proposals = 0 .. ProposalSeq - 1
  /\ \A id \in DOMAIN Proposals : Proposals[id] \in ProposalType
  /\ ProposalSeq \in Nat
  /\ DOMAIN Votes \subseteq (DOMAIN Proposals) \X Users
  /\ \A k \in DOMAIN Votes :
       Votes[k] \in [Option: Options, VotingPower: Nat \ {0}]
  /\ DOMAIN VoterPowerLots \subseteq Accounts \X (DOMAIN Proposals)
  /\ \A k \in DOMAIN VoterPowerLots :
       VoterPowerLots[k] \in [InitialAmount: Nat \ {0}, GrantBlockHeight: Nat]
  /\ PermittedTLDs \subseteq TldString
  /\ bank \in BankType(Accounts)
  /\ height \in Nat
  /\ phase \in {"deliver", "endblock"}
  /\ toProcess \subseteq Active
  /\ loose \in Nat /\ inflated \in Nat
  /\ restarts \in Nat

ActiveOf(addTld) == {id \in Active : IsAddTld(Proposals[id].Content) = addTld}

(* The DAO account holds exactly the deposits of the proposals in voting   *)
(* and the coins that came in otherwise.  Every deposit is therefore       *)
(* settled once, whatever order proposals end in and however execution     *)
(* fails, and the refunds and burns of EndBlocker, whose errors are only   *)
(* logged, always find their coins.                                        *)
EscrowExact ==
  bank.bal[DaoModule] =
    loose + Params.AddTldProposalCost * Cardinality(ActiveOf(TRUE))
          + Params.ProposalSubmissionDeposit * Cardinality(ActiveOf(FALSE))

DepositsHeld ==
  [id \in Active |-> [by |-> Proposals[id].Proposer,
                      amt |-> DepositOf(Proposals[id].Content)]]

Worth ==
  [a \in Accounts |->
     LET own == {id \in Active : a \in {DaoModule, Proposals[id].Proposer}}
         sum == SumFunction([id \in own |-> DepositsHeld[id].amt])
     IN  IF a = DaoModule THEN bank.bal[a] - sum ELSE bank.bal[a] + sum]

AbstractEscrow == INSTANCE Escrow
                    WITH held <- DepositsHeld, worth <- Worth,
                         supply <- bank.supply, Pot <- DaoModule

(* Deposits are handled as Escrow says: each goes back to the proposer who *)
(* made it or is burned at that proposer's cost, whatever else happens in  *)
(* the same step, and coins move between other accounts only by transfers, *)
(* grants and fees.                                                        *)
ImplementsEscrow == AbstractEscrow!Spec

(* What proposals have added to the supply: the grants of the executed     *)
(* ones, less the deposits of the rejected and failed ones.                *)
IssuedBy(p) ==
  CASE p.Status \in {"REJECTED", "FAILED"} -> -DepositOf(p.Content)
    [] p.Status = "EXECUTED" -> (IF IsAddTld(p.Content) THEN 0
                                 ELSE p.Content.amount)
    [] OTHER -> 0

Issued == SumFunction([id \in DOMAIN Proposals |-> IssuedBy(Proposals[id])])

(* The supply, which quorums are measured against, is what was there at    *)
(* genesis, what x/mint added and what proposals issued: a grant that is   *)
(* refused leaves no coins behind, an executed proposal's deposit is not   *)
(* burned, and no other one's is returned.                                 *)
SupplyAccounted ==
  restarts = 0 => bank.supply = InitialSupply + inflated + Issued

(* A proposal is decided in the block after its last voting block, neither *)
(* earlier nor later, so nobody loses the last block to vote in.           *)
DecidedOnTime ==
  \A id \in DOMAIN Proposals :
    LET last == Proposals[id].SubmitBlock + Period
    IN  IF Finished(id) THEN height > last
        ELSE height <= last + 1
             /\ (phase = "endblock" /\ toProcess = {} => height <= last)

(* A decision stays the one its votes call for: the stored tally and the   *)
(* verdict agree for ever with the votes in the store, so no vote slips in *)
(* after the count and none is altered.                                    *)
TallyFinal ==
  \A id \in DOMAIN Proposals :
    Finished(id) =>
      /\ Proposals[id].YesVotes = Yes(id)
      /\ Proposals[id].NoVotes = No(id)
      /\ Proposals[id].AbstainVotes = Abstain(id)
      /\ Proposals[id].Status = "REJECTED" <=> ~Passes(id)

(* A vote keeps its option and its weight until the chain is restarted: a  *)
(* voter neither votes again nor is re-weighted when coins move.           *)
VotesImmutable ==
  [][restarts' = restarts =>
       \A k \in DOMAIN Votes : k \in DOMAIN Votes' /\ Votes'[k] = Votes[k]]_vars

(* Voting power comes from executed grants and from nothing else: every    *)
(* lot belongs to an executed RequestTokens proposal, with its recipient   *)
(* and amount, and every such proposal for voting tokens has its lot.      *)
LotsMatchGrants ==
  /\ \A k \in DOMAIN VoterPowerLots :
       LET p == Proposals[k[2]]
       IN  /\ p.Status = "EXECUTED" /\ ~IsAddTld(p.Content)
           /\ p.Content.recipient = k[1]
           /\ p.Content.amount = VoterPowerLots[k].InitialAmount
           /\ VoterPowerLots[k].GrantBlockHeight <= height
  /\ \A id \in DOMAIN Proposals :
       LET p == Proposals[id]
       IN  (p.Status = "EXECUTED" /\ ~IsAddTld(p.Content)
              /\ p.Content.amount > 0)
             => <<p.Content.recipient, id>> \in DOMAIN VoterPowerLots

ExecutedTldProposals ==
  {id \in DOMAIN Proposals :
     Proposals[id].Status = "EXECUTED" /\ IsAddTld(Proposals[id].Content)}

(* Each permitted TLD is there because the genesis file or one executed    *)
(* proposal put it there: two spellings of a TLD may be voted on at the    *)
(* same time, but only one of them is ever executed, and reserved TLDs     *)
(* never.  A restart forgets the proposals and keeps their TLDs.           *)
TldProvenance ==
  LET tld(id) == AddedTLD(Proposals[id].Content.tld)
      genesis == GenesisTLDs(GenesisTldList)
      added == {tld(id) : id \in ExecutedTldProposals}
  IN  /\ genesis \cup added \subseteq PermittedTLDs
      /\ restarts = 0 => PermittedTLDs = genesis \cup added
      /\ added \cap genesis = {}
      /\ \A t \in PermittedTLDs \ genesis : ~IsReservedTLD(t)
      /\ \A i, j \in ExecutedTldProposals : tld(i) = tld(j) => i = j

(* All voting power has decayed and no open proposal has a vote.           *)
Frozen ==
  /\ IsLotBasedVotingActive
  /\ Params.VotingPowerDecayDurationBlocks > 0
  /\ Params.QuorumPercent > 0
  /\ \A k \in DOMAIN VoterPowerLots :
       height - VoterPowerLots[k].GrantBlockHeight
         >= Params.VotingPowerDecayDurationBlocks
  /\ \A k \in DOMAIN Votes : k[1] \notin Active

(* Once the last lot has decayed, governance is over: CalculateVoterPower  *)
(* never returns to balances, nobody can vote, and every later proposal is *)
(* rejected for lack of quorum; only a restart, which drops the lots, ends *)
(* it.  Granting lots is thus a step that must be repeated in time.        *)
GovernanceFreeze ==
  [][Frozen /\ restarts' = restarts
       => Frozen' /\ UNCHANGED <<PermittedTLDs, VoterPowerLots>>]_vars

(* Every proposal that is submitted is decided, as long as blocks are      *)
(* produced, unless a restart forgets it first.                            *)
EveryProposalDecided ==
  \A id \in 0 .. MaxProposals - 1, r \in 0 .. MaxRestarts :
    (id \in DOMAIN Proposals /\ restarts = r)
      ~> ((id \in DOMAIN Proposals /\ Finished(id)) \/ restarts > r)

-----------------------------------------------------------------------------
(* What the documentation says and the code does not do.                   *)

(* proto dao.proto:58: the snapshot is the "Total voting power at the time *)
(* voting started, to calculate percentages against", so the power that    *)
(* voted is a part of it.  Balances are read when each vote is cast.       *)
VotedWithinSnapshot ==
  \A id \in DOMAIN Proposals :
    Voted(id) <= Proposals[id].TotalVotingPowerAtSnapshot

(* proto params.proto:24: quorum is power "that must participate (vote     *)
(* YES, NO, or ABSTAIN)".                                                  *)
QuorumOfKnownOptions ==
  \A id \in DOMAIN Proposals :
    LET p == Proposals[id]
    IN  p.Status \in {"EXECUTED", "FAILED"}
          => HasQuorum(p.YesVotes + p.NoVotes + p.AbstainVotes,
                       p.TotalVotingPowerAtSnapshot)

(* app/export.go:18: it "exports the state of the application": what the   *)
(* DAO was voting on is still there after the restart.                     *)
RestartKeepsProposals ==
  [][restarts' # restarts => Proposals' = Proposals]_vars
=============================================================================
