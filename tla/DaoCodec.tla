------------------------------ MODULE DaoCodec ------------------------------
(***************************************************************************)
(* The messages of the DAO: the fields that the generated code of          *)
(* x/dao/types writes, counts and reads.  For every type there             *)
(* are three tables: X_Marshal, the tag bytes and fields of its Marshal,   *)
(* MarshalTo and MarshalToSizedBuffer in the order of the buffer; X_Size,  *)
(* the fields of its Size; X_Unmarshal, the cases of the switch of its     *)
(* Unmarshal.  ProtoWire says what the code does with a field.             *)
(***************************************************************************)
EXTENDS ProtoWire

(* Proposal, dao.pb.go                                                     *)
Proposal_Marshal ==
  <<<<\h08, Uint64("Id")>>, <<\h12, String("Proposer")>>,
    <<\h1a, String("Title")>>, <<\h22, String("Description")>>,
    <<\h2a, Pointer("Content", "Any")>>, <<\h30, Enum("Status")>>,
    <<\h38, Uint64("SubmitBlock")>>, <<\h40, Uint64("VotingStartBlock")>>,
    <<\h48, Uint64("VotingEndBlock")>>, <<\h52, Number("YesVotes")>>,
    <<\h5a, Number("NoVotes")>>, <<\h62, Number("AbstainVotes")>>,
    <<\h6a, Number("TotalVotingPowerAtSnapshot")>>>>
Proposal_Size ==
  <<Uint64("Id"), String("Proposer"), String("Title"), String("Description"),
    Pointer("Content", "Any"), Enum("Status"), Uint64("SubmitBlock"),
    Uint64("VotingStartBlock"), Uint64("VotingEndBlock"), Number("YesVotes"),
    Number("NoVotes"), Number("AbstainVotes"),
    Number("TotalVotingPowerAtSnapshot")>>
Proposal_Unmarshal ==
  1 :> Uint64("Id") @@ 2 :> String("Proposer") @@ 3 :> String("Title") @@
  4 :> String("Description") @@ 5 :> Pointer("Content", "Any") @@
  6 :> Enum("Status") @@ 7 :> Uint64("SubmitBlock") @@
  8 :> Uint64("VotingStartBlock") @@ 9 :> Uint64("VotingEndBlock") @@
  10 :> Number("YesVotes") @@ 11 :> Number("NoVotes") @@
  12 :> Number("AbstainVotes") @@ 13 :> Number("TotalVotingPowerAtSnapshot")

(* AddTldProposalContent, dao.pb.go                                        *)
AddTldProposalContent_Marshal ==
  <<<<\h0a, String("Tld")>>, <<\h12, String("Description")>>>>
AddTldProposalContent_Size == <<String("Tld"), String("Description")>>
AddTldProposalContent_Unmarshal ==
  1 :> String("Tld") @@ 2 :> String("Description")

(* RequestTokensProposalContent, dao.pb.go                                 *)
RequestTokensProposalContent_Marshal ==
  <<<<\h0a, String("RecipientAddress")>>,
    <<\h12, Structs("AmountRequested", "Coin")>>,
    <<\h1a, String("ActivityDescription")>>>>
RequestTokensProposalContent_Size ==
  <<String("RecipientAddress"), Structs("AmountRequested", "Coin"),
    String("ActivityDescription")>>
RequestTokensProposalContent_Unmarshal ==
  1 :> String("RecipientAddress") @@
  2 :> Structs("AmountRequested", "Coin") @@
  3 :> String("ActivityDescription")

(* Vote, dao.pb.go                                                         *)
Vote_Marshal ==
  <<<<\h08, Uint64("ProposalId")>>, <<\h12, String("Voter")>>,
    <<\h18, Enum("Option")>>, <<\h22, Number("VotingPower")>>>>
Vote_Size ==
  <<Uint64("ProposalId"), String("Voter"), Enum("Option"),
    Number("VotingPower")>>
Vote_Unmarshal ==
  1 :> Uint64("ProposalId") @@ 2 :> String("Voter") @@ 3 :> Enum("Option") @@
  4 :> Number("VotingPower")

(* VoterVotingPowerLot, dao.pb.go                                          *)
VoterVotingPowerLot_Marshal ==
  <<<<\h0a, String("VoterAddress")>>,
    <<\h10, Uint64("GrantedByProposalId")>>,
    <<\h1a, Number("InitialAmount")>>, <<\h20, Uint64("GrantBlockHeight")>>>>
VoterVotingPowerLot_Size ==
  <<String("VoterAddress"), Uint64("GrantedByProposalId"),
    Number("InitialAmount"), Uint64("GrantBlockHeight")>>
VoterVotingPowerLot_Unmarshal ==
  1 :> String("VoterAddress") @@ 2 :> Uint64("GrantedByProposalId") @@
  3 :> Number("InitialAmount") @@ 4 :> Uint64("GrantBlockHeight")

(* GenesisState, genesis.pb.go                                             *)
GenesisState_Marshal == <<<<\h0a, Struct("Params", "DaoParams")>>>>
GenesisState_Size == <<Struct("Params", "DaoParams")>>
GenesisState_Unmarshal == 1 :> Struct("Params", "DaoParams")

(* Module, module.pb.go                                                    *)
Module_Marshal == <<<<\h0a, String("Authority")>>>>
Module_Size == <<String("Authority")>>
Module_Unmarshal == 1 :> String("Authority")

(* DaoParams, params.pb.go                                                 *)
DaoParams_Marshal ==
  <<<<\h08, Uint64("VotingPeriodBlocks")>>,
    <<\h12, Structs("ProposalSubmissionDeposit", "Coin")>>,
    <<\h1a, Number("MinYesThresholdPercent")>>,
    <<\h22, String("VotingTokenDenom")>>,
    <<\h28, Uint64("VotingPowerDecayDurationBlocks")>>,
    <<\h32, Struct("ValidatorRewardVotingTokensAmount", "Coin")>>,
    <<\h3a, Structs("AddTldProposalCost", "Coin")>>,
    <<\h42, Number("QuorumPercent")>>>>
DaoParams_Size ==
  <<Uint64("VotingPeriodBlocks"),
    Structs("ProposalSubmissionDeposit", "Coin"),
    Number("MinYesThresholdPercent"), String("VotingTokenDenom"),
    Uint64("VotingPowerDecayDurationBlocks"),
    Struct("ValidatorRewardVotingTokensAmount", "Coin"),
    Structs("AddTldProposalCost", "Coin"), Number("QuorumPercent")>>
DaoParams_Unmarshal ==
  1 :> Uint64("VotingPeriodBlocks") @@
  2 :> Structs("ProposalSubmissionDeposit", "Coin") @@
  3 :> Number("MinYesThresholdPercent") @@ 4 :> String("VotingTokenDenom") @@
  5 :> Uint64("VotingPowerDecayDurationBlocks") @@
  6 :> Struct("ValidatorRewardVotingTokensAmount", "Coin") @@
  7 :> Structs("AddTldProposalCost", "Coin") @@ 8 :> Number("QuorumPercent")

(* QueryParamsRequest, query.pb.go                                         *)
QueryParamsRequest_Marshal == <<>>
QueryParamsRequest_Size == <<>>
QueryParamsRequest_Unmarshal == NoFields

(* QueryParamsResponse, query.pb.go                                        *)
QueryParamsResponse_Marshal == <<<<\h0a, Struct("Params", "DaoParams")>>>>
QueryParamsResponse_Size == <<Struct("Params", "DaoParams")>>
QueryParamsResponse_Unmarshal == 1 :> Struct("Params", "DaoParams")

(* QueryProposalRequest, query.pb.go                                       *)
QueryProposalRequest_Marshal == <<<<\h08, Uint64("ProposalId")>>>>
QueryProposalRequest_Size == <<Uint64("ProposalId")>>
QueryProposalRequest_Unmarshal == 1 :> Uint64("ProposalId")

(* QueryProposalResponse, query.pb.go                                      *)
QueryProposalResponse_Marshal == <<<<\h0a, Struct("Proposal", "Proposal")>>>>
QueryProposalResponse_Size == <<Struct("Proposal", "Proposal")>>
QueryProposalResponse_Unmarshal == 1 :> Struct("Proposal", "Proposal")

(* QueryProposalsRequest, query.pb.go                                      *)
QueryProposalsRequest_Marshal ==
  <<<<\h08, Enum("ProposalStatus")>>, <<\h12, String("Voter")>>,
    <<\h1a, String("Proposer")>>,
    <<\h22, Pointer("Pagination", "PageRequest")>>>>
QueryProposalsRequest_Size ==
  <<Enum("ProposalStatus"), String("Voter"), String("Proposer"),
    Pointer("Pagination", "PageRequest")>>
QueryProposalsRequest_Unmarshal ==
  1 :> Enum("ProposalStatus") @@ 2 :> String("Voter") @@
  3 :> String("Proposer") @@ 4 :> Pointer("Pagination", "PageRequest")

(* QueryProposalsResponse, query.pb.go                                     *)
QueryProposalsResponse_Marshal ==
  <<<<\h0a, Structs("Proposals", "Proposal")>>,
    <<\h12, Pointer("Pagination", "PageResponse")>>>>
QueryProposalsResponse_Size ==
  <<Structs("Proposals", "Proposal"), Pointer("Pagination", "PageResponse")>>
QueryProposalsResponse_Unmarshal ==
  1 :> Structs("Proposals", "Proposal") @@
  2 :> Pointer("Pagination", "PageResponse")

(* QueryVoteRequest, query.pb.go                                           *)
QueryVoteRequest_Marshal ==
  <<<<\h08, Uint64("ProposalId")>>, <<\h12, String("Voter")>>>>
QueryVoteRequest_Size == <<Uint64("ProposalId"), String("Voter")>>
QueryVoteRequest_Unmarshal ==
  1 :> Uint64("ProposalId") @@ 2 :> String("Voter")

(* QueryVoteResponse, query.pb.go                                          *)
QueryVoteResponse_Marshal == <<<<\h0a, Struct("Vote", "Vote")>>>>
QueryVoteResponse_Size == <<Struct("Vote", "Vote")>>
QueryVoteResponse_Unmarshal == 1 :> Struct("Vote", "Vote")

(* QueryVotesRequest, query.pb.go                                          *)
QueryVotesRequest_Marshal ==
  <<<<\h08, Uint64("ProposalId")>>,
    <<\h12, Pointer("Pagination", "PageRequest")>>>>
QueryVotesRequest_Size ==
  <<Uint64("ProposalId"), Pointer("Pagination", "PageRequest")>>
QueryVotesRequest_Unmarshal ==
  1 :> Uint64("ProposalId") @@ 2 :> Pointer("Pagination", "PageRequest")

(* QueryVotesResponse, query.pb.go                                         *)
QueryVotesResponse_Marshal ==
  <<<<\h0a, Structs("Votes", "Vote")>>,
    <<\h12, Pointer("Pagination", "PageResponse")>>>>
QueryVotesResponse_Size ==
  <<Structs("Votes", "Vote"), Pointer("Pagination", "PageResponse")>>
QueryVotesResponse_Unmarshal ==
  1 :> Structs("Votes", "Vote") @@ 2 :> Pointer("Pagination", "PageResponse")

(* TallyResult, query.pb.go                                                *)
TallyResult_Marshal ==
  <<<<\h0a, Number("YesCount")>>, <<\h12, Number("AbstainCount")>>,
    <<\h1a, Number("NoCount")>>>>
TallyResult_Size ==
  <<Number("YesCount"), Number("AbstainCount"), Number("NoCount")>>
TallyResult_Unmarshal ==
  1 :> Number("YesCount") @@ 2 :> Number("AbstainCount") @@
  3 :> Number("NoCount")

(* QueryTallyResultRequest, query.pb.go                                    *)
QueryTallyResultRequest_Marshal == <<<<\h08, Uint64("ProposalId")>>>>
QueryTallyResultRequest_Size == <<Uint64("ProposalId")>>
QueryTallyResultRequest_Unmarshal == 1 :> Uint64("ProposalId")

(* QueryTallyResultResponse, query.pb.go                                   *)
QueryTallyResultResponse_Marshal ==
  <<<<\h0a, Struct("Tally", "TallyResult")>>>>
QueryTallyResultResponse_Size == <<Struct("Tally", "TallyResult")>>
QueryTallyResultResponse_Unmarshal == 1 :> Struct("Tally", "TallyResult")

(* MsgSubmitProposal, tx.pb.go                                             *)
MsgSubmitProposal_Marshal ==
  <<<<\h0a, String("Proposer")>>, <<\h12, String("Title")>>,
    <<\h1a, String("Description")>>,
    <<\h22, Structs("InitialDeposit", "Coin")>>,
    <<\h2a, Pointer("Content", "Any")>>>>
MsgSubmitProposal_Size ==
  <<String("Proposer"), String("Title"), String("Description"),
    Structs("InitialDeposit", "Coin"), Pointer("Content", "Any")>>
MsgSubmitProposal_Unmarshal ==
  1 :> String("Proposer") @@ 2 :> String("Title") @@
  3 :> String("Description") @@ 4 :> Structs("InitialDeposit", "Coin") @@
  5 :> Pointer("Content", "Any")

(* MsgSubmitProposalResponse, tx.pb.go                                     *)
MsgSubmitProposalResponse_Marshal == <<<<\h08, Uint64("ProposalId")>>>>
MsgSubmitProposalResponse_Size == <<Uint64("ProposalId")>>
MsgSubmitProposalResponse_Unmarshal == 1 :> Uint64("ProposalId")

(* MsgVote, tx.pb.go                                                       *)
MsgVote_Marshal ==
  <<<<\h08, Uint64("ProposalId")>>, <<\h12, String("Voter")>>,
    <<\h18, Enum("Option")>>>>
MsgVote_Size == <<Uint64("ProposalId"), String("Voter"), Enum("Option")>>
MsgVote_Unmarshal ==
  1 :> Uint64("ProposalId") @@ 2 :> String("Voter") @@ 3 :> Enum("Option")

(* MsgVoteResponse, tx.pb.go                                               *)
MsgVoteResponse_Marshal == <<>>
MsgVoteResponse_Size == <<>>
MsgVoteResponse_Unmarshal == NoFields

-----------------------------------------------------------------------------
Encoders ==
  [Proposal |-> Proposal_Marshal,
   AddTldProposalContent |-> AddTldProposalContent_Marshal,
   RequestTokensProposalContent |-> RequestTokensProposalContent_Marshal,
   Vote |-> Vote_Marshal,
   VoterVotingPowerLot |-> VoterVotingPowerLot_Marshal,
   GenesisState |-> GenesisState_Marshal, Module |-> Module_Marshal,
   DaoParams |-> DaoParams_Marshal,
   QueryParamsRequest |-> QueryParamsRequest_Marshal,
   QueryParamsResponse |-> QueryParamsResponse_Marshal,
   QueryProposalRequest |-> QueryProposalRequest_Marshal,
   QueryProposalResponse |-> QueryProposalResponse_Marshal,
   QueryProposalsRequest |-> QueryProposalsRequest_Marshal,
   QueryProposalsResponse |-> QueryProposalsResponse_Marshal,
   QueryVoteRequest |-> QueryVoteRequest_Marshal,
   QueryVoteResponse |-> QueryVoteResponse_Marshal,
   QueryVotesRequest |-> QueryVotesRequest_Marshal,
   QueryVotesResponse |-> QueryVotesResponse_Marshal,
   TallyResult |-> TallyResult_Marshal,
   QueryTallyResultRequest |-> QueryTallyResultRequest_Marshal,
   QueryTallyResultResponse |-> QueryTallyResultResponse_Marshal,
   MsgSubmitProposal |-> MsgSubmitProposal_Marshal,
   MsgSubmitProposalResponse |-> MsgSubmitProposalResponse_Marshal,
   MsgVote |-> MsgVote_Marshal, MsgVoteResponse |-> MsgVoteResponse_Marshal]
  @@ SdkEncoders
Sizers ==
  [Proposal |-> Proposal_Size,
   AddTldProposalContent |-> AddTldProposalContent_Size,
   RequestTokensProposalContent |-> RequestTokensProposalContent_Size,
   Vote |-> Vote_Size, VoterVotingPowerLot |-> VoterVotingPowerLot_Size,
   GenesisState |-> GenesisState_Size, Module |-> Module_Size,
   DaoParams |-> DaoParams_Size,
   QueryParamsRequest |-> QueryParamsRequest_Size,
   QueryParamsResponse |-> QueryParamsResponse_Size,
   QueryProposalRequest |-> QueryProposalRequest_Size,
   QueryProposalResponse |-> QueryProposalResponse_Size,
   QueryProposalsRequest |-> QueryProposalsRequest_Size,
   QueryProposalsResponse |-> QueryProposalsResponse_Size,
   QueryVoteRequest |-> QueryVoteRequest_Size,
   QueryVoteResponse |-> QueryVoteResponse_Size,
   QueryVotesRequest |-> QueryVotesRequest_Size,
   QueryVotesResponse |-> QueryVotesResponse_Size,
   TallyResult |-> TallyResult_Size,
   QueryTallyResultRequest |-> QueryTallyResultRequest_Size,
   QueryTallyResultResponse |-> QueryTallyResultResponse_Size,
   MsgSubmitProposal |-> MsgSubmitProposal_Size,
   MsgSubmitProposalResponse |-> MsgSubmitProposalResponse_Size,
   MsgVote |-> MsgVote_Size, MsgVoteResponse |-> MsgVoteResponse_Size]
  @@ SdkSizers
Decoders ==
  [Proposal |-> Proposal_Unmarshal,
   AddTldProposalContent |-> AddTldProposalContent_Unmarshal,
   RequestTokensProposalContent |-> RequestTokensProposalContent_Unmarshal,
   Vote |-> Vote_Unmarshal,
   VoterVotingPowerLot |-> VoterVotingPowerLot_Unmarshal,
   GenesisState |-> GenesisState_Unmarshal, Module |-> Module_Unmarshal,
   DaoParams |-> DaoParams_Unmarshal,
   QueryParamsRequest |-> QueryParamsRequest_Unmarshal,
   QueryParamsResponse |-> QueryParamsResponse_Unmarshal,
   QueryProposalRequest |-> QueryProposalRequest_Unmarshal,
   QueryProposalResponse |-> QueryProposalResponse_Unmarshal,
   QueryProposalsRequest |-> QueryProposalsRequest_Unmarshal,
   QueryProposalsResponse |-> QueryProposalsResponse_Unmarshal,
   QueryVoteRequest |-> QueryVoteRequest_Unmarshal,
   QueryVoteResponse |-> QueryVoteResponse_Unmarshal,
   QueryVotesRequest |-> QueryVotesRequest_Unmarshal,
   QueryVotesResponse |-> QueryVotesResponse_Unmarshal,
   TallyResult |-> TallyResult_Unmarshal,
   QueryTallyResultRequest |-> QueryTallyResultRequest_Unmarshal,
   QueryTallyResultResponse |-> QueryTallyResultResponse_Unmarshal,
   MsgSubmitProposal |-> MsgSubmitProposal_Unmarshal,
   MsgSubmitProposalResponse |-> MsgSubmitProposalResponse_Unmarshal,
   MsgVote |-> MsgVote_Unmarshal,
   MsgVoteResponse |-> MsgVoteResponse_Unmarshal]
  @@ SdkDecoders
=============================================================================
