------------------------------- MODULE MCDao -------------------------------
(***************************************************************************)
(* Instances of Dao for TLC.                                               *)
(***************************************************************************)
EXTENDS Dao

CONSTANTS u1, u2

MCUsers == {u1, u2}
MCBases == {"web", "new", "com", "x", ""}

T(b, u) == [base |-> b, upper |-> u, dots |-> FALSE, pad |-> FALSE]

AddTld(b, u) == [type |-> "AddTld", tld |-> T(b, u), text |-> "t"]
Request(r, n, o) ==
  [type |-> "RequestTokens", recipient |-> r, amount |-> n, other |-> o,
   text |-> "t"]

(* Grants to a user, to an address the bank refuses, to the DAO itself, in *)
(* another denomination only, and of nothing.                              *)
GrantContents ==
  {Request(u1, 1, 0), Request(BlockedAddr, 1, 0), Request(DaoModule, 1, 0),
   Request(u1, 0, 1), Request(u1, 0, 0)}

MixedContents == {AddTld("new", FALSE), Request(u1, 2, 0)}

OneTld == {AddTld("new", FALSE)}

P(period, deposit, cost, yes, quorum, decay) ==
  [VotingPeriodBlocks |-> period, ProposalSubmissionDeposit |-> deposit,
   AddTldProposalCost |-> cost, MinYesThresholdPercent |-> yes,
   QuorumPercent |-> quorum, VotingPowerDecayDurationBlocks |-> decay]

MCParams == P(1, 1, 2, 5, 3, 2)
HighQuorum == P(1, 0, 0, 5, 6, 2)
NoDeposit == P(1, 0, 0, 5, 3, 2)
ShortDecay == P(1, 0, 0, 5, 3, 1)

MCGenesisTlds == {T("web", TRUE)}

MCBalance == [u \in MCUsers |-> 4]
SmallBalance == [u \in MCUsers |-> IF u = u1 THEN 2 ELSE 1]
=============================================================================
