----------------------------- MODULE MCDnsChain -----------------------------
(***************************************************************************)
(* An instance of DnsChain for TLC.  u1 and u2 vote and register; the TLD  *)
(* "new" has two spellings to vote on, "com" is reserved, "web" permitted  *)
(* and "x" too short.                                                      *)
(***************************************************************************)
EXTENDS DnsChain

CONSTANTS u1, u2, l1

MCUsers == {u1, u2}
MCLabels == {l1}
MCBases == {"web", "new", "com", "x", ""}

T(b, u) == [base |-> b, upper |-> u, dots |-> FALSE, pad |-> FALSE]
N(b, u) == [form |-> "pair", label |-> l1, base |-> b, upper |-> u,
            dots |-> u, pad |-> u]

AddTld(b, u) == [type |-> "AddTld", tld |-> T(b, u), text |-> "t"]

MCContents ==
  {AddTld("new", FALSE), AddTld("new", TRUE), AddTld("com", TRUE),
   AddTld("web", FALSE), AddTld("x", FALSE),
   [type |-> "RequestTokens", recipient |-> u1, amount |-> 2, other |-> 0,
    text |-> "t"]}

MCNames == {N("new", TRUE), N("com", FALSE)}

MCGenesisTlds == {T("web", TRUE)}

MCGenesisStates ==
  {[DomainList |-> <<>>, DomainCount |-> 0, PermittedTlds |-> MCGenesisTlds,
    DomainCreationFee |-> 1]}

MCParams ==
  [VotingPeriodBlocks |-> 1, ProposalSubmissionDeposit |-> 1,
   AddTldProposalCost |-> 2, MinYesThresholdPercent |-> 5,
   QuorumPercent |-> 3, VotingPowerDecayDurationBlocks |-> 2]

(* States that differ only in who signed last have the same steps ahead.   *)
(* One difference remains, to ChainKeepsNames: a message that changes no   *)
(* holder is a stutter if its signer had signed the step before, and TLC   *)
(* looks at the step from one of the merged states only.  The proof of     *)
(* ChainNamesRefine needs no view.                                         *)
ChainView == <<vars, registryVars, history>>

MCBalance == [u \in MCUsers |-> 4]
=============================================================================
