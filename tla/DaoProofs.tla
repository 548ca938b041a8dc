----------------------------- MODULE DaoProofs -----------------------------
(***************************************************************************)
(* Proofs about Dao, for every set of users, contents and options, every   *)
(* genesis and every bound.                                                *)
(***************************************************************************)
EXTENDS Dao, SumTheorems, TLAPS

-----------------------------------------------------------------------------
(* Put, the Set of the collections: what is there afterwards.              *)
LEMMA PutFacts ==
  ASSUME NEW f, NEW k, NEW v
  PROVE  /\ DOMAIN Put(f, k, v) = DOMAIN f \cup {k}
         /\ Put(f, k, v)[k] = v
         /\ \A x \in DOMAIN f : x # k => Put(f, k, v)[x] = f[x]
BY DEF Put

(* Conversions and divisions of VotingPower stay within the integers.      *)
LEMMA TruncDivInt ==
  ASSUME NEW a \in Int, NEW b \in Int, b # 0
  PROVE  TruncDiv(a, b) \in Int
BY DEF TruncDiv

LEMMA AsInt64NotZero ==
  ASSUME NEW x \in 1 .. Word - 1
  PROVE  AsInt64(x) \in Int /\ AsInt64(x) # 0
BY PowerAssumption DEF PowerAssumption, AsInt64

LEMMA AsInt64Int ==
  ASSUME NEW x \in Int
  PROVE  AsInt64(x) \in Int
BY PowerAssumption DEF PowerAssumption, AsInt64

(* A lot is worth a natural number of units.                               *)
LEMMA DecayedPowerNat ==
  ASSUME NEW amount \in Nat, NEW grant \in Nat, NEW h \in Nat,
         NEW decay \in 0 .. Word - 1
  PROVE  DecayedPower(amount, grant, h, decay) \in Nat
<1>1. CASE decay = 0 \/ amount = 0
  BY <1>1 DEF DecayedPower
<1>2. CASE decay # 0 /\ amount # 0
  <2> DEFINE passed == (h - grant) % Word
             q == TruncDiv(AsInt64(passed) * Prec, AsInt64(decay))
             r == RemainingRatio(passed, decay)
             p == TruncDiv(amount * r, Prec)
  <2>1. passed \in Int
    BY PowerAssumption DEF PowerAssumption
  <2>2. AsInt64(passed) \in Int
    BY <2>1, AsInt64Int
  <2>3. AsInt64(passed) * Prec \in Int
    BY <2>2, PowerAssumption DEF PowerAssumption
  <2>4. q \in Int
    BY <2>3, <1>2, AsInt64NotZero, TruncDivInt
  <2>5. r \in Int
    BY <2>4, PowerAssumption DEF PowerAssumption, RemainingRatio
  <2>6. p \in Int
    <3> HIDE DEF r
    <3>1. amount * r \in Int
      BY <2>5
    <3> QED BY <3>1, TruncDivInt, PowerAssumption DEF PowerAssumption
  <2>7. DecayedPower(amount, grant, h, decay)
          = IF passed >= decay \/ p <= 0 THEN 0 ELSE p
    BY <1>2 DEF DecayedPower
  <2> HIDE DEF p, passed
  <2> QED BY <2>6, <2>7
<1> QED BY <1>1, <1>2

(* The parameters in force, whether or not the genesis file's are valid.   *)
LEMMA ParamsFacts ==
  /\ Params \in ParamsType
  /\ Params.AddTldProposalCost \in Nat
  /\ Params.ProposalSubmissionDeposit \in Nat
  /\ Params.VotingPowerDecayDurationBlocks \in 0 .. Word - 1
  /\ Params.QuorumPercent \in Int
  /\ Period \in 0 .. Word - 1
<1>1. Params \in ParamsType
  BY DaoAssumption DEF DaoAssumption, Params
<1> QED BY <1>1 DEF ParamsType, Period

LEMMA DepositNat == ASSUME NEW c PROVE DepositOf(c) \in Nat
BY ParamsFacts DEF DepositOf

-----------------------------------------------------------------------------
(* The bank.  Balanced, the total supply invariant of x/bank: the supply   *)
(* is the sum of all balances.  It keeps the snapshot of a proposal from   *)
(* being negative.                                                         *)
Balanced(b) ==
  /\ b \in BankType(Accounts)
  /\ b.supply = SumFunctionOnSet(b.bal, Accounts)

LEMMA AccountsFacts ==
  /\ IsFiniteSet(Accounts)
  /\ Users \subseteq Accounts /\ DaoModule \in Accounts
  /\ DaoModule \notin Users
<1>1. IsFiniteSet({DaoModule, BlockedAddr})
  <2>1. IsFiniteSet({DaoModule})
    BY FS_Singleton
  <2>2. IsFiniteSet({DaoModule} \cup {BlockedAddr})
    BY <2>1, FS_AddElement
  <2>3. {DaoModule, BlockedAddr} = {DaoModule} \cup {BlockedAddr}
    OBVIOUS
  <2> QED BY <2>2, <2>3
<1>2. IsFiniteSet(Users \cup {DaoModule, BlockedAddr})
  BY <1>1, FS_Union, DaoAssumption DEF DaoAssumption
<1>3. IsFiniteSet(Accounts)
  BY <1>2, FS_Union, DaoAssumption DEF DaoAssumption, Accounts
<1> QED BY <1>3, DaoAssumption DEF DaoAssumption, Accounts

LEMMA CreditSum ==
  ASSUME NEW f \in [Accounts -> Int], NEW a \in Accounts, NEW n \in Int
  PROVE  /\ [f EXCEPT ![a] = @ + n] \in [Accounts -> Int]
         /\ SumFunctionOnSet([f EXCEPT ![a] = @ + n], Accounts)
              = SumFunctionOnSet(f, Accounts) + n
<1> DEFINE g == [f EXCEPT ![a] = @ + n]
<1>1. /\ g \in [Accounts -> Int] /\ g[a] - f[a] = n
      /\ \A y \in Accounts : f[y] \in Int /\ g[y] \in Int
      /\ \A y \in Accounts \ {a} : f[y] = g[y]
  OBVIOUS
<1> HIDE DEF g
<1>2. SumFunctionOnSet(g, Accounts)
        = SumFunctionOnSet(f, Accounts) + (g[a] - f[a])
  BY <1>1, AccountsFacts, SumChange
<1> QED BY <1>1, <1>2 DEF g

LEMMA SupplyNat ==
  ASSUME NEW b, Balanced(b)
  PROVE  b.supply \in Nat
<1>1. \A a \in Accounts : b.bal[a] \in Nat
  BY DEF Balanced, BankType
<1> QED BY <1>1, AccountsFacts, SumNat DEF Balanced

LEMMA MintBalanced ==
  ASSUME NEW b, Balanced(b), NEW a \in Accounts, NEW n \in Nat
  PROVE  /\ Balanced(MintCoins(b, a, n))
         /\ MintCoins(b, a, n).supply = b.supply + n
         /\ MintCoins(b, a, n).bal[a] = b.bal[a] + n
         /\ \A x \in Accounts \ {a} : MintCoins(b, a, n).bal[x] = b.bal[x]
<1> DEFINE m == MintCoins(b, a, n)
<1>1. b.bal \in [Accounts -> Nat] /\ b.bal \in [Accounts -> Int] /\ b.supply \in Int
  BY DEF Balanced, BankType
<1>2. m.bal = [b.bal EXCEPT ![a] = @ + n] /\ m.supply = b.supply + n
      /\ m = [bal |-> m.bal, supply |-> m.supply]
  BY DEF MintCoins
<1>3. SumFunctionOnSet(m.bal, Accounts) = b.supply + n
  BY <1>1, <1>2, CreditSum DEF Balanced
<1>4. m.bal \in [Accounts -> Nat]
  BY <1>1, <1>2
<1>5. m.bal[a] = b.bal[a] + n /\ \A x \in Accounts \ {a} : m.bal[x] = b.bal[x]
  BY <1>1, <1>2
<1>6. m \in BankType(Accounts)
  <2> HIDE DEF m
  <2> QED BY <1>1, <1>2, <1>4 DEF BankType
<1> HIDE DEF m
<1>7. Balanced(m)
  BY <1>2, <1>3, <1>6 DEF Balanced
<1> QED BY <1>2, <1>5, <1>7 DEF m

LEMMA BurnBalanced ==
  ASSUME NEW b, Balanced(b), NEW a \in Accounts, NEW n \in Nat,
         CanPay(b, a, n)
  PROVE  /\ Balanced(BurnCoins(b, a, n))
         /\ BurnCoins(b, a, n).supply = b.supply - n
         /\ BurnCoins(b, a, n).bal[a] = b.bal[a] - n
         /\ \A x \in Accounts \ {a} : BurnCoins(b, a, n).bal[x] = b.bal[x]
<1> DEFINE m == BurnCoins(b, a, n)
<1>1. b.bal \in [Accounts -> Nat] /\ b.bal \in [Accounts -> Int] /\ b.supply \in Int
  BY DEF Balanced, BankType
<1>2. m.bal = [b.bal EXCEPT ![a] = @ + (-n)] /\ m.supply = b.supply - n
      /\ m = [bal |-> m.bal, supply |-> m.supply]
  BY <1>1 DEF BurnCoins
<1>3. SumFunctionOnSet(m.bal, Accounts) = SumFunctionOnSet(b.bal, Accounts) + (-n)
  BY <1>1, <1>2, CreditSum
<1>4. m.bal \in [Accounts -> Nat]
  BY <1>1, <1>2 DEF CanPay
<1>5. m.bal[a] = b.bal[a] - n /\ \A x \in Accounts \ {a} : m.bal[x] = b.bal[x]
  BY <1>1, <1>2
<1>6. m \in BankType(Accounts)
  <2> HIDE DEF m
  <2> QED BY <1>1, <1>2, <1>4 DEF BankType
<1> HIDE DEF m
<1>7. Balanced(m)
  BY <1>1, <1>2, <1>3, <1>6 DEF Balanced
<1> QED BY <1>2, <1>5, <1>7 DEF m

LEMMA SendBalanced ==
  ASSUME NEW b, Balanced(b), NEW from \in Accounts, NEW to \in Accounts,
         NEW n \in Nat, CanPay(b, from, n)
  PROVE  /\ Balanced(SendCoins(b, from, to, n))
         /\ SendCoins(b, from, to, n).supply = b.supply
         /\ from = to => SendCoins(b, from, to, n).bal = b.bal
         /\ from # to => /\ SendCoins(b, from, to, n).bal[from] = b.bal[from] - n
                         /\ SendCoins(b, from, to, n).bal[to] = b.bal[to] + n
         /\ \A x \in Accounts \ {from, to} :
              SendCoins(b, from, to, n).bal[x] = b.bal[x]
<1> DEFINE m == SendCoins(b, from, to, n)
           d == [b.bal EXCEPT ![from] = @ + (-n)]
<1>1. /\ b.bal \in [Accounts -> Nat] /\ b.bal \in [Accounts -> Int]
      /\ b.supply \in Int /\ b = [bal |-> b.bal, supply |-> b.supply]
  BY DEF Balanced, BankType
<1>2. d \in [Accounts -> Int] /\ d \in [Accounts -> Nat]
  BY <1>1 DEF CanPay
<1>3. m.bal = [d EXCEPT ![to] = @ + n] /\ m.supply = b.supply
      /\ m = [bal |-> m.bal, supply |-> m.supply]
  BY <1>1 DEF SendCoins
<1>4. SumFunctionOnSet(d, Accounts) = SumFunctionOnSet(b.bal, Accounts) + (-n)
  BY <1>1, CreditSum
<1> HIDE DEF m
<1>5. SumFunctionOnSet(m.bal, Accounts) = SumFunctionOnSet(d, Accounts) + n
  <2> HIDE DEF d
  <2>1. SumFunctionOnSet([d EXCEPT ![to] = @ + n], Accounts)
          = SumFunctionOnSet(d, Accounts) + n
    <3>1. d \in [Accounts -> Int] /\ n \in Int
      BY <1>2
    <3> QED BY <3>1, CreditSum, Zenon
  <2> QED BY <1>3, <2>1
<1>6. m.bal \in [Accounts -> Nat]
  BY <1>1, <1>2, <1>3
<1>7. m \in BankType(Accounts)
  BY <1>1, <1>3, <1>6 DEF BankType
<1>8. SumFunctionOnSet(b.bal, Accounts) \in Int
  BY <1>1 DEF Balanced
<1>9. Balanced(m)
  <2> HIDE DEF d
  <2> QED BY <1>1, <1>3, <1>4, <1>5, <1>7, <1>8 DEF Balanced
<1>10. \A x \in Accounts \ {from, to} : m.bal[x] = b.bal[x]
  BY <1>1, <1>3
<1>11. from = to => m.bal = b.bal
  BY <1>1, <1>3
<1>12. from # to => m.bal[from] = b.bal[from] - n /\ m.bal[to] = b.bal[to] + n
  BY <1>1, <1>3
<1> QED BY <1>3, <1>9, <1>10, <1>11, <1>12 DEF m

(* A deposit is paid out of the DAO account, as a refund or into nothing.  *)
LEMMA SettleBalanced ==
  ASSUME NEW b, Balanced(b), NEW p, p.Proposer \in Users, NEW status
  PROVE  /\ Balanced(SettleDeposit(b, p, status))
         /\ CanPay(b, DaoModule, DepositOf(p.Content)) =>
              /\ SettleDeposit(b, p, status).bal[DaoModule]
                   = b.bal[DaoModule] - DepositOf(p.Content)
              /\ SettleDeposit(b, p, status).supply
                   = IF status = "EXECUTED" THEN b.supply
                     ELSE b.supply - DepositOf(p.Content)
<1> DEFINE d == DepositOf(p.Content)
<1>1. d \in Nat
  BY DepositNat
<1>2. /\ DaoModule \in Accounts /\ p.Proposer \in Accounts
      /\ DaoModule # p.Proposer
  BY AccountsFacts
<1> HIDE DEF d
<1>3. ~CanPay(b, DaoModule, d) => SettleDeposit(b, p, status) = b
  BY DEF SettleDeposit, d
<1>4. CASE CanPay(b, DaoModule, d) /\ status = "EXECUTED"
  <2>1. SettleDeposit(b, p, status) = SendCoins(b, DaoModule, p.Proposer, d)
    BY <1>4 DEF SettleDeposit, d
  <2>2. /\ Balanced(SendCoins(b, DaoModule, p.Proposer, d))
        /\ SendCoins(b, DaoModule, p.Proposer, d).supply = b.supply
        /\ SendCoins(b, DaoModule, p.Proposer, d).bal[DaoModule]
             = b.bal[DaoModule] - d
    BY <1>1, <1>2, <1>4, SendBalanced
  <2> QED BY <2>1, <2>2, <1>4 DEF d
<1>5. CASE CanPay(b, DaoModule, d) /\ status # "EXECUTED"
  <2>1. SettleDeposit(b, p, status) = BurnCoins(b, DaoModule, d)
    BY <1>5 DEF SettleDeposit, d
  <2>2. /\ Balanced(BurnCoins(b, DaoModule, d))
        /\ BurnCoins(b, DaoModule, d).supply = b.supply - d
        /\ BurnCoins(b, DaoModule, d).bal[DaoModule] = b.bal[DaoModule] - d
    BY <1>1, <1>2, <1>5, BurnBalanced
  <2> QED BY <2>1, <2>2, <1>5 DEF d
<1> QED BY <1>3, <1>4, <1>5 DEF d

-----------------------------------------------------------------------------
(***************************************************************************)
(* The inductive invariant behind the types.  A snapshot is a natural      *)
(* number because the bank is balanced, a tally because only finitely many *)
(* votes are in the store.                                                 *)
(***************************************************************************)
TypeInv ==
  /\ TypeOK
  /\ Balanced(bank)
  /\ height <= MaxHeight
  /\ IsFiniteSet(DOMAIN Votes)
  /\ IsFiniteSet(DOMAIN VoterPowerLots)

(* The power of any part of the votes is a natural number.                 *)
LEMMA PowerOfNat ==
  ASSUME TypeInv, NEW id, NEW options
  PROVE  PowerOf(id, options) \in Nat
<1> DEFINE S == VotesFor(id, options)
           f == [k \in S |-> Votes[k].VotingPower]
<1>1. IsFiniteSet(S)
  BY FS_Subset DEF TypeInv, VotesFor
<1>2. \A k \in S : f[k] \in Nat
  BY DEF TypeInv, TypeOK, VotesFor
<1>3. PowerOf(id, options) = SumFunctionOnSet(f, S)
  BY DEF PowerOf, SumFunction
<1> HIDE DEF f, S
<1> QED BY <1>1, <1>2, <1>3, SumNat

(* So is the power a voter has.                                            *)
LEMMA VoterPowerNat ==
  ASSUME TypeInv, NEW who \in Users
  PROVE  CalculateVoterPower(who, height) \in Nat
<1>1. CASE ~IsLotBasedVotingActive
  <2>1. who \in Accounts
    BY AccountsFacts
  <2> QED BY <1>1, <2>1 DEF CalculateVoterPower, TypeInv, TypeOK, BankType
<1>2. CASE IsLotBasedVotingActive
  <2> DEFINE S == LotsOf(who)
             f == [k \in S |-> LotPower(k, height)]
  <2>1. IsFiniteSet(S)
    BY FS_Subset DEF TypeInv, LotsOf
  <2>2. ASSUME NEW k \in S PROVE f[k] \in Nat
    <3>1. VoterPowerLots[k].InitialAmount \in Nat
          /\ VoterPowerLots[k].GrantBlockHeight \in Nat /\ height \in Nat
      BY <2>2 DEF TypeInv, TypeOK, LotsOf
    <3>2. LotPower(k, height) \in Nat
      BY <3>1, DecayedPowerNat, ParamsFacts DEF LotPower
    <3> QED BY <2>2, <3>2
  <2>3. CalculateVoterPower(who, height) = SumFunctionOnSet(f, S)
    BY <1>2 DEF CalculateVoterPower, SumFunction
  <2> HIDE DEF f, S
  <2> QED BY <2>1, <2>2, <2>3, SumNat
<1> QED BY <1>1, <1>2

-----------------------------------------------------------------------------
(* What the two kinds of content hold.                                     *)
LEMMA ContentFacts ==
  ASSUME NEW c \in Contents
  PROVE  /\ IsAddTld(c) => c.tld \in TldString
         /\ ~IsAddTld(c) => c.recipient \in Accounts /\ c.amount \in Nat
<1>1. c \in AddTldContent \/ c \in RequestTokensContent
  BY DaoAssumption DEF DaoAssumption, ContentType
<1>2. c \in AddTldContent => IsAddTld(c) /\ c.tld \in TldString
  BY DEF AddTldContent, IsAddTld
<1>3. c \in RequestTokensContent =>
        ~IsAddTld(c) /\ c.recipient \in Accounts /\ c.amount \in Nat
  BY DEF RequestTokensContent, IsAddTld
<1> QED BY <1>1, <1>2, <1>3

(* The proposals after one of them is decided: that one has its status and *)
(* its tally, and nothing else has changed.                                *)
Decided(id, status) ==
  LET p == Proposals[id]
  IN  /\ DOMAIN Proposals' = DOMAIN Proposals
      /\ \A j \in DOMAIN Proposals : j # id => Proposals'[j] = Proposals[j]
      /\ Proposals'[id] =
           [Proposer |-> p.Proposer, Content |-> p.Content, Status |-> status,
            SubmitBlock |-> p.SubmitBlock, VotingEndBlock |-> p.VotingEndBlock,
            YesVotes |-> Yes(id), NoVotes |-> No(id),
            AbstainVotes |-> Abstain(id),
            TotalVotingPowerAtSnapshot |-> p.TotalVotingPowerAtSnapshot]

LEMMA FinishFacts ==
  ASSUME TypeInv, NEW id \in DOMAIN Proposals, NEW b, Balanced(b),
         NEW status \in Statuses, Finish(id, status, b)
  PROVE  /\ Decided(id, status)
         /\ Proposals'[id] \in ProposalType
         /\ Balanced(bank')
         /\ bank' = SettleDeposit(b, Proposals[id], status)
<1> DEFINE p == Proposals[id]
<1>1. p \in ProposalType
  BY DEF TypeInv, TypeOK
<1>2. Yes(id) \in Nat /\ No(id) \in Nat /\ Abstain(id) \in Nat
  BY PowerOfNat DEF Yes, No, Abstain
<1>3. Decided(id, status)
  <2> DEFINE r ==
         [Proposer |-> p.Proposer, Content |-> p.Content, Status |-> status,
          SubmitBlock |-> p.SubmitBlock, VotingEndBlock |-> p.VotingEndBlock,
          YesVotes |-> Yes(id), NoVotes |-> No(id),
          AbstainVotes |-> Abstain(id),
          TotalVotingPowerAtSnapshot |-> p.TotalVotingPowerAtSnapshot]
  <2>1. Proposals' = Put(Proposals, id, r)
    BY DEF Finish
  <2> HIDE DEF r
  <2>2. /\ DOMAIN Proposals' = DOMAIN Proposals
        /\ \A j \in DOMAIN Proposals : j # id => Proposals'[j] = Proposals[j]
        /\ Proposals'[id] = r
    BY <2>1 DEF Put
  <2> QED BY <2>2 DEF Decided, r
<1>4. Proposals'[id] \in ProposalType
  BY <1>1, <1>2, <1>3 DEF Decided, ProposalType
<1>5. bank' = SettleDeposit(b, p, status)
  BY DEF Finish
<1>6. p.Proposer \in Users
  BY <1>1 DEF ProposalType
<1>7. Balanced(bank')
  BY <1>5, <1>6, SettleBalanced
<1> QED BY <1>3, <1>4, <1>5, <1>7

(* The bank when a grant is refused and when it is paid, before the        *)
(* deposit is settled.                                                     *)
LEMMA GrantBank ==
  ASSUME TypeInv, NEW n \in Nat, NEW to \in Accounts
  PROVE  LET minted == MintCoins(bank, DaoModule, n)
             refused == BurnCoins(minted, DaoModule, n)
             paid == SendCoins(minted, DaoModule, to, n)
         IN  /\ Balanced(refused) /\ Balanced(paid)
             /\ refused.supply = bank.supply
             /\ refused.bal[DaoModule] = bank.bal[DaoModule]
             /\ paid.supply = bank.supply + n
             /\ paid.bal[DaoModule] =
                  bank.bal[DaoModule] + IF to = DaoModule THEN n ELSE 0
<1> DEFINE minted == MintCoins(bank, DaoModule, n)
           refused == BurnCoins(minted, DaoModule, n)
           paid == SendCoins(minted, DaoModule, to, n)
<1>1. Balanced(bank) /\ DaoModule \in Accounts /\ bank.bal[DaoModule] \in Nat
      /\ bank.supply \in Int
  BY AccountsFacts DEF TypeInv, Balanced, BankType
<1>2. /\ Balanced(minted) /\ minted.supply = bank.supply + n
      /\ minted.bal[DaoModule] = bank.bal[DaoModule] + n
  BY <1>1, MintBalanced
<1> HIDE DEF minted
<1>3. CanPay(minted, DaoModule, n)
  BY <1>1, <1>2 DEF CanPay
<1>4. /\ Balanced(refused) /\ refused.supply = minted.supply - n
      /\ refused.bal[DaoModule] = minted.bal[DaoModule] - n
  BY <1>1, <1>2, <1>3, BurnBalanced
<1>5. /\ Balanced(paid) /\ paid.supply = minted.supply
      /\ to = DaoModule => paid.bal = minted.bal
      /\ to # DaoModule => paid.bal[DaoModule] = minted.bal[DaoModule] - n
  BY <1>1, <1>2, <1>3, SendBalanced
<1> HIDE DEF refused, paid
<1>6. /\ refused.supply = bank.supply
      /\ refused.bal[DaoModule] = bank.bal[DaoModule]
      /\ paid.supply = bank.supply + n
  BY <1>1, <1>2, <1>4, <1>5
<1>7. paid.bal[DaoModule] = bank.bal[DaoModule] + IF to = DaoModule THEN n ELSE 0
  BY <1>1, <1>2, <1>5
<1> QED BY <1>4, <1>5, <1>6, <1>7 DEF minted, refused, paid

-----------------------------------------------------------------------------
(* The five ways in which an iteration of EndBlocker ends.                 *)
Rejects(id) ==
  /\ ~Passes(id)
  /\ Decided(id, "REJECTED")
  /\ bank' = SettleDeposit(bank, Proposals[id], "REJECTED")
  /\ UNCHANGED <<VoterPowerLots, PermittedTLDs, loose>>

AddsTld(id) ==
  LET t == Proposals[id].Content.tld
  IN  /\ Passes(id) /\ IsAddTld(Proposals[id].Content)
      /\ CanAddPermittedTLD(t, PermittedTLDs)
      /\ Decided(id, "EXECUTED")
      /\ bank' = SettleDeposit(bank, Proposals[id], "EXECUTED")
      /\ PermittedTLDs' = PermittedTLDs \cup {AddedTLD(t)}
      /\ UNCHANGED <<VoterPowerLots, loose>>

RefusesTld(id) ==
  /\ Passes(id) /\ IsAddTld(Proposals[id].Content)
  /\ Decided(id, "FAILED")
  /\ bank' = SettleDeposit(bank, Proposals[id], "FAILED")
  /\ UNCHANGED <<VoterPowerLots, PermittedTLDs, loose>>

RefusesGrant(id) ==
  LET n == Proposals[id].Content.amount
  IN  /\ Passes(id) /\ ~IsAddTld(Proposals[id].Content)
      /\ Decided(id, "FAILED")
      /\ bank' = SettleDeposit(BurnCoins(MintCoins(bank, DaoModule, n),
                                         DaoModule, n),
                               Proposals[id], "FAILED")
      /\ UNCHANGED <<VoterPowerLots, PermittedTLDs, loose>>

PaysGrant(id) ==
  LET c == Proposals[id].Content
  IN  /\ Passes(id) /\ ~IsAddTld(c)
      /\ Decided(id, "EXECUTED")
      /\ bank' = SettleDeposit(SendCoins(MintCoins(bank, DaoModule, c.amount),
                                         DaoModule, c.recipient, c.amount),
                               Proposals[id], "EXECUTED")
      /\ VoterPowerLots' = GrantLot(id, c)
      /\ loose' = IF c.recipient = DaoModule THEN loose + c.amount ELSE loose
      /\ UNCHANGED PermittedTLDs

LEMMA ProcessCases ==
  ASSUME TypeInv, NEW id, ProcessProposal(id)
  PROVE  /\ id \in DOMAIN Proposals /\ Voting(id)
         /\ Proposals[id] \in ProposalType
         /\ Proposals'[id] \in ProposalType
         /\ Balanced(bank')
         /\ \/ Rejects(id) \/ AddsTld(id) \/ RefusesTld(id)
            \/ RefusesGrant(id) \/ PaysGrant(id)
<1> DEFINE p == Proposals[id]
           c == p.Content
<1>1. id \in DOMAIN Proposals /\ Voting(id)
  BY DEF ProcessProposal, TypeInv, TypeOK, Active
<1>2. p \in ProposalType /\ c \in Contents
  BY <1>1 DEF TypeInv, TypeOK, ProposalType
<1>3. Balanced(bank)
  BY DEF TypeInv
<1>4. {"REJECTED", "EXECUTED", "FAILED"} \subseteq Statuses
  BY DEF Statuses
<1>5. CASE Reject(id)
  <2>1. Finish(id, "REJECTED", bank)
    BY <1>5 DEF Reject
  <2>2. /\ Decided(id, "REJECTED") /\ Proposals'[id] \in ProposalType
        /\ Balanced(bank') /\ bank' = SettleDeposit(bank, p, "REJECTED")
    BY <1>1, <1>3, <1>4, <2>1, FinishFacts
  <2>3. Rejects(id)
    BY <1>5, <2>2 DEF Reject, Rejects
  <2> QED BY <1>1, <1>2, <2>2, <2>3
<1>6. CASE ExecuteAddTld(id)
  <2>1. CASE CanAddPermittedTLD(c.tld, PermittedTLDs)
    <3>1. Finish(id, "EXECUTED", bank)
      BY <1>6, <2>1 DEF ExecuteAddTld
    <3>2. /\ Decided(id, "EXECUTED") /\ Proposals'[id] \in ProposalType
          /\ Balanced(bank') /\ bank' = SettleDeposit(bank, p, "EXECUTED")
      BY <1>1, <1>3, <1>4, <3>1, FinishFacts
    <3>3. AddsTld(id)
      BY <1>6, <2>1, <3>2 DEF ExecuteAddTld, AddsTld
    <3> QED BY <1>1, <1>2, <3>2, <3>3
  <2>2. CASE ~CanAddPermittedTLD(c.tld, PermittedTLDs)
    <3>1. Finish(id, "FAILED", bank)
      BY <1>6, <2>2 DEF ExecuteAddTld
    <3>2. /\ Decided(id, "FAILED") /\ Proposals'[id] \in ProposalType
          /\ Balanced(bank') /\ bank' = SettleDeposit(bank, p, "FAILED")
      BY <1>1, <1>3, <1>4, <3>1, FinishFacts
    <3>3. RefusesTld(id)
      BY <1>6, <2>2, <3>2 DEF ExecuteAddTld, RefusesTld
    <3> QED BY <1>1, <1>2, <3>2, <3>3
  <2> QED BY <2>1, <2>2
<1>7. CASE ExecuteRequestTokens(id)
  <2> DEFINE minted == MintCoins(bank, DaoModule, c.amount)
             refused == BurnCoins(minted, DaoModule, c.amount)
             paid == SendCoins(minted, DaoModule, c.recipient, c.amount)
  <2>1. ~IsAddTld(c) /\ c.recipient \in Accounts /\ c.amount \in Nat
    BY <1>2, <1>7, ContentFacts DEF ExecuteRequestTokens
  <2>2. Balanced(refused) /\ Balanced(paid)
    BY <2>1, GrantBank
  <2>3. CASE c.recipient = BlockedAddr
    <3>1. Finish(id, "FAILED", refused)
      BY <1>7, <2>3 DEF ExecuteRequestTokens
    <3>2. /\ Decided(id, "FAILED") /\ Proposals'[id] \in ProposalType
          /\ Balanced(bank') /\ bank' = SettleDeposit(refused, p, "FAILED")
      <4> HIDE DEF refused
      <4> QED BY <1>1, <2>2, <1>4, <3>1, FinishFacts
    <3>3. RefusesGrant(id)
      BY <1>7, <2>3, <3>2 DEF ExecuteRequestTokens, RefusesGrant
    <3> QED BY <1>1, <1>2, <3>2, <3>3
  <2>4. CASE c.recipient # BlockedAddr
    <3>1. Finish(id, "EXECUTED", paid)
      BY <1>7, <2>4 DEF ExecuteRequestTokens
    <3>2. /\ Decided(id, "EXECUTED") /\ Proposals'[id] \in ProposalType
          /\ Balanced(bank') /\ bank' = SettleDeposit(paid, p, "EXECUTED")
      <4> HIDE DEF paid
      <4> QED BY <1>1, <2>2, <1>4, <3>1, FinishFacts
    <3>3. PaysGrant(id)
      BY <1>7, <2>4, <3>2 DEF ExecuteRequestTokens, PaysGrant
    <3> QED BY <1>1, <1>2, <3>2, <3>3
  <2> QED BY <2>3, <2>4
<1> QED BY <1>5, <1>6, <1>7 DEF ProcessProposal

-----------------------------------------------------------------------------
LEMMA InitTypeInv == Init => TypeInv
<1> SUFFICES ASSUME Init PROVE TypeInv
  OBVIOUS
<1>1. /\ Proposals = NoEntries /\ ProposalSeq = 0 /\ Votes = NoEntries
      /\ VoterPowerLots = NoEntries /\ height = 1 /\ phase = "deliver"
      /\ toProcess = {} /\ loose = 0 /\ inflated = 0 /\ restarts = 0
      /\ PermittedTLDs = GenesisTLDs(GenesisTldList)
  BY DEF Init
<1>2. DOMAIN NoEntries = {}
  BY DEF NoEntries
<1>3. IsFiniteSet(DOMAIN Votes) /\ IsFiniteSet(DOMAIN VoterPowerLots)
  BY <1>1, <1>2, FS_EmptySet
<1>4. PermittedTLDs \subseteq TldString
  BY <1>1, DaoAssumption, ZenonT(60) DEF DaoAssumption, GenesisTLDs, Normalize, ToLower,
     TrimDots, TldString
<1> DEFINE bal == [a \in Accounts |-> IF a \in Users THEN InitialBalance[a] ELSE 0]
<1>5. bank = [bal |-> bal, supply |-> InitialSupply]
  BY DEF Init
<1>6. /\ bal \in [Accounts -> Nat] /\ InitialBalance \in [Users -> Nat]
      /\ IsFiniteSet(Users) /\ Users \subseteq Accounts
  BY AccountsFacts, DaoAssumption DEF DaoAssumption
<1>7. SumFunctionOnSet(bal, Accounts) = SumFunctionOnSet(bal, Users)
  <2> HIDE DEF bal
  <2>1. \A a \in Accounts : bal[a] \in Int /\ (a \notin Users => bal[a] = 0)
    BY <1>6 DEF bal
  <2> QED BY <1>6, <2>1, AccountsFacts, SumSupport
<1>8. SumFunctionOnSet(bal, Users) = InitialSupply
  <2>1. \A a \in Users : bal[a] = InitialBalance[a]
    BY <1>6
  <2> HIDE DEF bal
  <2>2. SumFunctionOnSet(bal, Users) = SumFunctionOnSet(InitialBalance, Users)
    BY <1>6, <2>1, SumSame
  <2> QED BY <1>6, <2>2 DEF InitialSupply, SumFunction
<1> HIDE DEF bal
<1>9. InitialSupply \in Nat
  BY <1>6, <1>7, <1>8, AccountsFacts, SumNat
<1>10. Balanced(bank)
  BY <1>5, <1>6, <1>7, <1>8, <1>9 DEF Balanced, BankType
<1>11. height <= MaxHeight
  BY <1>1, DaoAssumption DEF DaoAssumption
<1>12. TypeOK
  BY <1>1, <1>2, <1>4, <1>10 DEF TypeOK, Balanced
<1> QED BY <1>3, <1>10, <1>11, <1>12 DEF TypeInv

(* A proposal is added under the next id and the others stay.              *)
LEMMA SubmitFacts ==
  ASSUME TypeInv, NEW who \in Users, NEW c \in Contents, SubmitProposal(who, c)
  PROVE  /\ ProposalSeq \notin DOMAIN Proposals
         /\ DOMAIN Proposals' = DOMAIN Proposals \cup {ProposalSeq}
         /\ \A j \in DOMAIN Proposals : Proposals'[j] = Proposals[j]
         /\ Proposals'[ProposalSeq] \in ProposalType
         /\ Proposals'[ProposalSeq].Proposer = who
         /\ Proposals'[ProposalSeq].Content = c
         /\ Proposals'[ProposalSeq].Status = "VOTING_PERIOD"
         /\ Proposals'[ProposalSeq].SubmitBlock = height
         /\ Proposals'[ProposalSeq].VotingEndBlock = (height + Period) % Word
         /\ bank' = SendCoins(bank, who, DaoModule, DepositOf(c))
         /\ CanPay(bank, who, DepositOf(c))
         /\ Balanced(bank')
         /\ ProposalSeq' = ProposalSeq + 1
         /\ UNCHANGED <<Votes, VoterPowerLots, PermittedTLDs, loose, inflated,
                        height, phase, toProcess, restarts>>
<1> DEFINE r == [Proposer |-> who, Content |-> c, Status |-> "VOTING_PERIOD",
                 SubmitBlock |-> height,
                 VotingEndBlock |-> (height + Period) % Word,
                 YesVotes |-> 0, NoVotes |-> 0, AbstainVotes |-> 0,
                 TotalVotingPowerAtSnapshot |-> bank.supply]
<1>1. /\ Proposals' = Put(Proposals, ProposalSeq, r)
      /\ ProposalSeq' = ProposalSeq + 1
      /\ bank' = SendCoins(bank, who, DaoModule, DepositOf(c))
      /\ CanPay(bank, who, DepositOf(c))
      /\ UNCHANGED <<Votes, VoterPowerLots, PermittedTLDs, loose, inflated,
                     height, phase, toProcess, restarts>>
  BY DEF SubmitProposal, coinVars, blockVars
<1>2. r \in ProposalType
  <2>1. (height + Period) % Word \in Nat /\ height \in Nat
    BY ParamsFacts, PowerAssumption, SMTT(30) DEF PowerAssumption, TypeInv, TypeOK
  <2>2. bank.supply \in Nat
    BY SupplyNat DEF TypeInv
  <2> QED BY <2>1, <2>2 DEF ProposalType, Statuses
<1>3. /\ r.Proposer = who /\ r.Content = c /\ r.Status = "VOTING_PERIOD"
      /\ r.SubmitBlock = height /\ r.VotingEndBlock = (height + Period) % Word
  OBVIOUS
<1> HIDE DEF r
<1>4. ProposalSeq \notin DOMAIN Proposals
  BY DEF TypeInv, TypeOK
<1>5. /\ DOMAIN Proposals' = DOMAIN Proposals \cup {ProposalSeq}
      /\ Proposals'[ProposalSeq] = r
      /\ \A j \in DOMAIN Proposals : Proposals'[j] = Proposals[j]
  BY <1>1, <1>4 DEF Put
<1>6. Balanced(bank')
  <2>1. who \in Accounts /\ DaoModule \in Accounts /\ DepositOf(c) \in Nat
    BY AccountsFacts, DepositNat
  <2> QED BY <1>1, <2>1, SendBalanced DEF TypeInv
<1> QED BY <1>1, <1>4, <1>5, <1>6, <1>2, <1>3

LEMMA SubmitTypeInv ==
  ASSUME TypeInv, NEW who \in Users, NEW c \in Contents, SubmitProposal(who, c)
  PROVE  TypeInv'
<1> DEFINE r == Proposals'[ProposalSeq]
<1>1. /\ DOMAIN Proposals' = DOMAIN Proposals \cup {ProposalSeq}
      /\ \A j \in DOMAIN Proposals : Proposals'[j] = Proposals[j]
      /\ Balanced(bank') /\ ProposalSeq' = ProposalSeq + 1
      /\ UNCHANGED <<Votes, VoterPowerLots, PermittedTLDs, loose, inflated,
                     height, phase, toProcess, restarts>>
  BY SubmitFacts
<1>2. r \in ProposalType
  BY SubmitFacts
<1>3. DOMAIN Proposals' = 0 .. ProposalSeq' - 1
  BY <1>1 DEF TypeInv, TypeOK
<1>4. Active \subseteq Active'
  BY <1>1 DEF Active, Voting
<1>5. TypeOK'
  BY <1>1, <1>2, <1>3, <1>4 DEF TypeInv, TypeOK, Balanced
<1> QED BY <1>1, <1>5 DEF TypeInv

LEMMA VoteTypeInv ==
  ASSUME TypeInv, NEW who \in Users, NEW id, NEW option \in Options,
         Vote(who, id, option)
  PROVE  TypeInv'
<1> DEFINE k == <<id, who>>
           v == [Option |-> option, VotingPower |-> CalculateVoterPower(who, height)]
<1>1. /\ id \in DOMAIN Proposals
      /\ Votes' = Put(Votes, k, v)
      /\ UNCHANGED <<Proposals, ProposalSeq, VoterPowerLots, PermittedTLDs,
                     bank, loose, inflated, height, phase, toProcess, restarts>>
  BY DEF Vote, coinVars, blockVars
<1>2. v \in [Option: Options, VotingPower: Nat \ {0}]
  BY VoterPowerNat DEF Vote
<1>3. k \in (DOMAIN Proposals) \X Users
  BY <1>1
<1> HIDE DEF k, v
<1>4. /\ DOMAIN Votes' = DOMAIN Votes \cup {k}
      /\ \A x \in DOMAIN Votes' : Votes'[x] = IF x = k THEN v ELSE Votes[x]
  BY <1>1 DEF Put
<1>5. IsFiniteSet(DOMAIN Votes')
  BY <1>4, FS_AddElement DEF TypeInv
<1>6. Active' = Active
  BY <1>1 DEF Active, Voting
<1>7. TypeOK'
  BY <1>1, <1>2, <1>3, <1>4, <1>6 DEF TypeInv, TypeOK
<1> QED BY <1>1, <1>5, <1>7 DEF TypeInv, Balanced

(* Coins move outside the DAO.                                             *)
LEMMA BankTypeInv ==
  ASSUME TypeInv, Balanced(bank'), loose' \in Nat, inflated' \in Nat,
         UNCHANGED <<Proposals, ProposalSeq, Votes, VoterPowerLots,
                     PermittedTLDs, height, phase, toProcess, restarts>>
  PROVE  TypeInv'
<1>1. Active' = Active
  BY DEF Active, Voting
<1>2. TypeOK'
  BY <1>1 DEF TypeInv, TypeOK, Balanced
<1> QED BY <1>2 DEF TypeInv

LEMMA BankSendTypeInv ==
  ASSUME TypeInv, NEW who \in Users, NEW to \in Accounts,
         NEW amt \in SendAmounts, BankSend(who, to, amt)
  PROVE  TypeInv'
<1>1. /\ CanPay(bank, who, amt) /\ bank' = SendCoins(bank, who, to, amt)
      /\ loose' = IF to = DaoModule THEN loose + amt ELSE loose
      /\ UNCHANGED <<Proposals, ProposalSeq, Votes, VoterPowerLots,
                     PermittedTLDs, inflated, height, phase, toProcess,
                     restarts>>
  BY DEF BankSend, blockVars
<1>2. amt \in Nat /\ who \in Accounts
  BY AccountsFacts, DaoAssumption DEF DaoAssumption
<1>3. Balanced(bank')
  BY <1>1, <1>2, SendBalanced DEF TypeInv
<1>4. loose' \in Nat /\ inflated' \in Nat
  BY <1>1, <1>2 DEF TypeInv, TypeOK
<1> QED BY <1>1, <1>3, <1>4, BankTypeInv

LEMMA InflationTypeInv ==
  ASSUME TypeInv, NEW to \in Users, Inflation(to)
  PROVE  TypeInv'
<1>1. /\ bank' = MintCoins(bank, to, 1) /\ inflated' = inflated + 1
      /\ UNCHANGED <<Proposals, ProposalSeq, Votes, VoterPowerLots,
                     PermittedTLDs, loose, height, phase, toProcess, restarts>>
  BY DEF Inflation, blockVars
<1>2. to \in Accounts
  BY AccountsFacts
<1>3. Balanced(bank')
  BY <1>1, <1>2, MintBalanced DEF TypeInv
<1>4. loose' \in Nat /\ inflated' \in Nat
  BY <1>1 DEF TypeInv, TypeOK
<1> QED BY <1>1, <1>3, <1>4, BankTypeInv

LEMMA EndBlockStartTypeInv ==
  ASSUME TypeInv, EndBlockStart
  PROVE  TypeInv'
<1>1. /\ phase' = "endblock" /\ toProcess' \subseteq Active
      /\ UNCHANGED <<Proposals, ProposalSeq, Votes, VoterPowerLots,
                     PermittedTLDs, bank, height, loose, inflated, restarts>>
  BY DEF EndBlockStart, coinVars
<1>2. Active' = Active
  BY <1>1 DEF Active, Voting
<1>3. TypeOK'
  BY <1>1, <1>2 DEF TypeInv, TypeOK
<1> QED BY <1>1, <1>3 DEF TypeInv, Balanced

(* A lot is granted to an account, for an amount that is not zero.         *)
LEMMA GrantLotFacts ==
  ASSUME TypeInv, NEW id \in DOMAIN Proposals, NEW c, c.recipient \in Accounts,
         c.amount \in Nat, VoterPowerLots' = GrantLot(id, c)
  PROVE  LET k == <<c.recipient, id>>
             new == IF c.amount = 0 THEN {} ELSE {k}
         IN  /\ DOMAIN VoterPowerLots' = DOMAIN VoterPowerLots \cup new
             /\ \A x \in DOMAIN VoterPowerLots :
                  x \notin new => VoterPowerLots'[x] = VoterPowerLots[x]
             /\ \A x \in new :
                  VoterPowerLots'[x] = [InitialAmount |-> c.amount,
                                        GrantBlockHeight |-> height]
BY DEF GrantLot, Put

LEMMA ProcessTypeInv ==
  ASSUME TypeInv, NEW id, ProcessProposal(id)
  PROVE  TypeInv'
<1> DEFINE p == Proposals[id]
           c == p.Content
<1>1. /\ toProcess' = toProcess \ {id}
      /\ UNCHANGED <<ProposalSeq, Votes, height, phase, inflated, restarts>>
  BY DEF ProcessProposal
<1>2. /\ id \in DOMAIN Proposals /\ p \in ProposalType
      /\ Proposals'[id] \in ProposalType /\ Balanced(bank')
  BY ProcessCases
<1>3. \E status : Decided(id, status)
  BY ProcessCases DEF Rejects, AddsTld, RefusesTld, RefusesGrant, PaysGrant
<1>4. /\ DOMAIN Proposals' = DOMAIN Proposals
      /\ \A j \in DOMAIN Proposals : j # id => Proposals'[j] = Proposals[j]
  BY <1>3 DEF Decided
<1>5. toProcess' \subseteq Active'
  BY <1>1, <1>4 DEF TypeInv, TypeOK, Active, Voting
<1>6. c \in Contents
  BY <1>2 DEF ProposalType
<1>7. PermittedTLDs' \subseteq TldString
  <2>1. CASE AddsTld(id)
    <3>1. c.tld \in TldString
      BY <1>6, <2>1, ContentFacts DEF AddsTld
    <3>2. AddedTLD(c.tld) \in TldString
      BY <3>1 DEF AddedTLD, ToLower, TrimSpace, TldString
    <3> QED BY <2>1, <3>2 DEF AddsTld, TypeInv, TypeOK
  <2>2. CASE PermittedTLDs' = PermittedTLDs
    BY <2>2 DEF TypeInv, TypeOK
  <2> QED BY <2>1, <2>2, ProcessCases
          DEF Rejects, RefusesTld, RefusesGrant, PaysGrant
<1>8. /\ IsFiniteSet(DOMAIN VoterPowerLots')
      /\ DOMAIN VoterPowerLots' \subseteq Accounts \X (DOMAIN Proposals')
      /\ \A k \in DOMAIN VoterPowerLots' :
           VoterPowerLots'[k] \in [InitialAmount: Nat \ {0}, GrantBlockHeight: Nat]
      /\ loose' \in Nat
  <2>1. CASE VoterPowerLots' = VoterPowerLots /\ loose' = loose
    BY <1>4, <2>1 DEF TypeInv, TypeOK
  <2>2. CASE PaysGrant(id)
    <3>1. c.recipient \in Accounts /\ c.amount \in Nat
      BY <1>6, <2>2, ContentFacts DEF PaysGrant
    <3> DEFINE k == <<c.recipient, id>>
               new == IF c.amount = 0 THEN {} ELSE {k}
    <3>2. /\ DOMAIN VoterPowerLots' = DOMAIN VoterPowerLots \cup new
          /\ \A x \in DOMAIN VoterPowerLots :
               x \notin new => VoterPowerLots'[x] = VoterPowerLots[x]
          /\ \A x \in new :
               VoterPowerLots'[x] = [InitialAmount |-> c.amount,
                                     GrantBlockHeight |-> height]
      BY <1>2, <2>2, <3>1, GrantLotFacts DEF PaysGrant
    <3>3. IsFiniteSet(DOMAIN VoterPowerLots')
      <4>1. IsFiniteSet(new)
        BY FS_EmptySet, FS_Singleton
      <4> HIDE DEF new
      <4>2. IsFiniteSet(DOMAIN VoterPowerLots \cup new)
        BY <4>1, FS_Union DEF TypeInv
      <4> QED BY <3>2, <4>2
    <3>4. new \subseteq Accounts \X (DOMAIN Proposals)
      BY <1>2, <3>1
    <3>5. height \in Nat /\ (new # {} => c.amount \in Nat \ {0})
      BY <3>1 DEF TypeInv, TypeOK
    <3>6. loose' \in Nat
      BY <2>2, <3>1 DEF PaysGrant, TypeInv, TypeOK
    <3> HIDE DEF new
    <3> QED BY <1>4, <3>2, <3>3, <3>4, <3>5, <3>6 DEF TypeInv, TypeOK
  <2> QED BY <2>1, <2>2, ProcessCases
          DEF Rejects, AddsTld, RefusesTld, RefusesGrant
<1>9. TypeOK'
  BY <1>1, <1>2, <1>4, <1>5, <1>7, <1>8 DEF TypeInv, TypeOK, Balanced
<1> QED BY <1>1, <1>2, <1>8, <1>9 DEF TypeInv

LEMMA CommitTypeInv ==
  ASSUME TypeInv, Commit
  PROVE  TypeInv'
<1>1. /\ height' = height + 1 /\ height < MaxHeight /\ phase' = "deliver"
      /\ UNCHANGED <<Proposals, ProposalSeq, Votes, VoterPowerLots,
                     PermittedTLDs, bank, toProcess, loose, inflated, restarts>>
  BY DEF Commit, coinVars
<1>2. Active' = Active
  BY <1>1 DEF Active, Voting
<1>3. height \in Nat /\ height' \in Nat /\ height' <= MaxHeight
  BY <1>1, DaoAssumption DEF DaoAssumption, TypeInv, TypeOK
<1>4. TypeOK'
  BY <1>1, <1>2, <1>3 DEF TypeInv, TypeOK
<1> QED BY <1>1, <1>3, <1>4 DEF TypeInv, Balanced

LEMMA RestartTypeInv ==
  ASSUME TypeInv, DaoRestart, PermittedTLDs' \subseteq TldString
  PROVE  TypeInv'
<1>1. /\ Proposals' = NoEntries /\ ProposalSeq' = 0 /\ Votes' = NoEntries
      /\ VoterPowerLots' = NoEntries /\ loose' = bank.bal[DaoModule]
      /\ height' = height + 1 /\ height < MaxHeight /\ phase' = "deliver"
      /\ restarts' = restarts + 1 /\ toProcess = {}
      /\ UNCHANGED <<bank, toProcess, inflated>>
  BY DEF DaoRestart
<1>2. DOMAIN NoEntries = {}
  BY DEF NoEntries
<1>3. IsFiniteSet(DOMAIN Votes') /\ IsFiniteSet(DOMAIN VoterPowerLots')
  BY <1>1, <1>2, FS_EmptySet
<1>4. height \in Nat /\ height' \in Nat /\ height' <= MaxHeight
  BY <1>1, DaoAssumption DEF DaoAssumption, TypeInv, TypeOK
<1>5. loose' \in Nat
  BY <1>1, AccountsFacts DEF TypeInv, TypeOK, BankType
<1>6. TypeOK'
  BY <1>1, <1>2, <1>4, <1>5 DEF TypeInv, TypeOK
<1> QED BY <1>1, <1>3, <1>4, <1>6 DEF TypeInv, Balanced

LEMMA NextTypeInv == TypeInv /\ [Next]_vars => TypeInv'
<1> SUFFICES ASSUME TypeInv, [Next]_vars PROVE TypeInv'
  OBVIOUS
<1>1. CASE Deliver
  BY <1>1, SubmitTypeInv, VoteTypeInv, BankSendTypeInv, InflationTypeInv
     DEF Deliver
<1>2. CASE Block
  BY <1>2, EndBlockStartTypeInv, ProcessTypeInv, CommitTypeInv DEF Block
<1>3. CASE GenesisRestart
  BY <1>3, RestartTypeInv DEF GenesisRestart, TypeInv, TypeOK
<1>4. CASE UNCHANGED vars
  BY <1>4, BankTypeInv DEF vars, TypeInv, TypeOK
<1> QED BY <1>1, <1>2, <1>3, <1>4 DEF Next, BoundReached

(* The types hold together with the balance of the bank: no mint, burn or  *)
(* send of SubmitProposal and EndBlocker lets the accounts and the supply  *)
(* drift apart.                                                            *)
THEOREM TypeInvHolds == Spec => []TypeInv
BY InitTypeInv, NextTypeInv, PTL DEF Spec

(* Every collection and counter of the DAO keeper stays within its type:   *)
(* above all, no tally of EndBlocker, no snapshot and no balance is ever   *)
(* negative, and MsgVote stores no vote without power.                     *)
THEOREM TypeCorrect == Spec => []TypeOK
<1>1. TypeInv => TypeOK
  BY DEF TypeInv
<1> QED BY <1>1, TypeInvHolds, PTL

-----------------------------------------------------------------------------
(***************************************************************************)
(* Permitted TLDs and the proposals behind them.                           *)
(***************************************************************************)
LEMMA InitProvenance == Init => TldProvenance
<1> SUFFICES ASSUME Init PROVE TldProvenance
  OBVIOUS
<1>1. ExecutedTldProposals = {}
  BY DEF Init, NoEntries, ExecutedTldProposals
<1> QED BY <1>1 DEF Init, TldProvenance

(* Steps that execute no AddTld proposal.                                  *)
LEMMA SameProvenance ==
  ASSUME TldProvenance, PermittedTLDs' = PermittedTLDs, restarts' = restarts,
         ExecutedTldProposals' = ExecutedTldProposals,
         \A id \in ExecutedTldProposals :
           Proposals'[id].Content = Proposals[id].Content
  PROVE  TldProvenance'
<1> DEFINE tld(id) == AddedTLD(Proposals[id].Content.tld)
           ntld(id) == AddedTLD(Proposals'[id].Content.tld)
           E == ExecutedTldProposals
<1>1. \A id \in E : ntld(id) = tld(id)
  OBVIOUS
<1>2. {ntld(id) : id \in E} = {tld(id) : id \in E}
  BY <1>1
<1> QED BY <1>1, <1>2 DEF TldProvenance

LEMMA SubmitProvenance ==
  ASSUME TypeInv, TldProvenance,
         NEW who \in Users, NEW c \in Contents, SubmitProposal(who, c)
  PROVE  TldProvenance'
<1>1. /\ DOMAIN Proposals' = DOMAIN Proposals \cup {ProposalSeq}
      /\ \A j \in DOMAIN Proposals : Proposals'[j] = Proposals[j]
      /\ Proposals'[ProposalSeq].Status = "VOTING_PERIOD"
      /\ UNCHANGED <<PermittedTLDs, restarts>>
  BY SubmitFacts
<1>2. ExecutedTldProposals' = ExecutedTldProposals
  BY <1>1 DEF ExecutedTldProposals
<1>3. \A id \in ExecutedTldProposals :
        Proposals'[id].Content = Proposals[id].Content
  BY <1>1 DEF ExecutedTldProposals
<1> QED BY <1>1, <1>2, <1>3, SameProvenance

LEMMA ProcessProvenance ==
  ASSUME TypeInv, TldProvenance, NEW id, ProcessProposal(id)
  PROVE  TldProvenance'
<1>1. id \in DOMAIN Proposals /\ Voting(id) /\ restarts' = restarts
  BY ProcessCases DEF ProcessProposal
<1>2. id \notin ExecutedTldProposals
  BY <1>1 DEF ExecutedTldProposals, Voting
<1>3. ASSUME NEW status, Decided(id, status)
      PROVE  /\ \A j \in DOMAIN Proposals :
                  Proposals'[j].Content = Proposals[j].Content
             /\ ~(status = "EXECUTED" /\ IsAddTld(Proposals[id].Content))
                  => ExecutedTldProposals' = ExecutedTldProposals
             /\ (status = "EXECUTED" /\ IsAddTld(Proposals[id].Content))
                  => ExecutedTldProposals' = ExecutedTldProposals \cup {id}
  BY <1>1, <1>2, <1>3 DEF Decided, ExecutedTldProposals
<1>4. CASE AddsTld(id)
  <2> DEFINE t == Proposals[id].Content.tld
             tld(i) == AddedTLD(Proposals[i].Content.tld)
             ntld(i) == AddedTLD(Proposals'[i].Content.tld)
             E == ExecutedTldProposals
             genesis == GenesisTLDs(GenesisTldList)
  <2>1. /\ PermittedTLDs' = PermittedTLDs \cup {AddedTLD(t)}
        /\ AddedTLD(t) \notin PermittedTLDs
        /\ ~IsReservedTLD(AddedTLD(t))
        /\ E' = E \cup {id}
    BY <1>3, <1>4 DEF AddsTld, CanAddPermittedTLD
  <2>2. \A i \in DOMAIN Proposals : ntld(i) = tld(i)
    BY <1>3, <1>4 DEF AddsTld
  <2>3. E \subseteq DOMAIN Proposals /\ tld(id) = AddedTLD(t)
    BY DEF ExecutedTldProposals
  <2>4. {ntld(i) : i \in E'} = {tld(i) : i \in E} \cup {AddedTLD(t)}
    BY <1>1, <2>1, <2>2, <2>3
  <2>5. /\ genesis \cup {tld(i) : i \in E} \subseteq PermittedTLDs
        /\ restarts = 0 => PermittedTLDs = genesis \cup {tld(i) : i \in E}
        /\ {tld(i) : i \in E} \cap genesis = {}
        /\ \A u \in PermittedTLDs \ genesis : ~IsReservedTLD(u)
        /\ \A i, j \in E : tld(i) = tld(j) => i = j
    BY DEF TldProvenance
  <2>6. \A i \in E : tld(i) # AddedTLD(t)
    BY <2>1, <2>5
  <2>7. \A i, j \in E' : ntld(i) = ntld(j) => i = j
    BY <1>1, <2>1, <2>2, <2>3, <2>5, <2>6
  <2> HIDE DEF tld, t, genesis
  <2>8. /\ genesis \cup {ntld(i) : i \in E'} \subseteq PermittedTLDs'
        /\ restarts' = 0 => PermittedTLDs' = genesis \cup {ntld(i) : i \in E'}
        /\ {ntld(i) : i \in E'} \cap genesis = {}
        /\ \A u \in PermittedTLDs' \ genesis : ~IsReservedTLD(u)
    BY <1>1, <2>1, <2>4, <2>5
  <2> QED BY <2>7, <2>8 DEF TldProvenance, genesis
<1>5. CASE ~AddsTld(id)
  <2>1. /\ PermittedTLDs' = PermittedTLDs
        /\ ExecutedTldProposals' = ExecutedTldProposals
        /\ \A j \in DOMAIN Proposals :
             Proposals'[j].Content = Proposals[j].Content
    <3>1. CASE Rejects(id)
      BY <1>3, <3>1 DEF Rejects
    <3>2. CASE RefusesTld(id)
      BY <1>3, <3>2 DEF RefusesTld
    <3>3. CASE RefusesGrant(id)
      BY <1>3, <3>3 DEF RefusesGrant
    <3>4. CASE PaysGrant(id)
      BY <1>3, <3>4 DEF PaysGrant
    <3> QED BY <1>5, <3>1, <3>2, <3>3, <3>4, ProcessCases
  <2>2. ExecutedTldProposals \subseteq DOMAIN Proposals
    BY DEF ExecutedTldProposals
  <2> QED BY <1>1, <2>1, <2>2, SameProvenance
<1> QED BY <1>4, <1>5

(* The DAO forgets its proposals; the registry keeps the TLDs.             *)
LEMMA RestartProvenance ==
  ASSUME TypeInv, TldProvenance, DaoRestart, PermittedTLDs' = PermittedTLDs
  PROVE  TldProvenance'
<1>1. Proposals' = NoEntries /\ restarts' # 0
  BY DEF DaoRestart, TypeInv, TypeOK
<1>2. ExecutedTldProposals' = {}
  BY <1>1 DEF NoEntries, ExecutedTldProposals
<1> QED BY <1>1, <1>2 DEF TldProvenance

LEMMA NextProvenance == TypeInv /\ TldProvenance /\ [Next]_vars => TldProvenance'
<1> SUFFICES ASSUME TypeInv, TldProvenance, [Next]_vars PROVE TldProvenance'
  OBVIOUS
<1>1. ASSUME UNCHANGED <<Proposals, PermittedTLDs, restarts>>
      PROVE  TldProvenance'
  BY <1>1, SameProvenance DEF ExecutedTldProposals
<1>2. CASE Deliver
  BY <1>1, <1>2, SubmitProvenance DEF Deliver, Vote, BankSend, Inflation,
     blockVars
<1>3. CASE Block
  BY <1>1, <1>3, ProcessProvenance DEF Block, EndBlockStart, Commit
<1>4. CASE GenesisRestart
  BY <1>4, RestartProvenance DEF GenesisRestart
<1>5. CASE UNCHANGED vars
  BY <1>1, <1>5 DEF vars
<1> QED BY <1>2, <1>3, <1>4, <1>5 DEF Next, BoundReached

(* Each permitted TLD comes from the genesis file or from one proposal     *)
(* that EndBlocker executed, none but the file's is reserved, and no TLD   *)
(* is executed twice under two spellings: AddPermittedTLD compares what    *)
(* it stores.                                                              *)
THEOREM ProvenanceHolds == Spec => []TldProvenance
BY InitProvenance, NextProvenance, TypeInvHolds, PTL DEF Spec

-----------------------------------------------------------------------------
(***************************************************************************)
(* Lots and the grants behind them.                                        *)
(***************************************************************************)
LEMMA InitLots == Init => LotsMatchGrants
BY DEF Init, NoEntries, LotsMatchGrants

(* Steps that change no proposal and no lot, while blocks may pass.        *)
LEMMA SameLots ==
  ASSUME TypeInv, LotsMatchGrants, UNCHANGED <<Proposals, VoterPowerLots>>,
         height' \in Nat, height <= height'
  PROVE  LotsMatchGrants'
BY DEF LotsMatchGrants, TypeInv, TypeOK

LEMMA SubmitLots ==
  ASSUME TypeInv, LotsMatchGrants,
         NEW who \in Users, NEW c \in Contents, SubmitProposal(who, c)
  PROVE  LotsMatchGrants'
<1>1. /\ DOMAIN Proposals' = DOMAIN Proposals \cup {ProposalSeq}
      /\ \A j \in DOMAIN Proposals : Proposals'[j] = Proposals[j]
      /\ Proposals'[ProposalSeq].Status = "VOTING_PERIOD"
      /\ UNCHANGED <<VoterPowerLots, height>>
  BY SubmitFacts
<1>2. \A k \in DOMAIN VoterPowerLots : k[2] \in DOMAIN Proposals
  BY DEF TypeInv, TypeOK
<1> QED BY <1>1, <1>2 DEF LotsMatchGrants

LEMMA ProcessLots ==
  ASSUME TypeInv, LotsMatchGrants, NEW id, ProcessProposal(id)
  PROVE  LotsMatchGrants'
<1> DEFINE c == Proposals[id].Content
<1>1. id \in DOMAIN Proposals /\ Voting(id) /\ height' = height /\ height \in Nat
  BY ProcessCases DEF ProcessProposal, TypeInv, TypeOK
<1>2. \A k \in DOMAIN VoterPowerLots : k[2] \in DOMAIN Proposals /\ k[2] # id
  BY <1>1 DEF TypeInv, TypeOK, LotsMatchGrants, Voting
<1>3. ASSUME NEW status, Decided(id, status)
      PROVE  /\ DOMAIN Proposals' = DOMAIN Proposals
             /\ \A j \in DOMAIN Proposals : j # id => Proposals'[j] = Proposals[j]
             /\ Proposals'[id].Status = status
             /\ Proposals'[id].Content = c
  BY <1>3 DEF Decided
<1>4. CASE PaysGrant(id)
  <2>1. ~IsAddTld(c) /\ c.recipient \in Accounts /\ c.amount \in Nat
    <3>1. c \in Contents
      BY ProcessCases DEF ProposalType
    <3> QED BY <3>1, <1>4, ContentFacts DEF PaysGrant
  <2> DEFINE k == <<c.recipient, id>>
             new == IF c.amount = 0 THEN {} ELSE {k}
  <2>2. /\ DOMAIN VoterPowerLots' = DOMAIN VoterPowerLots \cup new
        /\ \A x \in DOMAIN VoterPowerLots :
             x \notin new => VoterPowerLots'[x] = VoterPowerLots[x]
        /\ \A x \in new :
             VoterPowerLots'[x] = [InitialAmount |-> c.amount,
                                   GrantBlockHeight |-> height]
    BY <1>1, <1>4, <2>1, GrantLotFacts DEF PaysGrant
  <2>3. /\ DOMAIN Proposals' = DOMAIN Proposals
        /\ \A j \in DOMAIN Proposals : j # id => Proposals'[j] = Proposals[j]
        /\ Proposals'[id].Status = "EXECUTED"
        /\ Proposals'[id].Content = c
    BY <1>3, <1>4 DEF PaysGrant
  <2>4. \A x \in new : x[1] = c.recipient /\ x[2] = id
    OBVIOUS
  <2>5. c.amount > 0 => k \in new
    BY <2>1
  <2> HIDE DEF new
  <2>6. ASSUME NEW x \in DOMAIN VoterPowerLots'
        PROVE  LET p == Proposals'[x[2]]
               IN  /\ p.Status = "EXECUTED" /\ ~IsAddTld(p.Content)
                   /\ p.Content.recipient = x[1]
                   /\ p.Content.amount = VoterPowerLots'[x].InitialAmount
                   /\ VoterPowerLots'[x].GrantBlockHeight <= height'
    <3>1. CASE x \in new
      BY <1>1, <2>1, <2>2, <2>3, <2>4, <3>1
    <3>2. CASE x \notin new
      <4>1. x \in DOMAIN VoterPowerLots /\ VoterPowerLots'[x] = VoterPowerLots[x]
        BY <2>2, <2>6, <3>2
      <4>2. Proposals'[x[2]] = Proposals[x[2]]
        BY <1>2, <2>3, <4>1
      <4> QED BY <1>1, <4>1, <4>2 DEF LotsMatchGrants
    <3> QED BY <3>1, <3>2
  <2>7. ASSUME NEW j \in DOMAIN Proposals',
               LET p == Proposals'[j]
               IN  /\ p.Status = "EXECUTED" /\ ~IsAddTld(p.Content)
                   /\ p.Content.amount > 0
        PROVE  <<Proposals'[j].Content.recipient, j>> \in DOMAIN VoterPowerLots'
    <3>1. CASE j = id
      BY <2>2, <2>3, <2>5, <2>7, <3>1
    <3>2. CASE j # id
      BY <2>2, <2>3, <2>7, <3>2 DEF LotsMatchGrants
    <3> QED BY <3>1, <3>2
  <2> QED BY <2>6, <2>7 DEF LotsMatchGrants
<1>5. CASE ~PaysGrant(id)
  <2>1. \E status : /\ Decided(id, status) /\ VoterPowerLots' = VoterPowerLots
                    /\ ~(status = "EXECUTED" /\ ~IsAddTld(c))
    BY <1>5, ProcessCases DEF Rejects, AddsTld, RefusesTld, RefusesGrant
  <2>2. PICK status : /\ Decided(id, status) /\ VoterPowerLots' = VoterPowerLots
                      /\ ~(status = "EXECUTED" /\ ~IsAddTld(c))
    BY <2>1
  <2>3. /\ DOMAIN Proposals' = DOMAIN Proposals
        /\ \A j \in DOMAIN Proposals : j # id => Proposals'[j] = Proposals[j]
        /\ Proposals'[id].Status = status
        /\ Proposals'[id].Content = c
    BY <1>3, <2>2
  <2> HIDE DEF c
  <2> QED BY <1>1, <1>2, <2>2, <2>3 DEF LotsMatchGrants
<1> QED BY <1>4, <1>5

LEMMA RestartLots == ASSUME DaoRestart PROVE LotsMatchGrants'
BY DEF DaoRestart, NoEntries, LotsMatchGrants

LEMMA NextLots == TypeInv /\ LotsMatchGrants /\ [Next]_vars => LotsMatchGrants'
<1> SUFFICES ASSUME TypeInv, LotsMatchGrants, [Next]_vars PROVE LotsMatchGrants'
  OBVIOUS
<1>1. ASSUME UNCHANGED <<Proposals, VoterPowerLots>>,
             height' = height \/ height' = height + 1
      PROVE  LotsMatchGrants'
  BY <1>1, SameLots DEF TypeInv, TypeOK
<1>2. CASE Deliver
  BY <1>1, <1>2, SubmitLots DEF Deliver, Vote, BankSend, Inflation, blockVars
<1>3. CASE Block
  BY <1>1, <1>3, ProcessLots DEF Block, EndBlockStart, Commit
<1>4. CASE GenesisRestart
  BY <1>4, RestartLots DEF GenesisRestart
<1>5. CASE UNCHANGED vars
  BY <1>1, <1>5 DEF vars
<1> QED BY <1>2, <1>3, <1>4, <1>5 DEF Next, BoundReached

(* Every lot belongs to a grant that EndBlocker executed, with its         *)
(* recipient and amount, and every executed grant of voting tokens has its *)
(* lot: executeRequestTokensProposal does neither without the other.       *)
THEOREM LotsHold == Spec => []LotsMatchGrants
BY InitLots, NextLots, TypeInvHolds, PTL DEF Spec

-----------------------------------------------------------------------------
(* A vote keeps its option and its weight until a restart: MsgVote refuses *)
(* a second vote and nothing else writes the Votes collection.             *)
THEOREM VotesNeverChange == Spec => VotesImmutable
<1> DEFINE A == restarts' = restarts =>
                  \A k \in DOMAIN Votes :
                    k \in DOMAIN Votes' /\ Votes'[k] = Votes[k]
<1>1. TypeInv /\ [Next]_vars => [A]_vars
  <2> SUFFICES ASSUME TypeInv, Next PROVE A
    OBVIOUS
  <2>1. CASE UNCHANGED Votes
    BY <2>1
  <2>2. ASSUME NEW who \in Users, NEW id, NEW option, Vote(who, id, option)
        PROVE  A
    <3>1. <<id, who>> \notin DOMAIN Votes
      BY <2>2 DEF Vote
    <3>2. PICK v : Votes' = Put(Votes, <<id, who>>, v)
      BY <2>2 DEF Vote
    <3> QED BY <3>1, <3>2 DEF Put
  <2>3. CASE Deliver
    BY <2>1, <2>2, <2>3 DEF Deliver, SubmitProposal, BankSend, Inflation
  <2>4. CASE Block
    BY <2>1, <2>4 DEF Block, EndBlockStart, ProcessProposal, Commit
  <2>5. CASE GenesisRestart
    BY <2>5 DEF GenesisRestart, DaoRestart, TypeInv, TypeOK
  <2> QED BY <2>1, <2>3, <2>4, <2>5 DEF Next, BoundReached, vars
<1> QED BY <1>1, TypeInvHolds, PTL DEF Spec, VotesImmutable

-----------------------------------------------------------------------------
(***************************************************************************)
(* The votes: when a proposal is decided, that the decision is the one its *)
(* votes call for, and the end of governance once all voting power has     *)
(* decayed.                                                                *)
(***************************************************************************)

(***************************************************************************)
(* Time.  VotingEndBlock is computed modulo 2^64; it does not wrap for a   *)
(* proposal whose period ends within MaxHeight, which is below 2^63.       *)
(* Between EndBlockStart and Commit toProcess is exactly the set of the    *)
(* proposals that are over and still in voting.                            *)
(***************************************************************************)
TimeOf(id) ==
  LET last == Proposals[id].VotingEndBlock
  IN  /\ last = Proposals[id].SubmitBlock + Period
      /\ Finished(id) => height > last
      /\ Voting(id) => height <= last + 1
      /\ Voting(id) /\ phase = "endblock" /\ id \notin toProcess
           => height <= last
      /\ id \in toProcess => height > last

TimeInv == \A id \in DOMAIN Proposals : TimeOf(id)

LEMMA TimeMeaning == TypeInv /\ TimeInv => DecidedOnTime
<1> SUFFICES ASSUME TypeInv, TimeInv, NEW id \in DOMAIN Proposals
             PROVE  LET last == Proposals[id].SubmitBlock + Period
                    IN  IF Finished(id) THEN height > last
                        ELSE /\ height <= last + 1
                             /\ phase = "endblock" /\ toProcess = {}
                                  => height <= last
  BY DEF DecidedOnTime
<1> QED BY DEF TimeInv, TimeOf, Finished

LEMMA BlocksFacts ==
  ASSUME TypeInv
  PROVE  /\ height \in Nat /\ Period \in Nat /\ toProcess \subseteq Active
         /\ \A id \in DOMAIN Proposals : /\ Proposals[id].VotingEndBlock \in Nat
                                         /\ Proposals[id].SubmitBlock \in Nat
BY ParamsFacts DEF TypeInv, TypeOK, ProposalType

(* The last voting block of a new proposal does not wrap around.           *)
LEMMA NoWrap ==
  ASSUME TypeInv, height + Period < MaxHeight
  PROVE  (height + Period) % Word = height + Period
<1>1. /\ height \in Nat /\ Period \in Nat /\ MaxHeight \in Nat
      /\ MaxHeight < Word \div 2 /\ Word \in Nat \ {0}
  BY BlocksFacts, DaoAssumption, PowerAssumption DEF DaoAssumption, PowerAssumption
<1>2. Word \div 2 <= Word
  BY <1>1
<1> QED BY <1>1, <1>2

LEMMA SubmitTime ==
  ASSUME TypeInv, TimeInv, NEW who \in Users, NEW c \in Contents,
         SubmitProposal(who, c)
  PROVE  TimeInv'
<1>1. phase = "deliver" /\ height + Period < MaxHeight
  BY DEF SubmitProposal
<1>2. UNCHANGED <<height, phase, toProcess>>
  BY SubmitFacts
<1>3. ASSUME NEW id \in DOMAIN Proposals PROVE TimeOf(id)'
  <2>1. Proposals'[id] = Proposals[id] /\ TimeOf(id)
    BY SubmitFacts DEF TimeInv
  <2> QED BY <1>2, <2>1 DEF TimeOf, Voting, Finished
<1>4. ASSUME NEW id, id = ProposalSeq PROVE TimeOf(id)'
  <2>1. /\ Proposals'[id].VotingEndBlock = height + Period
        /\ Proposals'[id].SubmitBlock = height
        /\ Proposals'[id].Status = "VOTING_PERIOD"
    BY <1>1, <1>4, NoWrap, SubmitFacts
  <2>2. id \notin toProcess
    BY <1>4, SubmitFacts, BlocksFacts DEF Active
  <2>3. height \in Nat /\ Period \in Nat
    BY BlocksFacts
  <2> QED BY <1>1, <1>2, <2>1, <2>2, <2>3 DEF TimeOf, Voting, Finished
<1>5. DOMAIN Proposals' = DOMAIN Proposals \cup {ProposalSeq}
  BY SubmitFacts
<1> QED BY <1>3, <1>4, <1>5 DEF TimeInv

LEMMA EndBlockStartTime ==
  ASSUME TypeInv, TimeInv, EndBlockStart
  PROVE  TimeInv'
<1>1. /\ phase' = "endblock" /\ UNCHANGED <<Proposals, height>>
      /\ toProcess' = {id \in Active : height > Proposals[id].VotingEndBlock}
  BY DEF EndBlockStart
<1>2. ASSUME NEW id \in DOMAIN Proposals PROVE TimeOf(id)'
  <2>1. TimeOf(id) /\ height \in Nat /\ Proposals[id].VotingEndBlock \in Nat
    BY BlocksFacts DEF TimeInv
  <2> QED BY <1>1, <2>1 DEF TimeOf, Voting, Finished, Active
<1> QED BY <1>1, <1>2 DEF TimeInv

LEMMA ProcessTime ==
  ASSUME TypeInv, TimeInv, NEW id, ProcessProposal(id)
  PROVE  TimeInv'
<1>1. /\ id \in toProcess /\ toProcess' = toProcess \ {id}
      /\ UNCHANGED <<height, phase>>
  BY DEF ProcessProposal
<1>2. PICK status \in {"REJECTED", "EXECUTED", "FAILED"} : Decided(id, status)
  BY ProcessCases DEF Rejects, AddsTld, RefusesTld, RefusesGrant, PaysGrant
<1>3. TimeOf(id)'
  <2>1. TimeOf(id)
    BY ProcessCases DEF TimeInv
  <2>2. /\ Proposals'[id].VotingEndBlock = Proposals[id].VotingEndBlock
        /\ Proposals'[id].SubmitBlock = Proposals[id].SubmitBlock
        /\ Proposals'[id].Status = status
    BY <1>2 DEF Decided
  <2> QED BY <1>1, <2>1, <2>2 DEF TimeOf, Voting, Finished
<1>4. ASSUME NEW j \in DOMAIN Proposals, j # id PROVE TimeOf(j)'
  <2>1. Proposals'[j] = Proposals[j] /\ TimeOf(j)
    BY <1>2, <1>4 DEF Decided, TimeInv
  <2> QED BY <1>1, <1>4, <2>1 DEF TimeOf, Voting, Finished
<1>5. DOMAIN Proposals' = DOMAIN Proposals
  BY <1>2 DEF Decided
<1> QED BY <1>3, <1>4, <1>5 DEF TimeInv

LEMMA CommitTime ==
  ASSUME TypeInv, TimeInv, Commit
  PROVE  TimeInv'
<1>1. /\ phase = "endblock" /\ toProcess = {} /\ toProcess' = {}
      /\ phase' = "deliver" /\ height' = height + 1 /\ UNCHANGED Proposals
  BY DEF Commit
<1>2. ASSUME NEW id \in DOMAIN Proposals PROVE TimeOf(id)'
  <2>1. TimeOf(id) /\ height \in Nat /\ Proposals[id].VotingEndBlock \in Nat
    BY BlocksFacts DEF TimeInv
  <2> QED BY <1>1, <2>1 DEF TimeOf, Voting, Finished
<1> QED BY <1>1, <1>2 DEF TimeInv

LEMMA RestartTime == ASSUME DaoRestart PROVE TimeInv'
BY DEF DaoRestart, TimeInv, NoEntries

LEMMA NextTime == TypeInv /\ TimeInv /\ [Next]_vars => TimeInv'
<1> SUFFICES ASSUME TypeInv, TimeInv, [Next]_vars PROVE TimeInv'
  OBVIOUS
<1>1. CASE UNCHANGED <<Proposals, height, phase, toProcess>>
  BY <1>1 DEF TimeInv, TimeOf, Voting, Finished
<1>2. CASE Deliver
  BY <1>1, <1>2, SubmitTime DEF Deliver, Vote, BankSend, Inflation, blockVars
<1>3. CASE Block
  BY <1>3, EndBlockStartTime, ProcessTime, CommitTime DEF Block
<1>4. CASE GenesisRestart
  BY <1>4, RestartTime DEF GenesisRestart
<1> QED BY <1>1, <1>2, <1>3, <1>4 DEF Next, BoundReached, vars

LEMMA InitTime == Init => TimeInv
BY DEF Init, NoEntries, TimeInv

(* A proposal is in voting for all of its voting period, and EndBlocker    *)
(* decides it in the very next block: the iteration over the proposals     *)
(* passes none over and takes none early, whatever else ends in the block. *)
THEOREM DecisionsOnTime == Spec => []DecidedOnTime
<1>1. Spec => []TimeInv
  BY TypeInvHolds, InitTime, NextTime, PTL DEF Spec
<1> QED BY <1>1, TypeInvHolds, TimeMeaning, PTL

-----------------------------------------------------------------------------
(***************************************************************************)
(* The tally.                                                              *)
(***************************************************************************)
(* The power of the votes on a proposal depends on those votes alone.      *)
LEMMA SamePower ==
  ASSUME NEW id, NEW options,
         \A k \in DOMAIN Votes \cup DOMAIN Votes' : k[1] = id =>
           /\ k \in DOMAIN Votes /\ k \in DOMAIN Votes'
           /\ Votes'[k] = Votes[k]
  PROVE  PowerOf(id, options)' = PowerOf(id, options)
<1>1. VotesFor(id, options)' = VotesFor(id, options)
  BY DEF VotesFor
<1>2. [k \in VotesFor(id, options) |-> Votes[k].VotingPower]
        = [k \in VotesFor(id, options) |-> Votes'[k].VotingPower]
  BY DEF VotesFor
<1> QED BY <1>1, <1>2 DEF PowerOf

(* What TallyFinal says of one proposal.                                   *)
TallyOf(id) ==
  Finished(id) =>
    /\ Proposals[id].YesVotes = Yes(id)
    /\ Proposals[id].NoVotes = No(id)
    /\ Proposals[id].AbstainVotes = Abstain(id)
    /\ Proposals[id].Status = "REJECTED" <=> ~Passes(id)

LEMMA SameTally ==
  ASSUME NEW id, TallyOf(id), Proposals'[id] = Proposals[id],
         Finished(id) =>
           \A k \in DOMAIN Votes \cup DOMAIN Votes' : k[1] = id =>
             /\ k \in DOMAIN Votes /\ k \in DOMAIN Votes'
             /\ Votes'[k] = Votes[k]
  PROVE  TallyOf(id)'
<1> SUFFICES ASSUME Finished(id)'
             PROVE  /\ Proposals'[id].YesVotes = Yes(id)'
                    /\ Proposals'[id].NoVotes = No(id)'
                    /\ Proposals'[id].AbstainVotes = Abstain(id)'
                    /\ Proposals'[id].Status = "REJECTED" <=> ~Passes(id)'
  BY DEF TallyOf
<1>1. Finished(id)
  BY DEF Finished, Voting
<1>2. ASSUME NEW options PROVE PowerOf(id, options)' = PowerOf(id, options)
  BY <1>1, SamePower
<1>3. /\ Yes(id)' = Yes(id) /\ No(id)' = No(id) /\ Abstain(id)' = Abstain(id)
      /\ Voted(id)' = Voted(id)
  BY <1>2 DEF Yes, No, Abstain, Voted
<1>4. Passes(id)' <=> Passes(id)
  BY <1>3 DEF Passes, HasQuorum, PassedVotingThreshold
<1> QED BY <1>1, <1>3, <1>4 DEF TallyOf

LEMMA InitTally == Init => TallyFinal
BY DEF Init, NoEntries, TallyFinal

LEMMA SubmitTally ==
  ASSUME TypeInv, TallyFinal, NEW who \in Users, NEW c \in Contents,
         SubmitProposal(who, c)
  PROVE  TallyFinal'
<1>1. Votes' = Votes
  BY SubmitFacts
<1>2. ASSUME NEW id \in DOMAIN Proposals PROVE TallyOf(id)'
  <2>1. TallyOf(id) /\ Proposals'[id] = Proposals[id]
    BY SubmitFacts DEF TallyFinal, TallyOf
  <2> QED BY <1>1, <2>1, SameTally
<1>3. ASSUME NEW id, id = ProposalSeq PROVE TallyOf(id)'
  BY <1>3, SubmitFacts DEF TallyOf, Finished, Voting
<1>4. DOMAIN Proposals' = DOMAIN Proposals \cup {ProposalSeq}
  BY SubmitFacts
<1>5. \A id \in DOMAIN Proposals' : TallyOf(id)'
  BY <1>2, <1>3, <1>4
<1> QED BY <1>5 DEF TallyFinal, TallyOf

LEMMA VoteTally ==
  ASSUME TypeInv, TallyFinal, NEW who \in Users, NEW id, NEW option,
         Vote(who, id, option)
  PROVE  TallyFinal'
<1>1. Voting(id) /\ Proposals' = Proposals
  BY DEF Vote
<1>2. PICK v : Votes' = Put(Votes, <<id, who>>, v)
  BY DEF Vote
<1>3. ASSUME NEW j \in DOMAIN Proposals PROVE TallyOf(j)'
  <2>1. TallyOf(j) /\ Proposals'[j] = Proposals[j]
    BY <1>1 DEF TallyFinal, TallyOf
  <2>2. ASSUME Finished(j), NEW k \in DOMAIN Votes \cup DOMAIN Votes', k[1] = j
        PROVE  k \in DOMAIN Votes /\ k \in DOMAIN Votes' /\ Votes'[k] = Votes[k]
    <3>1. k # <<id, who>>
      BY <1>1, <2>2 DEF Finished
    <3> QED BY <1>2, <2>2, <3>1 DEF Put
  <2> QED BY <2>1, <2>2, SameTally
<1> QED BY <1>1, <1>3 DEF TallyFinal, TallyOf

(* EndBlocker stores the tally it decided on.                              *)
LEMMA ProcessTally ==
  ASSUME TypeInv, TallyFinal, NEW id, ProcessProposal(id)
  PROVE  TallyFinal'
<1>1. Votes' = Votes
  BY DEF ProcessProposal
<1>2. PICK status \in {"REJECTED", "EXECUTED", "FAILED"} :
        /\ Decided(id, status)
        /\ status = "REJECTED" <=> ~Passes(id)
  BY ProcessCases DEF Rejects, AddsTld, RefusesTld, RefusesGrant, PaysGrant
<1>3. TallyOf(id)'
  <2>1. ASSUME NEW options PROVE PowerOf(id, options)' = PowerOf(id, options)
    BY <1>1, SamePower
  <2>2. /\ Yes(id)' = Yes(id) /\ No(id)' = No(id)
        /\ Abstain(id)' = Abstain(id) /\ Voted(id)' = Voted(id)
    BY <2>1 DEF Yes, No, Abstain, Voted
  <2>3. /\ Proposals'[id].YesVotes = Yes(id)
        /\ Proposals'[id].NoVotes = No(id)
        /\ Proposals'[id].AbstainVotes = Abstain(id)
        /\ Proposals'[id].Status = status
        /\ Proposals'[id].TotalVotingPowerAtSnapshot
             = Proposals[id].TotalVotingPowerAtSnapshot
    BY <1>2 DEF Decided
  <2>4. Passes(id)' <=> Passes(id)
    BY <2>2, <2>3 DEF Passes, HasQuorum, PassedVotingThreshold
  <2> QED BY <1>2, <2>2, <2>3, <2>4 DEF TallyOf
<1>4. ASSUME NEW j \in DOMAIN Proposals, j # id PROVE TallyOf(j)'
  <2>1. TallyOf(j) /\ Proposals'[j] = Proposals[j]
    BY <1>2, <1>4 DEF TallyFinal, TallyOf, Decided
  <2> QED BY <1>1, <2>1, SameTally
<1>5. \A j \in DOMAIN Proposals' : TallyOf(j)'
  BY <1>2, <1>3, <1>4 DEF Decided
<1> QED BY <1>5 DEF TallyFinal, TallyOf

LEMMA UnchangedTally ==
  ASSUME TallyFinal, UNCHANGED <<Proposals, Votes>>
  PROVE  TallyFinal'
<1>1. ASSUME NEW id \in DOMAIN Proposals PROVE TallyOf(id)'
  <2>1. TallyOf(id)
    BY DEF TallyFinal, TallyOf
  <2> QED BY <2>1, SameTally
<1> QED BY <1>1 DEF TallyFinal, TallyOf

LEMMA RestartTally == ASSUME DaoRestart PROVE TallyFinal'
BY DEF DaoRestart, TallyFinal, NoEntries

LEMMA NextTally == TypeInv /\ TallyFinal /\ [Next]_vars => TallyFinal'
<1> SUFFICES ASSUME TypeInv, TallyFinal, [Next]_vars PROVE TallyFinal'
  OBVIOUS
<1>1. CASE UNCHANGED <<Proposals, Votes>>
  BY <1>1, UnchangedTally
<1>2. CASE Deliver
  BY <1>1, <1>2, SubmitTally, VoteTally DEF Deliver, BankSend, Inflation
<1>3. CASE Block
  BY <1>1, <1>3, ProcessTally DEF Block, EndBlockStart, Commit
<1>4. CASE GenesisRestart
  BY <1>4, RestartTally DEF GenesisRestart
<1> QED BY <1>1, <1>2, <1>3, <1>4 DEF Next, BoundReached, vars

(* A decision stays the one its votes call for: MsgVote refuses a proposal *)
(* that is decided and a voter who has voted, and no other step writes a   *)
(* vote, so the tally and the verdict that EndBlocker stored agree for     *)
(* ever with the votes in the store.                                       *)
THEOREM DecisionsFollowVotes == Spec => []TallyFinal
BY TypeInvHolds, InitTally, NextTally, PTL DEF Spec

-----------------------------------------------------------------------------
(***************************************************************************)
(* The end of governance.                                                  *)
(***************************************************************************)
(* A lot that is at least as old as the decay duration has no power.       *)
LEMMA DecayedToNothing ==
  ASSUME TypeInv, LotsMatchGrants, NEW k \in DOMAIN VoterPowerLots,
         Params.VotingPowerDecayDurationBlocks > 0,
         height - VoterPowerLots[k].GrantBlockHeight
           >= Params.VotingPowerDecayDurationBlocks
  PROVE  LotPower(k, height) = 0
<1> DEFINE amount == VoterPowerLots[k].InitialAmount
           grant == VoterPowerLots[k].GrantBlockHeight
           decay == Params.VotingPowerDecayDurationBlocks
<1>1. /\ grant \in Nat /\ height \in Nat /\ grant <= height
      /\ height <= MaxHeight
  BY DEF TypeInv, TypeOK, LotsMatchGrants
<1>2. MaxHeight \in Nat /\ Word \in Nat \ {0} /\ MaxHeight < Word \div 2
  BY DaoAssumption, PowerAssumption DEF DaoAssumption, PowerAssumption
<1>3. decay \in Nat /\ decay > 0 /\ height - grant >= decay
  BY ParamsFacts
<1>4. LotPower(k, height) = DecayedPower(amount, grant, height, decay)
  BY DEF LotPower
<1> HIDE DEF amount, grant, decay
<1>5. Word \div 2 <= Word
  BY <1>2
<1>6. (height - grant) % Word = height - grant
  BY <1>1, <1>2, <1>5
<1> QED BY <1>3, <1>4, <1>6 DEF DecayedPower

LEMMA FrozenPower ==
  ASSUME TypeInv, LotsMatchGrants, Frozen, NEW who \in Users
  PROVE  CalculateVoterPower(who, height) = 0
<1> DEFINE S == LotsOf(who)
           f == [k \in S |-> LotPower(k, height)]
<1>1. \A k \in S : f[k] = 0
  BY DecayedToNothing DEF Frozen, LotsOf
<1>2. IsFiniteSet(S)
  BY FS_Subset DEF TypeInv, LotsOf
<1>3. CalculateVoterPower(who, height) = SumFunctionOnSet(f, S)
  BY DEF Frozen, CalculateVoterPower, SumFunction
<1> HIDE DEF f, S
<1> QED BY <1>1, <1>2, <1>3, SumZero

LEMMA NoQuorumWithoutVotes ==
  ASSUME NEW snapshot \in Nat, Params.QuorumPercent > 0
  PROVE  ~HasQuorum(0, snapshot)
<1>1. Params.QuorumPercent \in Int /\ Prec \in Nat \ {0}
  BY ParamsFacts, PowerAssumption DEF PowerAssumption
<1>2. ASSUME snapshot > 0 PROVE DecRatio(0, snapshot) = 0
  <2>1. 0 * Prec * Prec = 0
    BY <1>1
  <2>2. 0 \div snapshot = 0
    BY <1>2
  <2>3. 0 \div Prec = 0 /\ 0 % Prec = 0 /\ 2 * 0 < Prec
    BY <1>1
  <2> QED BY <2>1, <2>2, <2>3 DEF DecRatio, ChopRound
<1> QED BY <1>1, <1>2 DEF HasQuorum

LEMMA FrozenRejects ==
  ASSUME TypeInv, Frozen, NEW id \in Active
  PROVE  ~Passes(id)
<1> DEFINE opts == Options \ {"UNSPECIFIED"}
           f == [k \in VotesFor(id, opts) |-> Votes[k].VotingPower]
<1>1. VotesFor(id, opts) = {}
  BY DEF Frozen, VotesFor
<1>2. Voted(id) = SumFunctionOnSet(f, {})
  BY <1>1 DEF Voted, PowerOf, SumFunction
<1> HIDE DEF f
<1>3. Voted(id) = 0
  BY <1>2, SumEmpty
<1>4. Proposals[id].TotalVotingPowerAtSnapshot \in Nat
  BY DEF TypeInv, TypeOK, ProposalType, Active
<1> QED BY <1>3, <1>4, NoQuorumWithoutVotes DEF Frozen, Passes

(* Once the last lot has decayed and the votes on open proposals are gone, *)
(* CalculateVoterPower gives nobody any power again, EndBlocker rejects    *)
(* every later proposal, and no TLD is permitted and no lot granted until  *)
(* a restart drops the lots.                                               *)
THEOREM FreezeIsFinal == Spec => GovernanceFreeze
<1> DEFINE A == Frozen /\ restarts' = restarts
                  => Frozen' /\ UNCHANGED <<PermittedTLDs, VoterPowerLots>>
<1>1. TypeInv /\ LotsMatchGrants /\ [Next]_vars => [A]_vars
  <2> SUFFICES ASSUME TypeInv, LotsMatchGrants, Next, Frozen,
                      restarts' = restarts
               PROVE  Frozen' /\ UNCHANGED <<PermittedTLDs, VoterPowerLots>>
    OBVIOUS
  <2>1. ASSUME UNCHANGED <<PermittedTLDs, VoterPowerLots, Votes>>,
               height' \in Nat, height' >= height,
               \A k \in DOMAIN Votes : k[1] \in Active' => k[1] \in Active
        PROVE  Frozen' /\ UNCHANGED <<PermittedTLDs, VoterPowerLots>>
    <3>1. IsLotBasedVotingActive'
      BY <2>1 DEF Frozen, IsLotBasedVotingActive
    <3>2. ASSUME NEW k \in DOMAIN VoterPowerLots
          PROVE  height' - VoterPowerLots[k].GrantBlockHeight
                   >= Params.VotingPowerDecayDurationBlocks
      <4>1. /\ height \in Nat /\ VoterPowerLots[k].GrantBlockHeight \in Nat
            /\ Params.VotingPowerDecayDurationBlocks \in Nat
        BY ParamsFacts DEF TypeInv, TypeOK
      <4>2. height - VoterPowerLots[k].GrantBlockHeight
              >= Params.VotingPowerDecayDurationBlocks
        BY DEF Frozen
      <4> QED BY <2>1, <4>1, <4>2
    <3> QED BY <2>1, <3>1, <3>2 DEF Frozen
  <2>2. height \in Nat
    BY DEF TypeInv, TypeOK
  <2>3. CASE UNCHANGED <<Proposals, PermittedTLDs, VoterPowerLots, Votes, height>>
    BY <2>1, <2>2, <2>3 DEF Active, Voting
  <2>4. ASSUME NEW who \in Users, NEW c \in Contents, SubmitProposal(who, c)
        PROVE  Frozen' /\ UNCHANGED <<PermittedTLDs, VoterPowerLots>>
    <3>1. \A k \in DOMAIN Votes : k[1] \in DOMAIN Proposals
      BY DEF TypeInv, TypeOK
    <3>2. \A k \in DOMAIN Votes : k[1] \in Active' => k[1] \in Active
      BY <2>4, <3>1, SubmitFacts DEF Active, Voting
    <3> QED BY <2>1, <2>2, <2>4, <3>2, SubmitFacts
  <2>5. ASSUME NEW who \in Users, NEW id, NEW option, Vote(who, id, option)
        PROVE  FALSE
    BY <2>5, FrozenPower DEF Vote
  <2>6. ASSUME NEW id, ProcessProposal(id)
        PROVE  Frozen' /\ UNCHANGED <<PermittedTLDs, VoterPowerLots>>
    <3>1. Votes' = Votes /\ height' = height
      BY <2>6 DEF ProcessProposal
    <3>2. id \in DOMAIN Proposals /\ Voting(id)
      BY <2>6, ProcessCases
    <3>3. ~Passes(id)
      BY <3>2, FrozenRejects DEF Active
    <3>4. Rejects(id)
      BY <2>6, <3>3, ProcessCases DEF AddsTld, RefusesTld, RefusesGrant, PaysGrant
    <3>5. \A j \in Active' : j \in Active
      BY <3>2, <3>4 DEF Rejects, Decided, Active, Voting
    <3> QED BY <2>1, <2>2, <3>1, <3>4, <3>5 DEF Rejects
  <2>7. CASE Commit
    <3>1. /\ height' = height + 1
          /\ UNCHANGED <<Proposals, PermittedTLDs, VoterPowerLots, Votes>>
      BY <2>7 DEF Commit
    <3> QED BY <2>1, <2>2, <3>1 DEF Active, Voting
  <2>8. CASE Deliver
    BY <2>3, <2>4, <2>5, <2>8 DEF Deliver, BankSend, Inflation, blockVars
  <2>9. CASE Block
    BY <2>3, <2>6, <2>7, <2>9 DEF Block, EndBlockStart
  <2>10. CASE GenesisRestart
    BY <2>10 DEF GenesisRestart, DaoRestart, TypeInv, TypeOK
  <2> QED BY <2>3, <2>8, <2>9, <2>10 DEF Next, BoundReached, vars
<1> QED BY <1>1, TypeInvHolds, LotsHold, PTL DEF Spec, GovernanceFreeze
=============================================================================
