-------------------------- MODULE DaoMoneyProofs ---------------------------
(***************************************************************************)
(* Proofs about the coins of the DAO: what its account holds, what the     *)
(* supply is made of, and how deposits come in and go out.                 *)
(***************************************************************************)
EXTENDS DaoProofs

(* The deposits of the proposals in voting.                                *)
Held ==
  Params.AddTldProposalCost * Cardinality(ActiveOf(TRUE))
    + Params.ProposalSubmissionDeposit * Cardinality(ActiveOf(FALSE))

LEMMA TimesSuccessor ==
  ASSUME NEW a \in Nat, NEW n \in Nat
  PROVE  a * (n + 1) = a * n + a /\ a * n \in Nat
OBVIOUS

LEMMA ActiveFinite ==
  ASSUME TypeInv
  PROVE  /\ IsFiniteSet(Active)
         /\ \A b \in BOOLEAN : /\ IsFiniteSet(ActiveOf(b))
                               /\ Cardinality(ActiveOf(b)) \in Nat
<1>1. IsFiniteSet(0 .. ProposalSeq - 1)
  BY FS_Interval DEF TypeInv, TypeOK
<1>2. IsFiniteSet(Active)
  BY <1>1, FS_Subset DEF TypeInv, TypeOK, Active
<1>3. ASSUME NEW b \in BOOLEAN
      PROVE  IsFiniteSet(ActiveOf(b)) /\ Cardinality(ActiveOf(b)) \in Nat
  <2>1. ActiveOf(b) \in SUBSET Active
    BY DEF ActiveOf
  <2> QED BY <1>2, <2>1, FS_Subset, FS_CardinalityType
<1> QED BY <1>2, <1>3

LEMMA HeldNat == ASSUME TypeInv PROVE Held \in Nat
<1> DEFINE m == Params.AddTldProposalCost * Cardinality(ActiveOf(TRUE))
           n == Params.ProposalSubmissionDeposit * Cardinality(ActiveOf(FALSE))
<1>1. m \in Nat /\ n \in Nat
  BY ActiveFinite, ParamsFacts, TimesSuccessor
<1>2. Held = m + n
  BY DEF Held
<1> HIDE DEF m, n
<1> QED BY <1>1, <1>2

(* What one more proposal in voting adds to the deposits.                  *)
LEMMA HeldGrows ==
  ASSUME TypeInv, NEW id, id \notin Active,
         Active' = Active \cup {id},
         \A j \in Active : Proposals'[j].Content = Proposals[j].Content
  PROVE  Held' = Held + DepositOf(Proposals'[id].Content)
<1> DEFINE c == Proposals'[id].Content
           S == ActiveOf(TRUE)
           T == ActiveOf(FALSE)
           x == Params.AddTldProposalCost
           y == Params.ProposalSubmissionDeposit
<1>1. /\ IsFiniteSet(S) /\ IsFiniteSet(T)
      /\ Cardinality(S) \in Nat /\ Cardinality(T) \in Nat
      /\ x \in Nat /\ y \in Nat
  BY ActiveFinite, ParamsFacts
<1>2. id \notin S /\ id \notin T
  BY DEF ActiveOf
<1>3. CASE IsAddTld(c)
  <2>1. S' = S \cup {id} /\ T' = T
    BY <1>3 DEF ActiveOf, IsAddTld
  <2>2. Cardinality(S') = Cardinality(S) + 1 /\ Cardinality(T') = Cardinality(T)
    BY <1>1, <1>2, <2>1, FS_AddElement
  <2>3. DepositOf(c) = x
    BY <1>3 DEF DepositOf
  <2>4. x * (Cardinality(S) + 1) = x * Cardinality(S) + x
        /\ x * Cardinality(S) \in Nat /\ y * Cardinality(T) \in Nat
    BY <1>1, TimesSuccessor
  <2>5. Held' = x * Cardinality(S') + y * Cardinality(T')
    BY DEF Held
  <2> HIDE DEF S, T, x, y
  <2>6. Held = x * Cardinality(S) + y * Cardinality(T)
    BY DEF Held, S, T, x, y
  <2> QED BY <1>1, <2>2, <2>3, <2>4, <2>5, <2>6
<1>4. CASE ~IsAddTld(c)
  <2>1. T' = T \cup {id} /\ S' = S
    BY <1>4 DEF ActiveOf, IsAddTld
  <2>2. Cardinality(T') = Cardinality(T) + 1 /\ Cardinality(S') = Cardinality(S)
    BY <1>1, <1>2, <2>1, FS_AddElement
  <2>3. DepositOf(c) = y
    BY <1>4 DEF DepositOf
  <2>4. y * (Cardinality(T) + 1) = y * Cardinality(T) + y
        /\ x * Cardinality(S) \in Nat /\ y * Cardinality(T) \in Nat
    BY <1>1, TimesSuccessor
  <2>5. Held' = x * Cardinality(S') + y * Cardinality(T')
    BY DEF Held
  <2> HIDE DEF S, T, x, y
  <2>6. Held = x * Cardinality(S) + y * Cardinality(T)
    BY DEF Held, S, T, x, y
  <2> QED BY <1>1, <2>2, <2>3, <2>4, <2>5, <2>6
<1> QED BY <1>3, <1>4

(* The deposit of a proposal in voting is among those held, and what is    *)
(* left when it is decided is the others'.                                 *)
LEMMA HeldShrinks ==
  ASSUME TypeInv, NEW id \in Active,
         Active' = Active \ {id},
         \A j \in Active : Proposals'[j].Content = Proposals[j].Content
  PROVE  Held = Held' + DepositOf(Proposals[id].Content) /\ Held' \in Nat
<1> DEFINE c == Proposals[id].Content
           S == ActiveOf(TRUE)
           T == ActiveOf(FALSE)
           x == Params.AddTldProposalCost
           y == Params.ProposalSubmissionDeposit
<1>1. /\ IsFiniteSet(S) /\ IsFiniteSet(T)
      /\ Cardinality(S) \in Nat /\ Cardinality(T) \in Nat
      /\ x \in Nat /\ y \in Nat
  BY ActiveFinite, ParamsFacts
<1>2. CASE IsAddTld(c)
  <2>1. S' = S \ {id} /\ T' = T /\ id \in S
    BY <1>2 DEF ActiveOf, IsAddTld
  <2>2. Cardinality(S') = Cardinality(S) - 1 /\ Cardinality(T') = Cardinality(T)
        /\ Cardinality(S') \in Nat
    BY <1>1, <2>1, FS_RemoveElement, FS_CardinalityType
  <2>3. DepositOf(c) = x
    BY <1>2 DEF DepositOf
  <2>4. x * (Cardinality(S') + 1) = x * Cardinality(S') + x
        /\ x * Cardinality(S') \in Nat /\ y * Cardinality(T) \in Nat
    BY <1>1, <2>2, TimesSuccessor
  <2>5. Held' = x * Cardinality(S') + y * Cardinality(T')
    BY DEF Held
  <2> HIDE DEF S, T, x, y
  <2>6. Held = x * Cardinality(S) + y * Cardinality(T)
    BY DEF Held, S, T, x, y
  <2>7. Cardinality(S) = Cardinality(S') + 1
    BY <1>1, <2>2
  <2> QED BY <1>1, <2>2, <2>3, <2>4, <2>5, <2>6, <2>7
<1>3. CASE ~IsAddTld(c)
  <2>1. T' = T \ {id} /\ S' = S /\ id \in T
    BY <1>3 DEF ActiveOf, IsAddTld
  <2>2. Cardinality(T') = Cardinality(T) - 1 /\ Cardinality(S') = Cardinality(S)
        /\ Cardinality(T') \in Nat
    BY <1>1, <2>1, FS_RemoveElement, FS_CardinalityType
  <2>3. DepositOf(c) = y
    BY <1>3 DEF DepositOf
  <2>4. y * (Cardinality(T') + 1) = y * Cardinality(T') + y
        /\ x * Cardinality(S) \in Nat /\ y * Cardinality(T') \in Nat
    BY <1>1, <2>2, TimesSuccessor
  <2>5. Held' = x * Cardinality(S') + y * Cardinality(T')
    BY DEF Held
  <2> HIDE DEF S, T, x, y
  <2>6. Held = x * Cardinality(S) + y * Cardinality(T)
    BY DEF Held, S, T, x, y
  <2>7. Cardinality(T) = Cardinality(T') + 1
    BY <1>1, <2>2
  <2> QED BY <1>1, <2>2, <2>3, <2>4, <2>5, <2>6, <2>7
<1> QED BY <1>2, <1>3

(* EscrowExact, said with Held.                                            *)
EscrowInv == bank.bal[DaoModule] = loose + Held

LEMMA EscrowMeaning == TypeInv /\ EscrowInv => EscrowExact
<1> SUFFICES ASSUME TypeInv, EscrowInv PROVE EscrowExact
  OBVIOUS
<1> DEFINE m == Params.AddTldProposalCost * Cardinality(ActiveOf(TRUE))
           n == Params.ProposalSubmissionDeposit * Cardinality(ActiveOf(FALSE))
<1>1. m \in Nat /\ n \in Nat
  BY ActiveFinite, ParamsFacts, TimesSuccessor
<1>2. Held = m + n /\ (EscrowExact <=> bank.bal[DaoModule] = loose + m + n)
  BY DEF Held, EscrowExact
<1>3. loose \in Nat
  BY DEF TypeInv, TypeOK
<1> HIDE DEF m, n
<1> QED BY <1>1, <1>2, <1>3 DEF EscrowInv

LEMMA TimesZero == ASSUME NEW a \in Nat PROVE a * 0 = 0
OBVIOUS

LEMMA NothingHeld ==
  /\ Active = {} => Held = 0
  /\ Active' = {} => Held' = 0
<1>1. ASSUME NEW S, S = {} PROVE Cardinality(S) = 0
  BY <1>1, FS_EmptySet
<1>2. /\ Params.AddTldProposalCost * 0 = 0
      /\ Params.ProposalSubmissionDeposit * 0 = 0
  BY ParamsFacts, TimesZero
<1>3. ASSUME Active = {} PROVE Held = 0
  <2>1. ActiveOf(TRUE) = {} /\ ActiveOf(FALSE) = {}
    BY <1>3 DEF ActiveOf
  <2>2. Cardinality(ActiveOf(TRUE)) = 0 /\ Cardinality(ActiveOf(FALSE)) = 0
    BY <1>1, <2>1
  <2>3. Held = 0 + 0
    BY <1>2, <2>2 DEF Held
  <2> QED BY <2>3
<1>4. ASSUME Active' = {} PROVE Held' = 0
  <2>1. ActiveOf(TRUE)' = {} /\ ActiveOf(FALSE)' = {}
    BY <1>4 DEF ActiveOf
  <2>2. Cardinality(ActiveOf(TRUE)') = 0 /\ Cardinality(ActiveOf(FALSE)') = 0
    BY <1>1, <2>1
  <2>3. Held' = 0 + 0
    BY <1>2, <2>2 DEF Held
  <2> QED BY <2>3
<1> QED BY <1>3, <1>4

LEMMA InitEscrow == Init => EscrowInv
<1> SUFFICES ASSUME Init PROVE EscrowInv
  OBVIOUS
<1>1. Held = 0
  BY NothingHeld DEF Init, NoEntries, Active
<1>2. bank.bal[DaoModule] = 0 /\ loose = 0
  BY AccountsFacts DEF Init
<1> QED BY <1>1, <1>2 DEF EscrowInv

LEMMA SubmitEscrow ==
  ASSUME TypeInv, EscrowInv,
         NEW who \in Users, NEW c \in Contents, SubmitProposal(who, c)
  PROVE  EscrowInv'
<1> DEFINE d == DepositOf(c)
<1>2. Active' = Active \cup {ProposalSeq} /\ ProposalSeq \notin Active
      /\ \A j \in Active : Proposals'[j].Content = Proposals[j].Content
  BY SubmitFacts DEF Active, Voting
<1>3. DepositOf(Proposals'[ProposalSeq].Content) = d
  BY SubmitFacts
<1>4. ProposalSeq \in Nat /\ d \in Nat /\ Held \in Nat /\ loose \in Nat
      /\ who \in Accounts /\ DaoModule \in Accounts /\ who # DaoModule
      /\ bank.bal[DaoModule] \in Nat
  BY DepositNat, HeldNat, AccountsFacts DEF TypeInv, TypeOK, BankType
<1>5. Held' = Held + d
  BY <1>2, <1>3, HeldGrows
<1>6. bank'.bal[DaoModule] = bank.bal[DaoModule] + d /\ loose' = loose
  <2>1. /\ bank' = SendCoins(bank, who, DaoModule, d) /\ CanPay(bank, who, d)
        /\ loose' = loose
    BY SubmitFacts
  <2> HIDE DEF d
  <2> QED BY <1>4, <2>1, SendBalanced DEF TypeInv
<1> HIDE DEF d
<1>7. bank.bal[DaoModule] = loose + Held
  BY DEF EscrowInv
<1>8. bank'.bal[DaoModule] = loose' + Held'
  BY <1>4, <1>5, <1>6, <1>7
<1> QED BY <1>8 DEF EscrowInv

(* Deciding a proposal: the bank always holds the deposit, so it is paid   *)
(* out once, and the supply changes by what the proposal issues.           *)
LEMMA ProcessMoney ==
  ASSUME TypeInv, EscrowInv, NEW id, ProcessProposal(id)
  PROVE  /\ bank'.bal[DaoModule] = loose' + Held'
         /\ bank'.supply = bank.supply + IssuedBy(Proposals'[id])
<1> DEFINE p == Proposals[id]
           c == p.Content
           d == DepositOf(c)
<1>1. /\ id \in DOMAIN Proposals /\ Voting(id) /\ p \in ProposalType
      /\ p.Proposer \in Users /\ c \in Contents
  BY ProcessCases DEF ProposalType
<1>2. ASSUME NEW status, Decided(id, status), status # "VOTING_PERIOD"
      PROVE  /\ Held = Held' + d /\ Held' \in Nat
             /\ Proposals'[id].Status = status /\ Proposals'[id].Content = c
  <2>1. Active' = Active \ {id}
    BY <1>1, <1>2 DEF Decided, Active, Voting
  <2>2. id \in Active
    BY <1>1 DEF Active
  <2>3. \A j \in Active : Proposals'[j].Content = Proposals[j].Content
    BY <1>2 DEF Decided, Active
  <2> QED BY <1>2, <2>1, <2>2, <2>3, HeldShrinks DEF Decided
<1>3. d \in Nat /\ loose \in Nat /\ Held \in Nat /\ bank.bal[DaoModule] = loose + Held
      /\ bank.supply \in Int
  BY DepositNat, HeldNat DEF TypeInv, TypeOK, BankType, EscrowInv
<1> HIDE DEF p
<1>4. ASSUME NEW b, Balanced(b), NEW status \in {"REJECTED", "EXECUTED", "FAILED"},
             Decided(id, status), bank' = SettleDeposit(b, p, status),
             NEW n \in Nat, b.bal[DaoModule] = bank.bal[DaoModule] + n
      PROVE  /\ bank'.bal[DaoModule] = loose + n + Held'
             /\ bank'.supply = IF status = "EXECUTED" THEN b.supply
                               ELSE b.supply - d
  <2>1. Held = Held' + d /\ Held' \in Nat
    BY <1>2, <1>4
  <2>2. CanPay(b, DaoModule, d)
    BY <1>3, <1>4, <2>1 DEF CanPay
  <2>3. /\ bank'.bal[DaoModule] = b.bal[DaoModule] - d
        /\ bank'.supply = IF status = "EXECUTED" THEN b.supply
                          ELSE b.supply - d
    BY <1>1, <1>4, <2>2, SettleBalanced
  <2> HIDE DEF d
  <2> QED BY <1>3, <1>4, <2>1, <2>3
<1>5. Balanced(bank) /\ bank.bal[DaoModule] = bank.bal[DaoModule] + 0
  BY <1>3 DEF TypeInv
<1>6. CASE Rejects(id)
  <2>1. /\ bank'.bal[DaoModule] = loose + 0 + Held'
        /\ bank'.supply = bank.supply - d
    BY <1>4, <1>5, <1>6 DEF Rejects, p
  <2>2. IssuedBy(Proposals'[id]) = -d /\ Held' \in Nat
    BY <1>2, <1>6 DEF Rejects, IssuedBy
  <2>3. loose' = loose
    BY <1>6 DEF Rejects
  <2> HIDE DEF d
  <2> QED BY <1>3, <2>1, <2>2, <2>3
<1>7. CASE RefusesTld(id)
  <2>1. /\ bank'.bal[DaoModule] = loose + 0 + Held'
        /\ bank'.supply = bank.supply - d
    BY <1>4, <1>5, <1>7 DEF RefusesTld, p
  <2>2. IssuedBy(Proposals'[id]) = -d /\ Held' \in Nat
    BY <1>2, <1>7 DEF RefusesTld, IssuedBy
  <2>3. loose' = loose
    BY <1>7 DEF RefusesTld
  <2> HIDE DEF d
  <2> QED BY <1>3, <2>1, <2>2, <2>3
<1>8. CASE AddsTld(id)
  <2>1. /\ bank'.bal[DaoModule] = loose + 0 + Held'
        /\ bank'.supply = bank.supply
    BY <1>4, <1>5, <1>8 DEF AddsTld, p
  <2>2. IssuedBy(Proposals'[id]) = 0 /\ Held' \in Nat
    BY <1>2, <1>8 DEF AddsTld, IssuedBy, p
  <2>3. loose' = loose
    BY <1>8 DEF AddsTld
  <2> HIDE DEF d
  <2> QED BY <1>3, <2>1, <2>2, <2>3
<1>9. CASE RefusesGrant(id)
  <2>1. ~IsAddTld(c) /\ c.amount \in Nat /\ c.recipient \in Accounts
    BY <1>1, <1>9, ContentFacts DEF RefusesGrant, p
  <2> DEFINE b == BurnCoins(MintCoins(bank, DaoModule, c.amount), DaoModule, c.amount)
  <2>2. /\ Balanced(b) /\ b.supply = bank.supply
        /\ b.bal[DaoModule] = bank.bal[DaoModule] + 0
    BY <1>5, <2>1, GrantBank
  <2>3. bank' = SettleDeposit(b, p, "FAILED") /\ Decided(id, "FAILED")
    BY <1>9 DEF RefusesGrant, p
  <2> HIDE DEF b
  <2>4. /\ bank'.bal[DaoModule] = loose + 0 + Held'
        /\ bank'.supply = bank.supply - d
    BY <1>4, <2>2, <2>3
  <2>5. IssuedBy(Proposals'[id]) = -d /\ Held' \in Nat
    BY <1>2, <2>3 DEF IssuedBy
  <2>6. loose' = loose
    BY <1>9 DEF RefusesGrant
  <2> HIDE DEF d
  <2> QED BY <1>3, <2>4, <2>5, <2>6
<1>10. CASE PaysGrant(id)
  <2>1. ~IsAddTld(c) /\ c.amount \in Nat /\ c.recipient \in Accounts
    BY <1>1, <1>10, ContentFacts DEF PaysGrant, p
  <2> DEFINE b == SendCoins(MintCoins(bank, DaoModule, c.amount), DaoModule,
                            c.recipient, c.amount)
             n == IF c.recipient = DaoModule THEN c.amount ELSE 0
  <2>2. /\ Balanced(b) /\ b.supply = bank.supply + c.amount
        /\ b.bal[DaoModule] = bank.bal[DaoModule] + n
    BY <2>1, GrantBank
  <2>3. bank' = SettleDeposit(b, p, "EXECUTED") /\ Decided(id, "EXECUTED")
    BY <1>10 DEF PaysGrant, p
  <2>4. n \in Nat /\ loose' = loose + n
    BY <1>3, <1>10, <2>1 DEF PaysGrant, p
  <2> HIDE DEF b, n
  <2>5. /\ bank'.bal[DaoModule] = loose + n + Held'
        /\ bank'.supply = b.supply
    BY <1>4, <2>2, <2>3, <2>4
  <2>6. IssuedBy(Proposals'[id]) = c.amount
    BY <1>2, <2>1, <2>3 DEF IssuedBy
  <2> QED BY <2>2, <2>4, <2>5, <2>6
<1> QED BY <1>6, <1>7, <1>8, <1>9, <1>10, ProcessCases

(* Coins that move outside the DAO: what reaches its account is loose.     *)
LEMMA BankSendMoney ==
  ASSUME TypeInv, NEW who \in Users, NEW to \in Accounts,
         NEW amt \in SendAmounts, BankSend(who, to, amt)
  PROVE  /\ EscrowInv => EscrowInv'
         /\ bank'.supply = bank.supply
         /\ UNCHANGED <<Proposals, Votes, inflated, restarts>>
<1>1. /\ CanPay(bank, who, amt) /\ bank' = SendCoins(bank, who, to, amt)
      /\ loose' = IF to = DaoModule THEN loose + amt ELSE loose
      /\ UNCHANGED <<Proposals, Votes, inflated, restarts>>
  BY DEF BankSend, blockVars
<1>2. /\ amt \in Nat /\ who \in Accounts /\ DaoModule \in Accounts
      /\ who # DaoModule /\ loose \in Nat /\ bank.bal[DaoModule] \in Nat
      /\ Balanced(bank)
  BY AccountsFacts, DaoAssumption
     DEF DaoAssumption, TypeInv, TypeOK, BankType
<1>3. /\ bank'.supply = bank.supply
      /\ bank'.bal[DaoModule] =
           IF to = DaoModule THEN bank.bal[DaoModule] + amt
                             ELSE bank.bal[DaoModule]
  <2> DEFINE b == SendCoins(bank, who, to, amt)
  <2>1. /\ b.supply = bank.supply
        /\ who # to => b.bal[to] = bank.bal[to] + amt
        /\ \A x \in Accounts \ {who, to} : b.bal[x] = bank.bal[x]
    BY <1>1, <1>2, SendBalanced
  <2> HIDE DEF b
  <2> QED BY <1>1, <1>2, <2>1 DEF b
<1>4. Held' = Held
  BY <1>1 DEF Held, ActiveOf, Active, Voting
<1> QED BY <1>1, <1>2, <1>3, <1>4, HeldNat DEF EscrowInv

LEMMA InflationMoney ==
  ASSUME TypeInv, NEW to \in Users, Inflation(to)
  PROVE  /\ EscrowInv => EscrowInv'
         /\ bank'.supply = bank.supply + 1
         /\ inflated' = inflated + 1
         /\ UNCHANGED <<Proposals, Votes, restarts>>
<1>1. /\ bank' = MintCoins(bank, to, 1) /\ inflated' = inflated + 1
      /\ UNCHANGED <<Proposals, Votes, loose, restarts>>
  BY DEF Inflation, blockVars
<1>2. to \in Accounts /\ DaoModule \in Accounts \ {to} /\ Balanced(bank)
  BY AccountsFacts DEF TypeInv
<1>3. /\ bank'.supply = bank.supply + 1
      /\ bank'.bal[DaoModule] = bank.bal[DaoModule]
  BY <1>1, <1>2, MintBalanced
<1>4. Held' = Held
  BY <1>1 DEF Held, ActiveOf, Active, Voting
<1> QED BY <1>1, <1>3, <1>4 DEF EscrowInv

(* After a restart every coin of the account is loose.                     *)
LEMMA RestartEscrow == ASSUME TypeInv, DaoRestart PROVE EscrowInv'
<1>1. Active' = {} /\ loose' = bank.bal[DaoModule] /\ bank' = bank
  BY DEF DaoRestart, NoEntries, Active
<1>2. bank.bal[DaoModule] \in Nat
  BY AccountsFacts DEF TypeInv, TypeOK, BankType
<1> QED BY <1>1, <1>2, NothingHeld DEF EscrowInv

LEMMA NextEscrow == TypeInv /\ EscrowInv /\ [Next]_vars => EscrowInv'
<1> SUFFICES ASSUME TypeInv, EscrowInv, [Next]_vars PROVE EscrowInv'
  OBVIOUS
<1>1. CASE UNCHANGED <<Proposals, bank, loose>>
  BY <1>1 DEF EscrowInv, Held, ActiveOf, Active, Voting
<1>2. CASE Deliver
  BY <1>1, <1>2, SubmitEscrow, BankSendMoney, InflationMoney
     DEF Deliver, Vote, coinVars
<1>3. CASE Block
  BY <1>1, <1>3, ProcessMoney DEF Block, EndBlockStart, Commit, coinVars, EscrowInv
<1>4. CASE GenesisRestart
  BY <1>4, RestartEscrow DEF GenesisRestart
<1> QED BY <1>1, <1>2, <1>3, <1>4 DEF Next, BoundReached, vars

(* The balance of the DAO account is the sum of the deposits in voting and *)
(* of the coins that came in otherwise, after every SubmitProposal, every  *)
(* proposal EndBlocker settles and every restart.                          *)
THEOREM EscrowInvHolds == Spec => []EscrowInv
BY TypeInvHolds, InitEscrow, NextEscrow, PTL DEF Spec

(* The DAO account holds exactly the deposits of the proposals in voting   *)
(* and the coins that came in otherwise, so SubmitProposal collects every  *)
(* deposit and EndBlocker settles it exactly once, and no refund or burn,  *)
(* whose error EndBlocker only logs, is ever refused by the bank.          *)
THEOREM DepositsExact == Spec => []EscrowExact
BY TypeInvHolds, EscrowInvHolds, EscrowMeaning, PTL

-----------------------------------------------------------------------------
(***************************************************************************)
(* The supply.                                                             *)
(***************************************************************************)
LEMMA IssuedByInt ==
  ASSUME NEW p, p \in ProposalType
  PROVE  IssuedBy(p) \in Int
<1>1. DepositOf(p.Content) \in Nat
  BY DepositNat
<1>2. ~IsAddTld(p.Content) => p.Content.amount \in Nat
  BY ContentFacts DEF ProposalType
<1> QED BY <1>1, <1>2 DEF IssuedBy

(* The table that Issued adds up.                                          *)
IssuedTable == [id \in DOMAIN Proposals |-> IssuedBy(Proposals[id])]

LEMMA IssuedFacts ==
  ASSUME TypeInv
  PROVE  /\ IsFiniteSet(DOMAIN Proposals)
         /\ \A id \in DOMAIN Proposals : IssuedTable[id] \in Int
         /\ Issued = SumFunctionOnSet(IssuedTable, DOMAIN Proposals)
         /\ Issued \in Int
         /\ Issued' = SumFunctionOnSet(IssuedTable', DOMAIN Proposals')
<1>1. IsFiniteSet(DOMAIN Proposals)
  BY FS_Interval DEF TypeInv, TypeOK
<1>2. \A id \in DOMAIN Proposals : IssuedTable[id] \in Int
  BY IssuedByInt DEF IssuedTable, TypeInv, TypeOK
<1>3. Issued = SumFunctionOnSet(IssuedTable, DOMAIN Proposals)
  BY DEF Issued, IssuedTable, SumFunction
<1>4. Issued' = SumFunctionOnSet(IssuedTable', DOMAIN Proposals')
  BY DEF Issued, IssuedTable, SumFunction
<1> QED BY <1>1, <1>2, <1>3, <1>4, SumInt

(* A proposal in voting has issued nothing yet.                            *)
LEMMA SubmitIssued ==
  ASSUME TypeInv, NEW who \in Users, NEW c \in Contents, SubmitProposal(who, c)
  PROVE  Issued' = Issued /\ bank'.supply = bank.supply
<1> DEFINE S == DOMAIN Proposals
           f == IssuedTable
           g == IssuedTable'
<1>1. /\ ProposalSeq \notin S /\ DOMAIN Proposals' = S \cup {ProposalSeq}
      /\ \A j \in S : Proposals'[j] = Proposals[j]
      /\ Proposals'[ProposalSeq].Status = "VOTING_PERIOD"
  BY SubmitFacts
<1>2. \A j \in S : f[j] = g[j]
  BY <1>1 DEF IssuedTable
<1>3. g[ProposalSeq] = 0
  BY <1>1 DEF IssuedTable, IssuedBy
<1>4. /\ IsFiniteSet(S) /\ \A j \in S : f[j] \in Int
      /\ Issued = SumFunctionOnSet(f, S) /\ Issued \in Int
      /\ Issued' = SumFunctionOnSet(g, S \cup {ProposalSeq})
  BY <1>1, IssuedFacts
<1> HIDE DEF f, g, S
<1>5. SumFunctionOnSet(g, S \cup {ProposalSeq}) = SumFunctionOnSet(g, S) + 0
  BY <1>1, <1>2, <1>3, <1>4, SumAdd
<1>6. SumFunctionOnSet(g, S) = SumFunctionOnSet(f, S)
  BY <1>2, <1>4, SumSame
<1>7. bank'.supply = bank.supply
  <2>1. /\ bank' = SendCoins(bank, who, DaoModule, DepositOf(c))
        /\ CanPay(bank, who, DepositOf(c)) /\ Balanced(bank)
        /\ who \in Accounts /\ DaoModule \in Accounts /\ DepositOf(c) \in Nat
    BY SubmitFacts, AccountsFacts, DepositNat DEF TypeInv
  <2> QED BY <2>1, SendBalanced
<1> QED BY <1>4, <1>5, <1>6, <1>7

LEMMA ProcessIssued ==
  ASSUME TypeInv, NEW id, ProcessProposal(id)
  PROVE  /\ Issued' = Issued + IssuedBy(Proposals'[id])
         /\ IssuedBy(Proposals'[id]) \in Int
<1> DEFINE S == DOMAIN Proposals
           f == IssuedTable
           g == IssuedTable'
<1>1. /\ id \in S /\ Voting(id) /\ Proposals'[id] \in ProposalType
      /\ \E status : Decided(id, status)
  BY ProcessCases DEF Rejects, AddsTld, RefusesTld, RefusesGrant, PaysGrant
<1>2. /\ DOMAIN Proposals' = S
      /\ \A j \in S : j # id => Proposals'[j] = Proposals[j]
  BY <1>1 DEF Decided
<1>3. f[id] = 0 /\ g[id] = IssuedBy(Proposals'[id])
  BY <1>1, <1>2 DEF IssuedTable, IssuedBy, Voting
<1>4. \A j \in S \ {id} : f[j] = g[j]
  BY <1>2 DEF IssuedTable
<1>5. IssuedBy(Proposals'[id]) \in Int
  BY <1>1, IssuedByInt
<1>6. /\ IsFiniteSet(S) /\ \A j \in S : f[j] \in Int
      /\ Issued = SumFunctionOnSet(f, S) /\ Issued \in Int
      /\ Issued' = SumFunctionOnSet(g, S)
  BY <1>2, IssuedFacts
<1> HIDE DEF f, g, S
<1>7. \A j \in S : g[j] \in Int
  BY <1>3, <1>4, <1>5, <1>6
<1>8. SumFunctionOnSet(g, S) = SumFunctionOnSet(f, S) + (g[id] - f[id])
  BY <1>1, <1>4, <1>6, <1>7, SumChange
<1> QED BY <1>3, <1>5, <1>6, <1>8

LEMMA InitialSupplyInt == InitialSupply \in Int
<1>1. InitialBalance \in [Users -> Nat] /\ IsFiniteSet(Users)
  BY DaoAssumption DEF DaoAssumption
<1>2. InitialSupply = SumFunctionOnSet(InitialBalance, Users)
  BY <1>1 DEF InitialSupply, SumFunction
<1> QED BY <1>1, <1>2, SumInt

LEMMA InitSupply == Init => SupplyAccounted
<1> SUFFICES ASSUME Init PROVE SupplyAccounted
  OBVIOUS
<1> DEFINE f == IssuedTable
<1>1. DOMAIN Proposals = {} /\ bank.supply = InitialSupply /\ inflated = 0
  BY DEF Init, NoEntries
<1>2. Issued = SumFunctionOnSet(f, {})
  BY <1>1, IssuedFacts, InitTypeInv
<1> HIDE DEF f
<1>3. Issued = 0
  BY <1>2, SumEmpty
<1> QED BY <1>1, <1>3, InitialSupplyInt DEF SupplyAccounted

(* In every step but a restart the supply changes by what x/mint adds and  *)
(* by what a decided proposal issues.                                      *)
LEMMA SupplyStep ==
  ASSUME TypeInv, EscrowInv, [Next]_vars
  PROVE  \/ restarts' = restarts + 1
         \/ /\ restarts' = restarts
            /\ bank'.supply - inflated' - Issued'
                 = bank.supply - inflated - Issued
            /\ bank'.supply \in Int /\ inflated' \in Int /\ Issued' \in Int
<1> DEFINE Kept ==
             /\ restarts' = restarts
             /\ bank'.supply - inflated' - Issued'
                  = bank.supply - inflated - Issued
             /\ bank'.supply \in Int /\ inflated' \in Int /\ Issued' \in Int
<1>1. Issued \in Int /\ inflated \in Int /\ bank.supply \in Int
  BY IssuedFacts DEF TypeInv, TypeOK, BankType
<1>2. CASE UNCHANGED <<Proposals, bank, inflated, restarts>>
  <2>1. Issued' = Issued
    BY <1>2 DEF Issued
  <2> QED BY <1>1, <1>2, <2>1
<1>3. ASSUME NEW who \in Users, NEW c \in Contents, SubmitProposal(who, c)
      PROVE  Kept
  <2>1. UNCHANGED <<inflated, restarts>>
    BY <1>3, SubmitFacts
  <2>2. Issued' = Issued /\ bank'.supply = bank.supply
    BY <1>3, SubmitIssued
  <2> QED BY <1>1, <2>1, <2>2
<1>4. ASSUME NEW who \in Users, NEW to \in Accounts, NEW amt \in SendAmounts,
             BankSend(who, to, amt)
      PROVE  Kept
  <2>1. bank'.supply = bank.supply /\ UNCHANGED <<Proposals, inflated, restarts>>
    BY <1>4, BankSendMoney
  <2>2. Issued' = Issued
    BY <2>1 DEF Issued
  <2> QED BY <1>1, <2>1, <2>2
<1>5. ASSUME NEW to \in Users, Inflation(to) PROVE Kept
  <2>1. /\ bank'.supply = bank.supply + 1 /\ inflated' = inflated + 1
        /\ UNCHANGED <<Proposals, restarts>>
    BY <1>5, InflationMoney
  <2>2. Issued' = Issued
    BY <2>1 DEF Issued
  <2> QED BY <1>1, <2>1, <2>2
<1>6. ASSUME NEW id, ProcessProposal(id) PROVE Kept
  <2>1. UNCHANGED <<inflated, restarts>>
    BY <1>6 DEF ProcessProposal
  <2> DEFINE n == IssuedBy(Proposals'[id])
  <2>2. bank'.supply = bank.supply + n
    BY <1>6, ProcessMoney
  <2>3. Issued' = Issued + n /\ n \in Int
    BY <1>6, ProcessIssued
  <2> HIDE DEF n
  <2> QED BY <1>1, <2>1, <2>2, <2>3
<1>7. CASE Deliver
  BY <1>2, <1>3, <1>4, <1>5, <1>7 DEF Deliver, Vote, coinVars, blockVars
<1>8. CASE Block
  BY <1>2, <1>6, <1>8 DEF Block, EndBlockStart, Commit, coinVars
<1>9. CASE GenesisRestart
  BY <1>9 DEF GenesisRestart, DaoRestart
<1> QED BY <1>2, <1>7, <1>8, <1>9 DEF Next, BoundReached, vars

LEMMA NextSupply ==
  TypeInv /\ EscrowInv /\ SupplyAccounted /\ [Next]_vars => SupplyAccounted'
<1> SUFFICES ASSUME TypeInv, EscrowInv, SupplyAccounted, [Next]_vars, restarts' = 0
             PROVE  bank'.supply = InitialSupply + inflated' + Issued'
  BY DEF SupplyAccounted
<1>1. /\ Issued \in Int /\ inflated \in Int /\ bank.supply \in Int
      /\ InitialSupply \in Int /\ restarts \in Nat
  BY IssuedFacts, InitialSupplyInt DEF TypeInv, TypeOK, BankType
<1>2. /\ restarts = 0
      /\ bank'.supply - inflated' - Issued' = bank.supply - inflated - Issued
      /\ bank'.supply \in Int /\ inflated' \in Int /\ Issued' \in Int
  BY <1>1, SupplyStep
<1> QED BY <1>1, <1>2 DEF SupplyAccounted

(* Until the first restart the supply, which quorums are measured against, *)
(* is the genesis supply, what x/mint added and what the decided proposals *)
(* issued: EndBlocker mints a grant once, burns a refused one again, and   *)
(* burns the deposits of the rejected and failed proposals and no other.   *)
THEOREM SupplyExplained == Spec => []SupplyAccounted
BY TypeInvHolds, EscrowInvHolds, InitSupply, NextSupply, PTL DEF Spec

-----------------------------------------------------------------------------
(***************************************************************************)
(* The DAO implements Escrow.  What an account has in deposits, and its    *)
(* worth, are written for given proposals P, of which those in A are in    *)
(* voting, so that the same facts serve the two ends of a step.            *)
(***************************************************************************)
Stakes(P, A) == [i \in A |-> DepositOf(P[i].Content)]

StakesOf(P, A, a) == {i \in A : a \in {DaoModule, P[i].Proposer}}

HeldFor(P, A, a) == SumFunctionOnSet(Stakes(P, A), StakesOf(P, A, a))

WorthOf(P, A, b) ==
  [a \in Accounts |-> IF a = DaoModule THEN b.bal[a] - HeldFor(P, A, a)
                                       ELSE b.bal[a] + HeldFor(P, A, a)]

DepositsIn(P, A) ==
  [i \in A |-> [by |-> P[i].Proposer, amt |-> DepositOf(P[i].Content)]]

LEMMA StakesFacts ==
  ASSUME NEW P, NEW A, IsFiniteSet(A), NEW a
  PROVE  /\ \A i \in A : Stakes(P, A)[i] \in Nat
         /\ IsFiniteSet(StakesOf(P, A, a))
         /\ HeldFor(P, A, a) \in Nat
<1>1. \A i \in A : Stakes(P, A)[i] \in Nat
  BY DepositNat DEF Stakes
<1>2. IsFiniteSet(StakesOf(P, A, a)) /\ StakesOf(P, A, a) \subseteq A
  BY FS_Subset DEF StakesOf
<1>3. HeldFor(P, A, a) \in Nat
  BY <1>1, <1>2, SumNat DEF HeldFor
<1> QED BY <1>1, <1>2, <1>3

(* A sum over some of the records of deposits is a sum of stakes.          *)
LEMMA SumOfDeposits ==
  ASSUME NEW P, NEW A, IsFiniteSet(A), NEW O, O \subseteq A
  PROVE  SumFunction([id \in O |-> DepositsIn(P, A)[id].amt])
           = SumFunctionOnSet(Stakes(P, A), O)
<1> DEFINE f == [id \in O |-> DepositsIn(P, A)[id].amt]
<1>1. IsFiniteSet(O)
  BY FS_Subset
<1>2. \A id \in O : f[id] = Stakes(P, A)[id]
  BY DEF DepositsIn, Stakes
<1>3. SumFunction(f) = SumFunctionOnSet(f, O)
  BY DEF SumFunction
<1> HIDE DEF f
<1>4. SumFunction(f) = SumFunctionOnSet(Stakes(P, A), O)
  BY <1>1, <1>2, <1>3, SumSame
<1> QED BY <1>4 DEF f

LEMMA WorthMeaning ==
  /\ DepositsHeld = DepositsIn(Proposals, Active)
  /\ DepositsHeld' = DepositsIn(Proposals', Active')
  /\ IsFiniteSet(Active) => Worth = WorthOf(Proposals, Active, bank)
  /\ IsFiniteSet(Active') => Worth' = WorthOf(Proposals', Active', bank')
<1> DEFINE W(P, A, b) ==
             [a \in Accounts |->
                LET own == {id \in A : a \in {DaoModule, P[id].Proposer}}
                    sum == SumFunction([id \in own |-> DepositsIn(P, A)[id].amt])
                IN  IF a = DaoModule THEN b.bal[a] - sum ELSE b.bal[a] + sum]
<1>1. ASSUME NEW P, NEW A, IsFiniteSet(A), NEW b
      PROVE  W(P, A, b) = WorthOf(P, A, b)
  <2>1. ASSUME NEW a \in Accounts
        PROVE  W(P, A, b)[a] = WorthOf(P, A, b)[a]
    <3> DEFINE O == {id \in A : a \in {DaoModule, P[id].Proposer}}
    <3>1. O \subseteq A /\ O = StakesOf(P, A, a)
      BY DEF StakesOf
    <3> HIDE DEF O
    <3>2. SumFunction([id \in O |-> DepositsIn(P, A)[id].amt])
            = SumFunctionOnSet(Stakes(P, A), O)
      BY <1>1, <3>1, SumOfDeposits, Zenon
    <3>3. SumFunction([id \in O |-> DepositsIn(P, A)[id].amt]) = HeldFor(P, A, a)
      BY <3>1, <3>2 DEF HeldFor
    <3> QED BY <2>1, <3>3 DEF WorthOf, O
  <2> QED BY <2>1 DEF WorthOf
<1>2. /\ DepositsHeld = DepositsIn(Proposals, Active)
      /\ DepositsHeld' = DepositsIn(Proposals', Active')
  BY DEF DepositsHeld, DepositsIn
<1>3. Worth = W(Proposals, Active, bank)
  BY <1>2 DEF Worth
<1>4. Worth' = W(Proposals', Active', bank')
  BY <1>2 DEF Worth
<1> HIDE DEF W
<1> QED BY <1>1, <1>2, <1>3, <1>4

(* A deposit more, and, read from right to left, one less.                 *)
LEMMA HeldForMore ==
  ASSUME NEW P, NEW Q, NEW A, IsFiniteSet(A), NEW id, id \notin A,
         \A j \in A : /\ Q[j].Content = P[j].Content
                      /\ Q[j].Proposer = P[j].Proposer,
         NEW a
  PROVE  HeldFor(Q, A \cup {id}, a) =
           HeldFor(P, A, a) + IF a \in {DaoModule, Q[id].Proposer}
                                THEN DepositOf(Q[id].Content) ELSE 0
<1> DEFINE f == Stakes(P, A)
           g == Stakes(Q, A \cup {id})
           S == StakesOf(P, A, a)
           T == StakesOf(Q, A \cup {id}, a)
<1>1. IsFiniteSet(A \cup {id})
  BY FS_AddElement
<1>2. /\ \A j \in A : f[j] \in Nat
      /\ \A j \in A \cup {id} : g[j] \in Nat
      /\ IsFiniteSet(S) /\ HeldFor(P, A, a) \in Nat
  BY <1>1, StakesFacts
<1>3. S \subseteq A /\ (\A j \in A : g[j] = f[j]) /\ g[id] = DepositOf(Q[id].Content)
  BY DEF Stakes, StakesOf
<1>4. T = IF a \in {DaoModule, Q[id].Proposer} THEN S \cup {id} ELSE S
  BY DEF StakesOf
<1>5. HeldFor(P, A, a) = SumFunctionOnSet(f, S)
      /\ HeldFor(Q, A \cup {id}, a) = SumFunctionOnSet(g, T)
  BY DEF HeldFor
<1> HIDE DEF f, g, S, T
<1>6. SumFunctionOnSet(g, S) = SumFunctionOnSet(f, S)
  <2>1. \A j \in S : g[j] = f[j]
    BY <1>3
  <2> QED BY <1>2, <2>1, SumSame
<1>7. SumFunctionOnSet(g, S \cup {id}) = SumFunctionOnSet(g, S) + g[id]
  <2>1. id \notin S /\ \A j \in S \cup {id} : g[j] \in Int
    BY <1>2, <1>3
  <2> QED BY <1>2, <2>1, SumAdd
<1> QED BY <1>2, <1>3, <1>4, <1>5, <1>6, <1>7

LEMMA HeldForLess ==
  ASSUME NEW P, NEW Q, NEW A, IsFiniteSet(A), NEW id \in A, NEW B, B = A \ {id},
         \A j \in B : /\ Q[j].Content = P[j].Content
                      /\ Q[j].Proposer = P[j].Proposer,
         NEW a
  PROVE  HeldFor(P, A, a) =
           HeldFor(Q, B, a) + IF a \in {DaoModule, P[id].Proposer}
                                THEN DepositOf(P[id].Content) ELSE 0
<1>1. IsFiniteSet(B) /\ id \notin B /\ A = B \cup {id}
  BY FS_Subset
<1>2. \A j \in B : /\ P[j].Content = Q[j].Content
                   /\ P[j].Proposer = Q[j].Proposer
  OBVIOUS
<1>3. HeldFor(P, B \cup {id}, a) =
        HeldFor(Q, B, a) + IF a \in {DaoModule, P[id].Proposer}
                             THEN DepositOf(P[id].Content) ELSE 0
  BY <1>1, <1>2, HeldForMore
<1> QED BY <1>1, <1>3

(* Every account's balance, when a deposit is settled and when a grant is  *)
(* refused or paid.                                                        *)
LEMMA SettleAccounts ==
  ASSUME NEW b, Balanced(b), NEW p, p.Proposer \in Users, NEW status,
         CanPay(b, DaoModule, DepositOf(p.Content)), NEW a \in Accounts
  PROVE  SettleDeposit(b, p, status).bal[a] =
           IF a = DaoModule THEN b.bal[a] - DepositOf(p.Content)
           ELSE IF status = "EXECUTED" /\ a = p.Proposer
                  THEN b.bal[a] + DepositOf(p.Content)
           ELSE b.bal[a]
<1> DEFINE d == DepositOf(p.Content)
<1>1. d \in Nat
  BY DepositNat
<1>2. /\ DaoModule \in Accounts /\ p.Proposer \in Accounts
      /\ DaoModule # p.Proposer
  BY AccountsFacts
<1> HIDE DEF d
<1>3. CASE status = "EXECUTED"
  <2> DEFINE m == SendCoins(b, DaoModule, p.Proposer, d)
  <2>1. SettleDeposit(b, p, status) = m
    BY <1>3 DEF SettleDeposit, d
  <2>2. /\ m.bal[DaoModule] = b.bal[DaoModule] - d
        /\ m.bal[p.Proposer] = b.bal[p.Proposer] + d
        /\ \A x \in Accounts \ {DaoModule, p.Proposer} : m.bal[x] = b.bal[x]
    BY <1>1, <1>2, SendBalanced DEF d
  <2> HIDE DEF m
  <2> QED BY <1>3, <2>1, <2>2 DEF d
<1>4. CASE status # "EXECUTED"
  <2> DEFINE m == BurnCoins(b, DaoModule, d)
  <2>1. SettleDeposit(b, p, status) = m
    BY <1>4 DEF SettleDeposit, d
  <2>2. /\ m.bal[DaoModule] = b.bal[DaoModule] - d
        /\ \A x \in Accounts \ {DaoModule} : m.bal[x] = b.bal[x]
    BY <1>1, <1>2, BurnBalanced DEF d
  <2> HIDE DEF m
  <2> QED BY <1>4, <2>1, <2>2 DEF d
<1> QED BY <1>3, <1>4

LEMMA GrantAccounts ==
  ASSUME TypeInv, NEW n \in Nat, NEW to \in Accounts, NEW a \in Accounts
  PROVE  LET minted == MintCoins(bank, DaoModule, n)
         IN  /\ BurnCoins(minted, DaoModule, n).bal[a] = bank.bal[a]
             /\ SendCoins(minted, DaoModule, to, n).bal[a]
                  = bank.bal[a] + IF a = to THEN n ELSE 0
<1> DEFINE m == MintCoins(bank, DaoModule, n)
           r == BurnCoins(m, DaoModule, n)
           s == SendCoins(m, DaoModule, to, n)
<1>1. /\ Balanced(bank) /\ DaoModule \in Accounts
      /\ \A x \in Accounts : bank.bal[x] \in Nat
  BY AccountsFacts DEF TypeInv, Balanced, BankType
<1>2. /\ Balanced(m) /\ m.bal[DaoModule] = bank.bal[DaoModule] + n
      /\ \A x \in Accounts \ {DaoModule} : m.bal[x] = bank.bal[x]
  BY <1>1, MintBalanced
<1> HIDE DEF m
<1>3. CanPay(m, DaoModule, n)
  BY <1>1, <1>2 DEF CanPay
<1>4. /\ r.bal[DaoModule] = m.bal[DaoModule] - n
      /\ \A x \in Accounts \ {DaoModule} : r.bal[x] = m.bal[x]
  BY <1>1, <1>2, <1>3, BurnBalanced
<1>5. /\ to = DaoModule => s.bal = m.bal
      /\ to # DaoModule => /\ s.bal[DaoModule] = m.bal[DaoModule] - n
                           /\ s.bal[to] = m.bal[to] + n
      /\ \A x \in Accounts \ {DaoModule, to} : s.bal[x] = m.bal[x]
  BY <1>1, <1>2, <1>3, SendBalanced
<1> HIDE DEF r, s
<1>6. r.bal[a] = bank.bal[a]
  BY <1>1, <1>2, <1>4
<1>7. s.bal[a] = bank.bal[a] + IF a = to THEN n ELSE 0
  BY <1>1, <1>2, <1>5
<1> QED BY <1>6, <1>7 DEF m, r, s

(* A proposal is decided while the bank is at b: what everybody is worth.  *)
LEMMA WorthAfterDecision ==
  ASSUME TypeInv, NEW id \in Active,
         NEW status \in {"REJECTED", "EXECUTED", "FAILED"}, Decided(id, status),
         NEW b, Balanced(b), CanPay(b, DaoModule, DepositOf(Proposals[id].Content)),
         bank' = SettleDeposit(b, Proposals[id], status),
         NEW gain \in [Accounts -> Int],
         \A a \in Accounts : b.bal[a] = bank.bal[a] + gain[a]
  PROVE  /\ Worth \in [Accounts -> Int]
         /\ Worth' = [a \in Accounts |->
              Worth[a] + gain[a] -
                IF status # "EXECUTED" /\ a = Proposals[id].Proposer
                  THEN DepositOf(Proposals[id].Content) ELSE 0]
         /\ DepositsHeld' = Del(DepositsHeld, id)
<1> DEFINE p == Proposals[id]
           d == DepositOf(p.Content)
           H(a) == HeldFor(Proposals, Active, a)
           G(a) == HeldFor(Proposals', Active', a)
<1>1. /\ Active' = Active \ {id} /\ Active = Active' \cup {id}
      /\ id \notin Active' /\ IsFiniteSet(Active) /\ IsFiniteSet(Active')
  <2>1. Active' = Active \ {id}
    BY DEF Decided, Active, Voting
  <2> QED BY <2>1, ActiveFinite, FS_Subset
<1>2. \A j \in Active' : /\ Proposals[j].Content = Proposals'[j].Content
                         /\ Proposals[j].Proposer = Proposals'[j].Proposer
  BY <1>1 DEF Decided, Active
<1>3. /\ Worth = WorthOf(Proposals, Active, bank)
      /\ Worth' = WorthOf(Proposals', Active', bank')
      /\ DepositsHeld = DepositsIn(Proposals, Active)
      /\ DepositsHeld' = DepositsIn(Proposals', Active')
  BY <1>1, WorthMeaning
<1>4. /\ d \in Nat /\ p.Proposer \in Users /\ p.Proposer # DaoModule
      /\ \A a \in Accounts : bank.bal[a] \in Int
  BY DepositNat, AccountsFacts, SMTT(30)
     DEF TypeInv, TypeOK, BankType, Active, ProposalType
<1>5. ASSUME NEW a \in Accounts
      PROVE  /\ Worth[a] \in Int
             /\ Worth'[a] = Worth[a] + gain[a] -
                  IF status # "EXECUTED" /\ a = p.Proposer THEN d ELSE 0
  <2>1. H(a) \in Nat /\ G(a) \in Nat
    BY <1>1, StakesFacts
  <2>2. H(a) = G(a) + IF a \in {DaoModule, p.Proposer} THEN d ELSE 0
    BY <1>1, <1>2, HeldForLess
  <2>3. bank'.bal[a] =
          IF a = DaoModule THEN b.bal[a] - d
          ELSE IF status = "EXECUTED" /\ a = p.Proposer THEN b.bal[a] + d
          ELSE b.bal[a]
    BY <1>4, <1>5, SettleAccounts
  <2>4. Worth[a] = IF a = DaoModule THEN bank.bal[a] - H(a)
                                    ELSE bank.bal[a] + H(a)
    BY <1>3, <1>5 DEF WorthOf
  <2>5. Worth'[a] = IF a = DaoModule THEN bank'.bal[a] - G(a)
                                     ELSE bank'.bal[a] + G(a)
    BY <1>3, <1>5 DEF WorthOf
  <2>6. b.bal[a] = bank.bal[a] + gain[a] /\ gain[a] \in Int /\ bank.bal[a] \in Int
    BY <1>4, <1>5
  <2> HIDE DEF H, G, d, p
  <2>7. CASE a = DaoModule
    BY <1>4, <2>1, <2>2, <2>3, <2>4, <2>5, <2>6, <2>7
  <2>8. CASE a # DaoModule /\ a = p.Proposer
    BY <1>4, <2>1, <2>2, <2>3, <2>4, <2>5, <2>6, <2>8
  <2>9. CASE a # DaoModule /\ a # p.Proposer
    BY <1>4, <2>1, <2>2, <2>3, <2>4, <2>5, <2>6, <2>9
  <2> QED BY <2>7, <2>8, <2>9
<1>6. Worth \in [Accounts -> Int]
  BY <1>3, <1>5 DEF WorthOf
<1>7. Worth' = [a \in Accounts |->
         Worth[a] + gain[a] -
           IF status # "EXECUTED" /\ a = p.Proposer THEN d ELSE 0]
  BY <1>3, <1>5 DEF WorthOf
<1>8. DepositsHeld' = Del(DepositsHeld, id)
  BY <1>1, <1>2, <1>3 DEF DepositsIn, Del
<1> QED BY <1>6, <1>7, <1>8

(* Escrow's Add, Put and Del are those of the DAO's modules.               *)
LEMMA EscrowOperators ==
  ASSUME NEW f, NEW k, NEW v
  PROVE  /\ AbstractEscrow!Put(f, k, v) = Put(f, k, v)
         /\ AbstractEscrow!Del(f, k) = Del(f, k)
         /\ AbstractEscrow!SumFunction(f) = SumFunction(f)
<1>1. AbstractEscrow!SumFunction(f) = TableOf(f, DOMAIN f)[DOMAIN f]
  BY DEF AbstractEscrow!SumFunction, AbstractEscrow!SumFunctionOnSet,
         AbstractEscrow!FoldFunctionOnSet, AbstractEscrow!MapThenFoldSet,
         TableOf, SumsOver, First
<1>2. SumFunction(f) = TableOf(f, DOMAIN f)[DOMAIN f]
  BY TableSum DEF SumFunction
<1> QED BY <1>1, <1>2
        DEF AbstractEscrow!Put, AbstractEscrow!Del, Put, Del

LEMMA InitImplements == Init => AbstractEscrow!Init
<1> SUFFICES ASSUME Init PROVE AbstractEscrow!Init
  OBVIOUS
<1>1. TypeInv
  BY InitTypeInv
<1>2. Active = {}
  BY DEF Init, NoEntries, Active
<1>3. DepositsHeld = [id \in {} |-> id]
  BY <1>2 DEF DepositsHeld
<1>4. Worth = WorthOf(Proposals, Active, bank)
  BY <1>2, FS_EmptySet, WorthMeaning
<1>5. ASSUME NEW a \in Accounts PROVE Worth[a] \in 0 .. bank.supply
  <2> DEFINE f == Stakes(Proposals, Active)
  <2>1. HeldFor(Proposals, Active, a) = SumFunctionOnSet(f, {})
    BY <1>2 DEF HeldFor, StakesOf
  <2> HIDE DEF f
  <2>2. HeldFor(Proposals, Active, a) = 0
    BY <2>1, SumEmpty
  <2>3. bank.bal \in [Accounts -> Nat] /\ bank.supply \in Int
        /\ bank.supply = SumFunctionOnSet(bank.bal, Accounts)
    BY <1>1 DEF TypeInv, Balanced, BankType
  <2>4. bank.bal[a] <= SumFunctionOnSet(bank.bal, Accounts) /\ bank.bal[a] \in Nat
    BY <1>5, <2>3, AccountsFacts, SumPart
  <2>5. Worth[a] = bank.bal[a]
    BY <1>4, <1>5, <2>2, <2>4 DEF WorthOf
  <2> QED BY <2>3, <2>4, <2>5
<1>6. Worth \in [Accounts -> 0 .. bank.supply]
  BY <1>4, <1>5 DEF WorthOf
<1> QED BY <1>3, <1>6 DEF AbstractEscrow!Init

(* Nothing that Escrow sees changes.                                       *)
LEMMA StutterImplements ==
  ASSUME UNCHANGED <<Proposals, bank>>
  PROVE  UNCHANGED AbstractEscrow!vars
<1>1. Active' = Active
  BY DEF Active, Voting
<1>2. DepositsHeld' = DepositsHeld
  BY <1>1 DEF DepositsHeld
<1>3. Worth' = Worth
  BY <1>1, <1>2 DEF Worth
<1> QED BY <1>2, <1>3 DEF AbstractEscrow!vars

LEMMA SubmitImplements ==
  ASSUME TypeInv, NEW who \in Users, NEW c \in Contents, SubmitProposal(who, c)
  PROVE  AbstractEscrow!Next
<1> DEFINE d == DepositOf(c)
           H(a) == HeldFor(Proposals, Active, a)
           G(a) == HeldFor(Proposals', Active', a)
<1>1. PICK id : id = ProposalSeq
  OBVIOUS
<1>2. /\ id \notin Active /\ Active' = Active \cup {id}
      /\ IsFiniteSet(Active) /\ IsFiniteSet(Active')
      /\ \A j \in Active : Proposals'[j] = Proposals[j]
      /\ Proposals'[id].Proposer = who /\ Proposals'[id].Content = c
  <2>1. id \notin Active /\ Active' = Active \cup {id}
    BY <1>1, SubmitFacts DEF Active, Voting
  <2> QED BY <1>1, <2>1, SubmitFacts, ActiveFinite, FS_AddElement DEF Active
<1>3. /\ Worth = WorthOf(Proposals, Active, bank)
      /\ Worth' = WorthOf(Proposals', Active', bank')
      /\ DepositsHeld = DepositsIn(Proposals, Active)
      /\ DepositsHeld' = DepositsIn(Proposals', Active')
  BY <1>2, WorthMeaning
<1>4. DepositsHeld' = Put(DepositsHeld, id, [by |-> who, amt |-> d])
  BY <1>2, <1>3 DEF DepositsIn, Put
<1>5. /\ id \in DOMAIN DepositsHeld' /\ id \notin DOMAIN DepositsHeld
      /\ DepositsHeld'[id].by = who /\ DepositsHeld'[id].amt = d
  BY <1>2, <1>3 DEF DepositsIn
<1>6. /\ d \in Nat /\ who \in Accounts /\ who # DaoModule /\ DaoModule \in Accounts
      /\ \A a \in Accounts : bank.bal[a] \in Int
      /\ bank' = SendCoins(bank, who, DaoModule, d) /\ CanPay(bank, who, d)
      /\ Balanced(bank)
  BY DepositNat, AccountsFacts, SubmitFacts DEF TypeInv, TypeOK, BankType
<1> HIDE DEF d
<1>7. /\ bank'.supply = bank.supply /\ bank'.bal[who] = bank.bal[who] - d
      /\ bank'.bal[DaoModule] = bank.bal[DaoModule] + d
      /\ \A x \in Accounts \ {who, DaoModule} : bank'.bal[x] = bank.bal[x]
  BY <1>6, SendBalanced
<1>8. ASSUME NEW a \in Accounts PROVE Worth'[a] = Worth[a]
  <2>1. H(a) \in Nat /\ G(a) \in Nat
    BY <1>2, StakesFacts
  <2>2. G(a) = H(a) + IF a \in {DaoModule, who} THEN d ELSE 0
    BY <1>2, HeldForMore DEF d
  <2>3. Worth[a] = IF a = DaoModule THEN bank.bal[a] - H(a)
                                    ELSE bank.bal[a] + H(a)
    BY <1>3, <1>8 DEF WorthOf
  <2>4. Worth'[a] = IF a = DaoModule THEN bank'.bal[a] - G(a)
                                     ELSE bank'.bal[a] + G(a)
    BY <1>3, <1>8 DEF WorthOf
  <2> HIDE DEF H, G
  <2>5. CASE a = DaoModule
    BY <1>6, <1>7, <2>1, <2>2, <2>3, <2>4, <2>5
  <2>6. CASE a # DaoModule /\ a = who
    BY <1>6, <1>7, <2>1, <2>2, <2>3, <2>4, <2>6
  <2>7. CASE a # DaoModule /\ a # who
    BY <1>6, <1>7, <1>8, <2>1, <2>2, <2>3, <2>4, <2>7
  <2> QED BY <2>5, <2>6, <2>7
<1>9. Worth' = Worth
  BY <1>3, <1>8 DEF WorthOf
<1>10. AbstractEscrow!Hold(id, DepositsHeld'[id].by, DepositsHeld'[id].amt)
  BY <1>4, <1>5, <1>7, <1>9, EscrowOperators DEF AbstractEscrow!Hold
<1> QED BY <1>5, <1>10 DEF AbstractEscrow!Next

(* The account holds the deposit of every proposal in voting.              *)
LEMMA DepositThere ==
  ASSUME TypeInv, EscrowInv, NEW id \in Active,
         NEW status, status # "VOTING_PERIOD", Decided(id, status)
  PROVE  bank.bal[DaoModule] >= DepositOf(Proposals[id].Content)
<1>1. /\ Active' = Active \ {id}
      /\ \A j \in Active : Proposals'[j].Content = Proposals[j].Content
  BY DEF Decided, Active, Voting
<1>2. /\ Held = Held' + DepositOf(Proposals[id].Content) /\ Held' \in Nat
      /\ DepositOf(Proposals[id].Content) \in Nat /\ loose \in Nat
      /\ bank.bal[DaoModule] = loose + Held
  BY <1>1, HeldShrinks, DepositNat DEF TypeInv, TypeOK, EscrowInv
<1> QED BY <1>2

(* A proposal that is not executed forfeits its deposit, an executed one   *)
(* has it returned along with the grant, if there is one.                  *)
LEMMA ForfeitImplements ==
  ASSUME TypeInv, EscrowInv, NEW id \in Active,
         NEW status \in {"REJECTED", "FAILED"}, Decided(id, status),
         NEW b, Balanced(b), b.supply = bank.supply,
         \A a \in Accounts : b.bal[a] = bank.bal[a],
         bank' = SettleDeposit(b, Proposals[id], status)
  PROVE  AbstractEscrow!Next
<1> DEFINE p == Proposals[id]
           d == DepositOf(p.Content)
           gain == [a \in Accounts |-> 0]
<1>1. /\ d \in Nat /\ p.Proposer \in Users /\ p.Proposer \in Accounts
      /\ DaoModule \in Accounts
      /\ \A a \in Accounts : bank.bal[a] \in Int
  BY DepositNat, AccountsFacts DEF TypeInv, TypeOK, BankType, Active, ProposalType
<1>2. CanPay(b, DaoModule, d)
  BY <1>1, DepositThere DEF CanPay
<1>3. /\ gain \in [Accounts -> Int] /\ \A a \in Accounts : gain[a] = 0
      /\ \A a \in Accounts : b.bal[a] = bank.bal[a] + gain[a]
  BY <1>1
<1> HIDE DEF gain
<1>4. /\ Worth \in [Accounts -> Int]
      /\ Worth' = [a \in Accounts |->
           Worth[a] + gain[a] -
             IF status # "EXECUTED" /\ a = p.Proposer THEN d ELSE 0]
      /\ DepositsHeld' = Del(DepositsHeld, id)
  BY <1>2, <1>3, WorthAfterDecision
<1>5. bank'.supply = bank.supply - d
  BY <1>1, <1>2, SettleBalanced
<1>6. /\ DepositsHeld[id].by = p.Proposer /\ DepositsHeld[id].amt = d
      /\ id \in DOMAIN DepositsHeld
  BY DEF DepositsHeld
<1> HIDE DEF d, p
<1>7. Worth' = [Worth EXCEPT ![p.Proposer] = @ + (-d)]
  <2>1. \A a \in Accounts : Worth'[a] = IF a = p.Proposer THEN Worth[a] + (-d)
                                                          ELSE Worth[a]
    BY <1>1, <1>3, <1>4
  <2>2. Worth' = [a \in Accounts |-> Worth'[a]]
    BY <1>4, Zenon
  <2> QED BY <1>1, <1>4, <2>1, <2>2
<1>8. AbstractEscrow!Forfeit(id)
  BY <1>4, <1>5, <1>6, <1>7, EscrowOperators
     DEF AbstractEscrow!Forfeit, AbstractEscrow!Add
<1> QED BY <1>6, <1>8 DEF AbstractEscrow!Next

LEMMA ReturnImplements ==
  ASSUME TypeInv, EscrowInv, NEW id \in Active, Decided(id, "EXECUTED"),
         NEW b, Balanced(b), NEW n \in Nat, NEW to \in Accounts,
         b.supply = bank.supply + n,
         \A a \in Accounts : b.bal[a] = bank.bal[a] + IF a = to THEN n ELSE 0,
         bank' = SettleDeposit(b, Proposals[id], "EXECUTED")
  PROVE  AbstractEscrow!Next
<1> DEFINE p == Proposals[id]
           d == DepositOf(p.Content)
           gain == [a \in Accounts |-> IF a = to THEN n ELSE 0]
<1>1. /\ d \in Nat /\ p.Proposer \in Users /\ DaoModule \in Accounts
      /\ \A a \in Accounts : bank.bal[a] \in Int
      /\ bank.supply \in Int
  BY DepositNat, AccountsFacts DEF TypeInv, TypeOK, BankType, Active, ProposalType
<1>2. CanPay(b, DaoModule, d)
  <2>1. bank.bal[DaoModule] >= d
    BY DepositThere
  <2>2. b.bal[DaoModule] >= bank.bal[DaoModule] /\ b.bal[DaoModule] \in Int
    BY <1>1
  <2> HIDE DEF d
  <2> QED BY <1>1, <2>1, <2>2 DEF CanPay
<1>3. /\ gain \in [Accounts -> Int]
      /\ \A a \in Accounts : gain[a] = IF a = to THEN n ELSE 0
      /\ \A a \in Accounts : b.bal[a] = bank.bal[a] + gain[a]
  BY <1>1
<1> HIDE DEF gain
<1>4. /\ Worth \in [Accounts -> Int]
      /\ Worth' = [a \in Accounts |->
           Worth[a] + gain[a] -
             IF "EXECUTED" # "EXECUTED" /\ a = p.Proposer THEN d ELSE 0]
      /\ DepositsHeld' = Del(DepositsHeld, id)
  BY <1>2, <1>3, WorthAfterDecision
<1>5. bank'.supply = bank.supply + n
  BY <1>1, <1>2, SettleBalanced
<1>6. id \in DOMAIN DepositsHeld
  BY DEF DepositsHeld
<1>7. Worth' = [Worth EXCEPT ![to] = @ + n]
  <2>1. \A a \in Accounts : Worth'[a] = IF a = to THEN Worth[a] + n
                                                  ELSE Worth[a]
    BY <1>3, <1>4
  <2>2. Worth' = [a \in Accounts |-> Worth'[a]]
    BY <1>4, Zenon
  <2> QED BY <1>4, <2>1, <2>2
<1>8. bank'.supply - bank.supply = n /\ bank'.supply >= bank.supply
  BY <1>1, <1>5
<1>9. AbstractEscrow!Return(id, to, n)
  BY <1>4, <1>5, <1>7, EscrowOperators
     DEF AbstractEscrow!Return, AbstractEscrow!Add
<1> QED BY <1>6, <1>8, <1>9 DEF AbstractEscrow!Next

LEMMA ProcessImplements ==
  ASSUME TypeInv, EscrowInv, NEW id, ProcessProposal(id)
  PROVE  AbstractEscrow!Next
<1> DEFINE p == Proposals[id]
           c == p.Content
<1>1. id \in Active /\ c \in Contents
  BY ProcessCases DEF Active, ProposalType
<1>2. /\ Balanced(bank) /\ bank.supply \in Int /\ DaoModule \in Accounts
      /\ \A a \in Accounts : bank.bal[a] \in Int
  BY AccountsFacts DEF TypeInv, TypeOK, BankType
<1>3. CASE Rejects(id) \/ RefusesTld(id)
  <2>1. PICK status \in {"REJECTED", "FAILED"} :
          Decided(id, status) /\ bank' = SettleDeposit(bank, p, status)
    BY <1>3 DEF Rejects, RefusesTld
  <2> QED BY <1>1, <1>2, <2>1, ForfeitImplements
<1>4. CASE RefusesGrant(id)
  <2> DEFINE b == BurnCoins(MintCoins(bank, DaoModule, c.amount), DaoModule, c.amount)
  <2>1. c.amount \in Nat
    BY <1>1, <1>4, ContentFacts DEF RefusesGrant
  <2>2. Balanced(b) /\ b.supply = bank.supply
    BY <1>2, <2>1, GrantBank
  <2>3. \A a \in Accounts : b.bal[a] = bank.bal[a]
    BY <1>2, <2>1, GrantAccounts
  <2>4. Decided(id, "FAILED") /\ bank' = SettleDeposit(b, p, "FAILED")
    BY <1>4 DEF RefusesGrant
  <2> HIDE DEF b
  <2> QED BY <1>1, <2>2, <2>3, <2>4, ForfeitImplements
<1>5. CASE AddsTld(id)
  <2>1. Decided(id, "EXECUTED") /\ bank' = SettleDeposit(bank, p, "EXECUTED")
    BY <1>5 DEF AddsTld
  <2>2. /\ bank.supply = bank.supply + 0
        /\ \A a \in Accounts : bank.bal[a] = bank.bal[a] + IF a = DaoModule THEN 0 ELSE 0
    BY <1>2
  <2> QED BY <1>1, <1>2, <2>1, <2>2, ReturnImplements
<1>6. CASE PaysGrant(id)
  <2> DEFINE b == SendCoins(MintCoins(bank, DaoModule, c.amount), DaoModule,
                            c.recipient, c.amount)
  <2>1. c.amount \in Nat /\ c.recipient \in Accounts
    BY <1>1, <1>6, ContentFacts DEF PaysGrant
  <2>2. Balanced(b) /\ b.supply = bank.supply + c.amount
    BY <2>1, GrantBank
  <2>3. \A a \in Accounts : b.bal[a] = bank.bal[a]
                              + IF a = c.recipient THEN c.amount ELSE 0
    BY <2>1, GrantAccounts
  <2>4. Decided(id, "EXECUTED") /\ bank' = SettleDeposit(b, p, "EXECUTED")
    BY <1>6 DEF PaysGrant
  <2> HIDE DEF b
  <2> QED BY <1>1, <2>1, <2>2, <2>3, <2>4, ReturnImplements
<1> QED BY <1>3, <1>4, <1>5, <1>6, ProcessCases

(* Coins that move while the proposals stay as they are.                   *)
LEMMA WorthWithBank ==
  ASSUME TypeInv, UNCHANGED Proposals
  PROVE  /\ Worth \in [Accounts -> Int]
         /\ Worth' = [a \in Accounts |-> Worth'[a]]
         /\ \A a \in Accounts : Worth'[a] = Worth[a] + (bank'.bal[a] - bank.bal[a])
              \/ bank'.bal[a] \notin Int
         /\ DepositsHeld' = DepositsHeld
<1>1. Active' = Active /\ IsFiniteSet(Active)
  BY ActiveFinite DEF Active, Voting
<1>2. /\ Worth = WorthOf(Proposals, Active, bank)
      /\ Worth' = WorthOf(Proposals, Active, bank')
  BY <1>1, WorthMeaning
<1>3. ASSUME NEW a \in Accounts
      PROVE  /\ Worth[a] \in Int
             /\ Worth'[a] = Worth[a] + (bank'.bal[a] - bank.bal[a])
                  \/ bank'.bal[a] \notin Int
  <2> DEFINE h == HeldFor(Proposals, Active, a)
  <2>1. h \in Nat /\ bank.bal[a] \in Nat
    BY <1>1, <1>3, StakesFacts DEF TypeInv, TypeOK, BankType
  <2>2. /\ Worth[a] = IF a = DaoModule THEN bank.bal[a] - h ELSE bank.bal[a] + h
        /\ Worth'[a] = IF a = DaoModule THEN bank'.bal[a] - h ELSE bank'.bal[a] + h
    BY <1>2, <1>3 DEF WorthOf
  <2> HIDE DEF h
  <2> QED BY <2>1, <2>2
<1>4. DepositsHeld' = DepositsHeld
  BY <1>1 DEF DepositsHeld
<1>5. Worth \in [Accounts -> Int] /\ Worth' = [a \in Accounts |-> Worth'[a]]
  BY <1>2, <1>3 DEF WorthOf
<1> QED BY <1>3, <1>4, <1>5

LEMMA BankSendImplements ==
  ASSUME TypeInv, NEW who \in Users, NEW to \in Accounts,
         NEW amt \in SendAmounts, BankSend(who, to, amt)
  PROVE  AbstractEscrow!Next
<1>1. /\ CanPay(bank, who, amt) /\ bank' = SendCoins(bank, who, to, amt)
      /\ to # who /\ Proposals' = Proposals
  BY DEF BankSend
<1>2. /\ amt \in Nat /\ who \in Accounts /\ Balanced(bank)
      /\ \A a \in Accounts : bank.bal[a] \in Int
  BY AccountsFacts, DaoAssumption DEF DaoAssumption, TypeInv, TypeOK, BankType
<1>3. /\ bank'.supply = bank.supply
      /\ bank'.bal[who] = bank.bal[who] - amt
      /\ bank'.bal[to] = bank.bal[to] + amt
      /\ \A x \in Accounts \ {who, to} : bank'.bal[x] = bank.bal[x]
  BY <1>1, <1>2, SendBalanced
<1>4. \A a \in Accounts : bank'.bal[a] \in Int
  BY <1>2, <1>3
<1>5. /\ Worth \in [Accounts -> Int] /\ DepositsHeld' = DepositsHeld
      /\ Worth' = [a \in Accounts |-> Worth'[a]]
      /\ \A a \in Accounts : Worth'[a] = Worth[a] + (bank'.bal[a] - bank.bal[a])
  BY <1>1, <1>4, WorthWithBank
<1>6. \A a \in Accounts :
        Worth'[a] = IF a = who THEN Worth[a] + (-amt)
                    ELSE IF a = to THEN Worth[a] + amt ELSE Worth[a]
  BY <1>1, <1>2, <1>3, <1>5
<1>7. Worth[who] - Worth'[who] = amt
  BY <1>2, <1>5, <1>6
<1>8. Worth' = [[Worth EXCEPT ![who] = @ + (-amt)] EXCEPT ![to] = @ + amt]
  BY <1>1, <1>2, <1>5, <1>6
<1>9. AbstractEscrow!Move(who, to, amt)
  BY <1>3, <1>5, <1>8 DEF AbstractEscrow!Move, AbstractEscrow!Add
<1> QED BY <1>2, <1>7, <1>9 DEF AbstractEscrow!Next

(* New coins for one account.                                              *)
LEMMA InflationImplements ==
  ASSUME TypeInv, NEW to \in Users, Inflation(to)
  PROVE  AbstractEscrow!Next
<1>1. bank' = MintCoins(bank, to, 1) /\ Proposals' = Proposals
  BY DEF Inflation
<1>2. /\ to \in Accounts /\ Balanced(bank) /\ bank.supply \in Int
      /\ \A a \in Accounts : bank.bal[a] \in Int
  BY AccountsFacts DEF TypeInv, TypeOK, BankType
<1>3. /\ bank'.supply = bank.supply + 1 /\ bank'.bal[to] = bank.bal[to] + 1
      /\ \A x \in Accounts \ {to} : bank'.bal[x] = bank.bal[x]
  BY <1>1, <1>2, MintBalanced
<1>4. \A a \in Accounts : bank'.bal[a] \in Int
  BY <1>2, <1>3
<1>5. /\ Worth \in [Accounts -> Int] /\ DepositsHeld' = DepositsHeld
      /\ Worth' = [a \in Accounts |-> Worth'[a]]
      /\ \A a \in Accounts : Worth'[a] = Worth[a] + (bank'.bal[a] - bank.bal[a])
  BY <1>1, <1>4, WorthWithBank
<1>6. \A a \in Accounts : Worth'[a] = IF a = to THEN Worth[a] + 1 ELSE Worth[a]
  BY <1>2, <1>3, <1>5
<1>7. Worth' = [Worth EXCEPT ![to] = @ + 1]
  BY <1>5, <1>6
<1>8. bank'.supply - bank.supply = 1
  BY <1>2, <1>3
<1>9. AbstractEscrow!Issue(to, 1)
  BY <1>3, <1>5, <1>7 DEF AbstractEscrow!Issue, AbstractEscrow!Add
<1> QED BY <1>2, <1>8, <1>9 DEF AbstractEscrow!Next

(* A restart drops the records of the deposits; their coins become the     *)
(* DAO account's own.                                                      *)
LEMMA RestartImplements ==
  ASSUME TypeInv, DaoRestart
  PROVE  AbstractEscrow!Next
<1> DEFINE D == DepositsHeld
           total == SumFunction([id \in DOMAIN D |-> D[id].amt])
           from(a) == SumFunction([id \in {i \in DOMAIN D : D[i].by = a} |-> D[id].amt])
           H(a) == HeldFor(Proposals, Active, a)
<1>1. bank' = bank /\ Active' = {}
  BY DEF DaoRestart, NoEntries, Active
<1>2. /\ IsFiniteSet(Active) /\ IsFiniteSet(Active')
      /\ \A a \in Accounts : bank.bal[a] \in Int
      /\ \A i \in Active : Proposals[i].Proposer # DaoModule
  <2>1. IsFiniteSet(Active) /\ IsFiniteSet(Active')
    BY <1>1, ActiveFinite, FS_EmptySet
  <2>2. \A a \in Accounts : bank.bal[a] \in Int
    BY DEF TypeInv, TypeOK, BankType
  <2>3. \A i \in Active : Proposals[i].Proposer # DaoModule
    BY AccountsFacts DEF TypeInv, TypeOK, Active, ProposalType
  <2> QED BY <2>1, <2>2, <2>3
<1>3. /\ Worth = WorthOf(Proposals, Active, bank)
      /\ Worth' = WorthOf(Proposals', {}, bank)
      /\ D = DepositsIn(Proposals, Active)
      /\ D' = [id \in {} |-> id]
  BY <1>1, <1>2, WorthMeaning DEF DepositsIn
<1>4. DOMAIN D = Active /\ \A i \in Active : D[i].by = Proposals[i].Proposer
  BY <1>3 DEF DepositsIn
<1>5. ASSUME NEW a \in Accounts
      PROVE  Worth'[a] = Worth[a] - from(a) + (IF a = DaoModule THEN total ELSE 0)
  <2> DEFINE f == Stakes(Proposals', {})
             O == {i \in Active : D[i].by = a}
             g == Stakes(Proposals, Active)
  <2>1. HeldFor(Proposals', {}, a) = SumFunctionOnSet(f, {})
    BY DEF HeldFor, StakesOf
  <2>2. O \subseteq Active /\ {i \in DOMAIN D : D[i].by = a} = O
    BY <1>4
  <2>3. H(a) = SumFunctionOnSet(g, StakesOf(Proposals, Active, a)) /\ H(a) \in Nat
    BY <1>2, StakesFacts DEF HeldFor
  <2>4. IF a = DaoModule THEN StakesOf(Proposals, Active, a) = Active /\ O = {}
                         ELSE StakesOf(Proposals, Active, a) = O
    BY <1>2, <1>4 DEF StakesOf
  <2> HIDE DEF f, g, O, D
  <2>5. HeldFor(Proposals', {}, a) = 0 /\ SumFunctionOnSet(g, {}) = 0
    BY <2>1, SumEmpty
  <2>6. from(a) = SumFunctionOnSet(g, O)
    <3>1. SumFunction([id \in O |-> DepositsIn(Proposals, Active)[id].amt])
            = SumFunctionOnSet(Stakes(Proposals, Active), O)
      BY <1>2, <2>2, SumOfDeposits, Zenon
    <3> QED BY <1>3, <2>2, <3>1 DEF g
  <2>7. total = SumFunctionOnSet(g, Active)
    <3>1. SumFunction([id \in Active |-> DepositsIn(Proposals, Active)[id].amt])
            = SumFunctionOnSet(Stakes(Proposals, Active), Active)
      BY <1>2, SumOfDeposits, Zenon
    <3> QED BY <1>3, <1>4, <3>1 DEF g
  <2>8. /\ Worth[a] = IF a = DaoModule THEN bank.bal[a] - H(a)
                                       ELSE bank.bal[a] + H(a)
        /\ Worth'[a] = IF a = DaoModule THEN bank.bal[a] - 0 ELSE bank.bal[a] + 0
    BY <1>3, <1>5, <2>5 DEF WorthOf
  <2>9. bank.bal[a] \in Int
    BY <1>2, <1>5
  <2> HIDE DEF H, from, total
  <2>10. CASE a = DaoModule
    <3>1. from(a) = 0 /\ total = H(a)
      BY <2>3, <2>4, <2>5, <2>6, <2>7, <2>10
    <3> QED BY <2>3, <2>8, <2>9, <2>10, <3>1
  <2>11. CASE a # DaoModule
    <3>1. from(a) = H(a)
      BY <2>3, <2>4, <2>6, <2>11
    <3> QED BY <2>3, <2>8, <2>9, <2>11, <3>1
  <2> QED BY <2>10, <2>11
<1>6. Worth' = [a \in Accounts |->
                  Worth[a] - from(a) + (IF a = DaoModule THEN total ELSE 0)]
  <2> HIDE DEF from, total
  <2>1. Worth' = [a \in Accounts |-> Worth'[a]]
    BY <1>3 DEF WorthOf
  <2> QED BY <1>5, <2>1
<1>7. AbstractEscrow!Abandon
  BY <1>1, <1>3, <1>6, EscrowOperators
     DEF AbstractEscrow!Abandon, AbstractEscrow!HeldFrom
<1> QED BY <1>7 DEF AbstractEscrow!Next

LEMMA NextImplements ==
  TypeInv /\ EscrowInv /\ [Next]_vars => [AbstractEscrow!Next]_(AbstractEscrow!vars)
<1> SUFFICES ASSUME TypeInv, EscrowInv, [Next]_vars
             PROVE  AbstractEscrow!Next \/ UNCHANGED AbstractEscrow!vars
  OBVIOUS
<1>1. CASE UNCHANGED <<Proposals, bank>>
  BY <1>1, StutterImplements
<1>2. CASE Deliver
  BY <1>1, <1>2, SubmitImplements, BankSendImplements, InflationImplements
     DEF Deliver, Vote
<1>3. CASE Block
  BY <1>1, <1>3, ProcessImplements DEF Block, EndBlockStart, Commit
<1>4. CASE GenesisRestart
  BY <1>4, RestartImplements DEF GenesisRestart
<1> QED BY <1>1, <1>2, <1>3, <1>4 DEF Next, BoundReached, vars

(* The DAO implements Escrow: SubmitProposal puts a deposit aside at       *)
(* nobody's cost, EndBlocker returns it to the proposer who made it, along *)
(* with the grant, or burns it at that proposer's cost, and nothing else   *)
(* in the step changes what anybody is worth.                              *)
THEOREM DepositsRefine == Spec => ImplementsEscrow
<1>1. Spec => AbstractEscrow!Init
  BY InitImplements DEF Spec
<1>2. Spec => [][AbstractEscrow!Next]_(AbstractEscrow!vars)
  BY TypeInvHolds, EscrowInvHolds, NextImplements, PTL DEF Spec
<1> QED BY <1>1, <1>2, PTL DEF ImplementsEscrow, AbstractEscrow!Spec
=============================================================================
