-------------------------------- MODULE Bank --------------------------------
(***************************************************************************)
(* The x/bank keeper as the two modules use it, for one denomination, the  *)
(* voting token.  A bank is a record: the balance of every account and the *)
(* total supply.  The operators say what a successful call does; a caller  *)
(* that can meet a failing call tests the condition itself.  External      *)
(* code, modelled from the calls in x/dao and x/dnsblockchain.             *)
(***************************************************************************)
EXTENDS Integers

(* SendCoins, SendCoinsFromAccountToModule, SendCoinsFromModuleToAccount.  *)
(* The debit precedes the credit, so a transfer to oneself changes nothing.*)
SendCoins(b, from, to, amt) ==
  LET debited == [b.bal EXCEPT ![from] = @ - amt]
  IN  [b EXCEPT !.bal = [debited EXCEPT ![to] = @ + amt]]

(* MintCoins: new coins appear in a module account.                        *)
MintCoins(b, acc, amt) ==
  [bal |-> [b.bal EXCEPT ![acc] = @ + amt], supply |-> b.supply + amt]

(* BurnCoins: coins of a module account disappear.                         *)
BurnCoins(b, acc, amt) ==
  [bal |-> [b.bal EXCEPT ![acc] = @ - amt], supply |-> b.supply - amt]

(* The account holds at least amt, so a send or a burn of amt succeeds.    *)
CanPay(b, acc, amt) == b.bal[acc] >= amt

BankType(Accounts) == [bal: [Accounts -> Nat], supply: Int]
=============================================================================
