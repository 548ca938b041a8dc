------------------------------- MODULE Escrow -------------------------------
(***************************************************************************)
(* What the chain promises about money, above all about deposits.  The     *)
(* worth of an account is its balance and its deposits that are still      *)
(* held.  A deposit changes nobody's worth, nor does its return; one that  *)
(* is forfeited costs its depositor, and nobody else, and leaves the       *)
(* supply.  Each deposit is settled once.                                  *)
(***************************************************************************)
EXTENDS Integers, Store, Functions

CONSTANTS Accounts, Pot \* the account in which deposits lie

VARIABLES
  held,  \* id -> [by, amt], the deposits that are held
  worth, \* account -> coins
  supply

vars == <<held, worth, supply>>

Add(f, a, n) == [f EXCEPT ![a] = @ + n]

HeldFrom(a) ==
  SumFunction([id \in {i \in DOMAIN held : held[i].by = a} |-> held[id].amt])

Init ==
  /\ held = [id \in {} |-> id]
  /\ worth \in [Accounts -> 0 .. supply]

Hold(id, by, amt) ==
  /\ id \notin DOMAIN held
  /\ held' = Put(held, id, [by |-> by, amt |-> amt])
  /\ UNCHANGED <<worth, supply>>

(* The deposit goes back, and what was granted, if anything, arrives.      *)
Return(id, to, grant) ==
  /\ held' = Del(held, id)
  /\ worth' = Add(worth, to, grant)
  /\ supply' = supply + grant

Forfeit(id) ==
  /\ held' = Del(held, id)
  /\ worth' = Add(worth, held[id].by, -held[id].amt)
  /\ supply' = supply - held[id].amt

Move(from, to, amt) ==
  /\ worth' = Add(Add(worth, from, -amt), to, amt)
  /\ UNCHANGED <<held, supply>>

(* New coins, or, amt being negative, a payment that is burned.            *)
Issue(to, amt) ==
  /\ worth' = Add(worth, to, amt)
  /\ supply' = supply + amt
  /\ UNCHANGED held

(* The records of all deposits are lost and the coins stay where they are. *)
Abandon ==
  /\ held' = [id \in {} |-> id]
  /\ worth' = [a \in Accounts |->
                 worth[a] - HeldFrom(a) +
                 (IF a = Pot
                    THEN SumFunction([id \in DOMAIN held |-> held[id].amt])
                    ELSE 0)]
  /\ UNCHANGED supply

Next ==
  \/ \E id \in DOMAIN held' : Hold(id, held'[id].by, held'[id].amt)
  \/ \E id \in DOMAIN held :
       \/ Forfeit(id)
       \/ /\ supply' >= supply
          /\ \E to \in Accounts : Return(id, to, supply' - supply)
  \/ \E from, to \in Accounts : Move(from, to, worth[from] - worth'[from])
  \/ \E to \in Accounts : Issue(to, supply' - supply)
  \/ Abandon

Spec == Init /\ [][Next]_vars
=============================================================================
