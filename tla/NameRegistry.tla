---------------------------- MODULE NameRegistry ----------------------------
(***************************************************************************)
(* What a name registry promises, without ids, indexes, fees or time: a    *)
(* map from names to holders.  A free name may be registered; a held name  *)
(* changes hands only when its creator says so and is given up only by its *)
(* owner.  Each registration gets an id no registration had before.        *)
(***************************************************************************)
EXTENDS Integers, Store

CONSTANTS Users, Name, None  \* actors, names that may be registered

VARIABLES
  reg,    \* name -> [id, creator, owner]
  nextId, \* the id of the next registration
  by      \* who acted last, None when nobody did

vars == <<reg, nextId, by>>

Init ==
  /\ \A n \in DOMAIN reg : reg[n].id < nextId
  /\ by = None

Register(who, n, o) ==
  /\ n \notin DOMAIN reg
  /\ reg' = Put(reg, n, [id |-> nextId, creator |-> who, owner |-> o])
  /\ nextId' = nextId + 1
  /\ by' = who

(* The creator appoints another owner and remains the creator.             *)
Appoint(who, n, o) ==
  /\ n \in DOMAIN reg
  /\ reg[n].creator = who
  /\ reg' = Put(reg, n, [reg[n] EXCEPT !.owner = o])
  /\ by' = who
  /\ UNCHANGED nextId

(* The creator gives the name away for good.                               *)
HandOver(who, n, o) ==
  /\ n \in DOMAIN reg
  /\ reg[n].creator = who
  /\ reg' = Put(reg, n, [reg[n] EXCEPT !.creator = o, !.owner = o])
  /\ by' = who
  /\ UNCHANGED nextId

Release(who, n) ==
  /\ n \in DOMAIN reg
  /\ reg[n].owner = who
  /\ reg' = Del(reg, n)
  /\ by' = who
  /\ UNCHANGED nextId

(* A holder tends its own name, or nobody acts: holders stay.              *)
Tend(who, n) ==
  /\ n \in DOMAIN reg
  /\ who \in {reg[n].creator, reg[n].owner}
  /\ by' = who
  /\ UNCHANGED <<reg, nextId>>

Rest == by' = None /\ UNCHANGED <<reg, nextId>>

Next ==
  \/ \E who \in Users :
       \/ \E n \in Name, o \in Users : Register(who, n, o)
       \/ \E n \in DOMAIN reg :
            \/ \E o \in Users : Appoint(who, n, o) \/ HandOver(who, n, o)
            \/ Release(who, n)
            \/ Tend(who, n)
  \/ Rest

Spec == Init /\ [][Next]_vars
=============================================================================
