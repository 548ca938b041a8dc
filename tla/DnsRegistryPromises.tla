------------------------ MODULE DnsRegistryPromises ------------------------
(***************************************************************************)
(* Proofs of what the registry promises whoever registers a name: the name *)
(* (DnsRegistry implements NameRegistry), the year and the fee.            *)
(***************************************************************************)
EXTENDS DnsRegistryProofs, SumTheorems

-----------------------------------------------------------------------------
(***************************************************************************)
(* The fee.  These facts need no clean genesis file.                       *)
(***************************************************************************)
FeeInv ==
  /\ bank \in BankType(Accounts)
  /\ DomainCreationFee \in Nat
  /\ feesBurned \in Nat
  /\ EveryFeeIsBurned

LEMMA FeeCharged ==
  ASSUME NEW b \in BankType(Accounts), NEW u \in Users, NEW fee \in Nat,
         CanPay(b, u, fee)
  PROVE  /\ ChargeFee(b, u, fee).supply = b.supply - fee
         /\ ChargeFee(b, u, fee).bal[DnsModule] = b.bal[DnsModule]
         /\ ChargeFee(b, u, fee).bal[u] = b.bal[u] - fee
         /\ \A x \in Users \ {u} : ChargeFee(b, u, fee).bal[x] = b.bal[x]
<1>1. u \in Accounts /\ DnsModule \in Accounts /\ u # DnsModule /\ DnsModule \notin Users
      /\ Users \subseteq Accounts
  BY RegistryAssumption DEF RegistryAssumption, Accounts
<1> QED
  BY <1>1 DEF ChargeFee, SendCoins, BurnCoins, CanPay, BankType

LEMMA InitFee == Init => FeeInv
<1> SUFFICES ASSUME Init PROVE FeeInv
  OBVIOUS
<1> DEFINE bal == [a \in Accounts |-> IF a \in Users THEN InitialBalance[a] ELSE 0]
           f == [u \in Users |-> InitialBalance[u] - bank.bal[u]]
<1>1. /\ bank = [bal |-> bal, supply |-> InitialSupply]
      /\ DomainCreationFee \in Nat /\ feesBurned = 0
  BY RegistryAssumption DEF RegistryAssumption, Init
<1>2. /\ Users \subseteq Accounts /\ DnsModule \in Accounts /\ DnsModule \notin Users
      /\ InitialBalance \in [Users -> Nat] /\ InitialSupply \in Nat
      /\ IsFiniteSet(Users)
  BY RegistryAssumption DEF RegistryAssumption, Accounts
<1>3. /\ bal \in [Accounts -> Nat] /\ bal[DnsModule] = 0
      /\ \A u \in Users : bal[u] = InitialBalance[u]
  BY <1>2
<1> HIDE DEF bal
<1>4. bank \in BankType(Accounts) /\ bank.bal[DnsModule] = 0
      /\ InitialSupply - bank.supply = 0
  BY <1>1, <1>2, <1>3 DEF BankType
<1>5. \A u \in Users : f[u] = 0
  BY <1>1, <1>2, <1>3
<1>6. SumFunction(f) = SumFunctionOnSet(f, Users)
  BY DEF SumFunction
<1> HIDE DEF f
<1>7. SumFunction(f) = 0
  BY <1>2, <1>5, <1>6, SumZero
<1> QED BY <1>1, <1>4, <1>7 DEF FeeInv, EveryFeeIsBurned, f

LEMMA CreateDomainFee ==
  ASSUME FeeInv, NEW creator \in Users, NEW owner, NEW name, NEW ns,
         CreateDomain(creator, owner, name, ns)
  PROVE  FeeInv'
<1> DEFINE fee == DomainCreationFee
           f == [u \in Users |-> InitialBalance[u] - bank.bal[u]]
           g == [u \in Users |-> InitialBalance[u] - bank'.bal[u]]
<1>1. /\ CanPay(bank, creator, fee) /\ bank' = ChargeFee(bank, creator, fee)
      /\ DomainCreationFee' = fee /\ feesBurned' = feesBurned + fee
  BY DEF CreateDomain
<1>2. /\ bank \in BankType(Accounts) /\ fee \in Nat /\ bank.bal[DnsModule] = 0
      /\ InitialSupply - bank.supply = feesBurned /\ feesBurned \in Nat
      /\ SumFunction(f) = feesBurned
  BY DEF FeeInv, EveryFeeIsBurned
<1>3. /\ IsFiniteSet(Users) /\ InitialBalance \in [Users -> Nat]
      /\ InitialSupply \in Nat
      /\ \A u \in Users : bank.bal[u] \in Nat
      /\ bank.supply \in Int
  BY <1>2, RegistryAssumption DEF RegistryAssumption, BankType, Accounts
<1>4. /\ bank' \in BankType(Accounts)
      /\ bank'.supply = bank.supply - fee /\ bank'.bal[DnsModule] = 0
      /\ bank'.bal[creator] = bank.bal[creator] - fee
      /\ \A u \in Users \ {creator} : bank'.bal[u] = bank.bal[u]
  BY <1>1, <1>2, ChargeFeeType, FeeCharged
<1> HIDE DEF fee
<1>5. /\ \A u \in Users : f[u] \in Int /\ g[u] \in Int
      /\ \A u \in Users \ {creator} : f[u] = g[u]
      /\ g[creator] - f[creator] = fee
  BY <1>2, <1>3, <1>4
<1>6. SumFunction(f) = SumFunctionOnSet(f, Users)
      /\ SumFunction(g) = SumFunctionOnSet(g, Users)
  BY DEF SumFunction
<1> HIDE DEF f, g
<1>7. SumFunctionOnSet(g, Users)
        = SumFunctionOnSet(f, Users) + (g[creator] - f[creator])
  BY <1>3, <1>5, SumChange
<1>8. /\ InitialSupply - bank'.supply = feesBurned' /\ feesBurned' \in Nat
      /\ SumFunction(g) = feesBurned'
  BY <1>1, <1>2, <1>3, <1>4, <1>5, <1>6, <1>7 DEF fee
<1> QED BY <1>1, <1>2, <1>4, <1>8 DEF FeeInv, EveryFeeIsBurned, g

LEMMA NextFee == FeeInv /\ [Next]_vars => FeeInv'
<1> SUFFICES ASSUME FeeInv, [Next]_vars PROVE FeeInv'
  OBVIOUS
<1>1. CASE UNCHANGED <<bank, feesBurned>> /\ DomainCreationFee' \in Nat
  BY <1>1 DEF FeeInv, EveryFeeIsBurned
<1>2. DomainCreationFee \in Nat
  BY DEF FeeInv
<1>3. ASSUME NEW who \in Users, Message(who) PROVE FeeInv'
  <2>1. ASSUME NEW name, NEW ns, RejectedCreate(who, name, ns) PROVE FeeInv'
    BY <1>1, <1>2, <2>1, RejectedChangesNothing DEF vars
  <2> QED
    BY <1>1, <1>2, <1>3, <2>1, CreateDomainFee
       DEF Message, UpdateDomain, DeleteDomain, HeartbeatDomain, TransferDomain
<1>4. ASSUME NEW fee \in Fees, UpdateParams(fee) PROVE FeeInv'
  BY <1>1, <1>4, RegistryAssumption DEF RegistryAssumption, UpdateParams
<1>5. ASSUME NEW t, AddPermittedTLD(t) PROVE FeeInv'
  BY <1>1, <1>2, <1>5 DEF AddPermittedTLD
<1>6. ASSUME NEW gap, NextBlock(gap) PROVE FeeInv'
  BY <1>1, <1>2, <1>6 DEF NextBlock
<1>7. CASE GenesisRestart
  BY <1>1, <1>2, <1>7 DEF GenesisRestart, ExportGenesis
<1>8. CASE UNCHANGED vars
  BY <1>1, <1>2, <1>8 DEF vars
<1> QED BY <1>3, <1>4, <1>5, <1>6, <1>7, <1>8 DEF Next

(* The fee of CreateDomain leaves the payer and the supply: the module     *)
(* account never keeps a coin between messages, and both have lost exactly *)
(* the fees of the domains created, whatever governance does to the fee    *)
(* meanwhile and however many creations fail after the fee is charged.     *)
THEOREM FeesBurned == Spec => []EveryFeeIsBurned
<1>1. FeeInv => EveryFeeIsBurned
  BY DEF FeeInv
<1> QED BY <1>1, InitFee, NextFee, PTL DEF Spec

-----------------------------------------------------------------------------
(***************************************************************************)
(* The year.                                                               *)
(***************************************************************************)
(* A later start gives an earlier end only when the earlier year had a     *)
(* leap day and the later one has none, and then by less than a day.       *)
LEMMA AddYearAlmostMonotone ==
  ASSUME NEW t \in Nat, NEW u \in Nat, t <= u
  PROVE  AddYear(t) < AddYear(u) + DayTicks
<1> DEFINE x == DayTicks * YearDays
           y == DayTicks * (YearDays + 1)
<1>1. DayTicks \in Nat \ {0} /\ YearDays \in Nat \ {0} /\ LeapDays \subseteq Nat
  BY CalendarAssumption DEF CalendarAssumption
<1>2. x \in Nat /\ y = x + DayTicks
  BY <1>1
<1>3. /\ AddYear(t) = IF LeapDayWithinYear(DayOf(t)) THEN t + y ELSE t + x
      /\ AddYear(u) = IF LeapDayWithinYear(DayOf(u)) THEN u + y ELSE u + x
  BY <1>1 DEF AddYear
<1>4. DayOf(t) \in Nat /\ DayOf(u) \in Nat
  BY <1>1 DEF DayOf
<1>5. ASSUME LeapDayWithinYear(DayOf(t)), ~LeapDayWithinYear(DayOf(u))
      PROVE  t < u
  <2>1. PICK l \in LeapDays : DayOf(t) <= l /\ l <= DayOf(t) + YearDays
    BY <1>5 DEF LeapDayWithinYear
  <2>2. ~(DayOf(u) <= l /\ l <= DayOf(u) + YearDays)
    BY <1>5 DEF LeapDayWithinYear
  <2>3. DayOf(t) # DayOf(u)
    BY <2>1, <2>2
  <2> QED BY <2>3
<1> HIDE DEF x, y
<1> QED BY <1>1, <1>2, <1>3, <1>5

(* The domains of the genesis files expire within a year of genesis.       *)
GenesisWithinAYear ==
  \A g \in GenesisStates : \A i \in DOMAIN g.DomainList :
    g.DomainList[i].Expiration <= AddYear(0)

(* Every expiration is at most a year after some block that has been.      *)
YearInv ==
  \A id \in DOMAIN Domain :
    \E t \in Nat : t <= now /\ Domain[id].Expiration <= AddYear(t)

LEMMA InitYear ==
  ASSUME AllGenesisClean, GenesisWithinAYear, Init
  PROVE  YearInv
<1>1. PICK g \in GenesisStates : Domain = InitDomains(g.DomainList) /\ now = 0
  BY DEF Init
<1> DEFINE list == g.DomainList
<1>2. /\ DOMAIN list \subseteq Nat
      /\ \A i, j \in DOMAIN list : list[i].Id = list[j].Id => i = j
  BY RegistryAssumption DEF RegistryAssumption, GenesisValidate
<1>3. ASSUME NEW id \in DOMAIN Domain PROVE Domain[id].Expiration <= AddYear(0)
  <2>1. PICK i \in DOMAIN list : list[i].Id = id
    BY <1>1, <1>3 DEF InitDomains
  <2> DEFINE Q(k) == /\ list[k].Id = id
                     /\ \A j \in DOMAIN list : list[j].Id = id => j <= k
  <2>2. Q(i)
    BY <1>2, <2>1
  <2>3. Domain[id] = list[CHOOSE k \in DOMAIN list : Q(k)]
    BY <1>1, <1>3 DEF InitDomains
  <2>4. (CHOOSE k \in DOMAIN list : Q(k)) \in DOMAIN list
    BY <2>1, <2>2, Zenon
  <2> QED BY <2>3, <2>4 DEF GenesisWithinAYear
<1> QED BY <1>1, <1>3 DEF YearInv

(* What a step does to expirations and to the clock.                       *)
LEMMA StepOnExpirations ==
  ASSUME IndexInv, [Next]_vars
  PROVE  /\ now' \in Nat /\ now' >= now
         /\ \A id \in DOMAIN Domain' :
              \/ Domain'[id].Expiration = AddYear(now)
              \/ /\ id \in DOMAIN Domain
                 /\ Domain'[id].Expiration = Domain[id].Expiration
<1> DEFINE E == \A id \in DOMAIN Domain' :
                  \/ Domain'[id].Expiration = AddYear(now)
                  \/ /\ id \in DOMAIN Domain
                     /\ Domain'[id].Expiration = Domain[id].Expiration
<1>1. now \in Nat
  BY DEF IndexInv, TypeOK
<1>2. ASSUME NEW id, NEW d, Domain' = Put(Domain, id, d),
             \/ d.Expiration = AddYear(now)
             \/ id \in DOMAIN Domain /\ d.Expiration = Domain[id].Expiration
      PROVE  E
  BY <1>2 DEF Put
<1>3. ASSUME NEW who \in Users, Message(who) PROVE E /\ now' = now
  <2>1. ASSUME NEW owner, NEW name, NEW ns, CreateDomain(who, owner, name, ns)
        PROVE  E /\ now' = now
    <3> DEFINE d == [Id |-> DomainSeq, Creator |-> who, Owner |-> owner,
                     Name |-> Normalize(name), NsRecords |-> ns,
                     Expiration |-> AddYear(now)]
    <3>1. Domain' = Put(Domain, DomainSeq, d) /\ now' = now
      BY <2>1 DEF CreateDomain
    <3>2. d.Expiration = AddYear(now)
      OBVIOUS
    <3> HIDE DEF d
    <3> QED BY <1>2, <3>1, <3>2
  <2>2. ASSUME NEW id \in DOMAIN Domain, NEW owner, NEW ns,
               UpdateDomain(who, id, owner, ns)
        PROVE  E /\ now' = now
    <3>1. PICK o, s : Domain' = Put(Domain, id,
                        [Domain[id] EXCEPT !.Owner = o, !.NsRecords = s])
      BY <2>2 DEF UpdateDomain
    <3>2. [Domain[id] EXCEPT !.Owner = o, !.NsRecords = s].Expiration
            = Domain[id].Expiration
      BY DEF IndexInv, TypeOK, DomainType
    <3>3. now' = now
      BY <2>2 DEF UpdateDomain
    <3> QED BY <1>2, <3>1, <3>2, <3>3
  <2>3. ASSUME NEW id \in DOMAIN Domain, DeleteDomain(who, id)
        PROVE  E /\ now' = now
    <3>1. Domain' = Del(Domain, id) /\ now' = now
      BY <2>3 DEF DeleteDomain
    <3>2. /\ DOMAIN Domain' = DOMAIN Domain \ {id}
          /\ \A x \in DOMAIN Domain \ {id} : Domain'[x] = Domain[x]
      BY <3>1, DelFacts
    <3> QED BY <3>1, <3>2
  <2>4. ASSUME NEW id \in DOMAIN Domain, HeartbeatDomain(who, id)
        PROVE  E /\ now' = now
    <3>1. Domain' = Put(Domain, id, [Domain[id] EXCEPT !.Expiration = AddYear(now)])
          /\ now' = now
      BY <2>4 DEF HeartbeatDomain
    <3>2. [Domain[id] EXCEPT !.Expiration = AddYear(now)].Expiration = AddYear(now)
      BY DEF IndexInv, TypeOK, DomainType
    <3> QED BY <1>2, <3>1, <3>2
  <2>5. ASSUME NEW id \in DOMAIN Domain, NEW o, TransferDomain(who, id, o)
        PROVE  E /\ now' = now
    <3>1. Domain' = Put(Domain, id, [Domain[id] EXCEPT !.Creator = o, !.Owner = o])
          /\ now' = now
      BY <2>5 DEF TransferDomain
    <3>2. [Domain[id] EXCEPT !.Creator = o, !.Owner = o].Expiration
            = Domain[id].Expiration
      BY DEF IndexInv, TypeOK, DomainType
    <3> QED BY <1>2, <3>1, <3>2
  <2>6. ASSUME NEW name, NEW ns, RejectedCreate(who, name, ns)
        PROVE  E /\ now' = now
    BY <2>6, RejectedChangesNothing DEF vars
  <2> HIDE DEF E
  <2> QED BY <1>3, <2>1, <2>2, <2>3, <2>4, <2>5, <2>6 DEF Message
<1>4. CASE Domain' = Domain /\ now' = now
  BY <1>1, <1>4
<1>5. ASSUME NEW gap \in BlockGaps, NextBlock(gap)
      PROVE  E /\ now' \in Nat /\ now' >= now
  BY <1>1, <1>5, RegistryAssumption DEF RegistryAssumption, NextBlock, registry
<1>6. CASE GenesisRestart
  <2>1. now' = now
    BY <1>6 DEF GenesisRestart
  <2> QED BY <1>1, <1>6, <2>1, RestartKeepsDomains
<1>7. CASE Next
  <2> HIDE DEF E
  <2>1. CASE \E who \in Users : Message(who)
    BY <1>1, <1>3, <2>1 DEF E
  <2>2. CASE \E fee \in Fees : UpdateParams(fee)
    BY <1>4, <2>2 DEF UpdateParams, registry
  <2>3. CASE \E t \in TldRequests : AddPermittedTLD(t)
    BY <1>4, <2>3 DEF AddPermittedTLD
  <2>4. CASE \E gap \in BlockGaps : NextBlock(gap)
    BY <1>5, <2>4 DEF E
  <2> QED BY <1>6, <1>7, <2>1, <2>2, <2>3, <2>4 DEF Next
<1> QED BY <1>4, <1>7 DEF vars

LEMMA NextYear == IndexInv /\ YearInv /\ [Next]_vars => YearInv'
<1> SUFFICES ASSUME IndexInv, YearInv, [Next]_vars, NEW id \in DOMAIN Domain'
             PROVE  \E t \in Nat : t <= now' /\ Domain'[id].Expiration <= AddYear(t)
  BY DEF YearInv
<1>1. now \in Nat /\ now' \in Nat /\ now' >= now
  BY StepOnExpirations DEF IndexInv, TypeOK
<1>2. CASE Domain'[id].Expiration = AddYear(now)
  <2>1. AddYear(now) \in Nat
    BY <1>1, AddYearType
  <2> QED BY <1>1, <1>2, <2>1
<1>3. CASE id \in DOMAIN Domain /\ Domain'[id].Expiration = Domain[id].Expiration
  <2>1. PICK t \in Nat : t <= now /\ Domain[id].Expiration <= AddYear(t)
    BY <1>3 DEF YearInv
  <2>2. t <= now'
    BY <1>1, <2>1
  <2> QED BY <1>3, <2>1, <2>2
<1> QED BY <1>2, <1>3, StepOnExpirations

(* A HeartbeatDomain may set an expiration that is earlier than the old    *)
(* one, because AddDate turns 29 February into 1 March, but never by a     *)
(* whole day, on any calendar and whatever happened since the last one.    *)
THEOREM ExpiryRecedesLittle ==
  ASSUME AllGenesisClean, GenesisWithinAYear
  PROVE  Spec => ExpiryNeverRecedesByADay
<1> DEFINE A == \A id \in DOMAIN Domain \cap DOMAIN Domain' :
                  Domain'[id].Expiration > Domain[id].Expiration - DayTicks
<1>1. IndexInv /\ YearInv /\ [Next]_vars => [A]_vars
  <2> SUFFICES ASSUME IndexInv, YearInv, [Next]_vars,
                      NEW id \in DOMAIN Domain \cap DOMAIN Domain'
               PROVE  Domain'[id].Expiration > Domain[id].Expiration - DayTicks
    OBVIOUS
  <2>1. /\ now \in Nat /\ Domain[id].Expiration \in Nat
        /\ DayTicks \in Nat \ {0}
    BY CalendarAssumption DEF CalendarAssumption, IndexInv, TypeOK, DomainType
  <2>2. CASE Domain'[id].Expiration = AddYear(now)
    <3>1. PICK t \in Nat : t <= now /\ Domain[id].Expiration <= AddYear(t)
      BY DEF YearInv
    <3>2. AddYear(t) < AddYear(now) + DayTicks
      BY <2>1, <3>1, AddYearAlmostMonotone
    <3>3. AddYear(t) \in Nat /\ AddYear(now) \in Nat
      BY <2>1, AddYearType
    <3> QED BY <2>1, <2>2, <3>1, <3>2, <3>3
  <2>3. CASE Domain'[id].Expiration = Domain[id].Expiration
    BY <2>1, <2>3
  <2> QED BY <2>2, <2>3, StepOnExpirations
<1>2. Init => YearInv
  BY InitYear
<1>3. Spec => []IndexInv
  BY IndexInvHolds
<1> QED BY <1>1, <1>2, <1>3, NextYear, PTL DEF Spec, ExpiryNeverRecedesByADay

-----------------------------------------------------------------------------
(***************************************************************************)
(* The name: DnsRegistry implements NameRegistry.                          *)
(***************************************************************************)
HolderOf(d) == [id |-> d.Id, creator |-> d.Creator, owner |-> d.Owner]

(* The holders are those of the indexed records.                           *)
LEMMA HoldersFacts ==
  /\ DOMAIN Holders = DOMAIN DomainName
  /\ DOMAIN Holders' = DOMAIN DomainName'
  /\ \A n \in DOMAIN DomainName : Holders[n] = HolderOf(Domain[DomainName[n]])
  /\ \A n \in DOMAIN DomainName' :
       Holders'[n] = HolderOf(Domain'[DomainName'[n]])
  /\ Holders = [n \in DOMAIN Holders |-> Holders[n]]
  /\ Holders' = [n \in DOMAIN Holders' |-> Holders'[n]]
BY DEF Holders, HolderOf

LEMMA RegistryOperators ==
  ASSUME NEW f, NEW k, NEW v
  PROVE  /\ Abstract!Put(f, k, v) = Put(f, k, v)
         /\ Abstract!Del(f, k) = Del(f, k)
BY DEF Abstract!Put, Abstract!Del, Put, Del

LEMMA InitImplements ==
  ASSUME IndexInv, Init
  PROVE  Abstract!Init
<1>1. \A n \in DOMAIN Holders : Holders[n].id < DomainSeq
  BY HoldersFacts DEF HolderOf, IndexInv, NameIndexConsistent, IdsBelowSeq
<1> QED BY <1>1 DEF Abstract!Init, Init

LEMMA CreateImplements ==
  ASSUME IndexInv, NEW who \in Users, NEW o \in Users, NEW name \in Names, NEW ns,
         CreateDomain(who, o, name, ns)
  PROVE  Abstract!Next
<1> DEFINE n == Normalize(name)
           d == [Id |-> DomainSeq, Creator |-> who, Owner |-> o, Name |-> n,
                 NsRecords |-> ns, Expiration |-> AddYear(now)]
           h == [id |-> DomainSeq, creator |-> who, owner |-> o]
<1>1. /\ n \notin DOMAIN DomainName
      /\ DomainName' = Put(DomainName, n, DomainSeq)
      /\ Domain' = Put(Domain, DomainSeq, d)
      /\ DomainSeq' = DomainSeq + 1 /\ signer' = who
  BY DEF CreateDomain, CreateChecks, NameAvailable
<1>2. HolderOf(d) = h
  BY DEF HolderOf
<1>3. n \in {Normalize(x) : x \in Names}
  OBVIOUS
<1> HIDE DEF n, d, h
<1>4. /\ DOMAIN DomainName' = DOMAIN DomainName \cup {n}
      /\ DomainName'[n] = DomainSeq
      /\ \A m \in DOMAIN DomainName : DomainName'[m] = DomainName[m]
      /\ Domain'[DomainSeq] = d
      /\ \A id \in DOMAIN Domain : id # DomainSeq => Domain'[id] = Domain[id]
  BY <1>1 DEF Put
<1>5. \A m \in DOMAIN DomainName : /\ DomainName[m] \in DOMAIN Domain
                                   /\ DomainName[m] # DomainSeq
  BY DEF IndexInv, NameIndexConsistent, IdsBelowSeq, TypeOK
<1>6. \A m \in DOMAIN Holders' : Holders'[m] = IF m = n THEN h ELSE Holders[m]
  BY <1>1, <1>2, <1>4, <1>5, HoldersFacts
<1>7. Holders' = Put(Holders, n, h)
  BY <1>4, <1>6, HoldersFacts DEF Put
<1>8. Abstract!Register(who, n, o)
  BY <1>1, <1>7, HoldersFacts, RegistryOperators DEF Abstract!Register, h
<1> QED BY <1>3, <1>8 DEF Abstract!Next

(* A handler that rewrites one record.                                     *)
LEMMA RewriteHolders ==
  ASSUME IndexInv, NEW id \in DOMAIN Domain, NEW d, d.Id = Domain[id].Id,
         Domain' = Put(Domain, id, d), UNCHANGED DomainName
  PROVE  LET n == Domain[id].Name
         IN  /\ n \in DOMAIN Holders
             /\ Holders[n] = HolderOf(Domain[id])
             /\ Holders' = Put(Holders, n, HolderOf(d))
<1> DEFINE n == Domain[id].Name
<1>1. n \in DOMAIN DomainName /\ DomainName[n] = id
  BY DEF IndexInv, NameIndexConsistent
<1>2. \A m \in DOMAIN DomainName : m # n => /\ DomainName[m] # id
                                            /\ DomainName[m] \in DOMAIN Domain
  BY DEF IndexInv, NameIndexConsistent
<1>3. /\ Domain'[id] = d
      /\ \A x \in DOMAIN Domain : x # id => Domain'[x] = Domain[x]
  BY DEF Put
<1> HIDE DEF n
<1>4. \A m \in DOMAIN Holders' :
        Holders'[m] = IF m = n THEN HolderOf(d) ELSE Holders[m]
  BY <1>1, <1>2, <1>3, HoldersFacts
<1>5. Holders' = Put(Holders, n, HolderOf(d))
  BY <1>1, <1>4, HoldersFacts DEF Put
<1> QED BY <1>1, <1>5, HoldersFacts DEF n

(* ... leaving the holder as it was.                                       *)
LEMMA TendImplements ==
  ASSUME IndexInv, NEW id \in DOMAIN Domain, NEW d, d.Id = Domain[id].Id,
         d.Creator = Domain[id].Creator, d.Owner = Domain[id].Owner,
         Domain' = Put(Domain, id, d), UNCHANGED <<DomainName, DomainSeq>>,
         NEW who \in Users, who \in {Domain[id].Creator, Domain[id].Owner},
         signer' = who
  PROVE  Abstract!Next
<1> DEFINE n == Domain[id].Name
<1>1. /\ n \in DOMAIN Holders /\ Holders[n] = HolderOf(Domain[id])
      /\ Holders' = Put(Holders, n, HolderOf(d))
  BY RewriteHolders
<1>2. HolderOf(d) = HolderOf(Domain[id])
  BY DEF HolderOf
<1>3. /\ HolderOf(Domain[id]).creator = Domain[id].Creator
      /\ HolderOf(Domain[id]).owner = Domain[id].Owner
  BY DEF HolderOf
<1> HIDE DEF n
<1>4. Holders' = Holders
  BY <1>1, <1>2, HoldersFacts DEF Put
<1>5. Abstract!Tend(who, n)
  BY <1>1, <1>3, <1>4 DEF Abstract!Tend
<1> QED BY <1>1, <1>5 DEF Abstract!Next

LEMMA UpdateImplements ==
  ASSUME IndexInv, NEW who \in Users, NEW id \in DOMAIN Domain,
         NEW owner \in Users \cup {NoSigner}, NEW ns,
         UpdateDomain(who, id, owner, ns)
  PROVE  Abstract!Next
<1> DEFINE old == Domain[id]
           n == old.Name
           moves == owner # NoSigner /\ owner # old.Owner
           o == IF moves THEN owner ELSE old.Owner
           s == IF ns # NoNs THEN ns ELSE old.NsRecords
           d == [old EXCEPT !.Owner = o, !.NsRecords = s]
<1>1. /\ Domain' = Put(Domain, id, d) /\ signer' = who
      /\ UNCHANGED <<DomainName, DomainSeq>>
      /\ who \in {old.Creator, old.Owner}
      /\ moves => who = old.Creator
  BY DEF UpdateDomain
<1>2. /\ d.Id = old.Id /\ d.Creator = old.Creator /\ d.Owner = o
  <2> HIDE DEF o, s
  <2>1. old \in DomainType
    BY DEF IndexInv, TypeOK
  <2> HIDE DEF old
  <2> QED BY <2>1 DEF DomainType
<1> HIDE DEF d
<1>3. CASE ~moves
  <2>1. d.Owner = old.Owner
    BY <1>2, <1>3
  <2> QED BY <1>1, <1>2, <2>1, TendImplements
<1>4. CASE moves
  <2>1. /\ n \in DOMAIN Holders /\ Holders[n] = HolderOf(old)
        /\ Holders' = Put(Holders, n, HolderOf(d))
    BY <1>1, <1>2, RewriteHolders
  <2>2. HolderOf(d) = [HolderOf(old) EXCEPT !.owner = owner]
        /\ HolderOf(old).creator = old.Creator
    BY <1>2, <1>4 DEF HolderOf
  <2>3. owner \in Users /\ who = old.Creator
    BY <1>1, <1>4
  <2> HIDE DEF n, old
  <2>4. Abstract!Appoint(who, n, owner)
    BY <1>1, <2>1, <2>2, <2>3, RegistryOperators DEF Abstract!Appoint
  <2> QED BY <2>1, <2>3, <2>4 DEF Abstract!Next
<1> QED BY <1>3, <1>4

LEMMA TransferImplements ==
  ASSUME IndexInv, NEW who \in Users, NEW id \in DOMAIN Domain,
         NEW o \in Users, TransferDomain(who, id, o)
  PROVE  Abstract!Next
<1> DEFINE old == Domain[id]
           n == old.Name
           d == [old EXCEPT !.Creator = o, !.Owner = o]
<1>1. /\ Domain' = Put(Domain, id, d) /\ signer' = who /\ who = old.Creator
      /\ UNCHANGED <<DomainName, DomainSeq>>
  BY DEF TransferDomain
<1>2. d.Id = old.Id /\ d.Creator = o /\ d.Owner = o
  <2>1. old \in DomainType
    BY DEF IndexInv, TypeOK
  <2> HIDE DEF old
  <2> QED BY <2>1 DEF DomainType
<1> HIDE DEF d
<1>3. /\ n \in DOMAIN Holders /\ Holders[n] = HolderOf(old)
      /\ Holders' = Put(Holders, n, HolderOf(d))
  BY <1>1, <1>2, RewriteHolders
<1>4. HolderOf(d) = [HolderOf(old) EXCEPT !.creator = o, !.owner = o]
      /\ HolderOf(old).creator = old.Creator
  <2> DEFINE a == old.Id
             b == old.Creator
             c == old.Owner
  <2>1. HolderOf(d) = [id |-> a, creator |-> o, owner |-> o]
    BY <1>2 DEF HolderOf
  <2>2. HolderOf(old) = [id |-> a, creator |-> b, owner |-> c]
    BY DEF HolderOf
  <2> HIDE DEF a, b, c, old
  <2> DEFINE r == [id |-> a, creator |-> b, owner |-> c]
             s == [r EXCEPT !.creator = o]
  <2>3. [r EXCEPT !.creator = o, !.owner = o]
          = [id |-> a, creator |-> o, owner |-> o]
    <3>1. s = [id |-> a, creator |-> o, owner |-> c]
      OBVIOUS
    <3>2. [r EXCEPT !.creator = o, !.owner = o] = [s EXCEPT !.owner = o]
      OBVIOUS
    <3>3. [[id |-> a, creator |-> o, owner |-> c] EXCEPT !.owner = o]
            = [id |-> a, creator |-> o, owner |-> o]
      OBVIOUS
    <3> HIDE DEF s
    <3> QED BY <3>1, <3>2, <3>3
  <2> HIDE DEF r, s
  <2>4. HolderOf(old).creator = b
    BY <2>2
  <2>5. b = old.Creator
    BY DEF b
  <2>6. HolderOf(old) = r
    BY <2>2 DEF r
  <2> QED BY <2>1, <2>3, <2>4, <2>5, <2>6
<1> HIDE DEF n, old
<1>5. Abstract!HandOver(who, n, o)
  BY <1>1, <1>3, <1>4, RegistryOperators DEF Abstract!HandOver
<1> QED BY <1>3, <1>5 DEF Abstract!Next

LEMMA HeartbeatImplements ==
  ASSUME IndexInv, NEW who \in Users, NEW id \in DOMAIN Domain,
         HeartbeatDomain(who, id)
  PROVE  Abstract!Next
<1> DEFINE old == Domain[id]
           d == [old EXCEPT !.Expiration = AddYear(now)]
<1>1. /\ Domain' = Put(Domain, id, d) /\ signer' = who
      /\ who \in {old.Creator, old.Owner}
      /\ UNCHANGED <<DomainName, DomainSeq>>
  BY DEF HeartbeatDomain
<1>2. d.Id = old.Id /\ d.Creator = old.Creator /\ d.Owner = old.Owner
  <2>1. old \in DomainType
    BY DEF IndexInv, TypeOK
  <2> HIDE DEF old
  <2> QED BY <2>1 DEF DomainType
<1> HIDE DEF d
<1> QED BY <1>1, <1>2, TendImplements

LEMMA DeleteImplements ==
  ASSUME IndexInv, NEW who \in Users, NEW id \in DOMAIN Domain,
         DeleteDomain(who, id)
  PROVE  Abstract!Next
<1> DEFINE n == Domain[id].Name
<1>1. /\ DomainName' = Del(DomainName, n) /\ Domain' = Del(Domain, id)
      /\ signer' = who /\ who = Domain[id].Owner /\ DomainSeq' = DomainSeq
  BY DEF DeleteDomain
<1>2. n \in DOMAIN DomainName /\ DomainName[n] = id
  BY DEF IndexInv, NameIndexConsistent
<1>3. \A m \in DOMAIN DomainName : m # n => /\ DomainName[m] # id
                                            /\ DomainName[m] \in DOMAIN Domain
  BY DEF IndexInv, NameIndexConsistent
<1>4. /\ DOMAIN DomainName' = DOMAIN DomainName \ {n}
      /\ \A m \in DOMAIN DomainName \ {n} : DomainName'[m] = DomainName[m]
      /\ \A x \in DOMAIN Domain \ {id} : Domain'[x] = Domain[x]
  BY <1>1, DelFacts
<1>5. Holders[n].owner = who
  BY <1>1, <1>2, HoldersFacts DEF HolderOf
<1> HIDE DEF n
<1>6. \A m \in DOMAIN Holders' : Holders'[m] = Holders[m]
  BY <1>3, <1>4, HoldersFacts
<1>7. Holders' = Del(Holders, n)
  BY <1>4, <1>6, HoldersFacts DEF Del
<1>8. Abstract!Release(who, n)
  BY <1>1, <1>2, <1>5, <1>7, HoldersFacts, RegistryOperators DEF Abstract!Release
<1> QED BY <1>2, <1>8, HoldersFacts DEF Abstract!Next

(* A restart rebuilds the index that was there.                            *)
LEMMA RestartKeepsIndex ==
  ASSUME IndexInv, GenesisRestart
  PROVE  /\ DOMAIN DomainName' = DOMAIN DomainName
         /\ \A n \in DOMAIN DomainName : DomainName'[n] = DomainName[n]
<1>1. IndexInv'
  BY RestartIndexInv
<1>2. /\ DOMAIN Domain' = DOMAIN Domain
      /\ \A id \in DOMAIN Domain : Domain'[id] = Domain[id]
  BY RestartKeepsDomains
<1>3. ASSUME NEW n \in DOMAIN DomainName
      PROVE  n \in DOMAIN DomainName' /\ DomainName'[n] = DomainName[n]
  BY <1>1, <1>2, <1>3 DEF IndexInv, NameIndexConsistent
<1>4. ASSUME NEW n \in DOMAIN DomainName' PROVE n \in DOMAIN DomainName
  BY <1>1, <1>2, <1>4 DEF IndexInv, NameIndexConsistent
<1> QED BY <1>3, <1>4

LEMMA RestImplements ==
  ASSUME IndexInv, signer' = NoSigner,
         UNCHANGED <<Domain, DomainName, DomainSeq>> \/ GenesisRestart
  PROVE  Abstract!Next
<1>1. CASE UNCHANGED <<Domain, DomainName, DomainSeq>>
  <2>1. Holders' = Holders
    BY <1>1 DEF Holders
  <2> QED BY <1>1, <2>1 DEF Abstract!Next, Abstract!Rest
<1>2. CASE GenesisRestart
  <2>1. /\ \A id \in DOMAIN Domain : Domain'[id] = Domain[id]
        /\ DomainSeq' = DomainSeq
    BY <1>2, RestartKeepsDomains
  <2>2. \A n \in DOMAIN DomainName : DomainName[n] \in DOMAIN Domain
    BY DEF IndexInv, NameIndexConsistent
  <2>3. Holders' = Holders
    BY <1>2, <2>1, <2>2, RestartKeepsIndex, HoldersFacts
  <2> QED BY <2>1, <2>3 DEF Abstract!Next, Abstract!Rest
<1> QED BY <1>1, <1>2

LEMMA NextImplements ==
  IndexInv /\ [Next]_vars => [Abstract!Next]_(Abstract!vars)
<1> SUFFICES ASSUME IndexInv, [Next]_vars
             PROVE  Abstract!Next \/ UNCHANGED Abstract!vars
  OBVIOUS
<1>1. CASE UNCHANGED vars
  BY <1>1 DEF vars, Holders, Abstract!vars
<1>2. ASSUME NEW who \in Users, Message(who)
      PROVE  Abstract!Next \/ UNCHANGED Abstract!vars
  <2>1. ASSUME NEW name, NEW ns, RejectedCreate(who, name, ns)
        PROVE  UNCHANGED Abstract!vars
    BY <2>1, RejectedChangesNothing DEF vars, Holders, Abstract!vars
  <2> QED BY <1>2, <2>1, CreateImplements, UpdateImplements, DeleteImplements,
             HeartbeatImplements, TransferImplements DEF Message
<1>3. CASE \/ \E fee \in Fees : UpdateParams(fee)
           \/ \E t \in TldRequests : AddPermittedTLD(t)
           \/ \E gap \in BlockGaps : NextBlock(gap)
           \/ GenesisRestart
  <2>1. /\ signer' = NoSigner
        /\ UNCHANGED <<Domain, DomainName, DomainSeq>> \/ GenesisRestart
    BY <1>3 DEF UpdateParams, AddPermittedTLD, NextBlock, GenesisRestart, registry
  <2> QED BY <2>1, RestImplements
<1> QED BY <1>1, <1>2, <1>3 DEF Next

(* The registry implements NameRegistry: through every message, block and  *)
(* restart a name has one holder, who came to it by CreateDomain, by the   *)
(* creator's UpdateDomain or TransferDomain, and leaves it by DeleteDomain *)
(* alone, and no two registrations share an id.                            *)
THEOREM RegistryRefines ==
  ASSUME AllGenesisClean
  PROVE  Spec => ImplementsNameRegistry
<1>1. Spec => []IndexInv
  BY IndexInvHolds
<1>2. IndexInv /\ Init => Abstract!Init
  BY InitImplements
<1> QED BY <1>1, <1>2, NextImplements, PTL
        DEF Spec, ImplementsNameRegistry, Abstract!Spec
=============================================================================
