------------------------- MODULE DnsRegistryProofs -------------------------
(***************************************************************************)
(* Proofs about DnsRegistry, for every set of users, names and messages,   *)
(* every calendar and every genesis file that is clean (CleanGenesis).     *)
(***************************************************************************)
EXTENDS DnsRegistry, TLAPS

(***************************************************************************)
(* The inductive invariant.  NameIndexConsistent alone is not inductive:   *)
(* a restart rebuilds the index under normalized names, so stored names    *)
(* must be normalized; and CreateDomain must not overwrite a record, so    *)
(* all ids must lie below DomainSeq.                                       *)
(***************************************************************************)
StoredNamesNormal ==
  \A id \in DOMAIN Domain : Normalize(Domain[id].Name) = Domain[id].Name
                            /\ Domain[id].Name.form # "empty"

IdsBelowSeq == \A id \in DOMAIN Domain : id < DomainSeq

IndexInv ==
  TypeOK /\ NameIndexConsistent /\ StoredNamesNormal /\ IdsBelowSeq

-----------------------------------------------------------------------------
(* Del, the Remove of the collections: what is left afterwards.            *)
LEMMA DelFacts ==
  ASSUME NEW f, NEW k
  PROVE  /\ DOMAIN Del(f, k) = DOMAIN f \ {k}
         /\ \A x \in DOMAIN f \ {k} : Del(f, k)[x] = f[x]
BY DEF Del

(* The normalisation of CreateDomain and InitGenesis stays within the      *)
(* names, keeps the form and is idempotent.                                *)
LEMMA NormalizeFacts ==
  ASSUME NEW n \in NameString
  PROVE  /\ Normalize(n) \in NameString
         /\ Normalize(Normalize(n)) = Normalize(n)
         /\ Normalize(n).form = n.form
BY DEF Normalize, ToLower, TrimDots, NameString

(* The TLD operations stay within the TLD strings.                         *)
LEMMA TldFacts ==
  ASSUME NEW t \in TldString
  PROVE  /\ Normalize(t) \in TldString
         /\ AddedTLD(t) \in TldString
BY DEF Normalize, ToLower, TrimDots, TrimSpace, AddedTLD, TldString

(* InitGenesis stores TLD strings.                                         *)
LEMMA GenesisTLDsType ==
  ASSUME NEW list \in SUBSET TldString
  PROVE  GenesisTLDs(list) \subseteq TldString
BY TldFacts DEF GenesisTLDs

(* A year later is a time (AddDate in CreateDomain and HeartbeatDomain).   *)
LEMMA AddYearType ==
  ASSUME NEW t \in Nat
  PROVE  AddYear(t) \in Nat
<1> DEFINE days == YearDays + IF LeapDayWithinYear(DayOf(t)) THEN 1 ELSE 0
<1>1. days \in Nat
  BY CalendarAssumption DEF CalendarAssumption
<1>2. DayTicks * days \in Nat
  BY <1>1, CalendarAssumption DEF CalendarAssumption
<1> QED
  BY <1>2 DEF AddYear

(* Charging the fee of CreateDomain keeps the bank well-typed.             *)
LEMMA ChargeFeeType ==
  ASSUME NEW b \in BankType(Accounts), NEW u \in Users, NEW fee \in Nat,
         CanPay(b, u, fee)
  PROVE  ChargeFee(b, u, fee) \in BankType(Accounts)
<1>1. u \in Accounts /\ DnsModule \in Accounts /\ u # DnsModule
  BY RegistryAssumption DEF RegistryAssumption, Accounts
<1> QED
  BY <1>1 DEF ChargeFee, SendCoins, BurnCoins, CanPay, BankType

-----------------------------------------------------------------------------
(***************************************************************************)
(* Rebuilding the registry from a list of domains.  OrderlyList is what a  *)
(* clean genesis file and the exported domains of a consistent registry    *)
(* have in common.                                                         *)
(***************************************************************************)
OrderlyList(list) ==
  /\ \A i \in DOMAIN list :
       /\ list[i] \in DomainType
       /\ Normalize(list[i].Name) = list[i].Name
       /\ list[i].Name.form # "empty"
  /\ \A i, j \in DOMAIN list : list[i].Id = list[j].Id => i = j
  /\ \A i, j \in DOMAIN list : list[i].Name = list[j].Name => i = j

(* InitGenesis stores each record of an orderly list under its own id.     *)
LEMMA InitDomainsFacts ==
  ASSUME NEW list, DOMAIN list \subseteq Nat, OrderlyList(list)
  PROVE  /\ DOMAIN InitDomains(list) = {list[i].Id : i \in DOMAIN list}
         /\ \A i \in DOMAIN list : InitDomains(list)[list[i].Id] = list[i]
<1>1. DOMAIN InitDomains(list) = {list[i].Id : i \in DOMAIN list}
  BY DEF InitDomains
<1>2. ASSUME NEW i \in DOMAIN list
      PROVE  InitDomains(list)[list[i].Id] = list[i]
  <2> DEFINE Q(k) == /\ list[k].Id = list[i].Id
                     /\ \A j \in DOMAIN list : list[j].Id = list[i].Id => j <= k
  <2>1. InitDomains(list)[list[i].Id] = list[CHOOSE k \in DOMAIN list : Q(k)]
    BY DEF InitDomains
  <2>2. Q(i)
    BY DEF OrderlyList
  <2>3. \A k \in DOMAIN list : Q(k) => k = i
    BY DEF OrderlyList
  <2>4. (CHOOSE k \in DOMAIN list : Q(k)) = i
    BY <2>2, <2>3
  <2> QED
    BY <2>1, <2>4
<1> QED
  BY <1>1, <1>2

(* ... and indexes it under its own name.                                  *)
LEMMA InitIndexFacts ==
  ASSUME NEW list, DOMAIN list \subseteq Nat, OrderlyList(list)
  PROVE  /\ DOMAIN InitIndex(list) = {list[i].Name : i \in DOMAIN list}
         /\ \A i \in DOMAIN list : InitIndex(list)[list[i].Name] = list[i].Id
<1>0. Indexed(list) = DOMAIN list
  BY DEF Indexed, OrderlyList
<1>1. DOMAIN InitIndex(list) = {list[i].Name : i \in DOMAIN list}
  <2>1. DOMAIN InitIndex(list) = {Normalize(list[i].Name) : i \in DOMAIN list}
    BY <1>0 DEF InitIndex
  <2> QED
    BY <2>1 DEF OrderlyList
<1>2. ASSUME NEW i \in DOMAIN list
      PROVE  InitIndex(list)[list[i].Name] = list[i].Id
  <2> DEFINE Q(k) == /\ Normalize(list[k].Name) = list[i].Name
                     /\ \A j \in Indexed(list) :
                          Normalize(list[j].Name) = list[i].Name => j <= k
  <2>1. list[i].Name \in {Normalize(list[j].Name) : j \in Indexed(list)}
    BY <1>0 DEF OrderlyList
  <2>2. InitIndex(list)[list[i].Name]
          = list[CHOOSE k \in Indexed(list) : Q(k)].Id
    BY <2>1 DEF InitIndex
  <2>3. Q(i)
    BY <1>0 DEF OrderlyList
  <2>4. \A k \in Indexed(list) : Q(k) => k = i
    BY <1>0 DEF OrderlyList
  <2>5. (CHOOSE k \in Indexed(list) : Q(k)) = i
    BY <1>0, <2>3, <2>4
  <2> QED
    BY <2>2, <2>5
<1> QED
  BY <1>1, <1>2

(* So a registry rebuilt from an orderly list is consistent.  This is the  *)
(* common core of InitGenesis on a clean file and of a restart.            *)
LEMMA RebuildConsistent ==
  ASSUME NEW list, DOMAIN list \subseteq Nat, OrderlyList(list),
         NEW seq \in Nat, \A i \in DOMAIN list : list[i].Id < seq,
         NEW D, D = InitDomains(list), NEW X, X = InitIndex(list)
  PROVE  /\ DOMAIN D \subseteq Nat
         /\ \A id \in DOMAIN D :
              /\ D[id] \in DomainType
              /\ D[id].Id = id
              /\ D[id].Name \in DOMAIN X
              /\ X[D[id].Name] = id
              /\ Normalize(D[id].Name) = D[id].Name
              /\ D[id].Name.form # "empty"
              /\ id < seq
         /\ DOMAIN X \subseteq NameString
         /\ \A n \in DOMAIN X :
              /\ X[n] \in Nat
              /\ X[n] \in DOMAIN D
              /\ D[X[n]].Name = n
<1>1. /\ DOMAIN D = {list[i].Id : i \in DOMAIN list}
      /\ \A i \in DOMAIN list : D[list[i].Id] = list[i]
  BY InitDomainsFacts
<1>2. /\ DOMAIN X = {list[i].Name : i \in DOMAIN list}
      /\ \A i \in DOMAIN list : X[list[i].Name] = list[i].Id
  BY InitIndexFacts
<1>3. \A i \in DOMAIN list : /\ list[i].Id \in Nat
                             /\ list[i].Name \in NameString
  BY DEF OrderlyList, DomainType
<1>4. ASSUME NEW id \in DOMAIN D
      PROVE  /\ D[id] \in DomainType
             /\ D[id].Id = id
             /\ D[id].Name \in DOMAIN X
             /\ X[D[id].Name] = id
             /\ Normalize(D[id].Name) = D[id].Name
             /\ D[id].Name.form # "empty"
             /\ id < seq
  <2>1. PICK i \in DOMAIN list : id = list[i].Id
    BY <1>1
  <2>2. D[id] = list[i]
    BY <1>1, <2>1
  <2> QED
    BY <1>2, <2>1, <2>2 DEF OrderlyList
<1>5. ASSUME NEW n \in DOMAIN X
      PROVE  /\ n \in NameString
             /\ X[n] \in Nat
             /\ X[n] \in DOMAIN D
             /\ D[X[n]].Name = n
  <2>1. PICK i \in DOMAIN list : n = list[i].Name
    BY <1>2
  <2> QED
    BY <1>1, <1>2, <1>3, <2>1
<1> QED
  BY <1>1, <1>3, <1>4, <1>5

-----------------------------------------------------------------------------
(* InitGenesis of a clean file establishes the invariant.                  *)
LEMMA InitIndexInv ==
  ASSUME AllGenesisClean, Init
  PROVE  IndexInv
<1>1. PICK g \in GenesisStates :
        /\ Domain = InitDomains(g.DomainList)
        /\ DomainName = InitIndex(g.DomainList)
        /\ DomainSeq = g.DomainCount
        /\ PermittedTLDs = GenesisTLDs(g.PermittedTlds)
        /\ DomainCreationFee = g.DomainCreationFee
        /\ bank = [bal |-> [a \in Accounts |->
                              IF a \in Users THEN InitialBalance[a] ELSE 0],
                   supply |-> InitialSupply]
        /\ now = 0
        /\ signer = NoSigner
        /\ feesBurned = 0
  BY DEF Init
<1> DEFINE list == g.DomainList
<1>2. /\ DOMAIN list \subseteq Nat
      /\ \A i \in DOMAIN list : list[i] \in DomainType
      /\ g.DomainCount \in Nat
      /\ g.PermittedTlds \subseteq TldString
      /\ g.DomainCreationFee \in Nat
      /\ GenesisValidate(g)
  BY RegistryAssumption DEF RegistryAssumption
<1>3. CleanGenesis(g)
  BY DEF AllGenesisClean
<1>4. OrderlyList(list)
  BY <1>2, <1>3 DEF OrderlyList, CleanGenesis, GenesisValidate
<1>5. \A i \in DOMAIN list : list[i].Id < g.DomainCount
  BY <1>2 DEF GenesisValidate
<1> HIDE DEF list
<1>6. /\ Domain = InitDomains(list)
      /\ DomainName = InitIndex(list)
  BY <1>1 DEF list
<1>7. /\ NameIndexConsistent /\ StoredNamesNormal /\ IdsBelowSeq
      /\ DOMAIN Domain \subseteq Nat
      /\ \A id \in DOMAIN Domain : Domain[id] \in DomainType
      /\ DOMAIN DomainName \subseteq NameString
      /\ \A n \in DOMAIN DomainName : DomainName[n] \in Nat
  BY <1>1, <1>2, <1>4, <1>5, <1>6, RebuildConsistent
     DEF NameIndexConsistent, StoredNamesNormal, IdsBelowSeq
<1>8. bank \in BankType(Accounts)
  BY <1>1, RegistryAssumption DEF RegistryAssumption, BankType, Accounts
<1>9. PermittedTLDs \subseteq TldString
  BY <1>1, <1>2, GenesisTLDsType
<1> QED
  BY <1>1, <1>2, <1>7, <1>8, <1>9 DEF IndexInv, TypeOK

(* CreateDomain: the new id is above all others and the name is not yet    *)
(* indexed, so neither Put overwrites an entry.                            *)
LEMMA CreateDomainIndexInv ==
  ASSUME IndexInv,
         NEW creator \in Users, NEW owner \in Users, NEW name \in Names,
         NEW ns \in NsRecordSets, CreateDomain(creator, owner, name, ns)
  PROVE  IndexInv'
<1> DEFINE n == Normalize(name)
           d == [Id |-> DomainSeq, Creator |-> creator, Owner |-> owner,
                 Name |-> n, NsRecords |-> ns, Expiration |-> AddYear(now)]
<1>1. /\ n \in NameString
      /\ Normalize(n) = n
  BY NormalizeFacts, RegistryAssumption DEF RegistryAssumption
<1>2. n.form = "pair"
  BY DEF CreateDomain, CreateChecks
<1>3. /\ DomainName' = Put(DomainName, n, DomainSeq)
      /\ Domain' = Put(Domain, DomainSeq, d)
      /\ n \notin DOMAIN DomainName
      /\ DomainSeq' = DomainSeq + 1
  BY DEF CreateDomain, CreateChecks, NameAvailable
<1>4. d \in DomainType
  <2>1. DomainSeq \in Nat /\ AddYear(now) \in Nat
    BY AddYearType DEF IndexInv, TypeOK
  <2>2. ns \in NsRecordSets \ (BadNs \cup {NoNs})
    BY DEF CreateDomain, CreateChecks, ValidNsRecords
  <2> HIDE DEF n
  <2> QED
    BY <1>1, <2>1, <2>2 DEF DomainType
<1>5. bank' \in BankType(Accounts)
  BY ChargeFeeType DEF CreateDomain, IndexInv, TypeOK
<1>6. d.Id = DomainSeq /\ d.Name = n
  OBVIOUS
<1> HIDE DEF n, d
<1>7. DomainSeq \notin DOMAIN Domain
  BY DEF IndexInv, TypeOK, IdsBelowSeq
<1>8. /\ DOMAIN Domain' = DOMAIN Domain \cup {DomainSeq}
      /\ Domain'[DomainSeq] = d
      /\ \A id \in DOMAIN Domain : Domain'[id] = Domain[id]
  BY <1>3, <1>7 DEF Put
<1>9. /\ DOMAIN DomainName' = DOMAIN DomainName \cup {n}
      /\ DomainName'[n] = DomainSeq
      /\ \A m \in DOMAIN DomainName : DomainName'[m] = DomainName[m]
  BY <1>3 DEF Put
<1>10. TypeOK'
  <2>1. TypeOK
    BY DEF IndexInv
  <2>2. /\ DOMAIN Domain' \subseteq Nat
        /\ \A id \in DOMAIN Domain' : Domain'[id] \in DomainType
    BY <1>4, <1>8, <2>1 DEF TypeOK
  <2>3. /\ DOMAIN DomainName' \subseteq NameString
        /\ \A m \in DOMAIN DomainName' : DomainName'[m] \in Nat
    BY <1>1, <1>9, <2>1 DEF TypeOK
  <2>4. DomainSeq' \in Nat
    BY <1>3, <2>1 DEF TypeOK
  <2>5. /\ PermittedTLDs' = PermittedTLDs
        /\ DomainCreationFee' = DomainCreationFee
        /\ now' = now
        /\ signer' = creator
    BY DEF CreateDomain
  <2>6. feesBurned' \in Nat
    BY <2>1 DEF CreateDomain, TypeOK
  <2> QED
    BY <1>5, <2>1, <2>2, <2>3, <2>4, <2>5, <2>6 DEF TypeOK
<1>11. NameIndexConsistent'
  <2>1. NameIndexConsistent
    BY DEF IndexInv
  <2> QED
    BY <1>6, <1>7, <1>8, <1>9, <2>1 DEF NameIndexConsistent
<1>12. StoredNamesNormal'
  BY <1>1, <1>2, <1>6, <1>8 DEF IndexInv, StoredNamesNormal
<1>13. IdsBelowSeq'
  BY <1>3, <1>8 DEF IndexInv, TypeOK, IdsBelowSeq
<1> QED
  BY <1>10, <1>11, <1>12, <1>13 DEF IndexInv

(* The handlers that rewrite a record in place keep its id and its name:   *)
(* what UpdateDomain, HeartbeatDomain and TransferDomain have in common.   *)
LEMMA RewriteIndexInv ==
  ASSUME IndexInv, NEW id \in DOMAIN Domain, NEW d \in DomainType,
         d.Id = Domain[id].Id, d.Name = Domain[id].Name,
         Domain' = Put(Domain, id, d),
         NEW who \in Users, signer' = who,
         UNCHANGED <<DomainName, DomainSeq, PermittedTLDs,
                     DomainCreationFee, bank, now, feesBurned>>
  PROVE  IndexInv'
<1>1. /\ DOMAIN Domain' = DOMAIN Domain
      /\ Domain'[id] = d
      /\ \A x \in DOMAIN Domain : x # id => Domain'[x] = Domain[x]
  BY DEF Put
<1>2. TypeOK'
  BY <1>1 DEF IndexInv, TypeOK
<1>3. NameIndexConsistent'
  <2>1. NameIndexConsistent
    BY DEF IndexInv
  <2> QED
    BY <1>1, <2>1 DEF NameIndexConsistent
<1>4. StoredNamesNormal'
  BY <1>1 DEF IndexInv, StoredNamesNormal
<1>5. IdsBelowSeq'
  BY <1>1 DEF IndexInv, IdsBelowSeq
<1> QED
  BY <1>2, <1>3, <1>4, <1>5 DEF IndexInv

(* DeleteDomain: the stored name is the key of its own index entry, so     *)
(* exactly the two entries of one domain disappear.                        *)
LEMMA DeleteDomainIndexInv ==
  ASSUME IndexInv, NEW who \in Users, NEW id \in DOMAIN Domain,
         DeleteDomain(who, id)
  PROVE  IndexInv'
<1> DEFINE n == Domain[id].Name
<1>1. /\ DOMAIN Domain' = DOMAIN Domain \ {id}
      /\ \A x \in DOMAIN Domain \ {id} : Domain'[x] = Domain[x]
  BY DelFacts DEF DeleteDomain
<1>2. /\ DOMAIN DomainName' = DOMAIN DomainName \ {n}
      /\ \A m \in DOMAIN DomainName \ {n} : DomainName'[m] = DomainName[m]
  BY DelFacts DEF DeleteDomain
<1>3. TypeOK'
  BY <1>1, <1>2 DEF DeleteDomain, IndexInv, TypeOK
<1>4. NameIndexConsistent'
  <2>1. NameIndexConsistent
    BY DEF IndexInv
  <2> QED
    BY <1>1, <1>2, <2>1 DEF NameIndexConsistent
<1>5. StoredNamesNormal'
  BY <1>1 DEF IndexInv, StoredNamesNormal
<1>6. IdsBelowSeq'
  BY <1>1 DEF DeleteDomain, IndexInv, IdsBelowSeq
<1> QED
  BY <1>3, <1>4, <1>5, <1>6 DEF IndexInv

(* GenesisRestart: the exported domains of a consistent registry are an    *)
(* orderly list, so the index InitGenesis rebuilds is consistent again.    *)
LEMMA RestartIndexInv ==
  ASSUME IndexInv, GenesisRestart
  PROVE  IndexInv'
<1>1. /\ Domain' = InitDomains(Domain)
      /\ DomainName' = InitIndex(Domain)
      /\ DomainSeq' = DomainSeq
      /\ PermittedTLDs' = GenesisTLDs(PermittedTLDs)
      /\ DomainCreationFee' = DomainCreationFee
      /\ signer' = NoSigner
      /\ UNCHANGED <<bank, now, feesBurned>>
  BY DEF GenesisRestart, ExportGenesis
<1>2. DOMAIN Domain \subseteq Nat /\ DomainSeq \in Nat
  BY DEF IndexInv, TypeOK
<1>3. OrderlyList(Domain)
  <2>1. \A i \in DOMAIN Domain :
          /\ Domain[i] \in DomainType
          /\ Normalize(Domain[i].Name) = Domain[i].Name
          /\ Domain[i].Name.form # "empty"
    BY DEF IndexInv, TypeOK, StoredNamesNormal
  <2>2. NameIndexConsistent
    BY DEF IndexInv
  <2>3. \A i, j \in DOMAIN Domain : Domain[i].Id = Domain[j].Id => i = j
    BY <2>2 DEF NameIndexConsistent
  <2>4. \A i, j \in DOMAIN Domain : Domain[i].Name = Domain[j].Name => i = j
    BY <2>2 DEF NameIndexConsistent
  <2> QED
    BY <2>1, <2>3, <2>4 DEF OrderlyList
<1>4. \A i \in DOMAIN Domain : Domain[i].Id < DomainSeq
  BY DEF IndexInv, NameIndexConsistent, IdsBelowSeq
<1>5. /\ NameIndexConsistent' /\ StoredNamesNormal' /\ IdsBelowSeq'
      /\ DOMAIN Domain' \subseteq Nat
      /\ \A id \in DOMAIN Domain' : Domain'[id] \in DomainType
      /\ DOMAIN DomainName' \subseteq NameString
      /\ \A n \in DOMAIN DomainName' : DomainName'[n] \in Nat
  BY <1>1, <1>2, <1>3, <1>4, RebuildConsistent
     DEF NameIndexConsistent, StoredNamesNormal, IdsBelowSeq
<1>6. PermittedTLDs' \subseteq TldString
  BY <1>1, GenesisTLDsType DEF IndexInv, TypeOK
<1> QED
  BY <1>1, <1>5, <1>6 DEF IndexInv, TypeOK

(* A creation that fails after the fee is charged leaves nothing behind.   *)
LEMMA RejectedChangesNothing ==
  ASSUME NEW who, NEW name, NEW ns, RejectedCreate(who, name, ns)
  PROVE  UNCHANGED vars
BY DEF RejectedCreate, Discard, registry, vars

(* Every step keeps the invariant, one case for each message and each      *)
(* entry point of the keeper.                                              *)
LEMMA NextIndexInv ==
  ASSUME IndexInv, [Next]_vars
  PROVE  IndexInv'
<1>1. ASSUME NEW who \in Users, NEW owner \in Users, NEW name \in Names,
             NEW ns \in NsRecordSets, CreateDomain(who, owner, name, ns)
      PROVE  IndexInv'
  BY <1>1, CreateDomainIndexInv
<1>2. ASSUME NEW who \in Users, NEW id \in DOMAIN Domain,
             NEW owner \in Users \cup {NoSigner}, NEW ns \in NsRecordSets,
             UpdateDomain(who, id, owner, ns)
      PROVE  IndexInv'
  <2> DEFINE old == Domain[id]
             o == IF owner # NoSigner /\ owner # old.Owner
                    THEN owner ELSE old.Owner
             s == IF ns # NoNs THEN ns ELSE old.NsRecords
             d == [old EXCEPT !.Owner = o, !.NsRecords = s]
  <2>1. old \in DomainType
    BY DEF IndexInv, TypeOK
  <2>2. o \in Users
    BY <2>1 DEF DomainType
  <2>3. s \in NsRecordSets \ (BadNs \cup {NoNs})
    BY <1>2, <2>1 DEF UpdateDomain, ValidNsRecords, DomainType
  <2>4. Domain' = Put(Domain, id, d)
    BY <1>2 DEF UpdateDomain
  <2>5. /\ signer' = who
        /\ UNCHANGED <<DomainName, DomainSeq, PermittedTLDs,
                       DomainCreationFee, bank, now, feesBurned>>
    BY <1>2 DEF UpdateDomain
  <2> HIDE DEF old, o, s
  <2>6. d \in DomainType /\ d.Id = old.Id /\ d.Name = old.Name
    BY <2>1, <2>2, <2>3 DEF DomainType
  <2> QED
    BY <2>4, <2>5, <2>6, RewriteIndexInv DEF old
<1>3. ASSUME NEW who \in Users, NEW id \in DOMAIN Domain,
             DeleteDomain(who, id)
      PROVE  IndexInv'
  BY <1>3, DeleteDomainIndexInv
<1>4. ASSUME NEW who \in Users, NEW id \in DOMAIN Domain,
             HeartbeatDomain(who, id)
      PROVE  IndexInv'
  <2> DEFINE d == [Domain[id] EXCEPT !.Expiration = AddYear(now)]
  <2>1. AddYear(now) \in Nat
    BY AddYearType DEF IndexInv, TypeOK
  <2>2. d \in DomainType /\ d.Id = Domain[id].Id /\ d.Name = Domain[id].Name
    BY <2>1 DEF IndexInv, TypeOK, DomainType
  <2>3. /\ Domain' = Put(Domain, id, d)
        /\ signer' = who
        /\ UNCHANGED <<DomainName, DomainSeq, PermittedTLDs,
                       DomainCreationFee, bank, now, feesBurned>>
    BY <1>4 DEF HeartbeatDomain
  <2> HIDE DEF d
  <2> QED
    BY <2>2, <2>3, RewriteIndexInv
<1>5. ASSUME NEW who \in Users, NEW id \in DOMAIN Domain,
             NEW newOwner \in Users, TransferDomain(who, id, newOwner)
      PROVE  IndexInv'
  <2> DEFINE d == [Domain[id] EXCEPT !.Creator = newOwner,
                                     !.Owner = newOwner]
  <2>1. d \in DomainType /\ d.Id = Domain[id].Id /\ d.Name = Domain[id].Name
    BY DEF IndexInv, TypeOK, DomainType
  <2>2. /\ Domain' = Put(Domain, id, d)
        /\ signer' = who
        /\ UNCHANGED <<DomainName, DomainSeq, PermittedTLDs,
                       DomainCreationFee, bank, now, feesBurned>>
    BY <1>5 DEF TransferDomain
  <2> HIDE DEF d
  <2> QED
    BY <2>1, <2>2, RewriteIndexInv
<1>6. ASSUME NEW fee \in Fees, UpdateParams(fee)
      PROVE  IndexInv'
  <2>1. fee \in Nat
    BY RegistryAssumption DEF RegistryAssumption
  <2> QED
    BY <1>6, <2>1 DEF UpdateParams, registry, IndexInv, TypeOK,
       NameIndexConsistent, StoredNamesNormal, IdsBelowSeq
<1>7. ASSUME NEW t \in TldRequests, AddPermittedTLD(t)
      PROVE  IndexInv'
  <2>1. AddedTLD(t) \in TldString
    BY TldFacts, RegistryAssumption DEF RegistryAssumption
  <2> QED
    BY <1>7, <2>1 DEF AddPermittedTLD, IndexInv, TypeOK,
       NameIndexConsistent, StoredNamesNormal, IdsBelowSeq
<1>8. ASSUME NEW gap \in BlockGaps, NextBlock(gap)
      PROVE  IndexInv'
  <2>1. gap \in Nat
    BY RegistryAssumption DEF RegistryAssumption
  <2> QED
    BY <1>8, <2>1 DEF NextBlock, registry, IndexInv, TypeOK,
       NameIndexConsistent, StoredNamesNormal, IdsBelowSeq
<1>9. CASE GenesisRestart
  BY <1>9, RestartIndexInv
<1>10. CASE UNCHANGED vars
  BY <1>10 DEF vars, IndexInv, TypeOK, NameIndexConsistent,
     StoredNamesNormal, IdsBelowSeq
<1>11. ASSUME NEW who, NEW name, NEW ns, RejectedCreate(who, name, ns)
       PROVE  IndexInv'
  BY <1>10, <1>11, RejectedChangesNothing
<1> QED
  BY <1>1, <1>2, <1>3, <1>4, <1>5, <1>6, <1>7, <1>8, <1>9, <1>10, <1>11
     DEF Next, Message

(* The invariant holds throughout every run of the registry that starts    *)
(* from clean genesis files.                                               *)
THEOREM IndexInvHolds ==
  ASSUME AllGenesisClean
  PROVE  Spec => []IndexInv
<1>1. Init => IndexInv
  BY InitIndexInv
<1>2. IndexInv /\ [Next]_vars => IndexInv'
  BY NextIndexInv
<1> QED
  BY <1>1, <1>2, PTL DEF Spec

(* Type correctness of the keeper's collections, for every set of users,   *)
(* names and genesis files.                                                *)
THEOREM TypeCorrect ==
  ASSUME AllGenesisClean
  PROVE  Spec => []TypeOK
<1>1. IndexInv => TypeOK
  BY DEF IndexInv
<1> QED
  BY <1>1, IndexInvHolds, PTL

(* The name index and the domain map always describe each other: no        *)
(* sequence of messages, blocks and restarts makes a domain unreachable by *)
(* its name or leaves an index entry behind.                               *)
THEOREM IndexConsistent ==
  ASSUME AllGenesisClean
  PROVE  Spec => []NameIndexConsistent
<1>1. IndexInv => NameIndexConsistent
  BY DEF IndexInv
<1> QED
  BY <1>1, IndexInvHolds, PTL

-----------------------------------------------------------------------------
(* A restart of a consistent registry leaves every domain where it was.    *)
LEMMA RestartKeepsDomains ==
  ASSUME IndexInv, GenesisRestart
  PROVE  /\ DOMAIN Domain' = DOMAIN Domain
         /\ \A id \in DOMAIN Domain : Domain'[id] = Domain[id]
         /\ DomainSeq' = DomainSeq
<1>1. Domain' = InitDomains(Domain) /\ DomainSeq' = DomainSeq
  BY DEF GenesisRestart, ExportGenesis
<1>2. \A id \in DOMAIN Domain : Domain[id].Id = id
  BY DEF IndexInv, NameIndexConsistent
<1>3. DOMAIN Domain' = DOMAIN Domain
  BY <1>1, <1>2 DEF InitDomains
<1>4. ASSUME NEW id \in DOMAIN Domain
      PROVE  Domain'[id] = Domain[id]
  <2> DEFINE Q(k) == /\ Domain[k].Id = id
                     /\ \A j \in DOMAIN Domain : Domain[j].Id = id => j <= k
  <2>1. Domain'[id] = Domain[CHOOSE k \in DOMAIN Domain : Q(k)]
    BY <1>1, <1>2 DEF InitDomains
  <2>2. id \in Nat
    BY DEF IndexInv, TypeOK
  <2>3. Q(id) /\ \A k \in DOMAIN Domain : Q(k) => k = id
    BY <1>2, <2>2
  <2>4. (CHOOSE k \in DOMAIN Domain : Q(k)) = id
    BY <2>3
  <2> QED
    BY <2>1, <2>4
<1> QED
  BY <1>1, <1>3, <1>4

(* What a step may do to the domain map: create the next id, rewrite or    *)
(* remove one domain, or leave it alone.                                   *)
LEMMA StepOnDomains ==
  ASSUME IndexInv, Next
  PROVE  \/ /\ DOMAIN Domain' = DOMAIN Domain \cup {DomainSeq}
            /\ \A id \in DOMAIN Domain : Domain'[id] = Domain[id]
            /\ DomainSeq' = DomainSeq + 1
         \/ /\ DomainSeq' = DomainSeq
            /\ \E id \in DOMAIN Domain :
                 /\ \/ /\ DOMAIN Domain' = DOMAIN Domain \ {id}
                       /\ signer' = Domain[id].Owner
                    \/ /\ DOMAIN Domain' = DOMAIN Domain
                       /\ Domain'[id].Name = Domain[id].Name
                       /\ signer' \in {Domain[id].Creator, Domain[id].Owner}
                       /\ \/ signer' = Domain[id].Creator
                          \/ /\ Domain'[id].Owner = Domain[id].Owner
                             /\ Domain'[id].Creator = Domain[id].Creator
                 /\ \A x \in DOMAIN Domain \ {id} : Domain'[x] = Domain[x]
         \/ /\ DOMAIN Domain' = DOMAIN Domain
            /\ \A id \in DOMAIN Domain : Domain'[id] = Domain[id]
            /\ DomainSeq' = DomainSeq
<1> DEFINE Created == /\ DOMAIN Domain' = DOMAIN Domain \cup {DomainSeq}
                      /\ \A id \in DOMAIN Domain : Domain'[id] = Domain[id]
                      /\ DomainSeq' = DomainSeq + 1
           Removed(id) == /\ DOMAIN Domain' = DOMAIN Domain \ {id}
                          /\ signer' = Domain[id].Owner
           Rewritten(id) ==
             /\ DOMAIN Domain' = DOMAIN Domain
             /\ Domain'[id].Name = Domain[id].Name
             /\ signer' \in {Domain[id].Creator, Domain[id].Owner}
             /\ \/ signer' = Domain[id].Creator
                \/ /\ Domain'[id].Owner = Domain[id].Owner
                   /\ Domain'[id].Creator = Domain[id].Creator
           Others(id) ==
             \A x \in DOMAIN Domain \ {id} : Domain'[x] = Domain[x]
           OneDomain == /\ DomainSeq' = DomainSeq
                        /\ \E id \in DOMAIN Domain :
                             (Removed(id) \/ Rewritten(id)) /\ Others(id)
           NoDomain == /\ DOMAIN Domain' = DOMAIN Domain
                       /\ \A id \in DOMAIN Domain : Domain'[id] = Domain[id]
                       /\ DomainSeq' = DomainSeq
<1>1. ASSUME NEW who \in Users, NEW owner \in Users, NEW name \in Names,
             NEW ns \in NsRecordSets, CreateDomain(who, owner, name, ns)
      PROVE  Created
  <2>1. DomainSeq \notin DOMAIN Domain
    BY DEF IndexInv, TypeOK, IdsBelowSeq
  <2> QED
    BY <1>1, <2>1 DEF CreateDomain, Put
<1>2. ASSUME NEW id \in DOMAIN Domain, NEW d \in DomainType, NEW who,
             Domain' = Put(Domain, id, d), d.Name = Domain[id].Name,
             signer' = who, DomainSeq' = DomainSeq,
             who \in {Domain[id].Creator, Domain[id].Owner},
             \/ who = Domain[id].Creator
             \/ d.Owner = Domain[id].Owner /\ d.Creator = Domain[id].Creator
      PROVE  OneDomain
  BY <1>2 DEF Put
<1>3. ASSUME NEW id \in DOMAIN Domain
      PROVE  Domain[id] \in DomainType
  BY DEF IndexInv, TypeOK
<1>4. ASSUME NEW who \in Users, NEW id \in DOMAIN Domain,
             NEW owner \in Users \cup {NoSigner}, NEW ns \in NsRecordSets,
             UpdateDomain(who, id, owner, ns)
      PROVE  OneDomain
  <2> DEFINE old == Domain[id]
             newOwner == owner # NoSigner /\ owner # old.Owner
             o == IF newOwner THEN owner ELSE old.Owner
             s == IF ns # NoNs THEN ns ELSE old.NsRecords
             d == [old EXCEPT !.Owner = o, !.NsRecords = s]
  <2>1. old \in DomainType
    BY <1>3
  <2>2. o \in Users
    BY <2>1 DEF DomainType
  <2>3. s \in NsRecordSets \ (BadNs \cup {NoNs})
    BY <1>4, <2>1 DEF UpdateDomain, ValidNsRecords, DomainType
  <2>4. Domain' = Put(Domain, id, d)
    BY <1>4 DEF UpdateDomain
  <2>5. /\ signer' = who /\ DomainSeq' = DomainSeq
        /\ who \in {old.Creator, old.Owner}
        /\ who = old.Creator \/ o = old.Owner
    BY <1>4 DEF UpdateDomain
  <2> HIDE DEF old, o, s
  <2>6. /\ d \in DomainType /\ d.Name = old.Name
        /\ d.Owner = o /\ d.Creator = old.Creator
    BY <2>1, <2>2, <2>3 DEF DomainType
  <2> HIDE DEF d
  <2> QED
    BY <1>2, <2>4, <2>5, <2>6 DEF old
<1>5. ASSUME NEW who \in Users, NEW id \in DOMAIN Domain,
             DeleteDomain(who, id)
      PROVE  OneDomain
  BY <1>5 DEF DeleteDomain, Del
<1>6. ASSUME NEW who \in Users, NEW id \in DOMAIN Domain,
             HeartbeatDomain(who, id)
      PROVE  OneDomain
  <2> DEFINE d == [Domain[id] EXCEPT !.Expiration = AddYear(now)]
  <2>1. AddYear(now) \in Nat
    BY AddYearType DEF IndexInv, TypeOK
  <2>2. /\ d \in DomainType /\ d.Name = Domain[id].Name
        /\ d.Owner = Domain[id].Owner /\ d.Creator = Domain[id].Creator
    BY <1>3, <2>1 DEF DomainType
  <2>3. /\ Domain' = Put(Domain, id, d)
        /\ signer' = who /\ DomainSeq' = DomainSeq
        /\ who \in {Domain[id].Creator, Domain[id].Owner}
    BY <1>6 DEF HeartbeatDomain
  <2> HIDE DEF d
  <2> QED
    BY <1>2, <2>2, <2>3
<1>7. ASSUME NEW who \in Users, NEW id \in DOMAIN Domain,
             NEW newOwner \in Users, TransferDomain(who, id, newOwner)
      PROVE  OneDomain
  <2> DEFINE d == [Domain[id] EXCEPT !.Creator = newOwner,
                                     !.Owner = newOwner]
  <2>1. d \in DomainType /\ d.Name = Domain[id].Name
    BY <1>3 DEF DomainType
  <2>2. /\ Domain' = Put(Domain, id, d)
        /\ signer' = who /\ DomainSeq' = DomainSeq
        /\ who = Domain[id].Creator
    BY <1>7 DEF TransferDomain
  <2> HIDE DEF d
  <2> QED
    BY <1>2, <2>1, <2>2
<1>8. ASSUME \/ \E fee \in Fees : UpdateParams(fee)
             \/ \E t \in TldRequests : AddPermittedTLD(t)
             \/ \E gap \in BlockGaps : NextBlock(gap)
      PROVE  NoDomain
  BY <1>8 DEF UpdateParams, AddPermittedTLD, NextBlock, registry
<1>9. ASSUME GenesisRestart
      PROVE  NoDomain
  BY <1>9, RestartKeepsDomains
<1>10. ASSUME NEW who, NEW name, NEW ns, RejectedCreate(who, name, ns)
       PROVE  NoDomain
  BY <1>10, RejectedChangesNothing DEF vars
<1> HIDE DEF Created, OneDomain, NoDomain
<1>11. Created \/ OneDomain \/ NoDomain
  BY <1>1, <1>4, <1>5, <1>6, <1>7, <1>8, <1>9, <1>10 DEF Next, Message
<1> QED
  BY <1>11 DEF Created, OneDomain, NoDomain

(* Ids are given out once: neither a deletion nor a restart brings one     *)
(* back.                                                                   *)
THEOREM IdsOnlyGoUp ==
  ASSUME AllGenesisClean
  PROVE  Spec => IdsNeverReused
<1> DEFINE A == /\ DomainSeq' >= DomainSeq
                /\ \A id \in DOMAIN Domain' \ DOMAIN Domain :
                     DomainSeq <= id /\ id < DomainSeq'
<1>1. IndexInv /\ [Next]_vars => [A]_vars
  <2> SUFFICES ASSUME IndexInv, Next PROVE A
    OBVIOUS
  <2>1. DomainSeq \in Nat
    BY DEF IndexInv, TypeOK
  <2>2. \/ /\ DomainSeq' = DomainSeq + 1
           /\ DOMAIN Domain' \ DOMAIN Domain \subseteq {DomainSeq}
        \/ /\ DomainSeq' = DomainSeq
           /\ DOMAIN Domain' \ DOMAIN Domain = {}
    BY StepOnDomains
  <2> QED
    BY <2>1, <2>2
<1> QED
  BY <1>1, IndexInvHolds, PTL DEF Spec, IdsNeverReused

(* Only the creator and the owner act on a domain, each within the rights  *)
(* the handlers check for, over every history of updates and transfers.    *)
THEOREM AuthorityHolds ==
  ASSUME AllGenesisClean
  PROVE  Spec => Authority
<1> DEFINE A == \A id \in DOMAIN Domain :
       IF id \notin DOMAIN Domain'
         THEN signer' = Domain[id].Owner
         ELSE /\ Domain'[id].Name = Domain[id].Name
              /\ \/ Domain'[id].Owner = Domain[id].Owner
                 \/ signer' = Domain[id].Creator
              /\ \/ Domain'[id].Creator = Domain[id].Creator
                 \/ signer' = Domain[id].Creator
              /\ \/ Domain'[id] = Domain[id]
                 \/ signer' \in {Domain[id].Creator, Domain[id].Owner}
<1>1. IndexInv /\ [Next]_vars => [A]_vars
  <2> SUFFICES ASSUME IndexInv, Next PROVE A
    OBVIOUS
  <2> QED
    BY StepOnDomains
<1> QED
  BY <1>1, IndexInvHolds, PTL DEF Spec, Authority

-----------------------------------------------------------------------------
(***************************************************************************)
(* The TLD policy.  A domain's TLD is not reserved because no permitted    *)
(* one is: genesis files are clean, AddPermittedTLD checks the deny list,  *)
(* and a restart only normalizes again.                                    *)
(***************************************************************************)
NoReservedPermitted == \A t \in PermittedTLDs : ~IsReservedTLD(t)

TldInv == DomainsUnderPermittedTLDs /\ NoReservedPermitted

(* The TLD looked up for a name is in the form InitGenesis stores.         *)
LEMMA TldOfName ==
  ASSUME NEW n \in NameString
  PROVE  /\ AddedTLD(TldPart(n)) \in TldString
         /\ Normalize(AddedTLD(TldPart(n))) = AddedTLD(TldPart(n))
<1> DEFINE t == TldPart(n)
           u == TrimSpace(t)
           v == ToLower(u)
<1>1. t \in TldString /\ t.dots = FALSE
  BY DEF TldPart, TldString, NameString
<1> HIDE DEF t
<1>2. u \in TldString /\ u.dots = FALSE
  BY <1>1 DEF TrimSpace, TldString
<1> HIDE DEF u
<1>3. v \in TldString /\ v.dots = FALSE /\ v.upper = FALSE
  BY <1>2 DEF ToLower, TldString
<1> HIDE DEF v
<1>4. TrimDots(v) = v
  BY <1>3 DEF TrimDots, TldString
<1>5. ToLower(v) = v
  BY <1>3 DEF ToLower, TldString
<1>6. AddedTLD(TldPart(n)) = v
  BY DEF AddedTLD, t, u, v
<1> QED
  BY <1>3, <1>4, <1>5, <1>6 DEF Normalize

(* IsReservedTLD looks at the normalized text only.                        *)
LEMMA ReservedNormalized ==
  ASSUME NEW t \in TldString
  PROVE  IsReservedTLD(Normalize(t)) <=> IsReservedTLD(t)
<1>1. Normalize(Normalize(t)) = Normalize(t)
  BY DEF Normalize, ToLower, TrimDots, TldString
<1> QED
  BY <1>1 DEF IsReservedTLD

(* What a permitted name needs of a set of TLDs.                           *)
LEMMA PermittedMeaning ==
  ASSUME NEW t, NEW P
  PROVE  IsTLDPermitted(t, P)
           <=> ~IsEmptyString(AddedTLD(t)) /\ AddedTLD(t) \in P
BY DEF IsTLDPermitted, AddedTLD

(* Messages leave the permitted TLDs alone, and all but CreateDomain the   *)
(* sequence.                                                               *)
LEMMA MessageLeavesPolicy ==
  ASSUME NEW who \in Users, Message(who)
  PROVE  /\ PermittedTLDs' = PermittedTLDs
         /\ \/ DomainSeq' = DomainSeq
            \/ \E owner \in Users, name \in Names, ns \in NsRecordSets :
                 CreateDomain(who, owner, name, ns)
<1>1. ASSUME NEW owner \in Users, NEW name \in Names,
             NEW ns \in NsRecordSets, CreateDomain(who, owner, name, ns)
      PROVE  PermittedTLDs' = PermittedTLDs
  BY <1>1 DEF CreateDomain
<1>2. ASSUME NEW id, NEW owner, NEW ns, UpdateDomain(who, id, owner, ns)
      PROVE  PermittedTLDs' = PermittedTLDs /\ DomainSeq' = DomainSeq
  BY <1>2 DEF UpdateDomain
<1>3. ASSUME NEW id, DeleteDomain(who, id)
      PROVE  PermittedTLDs' = PermittedTLDs /\ DomainSeq' = DomainSeq
  BY <1>3 DEF DeleteDomain
<1>4. ASSUME NEW id, HeartbeatDomain(who, id)
      PROVE  PermittedTLDs' = PermittedTLDs /\ DomainSeq' = DomainSeq
  BY <1>4 DEF HeartbeatDomain
<1>5. ASSUME NEW id, NEW newOwner, TransferDomain(who, id, newOwner)
      PROVE  PermittedTLDs' = PermittedTLDs /\ DomainSeq' = DomainSeq
  BY <1>5 DEF TransferDomain
<1>6. ASSUME NEW name, NEW ns, RejectedCreate(who, name, ns)
      PROVE  PermittedTLDs' = PermittedTLDs /\ DomainSeq' = DomainSeq
  BY <1>6, RejectedChangesNothing DEF vars
<1> QED
  BY <1>1, <1>2, <1>3, <1>4, <1>5, <1>6 DEF Message

(* No step withdraws a TLD that a name may be under, or permits a reserved *)
(* one.                                                                    *)
LEMMA StepOnTlds ==
  ASSUME IndexInv, TldInv, Next
  PROVE  /\ NoReservedPermitted'
         /\ \A t \in TldString :
              (Normalize(t) = t /\ ~IsEmptyString(t) /\ t \in PermittedTLDs)
                => t \in PermittedTLDs'
<1>0. PermittedTLDs \subseteq TldString /\ NoReservedPermitted
  BY DEF IndexInv, TypeOK, TldInv
<1>1. CASE PermittedTLDs' = PermittedTLDs
  BY <1>0, <1>1 DEF NoReservedPermitted
<1>2. ASSUME NEW t \in TldRequests, AddPermittedTLD(t)
      PROVE  /\ NoReservedPermitted'
             /\ PermittedTLDs \subseteq PermittedTLDs'
  <2>1. PermittedTLDs' = PermittedTLDs \cup {AddedTLD(t)}
    BY <1>2 DEF AddPermittedTLD
  <2>2. ~IsReservedTLD(AddedTLD(t))
    BY <1>2 DEF AddPermittedTLD, CanAddPermittedTLD
  <2> QED
    BY <1>0, <2>1, <2>2 DEF NoReservedPermitted
<1>3. ASSUME GenesisRestart
      PROVE  /\ NoReservedPermitted'
             /\ \A t \in TldString :
                  (Normalize(t) = t /\ ~IsEmptyString(t)
                     /\ t \in PermittedTLDs)
                    => t \in PermittedTLDs'
  <2>1. PermittedTLDs' =
          {n \in {Normalize(t) : t \in PermittedTLDs} : ~IsEmptyString(n)}
    BY <1>3 DEF GenesisRestart, ExportGenesis, GenesisTLDs
  <2>2. \A t \in PermittedTLDs : ~IsReservedTLD(Normalize(t))
    BY <1>0, ReservedNormalized DEF NoReservedPermitted
  <2> QED
    BY <2>1, <2>2 DEF NoReservedPermitted
<1>4. ASSUME NEW who \in Users, Message(who)
      PROVE  PermittedTLDs' = PermittedTLDs
  BY <1>4, MessageLeavesPolicy
<1>5. ASSUME \/ \E fee \in Fees : UpdateParams(fee)
             \/ \E gap \in BlockGaps : NextBlock(gap)
      PROVE  PermittedTLDs' = PermittedTLDs
  BY <1>5 DEF UpdateParams, NextBlock, registry
<1> QED
  BY <1>1, <1>2, <1>3, <1>4, <1>5 DEF Next

(* A domain after a step has the name it had before, or CreateDomain has   *)
(* just checked the TLD of its name.                                       *)
LEMMA NamesAfterStep ==
  ASSUME IndexInv, Next, NEW id \in DOMAIN Domain'
  PROVE  \/ id \in DOMAIN Domain /\ Domain'[id].Name = Domain[id].Name
         \/ IsTLDPermitted(TldPart(Domain'[id].Name), PermittedTLDs)
<1>1. ASSUME NEW who \in Users, NEW owner \in Users, NEW name \in Names,
             NEW ns \in NsRecordSets, CreateDomain(who, owner, name, ns)
      PROVE  \/ id \in DOMAIN Domain /\ Domain'[id] = Domain[id]
             \/ IsTLDPermitted(TldPart(Domain'[id].Name), PermittedTLDs)
  <2> DEFINE n == Normalize(name)
             d == [Id |-> DomainSeq, Creator |-> who, Owner |-> owner,
                   Name |-> n, NsRecords |-> ns, Expiration |-> AddYear(now)]
  <2>1. /\ Domain' = Put(Domain, DomainSeq, d)
        /\ IsTLDPermitted(TldPart(n), PermittedTLDs)
    BY <1>1 DEF CreateDomain, CreateChecks
  <2>2. d.Name = n
    OBVIOUS
  <2> HIDE DEF n, d
  <2> QED
    BY <2>1, <2>2 DEF Put
<1>2. ASSUME DomainSeq' = DomainSeq
      PROVE  id \in DOMAIN Domain /\ Domain'[id].Name = Domain[id].Name
  <2>1. DomainSeq' # DomainSeq + 1
    BY <1>2 DEF IndexInv, TypeOK
  <2>2. \/ \E x \in DOMAIN Domain :
             /\ \/ DOMAIN Domain' = DOMAIN Domain \ {x}
                \/ /\ DOMAIN Domain' = DOMAIN Domain
                   /\ Domain'[x].Name = Domain[x].Name
             /\ \A y \in DOMAIN Domain \ {x} : Domain'[y] = Domain[y]
        \/ /\ DOMAIN Domain' = DOMAIN Domain
           /\ \A y \in DOMAIN Domain : Domain'[y] = Domain[y]
    BY <2>1, StepOnDomains
  <2> QED
    BY <2>2
<1>3. ASSUME \/ \E fee \in Fees : UpdateParams(fee)
             \/ \E t \in TldRequests : AddPermittedTLD(t)
             \/ \E gap \in BlockGaps : NextBlock(gap)
             \/ GenesisRestart
      PROVE  DomainSeq' = DomainSeq
  BY <1>3 DEF UpdateParams, AddPermittedTLD, NextBlock, registry,
     GenesisRestart, ExportGenesis
<1> QED
  BY <1>1, <1>2, <1>3, MessageLeavesPolicy DEF Next

(* Every step keeps the TLD policy: TLDs are never withdrawn, and the one  *)
(* of a new domain has just been checked.                                  *)
LEMMA NextTldInv ==
  ASSUME IndexInv, IndexInv', TldInv, [Next]_vars
  PROVE  TldInv'
<1>1. CASE Next
  <2>1. NoReservedPermitted'
    BY <1>1, StepOnTlds
  <2>2. ASSUME NEW id \in DOMAIN Domain'
        PROVE  LET t == TldPart(Domain'[id].Name)
               IN  /\ IsTLDPermitted(t, PermittedTLDs')
                   /\ ~IsReservedTLD(AddedTLD(t))
    <3> DEFINE t == TldPart(Domain'[id].Name)
    <3>1. IsTLDPermitted(t, PermittedTLDs)
      BY <1>1, NamesAfterStep DEF TldInv, DomainsUnderPermittedTLDs
    <3>2. Domain'[id].Name \in NameString
      BY DEF IndexInv, TypeOK, DomainType
    <3>3. /\ AddedTLD(t) \in TldString
          /\ Normalize(AddedTLD(t)) = AddedTLD(t)
      BY <3>2, TldOfName
    <3> HIDE DEF t
    <3>4. ~IsEmptyString(AddedTLD(t)) /\ AddedTLD(t) \in PermittedTLDs
      BY <3>1, PermittedMeaning
    <3>5. AddedTLD(t) \in PermittedTLDs'
      BY <1>1, <3>3, <3>4, StepOnTlds
    <3>6. ~IsReservedTLD(AddedTLD(t))
      BY <3>4 DEF TldInv, NoReservedPermitted
    <3>7. IsTLDPermitted(t, PermittedTLDs')
      BY <3>4, <3>5, PermittedMeaning
    <3> QED
      BY <3>6, <3>7 DEF t
  <2> QED
    BY <2>1, <2>2 DEF TldInv, DomainsUnderPermittedTLDs
<1>2. CASE UNCHANGED vars
  BY <1>2 DEF vars, TldInv, DomainsUnderPermittedTLDs, NoReservedPermitted
<1> QED
  BY <1>1, <1>2

(* InitGenesis of a clean file establishes the TLD policy.                 *)
LEMMA InitTldInv ==
  ASSUME AllGenesisClean, Init
  PROVE  TldInv
<1>1. PICK g \in GenesisStates :
        /\ Domain = InitDomains(g.DomainList)
        /\ PermittedTLDs = GenesisTLDs(g.PermittedTlds)
  BY DEF Init
<1> DEFINE list == g.DomainList
<1>2. /\ DOMAIN list \subseteq Nat
      /\ \A i \in DOMAIN list : list[i] \in DomainType
      /\ GenesisValidate(g)
  BY RegistryAssumption DEF RegistryAssumption
<1>3. CleanGenesis(g)
  BY DEF AllGenesisClean
<1>4. OrderlyList(list)
  BY <1>2, <1>3 DEF OrderlyList, CleanGenesis, GenesisValidate
<1>5. /\ \A i \in DOMAIN list :
           IsTLDPermitted(TldPart(list[i].Name), PermittedTLDs)
      /\ NoReservedPermitted
  BY <1>1, <1>3 DEF CleanGenesis, NoReservedPermitted
<1> HIDE DEF list
<1>6. Domain = InitDomains(list)
  BY <1>1 DEF list
<1>7. /\ DOMAIN Domain = {list[i].Id : i \in DOMAIN list}
      /\ \A i \in DOMAIN list : Domain[list[i].Id] = list[i]
  BY <1>2, <1>4, <1>6, InitDomainsFacts DEF list
<1>8. \A id \in DOMAIN Domain :
        IsTLDPermitted(TldPart(Domain[id].Name), PermittedTLDs)
  BY <1>5, <1>7
<1>9. \A id \in DOMAIN Domain :
        ~IsReservedTLD(AddedTLD(TldPart(Domain[id].Name)))
  BY <1>5, <1>8, PermittedMeaning DEF NoReservedPermitted
<1> QED
  BY <1>5, <1>8, <1>9 DEF TldInv, DomainsUnderPermittedTLDs

(* No domain is ever under a TLD that is reserved or not permitted, though *)
(* CreateDomain is the only handler that checks.                           *)
THEOREM TldPolicyHolds ==
  ASSUME AllGenesisClean
  PROVE  Spec => []DomainsUnderPermittedTLDs
<1>1. Init => TldInv
  BY InitTldInv
<1>2. IndexInv /\ IndexInv' /\ TldInv /\ [Next]_vars => TldInv'
  BY NextTldInv
<1>3. TldInv => DomainsUnderPermittedTLDs
  BY DEF TldInv
<1> QED
  BY <1>1, <1>2, <1>3, IndexInvHolds, PTL DEF Spec
=============================================================================
