---------------------------- MODULE DnsRegistry ----------------------------
(***************************************************************************)
(* The domain registry, x/dnsblockchain: the keeper's collections and the  *)
(* message handlers of keeper/msg_server_domain.go, genesis import and     *)
(* export, and the two entry points other modules use (AddPermittedTLD     *)
(* from the DAO, UpdateParams from governance).                            *)
(*                                                                         *)
(* A message is delivered on a branch of the store, which the SDK writes   *)
(* back when the handler returns no error and drops otherwise.  A message  *)
(* to create a domain pays the fee before its other checks are made, so a  *)
(* creation that fails one of them is an action of its own, RejectedCreate.*)
(* The other handlers write nothing before their last check: their actions *)
(* are enabled when they return no error.                                  *)
(*                                                                         *)
(* Two history variables: signer, who signed the last message that took    *)
(* effect, NoSigner after a step that no message caused; and feesBurned,   *)
(* the fees of the domains created.                                        *)
(***************************************************************************)
EXTENDS Calendar, TldPolicy, Bank, Store, FiniteSets, Functions

CONSTANTS
  Users,          \* addresses that sign messages and own domains
  DnsModule,      \* the module account of x/dnsblockchain
  OtherAccounts,  \* accounts of the bank that the registry never touches
  NoSigner,
  Names,          \* the spellings of domain names that messages use
  TldRequests,    \* the TLD strings the DAO may ask to permit
  NsRecordSets,   \* the lists of name servers that messages carry
  NoNs,           \* the empty list of name servers
  BadNs,          \* lists that fail the checks: nil or blank entry, bad IP
  Fees,           \* values governance may give to DomainCreationFee
  GenesisStates,  \* the genesis files the chain may start from
  InitialBalance, \* fee tokens of each user at genesis
  InitialSupply,  \* their supply; other accounts hold what users do not
  MaxDomains,     \* bound: domains ever created
  BlockGaps,      \* ticks that may pass between two blocks
  MaxTime         \* bound: time of the last block

Accounts == Users \cup {DnsModule} \cup OtherAccounts

(* The Domain record of domain.pb.go.                                      *)
DomainType ==
  [Id: Nat, Creator: Users, Owner: Users, Name: NameString,
   NsRecords: NsRecordSets \ (BadNs \cup {NoNs}), Expiration: Nat]

(***************************************************************************)
(* A genesis file.  DomainList maps positions to records; only the order   *)
(* of the positions matters.                                               *)
(***************************************************************************)
GenesisValidate(g) ==
  LET list == g.DomainList
  IN  /\ \A i, j \in DOMAIN list : list[i].Id = list[j].Id => i = j
      /\ \A i \in DOMAIN list : list[i].Id < g.DomainCount
      /\ g.DomainCreationFee >= 0

ASSUME RegistryAssumption ==
  /\ IsFiniteSet(Users)
  /\ DnsModule \notin Users
  /\ NoSigner \notin Users
  /\ Names \subseteq NameString
  /\ TldRequests \subseteq TldString
  /\ NoNs \in NsRecordSets
  /\ BadNs \subseteq NsRecordSets
  /\ Fees \subseteq Nat
  /\ InitialBalance \in [Users -> Nat]
  /\ InitialSupply \in Nat
  /\ MaxDomains \in Nat
  /\ BlockGaps \subseteq Nat
  /\ MaxTime \in Nat
  /\ \A g \in GenesisStates :
       /\ DOMAIN g.DomainList \subseteq Nat
       /\ \A i \in DOMAIN g.DomainList : g.DomainList[i] \in DomainType
       /\ g.DomainCount \in Nat
       /\ g.PermittedTlds \subseteq TldString
       /\ g.DomainCreationFee \in Nat
       /\ GenesisValidate(g)

VARIABLES
  Domain,            \* id -> Domain record
  DomainName,        \* normalized name -> id
  DomainSeq,         \* the next id
  PermittedTLDs,     \* the TLDs under which domains may be created
  DomainCreationFee, \* the only parameter of the module
  bank,              \* balances and supply of the fee token
  now,               \* time of the current block
  signer,            \* history: signer of the last effective message
  feesBurned         \* history: the fees of the domains created

vars == <<Domain, DomainName, DomainSeq, PermittedTLDs, DomainCreationFee,
          bank, now, signer, feesBurned>>

registry == <<Domain, DomainName, DomainSeq, PermittedTLDs>>

-----------------------------------------------------------------------------
(* InitGenesis walks the list in order: a record overwrites an earlier one *)
(* with its id, an index entry an earlier one with its normalized name.    *)
(* Names that normalize to nothing are not indexed.                        *)
InitDomains(list) ==
  [id \in {list[i].Id : i \in DOMAIN list} |->
     list[CHOOSE i \in DOMAIN list :
            /\ list[i].Id = id
            /\ \A j \in DOMAIN list : list[j].Id = id => j <= i]]

Indexed(list) == {i \in DOMAIN list : list[i].Name.form # "empty"}

InitIndex(list) ==
  [n \in {Normalize(list[i].Name) : i \in Indexed(list)} |->
     list[CHOOSE i \in Indexed(list) :
            /\ Normalize(list[i].Name) = n
            /\ \A j \in Indexed(list) :
                 Normalize(list[j].Name) = n => j <= i].Id]

(* Mutant: the exported sequence is the number of live domains.            *)
ExportLiveCount ==
  [DomainList |-> Domain, DomainCount |-> Cardinality(DOMAIN Domain),
   PermittedTlds |-> PermittedTLDs, DomainCreationFee |-> DomainCreationFee]

(* ExportGenesis: domains in the order of their ids, the sequence and the  *)
(* permitted TLDs; the name index is left to InitGenesis to rebuild.       *)
ExportGenesis ==
  [DomainList |-> Domain, DomainCount |-> DomainSeq,
   PermittedTlds |-> PermittedTLDs, DomainCreationFee |-> DomainCreationFee]

Init ==
  \E g \in GenesisStates :
    /\ Domain = InitDomains(g.DomainList)
    /\ DomainName = InitIndex(g.DomainList)
    /\ DomainSeq = g.DomainCount
    /\ PermittedTLDs = GenesisTLDs(g.PermittedTlds)
    /\ DomainCreationFee = g.DomainCreationFee
    /\ bank = [bal |-> [a \in Accounts |->
                          IF a \in Users THEN InitialBalance[a] ELSE 0],
               supply |-> InitialSupply]
    /\ now = 0
    /\ signer = NoSigner
    /\ feesBurned = 0

-----------------------------------------------------------------------------
(* Mutant: the entries of a list of name servers are not looked at.        *)
NonEmptyNsRecords(ns) == ns \in NsRecordSets \ {NoNs}

(* The checks that CreateDomain and UpdateDomain make on name servers.     *)
ValidNsRecords(ns) == ns \in NsRecordSets \ (BadNs \cup {NoNs})

(* Mutant: an expired domain no longer blocks its name, but keeps its      *)
(* record.                                                                 *)
NameUnusedOrExpired(n) ==
  n \in DOMAIN DomainName => now >= Domain[DomainName[n]].Expiration

(* The duplicate check of CreateDomain: the index alone decides, whether   *)
(* or not the domain that holds the name has expired.                      *)
NameAvailable(n) == n \notin DOMAIN DomainName

(* Mutant: the fee is collected and not burned.                            *)
CollectFee(b, payer, fee) == SendCoins(b, payer, DnsModule, fee)

(* The fee goes to the module account and is burned there.                 *)
ChargeFee(b, payer, fee) ==
  BurnCoins(SendCoins(b, payer, DnsModule, fee), DnsModule, fee)

(* What CreateDomain checks once the fee is paid.                          *)
CreateChecks(name, ns) ==
  LET n == Normalize(name)
  IN  /\ n.form = "pair"
      /\ IsTLDPermitted(TldPart(n), PermittedTLDs)
      /\ NameAvailable(n)
      /\ ValidNsRecords(ns)

CreateDomain(creator, owner, name, ns) ==
  LET n == Normalize(name)
  IN  /\ DomainSeq < MaxDomains
      /\ CanPay(bank, creator, DomainCreationFee)
      /\ CreateChecks(name, ns)
      /\ bank' = ChargeFee(bank, creator, DomainCreationFee)
      /\ feesBurned' = feesBurned + DomainCreationFee
      /\ Domain' = Put(Domain, DomainSeq,
           [Id |-> DomainSeq, Creator |-> creator, Owner |-> owner,
            Name |-> n, NsRecords |-> ns, Expiration |-> AddYear(now)])
      /\ DomainName' = Put(DomainName, n, DomainSeq)
      /\ DomainSeq' = DomainSeq + 1
      /\ signer' = creator
      /\ UNCHANGED <<PermittedTLDs, DomainCreationFee, now>>

(* Mutant: the fee of a creation that is rejected afterwards is kept.      *)
RejectedCreateKeepsFee(creator, name, ns) ==
  /\ CanPay(bank, creator, DomainCreationFee)
  /\ ~CreateChecks(name, ns)
  /\ bank' = ChargeFee(bank, creator, DomainCreationFee)
  /\ UNCHANGED <<registry, DomainCreationFee, now, signer, feesBurned>>

(* CreateDomain returns an error when the fee is already charged.          *)
RejectedCreate(creator, name, ns) ==
  /\ CanPay(bank, creator, DomainCreationFee)
  /\ ~CreateChecks(name, ns)
  /\ bank' = Discard(bank, ChargeFee(bank, creator, DomainCreationFee))
  /\ UNCHANGED <<registry, DomainCreationFee, now, signer, feesBurned>>

(* owner \in Users \cup {NoSigner}: NoSigner stands for the empty field,   *)
(* ns = NoNs for the empty list.  The creator may change the owner and the *)
(* name servers, an owner who is not the creator only the name servers.    *)
UpdateDomain(who, id, owner, ns) ==
  LET old == Domain[id]
      newOwner == owner # NoSigner /\ owner # old.Owner
      newNs == ns # NoNs
  IN  /\ id \in DOMAIN Domain
      /\ who \in {old.Creator, old.Owner}
      /\ newOwner => who = old.Creator
      /\ newNs => ValidNsRecords(ns)
      /\ newOwner \/ newNs
      /\ Domain' = Put(Domain, id,
           [old EXCEPT !.Owner = IF newOwner THEN owner ELSE @,
                       !.NsRecords = IF newNs THEN ns ELSE @])
      /\ signer' = who
      /\ UNCHANGED <<DomainName, DomainSeq, PermittedTLDs,
                     DomainCreationFee, bank, now, feesBurned>>

(* Mutant: the index entry survives the domain.                            *)
DeleteDomainKeepIndex(who, id) ==
  /\ id \in DOMAIN Domain
  /\ who = Domain[id].Owner
  /\ Domain' = Del(Domain, id)
  /\ signer' = who
  /\ UNCHANGED <<DomainName, DomainSeq, PermittedTLDs, DomainCreationFee,
                 bank, now, feesBurned>>

(* Only the owner deletes; the index entry removed is that of the stored   *)
(* name.                                                                   *)
DeleteDomain(who, id) ==
  /\ id \in DOMAIN Domain
  /\ who = Domain[id].Owner
  /\ DomainName' = Del(DomainName, Domain[id].Name)
  /\ Domain' = Del(Domain, id)
  /\ signer' = who
  /\ UNCHANGED <<DomainSeq, PermittedTLDs, DomainCreationFee, bank, now,
                 feesBurned>>

(* Mutant: a year is always YearDays days.                                 *)
Heartbeat365(who, id) ==
  /\ id \in DOMAIN Domain
  /\ who \in {Domain[id].Creator, Domain[id].Owner}
  /\ Domain' = Put(Domain, id,
       [Domain[id] EXCEPT !.Expiration = now + DayTicks * YearDays])
  /\ signer' = who
  /\ UNCHANGED <<DomainName, DomainSeq, PermittedTLDs, DomainCreationFee,
                 bank, now, feesBurned>>

(* Creator or owner; the new expiration counts from the block's time, not  *)
(* from the old expiration.                                                *)
HeartbeatDomain(who, id) ==
  /\ id \in DOMAIN Domain
  /\ who \in {Domain[id].Creator, Domain[id].Owner}
  /\ Domain' = Put(Domain, id, [Domain[id] EXCEPT !.Expiration = AddYear(now)])
  /\ signer' = who
  /\ UNCHANGED <<DomainName, DomainSeq, PermittedTLDs, DomainCreationFee,
                 bank, now, feesBurned>>

(* Mutant: the owner may transfer as well.                                 *)
TransferByOwner(who, id, newOwner) ==
  /\ id \in DOMAIN Domain
  /\ who \in {Domain[id].Creator, Domain[id].Owner}
  /\ Domain' = Put(Domain, id, [Domain[id] EXCEPT !.Creator = newOwner,
                                                  !.Owner = newOwner])
  /\ signer' = who
  /\ UNCHANGED <<DomainName, DomainSeq, PermittedTLDs, DomainCreationFee,
                 bank, now, feesBurned>>

(* Only the creator; both roles pass to the new owner.                     *)
TransferDomain(who, id, newOwner) ==
  /\ id \in DOMAIN Domain
  /\ who = Domain[id].Creator
  /\ Domain' = Put(Domain, id, [Domain[id] EXCEPT !.Creator = newOwner,
                                                  !.Owner = newOwner])
  /\ signer' = who
  /\ UNCHANGED <<DomainName, DomainSeq, PermittedTLDs, DomainCreationFee,
                 bank, now, feesBurned>>

(* MsgUpdateParams, executed by governance, with parameters that pass      *)
(* Params.Validate.                                                        *)
UpdateParams(fee) ==
  /\ DomainCreationFee' = fee
  /\ signer' = NoSigner
  /\ UNCHANGED <<registry, bank, now, feesBurned>>

(* Called by the DAO when an AddTld proposal is executed.                  *)
AddPermittedTLD(t) ==
  /\ CanAddPermittedTLD(t, PermittedTLDs)
  /\ PermittedTLDs' = PermittedTLDs \cup {AddedTLD(t)}
  /\ signer' = NoSigner
  /\ UNCHANGED <<Domain, DomainName, DomainSeq, DomainCreationFee, bank, now,
                 feesBurned>>

(* BeginBlock and EndBlock of the module do nothing; only time passes.     *)
NextBlock(gap) ==
  /\ now + gap <= MaxTime
  /\ now' = now + gap
  /\ signer' = NoSigner
  /\ UNCHANGED <<registry, DomainCreationFee, bank, feesBurned>>

(* The chain is exported and a new one starts from the exported file.      *)
GenesisRestart ==
  LET g == ExportGenesis
  IN  /\ Domain' = InitDomains(g.DomainList)
      /\ DomainName' = InitIndex(g.DomainList)
      /\ DomainSeq' = g.DomainCount
      /\ PermittedTLDs' = GenesisTLDs(g.PermittedTlds)
      /\ DomainCreationFee' = g.DomainCreationFee
      /\ signer' = NoSigner
      /\ UNCHANGED <<bank, now, feesBurned>>

(* A message is handled if it passes ValidateBasic, which turns away an    *)
(* empty list of name servers before a fee is due.                         *)
Message(who) ==
  \/ \E owner \in Users, name \in Names, ns \in NsRecordSets :
       CreateDomain(who, owner, name, ns)
  \/ \E name \in Names, ns \in NsRecordSets \ {NoNs} :
       RejectedCreate(who, name, ns)
  \/ \E id \in DOMAIN Domain :
       \/ \E owner \in Users \cup {NoSigner}, ns \in NsRecordSets :
            UpdateDomain(who, id, owner, ns)
       \/ DeleteDomain(who, id)
       \/ HeartbeatDomain(who, id)
       \/ \E newOwner \in Users : TransferDomain(who, id, newOwner)

Next ==
  \/ \E who \in Users : Message(who)
  \/ \E fee \in Fees : UpdateParams(fee)
  \/ \E t \in TldRequests : AddPermittedTLD(t)
  \/ \E gap \in BlockGaps : NextBlock(gap)
  \/ GenesisRestart

Spec == Init /\ [][Next]_vars

-----------------------------------------------------------------------------
(* The answer of the GetDomainByName query to a spelling of a name.        *)
GetDomainByName(name) ==
  LET n == Normalize(name)
  IN  IF n \notin DOMAIN DomainName THEN [found |-> FALSE, expired |-> FALSE]
      ELSE IF DomainName[n] \notin DOMAIN Domain
             THEN [found |-> FALSE, expired |-> FALSE]
             ELSE [found |-> TRUE,
                   expired |-> now >= Domain[DomainName[n]].Expiration]

(***************************************************************************)
(* What a genesis file must satisfy beyond GenesisState.Validate for the   *)
(* registry to start in order: stored names are normalized two-part names, *)
(* pairwise distinct, under TLDs that the same file permits, and no        *)
(* permitted TLD is reserved.                                              *)
(***************************************************************************)
CleanGenesis(g) ==
  LET list == g.DomainList
      tlds == GenesisTLDs(g.PermittedTlds)
  IN  /\ \A i \in DOMAIN list :
           /\ Normalize(list[i].Name) = list[i].Name
           /\ list[i].Name.form = "pair"
           /\ IsTLDPermitted(TldPart(list[i].Name), tlds)
      /\ \A i, j \in DOMAIN list : list[i].Name = list[j].Name => i = j
      /\ \A t \in tlds : ~IsReservedTLD(t)

AllGenesisClean == \A g \in GenesisStates : CleanGenesis(g)

-----------------------------------------------------------------------------
(* Types of the keeper's collections and of the model's own variables.     *)
TypeOK ==
  /\ DOMAIN Domain \subseteq Nat
  /\ \A id \in DOMAIN Domain : Domain[id] \in DomainType
  /\ DOMAIN DomainName \subseteq NameString
  /\ \A n \in DOMAIN DomainName : DomainName[n] \in Nat
  /\ DomainSeq \in Nat
  /\ PermittedTLDs \subseteq TldString
  /\ DomainCreationFee \in Nat
  /\ bank \in BankType(Accounts)
  /\ now \in Nat
  /\ signer \in Users \cup {NoSigner}
  /\ feesBurned \in Nat

(* The name index and the domain map describe each other: every domain is  *)
(* found under its own name, and every index entry leads to a domain with  *)
(* that name.  CreateDomain and DeleteDomain write both collections, the   *)
(* other handlers only one, and a restart rebuilds the index: this is what *)
(* keeps the "Data inconsistency" branch of GetDomainByName unreachable    *)
(* and a name from having two domains.                                     *)
NameIndexConsistent ==
  /\ \A id \in DOMAIN Domain :
       /\ Domain[id].Id = id
       /\ Domain[id].Name \in DOMAIN DomainName
       /\ DomainName[Domain[id].Name] = id
  /\ \A n \in DOMAIN DomainName :
       /\ DomainName[n] \in DOMAIN Domain
       /\ Domain[DomainName[n]].Name = n

(* Ids come from DomainSeq in increasing order and are never given out     *)
(* twice, not after DeleteDomain has freed one and not after an export and *)
(* re-import of the chain.                                                 *)
IdsNeverReused ==
  [][/\ DomainSeq' >= DomainSeq
     /\ \A id \in DOMAIN Domain' \ DOMAIN Domain :
          DomainSeq <= id /\ id < DomainSeq']_vars

(* Every domain is under a TLD that is permitted and not reserved: the     *)
(* check CreateDomain makes once stays true, whatever the DAO adds and     *)
(* however often the chain is restarted.                                   *)
DomainsUnderPermittedTLDs ==
  \A id \in DOMAIN Domain :
    LET t == TldPart(Domain[id].Name)
    IN  IsTLDPermitted(t, PermittedTLDs) /\ ~IsReservedTLD(AddedTLD(t))

(* Who may do what to an existing domain, over every chain of updates and  *)
(* transfers: only its owner removes it, only its creator changes owner or *)
(* creator, and only one of the two changes anything else of it.  The name *)
(* never changes.                                                          *)
Authority ==
  [][\A id \in DOMAIN Domain :
       IF id \notin DOMAIN Domain'
         THEN signer' = Domain[id].Owner
         ELSE /\ Domain'[id].Name = Domain[id].Name
              /\ \/ Domain'[id].Owner = Domain[id].Owner
                 \/ signer' = Domain[id].Creator
              /\ \/ Domain'[id].Creator = Domain[id].Creator
                 \/ signer' = Domain[id].Creator
              /\ \/ Domain'[id] = Domain[id]
                 \/ signer' \in {Domain[id].Creator, Domain[id].Owner}]_vars

(* Block time does not go back, yet a heartbeat can move the expiration    *)
(* back: 29 February counts as 1 March of the next year, later in the day  *)
(* than an early heartbeat on 1 March.  It never loses a whole day.        *)
ExpiryNeverRecedesByADay ==
  [][\A id \in DOMAIN Domain \cap DOMAIN Domain' :
       Domain'[id].Expiration > Domain[id].Expiration - DayTicks]_vars

(* The creation fee leaves the payer and leaves the supply: both have lost *)
(* exactly the fees of the domains created, whatever governance made of    *)
(* the fee meanwhile, and nothing for a creation that failed after the fee *)
(* was charged; none of it stays in the module account.  Only the registry *)
(* moves coins here: the bank lets anyone send coins to that account, and  *)
(* they would lie there, since no handler spends from it.                  *)
(* whitepaper.md:88 says otherwise: "All domain registration, update, and  *)
(* transfer fees are distributed proportionally to staked validators".  In *)
(* the code the creation fee is burned and the others do not exist.        *)
EveryFeeIsBurned ==
  /\ bank.bal[DnsModule] = 0
  /\ InitialSupply - bank.supply = feesBurned
  /\ SumFunction([u \in Users |-> InitialBalance[u] - bank.bal[u]]) = feesBurned

(***************************************************************************)
(* The abstract registry: a map from names to holders.                     *)
(***************************************************************************)
Holders ==
  [n \in DOMAIN DomainName |->
     LET d == Domain[DomainName[n]]
     IN  [id |-> d.Id, creator |-> d.Creator, owner |-> d.Owner]]

Abstract == INSTANCE NameRegistry
              WITH reg <- Holders, nextId <- DomainSeq, by <- signer,
                   None <- NoSigner, Name <- {Normalize(n) : n \in Names}

(* The registry implements NameRegistry: a name has one holder at a time,  *)
(* it passes on only by the acts of that holder, and restarts are          *)
(* invisible.                                                              *)
ImplementsNameRegistry == Abstract!Spec

-----------------------------------------------------------------------------
(* What the documentation says and the code does not do.                   *)

(* keeper/genesis.go:30: a duplicate name in the genesis file "debería ser *)
(* validado por GenesisState.Validate()", so no chain starts with one.     *)
NamesDistinct ==
  \A i, j \in DOMAIN Domain :
    Normalize(Domain[i].Name) = Normalize(Domain[j].Name) => i = j

(* whitepaper.md:53: a domain without a heartbeat "expires and becomes     *)
(* available for re-registration".  CreateDomain looks only at the index.  *)
ExpiredNamesAvailable ==
  \A n \in Names :
    GetDomainByName(n).expired => NameAvailable(Normalize(n))
=============================================================================
