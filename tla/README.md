# TLA+ verification of dnsblockchain

dnsblockchain is a Cosmos SDK chain with two modules of its own: a registry of
domain names (`src/x/dnsblockchain`) and a DAO (`src/x/dao`) that decides which
top-level domains (TLDs) exist and grants voting tokens. This directory holds
TLA+ models of both, TLC runs on small instances, and TLAPS proofs for every
instance.

## 1. Inventory

| part | state | operations | talks to |
|---|---|---|---|
| registry keeper (`x/dnsblockchain/keeper`) | `Domain` (id → record), `DomainName` (normalized name → id), `DomainSeq`, `PermittedTLDs`, `Params` | CreateDomain, UpdateDomain, DeleteDomain, HeartbeatDomain, TransferDomain, UpdateParams, AddPermittedTLD | bank (fee: transfer and burn), block time |
| TLD policy (`keeper.go`, `reserved_tlds.go`) | the table of reserved TLDs | IsReservedTLD, IsTLDPermitted, AddPermittedTLD | called by the registry and by the DAO |
| registry genesis (`keeper/genesis.go`, `types/genesis.go`) | the genesis file | Validate, InitGenesis, ExportGenesis | all registry collections |
| DAO messages (`x/dao/keeper/msg_server.go`) | `Proposals`, `ProposalSeq`, `Votes` | SubmitProposal, Vote | bank (deposit, balance, supply), TLD policy |
| DAO end blocker (`end_blocker.go`) | the same, and `VoterPowerLots` | tally, quorum, threshold, execution, settlement of the deposit | bank (mint, send, burn), `AddPermittedTLD` |
| voting power (`x/dao/keeper/keeper.go`) | reads `VoterPowerLots`, balances | IsLotBasedVotingActive, CalculateVoterPower | LegacyDec arithmetic |
| DAO genesis (`x/dao/keeper/genesis.go`) | parameters | InitGenesis, ExportGenesis | |
| queries | none | GetDomain, ListDomain, GetDomainByName, ListPermittedTLDs, Proposal(s), Vote(s), TallyResult, Params | read one collection each, GetDomainByName two; the DAO's pages are cut in memory |
| generated code (`types/*.pb.go`) | none | Size, Marshal and Unmarshal of 52 message types | every transaction, query and stored value passes through it |
| application (`src/app`) | wiring | order of end blockers and genesis, blocked addresses, export | both modules |
| command line (`src/cmd`), simulation | none | | |

How the parts interact. Messages of a block run one after the other; a failing
message leaves no trace. Then the end blockers run, the DAO's last; they are not
rolled back piecemeal. The DAO writes into the registry (`AddPermittedTLD`) and
into the bank; the registry writes into the bank only. Block time reaches the
registry, block height the DAO.

What is hard here:

* two collections, `Domain` and `DomainName`, that must describe each other, of
  which a restart keeps one and rebuilds the other;
* two roles per domain (creator and owner) that messages move separately;
* three normalisations of TLDs (trim dots, trim space, both) in different places;
* proposals that end in the same block and see each other's effects; checks made
  at submission and used at execution;
* an end blocker that must settle each deposit once on every path, with errors
  that are only logged;
* voting weight that is read at the vote and measured against an older snapshot;
* voting power that only decays, and a rule that never falls back to balances;
* fixed-point rounding and unsigned arithmetic;
* export and import of the chain, in which the DAO keeps only its parameters;
* clients that read a listing in pages, each page at another height;
* three generated functions per message type that must agree on its fields, and
  input that is cut off, has unknown fields or has the same field twice.

`PROJECT.json` lists these as hazards, each at its line, with the properties that
cover it.

## 2. Modules

```
Store  Bank  Calendar  TldPolicy  VotingPower      libraries and shared policy
DnsRegistry   implements NameRegistry              the registry
Dao           implements Escrow                    the DAO
DnsChain      EXTENDS Dao, INSTANCE DnsRegistry    both in one application
DaoQueries    EXTENDS Dao                          the DAO and a client that pages
LotDecay      EXTENDS VotingPower                  one lot, against exact arithmetic
ProtoWire <- DnsCodec, DaoCodec <- Codec           the generated code
MCDnsRegistry  MCDnsChain  MCDao  MCDaoQueries     instances for TLC
SumTheorems                                        lemmas about sums
DnsRegistryProofs <- DnsRegistryPromises           proofs about DnsRegistry
DaoProofs <- DaoMoneyProofs                        proofs about Dao
DaoQueriesProofs                                   proofs about DaoQueries
LotDecayProofs                                     proofs about LotDecay
DnsChainProofs                                     proofs about DnsChain
```

**Store, Bank, Calendar** are external code, modelled from its use: maps with
insert and remove; balances and supply of one denomination; `AddDate(1, 0, 0)`
over abstract days, in which a year is `YearDays` days, one more when a leap day
lies in it, and 29 February becomes 1 March.

**TldPolicy** abstracts a string to what the code tells apart: its lower-case
text (the base) and whether it has upper-case letters, enclosing dots, or white
space inside those dots. Each of the code's normalisations is an operator on
these marks, so that two callers that normalise differently differ in the model.
The table of `reserved_tlds.go` is the set `ReservedTLDs`.

**DnsRegistry** has the keeper's four collections, the fee, the bank and the
block time. Every handler is one action, enabled when the handler returns no error.
A message runs on a branch of the store that the SDK drops when it fails
(`Store!Discard`). Of the handlers only CreateDomain writes before its last check:
it charges the fee first. Its failures after that are an action, `RejectedCreate`,
which charges the fee on the branch and drops it. `GenesisRestart` exports and
imports the registry:
ids, records, sequence and TLDs are exported, the index is rebuilt. `signer`
records who signed the last effective message, `feesBurned` the fees of the domains
created; only properties read them.
`OtherAccounts` are accounts of the bank that the registry leaves alone, such as
the DAO's, so that the same module is the registry of the chain.

**NameRegistry** is what the registry promises: a map from names to holders with
ids never used before. `DnsRegistry!Holders` is the refinement mapping.

**Dao** has the DAO's collections, the permitted TLDs, the bank and the block.
A block is a `deliver` phase (SubmitProposal, Vote, transfers, inflation) and an
`endblock` phase: `EndBlockStart` collects the proposals whose period is over and
each `ProcessProposal` is one turn of the loop: tally, verdict, execution,
settlement and the stored result. `GenesisRestart` keeps the bank and the TLDs and
loses proposals, votes and lots, as `ExportGenesis` does. `loose`, `inflated` and
`restarts` are history variables: coins in the DAO's account that are no deposit,
coins made by x/mint, number of restarts.

**VotingPower** is the arithmetic: LegacyDec quotients (half to even), truncation,
and the conversion of uint64 to int64, with `Prec` for 10^18 and `Word` for 2^64.
**LotDecay** follows one lot through its blocks.

**DnsChain** composes the two. They share `PermittedTLDs`, which the registry
keeps and the DAO adds to, and `bank`. A registry message is a step of the deliver
phase, between messages of the DAO; what was `AddPermittedTLD` as an environment
step of the registry alone is now the execution of a proposal; committing a block
moves height and time together; a restart exports and imports both. `born` is a
history variable, the block in which a domain was created; `feesBurned` is that of
the registry.

**Escrow** is what the DAO promises about money. The worth of an account is its
balance and its deposits that are held. A deposit and its return change nobody's
worth, one that is forfeited costs its depositor alone, coins move between two
accounts, are issued to one, or are burned from one. `Dao!DepositsHeld` and
`Dao!Worth` are the refinement mapping. It is checked for the whole chain, where a
fee is a burned payment and a restart abandons the deposits to the DAO's account.

**DaoQueries** has the slices that `Proposals` and `Votes` return, with the
conversions of uint64 to int and their overflow, `TallyResult`, and a client.
`InOrder` is the order in which a collection is walked, that of its keys.
Queries read committed state, so a page is fetched between two blocks; between two
pages anything may happen. The answers have no next key, so the client goes on by
offset until a page is empty.

**ProtoWire** is what the generated code does with a field of each kind: varints,
lengths, guards for zero values, the arithmetic of indices, the skipping of
unknown fields with groups inside groups. **DnsCodec** and **DaoCodec** have the
fields: for each of the 27 and 25 message types one table per generated function,
so that a Size, a Marshal and an Unmarshal that disagree in the code disagree in the
model. `Marshal` fills a buffer of `Size` bytes from its end, as the code does: a
wrong size panics or shifts the bytes. **Codec** sends a message of any type and
lets its bytes arrive intact, cut, with an unknown field, or followed by a second
encoding.

### Abstractions

* One denomination. Deposits, fees and voting power are in it; coins of other
  denominations in a grant are a count that only decides whether a lot is made.
* Titles, descriptions, events and logging are left out; a content's free text
  matters to the duplicate check and to ValidateBasic only.
* The lists of name servers are valid, empty or bad.
* Branches on store errors and on contents that cannot be decoded are left out:
  a stored proposal has been decoded when it was submitted.
* `UpdateParams` is a step of governance; the DAO's parameters have no message
  that changes them and are constants.
* In the codec 64 and 32 bits are `WordBits` and `IntBits`. As with 64, the longest
  varint has bits that do not fit into a word. Texts are bytes without meaning;
  the text of a `math.Int` is its decimal digits, without sign, and that of a
  `LegacyDec` is the text of its integer.
* The registry's module account gets coins from the registry alone. The bank does
  not block it (`blockAccAddrs` in app_config.go:94), so anyone may send coins there;
  they would stay, since the handlers burn exactly the fee. `EveryFeeIsBurned` is
  about the fees and leaves such coins out.
* An absent `math.Int` or `LegacyDec` is nil in Go after Unmarshal and 0 in
  `ProtoWire!ZeroOf`.
* Export for height zero (`prepForZeroHeightGenesis`) is not modelled: it rewrites
  other modules' state.

## 3. Runs

| run | instance | checks |
|---|---|---|
| `reg_core` | 2 users, 7 spellings of names, 4 TLD requests, at most 3 domains, time up to 2 from a leap day on, any number of restarts and of failed creations, a genesis file without domains that permits a TLD of white space, and one with a domain | `TypeOK`, `NameIndexConsistent`, `DomainsUnderPermittedTLDs`, `EveryFeeIsBurned`, `ExpiryNeverRecedesByADay`, `IdsNeverReused`, `Authority`, `ImplementsNameRegistry` |
| `chain` | registry and DAO; two spellings of one TLD, a reserved, a permitted and a malformed one, a grant; 2 proposals, one domain, its name padded with white space or under the reserved TLD, a change of the fee, one restart | `DomainsFollowVotes`, `ChainSupplyAccounted`, `TldProvenance`, `DecidedOnTime`, `EscrowExact`, `RestartKeepsRegistry`, `ImplementsEscrow`, `ChainKeepsNames` |
| `dao_votes` | one proposal, five vote options (one unknown), transfers of one coin, a client that audits votes | `TypeOK`, `TallyFinal`, `AuditAgrees`, `VotesImmutable` |
| `dao_escrow` | grants to a user, to the DAO, to a blocked address, of another denomination, of nothing; transfers, also to the DAO; inflation; a client that lists proposals | `EscrowExact`, `SupplyAccounted`, `LotsMatchGrants`, `ListingComplete`, `PageAtTheLimits` |
| `dao_live` | two proposals, a decay of one block, inflation, one restart, fair blocks | `EveryProposalDecided`, `GovernanceFreeze` |
| `power_decay` | amounts 0 to 40, durations 0 to 7, ages 0 to 9, precision 10 | `WithinOneUnitOfLinear`, `FullToZero`, `RoundingFavoursTheVote`, `NeverGrows` |
| `codec` | 52 types, three messages of each, every cut, six unknown fields at every boundary, every pair of encodings; words of 15 bits, enums of 8 | `RoundTrip`, `CutIsNoticed`, `UnknownFieldsIgnored`, `RepeatedFieldsMerge` |

`reg_core` charges the fee before CreateDomain's other checks, as the code does, for
a name without a permitted TLD, a name that is taken, a bad form and bad name
servers: payers and supply lose the fees of the domains created and nothing else
(`EveryFeeIsBurned`), whichever fee was in force. That the fee is burned is what the
code does and not what the whitepaper says (below).

`chain` shows that a name never gets ahead of the vote on its TLD; that
fees, deposits, grants and refunds account for every coin of the shared bank, not
only in sum (`EscrowExact`, `ChainSupplyAccounted`) but account by account
(`ImplementsEscrow`: a refund to anyone but the proposer is no step of the abstract
escrow); that a restart loses nothing of the registry; and that votes, tallies,
parameters, blocks and restarts leave names to the rules of `NameRegistry`
(`ChainKeepsNames`). The client's properties hold
because ids only grow, decided proposals stay, and a decided proposal gets no
votes; the listings for which this is not so are named below.

Five runs compare what the documentation or a comment says with what the code
does, and TLC finds a counterexample (`findings` in `PROJECT.json`):

| run | what the text says | what the code does |
|---|---|---|
| `reg_doc_reregister` | an expired domain "becomes available for re-registration" | the index blocks the name until its owner deletes it |
| `reg_doc_genesis` | duplicate names are for `GenesisState.Validate` to reject | Validate compares ids only |
| `dao_doc_snapshot` | percentages are of the power "at the time voting started" | power is read at each vote, so moved coins vote twice |
| `dao_doc_options` | quorum is of YES, NO and ABSTAIN | an unknown option counts |
| `dao_doc_restart` | the application's state is exported | the DAO exports its parameters only |

Met while reading and not given a run. Fees: "All domain registration, update, and
transfer fees are distributed proportionally to staked validators"
(whitepaper.md:88), while CreateDomain burns its fee (msg_server_domain.go:39-51), so
that no validator receives it, and updates and transfers charge none. On this
`EveryFeeIsBurned` and `ChainSupplyAccounted` state what the code does, and both would
be violated by a chain that did what the whitepaper says. Also: the creator may send heartbeats as well as
the owner (whitepaper.md:52), a year across a leap day has 366 days
(whitepaper.md:53), a grant in another denomination leaves voting by balance
(readme.md:98), and neither `VotingPeriodBlocks` nor
`VotingPowerDecayDurationBlocks` is bounded, so values near 2^64 wrap in
`votingEndBlock` and, above 2^63, in the decay ratio. The last two need a genesis
file with absurd parameters; `Word` is in the models, and the runs use values
below the wrap. In the queries: `Proposals` does not look at the voter of the
request; the answers have no `NextKey` and `Key` is not read; a limit of 2^63 or
more, or a sum of offset and limit beyond it, gives an empty page, and some offsets
of 2^63 or more give the beginning of the listing; paged by offset, a listing by
status, or of the votes on an open proposal, can skip or repeat an entry when a
block comes between two pages; `TallyResult` is zero until the decision; and
`Proposal` compares its error with `==` (query_proposal.go:35), so a proposal that
is not there is an internal error where the other queries answer "not found".

### Bounds, and why they are enough

`MaxDomains`, `MaxTime`, `MaxHeight`, `MaxProposals`, `MaxSupply`, `MaxRestarts`
and `MaxAge` bound the counters. A conflict in the registry needs two domains or
two spellings of one name, a deletion in between and a restart after it: three
domains and two users have all of these. In the DAO it needs two proposals that
end in the same block or one after the other, two voters, and one block after
the last decision; `dao_live` has blocks enough for a proposal that is decided
after the lots of an earlier one have decayed. Votes matter by their ratios to the supply, and the balances put
them on both sides of quorum and threshold. Days and years are shorter than real
ones, and the calendar starts on a leap day, so that AddDate normalises its result.
In `chain` one
domain is enough for the order of a name and a vote, and `MaxHeight` lets a TLD be
proposed, voted, added, used and a second proposal be decided after it; its `VIEW`
leaves out `signer`, which no guard reads. Of the properties only `ChainKeepsNames`
does, and there the view costs one thing: a message that changes no holder counts as
a stutter when its signer is also the last one, and TLC sees it from one of the
merged states only. `ChainNamesRefine` is proved without the view. `Jobs` and `Limits` say
what the client does: a limit of one makes as many pages as there are entries, zero
stands for `DefaultLimit`. In `codec` the three messages of a type put every field
on both sides of its guard, lengths on both sides of one byte, and words and enums
at their limits.

`BoundReached` lets the models of the DAO and of a lot idle at the last block:
deadlock is checked in every run, and a block that cannot end would be reported.

### Fairness

`FairSpec` assumes weak fairness of `Block`: a block ends, its end blocker handles
all its proposals, and the next one begins. This is what consensus provides. Users
are not assumed to do anything, and `SubmitProposal` is bounded so that a
proposal's period ends before the last block. A restart may still forget a proposal;
`EveryProposalDecided` says so.

## 4. Proofs

The theorems hold for every finite set of users, every set of names, TLDs, name
servers, contents, options and amounts, every precision and word size, and every
value of the bounds. A theorem with the name of a run's property states what the
run checks on its small instance.

| module | theorem | property |
|---|---|---|
| `DnsRegistryProofs` | `TypeCorrect`, `IndexConsistent`, `TldPolicyHolds` | `TypeOK`, `NameIndexConsistent`, `DomainsUnderPermittedTLDs` |
| | `IdsOnlyGoUp`, `AuthorityHolds` | `IdsNeverReused`, `Authority` |
| `DnsRegistryPromises` | `FeesBurned`, `ExpiryRecedesLittle` | `EveryFeeIsBurned`, `ExpiryNeverRecedesByADay` |
| | `RegistryRefines` | `ImplementsNameRegistry` |
| `DaoProofs` | `TypeCorrect`, `ProvenanceHolds`, `LotsHold`, `VotesNeverChange` | `TypeOK`, `TldProvenance`, `LotsMatchGrants`, `VotesImmutable` |
| | `DecisionsOnTime`, `DecisionsFollowVotes`, `FreezeIsFinal` | `DecidedOnTime`, `TallyFinal`, `GovernanceFreeze` |
| `DaoMoneyProofs` | `DepositsExact`, `SupplyExplained`, `DepositsRefine` | `EscrowExact`, `SupplyAccounted`, `ImplementsEscrow` |
| `DaoQueriesProofs` | `PageIsSlice` | what `Page` returns, for every listing, offset and limit |
| | `PagesAtTheLimits`, `ListingsComplete`, `AuditsAgree` | `PageAtTheLimits`, `ListingComplete`, `AuditAgrees` |
| `LotDecayProofs` | `PowerIsLinear`, `DecaysFromFullToZero`, `PowerNeverGrows`, `RoundingIsFair` | `WithinOneUnitOfLinear`, `FullToZero`, `NeverGrows`, `RoundingFavoursTheVote` |
| `DnsChainProofs` | `NamesFollowVotes`, `ChainTldPolicy`, `ChainIndexConsistent`, `RestartIsLossless` | `DomainsFollowVotes`, `DomainsUnderPermittedTLDs`, `NameIndexConsistent`, `RestartKeepsRegistry` |
| | `ChainTldsFollowVotes`, `ChainDecisionsOnTime`, `ChainDecisionsFollowVotes` | `TldProvenance`, `DecidedOnTime`, `TallyFinal` |
| | `ChainDepositsExact`, `ChainSupplyExplained`, `ChainDepositsRefine` | `EscrowExact`, `ChainSupplyAccounted`, `ImplementsEscrow` |
| | `ChainNamesRefine` | `ChainKeepsNames` |
| | `ChainIdsOnlyGoUp`, `ChainAuthority`, `ChainExpiryRecedesLittle` | the registry's `IdsNeverReused`, `Authority`, `ExpiryNeverRecedesByADay`, of the chain |

### Assumptions

Each module's named assumptions on its constants, which TLC evaluates in the runs:
`TldAssumption`, `CalendarAssumption`, `RegistryAssumption`, `PowerAssumption`,
`DaoAssumption`, `LotAssumption`, `QueryAssumption`, `ChainAssumption`. In particular the users are
finitely many, the parameters of the DAO are uint64 numbers and heights are int64
numbers. Five hypotheses are not assumptions of the model but of single theorems:

* `AllGenesisClean`, for the theorems about names and index: the genesis files
  name each domain once, normalized and in two parts, under TLDs they permit, none
  of them reserved. `GenesisState.Validate` does not check this, and
  `reg_doc_genesis` shows that without it the registry starts inconsistent.
* `GenesisWithinAYear`, for `ExpiryRecedesLittle` and its version for the chain: no domain of a genesis file
  expires later than one created at genesis. Otherwise a heartbeat, which always
  sets the expiration to a year from now, would shorten it.
* `ShortOfOverflow`, for three theorems about decay: durations below 2^63, which
  the conversion to int64 would otherwise make negative, and ages below 2^64.
* `WithinInts`, for `ListingsComplete` and `AuditsAgree`: the limits that clients ask
  for are below 2^63, and there are fewer than 2^62 proposals and voters. A client
  stops at the first empty page, and with a limit of 2^63 or more the first page is
  empty because the limit becomes a negative int: the listing ends before it began.
  `PageIsSlice` and `PagesAtTheLimits` do without it and say what such pages are.
* That a proposal's voting period ends within the bound `MaxHeight` is a guard of
  `SubmitProposal` in the model; so `DecidedOnTime` says nothing of the periods
  near 2^64 for which the code's addition wraps.

### Sums

Balances, tallies and deposits are sums over finite sets, written with the community
modules' `SumFunction`. `SumTheorems` has what the proofs need of it: a sum of
naturals is a natural, splitting off one summand, replacing one, a smaller set. The
library's induction theorems cannot be instantiated here, so each of these is proved
from a least counterexample: the finite subsets of a finite set are well-founded by
inclusion (`MinimalSubset`, from the library's `WFMin`).

### The registry

The inductive invariant is `IndexInv`. `NameIndexConsistent` alone is not
inductive for two reasons. A restart rebuilds the index under normalized names, so
stored names must be normalized (`StoredNamesNormal`); and `CreateDomain` must not
overwrite a record, so every id must lie below `DomainSeq` (`IdsBelowSeq`). The
step of each message is a lemma; UpdateDomain, HeartbeatDomain and TransferDomain
share one (`RewriteIndexInv`), since each rewrites a record and keeps its name.
InitGenesis and the restart share `RebuildConsistent`: a registry rebuilt from an
orderly list is consistent, and both a clean genesis file and the exported
domains of a consistent registry are orderly. The action properties follow from
`StepOnDomains`, which says what a step does to the domain map when `IndexInv`
holds. The TLD policy needs `NoReservedPermitted` besides: a domain's TLD is not
reserved because no permitted one is.

The fee needs `FeeInv` and no clean genesis file: a creation adds the same fee to
`feesBurned`, to what the payer has lost and to what the supply has, and a failed one
is a stutter (`RejectedChangesNothing`). The year needs `YearInv`: every
expiration is at most a year after some block that has been; two years that begin
at different times and end in the wrong order do so within one day, from
`CalendarAssumption` alone. The refinement maps a creation to the abstract
`Register`, a deletion to `Release`, an update to `Appoint` or `Tend`, a transfer to
`HandOver`, a heartbeat to `Tend`, and everything else, the restart included, to
`Rest` or a stutter.

### The DAO

`TypeInv` adds to the types that balances and supply agree (`Balanced`), that
heights stay below `MaxHeight` and that votes and lots are finitely many. Without
the balance of the bank a snapshot, which is the supply, might be negative;
without finiteness a tally would not be a number. `ProcessCases` splits one turn of
EndBlocker's loop into its five outcomes (rejected; TLD added or refused; grant paid
or refused), and the proofs about decisions go through them once each.

`EscrowInv`, the balance of the DAO account as a sum over the proposals in voting,
is inductive on top of `TypeInv`: each outcome removes one summand and moves
exactly that many coins. `SupplyStep` follows the supply through the same five
outcomes. For the refinement of `Escrow` the worth of each account is a sum again;
a decision is `Return`, with the grant if there is one, or `Forfeit`. `TimeInv` says what
`DecidedOnTime` leaves out: between EndBlockStart and Commit `toProcess` is exactly
the set of proposals that are over and still in voting, and no end of voting has
wrapped. `FreezeIsFinal` rests on `LotsMatchGrants` (no lot comes from the future) and on
`DecayedToNothing`.

### Queries and their clients

`Increasing` characterises the sequence that a walk visits: a finite set of numbers
has exactly one increasing enumeration (`IncreasingExists`, by a least counterexample;
`IncreasingUnique`), so the CHOOSE of `InOrder` is that one, and on the ids
0 .. n - 1 it is the identity shifted by one (`InOrderInterval`). `PageIsSlice`
follows the two conversions and the two clippings of the code through every case of
offset and limit.

`QuerySpec` implements `Spec`, the client's variables forgotten, so the invariants
of the DAO hold in it. The client's own invariant is `ClientInv`: while it lists,
it has seen exactly the first k ids (`ListInv`); while it audits, the proposal is
decided and it has seen the first k votes on it in the order of the walk (`AuditInv`);
and either it has just begun, or one page was full, or it has seen all it has to
(`UnderWay`). The last part is what a page needs: where offset and limit do not add
up to an int, the page is empty, and this must then be the end. A step of the DAO
keeps all this because ids are appended and because a decided proposal gets no vote
(`StepsOfTheDao`, `SameVotes`);
a page extends it because the pages join (`NextPage`). At the end of an audit the
sum over what was seen is the sum over the voters by a reindexing (`SumReindex`), and
`TallyFinal` says that this is the stored tally.

### The arithmetic

`LotDecayProofs` reasons about integer division by its two bounds,
b * q <= a < b * (q + 1), multiplied and cancelled. The runs' small precision is an
instance: the theorems hold for 10^18 and 2^64.

### The chain

To the DAO a step of the chain is one of its own steps or `FeeStep`, a fee that a
user pays and the registry burns (`ChainStep`). So each invariant of the DAO needs
one more case, and the step lemmas are used again. A restart is a case of its own:
in `Dao` it keeps the TLDs, in the chain the registry normalizes them again, which
changes nothing because `TldsNormal` is invariant.

The registry's proofs are instantiated (`Registry == INSTANCE DnsRegistryPromises`);
`RegistryConstants` discharges their assumptions and `SameMessages` and
`SameRestart` identify the actions. `RestartIsLossless` needs besides that the
collections are functions with nothing but their entries (`MapsInv`).
`NamesFollowVotes` joins the two: a new domain's TLD is permitted
(`NamesAfterStep`), a permitted TLD has its proposal (`TldProvenance`), and while
messages run every decided proposal was decided in an earlier block
(`DecidedBefore`). The attempt to prove it found the property wrong as it stood: it
compared the TLD as it is written in the name, while the registry looks up the
trimmed one, and a name padded inside its dots is registered with the padding. The
property now speaks of the TLD that is looked up, and the run has such a name.

To the registry a step of the chain is one of its own messages, a restart, or a step
that leaves the domains alone while time goes on (`ChainStepOnRegistry`). From this,
and `StepOnDomains` and `YearInv` of the instance, come its action properties for the
chain. `ChainNamesRefine` maps the chain to `NameRegistry` by the registry's own
mapping: a message maps as it does there, every step of the DAO is a `Rest`.

The invariants above, apart from those a run lists, were checked with TLC on the
runs' instances before they were proved.

### Only model-checked

* `EveryProposalDecided`: liveness under fairness is out of the prover's reach.
* `RoundTrip`, `CutIsNoticed`, `UnknownFieldsIgnored` and `RepeatedFieldsMerge`: the
  codec is recursive over messages and its properties are about what recursion
  computes; no module with a proof uses it.
* The five comparisons with the documentation, which do not hold.

## 5. Not modelled

The registry's queries other than GetDomainByName (`ListDomain` pages with the
SDK's `CollectionPaginate`), the DAO's `Vote` and `Params` queries (single lookups),
the DAO's `ActiveProposalQueue` (no handler uses it), the gRPC stubs, the HTTP
gateway (`*.pb.gw.go`) and the descriptors among the generated code, dependency
injection, `prepForZeroHeightGenesis`, the command line, simulation and tests;
`components` in `PROJECT.json` gives the reason for each.

## 6. Plan

Done: TLD policy, registry, abstract registry, DAO, voting power, the chain of both
modules, the abstract escrow, the DAO's queries, the generated codec, the runs above,
and proofs of every safety property of the registry, the DAO, its queries, the
arithmetic and the chain.

Left for later:

1. The calendar against the civil calendar with its four-year and 400-year rules:
   that it satisfies `CalendarAssumption`.
2. Filtered listings and open votes, paged by offset, can skip or repeat an entry. If
   the code is to page by key, the client's properties should be stated for them too.
