----------------------------- MODULE DaoQueries -----------------------------
(***************************************************************************)
(* The query server of x/dao, keeper/query_*.go, and a client that pages   *)
(* through its answers while the chain goes on.  A query reads the state   *)
(* that was committed last, so a page is read between two blocks, and      *)
(* between two pages any number of blocks may pass.                        *)
(*                                                                         *)
(* Pages are cut in memory, by offset and limit: the server walks the      *)
(* collection, filters, and slices.  The answer never has a next key, so   *)
(* the client goes on by offset until a page is empty.                     *)
(***************************************************************************)
EXTENDS Dao, SequencesExt

CONSTANTS
  Addresses,    \* the users in the order of their addresses' bytes
  DefaultLimit, \* query.DefaultLimit
  Limits,       \* the limits that clients ask for; 0 means none given
  Jobs          \* what clients do: "list" proposals, "audit" votes

ASSUME QueryAssumption ==
  /\ Addresses \in Seq(Users) /\ Range(Addresses) = Users
  /\ \A i, j \in DOMAIN Addresses : Addresses[i] = Addresses[j] => i = j
  /\ Word \div 2 > 2 /\ DefaultLimit \in 1 .. (Word \div 2) - 1
  /\ Limits \subseteq 0 .. Word - 1
  /\ Jobs \subseteq {"list", "audit"}

VARIABLE client \* what the client is doing and what it has read so far

queryVars == <<vars, client>>

-----------------------------------------------------------------------------
(* Numbers in the order in which the store keeps them, and in which Walk   *)
(* finds them.                                                             *)
InOrder(S) ==
  CHOOSE s \in SetToSeqs(S) : \A i, j \in DOMAIN s : i < j => s[i] < s[j]

(* The limit of a page: a request without one gets the default.            *)
Asked(limit) == IF limit = 0 THEN DefaultLimit ELSE limit

(* Mutant: a limit of zero is not replaced.                                *)
PageWithoutDefault(listing, offset, limit) ==
  LET n == Len(listing)
      start == AsInt64(offset)
      end == AsInt64((start + AsInt64(limit)) % Word)
      within(i) == IF i < 0 THEN 0 ELSE IF i > n THEN n ELSE i
  IN  SubSeq(listing, within(start) + 1, within(end))

(* The slice that Proposals and Votes return.  offset and limit are uint64 *)
(* that become int, and their sum is an int; each end is then forced into  *)
(* the listing.                                                            *)
Page(listing, offset, limit) ==
  LET n == Len(listing)
      start == AsInt64(offset)
      end == AsInt64((start + AsInt64(Asked(limit))) % Word)
      within(i) == IF i < 0 THEN 0 ELSE IF i > n THEN n ELSE i
  IN  SubSeq(listing, within(start) + 1, within(end))

(* Mutant: a status that is not set selects the proposals in voting.       *)
VotingUnlessFiltered(status, proposer) ==
  LET wanted == IF status = "any" THEN "VOTING_PERIOD" ELSE status
  IN  InOrder({id \in DOMAIN Proposals :
                 /\ proposer \in {"any", Proposals[id].Proposer}
                 /\ wanted = Proposals[id].Status})

(* Proposals: in the order of their ids, by status and proposer; "any" is  *)
(* a filter that is not set.  The voter of the request is not looked at.   *)
FilteredProposals(status, proposer) ==
  InOrder({id \in DOMAIN Proposals :
             /\ proposer \in {"any", Proposals[id].Proposer}
             /\ status \in {"any", Proposals[id].Status}})

(* Votes: of one proposal, in the order of the voters' addresses.          *)
VotesOf(id) ==
  LET voters == InOrder({i \in DOMAIN Addresses :
                           <<id, Addresses[i]>> \in DOMAIN Votes})
  IN  [i \in DOMAIN voters |-> Votes[<<id, Addresses[voters[i]]>>]]

(* Mutant: the order of the fields is taken for that of the message.       *)
TallyInWrongOrder(id) ==
  LET p == Proposals[id]
  IN  [YesCount |-> p.YesVotes, AbstainCount |-> p.NoVotes,
       NoCount |-> p.AbstainVotes]

(* TallyResult: what the proposal stores, zero until it is decided.        *)
TallyResult(id) ==
  LET p == Proposals[id]
  IN  [YesCount |-> p.YesVotes, AbstainCount |-> p.AbstainVotes,
       NoCount |-> p.NoVotes]

-----------------------------------------------------------------------------
NoClient ==
  [job |-> "idle", id |-> 0, limit |-> 0, seen |-> <<>>, known |-> 0]

Committed == phase = "endblock" /\ toProcess = {}

(* The client asks for all proposals.  known is how many there are, which  *)
(* the client cannot see.                                                  *)
StartListing(limit) ==
  /\ "list" \in Jobs
  /\ Committed /\ client = NoClient
  /\ client' = [NoClient EXCEPT !.job = "list", !.limit = limit,
                                !.known = Cardinality(DOMAIN Proposals)]
  /\ UNCHANGED vars

(* The client asks for the votes on a proposal that it has seen decided.   *)
StartAudit(id, limit) ==
  /\ "audit" \in Jobs
  /\ Committed /\ client = NoClient
  /\ id \in DOMAIN Proposals /\ Finished(id)
  /\ client' = [NoClient EXCEPT !.job = "audit", !.id = id, !.limit = limit]
  /\ UNCHANGED vars

Answer ==
  Page(IF client.job = "list" THEN FilteredProposals("any", "any")
                              ELSE VotesOf(client.id),
       Len(client.seen), client.limit)

FetchPage ==
  /\ Committed /\ client.job \in {"list", "audit"}
  /\ Answer # <<>>
  /\ client' = [client EXCEPT !.seen = @ \o Answer]
  /\ UNCHANGED vars

LastPage ==
  /\ Committed /\ client.job \in {"list", "audit"}
  /\ Answer = <<>>
  /\ client' = [client EXCEPT
                  !.job = IF @ = "list" THEN "listed" ELSE "audited"]
  /\ UNCHANGED vars

(* A client that meets a restarted chain begins again.                     *)
QueryNext ==
  \/ Next /\ client' = IF restarts' = restarts THEN client ELSE NoClient
  \/ \E limit \in Limits : StartListing(limit)
  \/ \E id \in DOMAIN Proposals, limit \in Limits : StartAudit(id, limit)
  \/ FetchPage
  \/ LastPage

QuerySpec == Init /\ client = NoClient /\ [][QueryNext]_queryVars

-----------------------------------------------------------------------------
(* Pages are read at different heights, while proposals are submitted and  *)
(* decided; still the client sees each proposal once, in order, and none   *)
(* that was there when it began is missing at the end: ids only grow, and  *)
(* decided proposals stay in the collection.                               *)
ListingComplete ==
  /\ client.job \in {"list", "listed"} =>
       IsPrefix(client.seen, FilteredProposals("any", "any"))
  /\ client.job = "listed" => Len(client.seen) >= client.known

(* A client that adds up the votes on a decided proposal, page by page,    *)
(* finds the numbers that TallyResult gives: no vote comes, goes or        *)
(* changes between two pages, and the options are not mixed up.            *)
AuditAgrees ==
  client.job = "audited" =>
    LET power(option) ==
          SumFunction([i \in DOMAIN client.seen |->
                         IF client.seen[i].Option = option
                           THEN client.seen[i].VotingPower ELSE 0])
    IN  TallyResult(client.id) =
          [YesCount |-> power("YES"), AbstainCount |-> power("ABSTAIN"),
           NoCount |-> power("NO")]

(* The slice at the limits of uint64 and int: up to the largest int, a     *)
(* page is what was asked for; where the sum of offset and limit is too    *)
(* large for an int the page is empty, never a piece from elsewhere.  (An  *)
(* offset of 2^63 or more is a negative int, and some of those are         *)
(* answered with the beginning of the listing.)                            *)
PageAtTheLimits ==
  Committed /\ client = NoClient =>
    LET listing == FilteredProposals("any", "any")
        half == Word \div 2
    IN  \A offset \in (0 .. 2) \cup {half - 1},
           limit \in (0 .. 2) \cup {half - 2, half - 1, half, Word - 1} :
          Page(listing, offset, limit) =
            IF offset + Asked(limit) >= half THEN <<>>
            ELSE InOrder({id \in DOMAIN Proposals :
                            offset <= id /\ id < offset + Asked(limit)})
=============================================================================
