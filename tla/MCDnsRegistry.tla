--------------------------- MODULE MCDnsRegistry ---------------------------
(***************************************************************************)
(* Instances of DnsRegistry for TLC.  A year has 3 days of 2 ticks; each   *)
(* cfg says which are leap days.                                           *)
(***************************************************************************)
EXTENDS DnsRegistry

CONSTANTS u1, u2, l1

MCUsers == {u1, u2}
MCLabels == {l1}
MCBases == {"web", "new", "com", "x", ""}
MCReserved == {"com"}
MCWrongLength == {"x", ""}

T(b, u, d, p) == [base |-> b, upper |-> u, dots |-> d, pad |-> p]
N(f, b, u, d, p) ==
  [form |-> f, label |-> l1, base |-> b, upper |-> u, dots |-> d, pad |-> p]

(* Two spellings of one name, the same with white space, a name under a    *)
(* TLD not yet permitted, one under a reserved TLD, one under white space  *)
(* and one of three parts.                                                 *)
MCNames ==
  {N("pair", "", FALSE, FALSE, TRUE),
   N("pair", "web", FALSE, FALSE, FALSE), N("pair", "web", TRUE, TRUE, FALSE),
   N("pair", "web", FALSE, FALSE, TRUE),
   N("pair", "new", FALSE, FALSE, FALSE), N("pair", "com", FALSE, FALSE, FALSE),
   N("other", "web", FALSE, FALSE, FALSE)}

OneName == {N("pair", "web", TRUE, TRUE, FALSE)}

MCTldRequests ==
  {T("new", TRUE, FALSE, FALSE), T("com", TRUE, FALSE, FALSE),
   T("x", FALSE, FALSE, FALSE), T("com", FALSE, FALSE, TRUE)}

MCNs == {"none", "ns1", "bad"}

D(id, c, o, n, e) ==
  [Id |-> id, Creator |-> c, Owner |-> o, Name |-> n, NsRecords |-> "ns1",
   Expiration |-> e]

Genesis(list, count, tlds, fee) ==
  [DomainList |-> list, DomainCount |-> count, PermittedTlds |-> tlds,
   DomainCreationFee |-> fee]

Web == T("web", FALSE, FALSE, FALSE)

(* An empty registry with the given fee, in which white space is a TLD,    *)
(* and one with a domain and a gap in the ids.                             *)
StartingStates(fee) ==
  {Genesis(<<>>, 0, {T("web", TRUE, TRUE, FALSE), T("", FALSE, TRUE, TRUE),
                     T("", FALSE, TRUE, FALSE)}, fee),
   Genesis(<<D(1, u1, u2, N("pair", "web", FALSE, FALSE, FALSE), 2)>>, 2,
           {Web, T("web", FALSE, FALSE, TRUE)}, 1)}

CleanGenesisStates == StartingStates(0)
FeeGenesisStates == StartingStates(1)

(* Two records whose names differ in spelling only; Validate accepts it.   *)
DuplicateNameGenesis ==
  {Genesis(<<D(0, u1, u1, N("pair", "web", FALSE, FALSE, FALSE), 3),
             D(1, u2, u2, N("pair", "web", TRUE, FALSE, FALSE), 3)>>, 2,
           {Web}, 1)}

MCBalance == [u \in MCUsers |-> 1]
=============================================================================
