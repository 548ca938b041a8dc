----------------------------- MODULE TldPolicy -----------------------------
(***************************************************************************)
(* Names and top-level domains, and the policy on them that the registry   *)
(* and the DAO share: x/dnsblockchain/keeper/keeper.go, reserved_tlds.go.  *)
(*                                                                         *)
(* A string is abstracted to what the code tells apart.  A TLD is a base   *)
(* (the lower-case text) and three marks: it has upper-case letters, it is *)
(* wrapped in dots, it is padded with white space inside those dots.  A    *)
(* domain name adds a label and a form: "pair" when the trimmed text is    *)
(* label.tld, "empty" when nothing but dots is left, "other" otherwise.    *)
(***************************************************************************)
EXTENDS Integers

CONSTANTS
  Labels,          \* the labels of domain names
  Bases,           \* the lower-case texts of TLDs
  EmptyTLD,        \* the base that is the empty string
  ReservedTLDs,    \* bases in the hardcoded deny list of reserved_tlds.go
  WrongLengthTLDs, \* bases shorter than 2 or longer than 63 characters
  BadCharTLDs      \* bases with characters outside letters, digits, hyphen

ASSUME TldAssumption ==
  /\ EmptyTLD \in WrongLengthTLDs
  /\ WrongLengthTLDs \subseteq Bases
  /\ ReservedTLDs \subseteq Bases \ WrongLengthTLDs
  /\ BadCharTLDs \subseteq Bases

TldString ==
  [base: Bases, upper: BOOLEAN, dots: BOOLEAN, pad: BOOLEAN]

NameString ==
  [form: {"pair", "other", "empty"}, label: Labels, base: Bases,
   upper: BOOLEAN, dots: BOOLEAN, pad: BOOLEAN]

(* strings.ToLower, strings.Trim(s, ".") and strings.TrimSpace.  White     *)
(* space inside enclosing dots is out of TrimSpace's reach.                *)
ToLower(s) == [s EXCEPT !.upper = FALSE]
TrimDots(s) == [s EXCEPT !.dots = FALSE]
TrimSpace(s) == [s EXCEPT !.pad = s.pad /\ s.dots]

(* The normalisation that CreateDomain, InitGenesis, GetDomainByName and   *)
(* SubmitProposal apply: case and enclosing dots, not white space.         *)
Normalize(s) == ToLower(TrimDots(s))

(* The comparison with "" after one of these.  A text of white space only  *)
(* is not empty until TrimSpace has seen it.                               *)
IsEmptyString(s) == s.base = EmptyTLD /\ ~s.dots /\ ~s.pad

(* parts[1] of a normalized two-part name.                                 *)
TldPart(n) ==
  [base |-> n.base, upper |-> n.upper, dots |-> FALSE, pad |-> n.pad]

(* IsReservedTLD: an exact lookup of the normalized text in the table.     *)
IsReservedTLD(t) ==
  LET n == Normalize(t) IN ~n.pad /\ n.base \in ReservedTLDs

(* Mutant: every TLD that is not reserved counts as permitted.             *)
PermittedUnlessReserved(t, permitted) ==
  LET n == ToLower(TrimSpace(t)) IN ~IsEmptyString(n) /\ ~IsReservedTLD(n)

IsTLDPermitted(t, permitted) ==
  LET n == ToLower(TrimSpace(t))
  IN  ~IsEmptyString(n) /\ n \in permitted

(* The checks of AddPermittedTLD, and the entry it stores.                 *)
AddedTLD(t) == ToLower(TrimSpace(t))

(* Mutant: the deny list is not consulted when a TLD is added.             *)
CanAddAnyTLD(t, permitted) ==
  LET n == AddedTLD(t)
  IN  /\ ~IsEmptyString(n)
      /\ ~n.dots
      /\ n.base \notin WrongLengthTLDs
      /\ n \notin permitted

(* Mutant: a TLD that is already permitted can be added again.             *)
CanAddAgain(t, permitted) ==
  LET n == AddedTLD(t)
  IN  ~IsReservedTLD(n) /\ ~n.dots /\ n.base \notin WrongLengthTLDs

CanAddPermittedTLD(t, permitted) ==
  LET n == AddedTLD(t)
  IN  /\ ~IsReservedTLD(n)
      /\ ~IsEmptyString(n)
      /\ ~n.dots
      /\ n.base \notin WrongLengthTLDs
      /\ n \notin permitted

(* AddTldProposalContent.ValidateBasic: length, then letters, digits and   *)
(* inner hyphens only, in any case; so neither dots nor white space.       *)
ValidTldContent(t) ==
  /\ t.base \notin WrongLengthTLDs
  /\ t.base \notin BadCharTLDs
  /\ ~t.dots /\ ~t.pad

(* PermittedTLDs after InitGenesis of a list of TLD strings.  White space  *)
(* is not trimmed: a TLD that consists of it is stored.                    *)
GenesisTLDs(list) == {n \in {Normalize(t) : t \in list} : ~IsEmptyString(n)}
=============================================================================
