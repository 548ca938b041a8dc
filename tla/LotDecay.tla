------------------------------ MODULE LotDecay ------------------------------
(***************************************************************************)
(* One voting power lot as blocks pass, and one ballot as it is counted:   *)
(* the arithmetic of VotingPower against exact rational arithmetic.  The   *)
(* parameters and sizes are chosen once; each step is a block.             *)
(***************************************************************************)
EXTENDS VotingPower

CONSTANTS
  Amounts,   \* sizes of the lot
  Durations, \* values of VotingPowerDecayDurationBlocks
  Grants,    \* heights at which the lot may be granted
  MaxAge     \* bound: blocks followed

ASSUME LotAssumption ==
  /\ Amounts \subseteq Nat /\ Durations \subseteq 0 .. Word - 1
  /\ Grants \subseteq Nat /\ MaxAge \in Nat

VARIABLES
  amount, \* InitialAmount of the lot
  decay,  \* the decay duration
  grant,  \* GrantBlockHeight
  height  \* the current block

vars == <<amount, decay, grant, height>>

Init ==
  /\ amount \in Amounts /\ decay \in Durations /\ grant \in Grants
  /\ height = grant

NextBlock ==
  /\ height < grant + MaxAge
  /\ height' = height + 1
  /\ UNCHANGED <<amount, decay, grant>>

(* The model, not the lot, ends here.                                      *)
BoundReached == height = grant + MaxAge /\ UNCHANGED vars

Spec == Init /\ [][NextBlock \/ BoundReached]_vars

Power == DecayedPower(amount, grant, height, decay)

-----------------------------------------------------------------------------
(* The exact linear decay, rounded down.                                   *)
Linear ==
  IF decay = 0 THEN amount
  ELSE IF height - grant >= decay THEN 0
  ELSE (amount * (decay - (height - grant))) \div decay

(* The power of a lot is its linear decay but for the truncated ratio:     *)
(* never less than the exact value rounded down, and more by at most one   *)
(* unit per Prec units of the lot.                                         *)
WithinOneUnitOfLinear ==
  /\ Linear <= Power
  /\ Power <= Linear + (amount + Prec - 1) \div Prec

(* params.proto:36: power "decays from full to zero".  It starts at the    *)
(* whole lot, never grows, and is gone when the duration is over.          *)
FullToZero ==
  /\ height = grant => Power = amount
  /\ Power <= amount
  /\ decay > 0 /\ height - grant >= decay => Power = 0

(* From block to block a lot loses power or keeps it: the truncation in    *)
(* CalculateVoterPower is the same way at every age.                       *)
NeverGrows == [][Power' <= Power]_vars

(* Half-to-even rounding of the ratio of two tallies never turns a         *)
(* threshold that is met exactly into one that is missed, and lets a       *)
(* missed one pass only within half a unit of precision.                   *)
RoundingFavoursTheVote ==
  \A part \in 0 .. amount, threshold \in 0 .. Prec :
    amount > 0 =>
      LET counted == DecRatio(part, amount) >= threshold
      IN  /\ part * Prec >= threshold * amount => counted
          /\ counted => 2 * part * Prec + amount >= 2 * threshold * amount
=============================================================================
