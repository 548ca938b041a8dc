---------------------------- MODULE VotingPower ----------------------------
(***************************************************************************)
(* The arithmetic of the DAO: fixed-point numbers (cosmossdk.io/math       *)
(* LegacyDec) and the decay of a voting power lot, CalculateVoterPower in  *)
(* x/dao/keeper/keeper.go.  A decimal is an integer counting units of      *)
(* 1/Prec.  Prec is 10^18 and Word is 2^64 in the program.                 *)
(***************************************************************************)
EXTENDS Integers

CONSTANTS
  Prec, \* units in 1, a power of ten
  Word  \* number of values of a uint64

ASSUME PowerAssumption ==
  /\ Prec \in Nat \ {0}
  /\ Word \in Nat \ {0} /\ Word % 2 = 0

(* big.Int.Quo: integer division that truncates towards zero.              *)
TruncDiv(a, b) ==
  IF (a >= 0) = (b > 0)
    THEN (IF a >= 0 THEN a ELSE -a) \div (IF b > 0 THEN b ELSE -b)
    ELSE -((IF a >= 0 THEN a ELSE -a) \div (IF b > 0 THEN b ELSE -b))

(* chopPrecisionAndRound: drop the extra precision, half to even.          *)
ChopRound(x) ==
  LET q == x \div Prec
      r == x % Prec
  IN  IF 2 * r < Prec \/ (2 * r = Prec /\ q % 2 = 0) THEN q ELSE q + 1

(* Mutant: integers are divided before they are made decimals.             *)
IntRatio(a, b) == (a \div b) * Prec

(* LegacyNewDec(a).Quo(LegacyNewDec(b)) for a >= 0, b > 0.                 *)
DecRatio(a, b) == ChopRound((a * Prec * Prec) \div b)

(* Conversion of a uint64 to int64.                                        *)
AsInt64(x) == IF x < Word \div 2 THEN x ELSE x - Word

(* Mutants: the ratio is an integer; the ratio is the part that is gone.   *)
IntRemainingRatio(passed, decay) ==
  Prec - Prec * TruncDiv(AsInt64(passed), AsInt64(decay))
ElapsedRatio(passed, decay) ==
  TruncDiv(AsInt64(passed) * Prec, AsInt64(decay))

(* 1 - blocksPassed/decayDuration, QuoInt64 truncating.                    *)
RemainingRatio(passed, decay) ==
  Prec - TruncDiv(AsInt64(passed) * Prec, AsInt64(decay))

(* Mutant: the age of a lot is counted from genesis.                       *)
PowerSinceGenesis(amount, grant, height, decay) ==
  IF amount = 0 \/ decay = 0 THEN amount
  ELSE IF height >= decay THEN 0
  ELSE TruncDiv(amount * RemainingRatio(height, decay), Prec)

(* What a lot of the given size, granted at block grant, is worth at block *)
(* height.  A decay duration of zero switches decay off.                   *)
DecayedPower(amount, grant, height, decay) ==
  LET passed == (height - grant) % Word
      p == TruncDiv(amount * RemainingRatio(passed, decay), Prec)
  IN  IF amount = 0 \/ decay = 0 THEN amount
      ELSE IF passed >= decay \/ p <= 0 THEN 0
      ELSE p
=============================================================================
