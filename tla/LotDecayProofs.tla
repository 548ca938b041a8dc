--------------------------- MODULE LotDecayProofs ---------------------------
(***************************************************************************)
(* The arithmetic of the DAO for every precision, word size, lot and       *)
(* duration: what the run of LotDecay shows for decimals with one digit    *)
(* and words of four bits holds for LegacyDec and uint64.  The argument is *)
(* that of integer division: q == a \div b is the number with              *)
(* b * q <= a < b * (q + 1), and each property follows by multiplying such *)
(* bounds together and cancelling a positive factor.                       *)
(***************************************************************************)
EXTENDS LotDecay, TLAPS

(* No duration is as long as 2^63 blocks, which the conversion to int64    *)
(* would turn negative, and the age of a lot is a uint64.                  *)
ShortOfOverflow ==
  /\ \A d \in Durations : d < Word \div 2
  /\ MaxAge < Word

-----------------------------------------------------------------------------
(* Products and quotients of natural numbers.                              *)
LEMMA DivIs ==
  ASSUME NEW a \in Nat, NEW b \in Nat \ {0}
  PROVE  a \div b \in Nat /\ b * (a \div b) <= a /\ a < b * (a \div b) + b
OBVIOUS

LEMMA ModIs ==
  ASSUME NEW a \in Nat, NEW b \in Nat \ {0}
  PROVE  a % b \in 0 .. b - 1 /\ a = (b * (a \div b)) + (a % b)
OBVIOUS

LEMMA TimesMonotonic ==
  ASSUME NEW a \in Int, NEW b \in Int, NEW c \in Nat, a <= b
  PROVE  c * a <= c * b
OBVIOUS

LEMMA Cancel ==
  ASSUME NEW a \in Int, NEW b \in Int, NEW c \in Nat \ {0}, c * a <= c * b
  PROVE  a <= b
OBVIOUS

LEMMA CancelStrict ==
  ASSUME NEW a \in Int, NEW b \in Int, NEW c \in Nat \ {0}, c * a < c * b
  PROVE  a < b
OBVIOUS

LEMMA DivAtLeast ==
  ASSUME NEW a \in Nat, NEW b \in Nat \ {0}, NEW k \in Int, b * k <= a
  PROVE  k <= a \div b
<1> DEFINE q == a \div b
<1>1. q \in Nat /\ a < b * q + b
  BY DivIs
<1> HIDE DEF q
<1>2. b * k < b * (q + 1)
  BY <1>1
<1>3. k < q + 1
  BY <1>1, <1>2, CancelStrict
<1> QED BY <1>1, <1>3 DEF q

LEMMA DivMonotonic ==
  ASSUME NEW a \in Nat, NEW c \in Nat, NEW b \in Nat \ {0}, a <= c
  PROVE  a \div b <= c \div b
<1> DEFINE q == a \div b
<1>1. q \in Nat /\ b * q <= a
  BY DivIs
<1> HIDE DEF q
<1>2. b * q <= c
  BY <1>1
<1> QED BY <1>1, <1>2, DivAtLeast DEF q

-----------------------------------------------------------------------------
(* The part of a lot's ratio that is gone after passed blocks.             *)
Gone(passed, d) == (passed * Prec) \div d

(* Within the duration the ratio is truncated once, from above: Gone units *)
(* of Prec are lost, fewer than Prec.                                      *)
LEMMA GoneIs ==
  ASSUME NEW d \in Nat \ {0}, NEW p \in Nat, p < d
  PROVE  /\ Gone(p, d) \in Nat /\ Gone(p, d) < Prec
         /\ d * Gone(p, d) <= p * Prec
         /\ p * Prec < d * Gone(p, d) + d
<1> DEFINE t == Gone(p, d)
           x == p * Prec
<1>1. Prec \in Nat \ {0}
  BY PowerAssumption
<1>2. x \in Nat
  BY <1>1
<1>3. t \in Nat /\ d * t <= x /\ x < d * t + d
  <2> HIDE DEF x
  <2>1. Gone(p, d) = x \div d
    BY DEF Gone, x
  <2> QED BY <1>2, <2>1, DivIs
<1>4. x < d * Prec
  BY <1>1
<1> HIDE DEF t, x
<1>5. d * t < d * Prec
  BY <1>1, <1>2, <1>3, <1>4
<1>6. t < Prec
  BY <1>1, <1>3, <1>5, CancelStrict
<1> QED BY <1>3, <1>6 DEF t, x

(* What DecayedPower is when nothing overflows.                            *)
LEMMA PowerIs ==
  ASSUME NEW a \in Nat, NEW g \in Nat, NEW h \in Nat, NEW d \in Nat,
         g <= h, h - g < Word, d < Word \div 2
  PROVE  /\ a = 0 \/ d = 0 => DecayedPower(a, g, h, d) = a
         /\ a # 0 /\ d # 0 /\ h - g >= d => DecayedPower(a, g, h, d) = 0
         /\ d # 0 /\ h - g < d
              => DecayedPower(a, g, h, d)
                   = (a * (Prec - Gone(h - g, d))) \div Prec
<1> DEFINE p == h - g
<1>1. Word \in Nat \ {0} /\ Prec \in Nat \ {0}
  BY PowerAssumption
<1>2. p \in Nat /\ p < Word
  BY <1>1
<1>3. (h - g) % Word = p
  BY <1>1, <1>2
<1>4. a = 0 \/ d = 0 => DecayedPower(a, g, h, d) = a
  BY DEF DecayedPower
<1>5. a # 0 /\ d # 0 /\ h - g >= d => DecayedPower(a, g, h, d) = 0
  BY <1>3 DEF DecayedPower
<1>6. ASSUME d # 0, h - g < d
      PROVE  DecayedPower(a, g, h, d)
               = (a * (Prec - Gone(h - g, d))) \div Prec
  <2> DEFINE t == Gone(p, d)
             x == a * (Prec - t)
  <2>1. t \in Nat /\ t < Prec
    BY <1>2, <1>6, GoneIs
  <2>2. AsInt64(p) = p /\ AsInt64(d) = d
    BY <1>1, <1>2, <1>6 DEF AsInt64
  <2>3. p * Prec >= 0
    BY <1>1, <1>2
  <2>4. RemainingRatio(p, d) = Prec - t
    BY <1>6, <2>2, <2>3 DEF RemainingRatio, TruncDiv, Gone
  <2> HIDE DEF t
  <2>5. x \in Nat
    BY <1>1, <2>1
  <2>6. x = 0 => x \div Prec = 0
    BY <1>1
  <2>7. x \div Prec \in Nat
    BY <1>1, <2>5, DivIs
  <2>8. a = 0 => x = 0
    BY <1>1, <2>1
  <2> HIDE DEF x
  <2>9. TruncDiv(x, Prec) = x \div Prec
    BY <1>1, <2>5 DEF TruncDiv
  <2>10. TruncDiv(a * RemainingRatio(p, d), Prec) = x \div Prec
    BY <2>4, <2>9 DEF x
  <2> HIDE DEF p
  <2>11. ~(p >= d)
    BY <1>2, <1>6 DEF p
  <2>12. DecayedPower(a, g, h, d) = x \div Prec
    <3>1. CASE a = 0
      BY <3>1, <2>6, <2>8, <1>4
    <3>2. CASE a # 0
      <4>1. DecayedPower(a, g, h, d)
              = IF x \div Prec <= 0 THEN 0 ELSE x \div Prec
        BY <1>3, <1>6, <2>10, <2>11, <3>2 DEF DecayedPower
      <4> QED BY <4>1, <2>7
    <3> QED BY <3>1, <3>2
  <2> QED BY <2>12 DEF x, t, p
<1> QED BY <1>4, <1>5, <1>6

(* A lot's power is at most the lot.                                       *)
LEMMA PowerBounded ==
  ASSUME NEW a \in Nat, NEW t \in Nat, t <= Prec
  PROVE  /\ (a * (Prec - t)) \div Prec \in Nat
         /\ (a * (Prec - t)) \div Prec <= a
         /\ t = 0 => (a * (Prec - t)) \div Prec = a
<1> DEFINE x == a * (Prec - t)
           q == x \div Prec
<1>1. Prec \in Nat \ {0}
  BY PowerAssumption
<1>2. x \in Nat /\ x <= Prec * a /\ (t = 0 => x = Prec * a)
  BY <1>1
<1> HIDE DEF x
<1>3. q \in Nat /\ Prec * q <= x /\ x < Prec * q + Prec
  BY <1>1, <1>2, DivIs
<1> HIDE DEF q
<1>4. q <= a
  BY <1>1, <1>2, <1>3, Cancel
<1>5. ASSUME t = 0 PROVE a <= q
  <2>1. Prec * a < Prec * (q + 1)
    BY <1>1, <1>2, <1>3, <1>5
  <2> QED BY <1>1, <1>3, <2>1, CancelStrict
<1> QED BY <1>3, <1>4, <1>5 DEF x, q

(* The older the lot, the more of its ratio is gone and the less it is     *)
(* worth.                                                                  *)
LEMMA PowerMonotonic ==
  ASSUME NEW a \in Nat, NEW d \in Nat \ {0}, NEW p \in Nat, p + 1 < d
  PROVE  (a * (Prec - Gone(p + 1, d))) \div Prec
           <= (a * (Prec - Gone(p, d))) \div Prec
<1> DEFINE t == Gone(p, d)
           u == Gone(p + 1, d)
           x == a * (Prec - t)
           y == a * (Prec - u)
<1>1. Prec \in Nat \ {0}
  BY PowerAssumption
<1>2. t \in Nat /\ t < Prec
  BY GoneIs
<1>3. u \in Nat /\ u < Prec
  BY GoneIs
<1>4. t <= u
  <2> DEFINE v == p * Prec
             w == (p + 1) * Prec
  <2>1. v \in Nat /\ w \in Nat /\ v <= w
    BY <1>1
  <2> HIDE DEF v, w
  <2>2. v \div d <= w \div d
    BY <2>1, DivMonotonic
  <2> QED BY <2>2 DEF v, w, Gone
<1> HIDE DEF t, u
<1>5. Prec - u <= Prec - t /\ Prec - u \in Nat /\ Prec - t \in Nat
  BY <1>1, <1>2, <1>3, <1>4
<1>6. y <= x
  BY <1>5, TimesMonotonic
<1>7. x \in Nat /\ y \in Nat
  BY <1>5
<1> HIDE DEF x, y
<1>8. y \div Prec <= x \div Prec
  BY <1>1, <1>6, <1>7, DivMonotonic
<1> QED BY <1>8 DEF x, y, t, u

(* Between the exact value and one unit per Prec more: both bounds of Gone *)
(* multiplied by the lot, and the factor they share cancelled.             *)
LEMMA PowerNearLinear ==
  ASSUME NEW a \in Nat, NEW d \in Nat \ {0}, NEW p \in Nat, p < d
  PROVE  LET power == (a * (Prec - Gone(p, d))) \div Prec
             exact == (a * (d - p)) \div d
         IN  /\ exact <= power
             /\ power <= exact + (a + Prec - 1) \div Prec
<1> DEFINE t == Gone(p, d)
           x == a * (Prec - t)
           y == a * (d - p)
           c == (a + Prec - 1) \div Prec
           P == x \div Prec
           L == y \div d
<1>1. Prec \in Nat \ {0}
  BY PowerAssumption
<1>2. t \in Nat /\ t < Prec /\ d * t <= p * Prec /\ p * Prec < d * t + d
  BY GoneIs
<1> HIDE DEF t
<1>3. x \in Nat /\ y \in Nat
  BY <1>1, <1>2
<1>4. d * x >= Prec * y
  <2> DEFINE m == d * t
             n == p * Prec
  <2>1. m \in Nat /\ n \in Nat /\ m <= n
    BY <1>1, <1>2
  <2>2. d * x = a * (d * Prec - m)
    BY <1>1, <1>2
  <2>3. Prec * y = a * (d * Prec - n)
    BY <1>1
  <2> HIDE DEF m, n
  <2>4. d * Prec \in Nat
    BY <1>1
  <2> QED BY <2>1, <2>2, <2>3, <2>4, TimesMonotonic
<1>5. d * x <= Prec * y + a * d
  <2> DEFINE m == d * t
             n == p * Prec
  <2>1. m \in Nat /\ n \in Nat /\ n <= m + d
    BY <1>1, <1>2
  <2>2. d * x = a * (d * Prec - m)
    BY <1>1, <1>2
  <2>3. Prec * y + a * d = a * (d * Prec - n + d)
    BY <1>1
  <2> HIDE DEF m, n
  <2>4. d * Prec \in Nat
    BY <1>1
  <2> QED BY <2>1, <2>2, <2>3, <2>4, TimesMonotonic
<1> HIDE DEF x, y
<1>6. P \in Nat /\ Prec * P <= x /\ x < Prec * P + Prec
  BY <1>1, <1>3, DivIs
<1>7. L \in Nat /\ d * L <= y /\ y < d * L + d
  BY <1>3, DivIs
<1>8. c \in Nat /\ a <= Prec * c
  <2> DEFINE e == a + Prec - 1
  <2>1. e \in Nat
    BY <1>1
  <2> HIDE DEF e
  <2>2. e \div Prec \in Nat /\ e < Prec * (e \div Prec) + Prec
    BY <1>1, <2>1, DivIs
  <2> QED BY <1>1, <2>2 DEF e
<1> HIDE DEF P, L, c
<1>9. L <= P
  <2>1. Prec * (d * L) <= Prec * y
    BY <1>1, <1>3, <1>7, TimesMonotonic
  <2>2. d * (Prec * L) <= d * x
    BY <1>1, <1>3, <1>4, <1>7, <2>1
  <2>3. Prec * L <= x
    BY <1>1, <1>3, <1>7, <2>2, Cancel
  <2> QED BY <1>1, <1>3, <1>7, <2>3, DivAtLeast DEF P
<1>10. P <= L + c
  <2>1. d * (Prec * P) <= d * x
    BY <1>1, <1>3, <1>6, TimesMonotonic
  <2>2. d * a <= d * (Prec * c)
    BY <1>1, <1>8, TimesMonotonic
  <2>3. Prec * (d * P) <= Prec * (y + d * c)
    BY <1>1, <1>3, <1>5, <1>6, <1>8, <2>1, <2>2
  <2>4. d * P <= y + d * c
    BY <1>1, <1>3, <1>6, <1>8, <2>3, Cancel
  <2>5. d * (P - c) <= y
    BY <1>3, <1>6, <1>8, <2>4
  <2>6. P - c <= L
    BY <1>3, <1>6, <1>8, <2>5, DivAtLeast DEF L
  <2> QED BY <1>6, <1>7, <1>8, <2>6
<1> QED BY <1>9, <1>10 DEF P, L, c, x, y, t

-----------------------------------------------------------------------------
(* The parameters stay as chosen and the age of the lot within its bound.  *)
AgeInv ==
  /\ amount \in Amounts /\ decay \in Durations /\ grant \in Grants
  /\ height \in Nat /\ grant <= height /\ height <= grant + MaxAge

LEMMA AgeInvHolds == Spec => []AgeInv
<1>1. Init => AgeInv
  BY LotAssumption DEF Init, AgeInv
<1>2. AgeInv /\ [NextBlock \/ BoundReached]_vars => AgeInv'
  BY LotAssumption DEF AgeInv, NextBlock, BoundReached, vars
<1> QED BY <1>1, <1>2, PTL DEF Spec

(* The facts about the state that the lemmas above ask for.                *)
LEMMA AgeFacts ==
  ASSUME ShortOfOverflow, AgeInv
  PROVE  /\ amount \in Nat /\ decay \in Nat /\ grant \in Nat /\ height \in Nat
         /\ grant <= height /\ height - grant < Word
         /\ height - grant \in Nat /\ decay < Word \div 2
BY LotAssumption, PowerAssumption DEF AgeInv, ShortOfOverflow

(* The value CalculateVoterPower gives a lot is its linear decay, rounded  *)
(* down, plus at most one unit per Prec of the lot: QuoInt64 truncates the *)
(* ratio in the voter's favour and nothing else is lost.                   *)
THEOREM PowerIsLinear ==
  ASSUME ShortOfOverflow
  PROVE  Spec => []WithinOneUnitOfLinear
<1>1. ASSUME AgeInv PROVE WithinOneUnitOfLinear
  <2> DEFINE c == (amount + Prec - 1) \div Prec
             p == height - grant
  <2>1. /\ amount \in Nat /\ decay \in Nat /\ grant \in Nat /\ height \in Nat
        /\ grant <= height /\ p < Word /\ p \in Nat
        /\ decay < Word \div 2
    BY <1>1, AgeFacts
  <2>2. c \in Nat
    <3> DEFINE e == amount + Prec - 1
    <3>1. e \in Nat /\ Prec \in Nat \ {0}
      BY <2>1, PowerAssumption
    <3> HIDE DEF e
    <3>2. e \div Prec \in Nat
      BY <3>1, DivIs
    <3> QED BY <3>2 DEF e
  <2>3. CASE decay = 0
    <3>1. Power = amount /\ Linear = amount
      BY <2>1, <2>3, PowerIs DEF Power, Linear
    <3> HIDE DEF c
    <3>2. amount <= amount /\ amount <= amount + c
      BY <2>1, <2>2
    <3> QED BY <3>1, <3>2 DEF WithinOneUnitOfLinear, c
  <2>4. CASE decay # 0 /\ p >= decay
    <3>1. Power = 0 /\ Linear = 0
      BY <2>1, <2>4, PowerIs DEF Power, Linear
    <3> HIDE DEF c
    <3>2. 0 <= 0 + c
      BY <2>2
    <3> QED BY <3>1, <3>2 DEF WithinOneUnitOfLinear, c
  <2>5. CASE decay # 0 /\ p < decay
    <3>1. Power = (amount * (Prec - Gone(p, decay))) \div Prec
      BY <2>1, <2>5, PowerIs DEF Power
    <3>2. Linear = (amount * (decay - p)) \div decay
      BY <2>1, <2>5 DEF Linear
    <3> HIDE DEF c, p
    <3>3. /\ (amount * (decay - p)) \div decay
               <= (amount * (Prec - Gone(p, decay))) \div Prec
          /\ (amount * (Prec - Gone(p, decay))) \div Prec
               <= (amount * (decay - p)) \div decay + c
      BY <2>1, <2>5, PowerNearLinear DEF c
    <3> QED BY <3>1, <3>2, <3>3 DEF WithinOneUnitOfLinear, c
  <2> QED BY <2>1, <2>3, <2>4, <2>5
<1> QED BY <1>1, AgeInvHolds, PTL

(* A lot is worth all of itself in the block of its grant, never more, and *)
(* nothing once the duration is over, for every precision and word size:   *)
(* CalculateVoterPower neither rounds the start down nor the end up.       *)
THEOREM DecaysFromFullToZero ==
  ASSUME ShortOfOverflow
  PROVE  Spec => []FullToZero
<1>1. ASSUME AgeInv PROVE FullToZero
  <2> DEFINE p == height - grant
             t == Gone(p, decay)
  <2>1. /\ amount \in Nat /\ decay \in Nat /\ grant \in Nat /\ height \in Nat
        /\ grant <= height /\ p < Word /\ p \in Nat
        /\ decay < Word \div 2 /\ Prec \in Nat \ {0}
    BY <1>1, AgeFacts, PowerAssumption
  <2>2. CASE decay = 0
    <3>1. Power = amount
      BY <2>1, <2>2, PowerIs DEF Power
    <3> QED BY <2>1, <2>2, <3>1 DEF FullToZero
  <2>3. CASE decay # 0 /\ p >= decay
    <3>1. Power = 0
      BY <2>1, <2>3, PowerIs DEF Power
    <3> QED BY <2>1, <2>3, <3>1 DEF FullToZero
  <2>4. CASE decay # 0 /\ p < decay
    <3>1. Power = (amount * (Prec - t)) \div Prec
      BY <2>1, <2>4, PowerIs DEF Power
    <3>2. t \in Nat /\ t < Prec /\ decay * t <= p * Prec
      BY <2>1, <2>4, GoneIs
    <3> HIDE DEF t
    <3>3. p = 0 => t = 0
      <4>1. p = 0 => decay * t <= 0
        BY <2>1, <3>2
      <4> QED BY <2>1, <2>4, <3>2, <4>1
    <3>4. Power <= amount /\ (t = 0 => Power = amount)
      BY <2>1, <3>1, <3>2, PowerBounded
    <3>5. height = grant => p = 0
      BY <2>1
    <3> HIDE DEF p
    <3>6. ~(height - grant >= decay)
      BY <2>1, <2>4 DEF p
    <3> QED BY <3>3, <3>4, <3>5, <3>6 DEF FullToZero
  <2> QED BY <2>1, <2>2, <2>3, <2>4
<1> QED BY <1>1, AgeInvHolds, PTL

(* No block gives a lot back what an earlier one took: truncation happens  *)
(* the same way at every age in CalculateVoterPower.                       *)
THEOREM PowerNeverGrows ==
  ASSUME ShortOfOverflow
  PROVE  Spec => NeverGrows
<1>1. ASSUME AgeInv, [NextBlock \/ BoundReached]_vars
      PROVE  [Power' <= Power]_vars
  <2> DEFINE p == height - grant
  <2>1. /\ amount \in Nat /\ decay \in Nat /\ grant \in Nat /\ height \in Nat
        /\ grant <= height /\ p < Word /\ p \in Nat
        /\ decay < Word \div 2 /\ Prec \in Nat \ {0}
    BY <1>1, AgeFacts, PowerAssumption
  <2>2. CASE NextBlock
    <3> DEFINE h == height + 1
               Next == DecayedPower(amount, grant, h, decay)
    <3>1. Power' = Next
      BY <2>2 DEF NextBlock, Power
    <3>2. h \in Nat /\ grant <= h /\ h - grant < Word /\ h - grant = p + 1
      BY <1>1, <2>1, <2>2, LotAssumption, PowerAssumption
         DEF NextBlock, AgeInv, ShortOfOverflow
    <3> HIDE DEF h, Next
    <3>3. CASE decay = 0
      <4>1. Next = amount
        BY <2>1, <3>2, <3>3, PowerIs DEF Next
      <4>2. Power = amount
        BY <2>1, <3>3, PowerIs DEF Power
      <4> QED BY <2>1, <3>1, <4>1, <4>2
    <3>4. CASE decay # 0 /\ p + 1 >= decay
      <4>1. Next = 0
        BY <2>1, <3>2, <3>4, PowerIs DEF Next
      <4>2. CASE p >= decay
        BY <2>1, <3>1, <3>4, <4>1, <4>2, PowerIs DEF Power
      <4>3. CASE p < decay
        <5>1. Power = (amount * (Prec - Gone(p, decay))) \div Prec
          BY <2>1, <3>4, <4>3, PowerIs DEF Power
        <5>2. Gone(p, decay) \in Nat /\ Gone(p, decay) < Prec
          BY <2>1, <3>4, <4>3, GoneIs
        <5>3. Power \in Nat
          BY <2>1, <5>1, <5>2, PowerBounded
        <5> QED BY <3>1, <4>1, <5>3
      <4> QED BY <2>1, <4>2, <4>3
    <3>5. CASE decay # 0 /\ p + 1 < decay
      <4>1. Next = (amount * (Prec - Gone(p + 1, decay))) \div Prec
        BY <2>1, <3>2, <3>5, PowerIs DEF Next
      <4>2. Power = (amount * (Prec - Gone(p, decay))) \div Prec
        BY <2>1, <3>5, PowerIs DEF Power
      <4> HIDE DEF p
      <4> QED BY <2>1, <3>1, <3>5, <4>1, <4>2, PowerMonotonic
    <3> QED BY <2>1, <3>3, <3>4, <3>5
  <2>3. CASE BoundReached \/ UNCHANGED vars
    BY <2>3 DEF BoundReached
  <2> QED BY <1>1, <2>2, <2>3
<1> QED BY <1>1, AgeInvHolds, PTL DEF Spec, NeverGrows

(* ChopRound is within half a unit of the quotient.                        *)
LEMMA RatioRounds ==
  ASSUME NEW part \in Nat, NEW whole \in Nat \ {0}, NEW threshold \in Nat
  PROVE  LET counted == DecRatio(part, whole) >= threshold
         IN  /\ part * Prec >= threshold * whole => counted
             /\ counted => 2 * part * Prec + whole >= 2 * threshold * whole
<1> DEFINE m == part * Prec
           y == m * Prec
           x == y \div whole
           q == x \div Prec
           r == x % Prec
           ratio == ChopRound(x)
<1>1. Prec \in Nat \ {0}
  BY PowerAssumption
<1>2. m \in Nat
  BY <1>1
<1>3. DecRatio(part, whole) = ratio
  BY DEF DecRatio
<1> HIDE DEF m
<1>4. y \in Nat
  BY <1>1, <1>2
<1> HIDE DEF y
<1>5. x \in Nat /\ whole * x <= y /\ y < whole * x + whole
  BY <1>4, DivIs
<1> HIDE DEF x
<1>6. q \in Nat /\ r \in 0 .. Prec - 1 /\ x = (Prec * q) + r
  BY <1>1, <1>5, DivIs, ModIs
<1>7. ratio = q \/ (ratio = q + 1 /\ 2 * r >= Prec)
  BY <1>1, <1>6 DEF ChopRound
<1>8. ASSUME m >= threshold * whole
      PROVE  ratio >= threshold
  <2>1. Prec * (threshold * whole) <= Prec * m
    BY <1>1, <1>2, <1>8, TimesMonotonic
  <2>2. whole * (Prec * threshold) <= y
    BY <1>1, <1>2, <2>1 DEF y
  <2>3. Prec * threshold <= x
    BY <1>1, <1>4, <2>2, DivAtLeast DEF x
  <2>4. threshold <= q
    BY <1>1, <1>5, <2>3, DivAtLeast
  <2> HIDE DEF q, ratio
  <2> QED BY <1>6, <1>7, <2>4
<1>9. ASSUME ratio >= threshold
      PROVE  2 * m + whole >= 2 * threshold * whole
  <2> HIDE DEF q, r, ratio
  <2>1. 2 * x + Prec >= 2 * (Prec * threshold)
    <3>1. CASE ratio = q
      <4>1. Prec * threshold <= Prec * q
        BY <1>1, <1>6, <1>9, <3>1, TimesMonotonic
      <4> QED BY <1>1, <1>6, <4>1
    <3>2. CASE ratio = q + 1 /\ 2 * r >= Prec
      <4>1. Prec * threshold <= Prec * (q + 1)
        BY <1>1, <1>6, <1>9, <3>2, TimesMonotonic
      <4>2. Prec * (q + 1) = Prec * q + Prec
        BY <1>1, <1>6
      <4> QED BY <1>1, <1>6, <3>2, <4>1, <4>2
    <3> QED BY <1>6, <1>7, <3>1, <3>2
  <2>2. whole * (2 * (Prec * threshold)) <= whole * (2 * x + Prec)
    BY <1>1, <1>5, <2>1, TimesMonotonic
  <2>3. whole * (2 * x + Prec) <= 2 * y + Prec * whole
    BY <1>1, <1>4, <1>5
  <2>4. Prec * (2 * threshold * whole) <= Prec * (2 * m + whole)
    BY <1>1, <1>2, <1>4, <1>5, <2>2, <2>3 DEF y
  <2> QED BY <1>1, <1>2, <2>4, Cancel
<1>10. 2 * part * Prec = 2 * m
  BY <1>1 DEF m
<1> HIDE DEF ratio
<1> QED BY <1>3, <1>8, <1>9, <1>10 DEF m

(* The ratio of two tallies, as EndBlocker compares it with a threshold:   *)
(* a threshold met exactly is never missed for the sake of rounding, and a *)
(* missed one passes only within half a unit of LegacyDec's precision.     *)
THEOREM RoundingIsFair == Spec => []RoundingFavoursTheVote
<1>1. ASSUME AgeInv PROVE RoundingFavoursTheVote
  <2>1. amount \in Nat /\ Prec \in Nat
    BY <1>1, LotAssumption, PowerAssumption DEF AgeInv
  <2> SUFFICES ASSUME NEW part \in 0 .. amount, NEW threshold \in 0 .. Prec,
                      amount > 0
               PROVE  LET counted == DecRatio(part, amount) >= threshold
                      IN  /\ part * Prec >= threshold * amount => counted
                          /\ counted => 2 * part * Prec + amount
                                          >= 2 * threshold * amount
    BY DEF RoundingFavoursTheVote
  <2>2. part \in Nat /\ amount \in Nat \ {0} /\ threshold \in Nat
    BY <2>1
  <2> QED BY <2>2, RatioRounds
<1> QED BY <1>1, AgeInvHolds, PTL
=============================================================================
