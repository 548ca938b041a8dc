SPECIFICATION Spec
CONSTANTS
  Prec = 10
  Word = 16
  Amounts = {0, 1, 2, 5, 7, 9, 10, 11, 23, 40}
  Durations = {0, 1, 2, 3, 4, 5, 6, 7}
  Grants = {1, 4}
  MaxAge = 9
INVARIANT WithinOneUnitOfLinear FullToZero RoundingFavoursTheVote
PROPERTY NeverGrows
