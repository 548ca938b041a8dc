SPECIFICATION Spec
CONSTANTS
  WordBits = 15
  IntBits = 8
INVARIANT RoundTrip CutIsNoticed UnknownFieldsIgnored RepeatedFieldsMerge
