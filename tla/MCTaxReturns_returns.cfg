SPECIFICATION Spec
CONSTANTS
  LastMonth = 2
  s1 = s1
  s2 = s2
  Session = {s1, s2}
  Period <- AnyPeriod
  Taxed <- Supplies
  ByHand <- Lines
  MaxEntries = 3
SYMMETRY SessionSymmetry
CHECK_DEADLOCK FALSE
INVARIANTS FiledOnce OutputIsUndeclared
