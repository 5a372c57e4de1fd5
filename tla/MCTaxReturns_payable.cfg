SPECIFICATION Spec
CONSTANTS
  LastMonth = 3
  s1 = s1
  s2 = s2
  Session = {s1}
  Period <- AsOffered
  Taxed <- Supplies
  ByHand <- NoLines
  MaxEntries = 2
CHECK_DEADLOCK FALSE
INVARIANT PayableAsFiled
