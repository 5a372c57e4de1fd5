SPECIFICATION Spec
CONSTANTS
  e1 = e1
  e2 = e2
  e3 = e3
  e4 = e4
  s1 = s1
  s2 = s2
  s3 = s3
  NoEntry = NoEntry
  Month = {1, 2, 3}
  Now = 3
  Temporary = {"revenue", "expense"}
  Retained = "retained"
  Entry = {e1, e2, e3, e4}
  Session = {s1, s2}
  Request <- SlipRequests
INVARIANTS ClosedMonthsAreZeroed
CHECK_DEADLOCK FALSE
