SPECIFICATION Spec
CONSTANTS
  e1 = e1
  e2 = e2
  e3 = e3
  e4 = e4
  k1 = k1
  s1 = s1
  s2 = s2
  s3 = s3
  NoEntry = NoEntry
  NoKey = NoKey
  Account = {1, 2, 3}
  CreditNormal = {3}
  Overdraft = {3}
  Entry <- FourEntries
  Key = {k1}
  Session = {s1, s2}
  Request <- PinnedRequests
PROPERTIES PinnedWritesAreFresh
CHECK_DEADLOCK FALSE
