SPECIFICATION FairSpec
CONSTANTS
  e1 = e1
  e2 = e2
  e3 = e3
  e4 = e4
  k1 = k1
  s1 = s1
  s2 = s2
  s3 = s3
  NoEntry = NoEntry
  NoKey = NoKey
  Account = {1, 2, 3}
  CreditNormal = {3}
  Overdraft = {3}
  Entry <- MCEntry
  Key = {k1}
  Session = {s1, s2}
  Request <- BookRequests
INVARIANTS BalancesAreSums NeverOverdrawn TransitionsNeverOverdraw
  ReversalsCancel OneEntryPerKey NoDeadlock
PROPERTIES LedgerSpec HistoryImmutable VersionAdvances RequestsEnd
CHECK_DEADLOCK FALSE
