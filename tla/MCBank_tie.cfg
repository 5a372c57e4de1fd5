SPECIFICATION ReportSpec
CONSTANTS
  Line = {"first", "second", "fee"}
  AmountOf <- Amounts
  DayOf <- OneDay
  BalanceOf <- Balances
  File <- Whole
  Booking <- Bookings
  Window = 2
  s1 = s1
  s2 = s2
  Session = {s1}
  Reader = {"page"}
  Op = {"import", "match", "record"}
  MaxPostings = 3
  MaxMatches = 3
  MaxImports = 1
INVARIANTS ZeroWhenExplained
CHECK_DEADLOCK FALSE
