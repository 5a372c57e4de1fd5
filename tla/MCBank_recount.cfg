SPECIFICATION ReportSpec
CONSTANTS
  Line = {"first", "second", "fee"}
  AmountOf <- Amounts
  DayOf <- Days
  BalanceOf <- Balances
  File <- Files
  Booking <- Bookings
  Window = 2
  s1 = s1
  s2 = s2
  Session = {s1, s2}
  Reader = {}
  Op = {"import"}
  MaxPostings = 2
  MaxMatches = 3
  MaxImports = 2
INVARIANTS AddedAsRecorded
CHECK_DEADLOCK FALSE
