SPECIFICATION ReportSpec
CONSTANTS
  Line = {"first", "second", "fee"}
  AmountOf <- Amounts
  DayOf <- Days
  BalanceOf <- Balances
  File <- Files
  Booking <- Bookings
  Window = 2
  s1 = s1
  s2 = s2
  Session = {s1, s2}
  Reader = {"page"}
  Op = {"import", "match", "unmatch", "record", "suggested"}
  MaxPostings = 2
  MaxMatches = 2
  MaxImports = 2
INVARIANTS ImportsAreWhole GapsAreExplained RecordedOnce SuggestionsPair
SYMMETRY SessionSymmetry
CHECK_DEADLOCK FALSE
