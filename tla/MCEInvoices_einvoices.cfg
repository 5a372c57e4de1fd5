SPECIFICATION Spec
CONSTANTS
  Series = {"C26", "C27"}
  YearOf <- Years
  Sale = {"export", "local"}
  Note = {"returned"}
  SaleOf <- Sales
  s1 = s1
  s2 = s2
  s3 = s3
  Session = {s1, s2, s3}
  MaxInvoices = 4
INVARIANTS NumbersRun OneDocumentEach TakenNumbersStand
SYMMETRY SessionSymmetry
CHECK_DEADLOCK FALSE
