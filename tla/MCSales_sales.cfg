SPECIFICATION FairSales
CONSTANTS
  RateScale = 2
  TaxScale = 5
  Reference = {"INV-1", "INV-2", "CN-1", "CN-2", "CN-3"}
  Item = {"paver", "slab"}
  Account = {"156"}
  AccountOf <- Accounts
  MethodOf <- Methods
  h1 = h1
  Shipment = {h1}
  NoShipment = NoShipment
  s1 = s1
  s2 = s2
  Session = {s1, s2}
  Request <- YardRequests
  Opening <- Yard
  MaxLots = 4
  MaxEntries = 7
CHECK_DEADLOCK FALSE
INVARIANTS StockAgrees CreditsSettle
PROPERTY SalesEnd
