SPECIFICATION StockSpec
CONSTANTS
  RateScale = 2
  Item = {"paver", "slab", "tile", "block"}
  Account = {"1561", "1562"}
  AccountOf <- Accounts
  MethodOf <- Methods
  h1 = h1
  Shipment = {h1}
  NoShipment = NoShipment
  s1 = s1
  s2 = s2
  Session = {s1, s2}
  Request <- YardRequests
  Opening <- Yard
  MaxLots = 6
  MaxEntries = 9
SYMMETRY SessionSymmetry
CHECK_DEADLOCK FALSE
INVARIANTS LotsAreSound StockAgrees RefundsWithinCost
PROPERTY ShelfSpec
