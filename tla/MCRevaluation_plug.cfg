SPECIFICATION Spec
CONSTANTS
  Month = {1, 2, 3}
  Now = 3
  Account = {"cash", "loan", "card", "equity", "fx"}
  CurrencyOf <- Currencies
  Home = "vnd"
  FxAccount = "fx"
  Grain <- Grains
  Largest = 100
  RateScale = 2
  s1 = s1
  s2 = s2
  Session = {s1}
  Request <- PlugRequests
  MaxEntries = 4
CHECK_DEADLOCK FALSE
PROPERTIES PlugsAreRateDifferences
