SPECIFICATION FundedSpec
CONSTANTS
  u1 = u1
  None = None
  DemoMaker = DemoMaker
  Accounts = {u1, DemoMaker}
  BaseScale = 4
  QuantityStep = 1
  MaxInt64 = 18
  PriceTick = 1
  MinQuantity = 1
  MinNotional = 1
  MakerFeeBPS = 5000
  TakerFeeBPS = 6000
  Prices = {5, 7}
  Quantities = {1, 3}
  Styles = {"gtc", "ioc", "fok", "post"}
  SellQuantities = {1, 2}
  Budgets = {3, 4, 6}
  FundAmounts = {2}
  StartBase = 5
  StartQuote = 9
  MaxSequence = 7
  Requests <- MCRequests
CHECK_DEADLOCK FALSE
INVARIANT TypeOK
INVARIANT SelfCheckPasses
INVARIANT OnlyKnownFailures
INVARIANT BookUncrossed
INVARIANT StylesHonoured
INVARIANT TradesAccountForOrders
INVARIANT RecordsStand
PROPERTY PriceTimePriority
