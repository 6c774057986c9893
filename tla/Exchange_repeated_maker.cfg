SPECIFICATION FundedSpec
CONSTANTS
  u1 = u1
  u2 = u2
  None = None
  DemoMaker = DemoMaker
  Accounts = {u1, u2}
  BaseScale = 4
  QuantityStep = 1
  MaxInt64 = 1000
  PriceTick = 1
  MinQuantity = 1
  MinNotional = 1
  MakerFeeBPS = 5000
  TakerFeeBPS = 6000
  Prices = {5, 7}
  Quantities = {1, 2}
  Styles = {"gtc"}
  SellQuantities = {1, 2}
  Budgets = {3, 4, 6}
  FundAmounts = {}
  StartBase = 5
  StartQuote = 9
  MaxSequence = 7
  Requests <- MCRequests
SYMMETRY Symmetry
CHECK_DEADLOCK FALSE
INVARIANT ValidCommandsSucceed
