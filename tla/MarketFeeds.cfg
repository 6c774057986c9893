SPECIFICATION MCSpec
CONSTANTS
  Providers <- OneProvider
  Assets = {1, 2}
  CanarySize = 1
  SelectTarget = 1
  MaxChanges = 2
  MaxSelections = 2
  LegacyCanary = TRUE
  MaxDiscoveries = 2
  MaxFeedFaults = 1
  LastMinute = 4
  BucketSize = 2
  PageLimit = 2
  Scanned <- ScannedRange
  MinuteKeep = 4
  Sparsities <- TwoSparsities
  MaxAttempts = 2
  MaxKlineFaults = 1
  Perps = {"BTC", "ETH"}
  MaxPerpFaults = 2
  Coins = {"bitcoin", "wrapped", "tether"}
  LegacyAssets = {"btc0", "wbtc0", "a3"}
  LegacyCoins <- MappedBefore
  Preferred <- PreferredAsset
  Symbol <- SymbolOf
  AliasKeys = {"BTC", "WBTC", "USDT", "USD", "WBTC-perp"}
  PerpKeys = {"WBTC-perp"}
  LegacyAliases <- BoundBefore
  Embedded <- ReviewedManifest
  FiatAliases = {"USD"}
  OperatorFile <- ContraryManifest
  Contracts = {"w", "t"}
  Reviewed <- ReviewedContract
  OperatorContracts <- OtherContract
  Platforms <- PlatformContracts
  Listings <- TwoListings
  CoinAnswers <- TwoAnswers
  MaxUniverses = 2
  MaxScans = 1
  MaxMappings = 2
  MaxOperatorApplies = 1
  MaxCatalogFaults = 1
CHECK_DEADLOCK FALSE
INVARIANT SessionsFollowRollout
INVARIANT CandlesWhole
 
PROPERTY CanaryFrozen
PROPERTY BoundaryReached
PROPERTY TasksSettle
