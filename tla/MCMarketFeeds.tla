--------------------------- MODULE MCMarketFeeds ---------------------------
(***************************************************************************)
(* Small instances of the feeds that fill the market tables: provider      *)
(* rollout with its catalog and ticker sessions, candles with their gap    *)
(* repair, the perpetuals crawler, and the identities of assets. No two    *)
(* write one row, so a behaviour is one of the part in focus while the     *)
(* others rest.                                                            *)
(***************************************************************************)
EXTENDS RestPolls, Klines, PerpFeed, AssetCatalog, TLC

VARIABLE focus

OneProvider == <<"binance">>
ScannedRange == [minute |-> 3, bar |-> 5]
TwoSparsities == {{}, {1}}

\* Bitcoin was mapped by a migration, the wrapped token has a legacy alias to
\* another asset, and the manifest prefers a legacy asset for tether.
MappedBefore == [a \in {"btc0"} |-> "bitcoin"]
PreferredAsset == [c \in {"tether"} |-> "a3"]
BoundBefore == [k \in {"WBTC", "WBTC-perp"} |-> "wbtc0"]
SymbolOf == [x \in {"bitcoin", "btc0", "BTC"} |-> "BTC"]
            @@ [x \in {"wrapped", "wbtc0", "WBTC", "WBTC-perp"} |-> "WBTC"]
            @@ [x \in {"tether", "a3", "USDT"} |-> "USDT"]
            @@ [x \in {"fiat-usd", "USD"} |-> "USD"]
ReviewedManifest == [k \in {"BTC"} |-> "bitcoin"] @@ [k \in {"USDT"} |-> "tether"]
                    @@ [k \in {"WBTC", "WBTC-perp"} |-> "wrapped"]
ContraryManifest == [k \in {"BTC"} |-> "wrapped"]
\* The reviewed contract of bitcoin is the wrapped token's for CoinGecko.
ReviewedContract == [t \in {"w"} |-> "bitcoin"]
OtherContract == [t \in {"t"} |-> "tether"]
PlatformContracts == [c \in {"wrapped"} |-> "w"] @@ [c \in {"tether"} |-> "t"]
TwoListings == {[base |-> "BTC", quote |-> "USD"], [base |-> "WBTC", quote |-> "USDT"]}
TwoAnswers == {[listed |-> Coins, ranked |-> Coins],
               [listed |-> {"bitcoin", "tether"}, ranked |-> {"bitcoin"}]}

MCInit ==
  /\ focus \in {"sessions", "catalog", "polls", "candles", "repair", "perps", "aliases", "contracts"}
  /\ SpotInit
  /\ PollInit
  /\ (focus = "catalog") = (discoveries < MaxDiscoveries)
  /\ focus # "catalog" => \A p \in Provider : resolved[p] = Assets
  /\ focus \in {"sessions", "catalog", "polls"} \/ \A p \in Provider : rollout[p] = Row("shadow")
  /\ KlineInit
  /\ clock = IF focus = "repair" THEN LastMinute - 1 ELSE 0
  /\ focus \in {"candles", "repair"} \/ sparse = {}
  /\ PerpInit
  /\ focus = "perps" \/ (aliases = {} /\ ~venueRow /\ registry = NilRegistry)
  /\ CatalogInit

Providers1 ==
  /\ focus \in {"sessions", "catalog", "polls"}
  /\ \/ /\ \/ Operate
           \/ \E p \in Provider : Catalog(p)
           \/ focus = "sessions" /\ \E p \in Provider : Session(p)
        /\ UNCHANGED poll
     \/ focus = "polls" /\ \E p \in Provider : Poll(p)

Candles1m ==
  /\ focus \in {"candles", "repair"}
  /\ \/ SyncMarket \/ FetchStorePage \/ AggregatePage \/ SyncDone \/ PassFails
     \/ focus = "candles" /\ (MinuteCloses \/ DeleteExpired)
     \/ focus = "repair" /\ (ScanKlineGaps \/ VerifyRepairTask \/ CrawlerCrashes)
     \/ focus = "repair" /\ ReconcileProviderKlineSelection
     \/ focus = "repair" /\ \E g \in DOMAIN tasks : ClaimRepairTask(g) \/ LockAges(g)

Identities ==
  \/ focus \in {"aliases", "contracts"} /\ Identify
  \/ focus = "aliases" /\ (Scan \/ BindPerps)
  \/ focus = "contracts" /\ MapContracts

MCNext ==
  \/ Providers1 /\ UNCHANGED <<klineVars, perpVars, catalogVars, focus>>
  \/ Candles1m /\ UNCHANGED <<pollVars, perpVars, catalogVars, focus>>
  \/ focus = "perps" /\ PerpNext /\ UNCHANGED <<pollVars, klineVars, catalogVars, focus>>
  \/ Identities /\ UNCHANGED <<pollVars, klineVars, perpVars, focus>>

MCSpec == /\ MCInit /\ [][MCNext]_<<pollVars, klineVars, perpVars, catalogVars, focus>>
          /\ (focus \in {"sessions", "catalog", "polls"} => SpotFairness) /\ KlineFairness

\* A ticker session publishes at most one flush after its provider's rollout
\* changed, and at most one foreign success counts towards a promotion
\* (runStreamSession, coinbaseSourceKey). REST polls promote nobody past canary
\* (fetchAndWriteBatch, refreshCoinbaseRESTFallback).
SessionsFollowRollout ==
  /\ SpotTypeOK /\ OneFlushBehind
  /\ focus = "polls" => PollsNeverPromote

\* Every derived bar is what its stored minutes say once its page has been
\* aggregated (aggregateAffectedBuckets), and a repair task is completed only
\* when every expected candle of its range is stored (VerifyRepairTask).
CandlesWhole == KlineTypeOK /\ BarsFollowMinutes /\ CompletedIsWhole

\* A market is what a review says it is. A perpetual is enabled only with the
\* rows it links to, through every partial failure of ensureRegistered; coins
\* keep their assets, only reviews bind an alias, and a reviewed contract is not
\* taken over (refreshCoinGeckoUniverse, ApplyReviewedAssetAliases,
\* refreshProviderMappedRepresentations).
MarketsIdentified ==
  /\ PerpTypeOK /\ EnabledIsLinked
  /\ CatalogTypeOK /\ CoinsKeepAssets /\ ReviewsDecide /\ ReviewedContractsStand
=============================================================================
