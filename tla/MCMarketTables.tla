--------------------------- MODULE MCMarketTables ---------------------------
(***************************************************************************)
(* Small instances of the components that keep, derive and judge market    *)
(* tables: DEX routes, the price index with its snapshot store, the ticker *)
(* rows and their cache, the warehouse, and the provider side (router,     *)
(* quality gate, research signals). No two write one row, so a behaviour   *)
(* is one of the part in focus while the others rest.                      *)
(***************************************************************************)
EXTENDS DexRoutes, SnapshotStore, MarketSnapshot, Warehouse, ProviderRouter,
        QualityGate, ResearchSignals

VARIABLE focus

SixQuotes == {[price |-> 100, turnover |-> t, reason |-> "ok"] : t \in {0, 1, 2, 7}}
               \cup {[price |-> 110, turnover |-> 1, reason |-> "ok"],
                     [price |-> 100, turnover |-> 1, reason |-> "stale"]}
TwoBoards == {[v \in Venues |-> [price |-> 100, turnover |-> 1,
                                 reason |-> IF v \in fresh THEN "ok" ELSE "stale"]] :
                fresh \in {{}, {"a", "b"}}}
ThreeTickers == {[last |-> "1", change |-> Absent, open |-> Absent],
                 [last |-> "2", change |-> Absent, open |-> "5"],
                 [last |-> "1", change |-> Malformed, open |-> Absent]}
UpstreamOrder == <<"a", "b">>
UpstreamServes == [u \in {"a", "b"} |-> IF u = "a" THEN {"spot_ticker"} ELSE {"spot_ticker", "ohlcv"}]
ShortPages == UNION {[1 .. n -> [id : {"a", "b"}, hash : {1, 2}]] : n \in 0 .. 4}

\* The weights are checked on every board; the tables start with two.
MCInit ==
  /\ focus \in {"dex", "weights", "prices", "snapshots", "tickers", "warehouse",
                "router", "quality", "research", "page"}
  /\ DexInit
  /\ focus = "dex" \/ \A a \in QuotedAssets : venue[a] = {}
  /\ IF focus = "weights" THEN \E board \in [Venues -> Quotes] : quotes = [c \in Coins |-> board]
     ELSE /\ quotes \in [Coins -> Boards]
          /\ quotes["x"]["a"].reason = "stale"
          /\ quotes["y"]["a"].reason = "ok"
  /\ PriceInit /\ StoreInit
  /\ (focus = "snapshots") = (index["x"] = 0)
  /\ SnapshotInit /\ WarehouseInit /\ RouterInit /\ QualityInit /\ ResearchInit
  /\ focus = "research" \/ publishable = {}

\* A cycle reads the routes only when it starts, so a discovery during one is a
\* discovery right after it.
Dex == focus = "dex" /\ (QuoteCycle \/ (quoting.at = "idle" /\ Discovery))

\* One coin's quotes and DEX row are enough for the tables to differ.
Prices ==
  \/ focus \in {"weights", "prices"} /\ RunOnce
  \/ focus = "prices" /\ (UpsertAssetPriceIndexes \/ UpsertAssetVenueSnapshots \/ RunFails)
  \/ focus = "prices" /\ (MetricsRefreshed \/ SelectionRefreshed)
  \/ focus = "prices" /\ DexPublishes /\ row'["dex"]["y"] = row["dex"]["y"]
  \/ focus = "prices" /\ TickersArrive /\ quotes'["y"] = quotes["y"]
  \/ focus \in {"prices", "snapshots"} /\ PricesAge

\* Bound: the second caller asks for tickers, which both upstreams serve.
SecondCaller == call'[2].key # "ohlcv"

marketVars == <<dexVars, priceVars, storeVars, snapshotVars>>
sourceVars == <<dwVars, routerVars, qualityVars, researchVars>>

MCNext ==
  \/ Dex /\ UNCHANGED <<priceVars, storeVars, snapshotVars, sourceVars, focus>>
  \/ Prices /\ UNCHANGED <<dexVars, storeVars, snapshotVars, sourceVars, focus>>
  \/ focus = "snapshots" /\ StoreNext
       /\ UNCHANGED <<dexVars, priceVars, snapshotVars, sourceVars, focus>>
  \/ focus = "tickers" /\ SnapshotNext
       /\ UNCHANGED <<dexVars, priceVars, storeVars, sourceVars, focus>>
  \/ focus = "warehouse" /\ WarehouseNext
       /\ UNCHANGED <<marketVars, routerVars, qualityVars, researchVars, focus>>
  \/ focus = "router" /\ RouterNext /\ SecondCaller
       /\ UNCHANGED <<marketVars, dwVars, qualityVars, researchVars, focus>>
  \/ focus = "quality" /\ QualityNext
       /\ UNCHANGED <<marketVars, dwVars, routerVars, researchVars, focus>>
  \/ focus = "research" /\ ResearchReads
       /\ UNCHANGED <<marketVars, dwVars, routerVars, qualityVars, focus>>
  \/ focus = "page" /\ EventsPage
       /\ UNCHANGED <<marketVars, dwVars, routerVars, qualityVars, focus>>

MCSpec == MCInit /\ [][MCNext]_<<marketVars, sourceVars, focus>>

\* A DEX snapshot that is available names a route that the same cycle quoted,
\* and a discovery whose requests fail for the moment loses no route.
RoutesHonest == focus = "dex" => DexTypeOK /\ AvailableIsQuoted /\ TransientKeepsRoutes

\* The weights of the composite price are the water-filling of the turnovers,
\* whatever order the map is ranged over in (cappedNormalizedWeights).
WeightsFilled == focus \in {"weights", "prices"} => PriceTypeOK /\ WaterFilled

\* The dashboard agrees with its overview whatever upserts, failures and ageing
\* interleave, and all instances answer one snapshot ID with one read.
SnapshotsCoherent ==
  /\ focus \in {"prices", "snapshots"} => DashboardCoherent
  /\ focus = "snapshots" => StoreTypeOK /\ OneReadPerID

\* The cache of a ticker shows nothing that its row never accepted.
TickersDerived == focus = "tickers" => SnapshotTypeOK /\ CacheAccepted

\* No committed candle is lost behind the warehouse's watermark, and a
\* reconciliation that passed compared what it claims to have compared.
WarehouseFollows ==
  focus = "warehouse" => WarehouseTypeOK /\ ReplayCovers /\ PassedIsEqual

\* Every answer of the provider router passes the consumer's own checks.
AnswersAcceptable == focus = "router" => RouterTypeOK /\ ConsumerAccepts

\* A quarantined source is healthy again only by new evidence.
HealthEarned == focus = "quality" => QualityTypeOK /\ RecoveryEarned

\* A cached research document is at most one request older than its stamp, and
\* a page of events accounts for every item it was given.
ResearchSound ==
  /\ focus = "research" => ResearchTypeOK /\ BoundedStaleness
  /\ focus = "page" => DedupAccounted

\* A ticker row never goes back to an earlier source time, and a rate-limit
\* window is never shortened.
NothingGoesBack == SnapshotForward /\ WindowsNeverShrink
=============================================================================
