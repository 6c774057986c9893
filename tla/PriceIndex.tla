----------------------------- MODULE PriceIndex -----------------------------
(***************************************************************************)
(* The composite price index (marketdata/composite.go), the rows it keeps  *)
(* (asset_price_index, asset_venue_snapshot), and what the dashboard and   *)
(* the price ticks read from them (database/market_aggregation.go).        *)
(*                                                                         *)
(* Prices are integers, a weight is a fraction <<num, den>> of one         *)
(* hundred, and a timestamp is its age class: 0 at most 30 s, 1 at most    *)
(* 60 s, 2 at most 5 min, 3 older or never.                                *)
(***************************************************************************)
EXTENDS Integers, FiniteSets, Sequences, TLC, Functions, FiniteSetsExt

CONSTANTS Venues,      \* the spot providers
          TabVenue,    \* the provider whose own tab is modelled
          Coins,       \* assets
          Quotes,      \* possible rows of symbol_market
          Boards,      \* the rows of a coin, venue -> quote, that tickers write
          MaxCycles    \* runs of the indexer

ASSUME PriceAssumption == IsFiniteSet(Venues) /\ IsFiniteSet(Coins)

VARIABLES quotes,      \* coin -> venue -> [price, turnover, reason]
          job,         \* the indexer's run in progress
          composite,   \* the last composite computed for each coin
          index,       \* asset_price_index: coin -> age of its last good price
          row,         \* asset_venue_snapshot: tab -> coin -> [age, contributors]
          reference,   \* coins with a CoinGecko price younger than 15 min
          picked,      \* union of the providers' active selections
          ranked,      \* coins with market_cap_rank BETWEEN 1 AND 200
          runs

priceVars == <<quotes, job, composite, index, row, reference, picked, ranked, runs>>

Cap == 40
Never == 3
Tabs == {"all", TabVenue, "dex"}

Total(f, S) == MapThenSumSet(LAMBDA v : f[v], S)
AtMost(x, y) == x[1] * y[2] <= y[1] * x[2]
-----------------------------------------------------------------------------
(* BuildComposite *)

\* The first pass excludes with a reason: not_spot, non_positive_price, stale,
\* future_observation, missing_quote_rate.
Usable(q) == {v \in Venues : q[v].reason = "ok"}

\* Twice decimalMedian.
Median2(q, S) ==
  LET venues == CHOOSE s \in Injection(1 .. Cardinality(S), S) : TRUE
      prices == SortSeq([i \in DOMAIN venues |-> q[venues[i]].price], <)
      mid == Len(prices) \div 2
  IN IF Len(prices) % 2 = 1 THEN 2 * prices[mid + 1] ELSE prices[mid] + prices[mid + 1]

Abs(n) == IF n < 0 THEN -n ELSE n

\* The second pass drops what lies more than 3 % from the median.
Contributing(q) ==
  LET S == Usable(q) IN
  {v \in S : 100 * Abs(2 * q[v].price - Median2(q, S)) <= 3 * Median2(q, S)}

RawWeight(q, S) ==
  [v \in S |-> IF \E w \in S : q[w].turnover > 0 THEN q[v].turnover ELSE 1]

\* One pass over `active`, in one of the orders in which a Go map is ranged
\* over: activeTotal is fixed before the pass, remaining shrinks during it.
FillPass(raw, f, order) ==
  LET total == Total(raw, f.active) IN
  MapThenFoldSet(LAMBDA v, g : IF g.remaining * raw[v] > Cap * total
                               THEN [active |-> g.active \ {v},
                                     remaining |-> g.remaining - Cap,
                                     capped |-> g.capped \cup {v}]
                               ELSE g,
                 f, LAMBDA i : order[i], Max, DOMAIN order)

\* One round of the loop, over any order of the map.
FillRound(raw, f) ==
  IF Total(raw, f.active) = 0 THEN {f}
  ELSE {FillPass(raw, f, order) : order \in Injection(1 .. Cardinality(f.active), f.active)}

\* A round that caps no venue is the last, so there are no more rounds than venues.
Fills(raw, f) ==
  LET rounds == Cardinality(DOMAIN raw)
      after[n \in 0 .. rounds] ==
        IF n = 0 THEN {f} ELSE UNION {FillRound(raw, g) : g \in after[n - 1]}
      share(g, v) ==
        LET total == Total(raw, g.active)
        IN IF total = 0 THEN <<g.remaining, Cardinality(g.active)>>
           ELSE <<g.remaining * raw[v], total>>
  IN {[v \in DOMAIN raw |-> IF v \in g.capped THEN <<Cap, 1>> ELSE share(g, v)] :
        g \in after[rounds]}

\* min(raw, cap) and renormalise.
MutantRenormalise(raw) ==
  LET total == Total(raw, DOMAIN raw)
      cut == [v \in DOMAIN raw |-> IF 100 * raw[v] > Cap * total THEN Cap * total
                                   ELSE 100 * raw[v]]
  IN {[v \in DOMAIN raw |-> <<100 * cut[v], Total(cut, DOMAIN raw)>>]}

cappedNormalizedWeights(raw) ==
  IF Cardinality(DOMAIN raw) <= 2
  THEN {[v \in DOMAIN raw |-> <<100 * raw[v], Total(raw, DOMAIN raw)>>]}
  ELSE Fills(raw, [active |-> DOMAIN raw, remaining |-> 100, capped |-> {}])

\* The composites of one asset: its contributors and their weights.
BuildComposite(q) ==
  LET S == Contributing(q) IN
  {[raw |-> RawWeight(q, S), weight |-> w] : w \in cappedNormalizedWeights(RawWeight(q, S))}

NoComposite == [raw |-> <<>>, weight |-> <<>>]
Contributors(c) == Cardinality(DOMAIN c.weight)
-----------------------------------------------------------------------------
(* The indexer, every five seconds; the tables outlive it *)

NoJob == [at |-> "idle"]

PriceInit ==
  /\ quotes \in [Coins -> [Venues -> Quotes]]
  /\ job = NoJob
  /\ composite = [c \in Coins |-> NoComposite]
  /\ \E priced \in BOOLEAN :
       /\ index = [c \in Coins |-> IF priced THEN 0 ELSE Never]
       /\ row = [t \in Tabs |-> [c \in Coins |-> IF priced THEN [age |-> 0, contributors |-> 1]
                                                ELSE [age |-> Never, contributors |-> 0]]]
  /\ reference = {}
  /\ picked = Coins
  /\ ranked = Coins
  /\ runs = 0

\* A provider's own tab prices the coin from that provider's candidates alone.
OwnQuotes(q) ==
  [v \in Venues |-> IF v = TabVenue THEN q[v] ELSE [q[v] EXCEPT !.reason = "other"]]

\* RunOnce reads the rates and the candidates of the selected assets and computes.
RunOnce ==
  /\ job = NoJob
  /\ runs < MaxCycles
  /\ runs' = runs + 1
  /\ \E all \in [Coins -> UNION {BuildComposite(quotes[c]) : c \in Coins}] :
       /\ \A c \in Coins : all[c] \in BuildComposite(quotes[c])
       /\ composite' = all
       /\ job' = [at |-> "indexes", age |-> 0,
                  found |-> [t \in {"all", TabVenue} |->
                    [c \in Coins |->
                       IF t = "all" THEN Contributors(all[c])
                       ELSE Cardinality(Contributing(OwnQuotes(quotes[c])))]]]
  /\ UNCHANGED <<quotes, index, row, reference, picked, ranked>>

\* Unavailable results keep the last good price and its observed_at.
UpsertAssetPriceIndexes ==
  /\ job.at = "indexes"
  /\ index' = [c \in Coins |-> IF job.found["all"][c] > 0 THEN job.age ELSE index[c]]
  /\ job' = [job EXCEPT !.at = "snapshots"]
  /\ UNCHANGED <<quotes, composite, row, reference, picked, ranked, runs>>

MutantOverwriteCount(old, n, age) ==
  [age |-> IF n > 0 THEN age ELSE old.age, contributors |-> n]

Upserted(old, n, age) == IF n > 0 THEN [age |-> age, contributors |-> n] ELSE old

UpsertAssetVenueSnapshots ==
  /\ job.at = "snapshots"
  /\ row' = [t \in Tabs |-> IF t = "dex" THEN row[t]
                            ELSE [c \in Coins |-> Upserted(row[t][c], job.found[t][c], job.age)]]
  /\ job' = NoJob
  /\ UNCHANGED <<quotes, composite, index, reference, picked, ranked, runs>>

\* Either write may fail; the next run starts over.
RunFails ==
  /\ job # NoJob
  /\ job' = NoJob
  /\ UNCHANGED <<quotes, composite, index, row, reference, picked, ranked, runs>>

\* The tickers of one coin change, or go stale.
TickersArrive ==
  /\ \E c \in Coins, q \in Boards : quotes' = [quotes EXCEPT ![c] = q]
  /\ UNCHANGED <<job, composite, index, row, reference, picked, ranked, runs>>

\* A DEX publisher writes a route price (module DexRoutes).
DexPublishes ==
  /\ \E c \in Coins : row' = [row EXCEPT !["dex"][c] = [age |-> 0, contributors |-> 1]]
  /\ UNCHANGED <<quotes, job, composite, index, reference, picked, ranked, runs>>

\* refreshCoinGeckoUniverse rewrites reference prices and ranks.
MetricsRefreshed ==
  /\ \E R \in SUBSET Coins : reference' = R
  /\ \E R \in SUBSET Coins : ranked' = R
  /\ UNCHANGED <<quotes, job, composite, index, row, picked, runs>>

\* A provider's selection follows the ranks.
SelectionRefreshed ==
  /\ picked' = ranked
  /\ UNCHANGED <<quotes, job, composite, index, row, reference, ranked, runs>>

Older(age) == IF age = Never THEN Never ELSE age + 1

PricesAge ==
  /\ index' = [c \in Coins |-> Older(index[c])]
  /\ row' = [t \in Tabs |-> [c \in Coins |-> [row[t][c] EXCEPT !.age = Older(@)]]]
  /\ job' = IF job = NoJob THEN job ELSE [job EXCEPT !.age = Older(@)]
  /\ UNCHANGED <<quotes, composite, reference, picked, ranked, runs>>

PriceNext ==
  \/ RunOnce \/ UpsertAssetPriceIndexes \/ UpsertAssetVenueSnapshots \/ RunFails
  \/ TickersArrive \/ DexPublishes \/ MetricsRefreshed \/ SelectionRefreshed \/ PricesAge
-----------------------------------------------------------------------------
(* The readers *)

\* QueryAssetIndexDashboard, freshness_status.
FreshnessStatus(t, c) ==
  CASE row[t][c].age = 0 -> "fresh"
    [] row[t][c].age <= (IF t = "dex" THEN 1 ELSE 2) /\ row[t][c].age > 0 -> "stale"
    [] OTHER -> "unavailable"

\* dashboardDisplay: a DEX tab falls back to the composite, then to CoinGecko.
Display(t, c) ==
  CASE t # "dex" -> IF FreshnessStatus(t, c) = "unavailable" THEN "none" ELSE "venue"
    [] index[c] = 0 -> "composite"
    [] c \in reference -> "reference"
    [] OTHER -> "none"

\* CoverageStatus of a dashboard row; a coin without a usable quote has no market.
CoverageStatus(t, c) ==
  CASE t = "dex" /\ Display(t, c) # "none" /\ FreshnessStatus(t, c) = "unavailable"
         -> "reference_only"
    [] FreshnessStatus(t, c) = "fresh" -> "covered"
    [] FreshnessStatus(t, c) = "stale" -> "stale"
    [] \E v \in Venues : quotes[c][v].reason # "none" -> "source_unavailable"
    [] OTHER -> "not_covered"

\* The rows of a tab: the selected coins that are ranked.
DashboardRows(t) ==
  [c \in picked \cap ranked |->
     [status |-> FreshnessStatus(t, c), coverage |-> CoverageStatus(t, c)]]

\* QueryAssetIndexSummary counts over the whole selection.
Priced(t, c) ==
  IF t = "dex" THEN FreshnessStatus(t, c) # "unavailable" \/ Display(t, c) # "none"
  ELSE FreshnessStatus(t, c) # "unavailable"

Summary(t) ==
  [assets   |-> Cardinality(picked),
   priced   |-> Cardinality({c \in picked : Priced(t, c)}),
   single   |-> Cardinality({c \in picked : Priced(t, c) /\ row[t][c].contributors = 1}),
   multiple |-> Cardinality({c \in picked : Priced(t, c) /\ row[t][c].contributors >= 2})]

\* QueryMarketReadSnapshot in one repeatable-read transaction, with the checks
\* it and the snapshot store make.
ReadSnapshot(t) == [rows |-> DashboardRows(t), summary |-> Summary(t)]

ReadAccepted(t, read) ==
  LET shown == {c \in DOMAIN read.rows : read.rows[c].status # "unavailable"} IN
  /\ DOMAIN read.rows # {}
  /\ read.summary.assets = Cardinality(DOMAIN read.rows)
  /\ t = "all" => /\ read.summary.priced = Cardinality(shown)
                  /\ read.summary.single + read.summary.multiple = Cardinality(shown)

\* QueryMarketPriceTicks and tickPriceFact: the availability of a tick.
TickAvailable(t, c) ==
  CASE t = "all" -> index[c] = 0
    [] t = "dex" -> row[t][c].age <= 1
    [] OTHER -> row[t][c].age = 0
-----------------------------------------------------------------------------
PriceTypeOK ==
  /\ index \in [Coins -> 0 .. Never]
  /\ row \in [Tabs -> [Coins -> [age : 0 .. Never, contributors : 0 .. Cardinality(Venues)]]]
  /\ picked \subseteq Coins /\ ranked \subseteq Coins /\ reference \subseteq Coins
  /\ job = NoJob \/ job.at \in {"indexes", "snapshots"}
  /\ runs \in 0 .. MaxCycles

(* cappedNormalizedWeights, whatever order the map is ranged over in, gives    *)
(* the water-filling of its comment: the weights of the venues make one        *)
(* hundred percent; from three venues on none is above 40 %; those below the   *)
(* cap keep their proportions, and a venue with more turnover never weighs     *)
(* less.                                                                       *)
WaterFilled ==
  \A c \in Coins :
    LET raw == composite[c].raw
        w == composite[c].weight
        V == DOMAIN w
        den == Max({w[v][2] : v \in V})
    IN V # {} =>
         /\ Total([v \in V |-> w[v][1] * (den \div w[v][2])], V) = 100 * den
         /\ Cardinality(V) >= 3 => \A v \in V : AtMost(w[v], <<Cap, 1>>)
         /\ \A u, v \in V :
              /\ raw[u] >= raw[v] => AtMost(w[v], w[u])
              /\ w[u] # <<Cap, 1>> /\ w[v] # <<Cap, 1>> /\ Total(raw, V) > 0
                   /\ raw[u] > 0 /\ raw[v] > 0
                   => raw[u] * w[v][1] * w[u][2] = raw[v] * w[u][1] * w[v][2]

(* While every selected asset is ranked, a snapshot of any tab passes the      *)
(* overview and row checks of QueryMarketReadSnapshot and the snapshot store,  *)
(* however the two upserts of a run, their failures and the ageing of the      *)
(* prices interleave; and a tick is offered only for a row that the tab of a   *)
(* provider still shows.                                                       *)
DashboardCoherent ==
  /\ picked # {} /\ picked \subseteq ranked
       => \A t \in Tabs : ReadAccepted(t, ReadSnapshot(t))
  /\ \A t \in Tabs \ {"all"}, c \in Coins :
       TickAvailable(t, c) => FreshnessStatus(t, c) # "unavailable"
=============================================================================
