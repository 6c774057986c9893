----------------------------- MODULE DexRoutes -----------------------------
(***************************************************************************)
(* The AMM adapter (crawler/amm_dex.go): the discovery loop that builds    *)
(* the routes from reviewed tokens and verified pools, and the quote loop  *)
(* that prices them, stores them and publishes one venue snapshot per      *)
(* asset.  The loops run in two goroutines over the adapter's routes, and  *)
(* every store of a quote cycle is a transaction of its own that may fail. *)
(*                                                                         *)
(* A pool is the set of its two tokens and a route the set of its pools:   *)
(* asset to stable, or asset to bridge to stable.                          *)
(***************************************************************************)
EXTENDS Naturals, Sequences, FiniteSets

CONSTANTS
  Stable, Bridge, Tokens,  \* tokens of the chain; Stable and Bridge are two
  MaxRefreshes,            \* bound: discoveries
  MaxQuoteCycles,          \* bound: quote cycles
  MaxStoreFaults           \* bound: stores that fail

ASSUME DexAssumption == Stable \in Tokens /\ Bridge \in Tokens \ {Stable}

Pools == {p \in SUBSET Tokens : Cardinality(p) = 2}
QuotedAssets == Tokens \ {Stable}
DexRoute(a) == {{{a, Stable}}}
               \cup IF a = Bridge THEN {} ELSE {{{a, Bridge}, {Bridge, Stable}}}
RouteTokens(r) == UNION r

VARIABLES
  routes,    \* the adapter's routes
  lost,      \* for the properties: routes a discovery dropped for no lasting cause
  quoting,   \* the quote cycle under way
  dexRows,   \* dex_route_current: route -> what was stored for it
  venue,     \* asset -> the route its available snapshot names, or {}
  exposed,   \* assets the rollout publishes
  refreshes, cycles, storeFaults

dexVars == <<routes, lost, quoting, dexRows, venue, exposed, refreshes, cycles,
             storeFaults>>

AllRoutes == UNION {DexRoute(a) : a \in QuotedAssets}
NoCycle == [at |-> "idle", done |-> FALSE]

\* The rows and the snapshots may be those of an earlier process.
DexInit ==
  /\ routes = {}
  /\ lost = {}
  /\ quoting = NoCycle
  /\ venue \in [QuotedAssets -> {{}} \cup AllRoutes]
  /\ \A a \in QuotedAssets : venue[a] \in {{}} \cup DexRoute(a)
  /\ dexRows = [r \in AllRoutes |->
       IF \E a \in QuotedAssets : venue[a] = r THEN "ok" ELSE "none"]
  /\ exposed = QuotedAssets
  /\ refreshes = 0 /\ cycles = 0 /\ storeFaults = 0

(***************************************************************************)
(* Discovery.  A token whose decimals differ from the reviewed ones is     *)
(* skipped; one that could not be read is kept.  A failed pool query, or a *)
(* pool that could not be verified, defers its tokens: their routes stay.  *)
(* Pools are also missing because they are not listed, are rejected, hold  *)
(* too little, or (public discovery) their fee could not be read.          *)
(***************************************************************************)
buildAMMRoutes(verified, pools) ==
  {r \in AllRoutes : r \subseteq pools /\ RouteTokens(r) \subseteq verified}

MutantForgetDeferred(current, previous, deferred) == current

mergeDeferredAMMRoutes(current, previous, deferred) ==
  current \cup {r \in previous : RouteTokens(r) \cap deferred # {}}

verifyRepresentation(mismatched) == Tokens \ mismatched

\* The listed pools with a readable identity, fee and price.
normalizedPools(missing) == Pools \ missing

discoverPoolsForToken(t, missing) == {p \in normalizedPools(missing) : t \in p}

\* The factory knows the pool; a call that fails leaves it unverified.
verifyPool(pools, unverified) == pools \ unverified

\* mismatched: tokens with another identity; failed: tokens whose pool query
\* failed; missing: pools not offered for quoting; unverified: pools whose
\* verification failed for the moment.
DiscoverRoutes(mismatched, failed, missing, unverified) ==
  LET verified == verifyRepresentation(mismatched)
      found == UNION {discoverPoolsForToken(t, missing) : t \in (verified \ {Stable}) \ failed}
      deferred == failed \cup UNION (found \cap unverified)
      resolved == {p \in verifyPool(found, unverified) : p \subseteq verified}
  IN /\ refreshes < MaxRefreshes
     /\ refreshes' = refreshes + 1
     /\ IF Stable \in mismatched \/ (found = {} /\ failed # {})
        THEN UNCHANGED <<routes, lost>>   \* the discovery fails
        ELSE /\ routes' = mergeDeferredAMMRoutes(buildAMMRoutes(verified, resolved),
                                                 routes, deferred)
             /\ lost' = {r \in routes \ routes' : r \cap missing = {}
                                               /\ RouteTokens(r) \cap mismatched = {}}
     /\ UNCHANGED <<quoting, dexRows, venue, exposed, cycles, storeFaults>>

(***************************************************************************)
(* A quote.  The notionals are tried from the largest; a smaller one only  *)
(* after a failure that it could cure.                                     *)
(***************************************************************************)
Ladder == <<10000, 1000, 100>>
QuoteOutcome == {"ok", "buy_quote_failed", "price_impact_gt_1pct",
                 "non_positive_asset_quote"}
retryableDexQuoteFailure(o) == o \in {"buy_quote_failed", "price_impact_gt_1pct"}

Settled(o) == o = "ok" \/ ~ retryableDexQuoteFailure(o)
LadderOutcome(outcomes) ==
  IF \E i \in DOMAIN Ladder : Settled(outcomes[i])
  THEN outcomes[CHOOSE i \in DOMAIN Ladder :
         Settled(outcomes[i]) /\ \A j \in 1..(i - 1) : ~ Settled(outcomes[j])]
  ELSE outcomes[Len(Ladder)]

\* Which routes a cycle can find available: any, since every route's
\* outcomes are its own.
QuotedOK == {LadderOutcome(o) = "ok" : o \in [DOMAIN Ladder -> QuoteOutcome]}

(***************************************************************************)
(* The quote cycle: quote, store the rows, mark the others, (selection and *)
(* history), publish.                                                      *)
(***************************************************************************)
StartCycle ==
  /\ quoting.at = "idle"
  /\ routes # {} /\ cycles < MaxQuoteCycles
  /\ \E good \in [routes -> QuotedOK] :
       quoting' = [at |-> "rows", rows |-> good, done |-> FALSE]
  /\ cycles' = cycles + 1
  /\ UNCHANGED <<routes, lost, dexRows, venue, exposed, refreshes, storeFaults>>

UpsertDexRoutes ==
  /\ quoting.at = "rows"
  /\ dexRows' = [r \in AllRoutes |->
       IF r \in DOMAIN quoting.rows THEN IF quoting.rows[r] THEN "ok" ELSE "bad"
       ELSE dexRows[r]]
  /\ quoting' = [quoting EXCEPT !.at = "mark"]
  /\ UNCHANGED <<routes, lost, venue, exposed, refreshes, cycles, storeFaults>>

MarkUnselectedDexRoutesUnavailable ==
  /\ quoting.at = "mark"
  /\ dexRows' = [r \in AllRoutes |->
       IF r \in DOMAIN quoting.rows \/ dexRows[r] = "none" THEN dexRows[r]
       ELSE "route_not_selected"]
  /\ quoting' = [quoting EXCEPT !.at = "publish"]
  /\ UNCHANGED <<routes, lost, venue, exposed, refreshes, cycles, storeFaults>>

\* betterDexRoute: an available route before one that is not; between two of
\* a kind by quality and liquidity, which may favour either.
BestRoutes(a) ==
  LET mine == {r \in DOMAIN quoting.rows : r \in DexRoute(a)}
      good == {r \in mine : quoting.rows[r]}
  IN IF good # {} THEN good ELSE {{}}

MutantKeepAvailable(v) ==
  [a \in QuotedAssets |-> IF v[a] = {} THEN venue[a] ELSE v[a]]

\* ReplaceDexVenueSnapshots is authoritative for the whole provider, except
\* that an empty batch writes nothing.
ReplaceDexVenueSnapshots(v) == v

PublishVenueSnapshots ==
  /\ quoting.at = "publish"
  /\ \E v \in [QuotedAssets -> {{}} \cup AllRoutes] :
       /\ \A a \in QuotedAssets :
            v[a] \in IF a \in exposed THEN BestRoutes(a) ELSE {{}}
       /\ venue' = IF exposed = {} THEN venue ELSE ReplaceDexVenueSnapshots(v)
  /\ quoting' = [at |-> "idle", done |-> exposed # {}]
  /\ UNCHANGED <<routes, lost, dexRows, exposed, refreshes, cycles, storeFaults>>

\* A store fails: the cycle reports a failure and ends.
CycleFails ==
  /\ quoting.at # "idle"
  /\ storeFaults < MaxStoreFaults
  /\ storeFaults' = storeFaults + 1
  /\ quoting' = NoCycle
  /\ UNCHANGED <<routes, lost, dexRows, venue, exposed, refreshes, cycles>>

\* The rollout or its selection changes what is published.
ExposureChanges ==
  /\ quoting.at # "idle"
  /\ exposed' \in SUBSET QuotedAssets
  /\ UNCHANGED <<routes, lost, quoting, dexRows, venue, refreshes, cycles, storeFaults>>

Discovery ==
  \E mismatched \in SUBSET Tokens, failed \in SUBSET (Tokens \ {Stable}) :
    \E missing \in SUBSET Pools : \E unverified \in SUBSET (Pools \ missing) :
      /\ Cardinality(mismatched) <= 1
      /\ DiscoverRoutes(mismatched, failed, missing, unverified)

QuoteCycle ==
  \/ StartCycle \/ UpsertDexRoutes
  \/ MarkUnselectedDexRoutesUnavailable \/ PublishVenueSnapshots
  \/ CycleFails \/ ExposureChanges

DexNext == Discovery \/ QuoteCycle

(***************************************************************************)
(* Properties.                                                             *)
(***************************************************************************)
\* The types of the routes, the stored rows and the snapshots.
DexTypeOK ==
  /\ routes \subseteq AllRoutes
  /\ dexRows \in [AllRoutes -> {"none", "ok", "bad", "route_not_selected"}]
  /\ venue \in [QuotedAssets -> {{}} \cup AllRoutes]
  /\ quoting.at \in {"idle", "rows", "mark", "publish"}

\* After a cycle that published, an asset's available snapshot names a route
\* of that asset that the same cycle stored as available: none is left over
\* from a route that discovery has since replaced or that no longer quotes
\* (the reason ReplaceDexVenueSnapshots does not keep the last good value).
AvailableIsQuoted ==
  quoting.done =>
    \A a \in QuotedAssets :
      venue[a] # {} => venue[a] \in DexRoute(a) /\ dexRows[venue[a]] = "ok"

\* A discovery in which requests fail for the moment drops no route on that
\* account: a route goes only when one of its pools was not offered or one of
\* its tokens has another identity (discover: a timeout "must degrade this
\* refresh, not erase the token and every route that depends on it").
TransientKeepsRoutes == lost = {}
=============================================================================
