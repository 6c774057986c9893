---------------------------- MODULE AssetCatalog ----------------------------
(***************************************************************************)
(* Who an asset is.  The catalog supervisor keeps the CoinGecko universe   *)
(* and applies the reviewed manifest (catalog/manifest.go), an operator    *)
(* applies manifests of their own, a provider's catalog refresh resolves   *)
(* its markets through the approved aliases, the AMM adapter adds the      *)
(* token contracts that CoinGecko names, and the perpetuals crawler binds  *)
(* its symbols.  Every store is a transaction of its own; nothing spans    *)
(* what one of them read and what it writes.                               *)
(***************************************************************************)
EXTENDS Naturals, FiniteSets, Functions

CONSTANTS
  Coins,            \* CoinGecko ids; the asset made for coin c is c itself
  LegacyAssets,     \* assets that were there before the catalog
  LegacyCoins,      \* legacy asset -> its coin, where a migration mapped it
  Preferred,        \* coin -> the legacy asset the manifest prefers for it
  Symbol,           \* asset -> its ticker symbol
  AliasKeys,        \* the providers' names for assets
  PerpKeys,         \* those of the perpetuals venue
  LegacyAliases,    \* alias -> asset, approved by the migration
  Embedded,         \* the manifest of the program: alias -> coin
  FiatAliases,      \* names of the fiat quote asset in the embedded manifest
  OperatorFile,     \* a manifest of an operator's: alias -> coin
  Contracts,        \* token contracts
  Reviewed,         \* contract -> coin, in the embedded manifest
  OperatorContracts,\* contract -> coin, in the operator's
  Platforms,        \* coin -> its contract according to CoinGecko
  Listings,         \* the provider's markets: [base, quote] alias pairs
  CoinAnswers,          \* CoinGecko's answers: the coins listed, those with a rank
  MaxUniverses, MaxScans, MaxMappings, MaxOperatorApplies,  \* bounds
  MaxCatalogFaults  \* bound: stores that fail

NoAsset == "no asset"
Fiat == "fiat-usd"
AssetIds == Coins \cup LegacyAssets \cup {Fiat}
NoAlias == [asset |-> NoAsset, status |-> "none", by |-> "nobody"]
NoToken == [asset |-> NoAsset, kind |-> "none"]
NotSeen == [status |-> "none", base |-> NoAsset]
Resting == [at |-> "idle"]

VARIABLES
  assetRows,   \* asset
  coinOf,      \* asset_external_mapping of CoinGecko: asset -> coin
  topAssets,   \* asset_metric_current: assets with a rank within the limit
  aliasRow,    \* asset_alias
  aliasOf,     \* asset_external_mapping of the provider: asset -> alias
  market,      \* provider_market_candidate
  token,       \* asset_representation
  perpBase,    \* base asset of each perpetual's symbol row
  universe,    \* the supervisor's refresh and manifest, in progress
  applying,    \* the operator's apply, in progress
  scan,        \* the provider's catalog refresh, in progress
  mappingRun,  \* the AMM adapter's representation refresh, in progress
  perpRun,     \* the perpetuals crawler between its audit and its insert
  everApproved,\* for the properties: alias -> assets a review bound it to
  settled,     \* for the properties: the manifest was applied between mapping runs
  catalogRuns, \* how often each has run
  catalogFaults

catalogVars == <<assetRows, coinOf, topAssets, aliasRow, aliasOf, market, token,
                 perpBase, universe, applying, scan, mappingRun, perpRun,
                 everApproved, settled, catalogRuns, catalogFaults>>

CatalogInit ==
  /\ assetRows = LegacyAssets
  /\ coinOf = [a \in AssetIds |-> IF a \in DOMAIN LegacyCoins THEN LegacyCoins[a] ELSE NoAsset]
  /\ topAssets = {}
  /\ aliasRow = [k \in AliasKeys |->
       IF k \in DOMAIN LegacyAliases
       THEN [asset |-> LegacyAliases[k], status |-> "approved", by |-> "migration"]
       ELSE NoAlias]
  /\ aliasOf = [a \in AssetIds |-> NoAsset]
  /\ market = [m \in Listings |-> NotSeen]
  /\ token = [c \in Contracts |-> NoToken]
  /\ perpBase = [k \in PerpKeys |-> NoAsset]
  /\ universe = Resting /\ applying = Resting /\ scan = Resting
  /\ mappingRun = Resting /\ perpRun = Resting
  /\ everApproved = [k \in AliasKeys |-> {}]
  /\ settled = FALSE
  /\ catalogRuns = [universe |-> 0, operator |-> 0, scan |-> 0, mapping |-> 0]
  /\ catalogFaults = 0

Started(run, limit) ==
  /\ catalogRuns[run] < limit
  /\ catalogRuns' = [catalogRuns EXCEPT ![run] = @ + 1]

CatalogFault ==
  /\ catalogFaults < MaxCatalogFaults
  /\ catalogFaults' = catalogFaults + 1

(***************************************************************************)
(* The universe: asset, mapping and metric rows of the coins listed.       *)
(***************************************************************************)
MutantAssetFor(c) == c

\* The manifest's canonical asset, if it exists; the mapped one; a new one
\* whose identity is derived from the coin.
AssetFor(c) ==
  CASE c \in DOMAIN Preferred /\ Preferred[c] \in assetRows -> Preferred[c]
    [] \E a \in AssetIds : coinOf[a] = c -> CHOOSE a \in AssetIds : coinOf[a] = c
    [] OTHER -> c

\* Without an answer of CoinGecko the supervisor goes on to the manifest.
FetchUniverse(listed, ranked) ==
  /\ universe = Resting
  /\ Started("universe", MaxUniverses)
  /\ \/ /\ assetRows' = assetRows \cup {AssetFor(c) : c \in listed}
        /\ universe' = [at |-> "mappings",
                        rows |-> [c \in listed |-> AssetFor(c)], ranked |-> ranked]
        /\ UNCHANGED catalogFaults
     \/ CatalogFault /\ universe' = [at |-> "aliases"] /\ UNCHANGED assetRows
  /\ UNCHANGED <<coinOf, topAssets, aliasRow, aliasOf, market, token, perpBase,
                 applying, scan, mappingRun, perpRun, everApproved, settled>>

\* One asset per coin and one coin per asset, or the statement fails.
UpsertCoinMappings ==
  LET new == [a \in AssetIds |->
                IF \E c \in DOMAIN universe.rows : universe.rows[c] = a
                THEN CHOOSE c \in DOMAIN universe.rows : universe.rows[c] = a
                ELSE coinOf[a]]
      unique == \A a, b \in AssetIds : new[a] = new[b] => a = b \/ new[a] = NoAsset
  IN /\ universe.at = "mappings"
     /\ \/ /\ unique
           /\ coinOf' = new
           /\ universe' = [universe EXCEPT !.at = "metrics"]
           /\ UNCHANGED catalogFaults
        \/ ~unique /\ universe' = [at |-> "aliases"] /\ UNCHANGED <<coinOf, catalogFaults>>
        \/ CatalogFault /\ universe' = [at |-> "aliases"] /\ UNCHANGED coinOf
     /\ UNCHANGED <<assetRows, topAssets, aliasRow, aliasOf, market, token, perpBase,
                    applying, scan, mappingRun, perpRun, everApproved, settled, catalogRuns>>

\* A coin that is no longer listed keeps the rank it had.
UpsertAssetMetrics ==
  /\ universe.at = "metrics"
  /\ \/ /\ topAssets' = (topAssets \ Range(universe.rows))
                         \cup {universe.rows[c] : c \in universe.ranked}
        /\ UNCHANGED catalogFaults
     \/ CatalogFault /\ UNCHANGED topAssets
  /\ universe' = [at |-> "aliases"]
  /\ UNCHANGED <<assetRows, coinOf, aliasRow, aliasOf, market, token, perpBase,
                 applying, scan, mappingRun, perpRun, everApproved, settled, catalogRuns>>

(***************************************************************************)
(* A manifest: the aliases in one transaction, the contracts in another.   *)
(* Coins without an asset are reported and skipped.                        *)
(***************************************************************************)
Mapped(coin) == \E a \in AssetIds : coinOf[a] = coin
MappedAsset(coin) == CHOOSE a \in AssetIds : coinOf[a] = coin

\* The fiat asset is created unless an asset has its symbol; two such assets
\* are an error.
FiatCandidates == {a \in assetRows : Symbol[a] = Symbol[Fiat]}
FiatAsset == IF FiatCandidates = {} THEN Fiat ELSE CHOOSE a \in FiatCandidates : TRUE

\* The reviewed aliases of a manifest: alias -> asset.
ReviewedAliases(manifest, fiat) ==
  [k \in {x \in DOMAIN manifest : Mapped(manifest[x])} \cup fiat |->
     IF k \in fiat THEN FiatAsset ELSE MappedAsset(manifest[k])]

MutantConflicts(k, asset, source) == FALSE

\* An approved alias moves only from the migration's hand or its own source's.
Conflicts(k, asset, source) ==
  /\ aliasRow[k].status = "approved"
  /\ aliasRow[k].asset # asset
  /\ aliasRow[k].by \notin {"migration", source}

Refused(items, source) == \E k \in DOMAIN items : Conflicts(k, items[k], source)

\* All the aliases or none; a perpetual's symbol row follows its alias.
ApplyReviewedAssetAliases(items, source) ==
  IF Refused(items, source)
  THEN UNCHANGED <<aliasRow, perpBase, everApproved>>
  ELSE /\ aliasRow' = [k \in AliasKeys |->
            IF k \in DOMAIN items
            THEN [asset |-> items[k], status |-> "approved", by |-> source]
            ELSE aliasRow[k]]
       /\ perpBase' = [k \in PerpKeys |->
            IF k \in DOMAIN items /\ perpBase[k] # NoAsset THEN items[k] ELSE perpBase[k]]
       /\ everApproved' = [k \in AliasKeys |->
            everApproved[k] \cup IF k \in DOMAIN items THEN {items[k]} ELSE {}]

UpsertContracts(contracts) ==
  token' = [c \in Contracts |->
    IF c \in DOMAIN contracts /\ Mapped(contracts[c])
    THEN [asset |-> MappedAsset(contracts[c]), kind |-> "reviewed"]
    ELSE token[c]]

ApplyEmbedded ==
  LET items == ReviewedAliases(Embedded, FiatAliases)
      failed == universe' = Resting /\ UNCHANGED <<aliasRow, perpBase, everApproved>>
  IN /\ universe.at = "aliases"
     /\ \/ /\ Cardinality(FiatCandidates) <= 1
           /\ assetRows' = assetRows \cup IF FiatCandidates = {} THEN {Fiat} ELSE {}
           /\ ApplyReviewedAssetAliases(items, "embedded")
           /\ universe' = IF Refused(items, "embedded") THEN Resting ELSE [at |-> "contracts"]
           /\ UNCHANGED catalogFaults
        \/ /\ IF Cardinality(FiatCandidates) > 1 THEN UNCHANGED catalogFaults ELSE CatalogFault
           /\ failed /\ UNCHANGED assetRows
     /\ UNCHANGED <<coinOf, topAssets, aliasOf, market, token, applying, scan,
                    mappingRun, perpRun, settled, catalogRuns>>

ApplyEmbeddedContracts ==
  /\ universe.at = "contracts"
  /\ \/ /\ UpsertContracts(Reviewed)
        /\ settled' = (settled \/ (mappingRun = Resting
                                   /\ \A c \in DOMAIN Reviewed : Mapped(Reviewed[c])))
        /\ UNCHANGED catalogFaults
     \/ CatalogFault /\ UNCHANGED <<token, settled>>
  /\ universe' = Resting
  /\ UNCHANGED <<assetRows, coinOf, topAssets, aliasRow, aliasOf, market, perpBase,
                 applying, scan, mappingRun, perpRun, everApproved, catalogRuns>>

\* catalog apply-mappings --file, in a process of its own.
ApplyFile ==
  LET items == ReviewedAliases(OperatorFile, {}) IN
  /\ applying = Resting
  /\ Started("operator", MaxOperatorApplies)
  /\ ApplyReviewedAssetAliases(items, "file")
  /\ applying' = IF Refused(items, "file") THEN Resting ELSE [at |-> "contracts"]
  /\ UNCHANGED <<assetRows, coinOf, topAssets, aliasOf, market, token, universe,
                 scan, mappingRun, perpRun, settled, catalogFaults>>

ApplyFileContracts ==
  /\ applying.at = "contracts"
  /\ UpsertContracts(OperatorContracts)
  /\ applying' = Resting
  /\ UNCHANGED <<assetRows, coinOf, topAssets, aliasRow, aliasOf, market, perpBase,
                 universe, scan, mappingRun, perpRun, everApproved, settled,
                 catalogRuns, catalogFaults>>

(***************************************************************************)
(* The provider's catalog refresh: approved aliases, their mappings,       *)
(* suggestions, candidates.                                                *)
(***************************************************************************)
SpotKeys == AliasKeys \ PerpKeys
QueryApprovedAliases(keys) ==
  [k \in {x \in keys : aliasRow[x].status = "approved"} |-> aliasRow[k].asset]

\* The one asset of the top with this symbol, if there is exactly one.
UniqueTopSymbol(k) ==
  LET same == {a \in topAssets : Symbol[a] = Symbol[k]}
  IN IF Cardinality(same) = 1 THEN same ELSE {}

ScanFails == scan' = Resting

DiscoverMarkets ==
  /\ scan = Resting
  /\ Started("scan", MaxScans)
  /\ scan' = [at |-> "mappings", approved |-> QueryApprovedAliases(SpotKeys)]
  /\ UNCHANGED <<assetRows, coinOf, topAssets, aliasRow, aliasOf, market, token, perpBase,
                 universe, applying, mappingRun, perpRun, everApproved, settled, catalogFaults>>

\* One alias per asset; an alias that another asset still holds breaks the
\* unique key, and the refresh fails.
UpsertAliasMappings ==
  LET a == scan.approved
      new == [x \in AssetIds |->
                IF x \in Range(a) THEN CHOOSE k \in DOMAIN a : a[k] = x ELSE aliasOf[x]]
      unique == \A x, y \in AssetIds : new[x] = new[y] => x = y \/ new[x] = NoAsset
  IN /\ scan.at = "mappings"
     /\ \/ unique /\ aliasOf' = new /\ scan' = [scan EXCEPT !.at = "resolve"]
           /\ UNCHANGED catalogFaults
        \/ ~unique /\ ScanFails /\ UNCHANGED <<aliasOf, catalogFaults>>
        \/ CatalogFault /\ ScanFails /\ UNCHANGED aliasOf
     /\ UNCHANGED <<assetRows, coinOf, topAssets, aliasRow, market, token, perpBase,
                    universe, applying, mappingRun, perpRun, everApproved, settled, catalogRuns>>

MutantResolve(m, approved, tradable) ==
  LET guess == UniqueTopSymbol(m.base) IN
  CASE ~ tradable -> [status |-> "rejected", base |-> NoAsset]
    [] m.base \in DOMAIN approved -> [status |-> "resolved", base |-> approved[m.base]]
    [] guess # {} -> [status |-> "resolved", base |-> CHOOSE a \in guess : TRUE]
    [] OTHER -> [status |-> "ambiguous", base |-> NoAsset]

\* A market is resolved by approved aliases alone; a symbol only suggests one.
resolveDiscoveredMarket(m, approved, tradable) ==
  LET missing == {m.base, m.quote} \ DOMAIN approved
      first == IF m.base \in missing THEN m.base ELSE m.quote
      status == CASE ~ tradable -> "rejected"
                  [] missing # {} -> IF UniqueTopSymbol(first) # {} THEN "discovered"
                                     ELSE "ambiguous"
                  [] approved[m.base] \notin topAssets -> "rejected"
                  [] OTHER -> "resolved"
  IN [status |-> status,
      base |-> IF status = "resolved" THEN approved[m.base] ELSE NoAsset]

\* The aliases suggested: the first missing one of each tradable market.
Suggested(approved, tradable) ==
  {k \in SpotKeys \ DOMAIN approved :
     /\ UniqueTopSymbol(k) # {}
     /\ \E m \in tradable : m.base = k \/ (m.quote = k /\ m.base \in DOMAIN approved)}

\* A suggestion never replaces a row.
UpsertAssetAliases(tradable) ==
  LET new == Suggested(scan.approved, tradable) IN
  /\ scan.at = "resolve"
  /\ \/ /\ aliasRow' = [k \in AliasKeys |->
             IF k \in new /\ aliasRow[k] = NoAlias
             THEN [asset |-> CHOOSE a \in UniqueTopSymbol(k) : TRUE,
                   status |-> "pending", by |-> "nobody"]
             ELSE aliasRow[k]]
        /\ scan' = [at |-> "candidates",
                    rows |-> [m \in Listings |->
                      resolveDiscoveredMarket(m, scan.approved, m \in tradable)]]
        /\ UNCHANGED catalogFaults
     \/ CatalogFault /\ ScanFails /\ UNCHANGED aliasRow
  /\ UNCHANGED <<assetRows, coinOf, topAssets, aliasOf, market, token, perpBase,
                 universe, applying, mappingRun, perpRun, everApproved, settled, catalogRuns>>

UpsertProviderMarketCandidates ==
  /\ scan.at = "candidates"
  /\ \/ market' = scan.rows /\ UNCHANGED catalogFaults
     \/ CatalogFault /\ UNCHANGED market
  /\ scan' = Resting
  /\ UNCHANGED <<assetRows, coinOf, topAssets, aliasRow, aliasOf, token, perpBase,
                 universe, applying, mappingRun, perpRun, everApproved, settled, catalogRuns>>

(***************************************************************************)
(* Contracts from CoinGecko.  Between reading which contracts are owned    *)
(* and storing the new ones there is a call to the chain for each.         *)
(***************************************************************************)
MutantUnowned(owned) == Contracts
Unowned(owned) == Contracts \ owned

ReadRepresentations ==
  /\ mappingRun = Resting
  /\ Started("mapping", MaxMappings)
  /\ mappingRun' =
       [at |-> "verify",
        owned |-> {c \in Contracts : token[c] # NoToken},
        assets |-> [c \in {x \in Coins : Mapped(x) /\ MappedAsset(x) \in topAssets}
                      |-> MappedAsset(c)]]
  /\ UNCHANGED <<assetRows, coinOf, topAssets, aliasRow, aliasOf, market, token, perpBase,
                 universe, applying, scan, perpRun, everApproved, settled, catalogFaults>>

\* readable: contracts whose decimals the chain reports within bounds.
refreshProviderMappedRepresentations(readable) ==
  LET a == mappingRun.assets
      new == {c \in DOMAIN a \cap DOMAIN Platforms :
                Platforms[c] \in readable \cap Unowned(mappingRun.owned)}
  IN /\ mappingRun.at = "verify"
     /\ \/ /\ token' = [t \in Contracts |->
                IF \E c \in new : Platforms[c] = t
                THEN [asset |-> a[CHOOSE c \in new : Platforms[c] = t], kind |-> "provider_mapped"]
                ELSE token[t]]
           /\ UNCHANGED catalogFaults
        \/ CatalogFault /\ UNCHANGED token
     /\ mappingRun' = Resting
     /\ UNCHANGED <<assetRows, coinOf, topAssets, aliasRow, aliasOf, market, perpBase,
                    universe, applying, scan, perpRun, everApproved, settled, catalogRuns>>

(***************************************************************************)
(* The perpetuals crawler reads the aliases in its audit and inserts the   *)
(* symbol row later; an existing row is reused.                            *)
(***************************************************************************)
AuditPerps ==
  /\ perpRun = Resting
  /\ \E k \in PerpKeys : perpBase[k] = NoAsset
  /\ perpRun' = [at |-> "register", approved |-> QueryApprovedAliases(PerpKeys)]
  /\ UNCHANGED <<assetRows, coinOf, topAssets, aliasRow, aliasOf, market, token, perpBase,
                 universe, applying, scan, mappingRun, everApproved, settled, catalogRuns,
                 catalogFaults>>

RegisterPerps ==
  /\ perpRun.at = "register"
  /\ perpBase' = [k \in PerpKeys |->
       IF perpBase[k] = NoAsset /\ k \in DOMAIN perpRun.approved THEN perpRun.approved[k]
       ELSE perpBase[k]]
  /\ perpRun' = Resting
  /\ UNCHANGED <<assetRows, coinOf, topAssets, aliasRow, aliasOf, market, token,
                 universe, applying, scan, mappingRun, everApproved, settled, catalogRuns,
                 catalogFaults>>

Identify ==
  \/ \E answer \in CoinAnswers : FetchUniverse(answer.listed, answer.ranked)
  \/ UpsertCoinMappings \/ UpsertAssetMetrics
  \/ ApplyEmbedded \/ ApplyEmbeddedContracts \/ ApplyFile \/ ApplyFileContracts

Scan ==
  \/ DiscoverMarkets \/ UpsertAliasMappings
  \/ \E tradable \in SUBSET Listings : UpsertAssetAliases(tradable)
  \/ UpsertProviderMarketCandidates

MapContracts ==
  \/ ReadRepresentations
  \/ \E readable \in SUBSET Contracts : refreshProviderMappedRepresentations(readable)

BindPerps == AuditPerps \/ RegisterPerps

CatalogNext == Identify \/ Scan \/ MapContracts \/ BindPerps
-----------------------------------------------------------------------------
CatalogTypeOK ==
  /\ assetRows \subseteq AssetIds
  /\ topAssets \subseteq assetRows
  /\ \A k \in AliasKeys : aliasRow[k].status \in {"none", "pending", "approved"}
  /\ \A c \in Contracts : token[c].kind \in {"none", "reviewed", "provider_mapped"}

Approved(k) ==
  everApproved[k] \cup IF k \in DOMAIN LegacyAliases THEN {LegacyAliases[k]} ELSE {}

\* A coin keeps its asset: whatever stores failed before, a refresh of the
\* universe would give every mapped coin the asset it already has, so that its
\* mappings never break the unique key (refreshCoinGeckoUniverse).
CoinsKeepAssets == \A a \in AssetIds : coinOf[a] # NoAsset => AssetFor(coinOf[a]) = a

\* Reviews decide: a resolved market and a perpetual's symbol name an asset
\* that a review bound their alias to, and two sources of reviews never bind one
\* alias to different assets, whoever of them comes first.
ReviewsDecide ==
  /\ \A m \in Listings : market[m].status = "resolved" => market[m].base \in Approved(m.base)
  /\ \A k \in PerpKeys : perpBase[k] # NoAsset => perpBase[k] \in Approved(k)
  /\ \A k \in AliasKeys : Cardinality(everApproved[k]) <= 1

\* Once the manifest has been applied while no mapping run was under way, the
\* contracts it reviews stay with its assets: CoinGecko's view of who owns a
\* contract never takes one over (refreshProviderMappedRepresentations).
ReviewedContractsStand ==
  settled => \A c \in DOMAIN Reviewed :
               token[c] = [asset |-> MappedAsset(Reviewed[c]), kind |-> "reviewed"]
=============================================================================
