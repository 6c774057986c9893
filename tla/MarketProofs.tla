---------------------------- MODULE MarketProofs ----------------------------
(***************************************************************************)
(* The market tables for every value of the constants: what the component  *)
(* lemmas establish, carried to the behaviours MCMarketTables composes.    *)
(***************************************************************************)
EXTENDS MCMarketTables, TableProofs, ProviderProofs

LEMMA Starts ==
  MCInit => /\ DexInit /\ PriceInit /\ StoreInit
            /\ SnapshotInit /\ WarehouseInit /\ RouterInit /\ QualityInit /\ ResearchInit
BY DEF MCInit

\* A step of the composition steps a component or leaves it alone.
LEMMA MarketMoves ==
  [MCNext]_<<marketVars, sourceVars, focus>>
    => /\ [DexNext]_dexVars /\ [PriceNext]_priceVars
       /\ [StoreNext]_storeVars /\ [SnapshotNext]_snapshotVars
<1> SUFFICES ASSUME [MCNext]_<<marketVars, sourceVars, focus>>
             PROVE  /\ [DexNext]_dexVars /\ [PriceNext]_priceVars
                    /\ [StoreNext]_storeVars /\ [SnapshotNext]_snapshotVars
  OBVIOUS
<1>1. Dex => DexNext
  BY DEF Dex, DexNext
<1>2. Prices => PriceNext
  BY DEF Prices, PriceNext
<1> QED BY <1>1, <1>2 DEF MCNext, marketVars

LEMMA SourceMoves ==
  [MCNext]_<<marketVars, sourceVars, focus>>
    => /\ [WarehouseNext]_dwVars /\ [RouterNext]_routerVars
       /\ [QualityNext]_qualityVars /\ [ResearchNext]_researchVars
BY DEF MCNext, sourceVars, ResearchNext

-----------------------------------------------------------------------------

\* The ticker cache is derived (SnapshotWriter.Write, ApplyMarketSnapshot): for any
\* writers, tickers, faults and expiries no Redis key or rank shows a content that
\* the symbol_market row never had.
THEOREM CacheDerived == MCSpec => []TickersDerived
<1>1. MCInit => SnapshotInv
  BY Starts, SnapshotStarts
<1>2. SnapshotInv /\ [MCNext]_<<marketVars, sourceVars, focus>> => SnapshotInv'
  BY MarketMoves, SnapshotStep
<1>3. SnapshotInv => TickersDerived
  BY SnapshotMeans DEF TickersDerived
<1> QED BY <1>1, <1>2, <1>3, PTL DEF MCSpec

\* Nothing goes back (ApplyMarketSnapshot under SELECT ... FOR UPDATE, Router.block):
\* a timed row is only replaced by a later observation, and a rate-limit window is
\* only extended, whatever writers and dispatches interleave.
THEOREM ForwardInTime == MCSpec => NothingGoesBack
<1> DEFINE Inv == SnapshotInv /\ Windows
<1>1. MCInit => Inv
  BY Starts, SnapshotStarts, WindowsStart
<1>2. Inv /\ [MCNext]_<<marketVars, sourceVars, focus>> => Inv'
  BY MarketMoves, SnapshotStep, SourceMoves, RouterWidens
<1>3. Inv /\ [MCNext]_<<marketVars, sourceVars, focus>>
        => [market # NoRow /\ market' # market /\ market.source # Untimed /\ market'.source # Untimed
            => \/ market'.source > market.source
               \/ market'.source = market.source /\ market'.observed > market.observed]_snapshotVars
  BY MarketMoves, SnapshotStep
<1>4. Inv /\ [MCNext]_<<marketVars, sourceVars, focus>>
        => [\A p \in Upstream : second < blockedUntil[p] => blockedUntil'[p] >= blockedUntil[p]]_routerVars
  BY SourceMoves, RouterWidens DEF Wider
<1> HIDE DEF Inv
<1> QED BY <1>1, <1>2, <1>3, <1>4, PTL DEF MCSpec, NothingGoesBack, SnapshotForward, WindowsNeverShrink

\* The warehouse loses nothing (syncOneKlineV2Stream, reconcileOneKlineV2Stream): for
\* any candles, batch size and replay window, with lost replies and restarts, a
\* committed change at or below the watermark is loaded or will be scanned again,
\* unless its transaction outlived a whole window; and a pass means equality.
THEOREM WarehouseComplete == MCSpec => []WarehouseFollows
<1>1. MCInit => WarehouseInv
  BY Starts, WarehouseStarts
<1>2. WarehouseInv /\ [MCNext]_<<marketVars, sourceVars, focus>> => WarehouseInv'
  BY SourceMoves, WarehouseStep
<1>3. WarehouseInv => WarehouseFollows
  BY WarehouseMeans DEF WarehouseFollows
<1> QED BY <1>1, <1>2, <1>3, PTL DEF MCSpec

\* A quarantine is left by proof only (Monitor.Record, Monitor.Advance, Gate.Advance):
\* however evidence is pruned, delivered again or repeated by a cache, a source is
\* healthy only after RecoveryHealthyWindows windows with evidence never seen before.
THEOREM QuarantineHolds == MCSpec => []HealthEarned
<1>1. MCInit => QualityInv
  BY Starts, QualityStarts
<1>2. QualityInv /\ [MCNext]_<<marketVars, sourceVars, focus>> => QualityInv'
  BY SourceMoves, QualityStep
<1>3. QualityInv => HealthEarned
  BY QualityMeans DEF HealthEarned
<1> QED BY <1>1, <1>2, <1>3, PTL DEF MCSpec

\* Router.Dispatch never hands on what Consumer.NormalizeDispatch would refuse: for
\* any providers, capacities, lifetimes and interleaving of concurrent dispatches,
\* fetched or cached; and the cache stays within its capacity (evictOneLocked).
THEOREM ConsumersAgree == MCSpec => []AnswersAcceptable
<1>1. MCInit => RouterInv
  BY Starts, RouterStarts
<1>2. RouterInv /\ [MCNext]_<<marketVars, sourceVars, focus>> => RouterInv'
  BY SourceMoves, RouterStep
<1>3. RouterInv => AnswersAcceptable
  BY RouterMeans DEF AnswersAcceptable
<1> QED BY <1>1, <1>2, <1>3, PTL DEF MCSpec

\* A cached research document was upstream's at most one request before its stamp,
\* for any number of readers, any lifetimes with requestTimeout <= cacheTTL and any
\* order of 200s, 304s, retries and evictions; and the counts of normalizeEvents
\* account for every item of every page.
THEOREM ResearchCached == MCSpec => []ResearchSound
<1>1. MCInit => ResearchInv /\ DedupAccounted
  BY Starts, ResearchStarts, PageStarts
<1>2. ResearchInv /\ DedupAccounted /\ [MCNext]_<<marketVars, sourceVars, focus>>
        => ResearchInv' /\ DedupAccounted'
  BY SourceMoves, ResearchStep, PageStep
<1>3. ResearchInv /\ DedupAccounted => ResearchSound
  BY ResearchMeans DEF ResearchSound
<1> QED BY <1>1, <1>2, <1>3, PTL DEF MCSpec

\* The DEX routes are honest (Discovery, publishVenueSnapshots): for any tokens,
\* pools and faults of the store, a snapshot that is available names a route which
\* the same cycle quoted, and a discovery whose requests fail for the moment loses
\* no route.
THEOREM RoutesAreHonest == MCSpec => []RoutesHonest
<1>1. MCInit => DexInv
  BY Starts, DexStarts
<1>2. DexInv /\ [MCNext]_<<marketVars, sourceVars, focus>> => DexInv'
  BY MarketMoves, DexStep
<1>3. DexInv => RoutesHonest
  BY DexMeans DEF RoutesHonest
<1> QED BY <1>1, <1>2, <1>3, PTL DEF MCSpec

\* The dashboard and its snapshots agree (QueryMarketReadSnapshot, the snapshot
\* store): for any coins, venues, instances and lifetimes, whatever upserts,
\* failures and ageing interleave, the overview counts the rows it is shown with,
\* no tick is available where the dashboard shows none, and every instance answers
\* one snapshot ID with one read while its key lives.
THEOREM SnapshotsAgree == MCSpec => []SnapshotsCoherent
<1> DEFINE Inv == PriceInv /\ StoreInv
<1>1. MCInit => Inv
  BY Starts, PriceStarts, StoreStarts
<1>2. Inv /\ [MCNext]_<<marketVars, sourceVars, focus>> => Inv'
  BY MarketMoves, PriceStep, StoreStep
<1>3. Inv => SnapshotsCoherent
  BY PriceMeans, StoreMeans DEF SnapshotsCoherent
<1> QED BY <1>1, <1>2, <1>3, PTL DEF MCSpec
=============================================================================
