---------------------------- MODULE TableProofs -----------------------------
(***************************************************************************)
(* Stores of market data, for every value of the constants. The ticker     *)
(* row: the row lock carries the ordering decision of ApplyMarketSnapshot  *)
(* to its write, and the cache shows only contents that the row has had.   *)
(* The warehouse: no committed candle is lost behind the watermark, and a  *)
(* reconciliation that passes has compared. The DEX routes, the price      *)
(* tables, and the snapshots read from them.                               *)
(***************************************************************************)
EXTENDS DexRoutes, SnapshotStore, MarketSnapshot, Warehouse, FiniteSetTheorems, TLAPS

CacheKeys == {"price", "askPrice", "bidPrice", "volume", "rank"}

\* What the row can be at an instant.
Rows(now) == [content: Contents, source: 0 .. now, observed: 1 .. now]

Selecting(now) == [at: {"select"}, content: Contents, source: 0 .. now, observed: 1 .. now]

Applying(now) ==
  [at: {"apply"}, content: Contents, source: 0 .. now, observed: 1 .. now,
   current: Rows(now) \cup {NoRow}]

Caching == [at: {"cache"}, content: Contents, left: Seq(CacheKeys)]

\* A Write call s of writer w: one that decides over a row holds the lock on it
\* and the row is as it read it; one that writes the cache was not discarded.
Fits(s, w, now, entry, lock, contents) ==
  \/ s = Resting
  \/ s \in Selecting(now)
  \/ s \in Applying(now) /\ (s.current # NoRow => lock = w /\ s.current = entry)
  \/ s \in Caching /\ s.content \in contents

SnapshotInv ==
  /\ instant \in 1 .. LastInstant
  /\ market \in Rows(instant) \cup {NoRow}
  /\ market # NoRow => market.content \in accepted
  /\ rowLock \in Writers \cup {Free}
  /\ rowLock # Free => market # NoRow
  /\ DOMAIN writer = Writers
  /\ \A w \in Writers : Fits(writer[w], w, instant, market, rowLock, accepted)
  /\ DOMAIN redis = CacheKeys
  /\ CacheAccepted
  /\ writeFaults \in 0 .. MaxWriteFaults

-----------------------------------------------------------------------------

LEMMA SnapshotStarts == SnapshotInit => SnapshotInv
BY SnapshotAssumption DEF SnapshotInit, SnapshotInv, Fits, CacheAccepted, CacheKeys

\* What a row read earlier can be stays possible as time passes.
LEMMA Later ==
  ASSUME NEW now \in Nat, NEW then \in Nat, now <= then
  PROVE  /\ Rows(now) \subseteq Rows(then)
         /\ Selecting(now) \subseteq Selecting(then)
         /\ Applying(now) \subseteq Applying(then)
<1>1. 0 .. now \subseteq 0 .. then /\ 1 .. now \subseteq 1 .. then
  OBVIOUS
<1>2. Rows(now) \subseteq Rows(then)
  BY <1>1 DEF Rows
<1> QED BY <1>1, <1>2 DEF Selecting, Applying

\* A writer's call stays right when another one's step leaves what it relies on.
LEMMA FitsStays ==
  ASSUME NEW s, NEW w, NEW now \in Nat, NEW then \in Nat, now <= then,
         NEW entry, NEW next, NEW lock, NEW free, NEW contents, NEW more,
         Fits(s, w, now, entry, lock, contents), contents \subseteq more,
         lock = w => free = lock /\ next = entry
  PROVE  Fits(s, w, then, next, free, more)
BY Later DEF Fits

\* The decision keeps a timed row from going back, and never refuses the lock's
\* holder into the cache.
LEMMA DecisionForward ==
  ASSUME NEW now \in Nat, NEW current \in Rows(now), NEW in \in Applying(now),
         decideMarketSnapshot(current, in) \in {"updated", "observed", "correction"},
         current.source # Untimed, in.source # Untimed
  PROVE  \/ in.source > current.source
         \/ in.source = current.source /\ in.observed > current.observed
<1>1. current.source \in Nat /\ in.source \in Nat /\ current.observed \in Nat /\ in.observed \in Nat
  BY DEF Rows, Applying
<1>2. CASE in.source < current.source
  BY <1>2 DEF decideMarketSnapshot
<1>3. CASE in.source = current.source
  BY <1>1, <1>3 DEF decideMarketSnapshot
<1> QED BY <1>1, <1>2, <1>3

LEMMA DecisionKinds ==
  ASSUME NEW current, NEW in
  PROVE  /\ decideMarketSnapshot(current, in) \in
              {"discarded", "noop", "correction", "observed", "updated"}
         /\ decideMarketSnapshot(current, in) = "noop" => current.content = in.content
BY DEF decideMarketSnapshot, equalSnapshotContent

\* What one writer's call does to its own entry leaves the others' right when the
\* row and the lock of any other writer are left alone.
LEMMA OthersFit ==
  ASSUME SnapshotInv, NEW w \in Writers, NEW s,
         writer' = [writer EXCEPT ![w] = s],
         Fits(s, w, instant', market', rowLock', accepted'),
         instant' = instant, accepted \subseteq accepted',
         \A v \in Writers \ {w} : rowLock = v => rowLock' = v /\ market' = market
  PROVE  /\ DOMAIN writer' = Writers
         /\ \A v \in Writers :
              Fits(writer'[v], v, instant', market', rowLock', accepted')
<1>1. instant \in Nat
  BY SnapshotAssumption DEF SnapshotInv
<1>2. DOMAIN writer' = Writers /\ writer'[w] = s
  BY DEF SnapshotInv
<1>3. ASSUME NEW v \in Writers, v # w
      PROVE  Fits(writer'[v], v, instant', market', rowLock', accepted')
  <2>1. writer'[v] = writer[v] /\ Fits(writer[v], v, instant, market, rowLock, accepted)
    BY <1>3 DEF SnapshotInv
  <2> QED BY <1>1, <1>3, <2>1, FitsStays
<1> QED BY <1>2, <1>3

LEMMA WriteTickerKeeps ==
  ASSUME SnapshotInv, NEW w \in Writers, NEW t \in Tickers, NEW source, WriteTicker(w, t, source)
  PROVE  SnapshotInv'
<1> DEFINE s == [at |-> "select", content |-> normalizedTickerSnapshot(t),
                 source |-> source, observed |-> instant]
<1>1. s \in Selecting(instant)
  BY SnapshotAssumption DEF WriteTicker, Selecting, Contents, SnapshotInv, Untimed
<1>2. Fits(s, w, instant', market', rowLock', accepted')
  BY <1>1 DEF WriteTicker, Fits
<1>3. writer' = [writer EXCEPT ![w] = s]
  BY DEF WriteTicker
<1> HIDE DEF s
<1>4. DOMAIN writer' = Writers
        /\ \A v \in Writers : Fits(writer'[v], v, instant', market', rowLock', accepted')
  BY Zenon, <1>2, <1>3, OthersFit DEF WriteTicker
<1> QED BY <1>4 DEF WriteTicker, SnapshotInv, CacheAccepted

LEMMA SelectForUpdateKeeps ==
  ASSUME SnapshotInv, NEW w \in Writers, SelectForUpdate(w)
  PROVE  SnapshotInv'
<1> DEFINE s == [at |-> "apply", content |-> writer[w].content, source |-> writer[w].source,
                 observed |-> writer[w].observed, current |-> market]
<1>1. writer[w] \in Selecting(instant)
  BY DEF SelectForUpdate, SnapshotInv, Fits, Resting, Applying, Caching
<1>2. s \in Applying(instant)
  BY <1>1 DEF Selecting, Applying, SnapshotInv
<1>3. market # NoRow => rowLock' = w
  BY DEF SelectForUpdate
<1>4. Fits(s, w, instant', market', rowLock', accepted')
  BY <1>2, <1>3 DEF SelectForUpdate, Fits
<1>5. writer' = [writer EXCEPT ![w] = s]
  BY DEF SelectForUpdate, SnapshotInv
<1>6. \A v \in Writers : rowLock # v
  BY SnapshotAssumption DEF SelectForUpdate, LockGranted, Free
<1> HIDE DEF s
<1>7. DOMAIN writer' = Writers
        /\ \A v \in Writers : Fits(writer'[v], v, instant', market', rowLock', accepted')
  BY Zenon, <1>4, <1>5, <1>6, OthersFit DEF SelectForUpdate
<1> QED BY <1>7 DEF SelectForUpdate, SnapshotInv, CacheAccepted

LEMMA ApplyMarketSnapshotKeeps ==
  ASSUME SnapshotInv, NEW w \in Writers, ApplyMarketSnapshot(w)
  PROVE  /\ SnapshotInv'
         /\ market # NoRow /\ market' # market /\ market.source # Untimed /\ market'.source # Untimed
              => \/ market'.source > market.source
                 \/ market'.source = market.source /\ market'.observed > market.observed
<1> DEFINE in == writer[w]
           entry == [content |-> in.content, source |-> in.source, observed |-> in.observed]
           action == CASE in.current # NoRow -> decideMarketSnapshot(in.current, in)
                       [] in.current = NoRow /\ market = NoRow -> "inserted"
                       [] in.current = NoRow /\ market # NoRow -> "error"
           writes == action \in {"inserted", "updated", "observed", "correction"}
           cached == [at |-> "cache", content |-> in.content,
                      left |-> <<"price", "askPrice", "bidPrice", "volume">>]
           s == IF action # "error" /\ action # "discarded" THEN cached ELSE Resting
<1>1. /\ market' = IF writes THEN entry ELSE market
      /\ accepted' = IF market' = market THEN accepted ELSE accepted \cup {in.content}
      /\ rowLock' = Unlocked(w)
      /\ writer' = [writer EXCEPT ![w] = s]
      /\ UNCHANGED <<instant, redis, writeFaults>>
  BY DEF ApplyMarketSnapshot, RefreshesCache
<1>2. in \in Applying(instant) /\ (in.current # NoRow => rowLock = w /\ in.current = market)
  BY DEF ApplyMarketSnapshot, SnapshotInv, Fits, Resting, Selecting, Caching
<1>3. entry \in Rows(instant) /\ entry # NoRow /\ in.content \in Contents
  BY <1>2 DEF Rows, Applying, NoRow
<1>4. in.current = NoRow /\ market # NoRow => action = "error"
  OBVIOUS
<1>5. in.current = NoRow /\ market = NoRow => action = "inserted"
  OBVIOUS
<1>6. in.current # NoRow => /\ action = decideMarketSnapshot(market, in)
                            /\ rowLock = w /\ market # NoRow
  BY <1>2
<1>7. cached \in Caching
  BY <1>3 DEF Caching, CacheKeys
<1>8. /\ writes \/ action \in {"error", "discarded", "noop"}
      /\ action = "noop" => market # NoRow /\ market.content = in.content
  BY <1>4, <1>5, <1>6, DecisionKinds
<1>9. /\ writes => market' = entry
      /\ ~writes => market' = market
  BY <1>1
<1>10. in.current # NoRow => in.current = market /\ market \in Rows(instant)
  BY <1>2 DEF SnapshotInv
<1>11. writes /\ market # NoRow
         => decideMarketSnapshot(market, in) \in {"updated", "observed", "correction"}
  BY <1>4, <1>6, DecisionKinds
<1>12. instant \in Nat
  BY SnapshotAssumption DEF SnapshotInv
<1> HIDE DEF action, s, writes
<1>13. market # NoRow /\ market' # market /\ market.source # Untimed /\ market'.source # Untimed
         => \/ market'.source > market.source
            \/ market'.source = market.source /\ market'.observed > market.observed
  <2> SUFFICES ASSUME market # NoRow, market' # market, market.source # Untimed,
                      market'.source # Untimed
               PROVE  \/ market'.source > market.source
                      \/ market'.source = market.source /\ market'.observed > market.observed
    OBVIOUS
  <2>1. writes /\ market' = entry /\ market \in Rows(instant)
    BY <1>9 DEF SnapshotInv
  <2>2. market'.source = in.source /\ market'.observed = in.observed
    BY <2>1
  <2> QED BY <1>2, <1>11, <1>12, <2>1, <2>2, DecisionForward
<1>14. market' \in Rows(instant) \cup {NoRow} /\ (market' # NoRow => market'.content \in accepted')
  <2>1. CASE writes
    BY <1>1, <1>3, <1>9, <2>1 DEF SnapshotInv
  <2>2. CASE ~writes
    BY <1>1, <1>9, <2>2 DEF SnapshotInv
  <2> QED BY <2>1, <2>2
<1>15. accepted \subseteq accepted'
  BY <1>1
<1>16. action # "error" /\ action # "discarded" => in.content \in accepted'
  <2>1. CASE writes
    BY <1>3, <1>9, <1>14, <2>1
  <2>2. CASE ~writes
    BY <1>8, <1>9, <1>14, <2>2
  <2> QED BY <2>1, <2>2
<1>17. Fits(s, w, instant', market', rowLock', accepted')
  BY <1>7, <1>16 DEF s, Fits
<1>18. \A v \in Writers \ {w} : rowLock = v => rowLock' = v /\ market' = market
  <2> SUFFICES ASSUME NEW v \in Writers \ {w}, rowLock = v
               PROVE  rowLock' = v /\ market' = market
    OBVIOUS
  <2>1. in.current = NoRow /\ market # NoRow
    BY <1>2, SnapshotAssumption DEF SnapshotInv, Free
  <2>2. action = "error" /\ ~writes
    BY <1>4, <2>1 DEF writes
  <2> QED BY <1>1, <1>9, <2>2 DEF Unlocked
<1>19. DOMAIN writer' = Writers
         /\ \A v \in Writers : Fits(writer'[v], v, instant', market', rowLock', accepted')
  BY Zenon, <1>1, <1>15, <1>17, <1>18, OthersFit
<1>20. rowLock' \in Writers \cup {Free} /\ (rowLock' # Free => market' # NoRow)
  BY <1>1, <1>3, <1>9 DEF SnapshotInv, Unlocked
<1>21. CacheAccepted'
  BY <1>1, <1>15 DEF SnapshotInv, CacheAccepted
<1>22. instant' = instant /\ redis' = redis /\ writeFaults' = writeFaults
  BY <1>1
<1> QED BY <1>13, <1>14, <1>19, <1>20, <1>21, <1>22 DEF SnapshotInv

\* A writer that gives up releases its lock, and no other one's.
LEMMA TransactionFailsKeeps ==
  ASSUME SnapshotInv, NEW w \in Writers, TransactionFails(w)
  PROVE  SnapshotInv'
<1>1. Fits(Resting, w, instant', market', rowLock', accepted')
  BY DEF Fits
<1>2. \A v \in Writers \ {w} : rowLock = v => rowLock' = v /\ market' = market
  BY DEF TransactionFails, Unlocked
<1>3. DOMAIN writer' = Writers
        /\ \A v \in Writers : Fits(writer'[v], v, instant', market', rowLock', accepted')
  BY Zenon, <1>1, <1>2, OthersFit DEF TransactionFails
<1>4. writeFaults' \in 0 .. MaxWriteFaults
  BY SnapshotAssumption DEF SnapshotInv, TransactionFails, Fault
<1> QED BY <1>3, <1>4 DEF TransactionFails, SnapshotInv, Unlocked, CacheAccepted

LEMMA SetCacheKeyKeeps ==
  ASSUME SnapshotInv, NEW w \in Writers, SetCacheKey(w)
  PROVE  SnapshotInv'
<1> DEFINE s == [writer[w] EXCEPT !.left = Tail(@)]
<1>1. writer[w] \in Caching /\ writer[w].content \in accepted
  BY DEF SetCacheKey, SnapshotInv, Fits, Resting, Selecting, Applying
<1>2. Tail(writer[w].left) \in Seq(CacheKeys)
  BY <1>1 DEF SetCacheKey, Caching
<1>3. s \in Caching /\ s.content = writer[w].content
  BY <1>1, <1>2 DEF Caching
<1>4. writer' = [writer EXCEPT ![w] = s]
  BY DEF SetCacheKey, SnapshotInv
<1>5. Fits(s, w, instant', market', rowLock', accepted')
  BY <1>1, <1>3 DEF SetCacheKey, Fits
<1> HIDE DEF s
<1>6. DOMAIN writer' = Writers
        /\ \A v \in Writers : Fits(writer'[v], v, instant', market', rowLock', accepted')
  BY Zenon, <1>4, <1>5, OthersFit DEF SetCacheKey
<1>7. writeFaults' \in 0 .. MaxWriteFaults
  BY SnapshotAssumption DEF SnapshotInv, SetCacheKey, Fault
<1>8. DOMAIN redis' = CacheKeys /\ CacheAccepted'
  BY <1>1 DEF SnapshotInv, SetCacheKey, CacheAccepted
<1> QED BY Zenon, <1>6, <1>7, <1>8 DEF SetCacheKey, SnapshotInv

LEMMA UpdateRankKeeps ==
  ASSUME SnapshotInv, NEW w \in Writers, UpdateRank(w)
  PROVE  SnapshotInv'
<1>1. writer[w] \in Caching /\ writer[w].content \in accepted
  BY DEF UpdateRank, SnapshotInv, Fits, Resting, Selecting, Applying
<1>2. Fits(Resting, w, instant', market', rowLock', accepted')
  BY DEF Fits
<1>3. DOMAIN writer' = Writers
        /\ \A v \in Writers : Fits(writer'[v], v, instant', market', rowLock', accepted')
  BY Zenon, <1>2, OthersFit DEF UpdateRank
<1>4. writeFaults' \in 0 .. MaxWriteFaults
  BY SnapshotAssumption DEF SnapshotInv, UpdateRank, Fault
<1>5. DOMAIN redis' = CacheKeys /\ CacheAccepted'
  BY <1>1 DEF SnapshotInv, UpdateRank, CacheAccepted
<1> QED BY <1>3, <1>4, <1>5 DEF UpdateRank, SnapshotInv

LEMMA CacheExpiresKeeps ==
  ASSUME SnapshotInv, NEW key, CacheExpires(key)
  PROVE  SnapshotInv'
<1>1. writeFaults' \in 0 .. MaxWriteFaults
  BY SnapshotAssumption DEF SnapshotInv, CacheExpires, Fault
<1>2. DOMAIN redis' = CacheKeys /\ CacheAccepted'
  BY DEF SnapshotInv, CacheExpires, CacheAccepted
<1> QED BY <1>1, <1>2 DEF CacheExpires, SnapshotInv

LEMMA CrawlerDiesKeeps ==
  ASSUME SnapshotInv, CrawlerDies
  PROVE  SnapshotInv'
<1>1. writeFaults' \in 0 .. MaxWriteFaults
  BY SnapshotAssumption DEF SnapshotInv, CrawlerDies, Fault
<1>2. \A w \in Writers : Fits(writer'[w], w, instant', market', rowLock', accepted')
  BY DEF CrawlerDies, Fits
<1> QED BY <1>1, <1>2 DEF CrawlerDies, SnapshotInv, CacheAccepted

LEMMA ClockTicksKeeps ==
  ASSUME SnapshotInv, ClockTicks
  PROVE  SnapshotInv'
<1>1. instant \in Nat /\ instant' \in Nat /\ instant <= instant' /\ instant' \in 1 .. LastInstant
  BY SnapshotAssumption DEF SnapshotInv, ClockTicks
<1>2. \A w \in Writers : Fits(writer'[w], w, instant', market', rowLock', accepted')
  BY <1>1, FitsStays DEF SnapshotInv, ClockTicks
<1>3. market' \in Rows(instant') \cup {NoRow}
  BY <1>1, Later DEF SnapshotInv, ClockTicks
<1> QED BY <1>1, <1>2, <1>3 DEF ClockTicks, SnapshotInv, CacheAccepted

\* Every step of the write path keeps the invariant, and only a commit changes
\* the row.
LEMMA SnapshotStep ==
  ASSUME SnapshotInv, [SnapshotNext]_snapshotVars
  PROVE  /\ SnapshotInv'
         /\ market # NoRow /\ market' # market /\ market.source # Untimed /\ market'.source # Untimed
              => \/ market'.source > market.source
                 \/ market'.source = market.source /\ market'.observed > market.observed
<1>1. CASE UNCHANGED snapshotVars
  BY <1>1 DEF snapshotVars, SnapshotInv, CacheAccepted
<1>2. CASE ClockTicks
  BY <1>2, ClockTicksKeeps DEF ClockTicks
<1>3. CASE CrawlerDies
  BY <1>3, CrawlerDiesKeeps DEF CrawlerDies
<1>4. CASE \E key \in DOMAIN redis : CacheExpires(key)
  BY Zenon, <1>4, CacheExpiresKeeps DEF CacheExpires
<1>5. ASSUME NEW w \in Writers, NEW t \in Tickers, NEW source, WriteTicker(w, t, source)
      PROVE  SnapshotInv' /\ market' = market
  BY Zenon, <1>5, WriteTickerKeeps DEF WriteTicker
<1>6. ASSUME NEW w \in Writers,
             SelectForUpdate(w) \/ TransactionFails(w) \/ SetCacheKey(w) \/ UpdateRank(w)
      PROVE  SnapshotInv' /\ market' = market
  <2>1. CASE SelectForUpdate(w)
    BY Zenon, <2>1, SelectForUpdateKeeps DEF SelectForUpdate
  <2>2. CASE TransactionFails(w)
    BY Zenon, <2>2, TransactionFailsKeeps DEF TransactionFails
  <2>3. CASE SetCacheKey(w)
    BY Zenon, <2>3, SetCacheKeyKeeps DEF SetCacheKey
  <2>4. CASE UpdateRank(w)
    BY Zenon, <2>4, UpdateRankKeeps DEF UpdateRank
  <2> QED BY <1>6, <2>1, <2>2, <2>3, <2>4
<1>7. CASE \E w \in Writers : ApplyMarketSnapshot(w)
  BY <1>7, ApplyMarketSnapshotKeeps
<1> QED BY <1>1, <1>2, <1>3, <1>4, <1>5, <1>6, <1>7 DEF SnapshotNext

LEMMA SnapshotMeans == SnapshotInv => SnapshotTypeOK /\ CacheAccepted
<1> SUFFICES ASSUME SnapshotInv PROVE SnapshotTypeOK /\ CacheAccepted
  OBVIOUS
<1>1. \A w \in Writers : writer[w].at \in {"idle", "select", "apply", "cache"}
  BY DEF SnapshotInv, Fits, Resting, Selecting, Applying, Caching
<1>2. market = NoRow \/ (market.content \in Contents /\ market.source \in Untimed .. instant)
  BY DEF SnapshotInv, Rows, Untimed
<1> QED BY <1>1, <1>2 DEF SnapshotInv, SnapshotTypeOK

-----------------------------------------------------------------------------

LEMMA GreatestNumber ==
  ASSUME NEW n \in Nat, NEW S, S \subseteq 0 .. n, S # {}
  PROVE  Max(S) \in S /\ \A y \in S : y <= Max(S)
<1> DEFINE T == {n - x : x \in S}
<1>1. T \subseteq Nat /\ T # {}
  <2>1. \A x \in S : n - x \in Nat
    OBVIOUS
  <2> QED BY Zenon, <2>1
<1>2. PICK x \in T : \A y \in T : ~(<<y, x>> \in OpToRel(<, Nat))
  BY Zenon, <1>1, WFMin, NatLessThanWellFounded
<1>3. \A y \in T : y < x => <<y, x>> \in OpToRel(<, Nat)
  BY Zenon, <1>1 DEF OpToRel
<1>4. \A y \in T : ~(y < x)
  BY Zenon, <1>2, <1>3
<1>5. PICK z \in S : x = n - z
  OBVIOUS
<1>6. \A y \in S : ~(n - y < n - z)
  BY <1>4, <1>5
<1>7. \A y \in S : y <= z
  <2> TAKE y \in S
  <2>1. y \in Int /\ z \in Int /\ n \in Int
    OBVIOUS
  <2>2. ~(n - y < n - z)
    BY <1>6
  <2> HIDE DEF T
  <2> QED BY <2>1, <2>2
<1>8. \E m \in S : \A y \in S : m >= y
  BY <1>7
<1> QED BY Zenon, <1>8 DEF Max

-----------------------------------------------------------------------------

IsScan(s) == s = [x \in {"on", "cursor", "ceiling", "batch"} |-> s[x]]

\* A committed row at or below a number, not known to be late, that Doris does not have.
Missed(c, n) == c \notin late /\ pg[c] # 0 /\ pg[c] <= n /\ doris[c] # pg[c]

Numbers ==
  /\ seq \in 0 .. MaxSeq /\ watermark \in 0 .. seq
  /\ writing \in [Candles -> 0 .. seq]
  /\ pg \in [Candles -> 0 .. seq] /\ doris \in [Candles -> 0 .. seq]
  /\ \A c \in Candles : writing[c] # 0 => pg[c] < writing[c] /\ doris[c] < writing[c]
  /\ acceptance \in {"unproven", "soaking"}

\* What a scan has passed over and not loaded is still within a window of its ceiling.
ScanSound ==
  scan # NoScan =>
    /\ IsScan(scan) /\ scan.cursor \in 0 .. seq /\ scan.ceiling \in 0 .. seq
    /\ \A c \in Candles : Missed(c, scan.cursor) => scan.ceiling < pg[c] + Lookback

\* Nothing loads Doris while a comparison runs, so a row that has changed since
\* the first query is not there yet.
CompareSound ==
  compare # Quiet =>
    /\ scan = NoScan
    /\ compare.through \in [Candles -> 0 .. seq]
    /\ \A c \in Candles : writing[c] # 0 => compare.through[c] < writing[c]
    /\ compare.at \in {"through", "current"} =>
         \A c \in Candles : compare.through[c] # 0 /\ pg[c] # 0 /\ compare.through[c] # pg[c]
                              => doris[c] # pg[c]

WarehouseInv == Numbers /\ ScanSound /\ CompareSound /\ ReplayCovers /\ PassedIsEqual

LEMMA CoversMeans ==
  ReplayCovers <=> \A c \in Candles : Missed(c, watermark) => pg[c] > ReplayScanStart(watermark)
BY DEF ReplayCovers, Missed

LEMMA WarehouseStarts == WarehouseInit => WarehouseInv
BY WarehouseAssumption DEF WarehouseInit, WarehouseInv, Numbers, ScanSound, CompareSound,
   ReplayCovers, PassedIsEqual, NoScan, Quiet

LEMMA StartIs ==
  ASSUME NEW n \in Nat
  PROVE  ReplayScanStart(n) \in Nat /\ ReplayScanStart(n) <= n /\ n <= ReplayScanStart(n) + Lookback
BY WarehouseAssumption DEF ReplayScanStart

LEMMA TakeNumberKeeps ==
  ASSUME WarehouseInv, NEW c \in Candles, TakeNumber(c)
  PROVE  WarehouseInv'
<1>1. Numbers'
  BY WarehouseAssumption DEF WarehouseInv, Numbers, TakeNumber
<1>2. ScanSound'
  BY WarehouseAssumption DEF WarehouseInv, Numbers, ScanSound, IsScan, Missed, TakeNumber
<1>3. CompareSound'
  BY WarehouseAssumption DEF WarehouseInv, Numbers, CompareSound, TakeNumber
<1>4. ReplayCovers' /\ PassedIsEqual'
  BY DEF WarehouseInv, ReplayCovers, PassedIsEqual, TakeNumber
<1> QED BY <1>1, <1>2, <1>3, <1>4 DEF WarehouseInv

LEMMA SpendNumberKeeps ==
  ASSUME WarehouseInv, SpendNumber
  PROVE  WarehouseInv'
<1>1. Numbers'
  BY WarehouseAssumption DEF WarehouseInv, Numbers, SpendNumber
<1>2. ScanSound'
  BY WarehouseAssumption DEF WarehouseInv, Numbers, ScanSound, IsScan, Missed, SpendNumber
<1>3. CompareSound'
  BY WarehouseAssumption DEF WarehouseInv, Numbers, CompareSound, SpendNumber
<1>4. ReplayCovers' /\ PassedIsEqual'
  BY DEF WarehouseInv, ReplayCovers, PassedIsEqual, SpendNumber
<1> QED BY <1>1, <1>2, <1>3, <1>4 DEF WarehouseInv

\* A number that commits is within a window of every number handed out, or late.
LEMMA CommitCandleKeeps ==
  ASSUME WarehouseInv, NEW c \in Candles, CommitCandle(c)
  PROVE  WarehouseInv'
<1> DEFINE n == writing[c]
<1>1. /\ n \in 1 .. seq /\ doris[c] < n /\ seq \in Nat /\ watermark \in 0 .. seq
      /\ doris[c] \in Nat /\ Lookback \in Nat
  BY WarehouseAssumption DEF WarehouseInv, Numbers, CommitCandle
<1>2. /\ pg' = [pg EXCEPT ![c] = n] /\ pg'[c] = n
      /\ \A d \in Candles : d # c => pg'[d] = pg[d] /\ (d \in late' <=> d \in late)
      /\ c \notin late' => seq < n + Lookback
      /\ UNCHANGED <<seq, doris, watermark, scan, compare, acceptance>>
  BY <1>1 DEF WarehouseInv, Numbers, CommitCandle
<1>3. Numbers'
  BY <1>1 DEF WarehouseInv, Numbers, CommitCandle
<1> HIDE DEF n
<1>4. \A d \in Candles : \A m : Missed(d, m)' =>
         \/ d = c /\ pg'[d] = n /\ seq < n + Lookback
         \/ d # c /\ Missed(d, m) /\ pg'[d] = pg[d]
  BY <1>2 DEF Missed
<1>5. ScanSound'
  <2> SUFFICES ASSUME scan # NoScan
               PROVE  /\ IsScan(scan)' /\ scan.cursor \in 0 .. seq /\ scan.ceiling \in 0 .. seq
                      /\ \A d \in Candles : Missed(d, scan.cursor)' => scan.ceiling < pg'[d] + Lookback
    BY <1>2 DEF ScanSound, Missed
  <2>1. /\ IsScan(scan) /\ scan.cursor \in 0 .. seq /\ scan.ceiling \in 0 .. seq
        /\ \A d \in Candles : Missed(d, scan.cursor) => scan.ceiling < pg[d] + Lookback
    BY DEF WarehouseInv, ScanSound
  <2>2. IsScan(scan)'
    BY <1>2, <2>1 DEF IsScan
  <2>3. ASSUME NEW d \in Candles, Missed(d, scan.cursor)'
        PROVE  scan.ceiling < pg'[d] + Lookback
    <3>1. Missed(d, scan.cursor)' <=> (d \notin late' /\ pg'[d] # 0 /\ pg'[d] <= scan.cursor /\ doris[d] # pg'[d])
      BY <1>2 DEF Missed
    <3>2. CASE d = c
      BY <1>1, <1>2, <2>1, <2>3, <3>1, <3>2
    <3>3. CASE d # c
      BY <1>2, <2>1, <2>3, <3>1, <3>3 DEF Missed
    <3> QED BY <3>2, <3>3
  <2> QED BY <2>1, <2>2, <2>3
<1>6. CompareSound'
  <2> SUFFICES ASSUME compare # Quiet PROVE CompareSound'
    BY <1>2 DEF CompareSound
  <2>1. \A d \in Candles : writing'[d] # 0 => writing'[d] = writing[d]
    BY DEF CommitCandle, WarehouseInv, Numbers
  <2>2. doris[c] # pg'[c]
    BY <1>1, <1>2
  <2> QED BY <1>2, <2>1, <2>2 DEF CompareSound, WarehouseInv
<1>7. ReplayCovers'
  <2> SUFFICES ASSUME NEW d \in Candles, d \notin late', pg'[d] # 0, pg'[d] <= watermark, doris[d] # pg'[d]
               PROVE  pg'[d] > ReplayScanStart(watermark)
    BY <1>2 DEF ReplayCovers, ReplayScanStart
  <2>1. CASE d = c
    BY <1>1, <1>2, <2>1 DEF ReplayScanStart
  <2>2. CASE d # c
    BY <1>2, <2>2 DEF WarehouseInv, ReplayCovers
  <2> QED BY <2>1, <2>2
<1>8. PassedIsEqual'
  BY <1>2 DEF WarehouseInv, PassedIsEqual
<1> QED BY <1>3, <1>5, <1>6, <1>7, <1>8 DEF WarehouseInv

LEMMA ExpireCandleKeeps ==
  ASSUME WarehouseInv, NEW c \in Candles, ExpireCandle(c)
  PROVE  WarehouseInv'
<1>1. /\ \A d \in Candles : pg'[d] = pg[d] \/ (pg'[d] = 0 /\ d = c)
      /\ UNCHANGED <<seq, writing, doris, watermark, scan, compare, acceptance, late>>
  BY DEF WarehouseInv, Numbers, ExpireCandle
<1>2. Numbers'
  BY DEF WarehouseInv, Numbers, ExpireCandle
<1>3. \A d \in Candles : pg'[d] # 0 => pg'[d] = pg[d]
  BY <1>1
<1>4. ScanSound'
  BY <1>1, <1>3 DEF WarehouseInv, ScanSound, IsScan, Missed
<1>5. CompareSound'
  BY <1>1, <1>3 DEF WarehouseInv, CompareSound
<1>6. ReplayCovers' /\ PassedIsEqual'
  BY <1>1, <1>3 DEF WarehouseInv, ReplayCovers, PassedIsEqual, ReplayScanStart
<1> QED BY <1>2, <1>4, <1>5, <1>6 DEF WarehouseInv

LEMMA StartScanKeeps ==
  ASSUME WarehouseInv, StartScan
  PROVE  WarehouseInv'
<1> DEFINE s == [on |-> TRUE, cursor |-> ReplayScanStart(watermark), ceiling |-> seq, batch |-> 1]
<1>1. /\ scan' = s /\ compare = Quiet
      /\ UNCHANGED <<seq, writing, pg, doris, watermark, compare, acceptance, late>>
  BY DEF StartScan, Idle2, SyncCeiling
<1>2. IsScan(s) /\ s.cursor = ReplayScanStart(watermark) /\ s.ceiling = seq
  BY DEF IsScan
<1> HIDE DEF s
<1>3. /\ ReplayScanStart(watermark) \in 0 .. seq /\ ReplayScanStart(watermark) <= watermark
      /\ watermark \in Nat /\ seq \in Nat
  BY StartIs DEF WarehouseInv, Numbers
<1>4. \A c \in Candles : ~Missed(c, s.cursor)
  BY <1>2, <1>3 DEF WarehouseInv, Numbers, ReplayCovers, Missed
<1>5. ScanSound'
  BY <1>1, <1>2, <1>3, <1>4 DEF ScanSound, IsScan, Missed
<1>6. Numbers' /\ CompareSound' /\ ReplayCovers' /\ PassedIsEqual'
  BY <1>1 DEF WarehouseInv, Numbers, CompareSound, ReplayCovers, PassedIsEqual, ReplayScanStart
<1> QED BY <1>5, <1>6 DEF WarehouseInv

\* A batch is the lowest rows of the scan, so it holds every row up to its highest.
LEMMA BatchIsLowest ==
  ASSUME Numbers, scan.cursor \in Nat, scan.ceiling \in Nat, Batch # {},
         NEW top, top = Max({pg[c] : c \in Batch})
  PROVE  /\ Batch \subseteq Candles
         /\ top \in 0 .. seq /\ top <= scan.ceiling
         /\ \A c \in Candles : scan.cursor < pg[c] /\ pg[c] <= top => c \in Batch
<1> DEFINE rows == {c \in Candles : pg[c] > scan.cursor /\ pg[c] <= scan.ceiling}
           below(c) == {d \in rows : pg[d] < pg[c]}
<1>1. Batch = {c \in rows : Cardinality(below(c)) < BatchSize}
  BY Zenon DEF Batch
<1>2. IsFiniteSet(rows)
  BY WarehouseAssumption, FS_Subset
<1>3. \A c : IsFiniteSet(below(c)) /\ Cardinality(below(c)) \in Nat
  <2> TAKE c
  <2>1. below(c) \in SUBSET rows
    OBVIOUS
  <2> HIDE DEF below, rows
  <2> QED BY <1>2, <2>1, FS_Subset, FS_CardinalityType
<1>4. seq \in Nat /\ {pg[c] : c \in Batch} \subseteq 0 .. seq /\ {pg[c] : c \in Batch} # {}
  <2>1. Batch \subseteq Candles
    BY <1>1
  <2>2. \A c \in Batch : pg[c] \in 0 .. seq
    BY <2>1 DEF Numbers
  <2> QED BY <2>2, WarehouseAssumption DEF Numbers
<1>5. top \in {pg[c] : c \in Batch}
  BY Zenon, <1>4, GreatestNumber
<1>6. PICK t \in Batch : top = pg[t]
  BY <1>5
<1>7. t \in rows /\ Cardinality(below(t)) < BatchSize
  BY <1>1
<1>8. top \in 0 .. seq /\ top <= scan.ceiling
  BY <1>6, <1>7 DEF Numbers
<1>9. ASSUME NEW c \in Candles, scan.cursor < pg[c], pg[c] <= top
      PROVE  c \in Batch
  <2>1. c \in rows
    BY <1>8, <1>9 DEF Numbers
  <2>2. below(c) \subseteq below(t)
    BY SMT, SMTT(30), <1>6, <1>7, <1>9 DEF Numbers
  <2>3. Cardinality(below(c)) <= Cardinality(below(t))
    BY Zenon, <1>3, <1>7, <2>2, FS_Subset
  <2>4. Cardinality(below(c)) < BatchSize
    BY <1>3, <1>7, <2>1, <2>3, WarehouseAssumption
  <2> QED BY <1>1, <2>1, <2>4
<1>10. Batch \subseteq Candles
  BY <1>1
<1> QED BY Zenon, <1>8, <1>9, <1>10

Moved(s, top) == [s EXCEPT !.cursor = top, !.batch = @ + 1]

LEMMA MovedForm ==
  ASSUME NEW s, IsScan(s), NEW top
  PROVE  IsScan(Moved(s, top)) /\ Moved(s, top).cursor = top /\ Moved(s, top).ceiling = s.ceiling
BY Zenon DEF IsScan, Moved

LEMMA LoadedIs ==
  ASSUME Numbers, Batch \subseteq Candles
  PROVE  /\ Loaded(Batch, pg) \in [Candles -> 0 .. seq]
         /\ \A c \in Candles : Loaded(Batch, pg)[c] = IF c \in Batch THEN pg[c] ELSE doris[c]
BY DEF Loaded, Numbers

LEMMA BatchWithin == Batch \subseteq Candles
BY DEF Batch

LEMMA LoadFailsKeeps ==
  ASSUME WarehouseInv, LoadFails
  PROVE  WarehouseInv'
<1>1. /\ \A c \in Candles : doris'[c] = doris[c] \/ doris'[c] = pg[c]
      /\ doris' \in [Candles -> 0 .. seq]
  BY LoadedIs, BatchWithin DEF LoadFails, WarehouseInv, Numbers
<1>2. scan # NoScan /\ scan' = NoScan /\ compare = Quiet
      /\ UNCHANGED <<seq, writing, pg, watermark, compare, acceptance, late>>
  <2>1. NoScan.on = FALSE
    BY DEF NoScan
  <2>2. scan # NoScan
    BY Zenon, <2>1 DEF LoadFails
  <2>3. compare = Quiet
    BY Zenon, <2>2 DEF WarehouseInv, CompareSound
  <2> QED BY Zenon, <2>2, <2>3 DEF LoadFails
<1>3. Numbers'
  BY Zenon, <1>1, <1>2 DEF WarehouseInv, Numbers
<1>4. ScanSound' /\ CompareSound' /\ PassedIsEqual'
  BY <1>2 DEF ScanSound, CompareSound, PassedIsEqual, Quiet
<1>5. ReplayCovers'
  BY <1>1, <1>2 DEF WarehouseInv, ReplayCovers, ReplayScanStart
<1> QED BY <1>3, <1>4, <1>5 DEF WarehouseInv

LEMMA LoadBatchKeeps ==
  ASSUME WarehouseInv, LoadBatch
  PROVE  WarehouseInv'
<1> DEFINE top == Max({pg[c] : c \in Batch})
<1>1. scan # NoScan /\ compare = Quiet /\ UNCHANGED <<seq, writing, pg, compare, acceptance, late>>
  BY DEF LoadBatch, NoScan, WarehouseInv, CompareSound
<1>2. /\ IsScan(scan) /\ scan.cursor \in 0 .. seq /\ scan.ceiling \in 0 .. seq
      /\ \A c \in Candles : Missed(c, scan.cursor) => scan.ceiling < pg[c] + Lookback
  BY <1>1 DEF WarehouseInv, ScanSound
<1>3. /\ CompareSound' /\ PassedIsEqual' /\ Numbers
  BY <1>1 DEF WarehouseInv, CompareSound, PassedIsEqual, Quiet
<1>4. CASE Batch = {}
  <2>1. scan' = NoScan /\ UNCHANGED <<doris, watermark>>
    BY <1>4 DEF LoadBatch
  <2> QED BY <1>1, <1>3, <2>1 DEF WarehouseInv, Numbers, ScanSound, ReplayCovers, ReplayScanStart
<1>5. CASE Batch # {}
  <2>1. /\ Batch \subseteq Candles /\ top \in 0 .. seq /\ top <= scan.ceiling
        /\ \A c \in Candles : scan.cursor < pg[c] /\ pg[c] <= top => c \in Batch
    BY <1>2, <1>3, <1>5, BatchIsLowest
  <2>2. /\ doris' = Loaded(Batch, pg) /\ watermark' = Max({watermark, top})
        /\ scan' = NoScan \/ scan' = Moved(scan, top)
    BY <1>5 DEF LoadBatch, Moved
  <2> HIDE DEF top
  <2>3. /\ doris' \in [Candles -> 0 .. seq]
        /\ \A c \in Candles : doris'[c] = IF c \in Batch THEN pg[c] ELSE doris[c]
    BY <1>3, <2>1, <2>2, LoadedIs
  <2>4. watermark' \in {watermark, top} /\ watermark <= watermark' /\ top <= watermark'
    <3>1. seq \in Nat /\ {watermark, top} \subseteq 0 .. seq /\ {watermark, top} # {}
      BY <1>3, <2>1 DEF Numbers
    <3>2. Max({watermark, top}) \in {watermark, top}
          /\ \A y \in {watermark, top} : y <= Max({watermark, top})
      BY <3>1, GreatestNumber
    <3> QED BY <2>2, <3>2
  <2>5. Numbers'
    BY Zenon, <1>1, <1>3, <2>1, <2>3, <2>4 DEF Numbers
  <2>6. ASSUME NEW c \in Candles, c \notin late, pg[c] # 0, pg[c] <= top, doris'[c] # pg[c]
        PROVE  Missed(c, scan.cursor)
    <3>1. c \notin Batch /\ doris'[c] = doris[c]
      BY <2>3, <2>6
    <3>2. pg[c] <= scan.cursor
      BY <1>2, <1>3, <2>1, <2>6, <3>1 DEF Numbers
    <3> QED BY <2>6, <3>1, <3>2 DEF Missed
  <2>7. ScanSound'
    <3>1. CASE scan' = NoScan
      BY <3>1 DEF ScanSound
    <3>2. CASE scan' = Moved(scan, top)
      <4>1. IsScan(scan') /\ scan'.cursor = top /\ scan'.ceiling = scan.ceiling
        BY <1>2, <3>2, MovedForm
      <4>2. \A c \in Candles : c \notin late /\ pg[c] # 0 /\ pg[c] <= top /\ doris'[c] # pg[c]
                                => scan.ceiling < pg[c] + Lookback
        BY <1>2, <2>6
      <4> QED BY <1>1, <1>2, <2>1, <4>1, <4>2 DEF ScanSound, IsScan, Missed
    <3> QED BY <2>2, <3>1, <3>2
  <2>8. ReplayCovers'
    <3> SUFFICES ASSUME NEW c \in Candles, c \notin late, pg[c] # 0, pg[c] <= watermark', doris'[c] # pg[c]
                 PROVE  pg[c] > ReplayScanStart(watermark')
      BY <1>1 DEF ReplayCovers, ReplayScanStart
    <3>1. CASE watermark' = watermark
      BY <2>3, <3>1 DEF WarehouseInv, ReplayCovers
    <3>2. CASE watermark' = top
      <4>1. scan.ceiling < pg[c] + Lookback
        BY Zenon, <1>2, <2>6, <3>2
      <4> QED BY <1>2, <1>3, <2>1, <3>2, <4>1, WarehouseAssumption DEF Numbers, ReplayScanStart
    <3> QED BY Zenon, <2>4, <3>1, <3>2
  <2> QED BY Zenon, <1>3, <2>5, <2>7, <2>8 DEF WarehouseInv
<1> QED BY <1>4, <1>5

LEMMA ReadThroughKeeps ==
  ASSUME WarehouseInv, ReadThrough
  PROVE  WarehouseInv'
<1> DEFINE seen == [c \in Candles |-> IF pg[c] <= watermark THEN pg[c] ELSE 0]
           k == [at |-> "through", through |-> seen]
<1>1. /\ compare' = k /\ scan = NoScan
      /\ UNCHANGED <<seq, writing, pg, doris, watermark, scan, acceptance, late>>
  BY DEF ReadThrough, Idle2
<1>2. k.at = "through" /\ k.through = seen
  OBVIOUS
<1>3. /\ seen \in [Candles -> 0 .. seq]
      /\ \A c \in Candles : seen[c] # 0 => seen[c] = pg[c]
      /\ \A c \in Candles : writing[c] # 0 => seen[c] < writing[c]
  BY WarehouseAssumption DEF WarehouseInv, Numbers
<1> HIDE DEF k, seen
<1>4. CompareSound'
  BY Zenon, <1>1, <1>2, <1>3 DEF CompareSound
<1>5. Numbers' /\ ScanSound' /\ ReplayCovers' /\ PassedIsEqual'
  BY Zenon, <1>1, <1>2 DEF WarehouseInv, Numbers, ScanSound, ReplayCovers, PassedIsEqual, ReplayScanStart
<1> QED BY <1>4, <1>5 DEF WarehouseInv

LEMMA ReadCurrentKeeps ==
  ASSUME WarehouseInv, ReadCurrent
  PROVE  WarehouseInv'
<1> DEFINE pending == {c \in Candles : pg[c] > watermark}
           k == [at |-> "current", through |-> compare.through, pending |-> pending]
<1>1. /\ compare' = k /\ compare # Quiet /\ compare.at = "through"
      /\ UNCHANGED <<seq, writing, pg, doris, watermark, scan, acceptance, late>>
  BY DEF ReadCurrent, Quiet
<1>2. k.at = "current" /\ k.through = compare.through
  OBVIOUS
<1> HIDE DEF k
<1>3. CompareSound'
  BY <1>1, <1>2 DEF WarehouseInv, CompareSound
<1>4. Numbers' /\ ReplayCovers' /\ PassedIsEqual'
  BY <1>1, <1>2 DEF WarehouseInv, Numbers, ReplayCovers, PassedIsEqual, ReplayScanStart
<1>5. ScanSound'
  BY Zenon, <1>1 DEF WarehouseInv, CompareSound, ScanSound
<1> QED BY <1>3, <1>4, <1>5 DEF WarehouseInv

LEMMA CompareFailsKeeps ==
  ASSUME WarehouseInv, CompareFails
  PROVE  WarehouseInv'
<1> DEFINE k == [at |-> "failed", through |-> compare.through]
<1>1. /\ compare' = k /\ compare # Quiet
      /\ UNCHANGED <<seq, writing, pg, doris, watermark, scan, acceptance, late>>
  BY DEF CompareFails, Quiet
<1>2. k.at = "failed" /\ k.through = compare.through
  OBVIOUS
<1> HIDE DEF k
<1>3. CompareSound'
  BY Zenon, <1>1, <1>2 DEF WarehouseInv, CompareSound
<1>4. Numbers' /\ ReplayCovers' /\ PassedIsEqual'
  BY <1>1, <1>2 DEF WarehouseInv, Numbers, ReplayCovers, PassedIsEqual, ReplayScanStart
<1>5. ScanSound'
  BY Zenon, <1>1 DEF WarehouseInv, CompareSound, ScanSound
<1> QED BY <1>3, <1>4, <1>5 DEF WarehouseInv

\* A clean comparison finds every row it read.
LEMMA CleanIsEqual ==
  ASSUME NEW p, NEW table, Clean(DiffKlineV2(p, DorisRows(table))), NEW c \in Candles, p[c] # 0
  PROVE  table[c] = p[c]
<1> DEFINE d == DorisRows(table)
<1>1. c \notin {x \in Candles : p[x] # 0 /\ d[x] = 0}
  BY Zenon DEF Clean, DiffKlineV2
<1>2. c \notin {x \in Candles : p[x] # 0 /\ d[x] # 0 /\ p[x] # d[x]}
  BY Zenon DEF Clean, DiffKlineV2
<1>3. d[c] # 0 /\ d[c] = p[c]
  BY Zenon, <1>1, <1>2
<1> QED BY Zenon, <1>3 DEF DorisRows

LEMMA CompareAndReplayKeeps ==
  ASSUME WarehouseInv, CompareAndReplay
  PROVE  WarehouseInv'
<1> DEFINE p == compare.through
           diff == DiffKlineV2(p, DorisRows(doris))
           fixed == diff.missing \cup diff.mismatched
           replayed == Loaded(fixed, p)
           passed == IF diff.extra # {} THEN FALSE
                     ELSE Clean(diff) \/ Clean(DiffKlineV2(p, DorisRows(replayed)))
           k == [at |-> IF passed THEN "passed" ELSE "failed", through |-> p]
<1>1. /\ compare # Quiet /\ compare.at = "current" /\ compare' = k
      /\ doris' = doris \/ doris' = replayed
      /\ UNCHANGED <<seq, writing, pg, watermark, scan, acceptance, late>>
  <2>1. compare.at = "current" /\ compare' = k
    BY Zenon DEF CompareAndReplay
  <2>2. doris' = doris \/ doris' = replayed
    BY Zenon DEF CompareAndReplay
  <2>3. UNCHANGED <<seq, writing, pg, watermark, scan, acceptance, late>>
    BY Zenon DEF CompareAndReplay
  <2>4. compare # Quiet
    BY <2>1 DEF Quiet
  <2> QED BY Zenon, <2>1, <2>2, <2>3, <2>4
<1>2. k.at \in {"passed", "failed"} /\ k.through = p
  BY Zenon
<1>3. fixed \subseteq {c \in Candles : p[c] # 0}
  BY DEF DiffKlineV2
<1>4. /\ p \in [Candles -> 0 .. seq] /\ scan = NoScan
      /\ \A c \in Candles : writing[c] # 0 => p[c] < writing[c]
      /\ \A c \in Candles : p[c] # 0 /\ pg[c] # 0 /\ p[c] # pg[c] => doris[c] # pg[c]
  BY Zenon, <1>1 DEF WarehouseInv, CompareSound
<1>5. k.at = "passed" => \A c \in Candles : p[c] # 0 => doris'[c] = p[c]
  <2> SUFFICES ASSUME k.at = "passed", NEW c \in Candles, p[c] # 0
               PROVE  doris'[c] = p[c]
    BY Zenon
  <2>1. passed
    BY Zenon
  <2>2. doris' = replayed
    BY Zenon, <2>1 DEF CompareAndReplay
  <2>3. CASE Clean(diff)
    <3>1. doris[c] = p[c]
      BY Zenon, <2>3, CleanIsEqual
    <3>2. replayed[c] \in {p[c], doris[c]}
      BY DEF Loaded
    <3> QED BY Zenon, <2>2, <3>1, <3>2
  <2>4. CASE Clean(DiffKlineV2(p, DorisRows(replayed)))
    <3> HIDE DEF replayed
    <3>1. replayed[c] = p[c]
      BY Zenon, <2>4, CleanIsEqual
    <3> QED BY Zenon, <2>2, <3>1
  <2> QED BY Zenon, <2>1, <2>3, <2>4
<1> HIDE DEF fixed, passed, diff
<1>6. /\ replayed \in [Candles -> 0 .. seq]
      /\ \A c \in Candles : replayed[c] = IF c \in fixed THEN p[c] ELSE doris[c]
  BY <1>4 DEF Loaded, WarehouseInv, Numbers
<1>7. /\ doris' \in [Candles -> 0 .. seq]
      /\ \A c \in Candles : doris'[c] = doris[c] \/ (doris'[c] = p[c] /\ p[c] # 0)
  BY Zenon, <1>1, <1>3, <1>6 DEF WarehouseInv, Numbers
<1> HIDE DEF replayed, k, p
<1>8. Numbers'
  BY Zenon, <1>1, <1>4, <1>7 DEF WarehouseInv, Numbers
<1>9. CompareSound'
  BY Zenon, <1>1, <1>2, <1>4 DEF CompareSound
<1>10. ScanSound'
  BY <1>1, <1>4 DEF ScanSound
<1>11. PassedIsEqual'
  BY Zenon, <1>1, <1>2, <1>5 DEF PassedIsEqual
<1>12. \A c \in Candles : pg[c] # 0 /\ doris'[c] # pg[c] => doris[c] # pg[c]
  BY Zenon, <1>4, <1>7
<1>13. ReplayCovers'
  BY <1>1, <1>12 DEF WarehouseInv, ReplayCovers, ReplayScanStart
<1> QED BY <1>8, <1>9, <1>10, <1>11, <1>13 DEF WarehouseInv

LEMMA RecordAcceptanceKeeps ==
  ASSUME WarehouseInv, RecordAcceptance
  PROVE  WarehouseInv'
<1>1. /\ compare # Quiet /\ compare' = Quiet /\ scan = NoScan /\ acceptance' \in {"unproven", "soaking"}
      /\ \A c \in late \ late' : doris[c] = pg[c]
      /\ UNCHANGED <<seq, writing, pg, doris, watermark, scan>>
  BY DEF RecordAcceptance, Quiet, WarehouseInv, CompareSound
<1>2. Numbers' /\ ScanSound' /\ CompareSound' /\ PassedIsEqual'
  BY Zenon, <1>1 DEF WarehouseInv, Numbers, ScanSound, CompareSound, PassedIsEqual, Quiet
<1>3. ReplayCovers'
  BY Zenon, <1>1 DEF WarehouseInv, ReplayCovers, ReplayScanStart
<1> QED BY Zenon, <1>2, <1>3 DEF WarehouseInv

LEMMA WarehouseRestartsKeeps ==
  ASSUME WarehouseInv, WarehouseRestarts
  PROVE  WarehouseInv'
BY Zenon DEF WarehouseInv, WarehouseRestarts, Numbers, ScanSound, CompareSound, ReplayCovers, PassedIsEqual, Quiet

LEMMA WarehouseStep ==
  ASSUME WarehouseInv, [WarehouseNext]_dwVars
  PROVE  WarehouseInv'
<1>1. CASE UNCHANGED dwVars
  BY <1>1 DEF dwVars, WarehouseInv, Numbers, ScanSound, IsScan, Missed, CompareSound, ReplayCovers, PassedIsEqual
<1>2. CASE \E c \in Candles : TakeNumber(c) \/ CommitCandle(c) \/ ExpireCandle(c)
  BY <1>2, TakeNumberKeeps, CommitCandleKeeps, ExpireCandleKeeps
<1>3. CASE SpendNumber \/ StartScan \/ LoadBatch \/ LoadFails
  BY <1>3, SpendNumberKeeps, StartScanKeeps, LoadBatchKeeps, LoadFailsKeeps
<1>4. CASE ReadThrough \/ ReadCurrent \/ CompareAndReplay \/ CompareFails
  BY <1>4, ReadThroughKeeps, ReadCurrentKeeps, CompareAndReplayKeeps, CompareFailsKeeps
<1>5. CASE RecordAcceptance \/ WarehouseRestarts
  BY <1>5, RecordAcceptanceKeeps, WarehouseRestartsKeeps
<1> QED BY Zenon, <1>1, <1>2, <1>3, <1>4, <1>5 DEF WarehouseNext

LEMMA WarehouseMeans == WarehouseInv => WarehouseTypeOK /\ ReplayCovers /\ PassedIsEqual
BY WarehouseAssumption DEF WarehouseInv, Numbers, WarehouseTypeOK


-----------------------------------------------------------------------------
(* DEX routes *)

LEMMA TwoTokens ==
  ASSUME NEW x \in Tokens, NEW y \in Tokens, x # y
  PROVE  {x, y} \in Pools
<1>1. IsFiniteSet({x}) /\ Cardinality({x}) = 1
  BY FS_Singleton
<1>2. Cardinality({x} \cup {y}) = 2
  BY <1>1, FS_AddElement
<1>3. {x} \cup {y} = {x, y}
  OBVIOUS
<1> QED BY <1>2, <1>3 DEF Pools

\* Every pool of a route holds a token that is queried for pools.
LEMMA RoutesAre ==
  ASSUME NEW r \in AllRoutes
  PROVE  /\ r \subseteq Pools /\ r # {}
         /\ \A p \in r : \E x \in p : x \in QuotedAssets
<1>1. PICK a \in QuotedAssets : r \in DexRoute(a)
  BY DEF AllRoutes
<1>2. a \in Tokens /\ a # Stable /\ Stable \in Tokens /\ Bridge \in Tokens /\ Bridge # Stable
  BY DexAssumption DEF QuotedAssets
<1>3. CASE r = {{a, Stable}}
  BY <1>2, <1>3, TwoTokens DEF QuotedAssets
<1>4. CASE a # Bridge /\ r = {{a, Bridge}, {Bridge, Stable}}
  <2>1. {a, Bridge} \in Pools /\ {Bridge, Stable} \in Pools
    BY <1>2, <1>4, TwoTokens
  <2> QED BY <1>2, <1>4, <2>1 DEF QuotedAssets
<1> QED BY <1>1, <1>3, <1>4 DEF DexRoute

\* The rows of a cycle under way, by route.
Stored(q, rows) ==
  \A r \in DOMAIN q.rows : IF q.rows[r] THEN rows[r] = "ok" ELSE rows[r] = "bad"

IsCycle(q) ==
  \/ q = [at |-> "idle", done |-> TRUE]
  \/ q = NoCycle
  \/ /\ q = [x \in {"at", "rows", "done"} |-> q[x]]
     /\ q.at \in {"rows", "mark", "publish"} /\ q.done = FALSE
     /\ DOMAIN q.rows \subseteq AllRoutes

DexInv ==
  /\ DexTypeOK /\ lost = {} /\ AvailableIsQuoted
  /\ IsCycle(quoting)
  /\ quoting.at \in {"mark", "publish"} => Stored(quoting, dexRows)

LEMMA DexStarts == DexInit => DexInv
<1> SUFFICES ASSUME DexInit PROVE DexInv
  OBVIOUS
<1>1. DexTypeOK
  BY DEF DexInit, DexTypeOK, NoCycle
<1>2. AvailableIsQuoted /\ lost = {}
  BY DEF DexInit, AvailableIsQuoted
<1>3. IsCycle(quoting) /\ quoting.at \notin {"mark", "publish"}
  BY DEF DexInit, IsCycle, NoCycle
<1> QED BY <1>1, <1>2, <1>3 DEF DexInv

\* A discovery keeps a route unless one of its pools was not offered or one of its
\* tokens has another identity.
LEMMA DiscoveryKeeps ==
  ASSUME DexInv, NEW mismatched, NEW failed, NEW missing, NEW unverified,
         DiscoverRoutes(mismatched, failed, missing, unverified)
  PROVE  routes' \subseteq AllRoutes /\ lost' = {}
<1> DEFINE verified == Tokens \ mismatched
           found == UNION {discoverPoolsForToken(t, missing) : t \in (verified \ {Stable}) \ failed}
           deferred == failed \cup UNION (found \cap unverified)
           resolved == {p \in found \ unverified : p \subseteq verified}
<1>0. routes \subseteq AllRoutes /\ lost = {}
  BY DEF DexInv, DexTypeOK
<1>1. CASE UNCHANGED <<routes, lost>>
  BY <1>0, <1>1
<1>2. CASE /\ routes' = mergeDeferredAMMRoutes(buildAMMRoutes(verified, resolved), routes, deferred)
           /\ lost' = {r \in routes \ routes' : r \cap missing = {}
                                             /\ RouteTokens(r) \cap mismatched = {}}
  <2>1. routes' \subseteq AllRoutes
    BY <1>0, <1>2 DEF mergeDeferredAMMRoutes, buildAMMRoutes
  <2>2. ASSUME NEW r \in routes, r \cap missing = {}, RouteTokens(r) \cap mismatched = {},
               RouteTokens(r) \cap deferred = {}
        PROVE  r \in buildAMMRoutes(verified, resolved)
    <3>1. r \in AllRoutes /\ r \subseteq Pools
      BY <1>0, RoutesAre
    <3>2. \A p \in r : p \subseteq Tokens /\ p \subseteq RouteTokens(r)
      BY <3>1 DEF Pools, RouteTokens
    <3>3. \A p \in r : p \subseteq verified
      BY Zenon, <2>2, <3>2
    <3>4. ASSUME NEW p \in r PROVE p \in resolved
      <4>1. PICK x \in p : x \in QuotedAssets
        BY <3>1, RoutesAre
      <4>2. x \in (verified \ {Stable}) \ failed
        BY <2>2, <3>2, <3>3, <4>1 DEF QuotedAssets
      <4>3. p \in discoverPoolsForToken(x, missing)
        BY <2>2, <3>1 DEF discoverPoolsForToken, normalizedPools
      <4>4. p \in found
        BY Zenon, <4>2, <4>3
      <4>5. p \notin unverified
        BY <2>2, <3>2, <4>4
      <4> QED BY <3>3, <4>4, <4>5
    <3>5. RouteTokens(r) \subseteq verified
      BY <3>3 DEF RouteTokens
    <3> QED BY <3>1, <3>4, <3>5 DEF buildAMMRoutes
  <2>3. \A r \in routes \ routes' : RouteTokens(r) \cap deferred = {}
    BY <1>2 DEF mergeDeferredAMMRoutes
  <2>4. buildAMMRoutes(verified, resolved) \subseteq routes'
    BY <1>2 DEF mergeDeferredAMMRoutes
  <2> HIDE DEF verified, resolved, deferred
  <2>5. lost' = {}
    BY Zenon, <1>2, <2>2, <2>3, <2>4
  <2> QED BY <2>1, <2>5
<1> HIDE DEF deferred
<1> QED BY <1>1, <1>2 DEF DiscoverRoutes, verifyRepresentation, verifyPool, deferred

LEMMA VenuesKeep ==
  ASSUME DexInv, PublishVenueSnapshots
  PROVE  DexInv'
<1>1. quoting.at = "publish" /\ IsCycle(quoting) /\ Stored(quoting, dexRows) /\ DexTypeOK /\ lost = {}
  BY DEF PublishVenueSnapshots, DexInv
<1>2. quoting' = [at |-> "idle", done |-> exposed # {}] /\ UNCHANGED <<routes, lost, dexRows, exposed>>
  BY DEF PublishVenueSnapshots
<1>3. PICK v \in [QuotedAssets -> {{}} \cup AllRoutes] :
        /\ \A a \in QuotedAssets : v[a] \in IF a \in exposed THEN BestRoutes(a) ELSE {{}}
        /\ venue' = IF exposed = {} THEN venue ELSE v
  BY DEF PublishVenueSnapshots, ReplaceDexVenueSnapshots
<1>4. venue' \in [QuotedAssets -> {{}} \cup AllRoutes]
  BY Zenon, <1>1, <1>3 DEF DexTypeOK
<1>5. ASSUME exposed # {}, NEW a \in QuotedAssets, v[a] # {}
      PROVE  v[a] \in DexRoute(a) /\ dexRows[v[a]] = "ok"
  <2>1. v[a] \in BestRoutes(a)
    BY Zenon, <1>3, <1>5
  <2>2. v[a] \in DOMAIN quoting.rows /\ v[a] \in DexRoute(a) /\ quoting.rows[v[a]]
    BY <1>5, <2>1 DEF BestRoutes
  <2> QED BY <1>1, <2>2 DEF Stored
<1>6. AvailableIsQuoted'
  BY Zenon, <1>2, <1>3, <1>5 DEF AvailableIsQuoted
<1>7. IsCycle(quoting') /\ quoting'.at = "idle"
  BY Zenon, <1>2 DEF IsCycle, NoCycle
<1> QED BY <1>1, <1>2, <1>4, <1>6, <1>7 DEF DexInv, DexTypeOK

\* A cycle that stores its rows, and then what it did not quote.
LEMMA RowsKeep ==
  ASSUME DexInv, UpsertDexRoutes \/ MarkUnselectedDexRoutesUnavailable
  PROVE  DexInv'
<1>1. quoting.at \in {"rows", "mark"} /\ IsCycle(quoting) /\ DexTypeOK /\ lost = {}
  BY DEF UpsertDexRoutes, MarkUnselectedDexRoutesUnavailable, DexInv
<1>2. UNCHANGED <<routes, lost, venue, exposed>>
  BY DEF UpsertDexRoutes, MarkUnselectedDexRoutesUnavailable
<1>3. PICK at \in {"mark", "publish"} : quoting' = [quoting EXCEPT !.at = at]
  BY DEF UpsertDexRoutes, MarkUnselectedDexRoutesUnavailable
<1>4. /\ quoting'.at = at /\ quoting'.done = FALSE /\ quoting'.rows = quoting.rows
      /\ IsCycle(quoting') /\ DOMAIN quoting.rows \subseteq AllRoutes
  BY <1>1, <1>3 DEF IsCycle, NoCycle
<1>5. /\ dexRows' \in [AllRoutes -> {"none", "ok", "bad", "route_not_selected"}]
      /\ Stored(quoting', dexRows')
  <2>1. CASE UpsertDexRoutes
    BY <1>1, <1>4, <2>1 DEF UpsertDexRoutes, DexTypeOK, Stored
  <2>2. CASE MarkUnselectedDexRoutesUnavailable
    BY Zenon, <1>1, <1>4, <2>2 DEF MarkUnselectedDexRoutesUnavailable, DexTypeOK, DexInv, Stored
  <2> QED BY <2>1, <2>2
<1> QED BY Zenon, <1>1, <1>2, <1>4, <1>5 DEF DexInv, DexTypeOK, AvailableIsQuoted

LEMMA DexStep ==
  ASSUME DexInv, [DexNext]_dexVars
  PROVE  DexInv'
<1>1. CASE UNCHANGED dexVars
  BY Zenon, <1>1 DEF dexVars, DexInv, DexTypeOK, AvailableIsQuoted
<1>2. ASSUME NEW mismatched, NEW failed, NEW missing, NEW unverified,
             DiscoverRoutes(mismatched, failed, missing, unverified)
      PROVE  DexInv'
  <2>1. routes' \subseteq AllRoutes /\ lost' = {}
    BY <1>2, DiscoveryKeeps
  <2>2. UNCHANGED <<quoting, dexRows, venue>>
    BY <1>2 DEF DiscoverRoutes
  <2> QED BY <2>1, <2>2 DEF DexInv, DexTypeOK, AvailableIsQuoted
<1>3. CASE StartCycle
  <2>1. PICK good \in [routes -> QuotedOK] :
          quoting' = [at |-> "rows", rows |-> good, done |-> FALSE]
    BY Zenon, <1>3 DEF StartCycle
  <2>2. DOMAIN good = routes /\ UNCHANGED <<routes, lost, dexRows, venue>>
    BY <1>3 DEF StartCycle
  <2>3. IsCycle(quoting') /\ quoting'.at = "rows" /\ quoting'.done = FALSE
    BY <2>1, <2>2 DEF IsCycle, DexInv, DexTypeOK
  <2> QED BY <2>2, <2>3 DEF DexInv, DexTypeOK, AvailableIsQuoted
<1>4. CASE CycleFails
  BY <1>4 DEF CycleFails, DexInv, DexTypeOK, AvailableIsQuoted, IsCycle, NoCycle
<1>5. CASE ExposureChanges
  BY <1>5 DEF ExposureChanges, DexInv, DexTypeOK, AvailableIsQuoted
<1> QED BY <1>1, <1>2, <1>3, <1>4, <1>5, RowsKeep, VenuesKeep DEF DexNext, Discovery, QuoteCycle

LEMMA DexMeans == DexInv => DexTypeOK /\ AvailableIsQuoted /\ TransientKeepsRoutes
BY DEF DexInv, TransientKeepsRoutes


-----------------------------------------------------------------------------
(* The price tables and the snapshots read from them *)

AnyRow == [age : 0 .. Never, contributors : Nat]

\* A row that still has a price has contributors.
Contributed(r) == r.age # Never => r.contributors > 0

JobTabs == {"all", TabVenue}

IsJob(j) ==
  /\ j = [x \in {"at", "age", "found"} |-> j[x]]
  /\ j.at \in {"indexes", "snapshots"} /\ j.age \in 0 .. Never
  /\ \A t \in JobTabs, c \in Coins : j.found[t][c] \in Nat

PriceInv ==
  /\ row \in [Tabs -> [Coins -> AnyRow]]
  /\ \A t \in Tabs, c \in Coins : Contributed(row[t][c])
  /\ picked \subseteq Coins /\ ranked \subseteq Coins
  /\ job = NoJob \/ IsJob(job)

LEMMA PriceStarts == PriceInit => PriceInv
<1> SUFFICES ASSUME PriceInit PROVE PriceInv
  OBVIOUS
<1>1. PICK priced \in BOOLEAN :
        row = [t \in Tabs |-> [c \in Coins |-> IF priced THEN [age |-> 0, contributors |-> 1]
                                               ELSE [age |-> Never, contributors |-> 0]]]
  BY DEF PriceInit
<1>2. row \in [Tabs -> [Coins -> AnyRow]] /\ \A t \in Tabs, c \in Coins : Contributed(row[t][c])
  BY <1>1 DEF AnyRow, Contributed, Never
<1> QED BY <1>2 DEF PriceInit, PriceInv

\* What a run finds for a coin is a number of venues.
LEMMA CompositesAre ==
  ASSUME NEW q, NEW x \in BuildComposite(q)
  PROVE  Contributors(x) \in Nat
<1> DEFINE S == Contributing(q)
<1>1. PICK w \in cappedNormalizedWeights(RawWeight(q, S)) : x = [raw |-> RawWeight(q, S), weight |-> w]
  BY Zenon DEF BuildComposite
<1>2. DOMAIN RawWeight(q, S) = S /\ S \subseteq Venues
  BY Zenon DEF RawWeight, Contributing, Usable
<1>3. DOMAIN w = S
  <2> DEFINE raw == RawWeight(q, S)
  <2> HIDE DEF raw
  <2>1. w \in cappedNormalizedWeights(raw) => DOMAIN w = DOMAIN raw
    BY Zenon DEF cappedNormalizedWeights, Fills
  <2> QED BY <1>1, <1>2, <2>1 DEF raw
<1>4. IsFiniteSet(S)
  BY <1>2, PriceAssumption, FS_Subset
<1> QED BY <1>1, <1>3, <1>4, FS_CardinalityType DEF Contributors

LEMMA OwnVenues ==
  ASSUME NEW q
  PROVE  Cardinality(Contributing(q)) \in Nat
<1>1. Contributing(q) \subseteq Venues
  BY DEF Contributing, Usable
<1> QED BY Zenon, <1>1, PriceAssumption, FS_Subset, FS_CardinalityType

LEMMA RunOnceKeeps ==
  ASSUME PriceInv, RunOnce
  PROVE  PriceInv'
<1>1. PICK all \in [Coins -> UNION {BuildComposite(quotes[c]) : c \in Coins}] :
        /\ \A c \in Coins : all[c] \in BuildComposite(quotes[c])
        /\ job' = [at |-> "indexes", age |-> 0,
                   found |-> [t \in JobTabs |->
                     [c \in Coins |->
                        IF t = "all" THEN Contributors(all[c])
                        ELSE Cardinality(Contributing(OwnQuotes(quotes[c])))]]]
  BY Zenon DEF RunOnce, JobTabs
<1>2. \A c \in Coins : /\ Contributors(all[c]) \in Nat
                       /\ Cardinality(Contributing(OwnQuotes(quotes[c]))) \in Nat
  BY Zenon, <1>1, CompositesAre, OwnVenues
<1>3. job'.at = "indexes" /\ job'.age = 0 /\ \A t \in JobTabs, c \in Coins : job'.found[t][c] \in Nat
  BY <1>1, <1>2
<1>4. job' = [x \in {"at", "age", "found"} |-> job'[x]]
  BY <1>1
<1>5. IsJob(job')
  BY <1>3, <1>4 DEF IsJob, Never
<1> QED BY <1>5 DEF RunOnce, PriceInv

LEMMA UpsertKeeps ==
  ASSUME PriceInv, UpsertAssetVenueSnapshots
  PROVE  PriceInv'
<1>1. IsJob(job)
  BY DEF PriceInv, UpsertAssetVenueSnapshots, NoJob
<1>2. \A t \in Tabs \ {"dex"} : t \in JobTabs
  BY DEF Tabs, JobTabs
<1>3. ASSUME NEW old \in AnyRow, NEW n \in Nat, NEW age \in 0 .. Never, Contributed(old)
      PROVE  Upserted(old, n, age) \in AnyRow /\ Contributed(Upserted(old, n, age))
  BY <1>3 DEF Upserted, AnyRow, Contributed
<1>4. \A t \in Tabs, c \in Coins : row[t][c] \in AnyRow /\ Contributed(row[t][c])
  BY DEF PriceInv
<1>5. \A t \in Tabs \ {"dex"}, c \in Coins :
        LET r == Upserted(row[t][c], job.found[t][c], job.age) IN r \in AnyRow /\ Contributed(r)
  BY <1>1, <1>2, <1>3, <1>4 DEF IsJob
<1>6. row' = [t \in Tabs |-> IF t = "dex" THEN row[t]
                             ELSE [c \in Coins |-> Upserted(row[t][c], job.found[t][c], job.age)]]
  BY Zenon DEF UpsertAssetVenueSnapshots
<1>7. row' \in [Tabs -> [Coins -> AnyRow]] /\ \A t \in Tabs, c \in Coins : Contributed(row'[t][c])
  BY Zenon, <1>4, <1>5, <1>6 DEF PriceInv
<1> QED BY Zenon, <1>7 DEF UpsertAssetVenueSnapshots, PriceInv

LEMMA AgeKeeps ==
  ASSUME PriceInv, PricesAge
  PROVE  PriceInv'
<1>1. ASSUME NEW r \in AnyRow, Contributed(r)
      PROVE  [r EXCEPT !.age = Older(@)] \in AnyRow /\ Contributed([r EXCEPT !.age = Older(@)])
  BY <1>1 DEF AnyRow, Contributed, Older, Never
<1>2. \A t \in Tabs, c \in Coins : row[t][c] \in AnyRow /\ Contributed(row[t][c])
  BY DEF PriceInv
<1>3. row' = [t \in Tabs |-> [c \in Coins |-> [row[t][c] EXCEPT !.age = Older(@)]]]
  BY DEF PricesAge
<1>4. row' \in [Tabs -> [Coins -> AnyRow]] /\ \A t \in Tabs, c \in Coins : Contributed(row'[t][c])
  BY <1>1, <1>2, <1>3
<1>5. job' = NoJob \/ IsJob(job')
  <2>1. CASE job = NoJob
    BY <2>1 DEF PricesAge
  <2>2. CASE job # NoJob
    <3>1. IsJob(job) /\ job' = [job EXCEPT !.age = Older(@)]
      BY <2>2 DEF PricesAge, PriceInv
    <3>2. /\ job' = [x \in {"at", "age", "found"} |-> job'[x]]
          /\ job'.at = job.at /\ job'.age = Older(job.age) /\ job'.found = job.found
      BY <3>1 DEF IsJob
    <3> QED BY <3>1, <3>2 DEF IsJob, Older, Never
  <2> QED BY <2>1, <2>2
<1> QED BY <1>4, <1>5 DEF PricesAge, PriceInv

LEMMA PriceStep ==
  ASSUME PriceInv, [PriceNext]_priceVars
  PROVE  PriceInv'
<1>1. CASE UNCHANGED priceVars
  BY <1>1 DEF priceVars, PriceInv
<1>2. CASE UpsertAssetPriceIndexes
  <2>1. IsJob(job) /\ job' = [job EXCEPT !.at = "snapshots"]
    BY <1>2 DEF PriceInv, UpsertAssetPriceIndexes, NoJob
  <2>2. /\ job' = [x \in {"at", "age", "found"} |-> job'[x]]
        /\ job'.at = "snapshots" /\ job'.age = job.age /\ job'.found = job.found
    BY <2>1 DEF IsJob
  <2>3. IsJob(job')
    BY <2>1, <2>2 DEF IsJob
  <2> QED BY <1>2, <2>3 DEF UpsertAssetPriceIndexes, PriceInv
<1>3. CASE RunFails \/ TickersArrive \/ SelectionRefreshed
  BY <1>3 DEF RunFails, TickersArrive, SelectionRefreshed, PriceInv
<1>4. CASE MetricsRefreshed
  BY <1>4 DEF MetricsRefreshed, PriceInv
<1>5. CASE DexPublishes
  <2>1. PICK c \in Coins : row' = [row EXCEPT !["dex"][c] = [age |-> 0, contributors |-> 1]]
    BY Zenon, <1>5 DEF DexPublishes
  <2>2. [age |-> 0, contributors |-> 1] \in AnyRow /\ Contributed([age |-> 0, contributors |-> 1])
    BY DEF AnyRow, Contributed, Never
  <2>3. row' \in [Tabs -> [Coins -> AnyRow]] /\ \A t \in Tabs, d \in Coins : Contributed(row'[t][d])
    BY <2>1, <2>2 DEF PriceInv, Tabs
  <2> QED BY <1>5, <2>3 DEF DexPublishes, PriceInv
<1> QED BY Zenon, <1>1, <1>2, <1>3, <1>4, <1>5, RunOnceKeeps, UpsertKeeps, AgeKeeps DEF PriceNext

LEMMA StatusIs ==
  ASSUME NEW t, NEW c, row[t][c].age \in 0 .. Never
  PROVE  /\ row[t][c].age = 0 => FreshnessStatus(t, c) = "fresh"
         /\ t = "dex" /\ row[t][c].age = 1 => FreshnessStatus(t, c) = "stale"
         /\ FreshnessStatus(t, c) # "unavailable" => row[t][c].age # Never
<1> DEFINE age == row[t][c].age
<1>1. age \in {0, 1, 2, 3}
  BY DEF Never
<1>2. CASE age = 0
  BY <1>2 DEF FreshnessStatus, Never
<1>3. CASE age = 3
  BY <1>3 DEF FreshnessStatus, Never
<1>4. CASE age \in {1, 2}
  BY <1>4 DEF FreshnessStatus, Never
<1> QED BY <1>1, <1>2, <1>3, <1>4

\* Every read of the composite's tab passes the checks of its overview: the priced
\* coins are the shown ones, and each has one contributor or several.
LEMMA ReadCoheres ==
  ASSUME PriceInv, picked # {}, picked \subseteq ranked, NEW t \in Tabs
  PROVE  ReadAccepted(t, ReadSnapshot(t))
<1> DEFINE read == ReadSnapshot(t)
           shown == {c \in picked : FreshnessStatus(t, c) # "unavailable"}
           one == {c \in picked : Priced(t, c) /\ row[t][c].contributors = 1}
           more == {c \in picked : Priced(t, c) /\ row[t][c].contributors >= 2}
<1>1. picked \cap ranked = picked
  OBVIOUS
<1>2. read.rows = DashboardRows(t) /\ read.summary = Summary(t)
  BY Zenon DEF ReadSnapshot
<1>3. DOMAIN read.rows = picked
  BY <1>1, <1>2 DEF DashboardRows
<1>4. ASSUME NEW c \in picked PROVE read.rows[c].status = FreshnessStatus(t, c)
  <2>1. c \in picked \cap ranked
    BY <1>1
  <2>2. DashboardRows(t)[c] = [status |-> FreshnessStatus(t, c), coverage |-> CoverageStatus(t, c)]
    BY Zenon, <2>1 DEF DashboardRows
  <2> QED BY <1>2, <2>2
<1>5. {c \in DOMAIN read.rows : read.rows[c].status # "unavailable"} = shown
  BY <1>3, <1>4
<1>6. read.summary.assets = Cardinality(picked)
  <2>1. Summary(t).assets = Cardinality(picked)
    BY Zenon DEF Summary
  <2> QED BY <1>2, <2>1
<1>7. t = "all" => /\ read.summary.priced = Cardinality(shown)
                  /\ read.summary.single + read.summary.multiple = Cardinality(shown)
  <2> SUFFICES ASSUME t = "all"
               PROVE  /\ read.summary.priced = Cardinality(shown)
                      /\ read.summary.single + read.summary.multiple = Cardinality(shown)
    OBVIOUS
  <2>1. \A c \in picked : Priced(t, c) <=> FreshnessStatus(t, c) # "unavailable"
    BY DEF Priced
  <2>2. \A c \in picked : /\ row[t][c].age \in 0 .. Never /\ row[t][c].contributors \in Nat
                          /\ Contributed(row[t][c])
    BY Zenon DEF PriceInv, AnyRow
  <2>3. \A c \in shown : row[t][c].contributors \in Nat \ {0}
    BY SMT, SMTT(30), <2>2, StatusIs DEF Contributed
  <2>4. shown = one \cup more
    BY SMT, SMTT(30), <2>1, <2>3
  <2>5. one \cap more = {}
    OBVIOUS
  <2>6. IsFiniteSet(one) /\ IsFiniteSet(more)
    <3>1. one \subseteq Coins /\ more \subseteq Coins
      BY DEF PriceInv
    <3> QED BY Zenon, <3>1, PriceAssumption, FS_Subset
  <2>7. Cardinality(one \cup more)
          = Cardinality(one) + Cardinality(more) - Cardinality(one \cap more)
    BY Zenon, <2>6, FS_Union
  <2>8. Cardinality(one) \in Nat /\ Cardinality(more) \in Nat /\ Cardinality(one \cap more) = 0
    <3>1. Cardinality(one) \in Nat /\ Cardinality(more) \in Nat
      BY Zenon, <2>6, FS_CardinalityType
    <3>2. Cardinality(one \cap more) = 0
      BY Zenon, <2>5, FS_EmptySet
    <3> QED BY Zenon, <3>1, <3>2
  <2>9. {c \in picked : Priced(t, c)} = shown
    BY <2>1
  <2>10. /\ Summary(t).priced = Cardinality({c \in picked : Priced(t, c)})
         /\ Summary(t).single = Cardinality(one)
         /\ Summary(t).multiple = Cardinality(more)
    BY Zenon DEF Summary
  <2>11. Summary(t).priced = Cardinality(shown)
    BY Zenon, <2>9, <2>10
  <2>12. Cardinality(shown) = Cardinality(one) + Cardinality(more) - 0
    BY Zenon, <2>4, <2>7, <2>8
  <2> HIDE DEF one, more, shown, read
  <2>13. Cardinality(shown) = Cardinality(one) + Cardinality(more)
    BY <2>8, <2>12
  <2>14. Summary(t).single + Summary(t).multiple = Cardinality(shown)
    BY Zenon, <2>10, <2>13
  <2> QED BY Zenon, <1>2, <2>11, <2>14
<1>8. DOMAIN read.rows # {} /\ read.summary.assets = Cardinality(DOMAIN read.rows)
  BY Zenon, <1>3, <1>6
<1>9. t = "all" =>
        LET rows == {c \in DOMAIN read.rows : read.rows[c].status # "unavailable"}
        IN  /\ read.summary.priced = Cardinality(rows)
            /\ read.summary.single + read.summary.multiple = Cardinality(rows)
  BY Zenon, <1>5, <1>7
<1> QED BY Zenon, <1>8, <1>9 DEF ReadAccepted

LEMMA PriceMeans == PriceInv => DashboardCoherent
<1> SUFFICES ASSUME PriceInv PROVE DashboardCoherent
  BY Zenon
<1>1. ASSUME NEW t \in Tabs \ {"all"}, NEW c \in Coins, TickAvailable(t, c)
      PROVE  FreshnessStatus(t, c) # "unavailable"
  <2>1. row[t][c].age \in 0 .. Never
    BY DEF PriceInv, AnyRow
  <2>2. row[t][c].age = 0 \/ (t = "dex" /\ row[t][c].age = 1)
    BY <1>1, <2>1 DEF TickAvailable
  <2> QED BY <2>1, <2>2, StatusIs
<1> QED BY <1>1, ReadCoheres DEF DashboardCoherent

-----------------------------------------------------------------------------
(* The snapshot store *)

LEMMA BucketsFinite == Buckets \subseteq Nat /\ IsFiniteSet(Buckets) /\ 1 \in Buckets
BY StoreAssumption, FS_Interval DEF Buckets

LEMMA LeastBucket ==
  ASSUME NEW S, S # {}, S \subseteq Buckets
  PROVE  \E m \in S : \A k \in S : m <= k
<1>1. S \subseteq Nat
  BY BucketsFinite
<1>2. PICK m \in S : \A k \in S : ~(<<k, m>> \in OpToRel(<, Nat))
  BY Zenon, <1>1, WFMin, NatLessThanWellFounded
<1>3. \A k \in S : ~(k < m)
  BY Zenon, <1>1, <1>2 DEF OpToRel
<1> QED BY <1>1, <1>3

\* What the script leaves after its evictions fits the maximum.
LEMMA VictimsGo ==
  ASSUME NEW keys, keys \subseteq Buckets
  PROVE  Cardinality(keys \ Victims(keys)) <= MaxItems
<1> DEFINE kept == keys \ Victims(keys)
<1>1. CASE kept = {}
  BY <1>1, StoreAssumption, FS_EmptySet
<1>2. CASE kept # {}
  <2>1. PICK m \in kept : \A k \in kept : m <= k
    BY Zenon, <1>2, LeastBucket
  <2> DEFINE above == {l \in keys : l >= m}
  <2>2. kept \subseteq above
    BY Zenon, <2>1, BucketsFinite
  <2>3. IsFiniteSet(above)
    BY Zenon, BucketsFinite, FS_Subset
  <2>4. Cardinality(above) \in Nat /\ ~(Cardinality(above) > MaxItems)
    BY <2>1, <2>3, FS_CardinalityType DEF Victims
  <2>5. Cardinality(kept) <= Cardinality(above) /\ Cardinality(kept) \in Nat
    BY <2>2, <2>3, FS_Subset, FS_CardinalityType
  <2> HIDE DEF kept, above
  <2> QED BY <2>4, <2>5, StoreAssumption DEF kept
<1> QED BY <1>1, <1>2

LEMMA ReadIsRead == \A t : ReadSnapshot(t) # NoRead
<1> SUFFICES ASSUME NEW t PROVE DOMAIN ReadSnapshot(t) # DOMAIN NoRead
  OBVIOUS
<1> QED BY DEF ReadSnapshot, NoRead

Underway(a) ==
  /\ a.at \in {"building", "storing", "lost race"} => a.id \in Buckets
  /\ a.at = "storing" => a.read # NoRead

\* What was answered under an ID whose key was never lost is what the key holds.
KeyHolds(b) == b \in forgotten \/ \A r \in served[b] : r = stored[b] /\ r # NoRead

StoreInv ==
  /\ bucket \in Buckets
  /\ ordered \subseteq Buckets /\ Cardinality(ordered) <= MaxItems
  /\ DOMAIN stored = Buckets /\ \A b \in Buckets : stored[b] # NoRead => b \in ordered
  /\ served = [b \in Buckets |-> served[b]] /\ \A b \in Buckets : KeyHolds(b)
  /\ api = [i \in Instances |-> api[i]] /\ \A i \in Instances : Underway(api[i])

LEMMA StoreStarts == StoreInit => StoreInv
<1> SUFFICES ASSUME StoreInit PROVE StoreInv
  OBVIOUS
<1>1. Cardinality(ordered) = 0 /\ bucket \in Buckets
  BY FS_EmptySet, BucketsFinite DEF StoreInit
<1>2. /\ ordered \subseteq Buckets /\ Cardinality(ordered) <= MaxItems
      /\ DOMAIN stored = Buckets /\ \A b \in Buckets : stored[b] # NoRead => b \in ordered
  BY <1>1, StoreAssumption DEF StoreInit
<1>3. served = [b \in Buckets |-> served[b]] /\ \A b \in Buckets : KeyHolds(b)
  BY DEF StoreInit, KeyHolds
<1>4. api = [i \in Instances |-> api[i]] /\ \A i \in Instances : Underway(api[i])
  BY Zenon DEF StoreInit, Underway, Waiting
<1> QED BY <1>1, <1>2, <1>3, <1>4 DEF StoreInv

\* Answering with what the key holds keeps one read per ID.
LEMMA AnswerKeeps ==
  ASSUME StoreInv, NEW b \in Buckets, stored[b] # NoRead, Answer(b, stored[b]),
         UNCHANGED <<bucket, stored, ordered, forgotten>>,
         api' = [i \in Instances |-> api'[i]], \A i \in Instances : Underway(api'[i])
  PROVE  StoreInv'
<1>1. /\ served' = [k \in Buckets |-> served'[k]]
      /\ \A k \in Buckets : served'[k] = IF k = b THEN served[k] \cup {stored[b]} ELSE served[k]
  BY Zenon DEF StoreInv, Answer
<1>2. \A k \in Buckets : KeyHolds(k)'
  BY <1>1 DEF StoreInv, KeyHolds
<1> QED BY <1>1, <1>2 DEF StoreInv

LEMMA ResolveKeeps ==
  ASSUME StoreInv, NEW i \in Instances, ResolveExplicit(i) \/ ResolveCurrent(i)
  PROVE  StoreInv'
<1>1. CASE ResolveExplicit(i)
  <2>1. PICK b \in Buckets : Readable(b) /\ Answer(b, stored[b])
    BY Zenon, <1>1 DEF ResolveExplicit
  <2> QED BY <1>1, <2>1, AnswerKeeps DEF ResolveExplicit, Readable, StoreInv
<1>2. CASE ResolveCurrent(i) /\ Readable(bucket)
  BY Zenon, <1>2, AnswerKeeps DEF ResolveCurrent, Readable, StoreInv
<1>3. CASE ResolveCurrent(i) /\ ~Readable(bucket)
  <2>1. api' = [api EXCEPT ![i] = [at |-> "building", id |-> bucket]]
    BY <1>3 DEF ResolveCurrent
  <2>2. Underway([at |-> "building", id |-> bucket])
    BY Zenon DEF Underway, StoreInv
  <2>3. api' = [j \in Instances |-> api'[j]] /\ \A j \in Instances : Underway(api'[j])
    BY <2>1, <2>2 DEF StoreInv
  <2> QED BY <1>3, <2>3 DEF ResolveCurrent, StoreInv, KeyHolds
<1> QED BY <1>1, <1>2, <1>3

LEMMA BuildKeeps ==
  ASSUME StoreInv, NEW i \in Instances, BuildSnapshot(i)
  PROVE  StoreInv'
<1> DEFINE done == [at |-> "storing", id |-> api[i].id, read |-> ReadSnapshot("all")]
<1>1. api' = [api EXCEPT ![i] = IF ReadAccepted("all", ReadSnapshot("all")) THEN done ELSE Waiting]
  BY DEF BuildSnapshot
<1>2. Underway(done) /\ Underway(Waiting)
  <2>1. api[i].id \in Buckets
    BY Zenon DEF BuildSnapshot, StoreInv, Underway
  <2> QED BY Zenon, <2>1, ReadIsRead DEF Underway, Waiting
<1>3. api' = [j \in Instances |-> api'[j]] /\ \A j \in Instances : Underway(api'[j])
  <2> HIDE DEF done
  <2> QED BY <1>1, <1>2 DEF StoreInv
<1> QED BY <1>3 DEF BuildSnapshot, StoreInv, KeyHolds

LEMMA WinnerKeeps ==
  ASSUME StoreInv, NEW i \in Instances, ReadWinner(i)
  PROVE  StoreInv'
<1>1. api[i].id \in Buckets
  BY Zenon DEF ReadWinner, StoreInv, Underway
<1>2. api' = [j \in Instances |-> api'[j]] /\ \A j \in Instances : Underway(api'[j])
  BY Zenon DEF ReadWinner, StoreInv, Underway, Waiting
<1>3. CASE Readable(api[i].id)
  BY Zenon, <1>1, <1>2, <1>3, AnswerKeeps DEF ReadWinner, Readable
<1>4. CASE ~Readable(api[i].id)
  BY Zenon, <1>2, <1>4 DEF ReadWinner, StoreInv, KeyHolds
<1> QED BY <1>3, <1>4

\* The script of store() creates an absent key only, so that what an unforgotten ID
\* was answered with, nothing so far, is what its key now holds.
LEMMA CreateKeeps ==
  ASSUME StoreInv, NEW i \in Instances, NEW replyLost \in BOOLEAN, StoreSnapshot(i, replyLost),
         Creates(api[i].id)
  PROVE  StoreInv'
<1> DEFINE b == api[i].id
           read == api[i].read
           keys == ordered \cup {b}
           gone == Victims(keys)
<1>1. b \in Buckets /\ read # NoRead /\ stored[b] = NoRead
  BY Zenon DEF StoreSnapshot, Creates, StoreInv, Underway
<1>2. /\ stored' = [k \in Buckets |-> IF k \in gone THEN NoRead ELSE IF k = b THEN read ELSE stored[k]]
      /\ ordered' = keys \ gone
      /\ forgotten' = forgotten \cup gone
      /\ IF replyLost THEN UNCHANGED served ELSE Answer(b, read)
      /\ api' = [api EXCEPT ![i] = Waiting]
      /\ bucket' = bucket
  BY Zenon DEF StoreSnapshot
<1>3. keys \subseteq Buckets
  BY <1>1 DEF StoreInv
<1>4. ordered' \subseteq Buckets /\ Cardinality(ordered') <= MaxItems
  BY Zenon, <1>2, <1>3, VictimsGo
<1> HIDE DEF b, read, gone
<1>5. \A k \in Buckets : stored'[k] # NoRead => k \in ordered'
  BY <1>2 DEF StoreInv
<1>6. /\ served' = [k \in Buckets |-> served'[k]]
      /\ \A k \in Buckets : served'[k] = IF k = b /\ ~replyLost THEN served[k] \cup {read} ELSE served[k]
  BY Zenon, <1>1, <1>2 DEF StoreInv, Answer
<1>7. ASSUME NEW k \in Buckets, k \notin forgotten', NEW r \in served'[k]
      PROVE  r = stored'[k] /\ r # NoRead
  <2>1. k \notin forgotten /\ k \notin gone
    BY Zenon, <1>2, <1>7
  <2>2. \A x \in served[k] : x = stored[k] /\ x # NoRead
    BY <2>1 DEF StoreInv, KeyHolds
  <2>3. CASE k = b
    BY <1>1, <1>2, <1>6, <1>7, <2>1, <2>2, <2>3
  <2>4. CASE k # b
    BY Zenon, <1>2, <1>6, <1>7, <2>1, <2>2, <2>4
  <2> QED BY Zenon, <2>3, <2>4
<1>8. \A k \in Buckets : KeyHolds(k)'
  BY <1>7 DEF KeyHolds
<1>9. api' = [j \in Instances |-> api'[j]] /\ \A j \in Instances : Underway(api'[j])
  BY Zenon, <1>2 DEF StoreInv, Underway, Waiting
<1>10. DOMAIN stored' = Buckets /\ bucket' \in Buckets
  BY <1>2 DEF StoreInv
<1> QED BY <1>4, <1>5, <1>6, <1>8, <1>9, <1>10 DEF StoreInv

LEMMA LostRaceKeeps ==
  ASSUME StoreInv, NEW i \in Instances, NEW replyLost \in BOOLEAN, StoreSnapshot(i, replyLost),
         ~Creates(api[i].id)
  PROVE  StoreInv'
<1> DEFINE next == IF replyLost THEN Waiting ELSE [at |-> "lost race", id |-> api[i].id]
<1>1. api' = [api EXCEPT ![i] = next] /\ UNCHANGED <<bucket, stored, ordered, forgotten, served>>
  BY Zenon DEF StoreSnapshot
<1>2. Underway(next)
  BY Zenon DEF StoreSnapshot, StoreInv, Underway, Waiting
<1>3. api' = [j \in Instances |-> api'[j]] /\ \A j \in Instances : Underway(api'[j])
  <2> HIDE DEF next
  <2> QED BY <1>1, <1>2 DEF StoreInv
<1> QED BY Zenon, <1>1, <1>3 DEF StoreInv, KeyHolds

LEMMA ExpiryKeeps ==
  ASSUME StoreInv, KeyExpires
  PROVE  StoreInv'
<1>1. PICK b \in Buckets : /\ stored' = [stored EXCEPT ![b] = NoRead]
                           /\ forgotten' = forgotten \cup {b}
  BY Zenon DEF KeyExpires
<1>2. \A k \in Buckets : stored'[k] # NoRead => k \in ordered
  BY <1>1 DEF StoreInv
<1>3. \A k \in Buckets : KeyHolds(k)'
  BY <1>1 DEF KeyExpires, StoreInv, KeyHolds
<1> QED BY <1>1, <1>2, <1>3 DEF KeyExpires, StoreInv

LEMMA StoreStep ==
  ASSUME StoreInv, [StoreNext]_storeVars
  PROVE  StoreInv'
<1>1. CASE UNCHANGED storeVars
  BY <1>1 DEF storeVars, StoreInv, KeyHolds
<1>2. CASE NextBucket
  <2>1. bucket' \in Buckets
    BY <1>2, StoreAssumption DEF NextBucket, Buckets, StoreInv
  <2> QED BY <1>2, <2>1 DEF NextBucket, StoreInv, KeyHolds
<1>3. CASE StoreNext /\ ~NextBucket
  BY <1>3, ExpiryKeeps, ResolveKeeps, BuildKeeps, WinnerKeeps, CreateKeeps, LostRaceKeeps DEF StoreNext
<1> QED BY <1>1, <1>2, <1>3

LEMMA StoreMeans == StoreInv => StoreTypeOK /\ OneReadPerID
<1> SUFFICES ASSUME StoreInv PROVE StoreTypeOK /\ OneReadPerID
  OBVIOUS
<1>1. ASSUME NEW b \in Buckets, b \notin forgotten
      PROVE  Cardinality(served[b]) <= 1
  <2>1. served[b] \subseteq {stored[b]}
    BY <1>1 DEF StoreInv, KeyHolds
  <2>2. IsFiniteSet({stored[b]}) /\ Cardinality({stored[b]}) = 1
    BY Zenon, FS_Singleton
  <2> QED BY <2>1, <2>2, FS_Subset
<1> QED BY <1>1 DEF StoreInv, StoreTypeOK, OneReadPerID
=============================================================================
