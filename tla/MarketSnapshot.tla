--------------------------- MODULE MarketSnapshot ---------------------------
(***************************************************************************)
(* The single write path of a market's current snapshot: a feed's ticker   *)
(* is normalised (crawler/spot_ticker_supervisor.go), PostgreSQL decides   *)
(* under the row lock whether it is newer (database/symbol_market.go), and *)
(* the Redis keys derived from it follow (marketdata/snapshot_writer.go).  *)
(* A market is written by its stream session and by the REST reconciler at *)
(* the same time.                                                          *)
(***************************************************************************)
EXTENDS Integers, Sequences, FiniteSets

CONSTANTS Writers,         \* the goroutines that write the market
          Tickers,         \* the upstream tickers, before normalisation
          LastInstant,     \* the clock runs from 1 to LastInstant
          MaxWriteFaults   \* failed transactions, Redis commands and crashes

VARIABLES instant,         \* wall clock
          market,          \* the symbol_market row, or NoRow
          rowLock,         \* the writer whose transaction holds the row lock
          writer,          \* writer -> its Write call
          redis,           \* cache key -> content
          accepted,        \* contents the row has had
          writeFaults

snapshotVars == <<instant, market, rowLock, writer, redis, accepted, writeFaults>>

Absent == "absent"         \* a missing upstream value
Malformed == "malformed"   \* a value that does not parse
Derived == "derived"       \* a change computed from the opening price
Untimed == 0               \* no source time

ASSUME SnapshotAssumption ==
  LastInstant \in Nat \ {0} /\ MaxWriteFaults \in Nat /\ "free" \notin Writers

NoContent == [price |-> Absent, change |-> Absent]
NoRow == [content |-> NoContent, source |-> Untimed, observed |-> 0]
Free == "free"
Resting == [at |-> "idle"]

\* normalizedTickerSnapshot: price required, bid and ask fall back to it, and
\* the 24h change is the given one or follows from the opening price.
Normalizes(t) == t.last # Malformed /\ t.change # Malformed /\ t.open # Malformed

normalizedTickerSnapshot(t) ==
  [price |-> t.last,
   change |-> IF t.change = Absent /\ t.open # Absent THEN Derived ELSE t.change]

Contents == {normalizedTickerSnapshot(t) : t \in {u \in Tickers : Normalizes(u)}}

SnapshotInit ==
  /\ instant = 1
  /\ market = NoRow
  /\ rowLock = Free
  /\ writer = [w \in Writers |-> Resting]
  /\ redis = [k \in {"price", "askPrice", "bidPrice", "volume", "rank"} |-> NoContent]
  /\ accepted = {}
  /\ writeFaults = 0

\* writeProviderTickers for one market: a ticker that is rejected is skipped.
WriteTicker(w, t, source) ==
  /\ writer[w] = Resting
  /\ source \in Untimed .. instant
  /\ Normalizes(t)
  /\ writer' = [writer EXCEPT ![w] =
                  [at |-> "select", content |-> normalizedTickerSnapshot(t),
                   source |-> source, observed |-> instant]]
  /\ UNCHANGED <<instant, market, rowLock, redis, accepted, writeFaults>>

\* Mutant: the ordering decision reads the row without locking it.
MutantUnlocked(w) == TRUE

\* SELECT ... FOR UPDATE waits for the transaction that holds the row; a
\* market without a row has nothing to lock.
LockGranted(w) == rowLock = Free

SelectForUpdate(w) ==
  /\ writer[w].at = "select"
  /\ LockGranted(w)
  /\ rowLock' = IF market = NoRow THEN rowLock ELSE w
  /\ writer' = [writer EXCEPT ![w] =
                  [at |-> "apply", content |-> @.content, source |-> @.source,
                   observed |-> @.observed, current |-> market]]
  /\ UNCHANGED <<instant, market, redis, accepted, writeFaults>>

equalSnapshotContent(current, in) == current.content = in.content

decideMarketSnapshot(current, in) ==
  LET timed == current.source # Untimed /\ in.source # Untimed
      later == in.observed > current.observed
      equal == equalSnapshotContent(current, in)
      older == timed /\ in.source < current.source
      same == timed /\ in.source = current.source
  IN CASE older -> "discarded"
       [] same /\ equal -> "noop"
       [] same /\ ~equal -> IF later THEN "correction" ELSE "discarded"
       [] ~older /\ ~same /\ equal -> IF later THEN "observed" ELSE "noop"
       [] ~older /\ ~same /\ ~equal -> "updated"

Unlocked(w) == IF rowLock = w THEN Free ELSE rowLock

\* Mutant: the cache follows whatever the database decided.
MutantCacheAll(action) == TRUE

\* SnapshotWriter.Write goes on to Redis unless the observation was discarded.
RefreshesCache(action) == action # "discarded"

\* The rest of ApplyMarketSnapshot and its commit. Two first writers insert the
\* same market_id, and the second one fails on the unique index.
ApplyMarketSnapshot(w) ==
  LET in == writer[w]
      row == [content |-> in.content, source |-> in.source, observed |-> in.observed]
      action == CASE in.current # NoRow -> decideMarketSnapshot(in.current, in)
                  [] in.current = NoRow /\ market = NoRow -> "inserted"
                  [] in.current = NoRow /\ market # NoRow -> "error"
  IN /\ in.at = "apply"
     /\ market' = IF action \in {"inserted", "updated", "observed", "correction"}
                  THEN row ELSE market
     /\ accepted' = IF market' = market THEN accepted ELSE accepted \cup {in.content}
     /\ rowLock' = Unlocked(w)
     /\ writer' = [writer EXCEPT ![w] =
                     IF action # "error" /\ RefreshesCache(action)
                     THEN [at |-> "cache", content |-> in.content,
                           left |-> <<"price", "askPrice", "bidPrice", "volume">>]
                     ELSE Resting]
     /\ UNCHANGED <<instant, redis, writeFaults>>

Fault == writeFaults < MaxWriteFaults /\ writeFaults' = writeFaults + 1

TransactionFails(w) ==
  /\ writer[w].at \in {"select", "apply"}
  /\ Fault
  /\ rowLock' = Unlocked(w)
  /\ writer' = [writer EXCEPT ![w] = Resting]
  /\ UNCHANGED <<instant, market, redis, accepted>>

\* One SET of the loop; a failed one is logged and the next is tried.
SetCacheKey(w) ==
  LET key == Head(writer[w].left)
  IN /\ writer[w].at = "cache"
     /\ writer[w].left # <<>>
     /\ writer' = [writer EXCEPT ![w].left = Tail(@)]
     /\ \/ redis' = [redis EXCEPT ![key] = writer[w].content] /\ UNCHANGED writeFaults
        \/ Fault /\ UNCHANGED redis
     /\ UNCHANGED <<instant, market, rowLock, accepted>>

\* ZREM without a change, ZADD with one.
UpdateRank(w) ==
  LET score == IF writer[w].content.change = Absent THEN NoContent ELSE writer[w].content
  IN /\ writer[w].at = "cache"
     /\ writer[w].left = <<>>
     /\ writer' = [writer EXCEPT ![w] = Resting]
     /\ \/ redis' = [redis EXCEPT !["rank"] = score] /\ UNCHANGED writeFaults
        \/ Fault /\ UNCHANGED redis
     /\ UNCHANGED <<instant, market, rowLock, accepted>>

\* The price keys carry a TTL, the rank does not.
CacheExpires(key) ==
  /\ key # "rank"
  /\ redis[key] # NoContent
  /\ Fault
  /\ redis' = [redis EXCEPT ![key] = NoContent]
  /\ UNCHANGED <<instant, market, rowLock, writer, accepted>>

CrawlerDies ==
  /\ Fault
  /\ rowLock' = Free
  /\ writer' = [w \in Writers |-> Resting]
  /\ UNCHANGED <<instant, market, redis, accepted>>

ClockTicks ==
  /\ instant < LastInstant
  /\ instant' = instant + 1
  /\ UNCHANGED <<market, rowLock, writer, redis, accepted, writeFaults>>

SnapshotNext ==
  \/ ClockTicks \/ CrawlerDies
  \/ \E key \in DOMAIN redis : CacheExpires(key)
  \/ \E w \in Writers :
       \/ \E t \in Tickers, source \in Untimed .. LastInstant : WriteTicker(w, t, source)
       \/ SelectForUpdate(w) \/ ApplyMarketSnapshot(w) \/ TransactionFails(w)
       \/ SetCacheKey(w) \/ UpdateRank(w)
-----------------------------------------------------------------------------
SnapshotTypeOK ==
  /\ instant \in 1 .. LastInstant
  /\ market = NoRow \/ (market.content \in Contents /\ market.source \in Untimed .. instant)
  /\ rowLock \in Writers \cup {Free}
  /\ \A w \in Writers : writer[w].at \in {"idle", "select", "apply", "cache"}
  /\ writeFaults \in 0 .. MaxWriteFaults

(* The row lock makes the ordering decision of ApplyMarketSnapshot hold when    *)
(* it is written: whatever two feeds of one market interleave, a row with a     *)
(* source time is never replaced by an observation of an earlier one, and at    *)
(* one source time the content only changes to a later observation.             *)
SnapshotForward ==
  [][market # NoRow /\ market' # market /\ market.source # Untimed /\ market'.source # Untimed
     => \/ market'.source > market.source
        \/ market'.source = market.source /\ market'.observed > market.observed]_snapshotVars

(* Redis is derived: whatever the order in which two writers' commands reach it, *)
(* and whichever of them are lost, no key or rank shows a content that the row   *)
(* never had (SnapshotWriter.Write returns before the cache on a discard).       *)
CacheAccepted ==
  \A k \in DOMAIN redis : redis[k] = NoContent \/ redis[k] \in accepted
=============================================================================
