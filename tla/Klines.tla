------------------------------- MODULE Klines -------------------------------
(***************************************************************************)
(* Candles of one exchange market (crawler/cex_kline_supervisor.go): the   *)
(* crawler stores the provider's minutes page by page and derives a longer *)
(* bar from every bucket a page touches; the worker scans for gaps and     *)
(* files repair tasks (worker/worker.go, database/kline_repair.go), which  *)
(* the crawler claims, refetches and verifies; retention deletes old       *)
(* minutes.  Minutes are numbered from 0, `clock` is the one in progress.  *)
(***************************************************************************)
EXTENDS Integers, FiniteSets, Sequences, FiniteSetsExt

CONSTANTS LastMinute,    \* minutes 0 .. LastMinute
          BucketSize,    \* minutes in a derived bar
          PageLimit,     \* minutes in a provider page
          Scanned,       \* interval -> how far back the gap scanner looks
          MinuteKeep,    \* retention of minutes (KlineRetentionCutoff)
          Sparsities,    \* the sets of minutes without a trade to try
          MaxAttempts,   \* attempts of a repair task before it is given up
          MaxKlineFaults \* provider and database errors, crashes

VARIABLES clock,         \* the minute in progress
          sparse,        \* minutes without a trade: the provider has no candle
          minutes,       \* symbol_kline, 1m: minute -> "none", "live" or "final"
          bars,          \* symbol_kline, derived: bucket -> the minutes it was made of
          pass,          \* the crawler goroutine
          tasks,         \* kline_repair_task: gap -> its row
          selected,      \* the market is in the provider's K-line selection
          interrupted,   \* buckets whose page was stored and not aggregated
          klineFaults

klineVars == <<clock, sparse, minutes, bars, pass, tasks, selected, interrupted, klineFaults>>

Minutes == 0 .. LastMinute
BucketsOf == 0 .. LastMinute \div BucketSize
Bucket(m) == m \div BucketSize
In(b) == {m \in Minutes : Bucket(m) = b}
NoBar == {}
Sleeping == [at |-> "idle"]
NoGap == [interval |-> "sync", from |-> 0, to |-> 0]
NoTask == [status |-> "none", attempts |-> 0, stale |-> FALSE]

\* A gap is a range of missing opens of one interval, as RepairTaskKey has it.
Gaps == {[interval |-> i, from |-> f, to |-> t] :
           i \in {"minute", "bar"}, f \in Minutes, t \in 1 .. LastMinute + 1}

KlineInit ==
  /\ clock \in Minutes
  /\ sparse \in Sparsities
  /\ minutes = [m \in Minutes |-> "none"]
  /\ bars = [b \in BucketsOf |-> NoBar]
  /\ pass = Sleeping
  /\ tasks = [g \in {} |-> NoTask]
  /\ selected = TRUE
  /\ interrupted = {}
  /\ klineFaults = 0

Task(g) == IF g \in DOMAIN tasks THEN tasks[g] ELSE NoTask
SetTask(g, row) == tasks' = [k \in DOMAIN tasks \cup {g} |-> IF k = g THEN row ELSE tasks[k]]
KlineFault == klineFaults < MaxKlineFaults /\ klineFaults' = klineFaults + 1

MinuteCloses ==
  /\ clock < LastMinute
  /\ clock' = clock + 1
  /\ UNCHANGED <<sparse, minutes, bars, pass, tasks, selected, interrupted, klineFaults>>

\* ReconcileProviderKlineSelection: another market of the asset may have the
\* larger turnover, and this one then loses kline_enabled.
ReconcileProviderKlineSelection ==
  /\ pass = Sleeping
  /\ KlineFault
  /\ selected' = ~selected
  /\ UNCHANGED <<clock, sparse, minutes, bars, pass, tasks, interrupted>>
-----------------------------------------------------------------------------
Latest == {m \in Minutes : minutes[m] # "none"}

\* The first minute still kept; older ones are neither stored nor wanted.
RetentionCutoff(now) == now - MinuteKeep

\* syncMarket: from two minutes before the newest stored one.
SyncMarket ==
  /\ pass = Sleeping
  /\ selected
  /\ pass' = [at |-> "page", task |-> NoGap, end |-> clock + 1,
              cursor |-> IF Latest = {} THEN 0 ELSE Max({0, Max(Latest) - 2})]
  /\ UNCHANGED <<clock, sparse, minutes, bars, tasks, selected, interrupted, klineFaults>>

PageEnd == Min({pass.cursor + PageLimit, pass.end})

\* The provider's candles of the page: none for a minute without a trade, an
\* unfinished one for the minute in progress.
Fetch1m(from, to) == {m \in from .. to - 1 : m <= clock /\ m \notin sparse}

\* StoreSymbolKlines: upsert what retention would keep.
StoreSymbolKlines(rows) ==
  minutes' = [m \in Minutes |->
                IF m \in rows /\ m >= RetentionCutoff(clock)
                THEN IF m = clock THEN "live" ELSE "final"
                ELSE minutes[m]]

\* fetchStoreRange, first half of a page.
FetchStorePage ==
  LET rows == Fetch1m(pass.cursor, PageEnd)
  IN /\ pass.at = "page"
     /\ pass.cursor < pass.end
     /\ StoreSymbolKlines(rows)
     /\ pass' = [at |-> "aggregate", task |-> pass.task, end |-> pass.end,
                 cursor |-> pass.cursor, touched |-> {Bucket(m) : m \in rows}]
     /\ UNCHANGED <<clock, sparse, bars, tasks, selected, interrupted, klineFaults>>

\* aggregateOneMinuteBucket: complete only when every minute up to the one in
\* progress is there.
Expected(b) == {m \in In(b) : m <= clock}
Aggregate(b) ==
  IF \A m \in Expected(b) : minutes[m] # "none"
  THEN {<<m, minutes[m]>> : m \in Expected(b)}
  ELSE bars[b]

MutantNewestOnly(touched) == IF touched = {} THEN {} ELSE {Max(touched)}

\* aggregateAffectedBuckets: every bucket with a row of the page.
Affected(touched) == touched

\* The second half of a page.
AggregatePage ==
  /\ pass.at = "aggregate"
  /\ bars' = [b \in BucketsOf |-> IF b \in Affected(pass.touched) THEN Aggregate(b) ELSE bars[b]]
  /\ interrupted' = interrupted \ pass.touched
  /\ pass' = [at |-> "page", task |-> pass.task, end |-> pass.end, cursor |-> PageEnd]
  /\ UNCHANGED <<clock, sparse, minutes, tasks, selected, klineFaults>>

SyncDone ==
  /\ pass.at = "page"
  /\ pass.task = NoGap
  /\ pass.cursor >= pass.end
  /\ pass' = Sleeping
  /\ UNCHANGED <<clock, sparse, minutes, bars, tasks, selected, interrupted, klineFaults>>
-----------------------------------------------------------------------------
Present(i) == IF i = "minute" THEN {m \in Minutes : minutes[m] # "none"}
              ELSE {b * BucketSize : b \in {c \in BucketsOf : bars[c] # NoBar}}
Step(i) == IF i = "minute" THEN 1 ELSE BucketSize
Opens(i, from, to) == {m \in from .. to - 1 : m % Step(i) = 0}

\* FindKlineGaps: the maximal runs of missing opens in the scanned window,
\* which ends before the open in progress.
FindKlineGaps(i) ==
  LET end == (clock \div Step(i)) * Step(i)
      start == Max({0, end - Scanned[i]})
      missing == Opens(i, start, end) \ Present(i)
      Run(f, t) == f < t /\ Opens(i, f, t) \subseteq missing
  IN {g \in Gaps : /\ g.interval = i
                   /\ g.from \in missing /\ g.to - Step(i) \in missing /\ Run(g.from, g.to)
                   /\ g.from - Step(i) \notin missing /\ g.to \notin missing}

\* UpsertRepairTasks: a new gap is pending; only a completed row is reopened.
UpsertRepairTask(g) ==
  IF Task(g).status \in {"none", "completed"}
  THEN [status |-> "pending", attempts |-> 0, stale |-> FALSE]
  ELSE tasks[g]

\* scanKlineGaps, every five minutes, in the worker process.
ScanKlineGaps ==
  LET found == FindKlineGaps("minute") \cup FindKlineGaps("bar")
  IN /\ selected
     /\ \E g \in found : Task(g).status \in {"none", "completed"}
     /\ tasks' = [g \in DOMAIN tasks \cup found |->
                    IF g \in found THEN UpsertRepairTask(g) ELSE tasks[g]]
     /\ UNCHANGED <<clock, sparse, minutes, bars, pass, selected, interrupted, klineFaults>>

MutantNoReclaim(g) == tasks[g].status = "pending"

\* A pending row, or a running one whose lock is older than ten minutes.
Claimable(g) == tasks[g].status = "pending" \/ (tasks[g].status = "running" /\ tasks[g].stale)

\* ClaimRepairTasks, then the task's refetch begins.
ClaimRepairTask(g) ==
  /\ pass = Sleeping
  /\ Claimable(g)
  /\ SetTask(g, [status |-> "running", attempts |-> tasks[g].attempts + 1, stale |-> FALSE])
  /\ pass' = [at |-> "page", task |-> g, cursor |-> g.from,
              end |-> IF selected THEN g.to ELSE g.from]
  /\ UNCHANGED <<clock, sparse, minutes, bars, selected, interrupted, klineFaults>>

\* retryRepairTask: pending again, given up at the last attempt.
RetryRepairTask(g) ==
  SetTask(g, [status |-> IF tasks[g].attempts >= MaxAttempts THEN "failed" ELSE "pending",
              attempts |-> tasks[g].attempts, stale |-> FALSE])

MutantTrustFetch(g) == TRUE

\* repairRangeComplete: every expected open is in the table.
RepairRangeComplete(g) == Opens(g.interval, g.from, g.to) \subseteq Present(g.interval)

\* The end of a task in processRepairTasks.
VerifyRepairTask ==
  /\ pass.at = "page"
  /\ pass.task # NoGap
  /\ pass.cursor >= pass.end
  /\ IF selected /\ RepairRangeComplete(pass.task)
     THEN SetTask(pass.task, [tasks[pass.task] EXCEPT !.status = "completed", !.stale = FALSE])
     ELSE RetryRepairTask(pass.task)
  /\ pass' = Sleeping
  /\ UNCHANGED <<clock, sparse, minutes, bars, selected, interrupted, klineFaults>>

\* A provider or database error ends the pass early; a task is retried.
PassFails ==
  /\ pass # Sleeping
  /\ KlineFault
  /\ IF pass.task = NoGap THEN UNCHANGED tasks ELSE RetryRepairTask(pass.task)
  /\ interrupted' = IF pass.at = "aggregate" THEN interrupted \cup pass.touched ELSE interrupted
  /\ pass' = Sleeping
  /\ UNCHANGED <<clock, sparse, minutes, bars, selected>>

\* The crawler process dies: a claimed row stays running.
CrawlerCrashes ==
  /\ pass # Sleeping
  /\ KlineFault
  /\ interrupted' = IF pass.at = "aggregate" THEN interrupted \cup pass.touched ELSE interrupted
  /\ pass' = Sleeping
  /\ UNCHANGED <<clock, sparse, minutes, bars, tasks, selected>>

\* Ten minutes pass on the lock of a row nobody is working on any more.
LockAges(g) ==
  /\ tasks[g].status = "running" /\ ~tasks[g].stale
  /\ IF pass = Sleeping THEN TRUE ELSE pass.task # g
  /\ SetTask(g, [tasks[g] EXCEPT !.stale = TRUE])
  /\ UNCHANGED <<clock, sparse, minutes, bars, pass, selected, interrupted, klineFaults>>

\* One deleteBatch of the retention run.
DeleteExpired ==
  /\ \E m \in Minutes : m < RetentionCutoff(clock) /\ minutes[m] # "none"
  /\ minutes' = [m \in Minutes |-> IF m < RetentionCutoff(clock) THEN "none" ELSE minutes[m]]
  /\ UNCHANGED <<clock, sparse, bars, pass, tasks, selected, interrupted, klineFaults>>

KlineNext ==
  \/ MinuteCloses \/ ReconcileProviderKlineSelection
  \/ SyncMarket \/ FetchStorePage \/ AggregatePage \/ SyncDone
  \/ ScanKlineGaps \/ VerifyRepairTask \/ PassFails \/ CrawlerCrashes \/ DeleteExpired
  \/ \E g \in DOMAIN tasks : ClaimRepairTask(g) \/ LockAges(g)

\* The crawler's and the worker's tickers keep running, locks age.
KlineFairness ==
  /\ WF_klineVars(FetchStorePage) /\ WF_klineVars(AggregatePage)
  /\ WF_klineVars(SyncDone) /\ WF_klineVars(VerifyRepairTask)
  /\ SF_klineVars(\E g \in DOMAIN tasks : ClaimRepairTask(g))
  /\ WF_klineVars(\E g \in DOMAIN tasks : LockAges(g))
-----------------------------------------------------------------------------
KlineTypeOK ==
  /\ clock \in Minutes /\ selected \in BOOLEAN
  /\ minutes \in [Minutes -> {"none", "live", "final"}]
  /\ \A b \in BucketsOf : bars[b] \subseteq In(b) \X {"live", "final"}
  /\ DOMAIN tasks \subseteq Gaps
  /\ \A g \in DOMAIN tasks : tasks[g].attempts <= MaxAttempts + MaxKlineFaults

(* Once every minute of a bucket is stored for good, its derived bar is made   *)
(* of exactly those minutes: aggregateAffectedBuckets follows every page       *)
(* storeNormalizedKlines wrote, whoever asked for the page. Only a bucket      *)
(* whose page failed or died between the two can keep an older bar.            *)
BarsFollowMinutes ==
  \A b \in BucketsOf \ interrupted :
    \/ \E m \in In(b) : minutes[m] # "final"
    \/ pass.at = "aggregate" /\ b \in pass.touched
    \/ bars[b] = In(b) \X {"final"}

(* A repair task the crawler reports completed left no hole: every open of its *)
(* range is in symbol_kline, unless retention has deleted it since.            *)
CompletedIsWhole ==
  \A g \in DOMAIN tasks : tasks[g].status = "completed" =>
    \A m \in Opens(g.interval, g.from, g.to) :
      m \in Present(g.interval) \/ m < RetentionCutoff(clock)

Unsettled == \E g \in DOMAIN tasks : tasks[g].status \in {"pending", "running"}

(* The repair queue drains: every task ends completed or failed, even one whose *)
(* crawler died while it held it, since ClaimRepairTasks takes back a stale     *)
(* lock and every claim counts as an attempt.                                   *)
TasksSettle == Unsettled ~> ~Unsettled
=============================================================================
