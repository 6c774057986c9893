----------------------------- MODULE Warehouse ------------------------------
(***************************************************************************)
(* The Doris warehouse (dw/dw.go, dw/reconcile.go): one candle stream is   *)
(* copied from PostgreSQL by change number (sync_seq), a replay window     *)
(* catches numbers that commit out of order, and a daily reconciliation    *)
(* compares both sides through the watermark and keeps the cutover clock.  *)
(* A candle's content is its sync_seq; 0 is no row.                        *)
(***************************************************************************)
EXTENDS Integers, FiniteSets, FiniteSetsExt

CONSTANTS Candles,       \* open times of the stream
          MaxSeq,        \* bound on sync_seq
          Lookback,      \* klineV2ReplayLookback
          BatchSize,     \* klineBatchSize
          MaxBatches,    \* maxKlineBatchesPerCycle
          MaxExpired,    \* candles retention deletes
          MaxLoadFaults, \* failed Stream Loads, lost replies, crashes
          MaxReconciles

ASSUME WarehouseAssumption ==
  /\ IsFiniteSet(Candles)
  /\ MaxSeq \in Nat /\ Lookback \in Nat /\ BatchSize \in Nat

VARIABLES seq,           \* last_value of symbol_kline_sync_seq
          writing,       \* candle -> number of an open transaction
          pg,            \* symbol_kline: candle -> committed sync_seq
          doris,         \* dwd_market_kline_v2
          watermark,     \* dw_sync_state.last_sync_seq
          scan,          \* syncOneKlineV2Stream in progress
          compare,       \* reconcileOneKlineV2Stream in progress
          acceptance,    \* dw_acceptance_state: the continuous success clock
          late,          \* candles whose number committed behind the window
          expired, loadFaults, reconciles

dwVars == <<seq, writing, pg, doris, watermark, scan, compare, acceptance,
            late, expired, loadFaults, reconciles>>

NoScan == [on |-> FALSE]
Quiet == [at |-> "none"]

WarehouseInit ==
  /\ seq = 0
  /\ writing = [c \in Candles |-> 0]
  /\ pg = [c \in Candles |-> 0]
  /\ doris = [c \in Candles |-> 0]
  /\ watermark = 0
  /\ scan = NoScan
  /\ compare = Quiet
  /\ acceptance = "unproven"
  /\ late = {}
  /\ expired = 0 /\ loadFaults = 0 /\ reconciles = 0

\* The insert default and symbol_kline_assign_sync_seq take a number inside
\* the transaction; the row lock keeps one writer per candle.
TakeNumber(c) ==
  /\ seq < MaxSeq
  /\ writing[c] = 0
  /\ seq' = seq + 1
  /\ writing' = [writing EXCEPT ![c] = seq + 1]
  /\ UNCHANGED <<pg, doris, watermark, scan, compare, acceptance, late, expired, loadFaults, reconciles>>

CommitCandle(c) ==
  /\ writing[c] # 0
  /\ pg' = [pg EXCEPT ![c] = writing[c]]
  /\ writing' = [writing EXCEPT ![c] = 0]
  /\ late' = IF seq >= writing[c] + Lookback THEN late \cup {c} ELSE late \ {c}
  /\ UNCHANGED <<seq, doris, watermark, scan, compare, acceptance, expired, loadFaults, reconciles>>

\* An upsert that changes nothing, a candle of another stream, or a rolled
\* back transaction: the number is spent.
SpendNumber ==
  /\ seq < MaxSeq
  /\ seq' = seq + 1
  /\ UNCHANGED <<writing, pg, doris, watermark, scan, compare, acceptance, late, expired, loadFaults, reconciles>>

\* deleteBatch of the K-line retention removes the row from PostgreSQL only.
ExpireCandle(c) ==
  /\ expired < MaxExpired
  /\ pg[c] # 0 /\ writing[c] = 0
  /\ pg' = [pg EXCEPT ![c] = 0]
  /\ expired' = expired + 1
  /\ UNCHANGED <<seq, writing, doris, watermark, scan, compare, acceptance, late, loadFaults, reconciles>>
-----------------------------------------------------------------------------
ReplayScanStart(last) == IF last <= Lookback THEN 0 ELSE last - Lookback

Idle2 == scan = NoScan /\ compare = Quiet

MutantNoCeiling == MaxSeq

\* QueryKlineSyncCeiling: one upper bound for the whole cycle.
SyncCeiling == seq

StartScan ==
  /\ Idle2
  /\ scan' = [on |-> TRUE, cursor |-> ReplayScanStart(watermark), ceiling |-> SyncCeiling, batch |-> 1]
  /\ UNCHANGED <<seq, writing, pg, doris, watermark, compare, acceptance, late, expired, loadFaults, reconciles>>

\* QuerySymbolKlinesBySyncSeq: committed rows by number, at most a batch.
Batch ==
  LET rows == {c \in Candles : pg[c] > scan.cursor /\ pg[c] <= scan.ceiling}
  IN {c \in rows : Cardinality({d \in rows : pg[d] < pg[c]}) < BatchSize}

\* Stream Load into the UNIQUE KEY table: a key is overwritten.
Loaded(rows, values) == [c \in Candles |-> IF c \in rows THEN values[c] ELSE doris[c]]

\* One round of syncOneKlineV2Stream: load, then move the state row.
LoadBatch ==
  LET top == Max({pg[c] : c \in Batch})
  IN /\ scan.on
     /\ IF Batch = {}
        THEN scan' = NoScan /\ UNCHANGED <<doris, watermark>>
        ELSE /\ doris' = Loaded(Batch, pg)
             /\ watermark' = Max({watermark, top})
             /\ scan' = IF Cardinality(Batch) < BatchSize \/ scan.batch = MaxBatches
                        THEN NoScan
                        ELSE [scan EXCEPT !.cursor = top, !.batch = @ + 1]
     /\ UNCHANGED <<seq, writing, pg, compare, acceptance, late, expired, loadFaults, reconciles>>

\* The load fails, or it succeeds and its reply, the state write or the
\* process is lost: the watermark stays and the next cycle loads again.
LoadFails ==
  /\ scan.on /\ Batch # {}
  /\ loadFaults < MaxLoadFaults
  /\ loadFaults' = loadFaults + 1
  /\ doris' \in {doris, Loaded(Batch, pg)}
  /\ scan' = NoScan
  /\ UNCHANGED <<seq, writing, pg, watermark, compare, acceptance, late, expired, reconciles>>
-----------------------------------------------------------------------------
\* reconcileOneKlineV2Stream, first query: rows through the watermark.
ReadThrough ==
  /\ Idle2
  /\ reconciles < MaxReconciles
  /\ watermark > 0
  /\ reconciles' = reconciles + 1
  /\ compare' = [at |-> "through",
                 through |-> [c \in Candles |-> IF pg[c] <= watermark THEN pg[c] ELSE 0]]
  /\ UNCHANGED <<seq, writing, pg, doris, watermark, scan, acceptance, late, expired, loadFaults>>

\* Second query: every current row, to find the keys still to be loaded.
ReadCurrent ==
  /\ compare.at = "through"
  /\ compare' = [at |-> "current", through |-> compare.through,
                 pending |-> {c \in Candles : pg[c] > watermark}]
  /\ UNCHANGED <<seq, writing, pg, doris, watermark, scan, acceptance, late, expired, loadFaults, reconciles>>

\* excludePendingKlineVersions over the Doris rows through the watermark.
DorisRows(table) ==
  [c \in Candles |-> IF table[c] > watermark \/ c \in compare.pending THEN 0 ELSE table[c]]

MutantKeysOnly(p, d) ==
  [missing |-> {c \in Candles : p[c] # 0 /\ d[c] = 0},
   extra |-> {c \in Candles : d[c] # 0 /\ p[c] = 0},
   mismatched |-> {}]

DiffKlineV2(p, d) ==
  [missing |-> {c \in Candles : p[c] # 0 /\ d[c] = 0},
   extra |-> {c \in Candles : d[c] # 0 /\ p[c] = 0},
   mismatched |-> {c \in Candles : p[c] # 0 /\ d[c] # 0 /\ p[c] # d[c]}]

Clean(diff) == diff.missing = {} /\ diff.extra = {} /\ diff.mismatched = {}

\* Third query, the comparison, the replay of missing and differing keys and
\* its verification; nothing else writes the Doris table.
CompareAndReplay ==
  LET p == compare.through
      diff == DiffKlineV2(p, DorisRows(doris))
      replayed == Loaded(diff.missing \cup diff.mismatched, p)
      passed == IF diff.extra # {} THEN FALSE
                ELSE Clean(diff) \/ Clean(DiffKlineV2(p, DorisRows(replayed)))
  IN /\ compare.at = "current"
     /\ doris' = IF diff.extra # {} THEN doris ELSE replayed
     /\ compare' = [at |-> IF passed THEN "passed" ELSE "failed", through |-> p]
     /\ UNCHANGED <<seq, writing, pg, watermark, scan, acceptance, late, expired, loadFaults, reconciles>>

\* A query or the replay fails.
CompareFails ==
  /\ compare.at \in {"through", "current"}
  /\ loadFaults < MaxLoadFaults
  /\ loadFaults' = loadFaults + 1
  /\ compare' = [at |-> "failed", through |-> compare.through]
  /\ UNCHANGED <<seq, writing, pg, doris, watermark, scan, acceptance, late, expired, reconciles>>

\* maybeReconcileKlinesV2: RecordSuccess keeps the clock, RecordFailure clears it.
RecordAcceptance ==
  /\ compare.at \in {"passed", "failed"}
  /\ acceptance' = IF compare.at = "passed" THEN "soaking" ELSE "unproven"
  /\ late' = IF compare.at = "passed"
             THEN {c \in late : doris[c] # pg[c]} ELSE late
  /\ compare' = Quiet
  /\ UNCHANGED <<seq, writing, pg, doris, watermark, scan, expired, loadFaults, reconciles>>

\* The process dies: what it holds in memory is gone.
WarehouseRestarts ==
  /\ ~Idle2
  /\ loadFaults < MaxLoadFaults
  /\ loadFaults' = loadFaults + 1
  /\ scan' = NoScan
  /\ compare' = Quiet
  /\ UNCHANGED <<seq, writing, pg, doris, watermark, acceptance, late, expired, reconciles>>

WarehouseNext ==
  \/ \E c \in Candles : TakeNumber(c) \/ CommitCandle(c) \/ ExpireCandle(c)
  \/ SpendNumber \/ StartScan \/ LoadBatch \/ LoadFails
  \/ ReadThrough \/ ReadCurrent \/ CompareAndReplay \/ CompareFails
  \/ RecordAcceptance \/ WarehouseRestarts
-----------------------------------------------------------------------------
WarehouseTypeOK ==
  /\ seq \in 0 .. MaxSeq /\ watermark \in 0 .. MaxSeq
  /\ pg \in [Candles -> 0 .. MaxSeq] /\ doris \in [Candles -> 0 .. MaxSeq]
  /\ \A c \in Candles : pg[c] # 0 => pg[c] # writing[c]
  /\ acceptance \in {"unproven", "soaking"}

(* No committed change is lost behind the watermark of syncOneKlineV2Stream: a *)
(* row at or below it that Doris does not have yet is above the start of the   *)
(* next scan. Only a transaction that stayed open while a whole replay window  *)
(* of numbers was handed out is outside.                                       *)
ReplayCovers ==
  \A c \in Candles \ late :
    pg[c] # 0 /\ pg[c] <= watermark /\ doris[c] # pg[c] => pg[c] > ReplayScanStart(watermark)

(* A reconciliation that passes has really compared: every row it read through *)
(* the watermark that PostgreSQL still has is in Doris with the same content,  *)
(* the ones committed behind the replay window included.                       *)
PassedIsEqual ==
  compare.at = "passed" =>
    \A c \in Candles : compare.through[c] # 0 => doris[c] = compare.through[c]
=============================================================================
