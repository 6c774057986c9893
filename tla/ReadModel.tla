----------------------------- MODULE ReadModel -----------------------------
(***************************************************************************)
(* The private read model of the trading process.                          *)
(*                                                                         *)
(* Lifecycle: trading_order_event is projected with every appended batch   *)
(* and, for a market that was written before the projection existed, by a  *)
(* backfill at start-up, in batches that each move a checkpoint by         *)
(* compare-and-set (trading/store/postgres/timeline.go).                   *)
(*                                                                         *)
(* Paging: orders, account trades, ledger entries and order events are     *)
(* listed one page at a time; the position of the last row travels to the  *)
(* client in a signed cursor (trading/readmodel/postgres/reader.go,        *)
(* trading/rpc/server/query_rpc.go and query_cursor.go).                   *)
(*                                                                         *)
(* One account and one market. A batch is the set of orders it touches:    *)
(* {n} accepts order n, {m} closes an older one, {m, n} lets order n trade *)
(* with m and closes both.                                                 *)
(***************************************************************************)
EXTENDS Integers, FiniteSets, Sequences, FiniteSetsExt

CONSTANTS Stores,
          LegacyLogs,    \* histories written before the projection existed
          MaxLog, BackfillSize, PageSize, MaxRotations, MaxCrashes

VARIABLES log,        \* trading_event_batch: batch -> orders it touches
          rows,       \* trading_order_event: <<batch, order>>
          projected,  \* trading_order_event_checkpoint
          proc,       \* process -> its place in the start-up
          session,    \* one client paging through one list
          keys,       \* the number of the current cursor key
          crashes

readVars == <<log, rows, projected, proc, session, keys, crashes>>

LogHead == Len(log)
BatchIds == 1..MaxLog
NoCheckpoint == [found |-> FALSE, sequence |-> 0, rows |-> 0]
At(sequence, count) == [found |-> TRUE, sequence |-> sequence, rows |-> count]

IsTrade(n) == Cardinality(log[n]) = 2
Closed(o) == \E n \in 1..LogHead : o \in log[n] /\ (n # o \/ IsTrade(n))
OrdersAt == {n \in 1..LogHead : n \in log[n]}

\* What the next command may touch.
Touchable ==
  LET n == LogHead + 1
      open == {o \in OrdersAt : ~Closed(o)}
  IN {{n}} \cup {{o} : o \in open} \cup {{o, n} : o \in open}

LifecycleRows(n) == {n} \X log[n]
CountOf(batch) == MapThenSumSet(LAMBDA n : Cardinality(log[n]), batch)

Down == [at |-> "down"]
NoToken == [position |-> <<0, 0>>]
NoQuery == [kind |-> "none", filter |-> "none"]
NoSession == [at |-> "idle", query |-> NoQuery, token |-> NoToken, got |-> <<>>, first |-> {}]

-----------------------------------------------------------------------------
(* Start-up and append *)

\* validateLifecycleIntegrity.
IntegrityHolds ==
  IF projected.found
  THEN /\ Cardinality(rows) = projected.rows
       /\ \A r \in rows : r[1] <= projected.sequence
  ELSE rows = {}

Go(p, place) == proc' = [proc EXCEPT ![p] = place]

\* New: register the market and read the head of the stream.
OpenStore(p) ==
  /\ proc[p] = Down
  /\ Go(p, [at |-> "opened", head |-> LogHead])
  /\ UNCHANGED <<log, rows, projected, session, keys, crashes>>

\* Mutant: a checkpoint is taken as the sign of a finished backfill.
MutantFound(current) == current = 0 \/ projected.found

ProjectionComplete(current) == current = 0 \/ projected.sequence = current

\* The integrity read and the decision of ensureTradeV1Projections.
EnsureTradeV1Projections(p) ==
  /\ proc[p].at = "opened"
  /\ LET current == proc[p].head
     IN Go(p, CASE ~IntegrityHolds \/ projected.sequence > current -> Down
                [] ProjectionComplete(current) -> [at |-> "serving"]
                [] OTHER -> [at |-> "backfilling", head |-> current,
                             from |-> projected.sequence, count |-> projected.rows])
  /\ UNCHANGED <<log, rows, projected, session, keys, crashes>>

\* The compare-and-set of a batch: an absent row is inserted.
CheckpointUnmoved(p) ==
  projected.found =>
    projected.sequence = proc[p].from /\ projected.rows = proc[p].count

\* queryLifecycleRecordsAfter: the next batches of the stream, a bounded number.
RecordsAfter(from) == (from + 1)..Min({from + BackfillSize, LogHead})

\* One transaction of backfillOrderLifecycle: insert the rows of a batch
\* (a row that exists is an error) and move the checkpoint.
BackfillBatch(p) ==
  /\ proc[p].at = "backfilling"
  /\ proc[p].from < LogHead
  /\ LET batch == RecordsAfter(proc[p].from)
         to == Max(batch)
         new == UNION {LifecycleRows(n) : n \in batch}
         count == proc[p].count + CountOf(batch)
     IN IF new \cap rows = {} /\ CheckpointUnmoved(p)
        THEN /\ rows' = rows \cup new
             /\ projected' = At(to, count)
             /\ \/ Go(p, [proc[p] EXCEPT !.from = to, !.count = count])
                \/ /\ crashes < MaxCrashes /\ Go(p, Down)   \* ErrCommitOutcomeUnknown
        ELSE Go(p, Down) /\ UNCHANGED <<rows, projected>>
  /\ UNCHANGED <<log, session, keys, crashes>>

\* No record is left: confirm the head, then verify the whole projection
\* against the head that was read at the start.
BackfillDone(p) ==
  /\ proc[p].at = "backfilling"
  /\ proc[p].from = LogHead
  /\ Go(p, IF /\ IntegrityHolds /\ projected.found
              /\ projected.sequence = proc[p].head
           THEN [at |-> "serving"] ELSE Down)
  /\ UNCHANGED <<log, rows, projected, session, keys, crashes>>

ProcessCrashes(p) ==
  /\ proc[p] # Down /\ crashes < MaxCrashes
  /\ Go(p, Down) /\ crashes' = crashes + 1
  /\ UNCHANGED <<log, rows, projected, session, keys>>

\* Append with applyOrderLifecycleProjection in the same transaction; a
\* checkpoint that is not at the head refuses the batch.
AppendProjected(p) ==
  /\ proc[p].at = "serving"
  /\ LogHead < MaxLog
  /\ projected.sequence = LogHead
  /\ \E touched \in Touchable :
       /\ log' = Append(log, touched)
       /\ rows' = rows \cup ({LogHead + 1} \X touched)
       /\ projected' = At(LogHead + 1, projected.rows + Cardinality(touched))
  /\ UNCHANGED <<proc, session, keys, crashes>>

-----------------------------------------------------------------------------
(* Paging *)

\* The four listings of the reader, as positions <<batch, index>>.
ListOrders(scope) ==
  {<<n, 0>> : n \in {o \in OrdersAt : CASE scope = "all" -> TRUE
                                        [] scope = "open" -> ~Closed(o)
                                        [] scope = "history" -> Closed(o)}}
ListAccountTrades == {<<n, 1>> : n \in {m \in 1..LogHead : IsTrade(m)}}
ListLedgerEntries == {<<n, i>> : n \in 1..LogHead, i \in 1..2}
ListOrderEvents ==
  {<<r[1], i>> : r \in {r \in rows : r[2] = 1}, i \in 1..2}
    \ {<<n, 2>> : n \in {m \in 1..LogHead : ~IsTrade(m)}}

Listing(q) ==
  CASE q.kind = "orders" -> ListOrders(q.filter)
    [] q.kind = "trades" -> ListAccountTrades
    [] q.kind = "ledger" -> ListLedgerEntries
    [] q.kind = "events" -> ListOrderEvents

\* Events are listed oldest first, everything else newest first.
Ascending(q) == q.kind = "events"

Less(x, y) == x[1] < y[1] \/ (x[1] = y[1] /\ x[2] < y[2])

\* ORDER BY: row a is listed before row b.
Precedes(q, a, b) == IF Ascending(q) THEN Less(a, b) ELSE Less(b, a)

\* Mutant: the cursor compares the sequence alone.
MutantSequenceOnly(q, position, r) ==
  IF Ascending(q) THEN position[1] < r[1] ELSE position[1] > r[1]

\* WHERE (...) < (...): the whole position of the last row is compared.
Beyond(q, position, r) == Precedes(q, position, r)

\* The first rows of those found, in order.
PageOf(q, found) ==
  [i \in 1..Min({PageSize, Cardinality(found)}) |->
     CHOOSE r \in found : Cardinality({o \in found : Precedes(q, o, r)}) = i - 1]

\* A cursor is bound to its query and signed with the current key.
Encode(q, position) ==
  [position |-> position, query |-> q, key |-> keys, expired |-> FALSE]

\* Decode: the key is the current or the previous one, the query is the one
\* the cursor was issued for, and its lifetime is not over.
Decode(token, q) == token.key \in {keys, keys - 1} /\ token.query = q /\ ~token.expired

\* requireTimelineCaughtUp.
TimelineCaughtUp == projected.found /\ projected.sequence = LogHead

Answered(q, found) ==
  LET page == PageOf(q, found)
      more == Cardinality(found) > PageSize
  IN session' = [session EXCEPT !.at = IF more THEN "paging" ELSE "finished",
                                !.got = @ \o page, !.query = q,
                                !.token = IF more THEN Encode(q, page[Len(page)]) ELSE NoToken,
                                !.first = IF session.at = "idle" THEN Listing(q) ELSE @]

\* The order of the events query exists and its projection is complete.
Listable(q) == q.kind = "events" => 1 \in OrdersAt /\ TimelineCaughtUp

FirstPage(q) ==
  /\ session.at = "idle" /\ \E p \in Stores : proc[p].at = "serving"
  /\ Listable(q)
  /\ Answered(q, Listing(q))
  /\ UNCHANGED <<log, rows, projected, proc, keys, crashes>>

NextPage ==
  /\ session.at = "paging" /\ \E p \in Stores : proc[p].at = "serving"
  /\ LET q == session.query
     IN IF Decode(session.token, q)
        THEN /\ Listable(q)
             /\ Answered(q, {r \in Listing(q) : Beyond(q, session.token.position, r)})
        ELSE session' = [session EXCEPT !.at = "invalid_cursor"]
  /\ UNCHANGED <<log, rows, projected, proc, keys, crashes>>

CursorExpires ==
  /\ session.at = "paging" /\ ~session.token.expired
  /\ session' = [session EXCEPT !.token.expired = TRUE]
  /\ UNCHANGED <<log, rows, projected, proc, keys, crashes>>

\* The process restarts with a new current key and the old one as previous.
RotateKeys ==
  /\ keys < MaxRotations
  /\ keys' = keys + 1
  /\ UNCHANGED <<log, rows, projected, proc, session, crashes>>

-----------------------------------------------------------------------------
Queries == {[kind |-> "orders", filter |-> f] : f \in {"all", "open", "history"}}
             \cup {[kind |-> k, filter |-> "none"] : k \in {"trades", "ledger", "events"}}

ReadInit ==
  /\ log \in LegacyLogs /\ rows = {} /\ projected = NoCheckpoint
  /\ proc = [p \in Stores |-> Down]
  /\ session = NoSession /\ keys = 0 /\ crashes = 0

Lifecycle ==
  \E p \in Stores : \/ OpenStore(p) \/ EnsureTradeV1Projections(p) \/ BackfillBatch(p)
                       \/ BackfillDone(p) \/ ProcessCrashes(p) \/ AppendProjected(p)

Paging ==
  \/ \E q \in Queries : FirstPage(q)
  \/ NextPage \/ CursorExpires \/ RotateKeys

ReadNext == Lifecycle \/ Paging
-----------------------------------------------------------------------------
ReadTypeOK ==
  /\ LogHead \in 0..MaxLog
  /\ rows \subseteq BatchIds \X BatchIds
  /\ projected.sequence \in 0..MaxLog
  /\ \A p \in Stores : proc[p].at \in {"down", "opened", "backfilling", "serving"}
  /\ session.at \in {"idle", "paging", "finished", "invalid_cursor"}
  /\ keys \in 0..MaxRotations

(* However two starting processes, their crashes and lost commit replies     *)
(* interleave with appends, the lifecycle table holds the rows of the        *)
(* batches up to its checkpoint, each once, and the recorded count is        *)
(* theirs: the compare-and-set of backfillOrderLifecycle and of              *)
(* applyOrderLifecycleProjection never lets one batch be projected twice or  *)
(* skipped. A process that serves found the projection at the head.          *)
LifecycleExact ==
  /\ rows = UNION {LifecycleRows(n) : n \in 1..projected.sequence}
  /\ projected.rows = Cardinality(rows)
  /\ (\E p \in Stores : proc[p].at = "serving") => projected.sequence = LogHead

(* A client that follows the cursors to the end has seen every row that      *)
(* matched from its first page to its last, each once and in order, although *)
(* orders were accepted and closed between the pages; a cursor is refused    *)
(* only when it has expired or its key was rotated out twice.                *)
PagesComplete ==
  /\ session.at = "finished" =>
       LET q == session.query
           seen == {session.got[i] : i \in 1..Len(session.got)}
       IN /\ session.first \cap Listing(q) \subseteq seen
          /\ Cardinality(seen) = Len(session.got)
  /\ session.at = "invalid_cursor" =>
       session.token.expired \/ keys >= session.token.key + 2
=============================================================================
