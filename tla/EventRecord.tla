---------------------------- MODULE EventRecord ----------------------------
(***************************************************************************)
(* The record that a command leaves behind (trading/exchange, runLocked):  *)
(* its events, the projection of the rows it changed, the checks of the    *)
(* PostgreSQL store before it appends the record, and the snapshot that a  *)
(* later start restores the exchange from.                                 *)
(*                                                                         *)
(* The record is read off the exchange when the command is applied: `job'  *)
(* holds the command and its fills in order, `state' what it found and     *)
(* `trial' what it leaves.                                                 *)
(***************************************************************************)
EXTENDS Exchange, SequencesExt

-----------------------------------------------------------------------------
(* Events *)

\* The trades that the command in progress appended.
TradeOf(t, j, i) == t.trades[Len(t.trades) - Len(j.fills) + i]

\* An event names an order and an account, a trade event its fill as well.
Event(type, id, account, fill) ==
  [type |-> type, id |-> id, account |-> account, fill |-> fill]

\* The events of fill i: the trade, and the end of a maker with nothing left.
FillEvents(t, j, i) ==
  LET maker == j.fills[i].maker
  IN <<Event("trade_executed", j.id, None, i)>> \o
     IF j.fills[i].makerRemaining = 0
       THEN <<Event("order_filled", maker, t.orders[maker].account, 0)>> ELSE <<>>

\* The last event of an accepted order.
ClosingEvent(j) ==
  IF ShouldRest(j) THEN "order_rested"
  ELSE IF FinalStatus(j) = "filled" THEN "order_filled" ELSE "order_canceled"

\* The events of an accepted order, in the order of applySubmit.
SubmitEvents(t, j) ==
  LET Of(type) == Event(type, j.id, j.account, 0)
  IN <<Of("order_accepted")>>
       \o FoldLeft(LAMBDA events, i : events \o FillEvents(t, j, i), <<>>,
                   [i \in 1..Len(j.fills) |-> i])
       \o (IF j.stop = "self_trade" THEN <<Of("self_trade_prevented")>> ELSE <<>>)
       \o <<Of(ClosingEvent(j))>>

\* What the command in progress is: its order is new, closed by it or untouched.
Kind(s, t, j) ==
  CASE j.id = 0 -> "fund"
    [] j.taker # None -> "accepted"
    [] s.orders[j.id] = None /\ t.orders[j.id] # None -> "rejected"
    [] t.orders[j.id] # s.orders[j.id] -> "canceled"
    [] OTHER -> "cancel_rejected"

ResultEvents(s, t, j) ==
  CASE Kind(s, t, j) = "fund" -> <<Event("account_funded", 0, j.account, 0)>>
    [] Kind(s, t, j) = "accepted" -> SubmitEvents(t, j)
    [] Kind(s, t, j) = "rejected" -> <<Event("order_rejected", j.id, j.account, 0)>>
    [] Kind(s, t, j) = "canceled" -> <<Event("order_canceled", j.id, j.account, 0)>>
    [] OTHER -> <<Event("cancel_rejected", j.id, j.account, 0)>>

-----------------------------------------------------------------------------
(* The projection *)

\* The orders and accounts that one event names.
EventOrders(t, j, event) ==
  {event.id} \cup IF event.fill = 0 THEN {}
                   ELSE {TradeOf(t, j, event.fill).maker, TradeOf(t, j, event.fill).taker}

EventAccounts(t, j, event) ==
  {event.account} \cup IF event.fill = 0 THEN {}
                        ELSE {TradeOf(t, j, event.fill).buyer, TradeOf(t, j, event.fill).seller}

\* buildProjection: the orders that some event of the record names.
NamedOrders(s, t, j) ==
  OrderIds \cap UNION {EventOrders(t, j, event) : event \in ToSet(ResultEvents(s, t, j))}

\* Mutant: the projection is taken after the demo maker's closed orders left.
MutantProjectedOrders(s, t, j) ==
  {id \in NamedOrders(s, t, j) : Compact(t).orders[id] # None}

\* buildProjection: the orders that the events name and the exchange knows,
\* and both balances of every account involved.
ProjectedOrders(s, t, j) == {id \in NamedOrders(s, t, j) : t.orders[id] # None}

ProjectedAccounts(s, t, j) ==
  ({j.account} \cup UNION {EventAccounts(t, j, event) : event \in ToSet(ResultEvents(s, t, j))})
    \ {None}

\* Each change of an order sets its last sequence to the command's.
LastSequenceIsNew(s, t, id) == t.orders[id] # s.orders[id]

\* What Append demands of a record before it opens its transaction. (Trades and
\* ledger transactions bear the sequence and the number of their fill, and Post
\* took only balanced ones.)
validateRecord(s, t, j) ==
  /\ \A id \in ProjectedOrders(s, t, j) :
       /\ id <= t.sequence
       /\ t.orders[id].held >= 0 /\ t.orders[id].status # "received"
       /\ LastSequenceIsNew(s, t, id)
  /\ \A account \in ProjectedAccounts(s, t, j), asset \in Assets :
       /\ t.ledger[<<"available", account, asset>>] >= 0
       /\ t.ledger[<<"held", account, asset>>] >= 0

\* What the audit of the history at a start demands of one more record: no gap in
\* the sequence, and every asset still sums to zero over all accounts.
AuditRecords(s, t) ==
  /\ t.sequence = s.sequence + 1
  /\ \A asset \in Assets :
       MapThenSumSet(LAMBDA k : t.ledger[k], {k \in LedgerKeys : k[3] = asset}) = 0

\* The rows of the order and balance tables after the record is applied to what
\* they showed before the command.
applyProjection(s, t, j) ==
  LET orders == ProjectedOrders(s, t, j)
      accounts == ProjectedAccounts(s, t, j)
  IN [orders |-> [id \in OrderIds |-> IF id \in orders THEN t.orders[id] ELSE s.orders[id]],
      balances |-> [k \in {"available", "held"} \X Accounts \X Assets |->
                      IF k[2] \in accounts THEN t.ledger[k] ELSE s.ledger[k]]]

\* The tables follow the exchange: all that the command changed is projected.
ProjectionCovers(s, t, j) ==
  LET tables == applyProjection(s, t, j)
  IN /\ tables.orders = t.orders
     /\ \A k \in DOMAIN tables.balances : tables.balances[k] = t.ledger[k]

CancelOfKnownOrder(s, t, j) ==
  Kind(s, t, j) = "cancel_rejected" /\ s.orders[j.id] # None

(* A cancel that comes after its order was filled is refused, and the refusal *)
(* is recorded. With the PostgreSQL store it is not: the event of the refused *)
(* cancel names the order, so buildProjection projects it as it was, and      *)
(* validateRecord wants every projected order to have changed.                *)
LateCancelsRecorded ==
  /\ job.stage = "applied" /\ CancelOfKnownOrder(state, trial, job)
  /\ state.orders[job.id].account = job.account
  /\ state.orders[job.id].status = "filled"
  => validateRecord(state, trial, job)

-----------------------------------------------------------------------------
(* Snapshots *)

\* The resting orders of each side, best price first and each queue in order.
Snapshot(s) ==
  LET Listed(queue) == [i \in 1..Len(queue) |-> [id |-> queue[i], order |-> s.index[queue[i]]]]
  IN [side \in Sides |->
        FoldLeft(LAMBDA list, p : list \o Listed(s.levels[side][p]), <<>>,
                 SetToSortSeq(LevelPrices(s, side), LAMBDA p, q : Better(side, p, q)))]

\* The saved state: the book as its snapshot, the rest as it is.
persisted(s) ==
  [rest |-> [s EXCEPT !.levels = EmptyState.levels, !.index = EmptyState.index],
   book |-> Snapshot(s)]

\* Mutant: orders are restored worst price and newest first.
MutantFromSnapshot(s, list) ==
  FoldLeft(LAMBDA b, entry : BookAdd(b, entry.id, entry.order), s, Reverse(list))

\* FromSnapshot adds the orders of a side to an empty book, one at a time.
FromSnapshot(s, list) ==
  FoldLeft(LAMBDA b, entry : BookAdd(b, entry.id, entry.order), s, list)

stateFromPersisted(p) ==
  FromSnapshot(FromSnapshot(p.rest, p.book["buy"]), p.book["sell"])

\* aggregateLevels: consecutive orders of one price are one level of the depth.
aggregateLevels(list) ==
  FoldLeft(LAMBDA levels, entry :
             IF levels # <<>> /\ Last(levels).price = entry.order.price
               THEN [levels EXCEPT ![Len(levels)].quantity = @ + entry.order.remaining]
               ELSE Append(levels, [price |-> entry.order.price,
                                    quantity |-> entry.order.remaining]),
           <<>>, list)

\* Depth: the levels that the API shows of one side.
Depth(s, side) == aggregateLevels(Snapshot(s)[side])

\* The restored exchange is sound and is the one the last record left, queue by
\* queue (the state hash).
ProveRecovery(s) ==
  LET restored == stateFromPersisted(persisted(s)) IN validate(restored) /\ restored = s

\* A snapshot recovers the exchange, and the depth shows every price once, best
\* first, with all that rests there.
SnapshotRestores(s) ==
  /\ ProveRecovery(s)
  /\ \A side \in Sides :
       LET depth == Depth(s, side)
       IN /\ {depth[i].price : i \in DOMAIN depth} = LevelPrices(s, side)
          /\ \A i, k \in DOMAIN depth : i < k => Better(side, depth[i].price, depth[k].price)
          /\ \A i \in DOMAIN depth :
               depth[i].quantity =
                 MapThenSumSet(LAMBDA id : s.orders[id].remaining,
                               {id \in OpenOrders(s) : /\ s.orders[id].side = side
                                                       /\ s.orders[id].price = depth[i].price})
=============================================================================
