------------------------------ MODULE Timeline ------------------------------
(***************************************************************************)
(* The order lifecycle projection (trading/store/postgres/timeline.go).    *)
(* When a batch is appended, and again when a market is backfilled, the    *)
(* store rebuilds the history of every touched order from the record's     *)
(* events alone and refuses the batch unless it ends in the orders that    *)
(* the exchange projected; the reader (trading/readmodel/postgres) checks  *)
(* each stored row once more before returning it.                          *)
(*                                                                         *)
(* The record of a command is read off the exchange when the command is    *)
(* applied: `job' holds its fills in order and `trial' its final orders.   *)
(***************************************************************************)
EXTENDS EventRecord

\* The submitted order as the lifecycle starts it.
Initial(order) ==
  [order EXCEPT !.status = "received", !.remaining = order.original,
                !.filled = 0, !.remainingBudget = order.budget,
                !.spent = 0, !.held = 0]

\* The remainder a row shows: the budget of a market buy, else the quantity.
setTimelineRemaining(order) ==
  IF IsMarketBuy(order) THEN order.remainingBudget ELSE order.remaining

\* Mutant: the budget of a market buy is not charged.
MutantKeepBudget(order, trade) ==
  [order EXCEPT !.filled = @ + trade.quantity, !.spent = @ + trade.quote,
     !.remaining = IF IsMarketBuy(order) THEN @ ELSE @ - trade.quantity,
     !.status = IF ~IsMarketBuy(order) /\ order.remaining = trade.quantity
                  THEN "filled" ELSE "partially_filled"]

applyTimelineFill(order, trade) ==
  [order EXCEPT !.filled = @ + trade.quantity, !.spent = @ + trade.quote,
     !.remaining = IF IsMarketBuy(order) THEN @ ELSE @ - trade.quantity,
     !.remainingBudget = IF IsMarketBuy(order) THEN @ - trade.quote ELSE @,
     !.status = IF ~IsMarketBuy(order) /\ order.remaining = trade.quantity
                  THEN "filled" ELSE "partially_filled"]

\* The remainder that the trade event of fill i carries (applySubmit).
EventRemaining(j, i) ==
  (IF IsMarketBuy(j.taker) THEN j.taker.budget ELSE j.taker.original)
    - FoldLeft(LAMBDA sum, fill : sum + EventAmount(j.taker, fill), 0,
               SubSeq(j.fills, 1, i))

RowOf(order, id, type, trade, role) ==
  [order |-> order, id |-> id, type |-> type, trade |-> trade, role |-> role]

\* Both sides of a trade, the taker's row first.
buildTradeRows(acc, t, j, i) ==
  LET trade == TradeOf(t, j, i)
      taker == applyTimelineFill(acc.orders[trade.taker], trade)
      maker == applyTimelineFill(acc.orders[trade.maker], trade)
      rows == <<RowOf(taker, trade.taker, "trade", trade, "taker"),
                RowOf(maker, trade.maker, "trade", trade, "maker")>>
  IN [orders |-> [acc.orders EXCEPT ![trade.taker] = taker,
                                    ![trade.maker] = maker],
      sound |-> /\ acc.sound
                /\ setTimelineRemaining(taker) >= 0
                /\ setTimelineRemaining(maker) >= 0
                /\ setTimelineRemaining(taker) = EventRemaining(j, i),
      rows |-> acc.rows \o rows]

\* The status that an event gives its order.
EventStatus(j, event, order) ==
  CASE event.type = "order_accepted" -> "received"
    [] event.type = "order_rejected" -> "rejected"
    [] event.type = "order_rested" -> FinalStatus(j)
    [] event.type = "order_filled" -> "filled"
    [] event.type \in {"order_canceled", "self_trade_prevented"} -> "canceled"
    [] OTHER -> order.status

\* A refused cancel is attached to the order only if it is the caller's; any
\* other event must find its order.
buildSingleOrderRow(acc, j, event) ==
  IF acc.orders[event.id] = None
    THEN [acc EXCEPT !.sound = @ /\ event.type = "cancel_rejected"]
  ELSE LET previous == acc.orders[event.id]
           order == [previous EXCEPT !.status = EventStatus(j, event, previous)]
       IN IF event.type = "cancel_rejected" /\ event.account # order.account THEN acc
          ELSE [acc EXCEPT !.orders[event.id] = order,
                           !.rows = Append(@, RowOf(order, event.id, event.type, {}, "none"))]

\* The orders as they were before the command (trading_order), a submitted
\* one as received.
loadPreviousOrders(s, t, j) ==
  IF Kind(s, t, j) \in {"accepted", "rejected"}
    THEN [s.orders EXCEPT ![j.id] = Initial(t.orders[j.id])] ELSE s.orders

\* The lifecycle that the events of the command tell.
buildLifecycleRows(s, t, j) ==
  FoldLeft(LAMBDA acc, event :
             CASE event.type = "account_funded" -> acc
               [] event.type = "trade_executed" -> buildTradeRows(acc, t, j, event.fill)
               [] OTHER -> buildSingleOrderRow(acc, j, event),
           [orders |-> loadPreviousOrders(s, t, j), sound |-> TRUE, rows |-> <<>>],
           ResultEvents(s, t, j))

\* What the store compares between a rebuilt order and the projected one.
Compared(order) ==
  [order EXCEPT !.held = 0]

\* The ledger transactions of an accepted order, by the names they are given.
SubmitJournal(s, j) ==
  LET Before(i) == FoldLeft(LAMBDA o, k : IF j.fills[k].maker # j.fills[i].maker THEN o
                              ELSE LET m == MakerSettled(o, j.fills[k])
                                   IN [m EXCEPT !.held = @ - ExcessHold(m)],
                            s.orders[j.fills[i].maker], [k \in 1..(i - 1) |-> k])
  IN {<<"hold", 0>>} \cup {<<"trade", i>> : i \in 1..Len(j.fills)}
     \cup {<<"maker-release", i>> : i \in
             {k \in 1..Len(j.fills) : ExcessHold(MakerSettled(Before(k), j.fills[k])) > 0}}
     \cup (IF j.taker.held > DesiredHold(j) THEN {<<"release", 0>>} ELSE {})

Journal(s, t, j) ==
  CASE Kind(s, t, j) = "fund" -> {<<"fund", 0>>}
    [] Kind(s, t, j) = "accepted" -> SubmitJournal(s, j)
    [] Kind(s, t, j) = "canceled" -> {<<"cancel-release", 0>>}
    [] OTHER -> {}

\* The transactions that event number n of the record must take.
Required(s, t, j) ==
  UNION {LET event == ResultEvents(s, t, j)[n]
         IN CASE event.type = "account_funded" -> {<<"fund", 0>>}
              [] event.type = "order_accepted" -> {<<"hold", 0>>}
              [] event.type = "trade_executed" -> {<<"trade", event.fill>>}
              [] event.type = "order_canceled" /\ Kind(s, t, j) = "canceled" ->
                   {<<"cancel-release", 0>>}
              [] OTHER -> {} : n \in DOMAIN ResultEvents(s, t, j)}

\* And those it may take: the maker's release of a trade, and the release of
\* the incoming order at its closing event.
Taken(s, t, j) ==
  Required(s, t, j) \cup
  UNION {LET event == ResultEvents(s, t, j)[n]
         IN CASE event.type = "trade_executed" -> {<<"maker-release", event.fill>>}
              [] /\ event.type \in {"order_rested", "order_filled", "order_canceled"}
                 /\ event.id = j.id -> {<<"release", 0>>}
              [] OTHER -> {} : n \in DOMAIN ResultEvents(s, t, j)}

\* newJournalBinding, take and assertAllBound.
Bound(s, t, j) ==
  /\ Required(s, t, j) \subseteq Journal(s, t, j)
  /\ Journal(s, t, j) \subseteq Taken(s, t, j)

ExpectedRate(row) == IF row.role = "maker" THEN MakerFeeBPS ELSE TakerFeeBPS

\* validateTimelineEvent: the remainder is not negative, and the fee is the
\* one the reader computes from the row's own price, quantity and role.
validateTimelineEvent(row) ==
  /\ setTimelineRemaining(row.order) >= 0
  /\ row.type = "trade" =>
       IF row.order.side = "buy"
         THEN row.trade.buyerFee = FeeAmount(row.trade.quantity, ExpectedRate(row))
         ELSE row.trade.sellerFee =
                FeeAmount(QuoteAmountFloor(row.trade.price, row.trade.quantity),
                          ExpectedRate(row))

\* accountTradeView and orderView: an account is on one side and in one role
\* of a trade, and nothing was spent on an order without a fill.
ViewsReadable(row) ==
  /\ row.type = "trade" =>
       /\ row.trade.buyer # row.trade.seller
       /\ row.order.account = IF row.order.side = "buy" THEN row.trade.buyer
                                                       ELSE row.trade.seller
  /\ row.order.filled = 0 => row.order.spent = 0

Rebuilt(s, t, j) ==
  LET built == buildLifecycleRows(s, t, j)
  IN /\ built.sound /\ Bound(s, t, j)
     /\ \A id \in ProjectedOrders(s, t, j) :
          Compared(built.orders[id]) = Compared(t.orders[id])
     /\ \A i \in 1..Len(built.rows) :
          validateTimelineEvent(built.rows[i]) /\ ViewsReadable(built.rows[i])

(* Every command that the exchange applies can be appended, read back and    *)
(* recovered from. The record passes the store's checks and the audit of     *)
(* every later start, and projects all that the command changed; the         *)
(* lifecycle that timeline.go rebuilds from the events, one fill at a time,  *)
(* ends in the orders the exchange projected, every ledger posting belongs   *)
(* to exactly one event, and the fee and remainder of each row pass the      *)
(* reader's own checks; a snapshot taken between two commands restores to    *)
(* the same state. A disagreement would refuse the batch and stop the        *)
(* market, leave a stale row in the tables or fail the next start. The one   *)
(* record that is refused is a cancel naming an order that it cannot cancel  *)
(* (LateCancelsRecorded).                                                    *)
RecordsStand ==
  /\ job.stage = "applied" =>
       /\ Rebuilt(state, trial, job) /\ ProjectionCovers(state, trial, job)
       /\ AuditRecords(state, trial)
       /\ CancelOfKnownOrder(state, trial, job) \/ validateRecord(state, trial, job)
  /\ job.stage = "idle" => SnapshotRestores(state)
=============================================================================
