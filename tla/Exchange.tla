------------------------------ MODULE Exchange ------------------------------
(***************************************************************************)
(* One market of the virtual trading process: trading/exchange together    *)
(* with its price-time order book (trading/orderbook) and its double-entry *)
(* ledger (trading/ledger).                                                *)
(*                                                                         *)
(* `state' is the committed state of the exchange and `trial' the clone a  *)
(* command works on.  A command is applied to the clone and the clone is   *)
(* installed only after validation and after the event batch is durable,   *)
(* so an error at any point leaves `state' as it was.  `job' is the        *)
(* progress of the command: the matching loop and the settlement loop of   *)
(* applySubmit advance one iteration per step.                             *)
(*                                                                         *)
(* Abstracted: order and trade identifiers are the command sequence they   *)
(* are formatted from; an order's held asset is the one its side fixes;    *)
(* event texts and LastSequence are left out.  Request identities and the  *)
(* idempotency cache belong to module MarketRunner.                        *)
(***************************************************************************)
EXTENDS Amounts, Sequences, FiniteSets, FiniteSetsExt

CONSTANTS
  Accounts,      \* user accounts
  DemoMaker,     \* the account whose closed orders are compacted away
  None,          \* no order, no owner
  Prices,        \* the price levels in play
  Requests,      \* the NewOrder payloads clients may submit
  FundAmounts,   \* the amounts a fund command may carry
  PriceTick, MinQuantity, MinNotional, MakerFeeBPS, TakerFeeBPS,
  MaxSequence    \* bound: commands in one behaviour

Sides  == {"buy", "sell"}
Types  == {"limit", "market"}
TIFs   == {"gtc", "ioc", "fok"}
Assets == {"base", "quote"}

OrderIds == 1..MaxSequence

NewOrder == [account: Accounts, side: Sides, type: Types, tif: TIFs,
             postOnly: BOOLEAN, price: Prices \cup {0},
             quantity: Nat, budget: Nat]

VARIABLES state, trial, job
vars == <<state, trial, job>>

-----------------------------------------------------------------------------
(* Orders *)

OpenStatuses == {"open", "partially_filled"}
Statuses == OpenStatuses \cup {"received", "filled", "canceled", "rejected"}

Order == [account: Accounts, side: Sides, type: Types, tif: TIFs,
          postOnly: BOOLEAN, price: Prices \cup {0},
          original: Nat, remaining: Nat, filled: Nat,
          budget: Nat, remainingBudget: Nat, spent: Nat,
          held: Nat, status: Statuses]

ASSUME ExchangeAssumption ==
  /\ None \notin Accounts /\ None \notin Order
  /\ Prices \subseteq 1..MaxInt64
  /\ Requests \subseteq NewOrder
  /\ FundAmounts \subseteq Nat \ {0}
  /\ PriceTick \in Nat \ {0}
  /\ MinQuantity \in Nat \ {0}
  /\ MinQuantity % QuantityStep = 0
  /\ MinNotional \in Nat \ {0}
  /\ MakerFeeBPS \in 0..(BasisPoints - 1)
  /\ TakerFeeBPS \in 0..(BasisPoints - 1)
  /\ MaxSequence \in Nat

IsOpen(order) == order.status \in OpenStatuses

IsMarketBuy(order) == order.type = "market" /\ order.side = "buy"

Aligned(quantity) == quantity >= MinQuantity /\ quantity % QuantityStep = 0

ValidLimit(r) ==
  LET notional == QuoteAmountFloor(r.price, r.quantity)
  IN /\ r.type = "limit"
     /\ r.price > 0 /\ r.price % PriceTick = 0
     /\ Aligned(r.quantity) /\ r.budget = 0
     /\ r.postOnly => r.tif = "gtc"
     /\ QuoteAmountFloor(r.price, QuantityStep) > 0
     /\ FitsInt64(notional) /\ notional >= MinNotional

ValidMarket(r) ==
  /\ r.type = "market"
  /\ r.price = 0 /\ r.tif = "ioc" /\ ~r.postOnly
  /\ IF r.side = "buy" THEN r.budget >= MinNotional /\ r.quantity = 0
                       ELSE Aligned(r.quantity) /\ r.budget = 0

Valid(r) == ValidLimit(r) \/ ValidMarket(r)

OrderOf(r) ==
  [account |-> r.account, side |-> r.side, type |-> r.type, tif |-> r.tif,
   postOnly |-> r.postOnly, price |-> r.price,
   original |-> r.quantity, remaining |-> r.quantity, filled |-> 0,
   budget |-> r.budget, remainingBudget |-> r.budget, spent |-> 0,
   held |-> 0, status |-> "received"]

HeldAsset(order) == IF order.side = "buy" THEN "quote" ELSE "base"

\* What an order must have on hold for its remaining quantity.
RequiredHold(order) ==
  IF order.side = "buy" THEN QuoteAmountCeil(order.price, order.remaining)
                        ELSE order.remaining

\* Mutant: the reserve of a buy is rounded down like a settlement.
reserveForRoundedDown(order) ==
  IF IsMarketBuy(order) THEN order.remainingBudget
  ELSE IF order.side = "buy"
    THEN QuoteAmountFloor(order.price, order.remaining)
  ELSE order.remaining

\* What a new order puts on hold before matching.
reserveFor(order) ==
  IF IsMarketBuy(order) THEN order.remainingBudget ELSE RequiredHold(order)

-----------------------------------------------------------------------------
(* Ledger: balances under <<kind, owner, asset>>; a transaction is a set   *)
(* of entries with distinct keys.                                          *)

LedgerKeys == ({"available", "held"} \X Accounts \X Assets)
                \cup ({"fee", "treasury"} \X {None} \X Assets)

Entry(kind, owner, asset, amount) ==
  [key |-> <<kind, owner, asset>>, amount |-> amount]

AssetSum(entries, asset) ==
  MapThenSumSet(LAMBDA e : e.amount, {e \in entries : e.key[3] = asset})

EmptyLedger == [k \in LedgerKeys |-> 0]

PostError(ledger, entries) ==
  IF \E e \in entries : e.key[1] # "treasury" /\ ledger[e.key] + e.amount < 0
    THEN "insufficient_balance"
  ELSE IF \E e \in entries : \/ e.amount = 0
                             \/ ~FitsInt64(ledger[e.key] + e.amount)
    THEN "invalid_transaction"
  ELSE IF \E a \in Assets : AssetSum(entries, a) # 0
    THEN "unbalanced_transaction"
  ELSE "none"

Post(ledger, entries) ==
  [k \in LedgerKeys |->
     IF \E e \in entries : e.key = k
       THEN ledger[k] + (CHOOSE e \in entries : e.key = k).amount
       ELSE ledger[k]]

FundEntries(account, asset, amount) ==
  {Entry("treasury", None, asset, -amount),
   Entry("available", account, asset, amount)}

HoldEntries(account, asset, amount) ==
  {Entry("available", account, asset, -amount),
   Entry("held", account, asset, amount)}

ReleaseEntries(account, asset, amount) ==
  {Entry("held", account, asset, -amount),
   Entry("available", account, asset, amount)}

-----------------------------------------------------------------------------
(* Order book: FIFO queues of order ids per side and price, and the book's *)
(* own copy of every resting order (index).                                *)

Opposite(side) == IF side = "buy" THEN "sell" ELSE "buy"

\* Price p is strictly ahead of price q in the queue of the given side.
Better(side, p, q) == IF side = "buy" THEN p > q ELSE p < q

Crosses(order, makerPrice) ==
  \/ order.type = "market"
  \/ ~Better(order.side, makerPrice, order.price)

LevelPrices(s, side) == {p \in Prices : s.levels[side][p] # <<>>}

BestPrice(s, side) ==
  CHOOSE p \in LevelPrices(s, side) :
    \A q \in LevelPrices(s, side) : ~Better(side, q, p)

\* The order at the head of the best level facing an incoming order.
bestOpposing(s, side) ==
  Head(s.levels[Opposite(side)][BestPrice(s, Opposite(side))])

\* Mutant: a post-only order at the opposing price is not seen to cross.
WouldCrossStrictly(s, order) ==
  \E p \in LevelPrices(s, Opposite(order.side)) :
    Crosses(order, p) /\ p # order.price

WouldCross(s, order) ==
  \E p \in LevelPrices(s, Opposite(order.side)) : Crosses(order, p)

\* The places <<price, position>> of the crossing side of the book.
CrossingPlaces(s, order) ==
  {x \in Prices \X (1..MaxSequence) :
     /\ Crosses(order, x[1])
     /\ x[2] <= Len(s.levels[Opposite(order.side)][x[1]])}

Resting(s, order, x) == s.index[s.levels[Opposite(order.side)][x[1]][x[2]]]

\* The places the prescan has visited when it stands at x.
Visited(s, order, x) ==
  {y \in CrossingPlaces(s, order) :
     \/ Better(Opposite(order.side), y[1], x[1])
     \/ y[1] = x[1] /\ y[2] <= x[2]}

\* Mutant: the prescan counts the account's own orders as liquidity.
CanFillFOKWithOwn(s, order) ==
  MapThenSumSet(LAMBDA y : Resting(s, order, y).remaining,
                CrossingPlaces(s, order)) >= order.remaining

CanFillFOK(s, order) ==
  \E x \in CrossingPlaces(s, order) :
    /\ \A y \in Visited(s, order, x) :
         Resting(s, order, y).account # order.account
    /\ MapThenSumSet(LAMBDA y : Resting(s, order, y).remaining,
                     Visited(s, order, x)) >= order.remaining

\* Mutant: the newest order at a price goes to the front of its queue.
BookAddInFront(s, id, order) ==
  [s EXCEPT !.levels[order.side][order.price] = <<id>> \o @,
            !.index[id] = order]

BookAdd(s, id, order) ==
  [s EXCEPT !.levels[order.side][order.price] = Append(@, id),
            !.index[id] = order]

\* The queue without the first occurrence of id.
Without(queue, id) ==
  LET i == CHOOSE i \in 1..Len(queue) :
             queue[i] = id /\ \A j \in 1..(i - 1) : queue[j] # id
  IN [j \in 1..(Len(queue) - 1) |-> IF j < i THEN queue[j] ELSE queue[j + 1]]

BookRemove(s, id, order) ==
  [s EXCEPT !.levels[order.side][order.price] = Without(@, id),
            !.index[id] = None]

\* Mutant: a fill is not capped by what the maker has left.
executableQuantityUncapped(order, maker) ==
  IF IsMarketBuy(order)
    THEN AffordableQuantity(order.remainingBudget, maker.price)
    ELSE order.remaining

executableQuantity(order, maker) ==
  LET wanted == IF IsMarketBuy(order)
                  THEN AffordableQuantity(order.remainingBudget, maker.price)
                  ELSE order.remaining
  IN IF maker.remaining < wanted THEN maker.remaining ELSE wanted

-----------------------------------------------------------------------------
(* Commands *)

NoJob == [stage |-> "idle", account |-> None, id |-> 0, taker |-> None, fills |-> <<>>,
          settled |-> 0, eventLeft |-> 0, stop |-> "none", error |-> "none"]

EmptyState ==
  [sequence |-> 0, orders |-> [o \in OrderIds |-> None],
   levels |-> [side \in Sides |-> [p \in Prices |-> <<>>]],
   index |-> [o \in OrderIds |-> None],
   ledger |-> EmptyLedger, trades |-> <<>>]

Init == state = EmptyState /\ trial = EmptyState /\ job = NoJob

\* A command takes the next sequence number and works on a clone.
Begin == job.stage = "idle" /\ state.sequence < MaxSequence

Cloned == [state EXCEPT !.sequence = @ + 1]

Fail(reason) == /\ job' = [job EXCEPT !.stage = "failed", !.error = reason]
                /\ UNCHANGED <<state, trial>>

\* Apply one ledger transaction to s, or fail the command.
PostOrFail(s, entries, j) ==
  LET err == PostError(s.ledger, entries)
  IN IF err = "none"
       THEN /\ trial' = [s EXCEPT !.ledger = Post(@, entries)]
            /\ job' = j
            /\ UNCHANGED state
       ELSE Fail(err)

Fund(account, asset, amount) ==
  /\ Begin
  /\ PostOrFail(Cloned, FundEntries(account, asset, amount),
                [job EXCEPT !.stage = "applied", !.account = account])

RejectReason(s, order) ==
  IF order.postOnly /\ WouldCross(s, order) THEN "post_only_would_cross"
  ELSE IF order.tif = "fok" /\ ~CanFillFOK(s, order) THEN "fok_not_fillable"
  ELSE IF PostError(s.ledger, HoldEntries(order.account, HeldAsset(order),
                                          reserveFor(order)))
          = "insufficient_balance" /\ FitsInt64(reserveFor(order))
    THEN "insufficient_balance"
  ELSE "none"

\* Mutant: a refused order is filed under the previous sequence number.
RejectOrderOffByOne(r) ==
  /\ Begin /\ Valid(r)
  /\ RejectReason(state, OrderOf(r)) # "none"
  /\ trial' = [Cloned EXCEPT !.orders[state.sequence] =
                 [OrderOf(r) EXCEPT !.status = "rejected"]]
  /\ job' = [job EXCEPT !.stage = "applied", !.account = r.account,
                        !.id = Cloned.sequence]
  /\ UNCHANGED state

\* applySubmit up to the point where the order is refused.
RejectOrder(r) ==
  /\ Begin /\ Valid(r)
  /\ RejectReason(state, OrderOf(r)) # "none"
  /\ trial' = [Cloned EXCEPT !.orders[Cloned.sequence] =
                 [OrderOf(r) EXCEPT !.status = "rejected"]]
  /\ job' = [job EXCEPT !.stage = "applied", !.account = r.account,
                        !.id = Cloned.sequence]
  /\ UNCHANGED state

\* applySubmit up to the hold; the order goes on to be matched.
AcceptOrder(r) ==
  /\ Begin /\ Valid(r)
  /\ RejectReason(state, OrderOf(r)) = "none"
  /\ LET order == OrderOf(r)
         amount == reserveFor(order)
     IN IF FitsInt64(amount)
          THEN PostOrFail(Cloned,
                 HoldEntries(order.account, HeldAsset(order), amount),
                 [job EXCEPT !.stage = "match", !.account = order.account,
                             !.id = Cloned.sequence,
                             !.taker = [order EXCEPT !.held = amount],
                             !.eventLeft = r.quantity + r.budget])
          ELSE Fail("overflow")

-----------------------------------------------------------------------------
(* Match: one iteration of the loop per step *)

StopReason(s, order) ==
  IF LevelPrices(s, Opposite(order.side)) = {} THEN "no_liquidity"
  ELSE LET maker == s.index[bestOpposing(s, order.side)]
       IN IF ~Crosses(order, maker.price) THEN "price_limit"
          ELSE IF maker.account = order.account THEN "self_trade"
          ELSE IF executableQuantity(order, maker) = 0
            THEN IF IsMarketBuy(order) THEN "budget_exhausted"
                                       ELSE "input_exhausted"
          ELSE "none"

StopMatching ==
  /\ job.stage = "match"
  /\ StopReason(trial, job.taker) # "none"
  /\ job' = [job EXCEPT !.stage = "settle",
                        !.stop = StopReason(trial, job.taker)]
  /\ UNCHANGED <<state, trial>>

\* The order after a fill of the given quantity and quote amount.
MakerFilled(maker, quantity, quote) ==
  [maker EXCEPT !.remaining = @ - quantity, !.filled = @ + quantity,
                !.spent = @ + quote,
                !.status = IF maker.remaining = quantity THEN "filled"
                                                ELSE "partially_filled"]

\* Mutant: a market buy's budget is charged the base quantity.
TakerFilledInBase(order, quantity, quote) ==
  [order EXCEPT
     !.filled = @ + quantity, !.spent = @ + quote,
     !.remaining = IF IsMarketBuy(order) THEN @ ELSE @ - quantity,
     !.remainingBudget = IF IsMarketBuy(order) THEN @ - quantity ELSE @]

TakerFilled(order, quantity, quote) ==
  [order EXCEPT
     !.filled = @ + quantity, !.spent = @ + quote,
     !.remaining = IF IsMarketBuy(order) THEN @ ELSE @ - quantity,
     !.remainingBudget = IF IsMarketBuy(order) THEN @ - quote ELSE @]

\* Why the loop returns right after a fill, if it does.
ExhaustedBy(order) ==
  IF IsMarketBuy(order)
    THEN IF order.remainingBudget = 0 THEN "budget_exhausted" ELSE "none"
    ELSE IF order.remaining = 0 THEN "input_exhausted" ELSE "none"

MatchFill ==
  /\ job.stage = "match"
  /\ StopReason(trial, job.taker) = "none"
  /\ LET id == bestOpposing(trial, job.taker.side)
         maker == trial.index[id]
         quantity == executableQuantity(job.taker, maker)
         quote == QuoteAmountFloor(maker.price, quantity)
         maker2 == MakerFilled(maker, quantity, quote)
         taker2 == TakerFilled(job.taker, quantity, quote)
         stop == ExhaustedBy(taker2)
         fill == [maker |-> id, makerRemaining |-> maker2.remaining,
                  price |-> maker.price, quantity |-> quantity,
                  quote |-> quote]
     IN IF \/ quote = 0 \/ ~FitsInt64(quote)
           \/ /\ IsMarketBuy(job.taker)
              /\ ~FitsInt64(MulDivFloor(job.taker.remainingBudget,
                                        BaseScale, maker.price))
          THEN Fail("invalid_fill")
          ELSE /\ trial' = IF maker2.remaining = 0
                             THEN BookRemove(trial, id, maker)
                             ELSE [trial EXCEPT !.index[id] = maker2]
               /\ job' = [job EXCEPT
                    !.stage = IF stop = "none" THEN "match" ELSE "settle",
                    !.taker = taker2, !.stop = stop,
                    !.fills = Append(@, fill)]
               /\ UNCHANGED state

-----------------------------------------------------------------------------
(* Settlement: one fill per step *)

Consumed(order, fill) ==
  IF order.side = "buy" THEN fill.quote ELSE fill.quantity

BuyerFee(maker, fill) ==
  FeeAmount(fill.quantity, IF maker.side = "buy" THEN MakerFeeBPS
                                                 ELSE TakerFeeBPS)

SellerFee(maker, fill) ==
  FeeAmount(fill.quote, IF maker.side = "buy" THEN TakerFeeBPS
                                              ELSE MakerFeeBPS)

Buyer(maker, taker)  == IF maker.side = "buy" THEN maker ELSE taker
Seller(maker, taker) == IF maker.side = "buy" THEN taker ELSE maker

TradeEntries(maker, taker, fill) ==
  LET buyer == Buyer(maker, taker).account
      seller == Seller(maker, taker).account
      buyerFee == BuyerFee(maker, fill)
      sellerFee == SellerFee(maker, fill)
      fees == {Entry("fee", None, "quote", sellerFee),
               Entry("fee", None, "base", buyerFee)}
  IN {Entry("held", buyer, "quote", -fill.quote),
      Entry("available", seller, "quote", fill.quote - sellerFee),
      Entry("held", seller, "base", -fill.quantity),
      Entry("available", buyer, "base", fill.quantity - buyerFee)}
     \cup {e \in fees : e.amount > 0}

Trade(id, maker, taker, fill) ==
  [maker |-> fill.maker, taker |-> id, price |-> fill.price,
   quantity |-> fill.quantity, quote |-> fill.quote,
   buyer |-> Buyer(maker, taker).account,
   seller |-> Seller(maker, taker).account,
   buyerFee |-> BuyerFee(maker, fill), sellerFee |-> SellerFee(maker, fill)]

\* Mutant: the maker's spent quote is not carried to the order index.
MakerSettledUnspent(maker, fill) ==
  [maker EXCEPT !.remaining = fill.makerRemaining,
                !.filled = @ + fill.quantity,
                !.held = @ - Consumed(maker, fill),
                !.status = IF fill.makerRemaining = 0 THEN "filled"
                                               ELSE "partially_filled"]

\* The maker in the order index after the fill, its hold not yet trimmed.
MakerSettled(maker, fill) ==
  [maker EXCEPT !.remaining = fill.makerRemaining,
                !.filled = @ + fill.quantity, !.spent = @ + fill.quote,
                !.held = @ - Consumed(maker, fill),
                !.status = IF fill.makerRemaining = 0 THEN "filled"
                                               ELSE "partially_filled"]

\* Mutant: a buy maker keeps the rounding excess of its hold until closed.
ExcessHoldWhenFilled(maker) ==
  IF maker.side = "buy" /\ maker.remaining = 0 THEN maker.held ELSE 0

\* releaseExcessBuyHold: what a buy maker gives back after a fill.
ExcessHold(maker) ==
  IF maker.side = "buy" THEN maker.held - RequiredHold(maker) ELSE 0

\* What a fill takes off the remainder reported in the trade events.
EventAmount(taker, fill) ==
  IF IsMarketBuy(taker) THEN fill.quote ELSE fill.quantity

SettleError(s, j, fill) ==
  LET maker == s.orders[fill.maker]
      entries == TradeEntries(maker, j.taker, fill)
      maker2 == MakerSettled(maker, fill)
      release == ReleaseEntries(maker.account, "quote", ExcessHold(maker2))
  IN IF maker = None THEN "maker_absent"
     ELSE IF \/ BuyerFee(maker, fill) >= fill.quantity
             \/ SellerFee(maker, fill) >= fill.quote THEN "fees"
     ELSE IF PostError(s.ledger, entries) # "none" THEN "trade_posting"
     ELSE IF \/ j.taker.held < Consumed(j.taker, fill)
             \/ maker2.held < 0 THEN "hold_negative"
     ELSE IF ExcessHold(maker2) < 0 THEN "hold_below_required"
     ELSE IF /\ ExcessHold(maker2) > 0
             /\ PostError(Post(s.ledger, entries), release) # "none"
       THEN "release_posting"
     ELSE IF /\ maker2.remaining = 0
             /\ maker2.held # ExcessHold(maker2) THEN "hold_retained"
     ELSE IF maker2.remaining # 0 /\ s.index[fill.maker] = None
       THEN "order_not_found"
     ELSE IF j.eventLeft < EventAmount(j.taker, fill) THEN "event_remaining"
     ELSE "none"

\* Mutant: the book's own copy of the maker is not updated after settlement.
SettledWithoutUpdate(s, j, fill) ==
  LET maker == s.orders[fill.maker]
      maker2 == MakerSettled(maker, fill)
      excess == ExcessHold(maker2)
      paid == Post(s.ledger, TradeEntries(maker, j.taker, fill))
  IN [s EXCEPT
       !.orders[fill.maker] = [maker2 EXCEPT !.held = @ - excess],
       !.ledger = IF excess > 0
                    THEN Post(paid, ReleaseEntries(maker.account, "quote",
                                                   excess))
                    ELSE paid,
       !.trades = Append(@, Trade(j.id, maker, j.taker, fill))]

Settled(s, j, fill) ==
  LET maker == s.orders[fill.maker]
      maker2 == MakerSettled(maker, fill)
      excess == ExcessHold(maker2)
      maker3 == [maker2 EXCEPT !.held = @ - excess]
      paid == Post(s.ledger, TradeEntries(maker, j.taker, fill))
  IN [s EXCEPT
       !.orders[fill.maker] = maker3,
       !.index[fill.maker] = IF maker3.remaining = 0 THEN @ ELSE maker3,
       !.ledger = IF excess > 0
                    THEN Post(paid, ReleaseEntries(maker.account, "quote",
                                                   excess))
                    ELSE paid,
       !.trades = Append(@, Trade(j.id, maker, j.taker, fill))]

SettleFill ==
  /\ job.stage = "settle"
  /\ job.settled < Len(job.fills)
  /\ LET fill == job.fills[job.settled + 1]
         error == SettleError(trial, job, fill)
     IN IF error # "none" THEN Fail(error)
        ELSE /\ trial' = Settled(trial, job, fill)
             /\ job' = [job EXCEPT
                  !.settled = @ + 1,
                  !.taker.held = @ - Consumed(job.taker, fill),
                  !.eventLeft = @ - EventAmount(job.taker, fill)]
             /\ UNCHANGED state

-----------------------------------------------------------------------------
(* The end of applySubmit: rest the order or close it, trim its hold *)

\* Mutant: the remainder of a prevented self trade rests.
ShouldRestAfterSelfTrade(j) ==
  /\ j.taker.type = "limit" /\ j.taker.tif = "gtc"
  /\ j.taker.remaining > 0

ShouldRest(j) ==
  /\ j.taker.type = "limit" /\ j.taker.tif = "gtc"
  /\ j.taker.remaining > 0 /\ j.stop # "self_trade"

FinalStatus(j) ==
  IF ShouldRest(j)
    THEN IF j.taker.filled > 0 THEN "partially_filled" ELSE "open"
  ELSE IF IsMarketBuy(j.taker)
    THEN IF j.fills # <<>> /\ j.stop = "budget_exhausted" THEN "filled"
                                                          ELSE "canceled"
  ELSE IF j.taker.remaining = 0 THEN "filled" ELSE "canceled"

DesiredHold(j) == IF ShouldRest(j) THEN RequiredHold(j.taker) ELSE 0

FinishSubmit ==
  /\ job.stage = "settle"
  /\ job.settled = Len(job.fills)
  /\ LET desired == DesiredHold(job)
         release == job.taker.held - desired
         order == [job.taker EXCEPT !.held = desired,
                                    !.status = FinalStatus(job)]
         kept == [trial EXCEPT !.orders[job.id] = order]
         s == IF ShouldRest(job) THEN BookAdd(kept, job.id, order) ELSE kept
         j == [job EXCEPT !.stage = "applied"]
     IN IF release < 0 THEN Fail("hold_below_required")
        ELSE IF release = 0
          THEN trial' = s /\ job' = j /\ UNCHANGED state
        ELSE PostOrFail(s, ReleaseEntries(order.account, HeldAsset(order),
                                          release), j)

-----------------------------------------------------------------------------
(* Cancel *)

Cancelable(account, id) ==
  /\ state.orders[id] # None
  /\ state.orders[id].account = account
  /\ IsOpen(state.orders[id])

\* Unknown order, somebody else's order or a closed one: the command is
\* recorded as rejected and nothing but the sequence moves.
CancelRejected(account, id) ==
  /\ Begin /\ ~Cancelable(account, id)
  /\ trial' = Cloned
  /\ job' = [job EXCEPT !.stage = "applied", !.account = account, !.id = id]
  /\ UNCHANGED state

\* Mutant: a cancel releases the remaining quantity instead of the hold.
CancelOrderRemaining(account, id) ==
  /\ Begin /\ Cancelable(account, id)
  /\ LET order == state.orders[id]
         removed == BookRemove(Cloned, id, state.index[id])
         closed == [order EXCEPT !.status = "canceled", !.held = 0]
     IN PostOrFail([removed EXCEPT !.orders[id] = closed],
                   ReleaseEntries(account, HeldAsset(order),
                                  order.remaining),
                   [job EXCEPT !.stage = "applied", !.account = account,
                               !.id = id])

CancelOrder(account, id) ==
  /\ Begin /\ Cancelable(account, id)
  /\ LET order == state.orders[id]
         removed == BookRemove(Cloned, id, state.index[id])
         closed == [order EXCEPT !.status = "canceled", !.held = 0]
     IN IF state.index[id] = None \/ order.held <= 0
          THEN Fail("invalid_held_funds")
          ELSE PostOrFail([removed EXCEPT !.orders[id] = closed],
                          ReleaseEntries(account, HeldAsset(order),
                                         order.held),
                          [job EXCEPT !.stage = "applied",
                                      !.account = account, !.id = id])

-----------------------------------------------------------------------------
(* Validation and commit (runLocked after apply) *)

\* Entry i of a queue is an open order of that side and price, found once.
EntrySound(levels, index, side, p, i) ==
  LET id == levels[side][p][i]
  IN /\ index[id] # None
     /\ index[id].side = side /\ index[id].price = p
     /\ index[id].status \in OpenStatuses /\ index[id].remaining > 0
     /\ \A j \in 1..Len(levels[side][p]) : levels[side][p][j] = id => j = i

QueuesSound(s) ==
  \A side \in Sides, p \in Prices : \A i \in 1..Len(s.levels[side][p]) :
    EntrySound(s.levels, s.index, side, p, i)

\* The book's index holds no order that is in no queue.
IndexedAreQueued(s) ==
  \A id \in OrderIds : s.index[id] # None =>
    \E side \in Sides, p \in Prices :
      \E i \in 1..Len(s.levels[side][p]) : s.levels[side][p][i] = id

BookConsistent(s) == QueuesSound(s) /\ IndexedAreQueued(s)

\* The order index and the book hold the same open orders.
IndexesAgree(s) ==
  \A id \in OrderIds :
    /\ s.index[id] # None => s.orders[id] = s.index[id]
    /\ s.orders[id] # None =>
         (IsOpen(s.orders[id]) <=> s.index[id] # None)

\* Each open order holds exactly its worst remaining obligation.
HoldsExact(s) ==
  \A id \in OrderIds : s.orders[id] # None =>
    s.orders[id].held = IF IsOpen(s.orders[id])
                          THEN RequiredHold(s.orders[id]) ELSE 0

OpenOrders(s) == {id \in OrderIds : s.orders[id] # None /\ IsOpen(s.orders[id])}

\* The held balances of the ledger are the sums of the holds of open orders.
HeldBalancesMatch(s) ==
  \A account \in Accounts, asset \in Assets :
    s.ledger[<<"held", account, asset>>] =
      MapThenSumSet(LAMBDA id : s.orders[id].held,
                    {id \in OpenOrders(s) :
                       /\ s.orders[id].account = account
                       /\ HeldAsset(s.orders[id]) = asset})

LedgerValid(s) ==
  /\ \A k \in LedgerKeys : k[1] # "treasury" => s.ledger[k] >= 0
  /\ \A asset \in Assets :
       MapThenSumSet(LAMBDA k : s.ledger[k],
                     {k \in LedgerKeys : k[3] = asset}) = 0

validate(s) == /\ BookConsistent(s) /\ IndexesAgree(s) /\ HoldsExact(s)
               /\ HeldBalancesMatch(s) /\ LedgerValid(s)

\* compactEphemeralSystemHistory: closed orders of the demo maker are dropped.
Compact(s) ==
  [s EXCEPT !.orders = [id \in OrderIds |->
     IF /\ s.orders[id] # None
        /\ s.orders[id].account = DemoMaker
        /\ ~IsOpen(s.orders[id]) THEN None ELSE s.orders[id]]]

\* The batch is durable and the clone becomes the state.
Commit ==
  /\ job.stage = "applied"
  /\ IF validate(Compact(trial))
       THEN /\ state' = Compact(trial) /\ trial' = state' /\ job' = NoJob
       ELSE Fail("validate_trial")

\* The event store refuses the batch: the clone is dropped.
AppendFails ==
  /\ job.stage = "applied"
  /\ trial' = state /\ job' = NoJob
  /\ UNCHANGED state

\* The error is returned to the caller and the clone is dropped.
ReturnError ==
  /\ job.stage = "failed"
  /\ trial' = state /\ job' = NoJob
  /\ UNCHANGED state

Next ==
  \/ \E a \in Accounts, x \in Assets, n \in FundAmounts : Fund(a, x, n)
  \/ \E r \in Requests : RejectOrder(r) \/ AcceptOrder(r)
  \/ \E a \in Accounts, id \in OrderIds : CancelRejected(a, id)
  \/ \E a \in Accounts, id \in OrderIds : CancelOrder(a, id)
  \/ StopMatching \/ MatchFill \/ SettleFill \/ FinishSubmit
  \/ Commit \/ AppendFails \/ ReturnError

Spec == Init /\ [][Next]_vars

-----------------------------------------------------------------------------
(* Properties *)

Fill == [maker: OrderIds, makerRemaining: Nat, price: Prices,
         quantity: Nat, quote: Nat]

TradeType == [maker: OrderIds, taker: OrderIds, price: Prices,
              quantity: Nat, quote: Nat, buyer: Accounts, seller: Accounts,
              buyerFee: Nat, sellerFee: Nat]

State ==
  [sequence: 0..MaxSequence, orders: [OrderIds -> Order \cup {None}],
   levels: [Sides -> [Prices -> Seq(OrderIds)]],
   index: [OrderIds -> Order \cup {None}],
   ledger: [LedgerKeys -> Int], trades: Seq(TradeType)]

Stops == {"none", "no_liquidity", "price_limit", "self_trade",
          "budget_exhausted", "input_exhausted"}

Errors == {"none", "insufficient_balance", "invalid_transaction",
           "unbalanced_transaction", "overflow", "invalid_fill",
           "maker_absent", "fees", "trade_posting", "hold_negative",
           "hold_below_required", "release_posting", "hold_retained",
           "order_not_found", "event_remaining", "invalid_held_funds",
           "validate_trial"}

Job ==
  [stage: {"idle", "match", "settle", "applied", "failed"},
   account: Accounts \cup {None}, id: 0..MaxSequence,
   taker: Order \cup {None}, fills: Seq(Fill),
   settled: Nat, eventLeft: Nat, stop: Stops, error: Errors]

\* The type invariant: the committed state, the clone and the command in
\* progress (trading/exchange/state.go) have the fields the code declares,
\* and no quantity of an order is negative.
TypeOK == state \in State /\ trial \in State /\ job \in Job

\* A request that passed validation ends in a result, accepted or rejected;
\* applying it never ends in an internal error.
ValidCommandsSucceed == job.stage # "failed"

RepeatedMaker(fills) ==
  \E i, j \in 1..Len(fills) : i < j /\ fills[i].maker = fills[j].maker

\* A market buy that filled one maker twice and exhausted it: settling the
\* earlier fill looks for a maker that the later one took off the book.
RepeatedMakerFails ==
  /\ job.error = "order_not_found"
  /\ IsMarketBuy(job.taker) /\ RepeatedMaker(job.fills)

\* Funding refused by a checked addition, or a treasury at the most negative
\* integer: it has no positive counterpart, and one account may own all of it.
OverflowAtFunding ==
  \/ job.error = "invalid_transaction" /\ job.taker = None
  \/ \E asset \in Assets :
       state.ledger[<<"treasury", None, asset>>] = -MaxInt64 - 1

\* The self-check that runLocked makes of a clone before persisting it never
\* refuses one, after any mix of partial fills, each rounded down. The queues,
\* the book's index and the order index of the exchange hold the same open
\* orders, each once; every open order holds exactly its remaining obligation
\* rounded up and a closed one nothing; held balances are the sums of the
\* holds, no balance but the treasury's is negative, and each asset sums to
\* zero.
SelfCheckPasses ==
  job.stage = "applied" =>
    LET clone == Compact(trial)
    IN /\ BookConsistent(clone) /\ IndexesAgree(clone)
       /\ HoldsExact(clone)
       /\ HeldBalancesMatch(clone) /\ LedgerValid(clone)

\* Applying a valid command fails in two ways only: on a maker filled twice by
\* one market buy, and when an amount leaves the 64-bit range at funding.  No
\* trade, fee, hold or release can overflow, because the treasury's own limit
\* bounds what users and the platform can own, and none lacks its funds.
OnlyKnownFailures ==
  job.stage = "failed" => RepeatedMakerFails \/ OverflowAtFunding

\* After every command the best bid is below the best ask: whatever crosses
\* was matched, rejected or, for a self trade, canceled.
Uncrossed(s) ==
  \A bid \in LevelPrices(s, "buy"), ask \in LevelPrices(s, "sell") :
    bid < ask
BookUncrossed == Uncrossed(state)

\* Order styles are honoured. Fill-or-kill is all or nothing: the prescan of
\* CanFillFOK and the matching loop agree, and a rejected order leaves no fill
\* behind. A post-only order never takes liquidity.
StylesHonoured ==
  /\ \A id \in OrderIds :
       LET order == state.orders[id]
       IN order # None /\ order.tif = "fok" =>
            \/ order.status = "filled" /\ order.remaining = 0
            \/ order.status = "rejected" /\ order.filled = 0
  /\ \A i \in 1..Len(state.trades) :
       LET order == state.orders[state.trades[i].taker]
       IN order # None => ~order.postOnly

SumOver(s, orderId, amount(_)) ==
  MapThenSumSet(LAMBDA i : amount(s.trades[i]),
    {i \in 1..Len(s.trades) : orderId \in {s.trades[i].maker,
                                           s.trades[i].taker}})

\* A buyer never pays above its limit and a market buy never above its
\* budget, however many partial fills round the quote amount.
NeverOverpays(order) ==
  order.side = "buy" =>
    IF order.type = "market"
      THEN order.spent + order.remainingBudget = order.budget
      ELSE /\ order.spent <= QuoteAmountCeil(order.price, order.filled)
           /\ order.filled + order.remaining = order.original

\* The trades account for the orders and for the platform: an order's filled
\* quantity and spent quote are those of its trades, which never exceed its
\* limit or its budget, and the fee accounts hold what the trades charged.
TradesAccountForOrders ==
  /\ \A id \in OrderIds : state.orders[id] # None =>
       /\ state.orders[id].filled =
            SumOver(state, id, LAMBDA t : t.quantity)
       /\ state.orders[id].spent = SumOver(state, id, LAMBDA t : t.quote)
       /\ NeverOverpays(state.orders[id])
  /\ state.ledger[<<"fee", None, "base">>] =
       MapThenSumSet(LAMBDA i : state.trades[i].buyerFee,
                     1..Len(state.trades))
  /\ state.ledger[<<"fee", None, "quote">>] =
       MapThenSumSet(LAMBDA i : state.trades[i].sellerFee,
                     1..Len(state.trades))

\* Order a waits ahead of order b in the committed book.
Ahead(a, b) ==
  LET A == state.orders[a]
      B == state.orders[b]
  IN /\ A # None /\ B # None /\ IsOpen(A) /\ IsOpen(B)
     /\ A.side = B.side
     /\ \/ Better(A.side, A.price, B.price)
        \/ A.price = B.price /\ a < b

\* Orders keep their place and their end. A command that trades with a resting
\* order has filled every order that waited ahead of it (price-time priority),
\* and a closed order never changes again: only compaction may drop it.
PriceTimePriority ==
  [][\A a \in OrderIds :
       /\ \A b \in OrderIds :
            /\ Ahead(a, b)
            /\ \E i \in (Len(state.trades) + 1)..Len(state'.trades) :
                 state'.trades[i].maker = b
            => state'.orders[a] = None \/ state'.orders[a].status = "filled"
       /\ state.orders[a] # None /\ ~IsOpen(state.orders[a])
            => state'.orders[a] \in {state.orders[a], None}]_vars

=============================================================================
