---------------------------- MODULE MarketMaker ----------------------------
(***************************************************************************)
(* The demo market maker (trading/marketmaker): every tick it reads a      *)
(* reference price, pauses and withdraws its quotes when the reference is  *)
(* unsafe, resumes after three consistent samples, and otherwise replaces  *)
(* its quote set when the price has moved or a quote is gone.              *)
(*                                                                         *)
(* Each engine call is one step: the market runner is a single writer.     *)
(* Other accounts act between the calls; what is left of a call when the   *)
(* maker's context ends is TradingService's subject.                       *)
(*                                                                         *)
(* Abstracted: a quote is its side and price; request ids, quantities and  *)
(* status texts are left out; other accounts' orders are the outcomes they *)
(* can cause (a fill, a crossing rejection).                               *)
(***************************************************************************)
EXTENDS Amounts, Sequences, FiniteSets, Functions

CONSTANTS
  Prices,          \* bound: the references a source may return
  SpreadsBPS, MaxJumpBPS, MinRepriceBPS, PriceTick,
  MaxRuns,         \* bound: makers started one after the other
  MaxMakerFaults        \* bound: failed engine calls

ASSUME MakerAssumption ==
  /\ Prices \subseteq Nat \ {0} /\ SpreadsBPS \in Seq(1..(BasisPoints - 1))
  /\ MaxJumpBPS \in Nat /\ MinRepriceBPS \in Nat /\ PriceTick \in Nat \ {0}
  /\ MaxRuns \in Nat \ {0} /\ MaxMakerFaults \in Nat

VARIABLES
  maker,       \* the maker that runs, or ran last
  liquidity,   \* the public status (StatusTracker)
  resting,     \* the maker account's open orders
  live,        \* the maker's context is not cancelled
  runs,        \* makers started so far
  makerFaults, \* makerFaults so far
  reads        \* history: the references a paused maker has read since the
               \* last unsafe one, newest first, at most three

makerVars == <<maker, liquidity, resting, live, runs, makerFaults, reads>>

-----------------------------------------------------------------------------
(* Prices *)

Distance(p, q) == IF p > q THEN p - q ELSE q - p

priceMovementBPS(current, previous) ==
  MulDivCeil(Distance(current, previous), BasisPoints, previous)

Jumps(current, previous) == priceMovementBPS(current, previous) > MaxJumpBPS

shouldReprice(price, previous) ==
  priceMovementBPS(price, previous) >= MinRepriceBPS

ceilToStep(value, step) ==
  IF value % step = 0 THEN value ELSE value + step - (value % step)

Bid(price, spread) ==
  LET bid == MulDivFloor(price, BasisPoints - spread, BasisPoints)
  IN bid - (bid % PriceTick)

Ask(price, spread) ==
  ceilToStep(MulDivCeil(price, BasisPoints + spread, BasisPoints), PriceTick)

quotePricesValid(price) ==
  \A k \in DOMAIN SpreadsBPS :
    Bid(price, SpreadsBPS[k]) > 0
      /\ Ask(price, SpreadsBPS[k]) > Bid(price, SpreadsBPS[k])

\* A bid and an ask for every spread, in the order they are submitted.
quotePlan(price) ==
  [n \in 1..(2 * Len(SpreadsBPS)) |->
     LET spread == SpreadsBPS[(n + 1) \div 2]
     IN IF n % 2 = 1 THEN [side |-> "buy", price |-> Bid(price, spread)]
                     ELSE [side |-> "sell", price |-> Ask(price, spread)]]

-----------------------------------------------------------------------------
FreshMaker == [pc |-> "idle", prev |-> 0, paused |-> FALSE, recov |-> 0,
             fresh |-> 0, ref |-> 0, why |-> "none", left |-> <<>>, bad |-> FALSE]

MakerInit ==
  /\ maker = FreshMaker /\ reads = <<>> /\ liquidity = "recovering"
  /\ resting = {} /\ live = TRUE /\ runs = 1 /\ makerFaults = 0

\* Between two refreshes only the maker's own fields count.
AtRest == [maker EXCEPT !.pc = "idle", !.ref = 0, !.why = "none", !.bad = FALSE]

\* cancelAll starts by reading the open orders.
CancelAll(m, why) == [m EXCEPT !.pc = "orders", !.why = why, !.left = <<>>,
                               !.bad = FALSE]

\* recordRecoveringReference leaves an active status alone.
Recovering == IF liquidity = "active" THEN liquidity ELSE "recovering"

\* An unsafe reference, or one the maker reads while it quotes, counts for
\* nothing.
Saw(ref) ==
  reads' = IF ref = 0 \/ ~maker.paused THEN <<>>
           ELSE SubSeq(<<ref>> \o reads, 1,
                       IF Len(reads) < 2 THEN Len(reads) + 1 ELSE 3)

-----------------------------------------------------------------------------
(* refresh *)

\* The source fails, or its observation is stale or from the future.
RefreshUnsafe ==
  /\ maker.pc = "idle" /\ Saw(0)
  /\ maker' = CancelAll(maker, "pause")
  /\ liquidity' \in {liquidity, Recovering}
  /\ UNCHANGED <<resting, live, runs, makerFaults>>

\* While paused: the first sample, one too far from the last, or too few.
Restarts(ref) == maker.recov = 0 \/ Jumps(ref, maker.recov)

\* Mutant: off by one in the number of samples.
EnoughFour(ref) == ~Restarts(ref) /\ maker.fresh + 1 >= 4

Enough(ref) == ~Restarts(ref) /\ maker.fresh + 1 >= 3

RefreshSample(ref) ==
  /\ maker.pc = "idle" /\ maker.paused /\ ~Enough(ref) /\ Saw(ref)
  /\ maker' = [maker EXCEPT !.recov = ref,
                            !.fresh = IF Restarts(ref) THEN 1 ELSE @ + 1]
  /\ liquidity' = Recovering
  /\ UNCHANGED <<resting, live, runs, makerFaults>>

Resumed == [maker EXCEPT !.paused = FALSE, !.recov = 0, !.fresh = 0]

MayQuote(ref) == maker.pc = "idle" /\ (maker.paused => Enough(ref))

JumpsFromQuoted(ref) == maker.prev > 0 /\ Jumps(ref, maker.prev)

RefreshJump(ref) ==
  /\ MayQuote(ref) /\ JumpsFromQuoted(ref) /\ Saw(ref)
  /\ maker' = CancelAll(Resumed, "pause")
  /\ liquidity' = Recovering
  /\ UNCHANGED <<resting, live, runs, makerFaults>>

\* The quote set is whole and close enough to the reference.
StillGood(ref) ==
  /\ Cardinality(resting) = 2 * Len(SpreadsBPS)
  /\ maker.prev > 0 /\ ~shouldReprice(ref, maker.prev)

RefreshKeep(ref) ==
  /\ MayQuote(ref) /\ ~JumpsFromQuoted(ref) /\ StillGood(ref) /\ Saw(ref)
  /\ maker' = Resumed /\ liquidity' = "active"
  /\ UNCHANGED <<resting, live, runs, makerFaults>>

RefreshRequote(ref) ==
  /\ MayQuote(ref) /\ ~JumpsFromQuoted(ref) /\ ~StillGood(ref) /\ Saw(ref)
  /\ maker' = [CancelAll(Resumed, "requote") EXCEPT !.ref = ref]
  /\ liquidity' = Recovering
  /\ UNCHANGED <<resting, live, runs, makerFaults>>

-----------------------------------------------------------------------------
(* Engine calls.  A call on the maker's own context fails once that context *)
(* is cancelled; the clean-up of a failed submit and of a stop runs on a    *)
(* fresh one.  A failed call may have taken effect.                         *)

OwnContext == maker.pc = "submit" \/ maker.why \in {"pause", "requote"}

Fails == IF OwnContext /\ ~live THEN makerFaults' = makerFaults
         ELSE makerFaults < MaxMakerFaults /\ makerFaults' = makerFaults + 1

\* The account's open orders as a list: the state lists them in one fixed order.
RestingOrders == CHOOSE s \in Injection(1 .. Cardinality(resting), resting) : TRUE

ReadOrders ==
  /\ maker.pc = "orders"
  /\ maker' = [maker EXCEPT !.pc = "cancel", !.left = RestingOrders]
  /\ UNCHANGED <<liquidity, resting, live, runs, makerFaults, reads>>

\* cancelOrderIDs tries every order and joins the errors.
Cancel(done, ok) ==
  /\ maker.pc = "cancel" /\ maker.left # <<>>
  /\ IF ok THEN done /\ (OwnContext => live) /\ makerFaults' = makerFaults ELSE Fails
  /\ maker' = [maker EXCEPT !.left = Tail(@), !.bad = @ \/ ~ok]
  /\ resting' = IF done THEN resting \ {Head(maker.left)} ELSE resting
  /\ UNCHANGED <<liquidity, live, runs, reads>>

Cancelled(whys) ==
  maker.pc = "cancel" /\ maker.left = <<>> /\ maker.why \in whys

\* Mutant: a pause keeps the samples counted before it.
PauseKeepsCount ==
  /\ Cancelled({"pause"})
  /\ maker' = [AtRest EXCEPT !.paused = TRUE, !.prev = 0]
  /\ liquidity' = "paused"
  /\ UNCHANGED <<resting, live, runs, makerFaults, reads>>

\* pauseUnsafe: the maker is paused whether or not its quotes are gone.
PauseEnds ==
  /\ Cancelled({"pause"})
  /\ maker' = [AtRest EXCEPT !.paused = TRUE, !.prev = 0, !.recov = 0,
                             !.fresh = 0]
  /\ liquidity' = "paused"
  /\ UNCHANGED <<resting, live, runs, makerFaults, reads>>

\* Run ends with an error.
FailsRun == maker' = [AtRest EXCEPT !.pc = "failed"] /\ liquidity' = "paused"

\* Mutant: new quotes are planned although old ones could not be withdrawn.
PlanAnyway(crosses) ==
  /\ Cancelled({"requote"})
  /\ IF crosses THEN maker' = AtRest /\ liquidity' = "recovering"
     ELSE /\ maker' = [maker EXCEPT !.pc = "submit",
                                    !.left = quotePlan(maker.ref)]
          /\ liquidity' = liquidity
  /\ UNCHANGED <<resting, live, runs, makerFaults, reads>>

\* The old quotes are gone: plan the new ones, unless the plan is invalid
\* or would cross the depth just read.
PlanQuotes(crosses) ==
  /\ Cancelled({"requote"})
  /\ IF maker.bad THEN FailsRun
     ELSE IF ~quotePricesValid(maker.ref)
       THEN maker' = CancelAll(maker, "pause") /\ liquidity' = liquidity
     ELSE IF crosses
       THEN maker' = AtRest /\ liquidity' = "recovering"
     ELSE /\ maker' = [maker EXCEPT !.pc = "submit",
                                    !.left = quotePlan(maker.ref)]
          /\ liquidity' = liquidity
  /\ UNCHANGED <<resting, live, runs, makerFaults, reads>>

\* A quote rests, is rejected because it would cross, or for another reason.
Submit(outcome) ==
  /\ maker.pc = "submit" /\ maker.left # <<>> /\ live
  /\ maker' = CASE outcome = "open" -> [maker EXCEPT !.left = Tail(@)]
                [] outcome = "crossing" -> CancelAll(maker, "blocked")
                [] outcome = "rejected" -> CancelAll(maker, "error")
  /\ resting' = IF outcome = "open" THEN resting \cup {Head(maker.left)} ELSE resting
  /\ UNCHANGED <<liquidity, live, runs, makerFaults, reads>>

SubmitFails(done) ==
  /\ maker.pc = "submit" /\ maker.left # <<>> /\ Fails
  /\ maker' = CancelAll(maker, "error")
  /\ resting' = IF done THEN resting \cup {Head(maker.left)} ELSE resting
  /\ UNCHANGED <<liquidity, live, runs, reads>>

\* After the clean-up only a crossing rejection lets the maker go on.
CleanupEnds ==
  /\ Cancelled({"error", "blocked"})
  /\ IF maker.why = "blocked" /\ ~maker.bad
       THEN maker' = AtRest /\ liquidity' = "recovering" ELSE FailsRun
  /\ UNCHANGED <<resting, live, runs, makerFaults, reads>>

Quoted ==
  /\ maker.pc = "submit" /\ maker.left = <<>>
  /\ maker' = [AtRest EXCEPT !.prev = maker.ref]
  /\ liquidity' = "active"
  /\ UNCHANGED <<resting, live, runs, makerFaults, reads>>

\* Run meets its cancelled context between two refreshes.
Unwind ==
  /\ maker.pc = "idle" /\ ~live
  /\ maker' = CancelAll(maker, "stop")
  /\ UNCHANGED <<liquidity, resting, live, runs, makerFaults, reads>>

UnwindEnds ==
  /\ Cancelled({"stop"})
  /\ IF maker.bad THEN FailsRun
     ELSE maker' = [AtRest EXCEPT !.pc = "done"] /\ liquidity' = "recovering"
  /\ UNCHANGED <<resting, live, runs, makerFaults, reads>>

-----------------------------------------------------------------------------
(* The backend and the other accounts *)

CancelContext ==
  /\ live /\ live' = FALSE
  /\ UNCHANGED <<maker, liquidity, resting, runs, makerFaults, reads>>

\* startMaker, once the previous maker has ended.
StartAgain ==
  /\ maker.pc \in {"failed", "done"} /\ runs < MaxRuns
  /\ maker' = FreshMaker /\ live' = TRUE /\ runs' = runs + 1 /\ reads' = <<>>
  /\ UNCHANGED <<liquidity, resting, makerFaults>>

TakeQuote(q) ==
  /\ q \in resting /\ resting' = resting \ {q}
  /\ UNCHANGED <<maker, liquidity, live, runs, makerFaults, reads>>

MakerNext ==
  \/ RefreshUnsafe
  \/ \E ref \in Prices : \/ RefreshSample(ref) \/ RefreshJump(ref)
                         \/ RefreshKeep(ref) \/ RefreshRequote(ref)
  \/ ReadOrders \/ \E done, ok \in BOOLEAN : Cancel(done, ok)
  \/ PauseEnds \/ \E crosses \in BOOLEAN : PlanQuotes(crosses)
  \/ \E o \in {"open", "crossing", "rejected"} : Submit(o)
  \/ \E done \in BOOLEAN : SubmitFails(done)
  \/ CleanupEnds \/ Quoted \/ Unwind \/ UnwindEnds
  \/ CancelContext \/ StartAgain \/ \E q \in resting : TakeQuote(q)

-----------------------------------------------------------------------------
(* Properties *)

\* The type invariant of the demo maker.
MakerTypeOK ==
  /\ maker.pc \in {"idle", "orders", "cancel", "submit", "failed", "done"}
  /\ {maker.prev, maker.ref, maker.recov} \subseteq Prices \cup {0}
  /\ maker.fresh \in 0..2 /\ maker.paused \in BOOLEAN /\ maker.bad \in BOOLEAN
  /\ liquidity \in {"active", "recovering", "paused"}
  /\ live \in BOOLEAN /\ runs \in 1..MaxRuns /\ makerFaults \in 0..MaxMakerFaults

\* After a pause the maker quotes again only once the last three references
\* it read were safe and each within MaxJumpBPS of the one before.
ResumesAfterThreeSamples ==
  [][maker.paused /\ ~maker'.paused /\ runs' = runs =>
       /\ Len(reads') = 3
       /\ ~Jumps(reads'[1], reads'[2]) /\ ~Jumps(reads'[2], reads'[3])]_makerVars

\* While the public status is active no quote of an earlier quote set rests:
\* each was priced off the reference last quoted, or the one being quoted.
ActiveQuotesCurrent ==
  liquidity = "active" =>
    resting \subseteq UNION {Range(quotePlan(p)) : p \in {maker.prev, maker.ref}}
=============================================================================
