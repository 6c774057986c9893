----------------------------- MODULE MCExchange -----------------------------
(***************************************************************************)
(* Small instances of Exchange for TLC.  Every account starts with         *)
(* StartBase and StartQuote, the state one fund command per account and    *)
(* asset reaches from the empty exchange, so that the bounded number of    *)
(* commands goes to orders.                                                *)
(***************************************************************************)
EXTENDS Timeline, TLC

CONSTANTS
  Styles,         \* of limit orders: "gtc", "ioc", "fok", "post" (post-only)
  Quantities,     \* quantities of limit orders
  SellQuantities, \* quantities of market sells
  Budgets,        \* quote budgets of market buys
  StartBase, StartQuote

Limit(a, side, style, p, q) ==
  [account |-> a, side |-> side, type |-> "limit",
   tif |-> IF style = "post" THEN "gtc" ELSE style,
   postOnly |-> style = "post", price |-> p, quantity |-> q, budget |-> 0]

Market(a, side, q, b) ==
  [account |-> a, side |-> side, type |-> "market", tif |-> "ioc",
   postOnly |-> FALSE, price |-> 0, quantity |-> q, budget |-> b]

MCRequests ==
  {Limit(a, side, t, p, q) : a \in Accounts, side \in Sides, t \in Styles,
                             p \in Prices, q \in Quantities}
    \cup {Market(a, "buy", 0, b) : a \in Accounts, b \in Budgets}
    \cup {Market(a, "sell", q, 0) : a \in Accounts, q \in SellQuantities}

Start(asset) == IF asset = "base" THEN StartBase ELSE StartQuote

Funded ==
  [EmptyState EXCEPT
     !.sequence = Cardinality(Accounts) * Cardinality(Assets),
     !.ledger = [k \in LedgerKeys |->
       IF k[1] = "available" THEN Start(k[3])
       ELSE IF k[1] = "treasury" THEN -Cardinality(Accounts) * Start(k[3])
       ELSE 0]]

FundedInit == state = Funded /\ trial = Funded /\ job = NoJob

\* Bound: the first order that is accepted may rest. One that may not finds the
\* book empty, as it also does beside an order of its own side.
FirstMayRest == state = Funded /\ job'.stage = "match" => job'.taker.tif = "gtc"

FundedSpec == FundedInit /\ [][Next /\ FirstMayRest]_vars

Symmetry == Permutations(Accounts)
=============================================================================
