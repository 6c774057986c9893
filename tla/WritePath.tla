----------------------------- MODULE WritePath -----------------------------
(***************************************************************************)
(* The path of a write from the browser to the market and back: the page's *)
(* journal in localStorage (frontend/src/trading/pending-write.ts,         *)
(* useTradeTerminal.ts), the gateway's guards (trading/gateway), the HTTP  *)
(* API, the RPC server and the command it hands to the market runner. A    *)
(* request may be answered late, or executed after the browser has given   *)
(* it up; the journal keeps an operation until its outcome is known.       *)
(*                                                                         *)
(* One page, which may be reloaded; localStorage operations are atomic and *)
(* every operation has a request ID of its own. What recovery, the disk,   *)
(* the liquidity and the market say at a given moment is left open.        *)
(***************************************************************************)
EXTENDS Access

CONSTANTS Absent,      \* an empty journal
          MaxOps,      \* bound: operations the user starts
          MaxSends     \* bound: requests sent for them

Operations == [kind : {"submit", "cancel", "fund"}, n : 1 .. MaxOps]
JournalStates == {"submitted", "unknown", "reconciling"}

ASSUME WriteAssumption ==
  /\ MaxOps \in Nat /\ MaxSends \in Nat
  /\ Absent \notin [op : Operations, state : JournalStates]

VARIABLES journal,     \* the pending operation and its state, or Absent
          signedIn,    \* the page has a principal
          busy,        \* the page's busy flag
          querying,    \* operations whose reconciliation awaits a query
          requests,    \* write requests on their way
          recorded,    \* operations in the market's log
          closedFor,   \* cancels whose order is closed
          started,     \* history: the operations the user started
          sent

pageVars == <<journal, signedIn, busy, querying>>
backendVars == <<recorded, closedFor>>
writeVars == <<accessVars, pageVars, requests, backendVars, started, sent>>

WriteInit ==
  /\ AccessInit
  /\ journal = Absent
  /\ signedIn = FALSE /\ busy = FALSE
  /\ querying = {} /\ requests = {}
  /\ recorded = {} /\ closedFor = {} /\ started = {}
  /\ sent = 0
-----------------------------------------------------------------------------
(* Answers: what the backend's error becomes on its way to the page.          *)

\* mapError: the code of the RPC by the error of the runner.
mapError(err) ==
  CASE err = "deadline" -> "DeadlineExceeded"
    [] err = "invalid" -> "InvalidArgument"
    [] err = "conflict" -> "AlreadyExists"
    [] err \in {"not open", "insufficient"} -> "FailedPrecondition"
    [] err = "queue full" -> "ResourceExhausted"
    [] err \in {"recovery", "persistence", "closed"} -> "Unavailable"
    [] OTHER -> "Internal"

\* writeGRPC: the status of the HTTP answer, and its code where the page reads it.
writeGRPC(grpc) ==
  CASE grpc = "InvalidArgument" -> <<400, "validation_failed">>
    [] grpc = "AlreadyExists" -> <<409, "alreadyexists">>
    [] grpc = "FailedPrecondition" -> <<422, "failedprecondition">>
    [] grpc = "ResourceExhausted" -> <<429, "resourceexhausted">>
    [] grpc = "Unavailable" -> <<503, "backend_unavailable">>
    [] grpc = "LiquidityPaused" -> <<503, "liquidity_paused">>
    [] grpc = "DeadlineExceeded" -> <<504, "backend_timeout">>
    [] OTHER -> <<500, "internal">>

Ok == <<200, "ok">>
sessionError(code) ==
  CASE code = "session_unavailable" -> <<503, code>>
    [] code = "rate_limited" -> <<429, code>>
    [] OTHER -> <<401, code>>
RecoveryBlocked == <<503, "recovery_in_progress">>
DiskPaused == <<503, "trading_write_paused">>
InvalidBody(kind) ==
  CASE kind = "submit" -> <<400, "invalid_order">>
    [] kind = "fund" -> <<400, "validation_failed">>
    [] OTHER -> <<400, "invalid_json">>
NoAnswer == <<0, "network_error">>

MutantUncertain(http) == http[1] \in {0, 502, 503} /\ http[2] # "recovery_in_progress"

\* request(): after this answer the outcome of the write is not known.
Uncertain(http) ==
  /\ http[2] \notin {"recovery_in_progress", "trading_write_paused"}
  /\ http[1] \in {0, 502, 503, 504}
-----------------------------------------------------------------------------
(* The page.                                                                  *)

MutantMayStore(op) == journal # Absent

\* pendingTradingWriteMutationAllowed: only the operation in the journal.
MayStore(op) == journal # Absent /\ journal.op = op

Clear(op) == journal' = IF MayStore(op) THEN Absent ELSE journal
Transition(op, state) ==
  journal' = IF MayStore(op) THEN [journal EXCEPT !.state = state] ELSE journal

Request(op, mode) ==
  [op |-> op, mode |-> mode, token |-> cookie, at |-> "gateway", awaited |-> TRUE, n |-> sent + 1]

Send(op, mode) ==
  /\ sent < MaxSends
  /\ sent' = sent + 1
  /\ requests' = requests \cup {Request(op, mode)}

\* submitOrder, cancelOrder and the System page's fund, up to the request.
StartWrite(kind) ==
  LET op == [kind |-> kind, n |-> Cardinality(started) + 1]
  IN /\ Cardinality(started) < MaxOps
     /\ signedIn
     /\ kind = "submit" => ~ busy
     /\ journal = Absent
     /\ journal' = [op |-> op, state |-> "submitted"]
     /\ busy' = TRUE
     /\ Send(op, "first")
     /\ started' = started \cup {op}
     /\ UNCHANGED <<accessVars, signedIn, querying, backendVars>>

\* What the first request's promise, or a replay's, does with its answer.
HandleFirst(op, http) ==
  /\ IF http = Ok \/ ~ Uncertain(http) THEN Clear(op) ELSE Transition(op, "unknown")
  /\ busy' = FALSE
HandleReplay(op, http) ==
  /\ IF http = Ok THEN Clear(op) ELSE Transition(op, "unknown")
  /\ UNCHANGED busy
Handle(r, http) ==
  /\ IF ~ r.awaited THEN UNCHANGED <<journal, busy>>
     ELSE IF r.mode = "first" THEN HandleFirst(r.op, http)
     ELSE HandleReplay(r.op, http)
  /\ UNCHANGED <<signedIn, querying>>

\* reconcilePendingWrite: a fund is sent again at once, an order is looked up.
ReconcileWrite ==
  /\ journal # Absent
  /\ journal.state = "unknown" /\ signedIn /\ ~ busy
  /\ IF journal.op.kind = "fund"
     THEN \/ Transition(journal.op, "reconciling") /\ Send(journal.op, "replay")
          \/ UNCHANGED <<journal, requests, sent>>
     ELSE Transition(journal.op, "reconciling") /\ UNCHANGED <<requests, sent>>
  /\ querying' = querying \cup ({journal.op} \ {o \in started : o.kind = "fund"})
  /\ UNCHANGED <<accessVars, signedIn, busy, backendVars, started>>

\* pendingTradingWriteResolvedByOrders: what the read model can show of it.
ResolvedByOrders(op) ==
  \/ op.kind = "submit" /\ op \in recorded
  \/ op.kind = "cancel" /\ op \in closedFor

\* The query's answer: resolved; open or absent, although the read model may
\* only be late, and then replayed unless the page's gates are shut; or an error.
QueryAnswered(op) ==
  /\ op \in querying
  /\ querying' = querying \ {op}
  /\ \/ ResolvedByOrders(op) /\ Clear(op) /\ UNCHANGED <<requests, sent>>
     \/ Send(op, "replay") /\ UNCHANGED journal
     \/ Transition(op, "unknown") /\ UNCHANGED <<requests, sent>>
  /\ UNCHANGED <<accessVars, signedIn, busy, backendVars, started>>

\* loadPrivate, at the end of a refresh.
LoadPrivate ==
  /\ signedIn /\ journal # Absent
  /\ ResolvedByOrders(journal.op)
  /\ Clear(journal.op)
  /\ UNCHANGED <<accessVars, signedIn, busy, querying, requests, backendVars, started, sent>>

\* The page is loaded anew: no promise of the old one is left, and its requests go
\* on without it. restorePendingWrite, then discoverSession.
Reload ==
  /\ journal' = IF journal = Absent THEN journal ELSE [journal EXCEPT !.state = "unknown"]
  /\ busy' = FALSE /\ querying' = {}
  /\ requests' = {[r EXCEPT !.awaited = FALSE] : r \in requests}
  /\ \/ signedIn' = FALSE
     \/ signedIn' = (cookie \in granted)
  /\ UNCHANGED <<accessVars, backendVars, started, sent>>

PageLogin ==
  /\ ~ signedIn /\ ~ busy
  /\ LocalLogin /\ signedIn' = TRUE
  /\ UNCHANGED <<journal, busy, querying, requests, backendVars, started, sent>>

\* logout: whatever the gateway says, the principal goes, and so does the busy
\* flag of a write in progress.
PageLogout ==
  /\ signedIn
  /\ Logout
  /\ signedIn' = FALSE /\ busy' = FALSE
  /\ UNCHANGED <<journal, querying, requests, backendVars, started, sent>>

\* A private read is answered by 401.
SessionLost ==
  /\ signedIn /\ cookie \notin granted
  /\ signedIn' = FALSE
  /\ UNCHANGED <<accessVars, journal, busy, querying, requests, backendVars, started, sent>>
-----------------------------------------------------------------------------
(* The gateway and the backend.                                               *)

Forward(r, place) == requests' = (requests \ {r}) \cup {[r EXCEPT !.at = place]}

\* The request ends with an answer; a page that still waits handles it.
Answer(r, http) == requests' = requests \ {r} /\ Handle(r, http)

\* The browser's ten seconds are over, or the connection breaks.
GiveUp(r) ==
  /\ r.awaited
  /\ requests' = (requests \ {r}) \cup {[r EXCEPT !.awaited = FALSE]}
  /\ Handle(r, NoAnswer)
  /\ UNCHANGED <<accessVars, backendVars, started, sent>>

\* A request nobody waits for is cancelled before it has an effect.
Vanish(r) ==
  /\ ~ r.awaited
  /\ requests' = requests \ {r}
  /\ UNCHANGED <<accessVars, pageVars, backendVars, started, sent>>

\* recoveryWriteGuard: the durable status does not allow writes, or cannot be read.
recoveryWriteGuard(r) ==
  /\ r.at = "gateway"
  /\ Answer(r, RecoveryBlocked)
  /\ UNCHANGED <<accessVars, backendVars, started, sent>>

diskWriteGuard(r) ==
  /\ r.at = "gateway"
  /\ Answer(r, DiskPaused)
  /\ UNCHANGED <<accessVars, backendVars, started, sent>>

\* The handlers submitOrder, cancelOrder and fundVirtual: requireSession, the
\* body, and the call of the backend.
Handler(r) ==
  /\ r.at = "gateway"
  /\ \E answer \in SessionAnswers(r.token) :
       IF answer = "ok"
       THEN /\ Counted("account")
            /\ \/ Forward(r, "backend") /\ UNCHANGED pageVars
               \/ Answer(r, InvalidBody(r.op.kind))
       ELSE UNCHANGED windows /\ Answer(r, sessionError(answer))
  /\ UNCHANGED <<cookie, granted, logins, tokenVars, backendVars, started, sent>>

\* submitMayBeIdempotentReplay
MayBeIdempotentReplay(op) == op \in recorded

\* SubmitOrder, CancelOrder, AdminFundVirtual: what they refuse themselves. Paused
\* liquidity stops an order, unless it is the replay of a recorded one.
SubmitRefused(r) ==
  /\ r.op.kind = "submit"
  /\ \/ ~ MayBeIdempotentReplay(r.op) /\ Answer(r, writeGRPC("LiquidityPaused"))
     \/ Answer(r, writeGRPC("InvalidArgument"))
CancelRefused(r) ==
  /\ r.op.kind = "cancel"
  /\ Answer(r, writeGRPC(mapError("closed")))
FundRefused(r) ==
  /\ r.op.kind = "fund"
  /\ Answer(r, writeGRPC("InvalidArgument"))

\* MarketRunner.execute: the command is not queued.
NotQueued(r) ==
  \E err \in {"queue full", "recovery", "closed"} : Answer(r, writeGRPC(mapError(err)))

Serve(r) ==
  /\ r.at = "backend"
  /\ SubmitRefused(r) \/ CancelRefused(r) \/ FundRefused(r) \/ NotQueued(r)
  /\ UNCHANGED <<accessVars, backendVars, started, sent>>

\* The caller's context ends first: the command is still in the queue.
CallerLeaves(r) ==
  /\ r.at = "backend" /\ r.awaited
  /\ requests' = (requests \ {r}) \cup {[r EXCEPT !.awaited = FALSE]}
  /\ Handle(r, writeGRPC(mapError("deadline")))
  /\ UNCHANGED <<accessVars, backendVars, started, sent>>

\* The runner's command. A recorded one is answered from the log; a new one is
\* recorded, recorded although its answer fails, or leaves no trace.
Execute(r) ==
  /\ r.at = "backend"
  /\ \/ /\ r.op \in recorded
        /\ Answer(r, Ok) /\ UNCHANGED backendVars
     \/ /\ r.op \notin recorded /\ r.op \notin closedFor
        /\ recorded' = recorded \cup {r.op}
        /\ closedFor' = closedFor \cup {o \in {r.op} : o.kind = "cancel"}
        /\ \E http \in {Ok} \cup {writeGRPC(mapError(e)) : e \in {"persistence", "internal"}} :
             Answer(r, http)
     \/ /\ r.op \notin recorded
        /\ \E err \in {"invalid", "conflict", "insufficient", "not open", "recovery",
                       "persistence", "internal"} : Answer(r, writeGRPC(mapError(err)))
        /\ UNCHANGED backendVars
  /\ UNCHANGED <<accessVars, started, sent>>

\* The order a cancel is for is filled.
OrderFills ==
  /\ \E op \in started : op.kind = "cancel" /\ op \notin closedFor /\ closedFor' = closedFor \cup {op}
  /\ UNCHANGED <<accessVars, pageVars, requests, recorded, started, sent>>

WriteNext ==
  \/ \E kind \in {"submit", "cancel", "fund"} : StartWrite(kind)
  \/ ReconcileWrite \/ LoadPrivate \/ Reload \/ PageLogin \/ PageLogout \/ SessionLost
  \/ \E op \in querying : QueryAnswered(op)
  \/ \E r \in requests : \/ GiveUp(r) \/ Vanish(r) \/ recoveryWriteGuard(r)
                         \/ diskWriteGuard(r) \/ Handler(r)
                         \/ Serve(r) \/ CallerLeaves(r) \/ Execute(r)
  \/ OrderFills
  \/ (SessionExpires \/ WindowPasses \/ GatewayRestarts)
       /\ UNCHANGED <<pageVars, requests, backendVars, started, sent>>

\* Someone logs in, opens a stream or logs out, and no write takes a step.
AccessAlone == AccessNext /\ UNCHANGED <<pageVars, requests, backendVars, started, sent>>

WriteSpec == WriteInit /\ [][WriteNext \/ AccessAlone]_writeVars
-----------------------------------------------------------------------------
WriteTypeOK ==
  /\ journal # Absent => /\ journal.op \in started
                         /\ journal.state \in JournalStates
  /\ recorded \subseteq started
  /\ querying \subseteq started
  /\ Cardinality({r \in requests : r.awaited}) <= MaxOps

\* Nothing that happens from now on can change what became of the operation.
Decided(op) ==
  \/ op \in recorded
  \/ op \in closedFor
  \/ \A r \in requests : r.op # op

(* An operation leaves the page's journal, which blocks every other write,    *)
(* only when its outcome is decided: it is in the log, its order is closed,   *)
(* or no request of it can still be executed. So a user who is told that a    *)
(* write failed never finds it executed later, through lost and late answers, *)
(* reloads, logouts, restarts of the gateway and replays.                     *)
JournalDecided ==
  \A op \in started : (journal = Absent \/ journal.op # op) => Decided(op)

\* A write leaves the browser's journal only when its outcome is decided
\* (JournalDecided), and a one-time token is accepted once (TokensOnce).
WritesDecided == WriteTypeOK /\ JournalDecided /\ AccessTypeOK /\ TokensOnce
=============================================================================
