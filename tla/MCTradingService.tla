------------------------- MODULE MCTradingService -------------------------
(***************************************************************************)
(* Small instances of the parts of one trading process for TLC: the demo   *)
(* maker, the life cycle of the process, and the market runner, once with  *)
(* two payloads for a key and a process that crashes and restarts, once    *)
(* with a recovery gate that moves. They do not interact in the model: a   *)
(* behaviour is one of the part in focus.                                  *)
(***************************************************************************)
EXTENDS MarketMaker, TradingService, MarketRunner, TLC

CONSTANT p1  \* the payload used while the recovery gate moves

ASSUME InstanceAssumption == p1 \in Payloads

VARIABLE focus

OneSpread == <<10>>

MCInit ==
  /\ focus \in {"maker", "service", "payloads", "gate"}
  /\ MakerInit /\ ServiceInit /\ Init
  /\ focus # "service" => quotes = {}

RunnerNext ==
  \/ \E c \in Calls, k \in Keys, p \in IF focus = "gate" THEN {p1} ELSE Payloads :
       Admit(c, k, p)
  \/ \E c \in Calls : Enqueue(c) \/ TimeOut(c)
  \/ Loop \/ PendingLands \/ PendingAborts
  \/ Close \/ Start
  \/ focus = "payloads" /\ Crash
  \/ focus = "gate" /\ (MoveGate \/ BlockGate)

MCNext ==
  \/ focus = "maker" /\ MakerNext /\ UNCHANGED <<serviceAll, vars, focus>>
  \/ focus = "service" /\ ServiceNext /\ UNCHANGED <<makerVars, vars, focus>>
  \/ focus \in {"payloads", "gate"} /\ RunnerNext /\ UNCHANGED <<makerVars, serviceAll, focus>>

MCSpec == /\ MCInit /\ [][MCNext]_<<makerVars, serviceAll, vars, focus>>
          /\ (focus = "service" => ServiceFairness) /\ Fairness

\* The demo maker's orders belong to the state it shows. While it is active they
\* quote the reference it last accepted; and in warm-up, in which nothing may
\* change, a predecessor's orders are gone, however that process ended.
QuotesBelong ==
  CASE focus = "maker" -> MakerTypeOK /\ ActiveQuotesCurrent
    [] focus = "service" -> ServiceTypeOK /\ WarmupHasNoQuotes
    [] OTHER -> TypeOK

\* A shutdown that has begun ends. Stop of the process ends whatever the maker,
\* the monitor, the runner and open streams are doing, and Close of the runner
\* ends whatever its loop was doing when the stop channel closed.
ShutdownCompletes ==
  (stop.pc # "idle" \/ runner.stopped) ~>
    (IF focus = "service" THEN proc = "down" ELSE runner.state \in {"closed", "down"})

\* Nothing is left waiting. After an incident has taken the process offline its
\* demo quotes are withdrawn, unless the runner cannot tell what it committed
\* or the process stops; and every call in the runner's queue is answered, by
\* an append, a recovery or the close, or its caller leaves.
NothingWaits ==
  ((proc = "up" /\ phase = "offline") \/ \E c \in Calls : calls[c].stage = "queued") ~>
    (IF focus = "service" THEN quotes = {} \/ uncertain \/ stop.pc # "idle" \/ proc = "down"
                          ELSE \A c \in Calls : calls[c].stage # "queued")
=============================================================================
