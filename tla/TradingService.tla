--------------------------- MODULE TradingService ---------------------------
(***************************************************************************)
(* The life of a trading process (trading/service): start-up withdraws the *)
(* quotes a predecessor left, local recovery takes the epoch to warm-up,   *)
(* an operator promotes it, a monitor starts the demo maker while the      *)
(* epoch is writable and otherwise stops it and withdraws its quotes, and  *)
(* Stop takes everything down in order under a deadline.                   *)
(*                                                                         *)
(* The market runner takes one call at a time off its queue, checks the    *)
(* call's admission against the recovery row (the fence) and appends its   *)
(* events in a later transaction.  A caller whose context ends stops       *)
(* waiting, and its call stays in the queue.                               *)
(*                                                                         *)
(* Makers are goroutines: every start adds one to `makers', and an old one *)
(* may still be unwinding when the next one starts.  What a maker quotes   *)
(* and when is MarketMaker's subject: here its whole quote set is one      *)
(* order, which it places and withdraws at will until it is cancelled.     *)
(*                                                                         *)
(* Abstracted: the recovery row is its phase and version (its protocol is  *)
(* RecoveryCoordinator's subject); the phases before warm-up are "replay"  *)
(* (trading replay) and "proving" (reconciling, read-only); the health of  *)
(* the runner and the publisher is ready, down, or ready again after an    *)
(* incident the row does not know of.                                      *)
(***************************************************************************)
EXTENDS Integers, Sequences, FiniteSets, Functions

CONSTANTS
  MaxMakers,      \* bound: makers started
  MaxFaults,      \* bound: failed calls and incidents
  OpenStreams     \* whether some RPC stream stays open until it is cut

VARIABLES
  makers,     \* the makers started so far
  quotes,     \* the maker account's open orders, each named by its maker;
              \* 0 stands for what a predecessor left, however it ended
  requests,      \* the calls the runner holds and the answers not yet read
  faults,     \* faults so far
  proc,       \* the process: new, boot, up, down
  phase, version,
  uncertain,  \* the coordinator's breaker in this process
  incident,   \* Backend.recoveryIncident is set
  health,     \* runner and publisher: ready, down, or recovered
  handle,     \* the maker whose cancel and done the backend holds, 0 if none
  withdraw,   \* per safety-cancel loop: orders left, an error met
  monitor,    \* the monitor: what it does next, the maker it waits for
  stop,       \* Stop: what it does next, the maker it waits for
  expired,    \* the deadline of Stop's context has passed
  publisher,  \* publisherContext is live
  taking,     \* the runner takes calls
  late        \* history: submits in hand when the epoch stopped being
              \* writable, and orders placed after that

rowVars == <<phase, version, uncertain>>
healthVars == <<incident, health>>
monitorVars == <<handle, withdraw, monitor>>
stopVars == <<stop, expired, publisher, taking>>
serviceVars == <<proc, late, rowVars, healthVars, monitorVars, stopVars>>

tradeVars == <<makers, quotes, requests, faults>>

serviceAll == <<tradeVars, serviceVars>>

ASSUME ServiceAssumption ==
  /\ MaxMakers \in Nat /\ MaxFaults \in Nat
  /\ OpenStreams \in BOOLEAN

NoStep == [pc |-> "idle", maker |-> 0]
NewMaker == [pc |-> "quoting", live |-> TRUE, left |-> <<>>, bad |-> FALSE]
NoOrders == [left |-> <<>>, bad |-> FALSE]
Loops == {"boot", "monitor", "stop"}

ServiceInit ==
  /\ makers = <<>> /\ quotes \in SUBSET {0} /\ requests = {} /\ faults = 0
  /\ proc = "new" /\ phase = "none" /\ version = 0
  /\ uncertain = FALSE /\ incident = FALSE /\ health = "ready" /\ handle = 0
  /\ withdraw = [l \in Loops |-> NoOrders] /\ monitor = NoStep /\ stop = NoStep
  /\ expired = FALSE /\ publisher = FALSE /\ taking = FALSE /\ late = [inHand |-> 0, placed |-> 0]

-----------------------------------------------------------------------------
(* Calls, admission and the fence *)

\* A caller that stopped waiting leaves its call to nobody.
Nobody == <<"nobody", 0>>
MakerClient(i) == <<"maker", i>>
Client(l) == <<l, 0>>

CallsOf(client) == {c \in requests : c.client = client}
Awaits(client) == CallsOf(client) # {}
Answered(client) == {c \in CallsOf(client) : c.stage \notin {"queued", "fenced"}}

\* The client stops waiting: its context ended.
Abandon(client) ==
  {IF c.client = client THEN [c EXCEPT !.client = Nobody] ELSE c : c \in requests}

\* Mutant: a failed epoch admits no safety cancel.
SafetyBeforeFailure == {"replay", "writable"}

SafetyPhases == {"replay", "writable", "offline", "manual_review"}

\* Coordinator.authorize
authorize(op) ==
  ~uncertain /\ IF op = "safety" THEN phase \in SafetyPhases
                                 ELSE phase = "writable"

\* One call: its admission names the recovery version it was admitted at.
Request(client, op, order) ==
  requests' = requests \cup {[client |-> client, op |-> op, order |-> order,
                        version |-> version,
                        stage |-> IF taking /\ authorize(op) THEN "queued"
                                                            ELSE "failed"]}

\* Mutant: the fence trusts the admission taken when the call was queued.
FenceTrusts(c) == TRUE

\* ValidateAdmission, as the runner takes the call off its queue.
ValidateAdmission(c) == c.version = version /\ authorize(c.op)

Replace(c, stage) == requests' = (requests \ {c}) \cup
  (IF c.client = Nobody /\ stage \notin {"queued", "fenced"} THEN {}
   ELSE {[c EXCEPT !.stage = stage]})

InHand == {c \in requests : c.stage = "fenced"}

\* The runner handles one call at a time.
RunnerTakes(c) ==
  /\ c \in requests /\ c.stage = "queued" /\ taking
  /\ InHand = {}
  /\ Replace(c, IF ValidateAdmission(c) THEN "fenced" ELSE "failed")
  /\ UNCHANGED <<makers, quotes, faults, serviceVars>>

Applied(c, rests) ==
  IF c.op # "submit" THEN quotes \ {c.order}
  ELSE IF rests THEN quotes \cup {c.order} ELSE quotes

\* The events are appended: an order rests unless it is rejected, a cancel
\* removes it if it is still open.
RunnerAppends(c, rests) ==
  /\ c \in InHand
  /\ quotes' = Applied(c, rests)
  /\ late' = IF c.op = "submit" /\ phase # "writable"
               THEN [late EXCEPT !.placed = @ + 1] ELSE late
  /\ Replace(c, "done")
  /\ UNCHANGED <<makers, faults, proc, rowVars, healthVars, stopVars,
                 monitorVars>>

\* The append fails, for an abandoned call because its context is over;
\* nothing, or everything, was stored.  The runner reports an incident.
RunnerFails(c, stored) ==
  /\ c \in InHand
  /\ IF c.client = Nobody THEN faults' = faults
                          ELSE faults < MaxFaults /\ faults' = faults + 1
  /\ quotes' = IF stored THEN Applied(c, TRUE) ELSE quotes
  /\ health' = IF health = "ready" THEN "recovered" ELSE health
  /\ Replace(c, "failed")
  /\ UNCHANGED <<makers, proc, incident, late, rowVars, monitorVars, stopVars>>

\* Another account takes a resting quote.
UserTakes(q) ==
  /\ q \in quotes /\ phase = "writable" /\ taking
  /\ quotes' = quotes \ {q}
  /\ UNCHANGED <<makers, requests, faults, serviceVars>>

-----------------------------------------------------------------------------
(* cancelRecoveredDemoMakerOrders, run by start-up, the monitor and Stop *)

\* The account's open orders as a list: the state lists them in one fixed order.
OpenOrders == CHOOSE s \in Injection(1 .. Cardinality(quotes), quotes) : TRUE

BeginWithdraw(l) ==
  withdraw' = [withdraw EXCEPT ![l] = [left |-> OpenOrders, bad |-> FALSE]]

Withdrawing(l) == CASE l = "boot" -> proc = "boot"
                    [] l = "monitor" -> monitor.pc = "withdraw"
                    [] l = "stop" -> stop.pc = "withdraw"

WithdrawNext(l) ==
  /\ Withdrawing(l) /\ withdraw[l].left # <<>> /\ ~Awaits(Client(l))
  /\ Request(Client(l), "safety", Head(withdraw[l].left))
  /\ UNCHANGED <<makers, quotes, faults, serviceVars>>

WithdrawReply(l) ==
  /\ Withdrawing(l)
  /\ \E c \in Answered(Client(l)) :
       /\ withdraw' = [withdraw EXCEPT
                         ![l] = [left |-> Tail(@.left),
                                 bad |-> @.bad \/ c.stage = "failed"]]
       /\ requests' = requests \ {c}
  /\ UNCHANGED <<makers, quotes, faults, proc, handle, monitor, late, rowVars,
                 healthVars, stopVars>>

\* The context of the loop ends while a call is in the queue.
WithdrawAbandons(l) ==
  /\ Withdrawing(l) /\ Awaits(Client(l))
  /\ \/ l = "monitor" /\ ~publisher
     \/ l = "stop" /\ expired
  /\ withdraw' = [withdraw EXCEPT ![l] = [left |-> Tail(@.left), bad |-> TRUE]]
  /\ requests' = Abandon(Client(l))
  /\ UNCHANGED <<makers, quotes, faults, proc, handle, monitor, late, rowVars,
                 healthVars, stopVars>>

Withdrawn(l) == Withdrawing(l) /\ withdraw[l].left = <<>> /\ ~Awaits(Client(l))

-----------------------------------------------------------------------------
(* A maker.  Until it is cancelled it places and withdraws its quote; then  *)
(* it withdraws what it finds open, on a context of its own; an error in    *)
(* between ends it.                                                         *)

Alive(i) == makers[i].live /\ publisher

MakerCalls(i, op) ==
  /\ proc = "up" /\ makers[i].pc = "quoting" /\ ~Awaits(MakerClient(i))
  /\ IF op = "submit" THEN i \notin quotes ELSE i \in quotes
  /\ Request(MakerClient(i), op, i)
  /\ UNCHANGED <<makers, quotes, faults, serviceVars>>

Becomes(i, m) == makers' = [makers EXCEPT ![i] = m]

Unwinding(i) == [makers[i] EXCEPT !.pc = "unwinding", !.left = OpenOrders]
Failing(i) == [makers[i] EXCEPT !.pc = "failing", !.left = <<>>, !.bad = FALSE]

MakerReply(i) ==
  /\ proc = "up"
  /\ \E c \in Answered(MakerClient(i)) :
       /\ Becomes(i, IF makers[i].pc = "unwinding"
                       THEN [makers[i] EXCEPT !.left = Tail(@),
                                              !.bad = @ \/ c.stage = "failed"]
                     ELSE IF c.stage = "failed" THEN Failing(i) ELSE makers[i])
       /\ requests' = requests \ {c}
  /\ UNCHANGED <<quotes, faults, serviceVars>>

\* The context is cancelled in the middle of a call.
MakerAbandons(i) ==
  /\ proc = "up" /\ makers[i].pc = "quoting" /\ ~Alive(i)
  /\ Awaits(MakerClient(i))
  /\ requests' = Abandon(MakerClient(i)) /\ Becomes(i, Failing(i))
  /\ UNCHANGED <<quotes, faults, serviceVars>>

MakerUnwinds(i) ==
  /\ proc = "up" /\ makers[i].pc = "quoting" /\ ~Alive(i)
  /\ ~Awaits(MakerClient(i))
  /\ Becomes(i, Unwinding(i))
  /\ UNCHANGED <<quotes, requests, faults, serviceVars>>

MakerCancels(i) ==
  /\ proc = "up" /\ makers[i].pc = "unwinding" /\ makers[i].left # <<>>
  /\ ~Awaits(MakerClient(i))
  /\ Request(MakerClient(i), "cancel", Head(makers[i].left))
  /\ UNCHANGED <<makers, quotes, faults, serviceVars>>

MakerEnds(i) ==
  /\ proc = "up" /\ makers[i].pc = "unwinding" /\ makers[i].left = <<>>
  /\ Becomes(i, IF makers[i].bad THEN Failing(i)
                ELSE [makers[i] EXCEPT !.pc = "done"])
  /\ UNCHANGED <<quotes, requests, faults, serviceVars>>

-----------------------------------------------------------------------------
(* New, completeLocalRecovery and the operator *)

Begin ==
  /\ proc = "new" /\ proc' = "boot"
  /\ phase' = "replay" /\ version' = version + 1
  /\ publisher' = TRUE /\ taking' = TRUE
  /\ BeginWithdraw("boot")
  /\ UNCHANGED <<tradeVars, uncertain, handle, monitor, stop, expired, late,
                 healthVars>>

\* Mutant: start-up leaves a predecessor's quotes to the new maker.
BootedUnwithdrawn ==
  /\ proc = "boot" /\ ~Awaits(Client("boot"))
  /\ proc' = "up" /\ phase' = "proving" /\ version' = version + 1
  /\ UNCHANGED <<tradeVars, uncertain, late, healthVars, stopVars,
                 monitorVars>>

\* A failed withdrawal sends the epoch to manual review and ends the process.
Booted ==
  /\ Withdrawn("boot")
  /\ IF withdraw["boot"].bad
       THEN /\ proc' = "down" /\ phase' = "manual_review" /\ taking' = FALSE
       ELSE /\ proc' = "up" /\ phase' = "proving" /\ taking' = taking
  /\ version' = version + 1
  /\ UNCHANGED <<tradeVars, uncertain, stop, expired, publisher, late,
                 healthVars, monitorVars>>

completeLocalRecovery ==
  /\ proc = "up" /\ phase = "proving" /\ publisher /\ ~uncertain
  /\ phase' = "warmup" /\ version' = version + 1
  /\ UNCHANGED <<tradeVars, proc, uncertain, late, healthVars, stopVars,
                 monitorVars>>

Promote ==
  /\ proc = "up" /\ phase = "warmup" /\ ~uncertain
  /\ phase' = "writable" /\ version' = version + 1
  /\ health' = IF health = "recovered" THEN "ready" ELSE health
  /\ UNCHANGED <<tradeVars, proc, uncertain, incident, late, stopVars,
                 monitorVars>>

\* The runner or the publisher meets an error, and may get over it.
Regress ==
  /\ proc = "up" /\ faults < MaxFaults /\ faults' = faults + 1
  /\ health' \in {"down", "recovered"}
  /\ UNCHANGED <<makers, quotes, requests, proc, incident, late, rowVars,
                 stopVars, monitorVars>>

-----------------------------------------------------------------------------
(* The monitor *)

Watching == proc = "up" /\ monitor.pc # "ended"

\* Reads the row and decides.  Without a row, the maker is stopped.
MonitorReads(readable) ==
  /\ Watching /\ monitor.pc = "idle"
  /\ ~readable => faults < MaxFaults
  /\ faults' = IF readable THEN faults ELSE faults + 1
  /\ uncertain' = (uncertain \/ ~readable)
  /\ LET known == incident \/ uncertain'
         broken == phase = "writable" /\ health # "ready"
     IN /\ incident' = (~(readable /\ phase = "warmup" /\ ~uncertain)
                          /\ (known \/ broken))
        /\ monitor' = [NoStep EXCEPT !.pc =
             IF ~readable \/ phase # "writable" THEN "stop"
             ELSE IF known \/ health = "recovered" THEN "fail"
             ELSE IF broken THEN "fail_anyway" ELSE "start"]
  /\ UNCHANGED <<makers, quotes, requests, proc, phase, version, health, handle,
                 withdraw, late, stopVars>>

\* Coordinator.Fail(offline): the row is saved, or the breaker trips.
FailOffline(saved) ==
  /\ ~saved => faults < MaxFaults
  /\ IF saved
       THEN /\ phase' = "offline" /\ version' = version + 1
            /\ late' = IF phase # "writable" THEN late
                       ELSE [late EXCEPT !.inHand =
                               Cardinality({c \in InHand : c.op = "submit"})]
            /\ UNCHANGED <<faults, uncertain>>
       ELSE /\ faults' = faults + 1 /\ uncertain' = TRUE
            /\ UNCHANGED <<phase, version, late>>

\* Fail(offline).  An incident found before leaves the maker running when
\* the row cannot be saved; a regression found now stops it all the same.
MonitorFails(saved) ==
  /\ Watching /\ monitor.pc \in {"fail", "fail_anyway"}
  /\ FailOffline(saved)
  /\ monitor' = [NoStep EXCEPT !.pc =
                   IF saved \/ monitor.pc = "fail_anyway" THEN "stop" ELSE "idle"]
  /\ UNCHANGED <<makers, quotes, requests, proc, handle, withdraw, healthVars,
                 stopVars>>

\* startMaker
Running(i) == i # 0 /\ makers[i].pc # "done"

MonitorStarts ==
  /\ Watching /\ monitor.pc = "start"
  /\ monitor' = NoStep
  /\ IF Running(handle) \/ Len(makers) = MaxMakers
       THEN UNCHANGED <<makers, handle>>
       ELSE /\ makers' = Append(makers, NewMaker)
            /\ handle' = Len(makers) + 1
  /\ UNCHANGED <<quotes, requests, faults, proc, withdraw, late, rowVars,
                 healthVars, stopVars>>

\* stopMaker: takes the maker's cancel and done, cancels, waits, withdraws.
TakeHandle ==
  /\ handle' = 0
  /\ makers' = IF handle = 0 THEN makers
               ELSE [makers EXCEPT ![handle].live = FALSE]

MonitorStops ==
  /\ Watching /\ monitor.pc = "stop"
  /\ TakeHandle
  /\ monitor' = [pc |-> "wait", maker |-> handle]
  /\ UNCHANGED <<quotes, requests, faults, proc, withdraw, late, rowVars,
                 healthVars, stopVars>>

MonitorWaited ==
  /\ Watching /\ monitor.pc = "wait"
  /\ Running(monitor.maker) => ~publisher
  /\ monitor' = [NoStep EXCEPT !.pc = "withdraw"] /\ BeginWithdraw("monitor")
  /\ UNCHANGED <<tradeVars, proc, handle, late, rowVars, healthVars, stopVars>>

MonitorWithdrawn ==
  /\ proc = "up" /\ Withdrawn("monitor")
  /\ monitor' = NoStep
  /\ UNCHANGED <<tradeVars, proc, handle, withdraw, late, rowVars, healthVars,
                 stopVars>>

MonitorEnds ==
  /\ Watching /\ monitor.pc = "idle" /\ ~publisher
  /\ monitor' = [NoStep EXCEPT !.pc = "ended"]
  /\ UNCHANGED <<tradeVars, proc, handle, withdraw, late, rowVars, healthVars,
                 stopVars>>

\* The goroutine of a maker that ended with an error fails the epoch, unless
\* the error is its own cancellation.
MakerFailed(i, cancelled, saved) ==
  /\ proc = "up" /\ i \in DOMAIN makers /\ makers[i].pc = "failing"
  /\ cancelled => ~makers[i].live \/ ~publisher
  /\ makers' = [makers EXCEPT ![i].pc = "done"]
  /\ IF cancelled THEN UNCHANGED <<faults, rowVars, late>>
                  ELSE FailOffline(saved)
  /\ UNCHANGED <<quotes, requests, proc, healthVars, stopVars, monitorVars>>

-----------------------------------------------------------------------------
(* Stop *)

StopCalled ==
  /\ proc = "up" /\ stop.pc = "idle"
  /\ TakeHandle /\ stop' = [pc |-> "wait", maker |-> handle]
  /\ UNCHANGED <<quotes, requests, faults, proc, withdraw, monitor, expired,
                 publisher, taking, late, rowVars, healthVars>>

StopExpires ==
  /\ proc = "up" /\ stop.pc # "idle" /\ ~expired /\ expired' = TRUE
  /\ UNCHANGED <<tradeVars, proc, stop, publisher, taking, late, rowVars,
                 healthVars, monitorVars>>

StopGoes(pc) == stop' = [NoStep EXCEPT !.pc = pc]

StopWaited ==
  /\ proc = "up" /\ stop.pc = "wait"
  /\ Running(stop.maker) => expired
  /\ StopGoes("withdraw") /\ BeginWithdraw("stop")
  /\ UNCHANGED <<tradeVars, proc, handle, monitor, expired, publisher, taking,
                 late, rowVars, healthVars>>

StopWithdrawn ==
  /\ proc = "up" /\ Withdrawn("stop") /\ StopGoes("grpc")
  /\ UNCHANGED <<tradeVars, proc, expired, publisher, taking, late, rowVars,
                 healthVars, monitorVars>>

\* Mutant: the graceful stop has no deadline.
StopGrpcForever ==
  /\ proc = "up" /\ stop.pc = "grpc" /\ ~OpenStreams
  /\ StopGoes("runner")
  /\ UNCHANGED <<tradeVars, proc, expired, publisher, taking, late, rowVars,
                 healthVars, monitorVars>>

\* GracefulStop waits for open streams until the deadline cuts them.
StopGrpc ==
  /\ proc = "up" /\ stop.pc = "grpc" /\ (OpenStreams => expired)
  /\ StopGoes("runner")
  /\ UNCHANGED <<tradeVars, proc, expired, publisher, taking, late, rowVars,
                 healthVars, monitorVars>>

\* Close refuses new calls and answers the queued ones; it waits for the
\* call in hand until the deadline.
StopRunner ==
  /\ proc = "up" /\ stop.pc = "runner" /\ (InHand # {} => expired)
  /\ taking' = FALSE /\ StopGoes("publisher")
  /\ requests' = InHand \cup {[c EXCEPT !.stage = IF @ = "queued" THEN "failed"
                                                              ELSE @] :
                             c \in {d \in requests \ InHand : ~(d.client = Nobody)}}
  /\ UNCHANGED <<makers, quotes, faults, proc, expired, publisher, late,
                 rowVars, healthVars, monitorVars>>

StopPublisher ==
  /\ proc = "up" /\ stop.pc = "publisher"
  /\ publisher' = FALSE /\ StopGoes("pools")
  /\ UNCHANGED <<tradeVars, proc, expired, taking, late, rowVars, healthVars,
                 monitorVars>>

\* Closing the pools waits for the connection of a call in hand.
Stopped ==
  /\ proc = "up" /\ stop.pc = "pools" /\ InHand = {}
  /\ proc' = "down"
  /\ UNCHANGED <<tradeVars, late, rowVars, healthVars, stopVars, monitorVars>>

-----------------------------------------------------------------------------
Quoting(i) == \E op \in {"submit", "cancel"} : MakerCalls(i, op)

Makers(i) == \/ MakerReply(i) \/ MakerAbandons(i) \/ MakerUnwinds(i)
             \/ MakerCancels(i) \/ MakerEnds(i)

Runner == \E c \in requests :
            \/ RunnerTakes(c)
            \/ \E rests \in BOOLEAN : RunnerAppends(c, rests)
            \/ \E stored \in BOOLEAN : RunnerFails(c, stored)

Withdrawal(l) == WithdrawNext(l) \/ WithdrawReply(l) \/ WithdrawAbandons(l)

Monitor == \/ \E b \in BOOLEAN : MonitorReads(b) \/ MonitorFails(b)
           \/ MonitorStarts \/ MonitorStops \/ MonitorWaited
           \/ MonitorWithdrawn \/ MonitorEnds

Stopping == \/ StopWaited \/ StopWithdrawn \/ StopGrpc \/ StopRunner
            \/ StopPublisher \/ Stopped

MakerFailures(i) ==
  \E b, saved \in BOOLEAN : MakerFailed(i, b, saved)

ServiceNext ==
  \/ \E i \in DOMAIN makers : Quoting(i) \/ Makers(i) \/ MakerFailures(i)
  \/ Runner \/ \E q \in quotes : UserTakes(q)
  \/ \E l \in Loops : Withdrawal(l)
  \/ Begin \/ Booted \/ completeLocalRecovery \/ Promote \/ Regress
  \/ Monitor \/ StopCalled \/ StopExpires \/ Stopping

\* Goroutines that can run do run, the runner goes on taking calls, and a
\* deadline passes.
ServiceFairness ==
  /\ \A i \in 1..MaxMakers :
       WF_serviceAll(i \in DOMAIN makers /\ (Makers(i) \/ MakerFailures(i)))
  /\ WF_serviceAll(Runner) /\ \A l \in Loops : WF_serviceAll(Withdrawal(l))
  /\ WF_serviceAll(Begin) /\ WF_serviceAll(Booted) /\ WF_serviceAll(completeLocalRecovery)
  /\ WF_serviceAll(Monitor) /\ WF_serviceAll(StopExpires) /\ WF_serviceAll(Stopping)

-----------------------------------------------------------------------------
(* Properties *)

\* The type invariant of the process life cycle.
ServiceTypeOK ==
  /\ proc \in {"new", "boot", "up", "down"}
  /\ phase \in {"none", "replay", "proving", "warmup", "writable", "offline",
              "manual_review"}
  /\ handle \in 0..Len(makers) /\ Len(makers) <= MaxMakers
  /\ quotes \subseteq {0} \cup DOMAIN makers
  /\ \A c \in requests : c.stage \in {"queued", "fenced", "failed", "done"}
  /\ monitor.pc \in {"idle", "fail", "fail_anyway", "start", "stop", "wait",
                     "withdraw", "ended"}
  /\ stop.pc \in {"idle", "wait", "withdraw", "grpc", "runner", "publisher",
                  "pools"}

\* Warm-up is an observation window in which nothing changes: a predecessor's
\* quotes are gone before it, however that process ended.
WarmupHasNoQuotes == proc = "up" /\ phase \in {"proving", "warmup"} => quotes = {}

\* The fence is checked before the append, in a transaction of its own: the
\* one order the runner has in hand may be placed after the epoch stopped
\* being writable, and none that waits in the queue.
FenceWindow == late.placed <= late.inHand
=============================================================================
