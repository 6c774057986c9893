---------------------------- MODULE MarketRunner ----------------------------
(***************************************************************************)
(* The single writer of a market (trading/runtime) on the event store      *)
(* (trading/store/postgres): callers, the command queue, the recovery      *)
(* gate, the append transaction whose outcome may be unknown, recovery     *)
(* from snapshot and log, graceful close, crash and restart.               *)
(*                                                                         *)
(* What a command does to the market is module Exchange's business; here   *)
(* the state of an exchange is the sequence of commands it has applied     *)
(* (replay is deterministic and checked against the recorded hash), and a  *)
(* result is the sequence number of its command.                           *)
(*                                                                         *)
(* A call is one use of Fund, Submit or Cancel; a retry is another call    *)
(* with the same key.  The database keeps an append transaction whose      *)
(* client is gone in `pending' until it ends one way or the other; until   *)
(* then it holds the row lock of the market.                               *)
(***************************************************************************)
EXTENDS Integers, Sequences, FiniteSets

CONSTANTS
  Calls,         \* bound: the calls of one behaviour
  Keys,          \* idempotency keys
  SystemKeys,    \* those of demo-maker cancels: not cached, safety-admitted
  Payloads,      \* request fingerprints
  None,
  QueueSize, SnapshotEvery,
  MaxVersion,    \* bound: moves of the recovery gate
  MaxStarts      \* bound: process starts

VARIABLES
  log,       \* trading_event_batch, in sequence order
  pending,   \* the append transaction still open on the server
  snapshot,  \* trading_snapshot: an exchange state
  gate,      \* what the recovery coordinator authorizes, and its version
  calls, queue,
  runner,    \* state, accepting, stopped (the stop channel), starts
  trading,   \* the in-memory exchange state
  work       \* the command in the hands of the loop

vars == <<log, pending, snapshot, gate, calls, queue, runner, trading, work>>

Record == [key: Keys, payload: Payloads]
KeysOf(records) == {records[i].key : i \in 1..Len(records)}
Cached == [payload: Payloads, sequence: Nat]

ASSUME RunnerAssumption ==
  /\ SystemKeys \subseteq Keys
  /\ None \notin Record /\ None \notin Cached /\ None \notin Calls
  /\ QueueSize \in Nat \ {0}
  /\ SnapshotEvery \in Nat \ {0}
  /\ MaxVersion \in Nat /\ MaxStarts \in Nat

NewExchange == [applied |-> <<>>, requests |-> [k \in Keys |-> None]]
NewCall == [stage |-> "new", key |-> None, payload |-> None,
            version |-> 0, reply |-> "none", sequence |-> 0]
Idle == [stage |-> "idle", call |-> None]

Init ==
  /\ log = <<>> /\ pending = None /\ snapshot = NewExchange
  /\ gate = [authorized |-> Keys, version |-> 0]
  /\ calls = [c \in Calls |-> NewCall] /\ queue = <<>>
  /\ runner = [state |-> "down", accepting |-> FALSE, stopped |-> FALSE,
               starts |-> 0]
  /\ trading = NewExchange
  /\ work = Idle

RecordOf(c) == [key |-> calls[c].key, payload |-> calls[c].payload]

\* The call returns; the answer to a caller that has left is dropped.
Returned(c, reply, sequence) ==
  IF calls[c].stage = "gone" THEN calls
  ELSE [calls EXCEPT ![c].stage = "returned", ![c].reply = reply,
                     ![c].sequence = sequence]

-----------------------------------------------------------------------------
(* execute: the caller's side *)

Admit(c, k, p) ==
  /\ calls[c].stage = "new"
  /\ runner.state # "down"
  /\ calls' = [calls EXCEPT ![c] =
       IF k \in gate.authorized
         THEN [NewCall EXCEPT !.stage = "admitted", !.key = k, !.payload = p,
                              !.version = gate.version]
         ELSE [NewCall EXCEPT !.stage = "returned", !.key = k, !.payload = p,
                              !.reply = "recovery_in_progress"]]
  /\ UNCHANGED <<log, pending, snapshot, gate, queue, runner, trading, work>>

\* Mutant: the send to the queue channel is not bounded.
EnqueueUnbounded(c) ==
  /\ calls[c].stage = "admitted"
  /\ IF ~runner.accepting
       THEN /\ calls' = Returned(c, IF runner.state = "closed" THEN "closed"
                                    ELSE "unavailable", 0)
            /\ UNCHANGED queue
       ELSE /\ calls' = [calls EXCEPT ![c].stage = "queued"]
            /\ queue' = Append(queue, c)
  /\ UNCHANGED <<log, pending, snapshot, gate, runner, trading, work>>

Enqueue(c) ==
  /\ calls[c].stage = "admitted"
  /\ IF ~runner.accepting
       THEN /\ calls' = Returned(c, IF runner.state = "closed" THEN "closed"
                                    ELSE "unavailable", 0)
            /\ UNCHANGED queue
     ELSE IF Len(queue) < QueueSize
       THEN /\ calls' = [calls EXCEPT ![c].stage = "queued"]
            /\ queue' = Append(queue, c)
     ELSE /\ calls' = Returned(c, "queue_full", 0)
          /\ UNCHANGED queue
  /\ UNCHANGED <<log, pending, snapshot, gate, runner, trading, work>>

\* The caller's context ends; a queued command stays in the queue.
TimeOut(c) ==
  /\ calls[c].stage \in {"admitted", "queued"}
  /\ calls' = [calls EXCEPT ![c].stage = "gone"]
  /\ UNCHANGED <<log, pending, snapshot, gate, queue, runner, trading, work>>

-----------------------------------------------------------------------------
(* handle: the loop's side *)

Take ==
  /\ runner.state # "closed" /\ work = Idle /\ queue # <<>>
  /\ work' = [stage |-> "fence", call |-> Head(queue)]
  /\ queue' = Tail(queue)
  /\ UNCHANGED <<log, pending, snapshot, gate, calls, runner, trading>>

Respond(reply, sequence) ==
  /\ calls' = Returned(work.call, reply, sequence)
  /\ work' = Idle

\* Mutant: an unavailable runner drops the command without an answer.
FenceSilent ==
  /\ work.stage = "fence"
  /\ LET call == calls[work.call]
     IN IF call.version # gate.version \/ call.key \notin gate.authorized
          THEN Respond("recovery_in_progress", 0)
        ELSE IF runner.state \notin {"ready", "closing"}
          THEN work' = Idle /\ UNCHANGED calls
        ELSE work' = [work EXCEPT !.stage = "apply"] /\ UNCHANGED calls
  /\ UNCHANGED <<log, pending, snapshot, gate, queue, runner, trading>>

\* The dequeue fence, then the state of the runner.
Fence ==
  /\ work.stage = "fence"
  /\ LET call == calls[work.call]
     IN IF call.version # gate.version \/ call.key \notin gate.authorized
          THEN Respond("recovery_in_progress", 0)
        ELSE IF runner.state \notin {"ready", "closing"}
          THEN Respond("unavailable", 0)
        ELSE work' = [work EXCEPT !.stage = "apply"] /\ UNCHANGED calls
  /\ UNCHANGED <<log, pending, snapshot, gate, queue, runner, trading>>

\* Mutant: a cached request is answered whatever its fingerprint.
ApplyAnyPayload ==
  /\ work.stage = "apply"
  /\ LET call == calls[work.call]
         previous == trading.requests[call.key]
     IN IF call.stage = "gone" THEN Respond("canceled", 0)
        ELSE IF previous # None THEN Respond("ok", previous.sequence)
        ELSE work' = [work EXCEPT !.stage = "append"] /\ UNCHANGED calls
  /\ UNCHANGED <<log, pending, snapshot, gate, queue, runner, trading>>

\* runLocked up to the append: a dead context, a cached request, or a new one
\* that Exchange accepts.
Apply ==
  /\ work.stage = "apply"
  /\ LET call == calls[work.call]
         previous == trading.requests[call.key]
     IN IF call.stage = "gone" THEN Respond("canceled", 0)
        ELSE IF previous # None
          THEN IF previous.payload = call.payload
                 THEN Respond("ok", previous.sequence)
                 ELSE Respond("idempotency_conflict", 0)
        ELSE work' = [work EXCEPT !.stage = "append"] /\ UNCHANGED calls
  /\ UNCHANGED <<log, pending, snapshot, gate, queue, runner, trading>>

\* Exchange returns an error of its own: nothing has changed.
ApplyFails ==
  /\ work.stage = "apply"
  /\ calls[work.call].stage # "gone"
  /\ trading.requests[calls[work.call].key] = None
  /\ Respond("error", 0)
  /\ UNCHANGED <<log, pending, snapshot, gate, queue, runner, trading>>

\* Mutant: the append does not compare the stream's sequence.
AppendAllowedUnfenced == calls[work.call].key \notin KeysOf(log)

\* Inside the append transaction, which waits for the row lock: the stream is
\* where the exchange believes it is and the request key is not recorded.
AppendAllowed ==
  /\ Len(log) = Len(trading.applied)
  /\ calls[work.call].key \notin KeysOf(log)

\* The exchange state after one more command.
Extended(s, record) ==
  LET n == Len(s.applied) + 1
  IN [applied |-> Append(s.applied, record),
      requests |-> [s.requests EXCEPT ![record.key] =
        IF record.key \in SystemKeys THEN @
        ELSE [payload |-> record.payload, sequence |-> n]]]

AppendCommits ==
  /\ work.stage = "append" /\ pending = None /\ AppendAllowed
  /\ log' = Append(log, RecordOf(work.call))
  /\ trading' = Extended(trading, RecordOf(work.call))
  /\ work' = [work EXCEPT !.stage =
       IF Len(log') % SnapshotEvery = 0 THEN "snapshot" ELSE "respond"]
  /\ UNCHANGED <<pending, snapshot, gate, calls, queue, runner>>

\* recoverAfterPersistenceError closes the queue before it restores.
StartRecovery ==
  /\ runner' = [runner EXCEPT !.accepting = FALSE, !.state = "recovering"]
  /\ work' = [work EXCEPT !.stage = "restore"]

\* The transaction fails: a conflict, a lost connection, a dead context.
AppendFails ==
  /\ work.stage = "append"
  /\ StartRecovery
  /\ UNCHANGED <<log, pending, snapshot, gate, calls, queue, trading>>

\* The outcome of COMMIT is unknown to the client.
AppendUnknown ==
  /\ work.stage = "append" /\ pending = None /\ AppendAllowed
  /\ pending' = RecordOf(work.call)
  /\ StartRecovery
  /\ UNCHANGED <<log, snapshot, gate, calls, queue, trading>>

PendingLands ==
  /\ pending # None
  /\ log' = Append(log, pending) /\ pending' = None
  /\ UNCHANGED <<snapshot, gate, calls, queue, runner, trading, work>>

PendingAborts ==
  /\ pending # None
  /\ pending' = None
  /\ UNCHANGED <<log, snapshot, gate, calls, queue, runner, trading, work>>

\* SaveSnapshot: the table keeps the newer of the two.
Saved == IF Len(snapshot.applied) <= Len(trading.applied) THEN trading
         ELSE snapshot

\* The periodic snapshot may fail; the command has succeeded all the same.
PeriodicSnapshot ==
  /\ work.stage = "snapshot"
  /\ snapshot' \in {snapshot, Saved}
  /\ work' = [work EXCEPT !.stage = "respond"]
  /\ UNCHANGED <<log, pending, gate, calls, queue, runner, trading>>

RespondDone ==
  /\ work.stage = "respond"
  /\ Respond("ok", Len(trading.applied))
  /\ UNCHANGED <<log, pending, snapshot, gate, queue, runner, trading>>

-----------------------------------------------------------------------------
(* Restore, close, crash *)

\* The rows of the event log after a sequence, in its order.
RecordsAfter(sequence) == SubSeq(log, sequence + 1, Len(log))

\* Mutant: the records after the snapshot are not replayed.
RestoredFromSnapshot == snapshot

\* Mutant: the snapshot does not carry the idempotency cache.
RestoredWithoutCache ==
  LET n == Len(snapshot.applied)
      Later(k) == {i \in (n + 1)..Len(log) : log[i].key = k}
  IN [applied |-> snapshot.applied \o SubSeq(log, n + 1, Len(log)),
      requests |-> [k \in Keys |->
        IF k \in SystemKeys \/ Later(k) = {} THEN None
        ELSE LET i == CHOOSE i \in Later(k) : TRUE
             IN [payload |-> log[i].payload, sequence |-> i]]]

\* exchange.Restore: the snapshot, then every later record of the log.
Restored ==
  LET n == Len(snapshot.applied)
      Later(k) == {i \in (n + 1)..Len(log) : log[i].key = k}
  IN [applied |-> snapshot.applied \o RecordsAfter(n),
      requests |-> [k \in Keys |->
        IF k \in SystemKeys \/ Later(k) = {} THEN snapshot.requests[k]
        ELSE LET i == CHOOSE i \in Later(k) : TRUE
             IN [payload |-> log[i].payload, sequence |-> i]]]

\* Mutant: recovery reopens the queue of a runner that was closed meanwhile.
RestoreReopens ==
  /\ work.stage = "restore"
  /\ trading' = Restored
  /\ runner' = [runner EXCEPT !.state = "ready", !.accepting = TRUE]
  /\ Respond("persistence_error", 0)
  /\ UNCHANGED <<log, pending, snapshot, gate, queue>>

RestoreSucceeds ==
  /\ work.stage = "restore"
  /\ trading' = Restored
  /\ runner' = IF runner.stopped
                 THEN [runner EXCEPT !.state = "closing"]
                 ELSE [runner EXCEPT !.state = "ready", !.accepting = TRUE]
  /\ Respond("persistence_error", 0)
  /\ UNCHANGED <<log, pending, snapshot, gate, queue>>

RestoreFails ==
  /\ work.stage = "restore"
  /\ runner' = [runner EXCEPT !.state = "failed"]
  /\ Respond("persistence_error", 0)
  /\ UNCHANGED <<log, pending, snapshot, gate, queue, trading>>

\* Close: even a failed runner goes to closing.
Close ==
  /\ runner.state \in {"ready", "recovering", "failed"} /\ ~runner.stopped
  /\ runner' = [runner EXCEPT !.accepting = FALSE, !.state = "closing",
                              !.stopped = TRUE]
  /\ UNCHANGED <<log, pending, snapshot, gate, calls, queue, trading, work>>

\* Mutant: only a runner in state closing is drained to the end.
DrainedIfClosing ==
  /\ runner.state = "closing"
  /\ work = Idle /\ queue = <<>>
  /\ snapshot' \in {snapshot, Saved}
  /\ runner' = [runner EXCEPT !.state = "closed"]
  /\ UNCHANGED <<log, pending, gate, calls, queue, trading, work>>

\* drainAndClose finds the queue empty: a last snapshot, which may fail.
Drained ==
  /\ runner.stopped /\ runner.state # "closed"
  /\ work = Idle /\ queue = <<>>
  /\ snapshot' \in {snapshot, Saved}
  /\ runner' = [runner EXCEPT !.state = "closed"]
  /\ UNCHANGED <<log, pending, gate, calls, queue, trading, work>>

\* The process dies: memory and connections are gone.  An append in progress
\* may already have sent its COMMIT.
Crash ==
  /\ runner.state # "down"
  /\ pending' \in {pending} \cup
       (IF work.stage = "append" /\ pending = None /\ AppendAllowed
          THEN {RecordOf(work.call)} ELSE {})
  /\ calls' = [c \in Calls |->
       IF calls[c].stage \in {"admitted", "queued"}
         THEN [calls[c] EXCEPT !.stage = "gone"] ELSE calls[c]]
  /\ queue' = <<>> /\ work' = Idle /\ trading' = NewExchange
  /\ runner' = [runner EXCEPT !.state = "down", !.accepting = FALSE,
                              !.stopped = FALSE]
  /\ UNCHANGED <<log, snapshot, gate>>

\* NewMarketRunner: Restore, then serve.
Start ==
  /\ runner.state = "down" /\ runner.starts < MaxStarts
  /\ trading' = Restored
  /\ runner' = [state |-> "ready", accepting |-> TRUE, stopped |-> FALSE,
                starts |-> runner.starts + 1]
  /\ UNCHANGED <<log, pending, snapshot, gate, calls, queue, work>>

\* The recovery coordinator changes phase or epoch: all writes, the system's
\* safety cancels only, or none.
MoveGate ==
  /\ gate.version < MaxVersion
  /\ \E authorized \in {Keys, SystemKeys, {}} :
       gate' = [authorized |-> authorized, version |-> gate.version + 1]
  /\ UNCHANGED <<log, pending, snapshot, calls, queue, runner, trading, work>>

\* The coordinator cannot read its row: it blocks within the same version.
BlockGate ==
  /\ gate' = [gate EXCEPT !.authorized = {}]
  /\ UNCHANGED <<log, pending, snapshot, calls, queue, runner, trading, work>>

Loop == \/ Take \/ Fence \/ Apply \/ ApplyFails \/ AppendCommits
        \/ AppendFails \/ AppendUnknown \/ PeriodicSnapshot \/ RespondDone
        \/ RestoreSucceeds \/ RestoreFails \/ Drained

Next ==
  \/ \E c \in Calls, k \in Keys, p \in Payloads : Admit(c, k, p)
  \/ \E c \in Calls : Enqueue(c) \/ TimeOut(c)
  \/ Loop \/ PendingLands \/ PendingAborts
  \/ Close \/ Crash \/ Start \/ MoveGate \/ BlockGate

Spec == Init /\ [][Next]_vars

\* The loop's goroutine is scheduled, and the server ends a transaction whose
\* client has left.  An append that waits for the row lock may wait until then.
Waiting == work.stage = "append" /\ pending # None
Fairness == /\ WF_vars(~Waiting /\ Loop)
            /\ WF_vars(PendingLands \/ PendingAborts)

FairSpec == Spec /\ Fairness

-----------------------------------------------------------------------------
(* Properties *)

ExchangeState == [applied: Seq(Record), requests: [Keys -> Cached \cup {None}]]

Call == [stage: {"new", "admitted", "queued", "gone", "returned"},
         key: Keys \cup {None}, payload: Payloads \cup {None},
         version: 0..MaxVersion,
         reply: {"none", "ok", "recovery_in_progress", "unavailable", "closed",
                 "queue_full", "canceled", "idempotency_conflict", "error",
                 "persistence_error"},
         sequence: Nat]

Stages == {"fence", "apply", "append", "snapshot", "respond", "restore"}

\* The type invariant: the records of the event store, the callers, the queue
\* (never above its capacity) and the fields of MarketRunner and Exchange.
TypeOK ==
  /\ log \in Seq(Record) /\ pending \in Record \cup {None}
  /\ snapshot \in ExchangeState /\ trading \in ExchangeState
  /\ gate \in [authorized: SUBSET Keys, version: 0..MaxVersion]
  /\ calls \in [Calls -> Call]
  /\ queue \in Seq(Calls) /\ Len(queue) <= QueueSize
  /\ runner \in [state: {"down", "ready", "recovering", "failed", "closing",
                         "closed"},
                 accepting: BOOLEAN, stopped: BOOLEAN, starts: 0..MaxStarts]
  /\ work \in {Idle} \cup [stage: Stages, call: Calls]

Answers ==
  {[record |-> RecordOf(c), sequence |-> calls[c].sequence] :
     c \in {d \in Calls : calls[d].reply = "ok"}}

Promise == INSTANCE RequestLog WITH answers <- Answers

\* The runner implements RequestLog: whatever fails, times out, crashes or is
\* retried, a request key is recorded once, nothing recorded is lost, and an
\* answer is the record of its own key and payload.
ExactlyOnce == Promise!Spec

\* What the writer has in memory agrees with the event store, whatever failed.
\* The exchange in memory is a prefix of the log and may miss one record, of a
\* COMMIT that took effect after recovery had read the log: the compare-and-set
\* in Append stops the runner there. The idempotency cache survives recovery,
\* snapshots and restarts: unless the exchange is behind, only a system command
\* is ever appended a second time (the unique constraint then refuses it). And
\* a closed runner leaves no command behind in the queue, even if it was closed
\* while it was recovering or after it had failed. Two callers that got an
\* answer for one key got the same one.
MemoryFollowsLog ==
  /\ runner.state # "down" =>
       /\ Len(log) - Len(trading.applied) \in 0..1
       /\ \A i \in 1..Len(trading.applied) : trading.applied[i] = log[i]
  /\ work.stage = "append" /\ Len(log) = Len(trading.applied) =>
       calls[work.call].key \notin KeysOf(log) \ SystemKeys
  /\ runner.state = "closed" =>
       queue = <<>> /\ \A c \in Calls : calls[c].stage # "queued"
  /\ Promise!AnswersAgree
=============================================================================
