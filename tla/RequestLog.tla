----------------------------- MODULE RequestLog -----------------------------
(***************************************************************************)
(* What a market promises its callers (trading/README.md, "Idempotency"):  *)
(* a request key is recorded at most once, records are never lost or       *)
(* reordered, and every successful answer is the record of its own key and *)
(* payload.  MarketRunner is shown to implement this specification.        *)
(***************************************************************************)
EXTENDS Naturals, Sequences

CONSTANTS Keys,      \* idempotency keys: market, account, operation, request id
          Payloads   \* request fingerprints

VARIABLES log,       \* the durable event batches, one record per command
          answers    \* the successful answers callers have received

Record == [key: Keys, payload: Payloads]

KeysOf(records) == {records[i].key : i \in 1..Len(records)}

AnswerAt(records, i) == [record |-> records[i], sequence |-> i]

Init == log = <<>> /\ answers = {}

Commit(r) ==
  /\ r.key \notin KeysOf(log)
  /\ log' = Append(log, r)
  /\ UNCHANGED answers

Answer(i) ==
  /\ answers' = answers \cup {AnswerAt(log, i)}
  /\ UNCHANGED log

Next == \/ \E r \in Record : Commit(r)
        \/ \E i \in 1..Len(log) : Answer(i)

Spec == Init /\ [][Next]_<<log, answers>>

\* Two successful answers for one key carry the same payload and the same
\* sequence: a retry gets the original result, and a request that reuses the
\* key with another payload never gets one.
AnswersAgree ==
  \A a, b \in answers : a.record.key = b.record.key => a = b
=============================================================================
