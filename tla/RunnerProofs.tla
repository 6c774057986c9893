---------------------------- MODULE RunnerProofs ----------------------------
(***************************************************************************)
(* The market runner for any number of calls, keys, payloads, restarts and *)
(* gate moves: its memory follows the event log, and it implements         *)
(* RequestLog, so that a request key is recorded once and every successful *)
(* answer is its record.                                                   *)
(***************************************************************************)
EXTENDS MarketRunner, TLAPS

\* An exchange state is a prefix of the log with its idempotency cache.
Cites(s, l, k, i) ==
  l[i].key = k /\ s.requests[k] = [payload |-> l[i].payload, sequence |-> i]

Faithful(s, l) ==
  /\ Len(s.applied) <= Len(l)
  /\ \A i \in 1 .. Len(s.applied) : s.applied[i] = l[i]
  /\ \A k \in Keys : s.requests[k] # None =>
       k \notin SystemKeys /\ \E i \in 1 .. Len(s.applied) : Cites(s, l, k, i)
  /\ \A i \in 1 .. Len(s.applied) : l[i].key \notin SystemKeys =>
       s.requests[l[i].key] = [payload |-> l[i].payload, sequence |-> i]

\* No key is recorded twice, an append still open included.
Distinct(l) == \A i, j \in 1 .. Len(l) : l[i].key = l[j].key => i = j

Fresh(r, l) == \A i \in 1 .. Len(l) : l[i].key # r.key

\* The writer misses at most one record: of an append that was, or still is, open.
StoreSound ==
  /\ Distinct(log)
  /\ pending # None => Fresh(pending, log)
  /\ Faithful(snapshot, log) /\ Faithful(trading, log)
  /\ runner.state # "down" =>
       /\ Len(log) - Len(trading.applied) \in 0 .. 1
       /\ pending # None => Len(log) = Len(trading.applied)

\* A successful answer is the record of its own request.
CallSound(k, l) ==
  /\ k.stage # "new" => k.key \in Keys /\ k.payload \in Payloads
  /\ k.reply # "none" => k.stage = "returned"
  /\ k.reply = "ok" => /\ k.sequence \in 1 .. Len(l)
                       /\ l[k.sequence] = [key |-> k.key, payload |-> k.payload]

Waits(k) == k.stage \in {"queued", "gone"}

\* A queued call waits in one place.
LineSound ==
  /\ \A i \in 1 .. Len(queue) : Waits(calls[queue[i]])
  /\ \A i, j \in 1 .. Len(queue) : queue[i] = queue[j] => i = j
  /\ work # Idle => Waits(calls[work.call]) /\ \A i \in 1 .. Len(queue) : queue[i] # work.call
  /\ \A c \in Calls : calls[c].stage = "queued" => c = work.call \/ \E i \in 1 .. Len(queue) : queue[i] = c

Accepts(r) == r.accepting
Stops(r) == r.stopped

RunnerSound ==
  /\ Accepts(runner) => runner.state = "ready" /\ ~Stops(runner)
  /\ work.stage = "restore" => ~Accepts(runner)
  /\ runner.state = "down" => queue = <<>> /\ work = Idle /\ ~Stops(runner)
  /\ runner.state = "closed" => queue = <<>> /\ work = Idle

WorkSound ==
  /\ work.stage = "append" => trading.requests[calls[work.call].key] = None
  /\ work.stage \in {"snapshot", "respond"} =>
       /\ Len(trading.applied) \in 1 .. Len(log)
       /\ log[Len(trading.applied)] = RecordOf(work.call)

RunnerInv ==
  /\ TypeOK /\ StoreSound /\ \A c \in Calls : CallSound(calls[c], log)
  /\ LineSound /\ RunnerSound /\ WorkSound

-----------------------------------------------------------------------------
(* Exchange states and the log *)

LEMMA RecordIs ==
  ASSUME NEW r \in Record
  PROVE  r.key \in Keys /\ r.payload \in Payloads /\ r # None
BY RunnerAssumption DEF Record

LEMMA StateIs ==
  ASSUME NEW s \in ExchangeState
  PROVE  /\ s.applied \in Seq(Record) /\ Len(s.applied) \in Nat
         /\ s.requests \in [Keys -> Cached \cup {None}]
BY DEF ExchangeState

LEMMA AppendedIs ==
  ASSUME NEW l \in Seq(Record), NEW r \in Record
  PROVE  /\ Append(l, r) \in Seq(Record) /\ Len(Append(l, r)) = Len(l) + 1 /\ Len(l) \in Nat
         /\ \A i \in 1 .. Len(l) : Append(l, r)[i] = l[i]
         /\ Append(l, r)[Len(l) + 1] = r
OBVIOUS

LEMMA FaithfulGrows ==
  ASSUME NEW l \in Seq(Record), NEW r \in Record, NEW s \in ExchangeState, Faithful(s, l)
  PROVE  Faithful(s, Append(l, r))
<1> DEFINE m == Append(l, r)
<1>1. Len(m) = Len(l) + 1 /\ Len(l) \in Nat /\ \A i \in 1 .. Len(l) : m[i] = l[i]
  BY AppendedIs
<1>2. Len(s.applied) \in Nat /\ Len(s.applied) <= Len(l)
  BY StateIs DEF Faithful
<1> HIDE DEF m
<1>3. \A i \in 1 .. Len(s.applied) : m[i] = l[i]
  BY <1>1, <1>2
<1>4. \A k \in Keys, i \in 1 .. Len(s.applied) : Cites(s, l, k, i) => Cites(s, m, k, i)
  BY <1>3 DEF Cites
<1>5. \A i \in 1 .. Len(s.applied) : m[i].key \notin SystemKeys =>
        s.requests[m[i].key] = [payload |-> m[i].payload, sequence |-> i]
  BY <1>3 DEF Faithful
<1>6. Len(s.applied) <= Len(m) /\ \A i \in 1 .. Len(s.applied) : s.applied[i] = m[i]
  BY <1>1, <1>2, <1>3 DEF Faithful
<1>7. Faithful(s, m)
  BY <1>4, <1>5, <1>6 DEF Faithful
<1> QED BY <1>7 DEF m

LEMMA DistinctGrows ==
  ASSUME NEW l \in Seq(Record), NEW r \in Record, Distinct(l), Fresh(r, l)
  PROVE  Distinct(Append(l, r))
BY AppendedIs DEF Distinct, Fresh

LEMMA FreshIs ==
  ASSUME NEW l, NEW r
  PROVE  Fresh(r, l) <=> r.key \notin KeysOf(l)
BY DEF Fresh, KeysOf

LEMMA NewExchangeIs ==
  /\ NewExchange \in ExchangeState
  /\ \A l \in Seq(Record) : Faithful(NewExchange, l)
<1>1. NewExchange.applied = <<>> /\ NewExchange.requests = [k \in Keys |-> None]
  BY DEF NewExchange
<1>2. NewExchange \in ExchangeState
  BY DEF NewExchange, ExchangeState
<1>3. \A l \in Seq(Record) : Faithful(NewExchange, l)
  BY <1>1 DEF Faithful
<1> QED BY <1>2, <1>3

LEMMA ExtendedIs ==
  ASSUME NEW s \in ExchangeState, NEW r \in Record, NEW l \in Seq(Record),
         Faithful(s, l), Len(s.applied) = Len(l), Fresh(r, l)
  PROVE  /\ Extended(s, r) \in ExchangeState
         /\ Extended(s, r).applied = Append(s.applied, r)
         /\ Faithful(Extended(s, r), Append(l, r))
<1> DEFINE n == Len(s.applied) + 1
           e == Extended(s, r)
           m == Append(l, r)
           entry == [payload |-> r.payload, sequence |-> n]
<1>1. /\ s.applied \in Seq(Record) /\ n \in Nat /\ s.requests \in [Keys -> Cached \cup {None}]
      /\ r.key \in Keys /\ r.payload \in Payloads
  BY StateIs, RecordIs
<1>2. entry \in Cached
  BY <1>1 DEF Cached
<1>3. e.applied = Append(s.applied, r)
      /\ e.requests = [s.requests EXCEPT ![r.key] = IF r.key \in SystemKeys THEN @ ELSE entry]
  BY DEF Extended
<1>4. e = [applied |-> e.applied, requests |-> e.requests]
  BY DEF Extended
<1> HIDE DEF e, entry
<1>5. e.applied \in Seq(Record) /\ e.requests \in [Keys -> Cached \cup {None}]
  BY <1>1, <1>2, <1>3, AppendedIs
<1>6. e \in ExchangeState
  BY <1>4, <1>5 DEF ExchangeState
<1>7. /\ Len(m) = n /\ Len(e.applied) = n /\ m[n] = r
      /\ \A i \in 1 .. Len(l) : m[i] = l[i]
      /\ \A i \in 1 .. n : e.applied[i] = m[i]
  <2>1. /\ Len(e.applied) = n /\ e.applied[n] = r
        /\ \A i \in 1 .. Len(s.applied) : e.applied[i] = s.applied[i]
    BY <1>1, <1>3, AppendedIs
  <2>2. Len(m) = n /\ m[n] = r /\ \A i \in 1 .. Len(l) : m[i] = l[i]
    BY AppendedIs
  <2> HIDE DEF m
  <2>3. \A i \in 1 .. n : i = n \/ i \in 1 .. Len(l)
    BY <1>1
  <2> QED BY <2>1, <2>2, <2>3 DEF Faithful
<1> HIDE DEF m
<1>8. \A k \in Keys : e.requests[k] = IF k = r.key /\ k \notin SystemKeys THEN entry ELSE s.requests[k]
  BY <1>1, <1>3
<1>9. \A k \in Keys : e.requests[k] # None =>
        k \notin SystemKeys /\ \E i \in 1 .. n : Cites(e, m, k, i)
  <2> TAKE k \in Keys
  <2>1. CASE k = r.key /\ k \notin SystemKeys
    <3>1. n \in 1 .. n /\ Cites(e, m, k, n)
      BY <1>1, <1>7, <1>8, <2>1 DEF entry, Cites
    <3> QED BY <2>1, <3>1
  <2>2. CASE ~(k = r.key /\ k \notin SystemKeys)
    <3>1. e.requests[k] = s.requests[k]
      BY <1>8, <2>2
    <3>2. \A i \in 1 .. Len(s.applied) : i \in 1 .. n /\ m[i] = l[i]
      BY <1>1, <1>7
    <3>3. \A i \in 1 .. Len(s.applied) : Cites(s, l, k, i) => Cites(e, m, k, i)
      BY <3>1, <3>2 DEF Cites
    <3> QED BY <3>1, <3>2, <3>3 DEF Faithful
  <2> QED BY <2>1, <2>2
<1>10. \A i \in 1 .. n : m[i].key \notin SystemKeys =>
         e.requests[m[i].key] = [payload |-> m[i].payload, sequence |-> i]
  <2> TAKE i \in 1 .. n
  <2>1. CASE i = n
    BY <1>1, <1>7, <1>8, <2>1 DEF entry
  <2>2. CASE i # n
    <3>1. i \in 1 .. Len(l) /\ m[i] = l[i] /\ l[i] \in Record
      BY <1>1, <1>7, <2>2
    <3>2. l[i].key \in Keys /\ l[i].key # r.key
      BY <3>1, RecordIs DEF Fresh
    <3>3. e.requests[l[i].key] = s.requests[l[i].key]
      BY <1>8, <3>2
    <3> QED BY <3>1, <3>3 DEF Faithful
  <2> QED BY <2>1, <2>2
<1>11. Faithful(e, m)
  BY <1>1, <1>7, <1>9, <1>10 DEF Faithful
<1> QED BY <1>3, <1>6, <1>11 DEF e, m

LEMMA PieceIs ==
  ASSUME NEW S, NEW s, NEW m \in Int, NEW n \in Int, \A i \in m .. n : s[i] \in S
  PROVE  /\ SubSeq(s, m, n) \in Seq(S)
         /\ Len(SubSeq(s, m, n)) = IF m <= n THEN n - m + 1 ELSE 0
         /\ \A i \in 1 .. n - m + 1 : SubSeq(s, m, n)[i] = s[m + i - 1]
OBVIOUS

LEMMA SameSequence ==
  ASSUME NEW S, NEW s \in Seq(S), NEW t \in Seq(S),
         Len(s) = Len(t), \A i \in 1 .. Len(s) : s[i] = t[i]
  PROVE  s = t
OBVIOUS

LEMMA RestoredIs ==
  ASSUME log \in Seq(Record), snapshot \in ExchangeState, Faithful(snapshot, log), Distinct(log)
  PROVE  Restored \in ExchangeState /\ Restored.applied = log /\ Faithful(Restored, log)
<1> DEFINE n == Len(snapshot.applied)
           e == Restored
           tail == SubSeq(log, n + 1, Len(log))
           Later(k) == {i \in (n + 1) .. Len(log) : log[i].key = k}
           Entry(i) == [payload |-> log[i].payload, sequence |-> i]
<1>1. /\ snapshot.applied \in Seq(Record) /\ n \in Nat /\ Len(log) \in Nat /\ n <= Len(log)
      /\ snapshot.requests \in [Keys -> Cached \cup {None}]
  BY StateIs DEF Faithful
<1>2. e = [applied |-> snapshot.applied \o tail,
           requests |-> [k \in Keys |-> IF k \in SystemKeys \/ Later(k) = {} THEN snapshot.requests[k]
                                        ELSE Entry(CHOOSE i \in Later(k) : TRUE)]]
  BY DEF Restored, RecordsAfter
<1>3. e.applied = snapshot.applied \o tail
      /\ \A k \in Keys : e.requests[k] = IF k \in SystemKeys \/ Later(k) = {} THEN snapshot.requests[k]
                                         ELSE Entry(CHOOSE i \in Later(k) : TRUE)
  BY Zenon, <1>2
<1> HIDE DEF e
<1>4. e.applied = log
  <2>1. tail \in Seq(Record) /\ Len(tail) = Len(log) - n /\ \A i \in 1 .. Len(log) - n : tail[i] = log[n + i]
    <3>1. n + 1 \in Int /\ Len(log) \in Int /\ \A i \in (n + 1) .. Len(log) : log[i] \in Record
      BY <1>1
    <3> DEFINE a == n + 1
               b == Len(log)
    <3> HIDE DEF a, b
    <3>2. a \in Int /\ b \in Int /\ \A i \in a .. b : log[i] \in Record
      BY <3>1 DEF a, b
    <3>3. /\ SubSeq(log, a, b) \in Seq(Record)
          /\ Len(SubSeq(log, a, b)) = IF a <= b THEN b - a + 1 ELSE 0
          /\ \A i \in 1 .. b - a + 1 : SubSeq(log, a, b)[i] = log[a + i - 1]
      BY <3>2, PieceIs
    <3>4. tail = SubSeq(log, a, b) /\ a = n + 1 /\ b = Len(log)
      BY DEF a, b
    <3> HIDE DEF tail
    <3>5. Len(tail) = Len(log) - n
      <4>1. Len(tail) = IF n + 1 <= Len(log) THEN Len(log) - (n + 1) + 1 ELSE 0
        BY Zenon, <3>3, <3>4
      <4> HIDE DEF n
      <4> QED BY <1>1, <4>1
    <3>6. \A i \in 1 .. Len(log) - n : tail[i] = log[n + i]
      <4> TAKE i \in 1 .. Len(log) - n
      <4>1. i \in 1 .. b - a + 1 /\ a + i - 1 = n + i
        BY <1>1, <3>4
      <4> QED BY Zenon, <3>3, <3>4, <4>1
    <3> QED BY Zenon, <3>3, <3>4, <3>5, <3>6
  <2> HIDE DEF tail
  <2> DEFINE whole == snapshot.applied \o tail
  <2>2. whole \in Seq(Record) /\ Len(whole) = Len(log)
    BY <1>1, <2>1
  <2>3. \A i \in 1 .. Len(log) : whole[i] = log[i]
    <3> TAKE i \in 1 .. Len(log)
    <3>1. CASE i <= n
      <4>1. i \in 1 .. n
        BY <1>1, <3>1
      <4>2. whole[i] = snapshot.applied[i]
        BY <1>1, <2>1, <4>1
      <4> QED BY <4>1, <4>2 DEF Faithful
    <3>2. CASE ~(i <= n)
      <4>1. i - n \in 1 .. Len(log) - n /\ n + (i - n) = i
        BY <1>1, <3>2
      <4>2. whole[i] = tail[i - n]
        BY <1>1, <2>1, <3>2
      <4> QED BY <2>1, <4>1, <4>2
    <3> QED BY Zenon, <3>1, <3>2
  <2> HIDE DEF whole
  <2>4. whole = log
    BY <2>2, <2>3, SameSequence
  <2> QED BY <1>3, <2>4 DEF whole
<1>5. \A i \in 1 .. Len(log) : log[i] \in Record /\ log[i].key \in Keys /\ Entry(i) \in Cached
  BY RecordIs DEF Cached
<1>6. \A k \in Keys : k \notin SystemKeys /\ Later(k) # {} =>
        \E i \in Later(k) : e.requests[k] = Entry(i)
  BY <1>3
<1>7. \A k \in Keys : k \in SystemKeys \/ Later(k) = {} => e.requests[k] = snapshot.requests[k]
  BY Zenon, <1>3
<1>8. e.requests \in [Keys -> Cached \cup {None}]
  <2>1. \A k \in Keys : e.requests[k] \in Cached \cup {None}
    <3> TAKE k \in Keys
    <3>1. CASE k \in SystemKeys \/ Later(k) = {}
      BY <1>1, <1>7, <3>1
    <3>2. CASE ~(k \in SystemKeys \/ Later(k) = {})
      <4>1. PICK i \in Later(k) : e.requests[k] = Entry(i)
        BY <1>6, <3>2
      <4>2. i \in 1 .. Len(log)
        BY <1>1
      <4> QED BY <1>5, <4>1, <4>2
    <3> QED BY <3>1, <3>2
  <2>2. e.requests = [k \in Keys |-> e.requests[k]]
    BY <1>2
  <2> QED BY <2>1, <2>2
<1>9. e \in ExchangeState
  <2>1. e = [applied |-> e.applied, requests |-> e.requests]
    BY <1>2
  <2> QED BY <1>4, <1>8, <2>1 DEF ExchangeState
<1>10. \A k \in Keys : e.requests[k] # None =>
         k \notin SystemKeys /\ \E i \in 1 .. Len(log) : Cites(e, log, k, i)
  <2> SUFFICES ASSUME NEW k \in Keys, e.requests[k] # None
               PROVE  k \notin SystemKeys /\ \E i \in 1 .. Len(log) : Cites(e, log, k, i)
    OBVIOUS
  <2>1. CASE k \in SystemKeys \/ Later(k) = {}
    <3>1. e.requests[k] = snapshot.requests[k]
      BY <1>7, <2>1
    <3>2. k \notin SystemKeys /\ \E i \in 1 .. n : Cites(snapshot, log, k, i)
      BY <3>1 DEF Faithful
    <3>3. \A i \in 1 .. n : i \in 1 .. Len(log) /\ (Cites(snapshot, log, k, i) => Cites(e, log, k, i))
      BY <1>1, <3>1 DEF Cites
    <3> QED BY <3>2, <3>3
  <2>2. CASE ~(k \in SystemKeys \/ Later(k) = {})
    <3>1. PICK i \in Later(k) : e.requests[k] = Entry(i)
      BY <1>6, <2>2
    <3>2. i \in 1 .. Len(log) /\ Cites(e, log, k, i)
      BY <1>1, <3>1 DEF Cites
    <3> QED BY <2>2, <3>2
  <2> QED BY <2>1, <2>2
<1>11. \A i \in 1 .. Len(log) : log[i].key \notin SystemKeys => e.requests[log[i].key] = Entry(i)
  <2> SUFFICES ASSUME NEW i \in 1 .. Len(log), log[i].key \notin SystemKeys
               PROVE  e.requests[log[i].key] = Entry(i)
    OBVIOUS
  <2>1. log[i].key \in Keys
    BY Zenon, <1>5
  <2>2. CASE i <= n
    <3>1. Later(log[i].key) = {}
      BY <1>1, <2>2 DEF Distinct
    <3>2. e.requests[log[i].key] = snapshot.requests[log[i].key]
      BY <1>7, <2>1, <3>1
    <3>3. i \in 1 .. n
      BY <1>1, <2>2
    <3> QED BY <3>2, <3>3 DEF Faithful
  <2>3. CASE ~(i <= n)
    <3>1. i \in Later(log[i].key)
      BY <1>1, <2>3
    <3>2. PICK j \in Later(log[i].key) : e.requests[log[i].key] = Entry(j)
      BY Zenon, <1>6, <2>1, <3>1
    <3>3. j = i
      BY <1>1, <3>2 DEF Distinct
    <3> QED BY <3>2, <3>3
  <2> QED BY <2>2, <2>3
<1>12. Faithful(e, log)
  BY <1>1, <1>4, <1>10, <1>11 DEF Faithful
<1> QED BY <1>4, <1>9, <1>12 DEF e

-----------------------------------------------------------------------------
(* The fields an action changes *)

Works == [stage: Stages, call: Calls]
Runners == [state: {"down", "ready", "recovering", "failed", "closing", "closed"},
            accepting: BOOLEAN, stopped: BOOLEAN, starts: 0..MaxStarts]

Step(w, s) == [w EXCEPT !.stage = s]

LEMMA StepIs ==
  ASSUME NEW w \in Works, NEW s \in Stages
  PROVE  Step(w, s) \in Works /\ Step(w, s).stage = s /\ Step(w, s).call = w.call
BY DEF Works, Step

LEMMA WorkIs ==
  /\ Idle.stage = "idle" /\ Idle.stage \notin Stages /\ Idle.call = None /\ None \notin Calls
  /\ \A w \in Works : w.stage \in Stages /\ w.call \in Calls /\ w # Idle
BY RunnerAssumption DEF Works, Idle, Stages

LEMMA Working ==
  ASSUME TypeOK, work.stage # "idle"
  PROVE  work \in Works /\ work # Idle /\ work.call \in Calls
BY WorkIs DEF TypeOK, Works, Idle

Closes(r) == [r EXCEPT !.state = "closing"]
Breaks(r) == [r EXCEPT !.state = "failed"]
Ends(r) == [r EXCEPT !.state = "closed"]
Reopens(r) == [r EXCEPT !.state = "ready", !.accepting = TRUE]
Recovers(r) == [r EXCEPT !.accepting = FALSE, !.state = "recovering"]
Halts(r) == [r EXCEPT !.accepting = FALSE, !.state = "closing", !.stopped = TRUE]
Dies(r) == [r EXCEPT !.state = "down", !.accepting = FALSE, !.stopped = FALSE]

LEMMA RunnerForms ==
  ASSUME NEW r \in Runners
  PROVE  /\ Closes(r) \in Runners /\ Breaks(r) \in Runners /\ Ends(r) \in Runners
         /\ Reopens(r) \in Runners /\ Recovers(r) \in Runners /\ Halts(r) \in Runners
         /\ Dies(r) \in Runners
<1>1. r = [x \in {"state", "accepting", "stopped", "starts"} |-> r[x]]
  BY DEF Runners
<1> QED BY Zenon, <1>1 DEF Runners, Closes, Breaks, Ends, Reopens, Recovers, Halts, Dies

LEMMA RunnerFields ==
  ASSUME NEW r \in Runners
  PROVE  /\ Closes(r).state = "closing" /\ (Accepts(Closes(r)) <=> Accepts(r)) /\ (Stops(Closes(r)) <=> Stops(r))
         /\ Breaks(r).state = "failed" /\ (Accepts(Breaks(r)) <=> Accepts(r)) /\ (Stops(Breaks(r)) <=> Stops(r))
         /\ Ends(r).state = "closed" /\ (Accepts(Ends(r)) <=> Accepts(r)) /\ (Stops(Ends(r)) <=> Stops(r))
         /\ Reopens(r).state = "ready" /\ Accepts(Reopens(r)) /\ (Stops(Reopens(r)) <=> Stops(r))
         /\ Recovers(r).state = "recovering" /\ ~Accepts(Recovers(r)) /\ (Stops(Recovers(r)) <=> Stops(r))
         /\ Halts(r).state = "closing" /\ ~Accepts(Halts(r)) /\ Stops(Halts(r))
         /\ Dies(r).state = "down" /\ ~Accepts(Dies(r)) /\ ~Stops(Dies(r))
<1>1. r = [x \in {"state", "accepting", "stopped", "starts"} |-> r[x]]
  BY DEF Runners
<1> QED BY <1>1 DEF Closes, Breaks, Ends, Reopens, Recovers, Halts, Dies, Accepts, Stops

Replies == {"none", "ok", "recovery_in_progress", "unavailable", "closed", "queue_full",
            "canceled", "idempotency_conflict", "error", "persistence_error"}
Staged(k, s) == [k EXCEPT !.stage = s]
Replied(k, reply, n) == [k EXCEPT !.stage = "returned", !.reply = reply, !.sequence = n]

LEMMA StagedIs ==
  ASSUME NEW k \in Call, NEW s \in {"queued", "gone"}
  PROVE  /\ Staged(k, s) \in Call /\ Staged(k, s).stage = s /\ Staged(k, s).key = k.key
         /\ Staged(k, s).payload = k.payload /\ Staged(k, s).reply = k.reply
         /\ Staged(k, s).sequence = k.sequence
BY DEF Call, Staged

LEMMA AnsweredIs ==
  ASSUME NEW k \in Call, NEW r \in Replies, NEW n \in Nat
  PROVE  /\ Replied(k, r, n) \in Call /\ Replied(k, r, n).stage = "returned"
         /\ Replied(k, r, n).key = k.key /\ Replied(k, r, n).payload = k.payload
         /\ Replied(k, r, n).reply = r /\ Replied(k, r, n).sequence = n
BY Zenon DEF Call, Replied, Replies

\* One call changes, to a call of the same request.
Changes(c, k) == calls' = [calls EXCEPT ![c] = k]
SameRequest(c, k) == k \in Call /\ k.key = calls[c].key /\ k.payload = calls[c].payload

LEMMA ChangesAre ==
  ASSUME TypeOK, NEW c \in Calls, NEW k \in Call, Changes(c, k)
  PROVE  /\ calls' \in [Calls -> Call] /\ calls'[c] = k
         /\ \A d \in Calls : d # c => calls'[d] = calls[d]
BY DEF TypeOK, Changes

LEMMA Answers1 ==
  ASSUME TypeOK, NEW c \in Calls, NEW r, NEW n, calls' = Returned(c, r, n)
  PROVE  IF calls[c].stage = "gone" THEN calls' = calls ELSE Changes(c, Replied(calls[c], r, n))
BY Zenon DEF TypeOK, Returned, Changes, Replied

-----------------------------------------------------------------------------
(* What several actions have in common *)

LEMMA StoreKept ==
  ASSUME RunnerInv, UNCHANGED <<log, pending, snapshot, trading>>,
         runner'.state # "down" => runner.state # "down"
  PROVE  StoreSound'
BY DEF RunnerInv, StoreSound, Distinct, Fresh, Faithful, Cites

LEMMA CallsGrow ==
  ASSUME NEW k \in Call, NEW l \in Seq(Record), NEW r \in Record, CallSound(k, l)
  PROVE  CallSound(k, Append(l, r))
<1>1. k.sequence \in 1 .. Len(l) =>
        k.sequence \in 1 .. Len(Append(l, r)) /\ Append(l, r)[k.sequence] = l[k.sequence]
  BY AppendedIs
<1> QED BY <1>1 DEF CallSound

\* A call in the hands of the loop has not returned.
LEMMA TakenUp ==
  ASSUME RunnerInv, work.stage # "idle"
  PROVE  /\ work \in Works /\ work.call \in Calls /\ calls[work.call] \in Call
         /\ Waits(calls[work.call]) /\ calls[work.call].reply = "none"
         /\ RecordOf(work.call) \in Record
         /\ \A i \in 1 .. Len(queue) : queue[i] # work.call
         /\ runner.state \notin {"down", "closed"}
<1>1. work \in Works /\ work # Idle /\ work.call \in Calls
  BY Working DEF RunnerInv
<1>2. calls[work.call] \in Call /\ CallSound(calls[work.call], log)
  BY <1>1 DEF RunnerInv, TypeOK
<1>3. Waits(calls[work.call]) /\ \A i \in 1 .. Len(queue) : queue[i] # work.call
  BY <1>1 DEF RunnerInv, LineSound
<1>4. calls[work.call].reply = "none" /\ calls[work.call].key \in Keys /\ calls[work.call].payload \in Payloads
  BY <1>2, <1>3 DEF CallSound, Waits
<1>5. runner.state \notin {"down", "closed"}
  BY <1>1 DEF RunnerInv, RunnerSound
<1> QED BY <1>1, <1>2, <1>3, <1>4, <1>5 DEF RecordOf, Record

LEMMA RespondKeeps ==
  ASSUME RunnerInv, work.stage # "idle", NEW r \in Replies \ {"none"}, NEW n \in Nat, Respond(r, n),
         UNCHANGED <<log, queue>>,
         r = "ok" => n \in 1 .. Len(log) /\ log[n] = RecordOf(work.call)
  PROVE  /\ calls' \in [Calls -> Call] /\ work' = Idle
         /\ \A c \in Calls : CallSound(calls'[c], log')
         /\ LineSound' /\ WorkSound'
<1> DEFINE c == work.call
           k == Replied(calls[c], r, n)
<1>1. /\ c \in Calls /\ calls[c] \in Call /\ Waits(calls[c]) /\ RecordOf(c) \in Record
      /\ \A i \in 1 .. Len(queue) : queue[i] # c
  BY TakenUp
<1>2. IF calls[c].stage = "gone" THEN calls' = calls ELSE Changes(c, k)
  BY <1>1, Answers1 DEF Respond, RunnerInv
<1>3. work' = Idle /\ Idle.stage = "idle" /\ Idle.call = None
  BY WorkIs DEF Respond
<1>4. WorkSound'
  BY <1>3 DEF WorkSound
<1>5. CASE calls[c].stage = "gone"
  <2>1. calls' = calls
    BY <1>2, <1>5
  <2>2. calls' \in [Calls -> Call] /\ \A d \in Calls : CallSound(calls'[d], log')
    BY <2>1 DEF RunnerInv, TypeOK
  <2>3. LineSound'
    BY <1>3, <1>5, <2>1 DEF RunnerInv, LineSound, Waits
  <2> QED BY <1>3, <1>4, <2>2, <2>3
<1>6. CASE calls[c].stage # "gone"
  <2>1. k \in Call /\ k.stage = "returned" /\ k.key = calls[c].key /\ k.payload = calls[c].payload
        /\ k.reply = r /\ k.sequence = n
    BY <1>1, AnsweredIs
  <2> HIDE DEF k
  <2>2. calls' \in [Calls -> Call] /\ calls'[c] = k /\ \A d \in Calls : d # c => calls'[d] = calls[d]
    BY <1>1, <1>2, <1>6, <2>1, ChangesAre DEF RunnerInv
  <2>3. CallSound(k, log)
    <3>1. k.key \in Keys /\ k.payload \in Payloads
      BY <1>1, <2>1 DEF RecordOf, Record
    <3> QED BY <2>1, <3>1 DEF CallSound, RecordOf
  <2>4. \A d \in Calls : CallSound(calls'[d], log')
    BY <2>2, <2>3 DEF RunnerInv
  <2>5. \A i \in 1 .. Len(queue) : queue[i] \in Calls /\ calls'[queue[i]] = calls[queue[i]]
    BY <1>1, <2>2 DEF RunnerInv, TypeOK
  <2>6. \A d \in Calls : calls'[d].stage = "queued" => d # c /\ calls[d].stage = "queued"
    BY <2>1, <2>2
  <2> HIDE DEF c
  <2>7. LineSound'
    BY <1>3, <2>5, <2>6 DEF RunnerInv, LineSound, c
  <2> QED BY <1>3, <1>4, <2>2, <2>4, <2>7
<1> QED BY <1>5, <1>6

LEMMA StepKeeps ==
  ASSUME RunnerInv, work.stage # "idle", NEW s \in Stages, work' = Step(work, s), UNCHANGED <<calls, queue>>
  PROVE  work' \in Works /\ work'.stage = s /\ work'.call = work.call /\ work' # Idle /\ LineSound'
<1>1. work \in Works /\ work # Idle
  BY Working DEF RunnerInv
<1>2. work' \in Works /\ work'.stage = s /\ work'.call = work.call /\ work' # Idle
  BY <1>1, StepIs, WorkIs
<1>3. LineSound'
  BY <1>1, <1>2 DEF RunnerInv, LineSound
<1> QED BY <1>2, <1>3

-----------------------------------------------------------------------------
(* The callers *)

\* A call outside the line changes, and stays outside it.
LEMMA OutsideKeeps ==
  ASSUME RunnerInv, NEW c \in Calls, NEW k \in Call, calls[c].stage \in {"new", "admitted"}, Changes(c, k),
         k.stage # "queued", CallSound(k, log),
         UNCHANGED <<log, pending, snapshot, gate, queue, runner, trading, work>>
  PROVE  RunnerInv'
<1>1. calls' \in [Calls -> Call] /\ calls'[c] = k /\ \A d \in Calls : d # c => calls'[d] = calls[d]
  BY ChangesAre DEF RunnerInv
<1>2. TypeOK'
  BY <1>1 DEF RunnerInv, TypeOK
<1>3. StoreSound'
  BY StoreKept
<1>4. \A d \in Calls : CallSound(calls'[d], log')
  BY <1>1 DEF RunnerInv
<1>5. \A d \in Calls : Waits(calls[d]) => d # c /\ calls'[d] = calls[d]
  BY <1>1 DEF Waits
<1>6. \A i \in 1 .. Len(queue) : calls'[queue[i]] = calls[queue[i]]
  BY <1>5 DEF RunnerInv, TypeOK, LineSound
<1>7. work # Idle => work.call # c /\ calls'[work.call] = calls[work.call]
  BY <1>5, WorkIs DEF RunnerInv, TypeOK, LineSound, Works
<1>8. \A d \in Calls : calls'[d].stage = "queued" => calls[d].stage = "queued"
  BY Zenon, <1>1
<1>9. LineSound'
  BY <1>6, <1>7, <1>8 DEF RunnerInv, LineSound
<1>10. RunnerSound'
  BY DEF RunnerInv, RunnerSound, Accepts, Stops
<1>11. WorkSound'
  <2>1. work.stage # "idle" => work # Idle
    BY WorkIs
  <2> QED BY <1>7, <2>1 DEF RunnerInv, WorkSound, RecordOf
<1> QED BY <1>2, <1>3, <1>4, <1>9, <1>10, <1>11 DEF RunnerInv

LEMMA AdmitKeeps ==
  ASSUME RunnerInv, NEW c \in Calls, NEW x \in Keys, NEW p \in Payloads, Admit(c, x, p)
  PROVE  RunnerInv'
<1> DEFINE y == [NewCall EXCEPT !.stage = "admitted", !.key = x, !.payload = p, !.version = gate.version]
           z == [NewCall EXCEPT !.stage = "returned", !.key = x, !.payload = p, !.reply = "recovery_in_progress"]
           k == IF x \in gate.authorized THEN y ELSE z
<1>1. gate.version \in 0 .. MaxVersion /\ 0 \in 0 .. MaxVersion
  BY RunnerAssumption DEF RunnerInv, TypeOK
<1>2. y \in Call /\ y.stage = "admitted" /\ y.key = x /\ y.payload = p /\ y.reply = "none"
  BY Zenon, <1>1 DEF NewCall, Call
<1>3. z \in Call /\ z.stage = "returned" /\ z.key = x /\ z.payload = p /\ z.reply = "recovery_in_progress"
  BY Zenon, <1>1 DEF NewCall, Call
<1> HIDE DEF y, z
<1>4. k \in Call /\ CallSound(k, log) /\ k.stage # "queued"
  BY <1>2, <1>3 DEF CallSound
<1>5. Changes(c, k) /\ calls[c].stage = "new"
  BY DEF Admit, Changes, y, z
<1> HIDE DEF k
<1> QED BY <1>4, <1>5, OutsideKeeps DEF Admit

LEMMA EnqueueKeeps ==
  ASSUME RunnerInv, NEW c \in Calls, Enqueue(c)
  PROVE  RunnerInv'
<1>1. calls[c].stage = "admitted" /\ calls[c] \in Call /\ CallSound(calls[c], log)
  BY DEF Enqueue, RunnerInv, TypeOK
<1>2. UNCHANGED <<log, pending, snapshot, gate, runner, trading, work>>
  BY DEF Enqueue
<1>3. ASSUME NEW r \in Replies \ {"none", "ok"}, calls' = Returned(c, r, 0), UNCHANGED queue
      PROVE  RunnerInv'
  <2> DEFINE k == Replied(calls[c], r, 0)
  <2>1. Changes(c, k)
    BY <1>1, <1>3, Answers1 DEF RunnerInv
  <2>2. k \in Call /\ k.stage = "returned" /\ k.key = calls[c].key /\ k.payload = calls[c].payload
        /\ k.reply = r /\ k.sequence = 0
    BY <1>1, AnsweredIs
  <2> HIDE DEF k
  <2>3. CallSound(k, log) /\ k.stage # "queued"
    BY <1>1, <2>2 DEF CallSound
  <2> QED BY <1>1, <1>2, <1>3, <2>1, <2>2, <2>3, OutsideKeeps
<1>4. CASE ~Accepts(runner)
  <2>1. calls' = Returned(c, IF runner.state = "closed" THEN "closed" ELSE "unavailable", 0) /\ UNCHANGED queue
    BY <1>4 DEF Enqueue, Accepts
  <2>2. (IF runner.state = "closed" THEN "closed" ELSE "unavailable") \in Replies \ {"none", "ok"}
    BY DEF Replies
  <2> QED BY <1>3, <2>1, <2>2
<1>5. CASE Accepts(runner) /\ ~(Len(queue) < QueueSize)
  <2>1. calls' = Returned(c, "queue_full", 0) /\ UNCHANGED queue
    BY <1>5 DEF Enqueue, Accepts
  <2>2. "queue_full" \in Replies \ {"none", "ok"}
    BY DEF Replies
  <2> QED BY <1>3, <2>1, <2>2
<1>6. CASE Accepts(runner) /\ Len(queue) < QueueSize
  <2> DEFINE k == Staged(calls[c], "queued")
  <2>1. Changes(c, k) /\ queue' = Append(queue, c)
    BY <1>6 DEF Enqueue, Accepts, Changes, Staged
  <2>2. k \in Call /\ k.stage = "queued" /\ k.key = calls[c].key /\ k.payload = calls[c].payload
        /\ k.reply = calls[c].reply /\ k.sequence = calls[c].sequence
    BY <1>1, StagedIs
  <2> HIDE DEF k
  <2>3. calls' \in [Calls -> Call] /\ calls'[c] = k /\ \A d \in Calls : d # c => calls'[d] = calls[d]
    BY <2>1, <2>2, ChangesAre DEF RunnerInv
  <2>4. queue' \in Seq(Calls) /\ Len(queue') = Len(queue) + 1 /\ Len(queue) \in Nat
        /\ (\A i \in 1 .. Len(queue) : queue'[i] = queue[i]) /\ queue'[Len(queue) + 1] = c
    BY <2>1 DEF RunnerInv, TypeOK
  <2>5. TypeOK'
    <3>1. Len(queue') <= QueueSize
      BY <1>6, <2>4, RunnerAssumption
    <3> QED BY <1>2, <2>3, <2>4, <3>1 DEF RunnerInv, TypeOK
  <2>6. StoreSound'
    BY <1>2, StoreKept
  <2>7. \A d \in Calls : CallSound(calls'[d], log')
    <3>1. CallSound(k, log)
      BY <1>1, <2>2 DEF CallSound
    <3> QED BY <1>2, <2>3, <3>1 DEF RunnerInv
  <2>8. \A d \in Calls : Waits(calls[d]) => d # c /\ calls'[d] = calls[d]
    BY Zenon, <1>1, <2>3 DEF Waits
  <2>9. work # Idle => work.call # c /\ calls'[work.call] = calls[work.call] /\ Waits(calls[work.call])
    BY Zenon, <2>8, WorkIs DEF RunnerInv, TypeOK, LineSound, Works
  <2>10. LineSound'
    <3>1. \A i \in 1 .. Len(queue) : queue[i] \in Calls /\ queue[i] # c /\ calls'[queue[i]] = calls[queue[i]] /\ Waits(calls[queue[i]])
      BY <2>8 DEF RunnerInv, TypeOK, LineSound
    <3>2. \A i \in 1 .. Len(queue') : i = Len(queue) + 1 \/ i \in 1 .. Len(queue)
      BY <2>4
    <3>3. Waits(k)
      BY <2>2 DEF Waits
    <3>4. \A i \in 1 .. Len(queue') : Waits(calls'[queue'[i]])
      BY <2>3, <2>4, <3>1, <3>2, <3>3
    <3>5. \A i, j \in 1 .. Len(queue') : queue'[i] = queue'[j] => i = j
      BY <2>4, <3>1, <3>2 DEF RunnerInv, LineSound
    <3>6. work' # Idle => Waits(calls'[work'.call]) /\ \A i \in 1 .. Len(queue') : queue'[i] # work'.call
      BY <1>2, <2>4, <2>9, <3>2 DEF RunnerInv, LineSound
    <3>7. \A d \in Calls : calls'[d].stage = "queued" => d = work'.call \/ \E i \in 1 .. Len(queue') : queue'[i] = d
      <4> SUFFICES ASSUME NEW d \in Calls, calls'[d].stage = "queued", d # work.call
                   PROVE  \E i \in 1 .. Len(queue') : queue'[i] = d
        BY <1>2
      <4>1. CASE d = c
        BY <2>4, <4>1
      <4>2. CASE d # c
        <5>1. PICK i \in 1 .. Len(queue) : queue[i] = d
          BY <2>3, <4>2 DEF RunnerInv, LineSound
        <5>2. i \in 1 .. Len(queue') /\ queue'[i] = d
          BY <2>4, <5>1
        <5> QED BY <5>2
      <4> QED BY <4>1, <4>2
    <3> QED BY <3>4, <3>5, <3>6, <3>7 DEF LineSound
  <2>11. RunnerSound'
    BY <1>2, <1>6 DEF RunnerInv, RunnerSound, Accepts, Stops
  <2>12. WorkSound'
    <3>1. work.stage # "idle" => work # Idle
      BY WorkIs
    <3> QED BY <1>2, <2>9, <3>1 DEF RunnerInv, WorkSound, RecordOf
  <2> QED BY <2>5, <2>6, <2>7, <2>10, <2>11, <2>12 DEF RunnerInv
<1> QED BY <1>4, <1>5, <1>6

LEMMA TimeOutKeeps ==
  ASSUME RunnerInv, NEW c \in Calls, TimeOut(c)
  PROVE  RunnerInv'
<1> DEFINE k == Staged(calls[c], "gone")
<1>1. calls[c].stage \in {"admitted", "queued"} /\ calls[c] \in Call /\ CallSound(calls[c], log)
  BY DEF TimeOut, RunnerInv, TypeOK
<1>2. UNCHANGED <<log, pending, snapshot, gate, queue, runner, trading, work>>
  BY DEF TimeOut
<1>3. Changes(c, k)
  BY DEF TimeOut, Changes, Staged
<1>4. k \in Call /\ k.stage = "gone" /\ k.key = calls[c].key /\ k.payload = calls[c].payload
      /\ k.reply = calls[c].reply /\ k.sequence = calls[c].sequence
  BY <1>1, StagedIs
<1> HIDE DEF k
<1>5. CallSound(k, log)
  BY <1>1, <1>4 DEF CallSound
<1>6. CASE calls[c].stage = "admitted"
  BY <1>2, <1>3, <1>4, <1>5, <1>6, OutsideKeeps
<1>7. CASE calls[c].stage = "queued"
  <2>1. calls' \in [Calls -> Call] /\ calls'[c] = k /\ \A d \in Calls : d # c => calls'[d] = calls[d]
    BY <1>3, <1>4, ChangesAre DEF RunnerInv
  <2>2. TypeOK'
    BY <1>2, <2>1 DEF RunnerInv, TypeOK
  <2>3. StoreSound'
    BY <1>2, StoreKept
  <2>4. \A d \in Calls : CallSound(calls'[d], log')
    BY <1>2, <1>5, <2>1 DEF RunnerInv
  <2>5. \A d \in Calls : /\ Waits(calls[d]) => Waits(calls'[d])
                         /\ calls'[d].stage = "queued" => calls[d].stage = "queued"
                         /\ calls'[d].key = calls[d].key /\ calls'[d].payload = calls[d].payload
    BY <1>4, <2>1 DEF Waits
  <2>6. LineSound'
    <3>1. \A i \in 1 .. Len(queue) : queue[i] \in Calls
      BY DEF RunnerInv, TypeOK
    <3>2. work # Idle => work.call \in Calls
      BY WorkIs DEF RunnerInv, TypeOK, Works
    <3> QED BY <1>2, <2>5, <3>1, <3>2 DEF RunnerInv, LineSound
  <2>7. RunnerSound'
    BY <1>2 DEF RunnerInv, RunnerSound, Accepts, Stops
  <2>8. WorkSound'
    <3>1. work.stage # "idle" => work.call \in Calls
      BY Working DEF RunnerInv
    <3> QED BY <1>2, <2>5, <3>1 DEF RunnerInv, WorkSound, RecordOf
  <2> QED BY <2>2, <2>3, <2>4, <2>6, <2>7, <2>8 DEF RunnerInv
<1> QED BY <1>1, <1>6, <1>7

-----------------------------------------------------------------------------
(* The loop *)

LEMMA TakeKeeps ==
  ASSUME RunnerInv, Take
  PROVE  RunnerInv'
<1> DEFINE c == Head(queue)
<1>1. work = Idle /\ queue # <<>> /\ runner.state # "closed"
      /\ work' = [stage |-> "fence", call |-> c] /\ queue' = Tail(queue)
      /\ UNCHANGED <<log, pending, snapshot, gate, calls, runner, trading>>
  BY DEF Take
<1>2. /\ Len(queue) \in Nat \ {0} /\ c = queue[1] /\ c \in Calls
      /\ queue' \in Seq(Calls) /\ Len(queue') = Len(queue) - 1
      /\ \A i \in 1 .. Len(queue') : queue'[i] = queue[i + 1]
  BY <1>1 DEF RunnerInv, TypeOK
<1> HIDE DEF c
<1>3. work' \in Works /\ work'.stage = "fence" /\ work'.call = c /\ work' # Idle
  BY <1>1, <1>2, WorkIs DEF Works, Stages
<1>4. TypeOK'
  <2>1. Len(queue') <= QueueSize
    BY <1>2, RunnerAssumption DEF RunnerInv, TypeOK
  <2> QED BY <1>1, <1>2, <1>3, <2>1 DEF RunnerInv, TypeOK, Works
<1>5. StoreSound'
  BY <1>1, StoreKept
<1>6. \A d \in Calls : CallSound(calls'[d], log')
  BY <1>1 DEF RunnerInv
<1>7. LineSound'
  <2>1. \A i \in 1 .. Len(queue') : i + 1 \in 1 .. Len(queue) /\ i + 1 # 1
    BY <1>2
  <2>2. 1 \in 1 .. Len(queue)
    BY <1>2
  <2>3. \A i \in 1 .. Len(queue') : Waits(calls'[queue'[i]]) /\ queue'[i] # c
    BY <1>1, <1>2, <2>1, <2>2 DEF RunnerInv, LineSound
  <2>4. \A i, j \in 1 .. Len(queue') : queue'[i] = queue'[j] => i = j
    <3> SUFFICES ASSUME NEW i \in 1 .. Len(queue'), NEW j \in 1 .. Len(queue'), queue'[i] = queue'[j]
                 PROVE  i = j
      OBVIOUS
    <3>1. i + 1 = j + 1
      BY <1>2, <2>1 DEF RunnerInv, LineSound
    <3> QED BY <1>2, <3>1
  <2>5. Waits(calls'[c])
    BY <1>1, <1>2, <2>2 DEF RunnerInv, LineSound
  <2>6. \A d \in Calls : calls'[d].stage = "queued" => d = c \/ \E i \in 1 .. Len(queue') : queue'[i] = d
    <3> SUFFICES ASSUME NEW d \in Calls, calls[d].stage = "queued", d # c
                 PROVE  \E i \in 1 .. Len(queue') : queue'[i] = d
      BY <1>1
    <3>1. PICK i \in 1 .. Len(queue) : queue[i] = d
      BY <1>1, WorkIs DEF RunnerInv, LineSound
    <3>2. i - 1 \in 1 .. Len(queue') /\ (i - 1) + 1 = i
      BY <1>2, <3>1
    <3> QED BY Zenon, <1>2, <3>1, <3>2
  <2> QED BY <1>3, <2>3, <2>4, <2>5, <2>6 DEF LineSound
<1>8. RunnerSound'
  BY <1>1 DEF RunnerInv, RunnerSound, Accepts, Stops
<1>9. WorkSound'
  BY <1>3 DEF WorkSound
<1> QED BY Zenon, <1>4, <1>5, <1>6, <1>7, <1>8, <1>9 DEF RunnerInv

\* The loop answers its call and changes nothing else.
LEMMA AnswerKeeps ==
  ASSUME RunnerInv, work.stage # "idle", NEW r \in Replies \ {"none"}, NEW n \in Nat, Respond(r, n),
         UNCHANGED <<log, pending, snapshot, gate, queue, runner, trading>>,
         r = "ok" => n \in 1 .. Len(log) /\ log[n] = RecordOf(work.call)
  PROVE  RunnerInv'
<1>1. /\ calls' \in [Calls -> Call] /\ work' = Idle
      /\ \A c \in Calls : CallSound(calls'[c], log')
      /\ LineSound' /\ WorkSound'
  BY RespondKeeps
<1>2. TypeOK'
  BY <1>1 DEF RunnerInv, TypeOK
<1>3. StoreSound'
  BY StoreKept
<1>4. RunnerSound'
  BY <1>1, WorkIs DEF RunnerInv, RunnerSound, Accepts, Stops
<1> QED BY <1>1, <1>2, <1>3, <1>4 DEF RunnerInv

LEMMA FenceKeeps ==
  ASSUME RunnerInv, Fence
  PROVE  RunnerInv'
<1>1. work.stage = "fence" /\ UNCHANGED <<log, pending, snapshot, gate, queue, runner, trading>>
  BY DEF Fence
<1>2. "recovery_in_progress" \in Replies \ {"none", "ok"} /\ "unavailable" \in Replies \ {"none", "ok"}
      /\ "apply" \in Stages
  BY DEF Replies, Stages
<1>3. \/ Respond("recovery_in_progress", 0)
      \/ Respond("unavailable", 0)
      \/ work' = Step(work, "apply") /\ UNCHANGED calls
  BY DEF Fence, Step
<1>4. CASE Respond("recovery_in_progress", 0)
  BY <1>1, <1>2, <1>4, AnswerKeeps
<1>5. CASE Respond("unavailable", 0)
  BY <1>1, <1>2, <1>5, AnswerKeeps
<1>6. CASE work' = Step(work, "apply") /\ UNCHANGED calls
  <2>1. work' \in Works /\ work'.stage = "apply" /\ work'.call = work.call /\ work' # Idle /\ LineSound'
    BY <1>1, <1>2, <1>6, StepKeeps
  <2>2. TypeOK'
    BY <1>1, <1>6, <2>1 DEF RunnerInv, TypeOK, Works
  <2>3. StoreSound' /\ WorkSound'
    BY <1>1, <2>1, StoreKept DEF WorkSound
  <2>4. RunnerSound'
    BY <1>1, <2>1, TakenUp DEF RunnerInv, RunnerSound, Accepts, Stops
  <2>5. \A c \in Calls : CallSound(calls'[c], log')
    BY <1>1, <1>6 DEF RunnerInv
  <2> QED BY <2>1, <2>2, <2>3, <2>4, <2>5 DEF RunnerInv
<1> QED BY <1>3, <1>4, <1>5, <1>6

\* The idempotency cache answers with the record of the same request.
LEMMA CachedAnswer ==
  ASSUME RunnerInv, work.stage # "idle", trading.requests[calls[work.call].key] # None,
         trading.requests[calls[work.call].key].payload = calls[work.call].payload
  PROVE  /\ trading.requests[calls[work.call].key].sequence \in 1 .. Len(log)
         /\ trading.requests[calls[work.call].key].sequence \in Nat
         /\ log[trading.requests[calls[work.call].key].sequence] = RecordOf(work.call)
<1> DEFINE call == calls[work.call]
           previous == trading.requests[call.key]
<1>1. call.key \in Keys /\ RecordOf(work.call) = [key |-> call.key, payload |-> call.payload]
  BY Zenon, TakenUp DEF RecordOf, Record
<1>2. PICK i \in 1 .. Len(trading.applied) : Cites(trading, log, call.key, i)
  BY Zenon, <1>1 DEF RunnerInv, StoreSound, Faithful
<1>3. i \in 1 .. Len(log) /\ i \in Nat /\ log[i] \in Record
  BY SMT, SMTT(30), StateIs DEF RunnerInv, StoreSound, Faithful, TypeOK
<1>4. previous.sequence = i /\ log[i].key = call.key /\ log[i].payload = call.payload
  BY <1>2 DEF Cites
<1>5. log[i] = RecordOf(work.call)
  BY Zenon, <1>1, <1>3, <1>4 DEF Record
<1> QED BY <1>3, <1>4, <1>5

LEMMA ApplyKeeps ==
  ASSUME RunnerInv, Apply
  PROVE  RunnerInv'
<1> DEFINE call == calls[work.call]
           previous == trading.requests[call.key]
<1>1. work.stage = "apply" /\ UNCHANGED <<log, pending, snapshot, gate, queue, runner, trading>>
  BY DEF Apply
<1>2. /\ "canceled" \in Replies \ {"none", "ok"} /\ "idempotency_conflict" \in Replies \ {"none", "ok"}
      /\ "ok" \in Replies \ {"none"} /\ "append" \in Stages
  BY DEF Replies, Stages
<1>3. \/ Respond("canceled", 0)
      \/ Respond("idempotency_conflict", 0)
      \/ previous # None /\ previous.payload = call.payload /\ Respond("ok", previous.sequence)
      \/ previous = None /\ work' = Step(work, "append") /\ UNCHANGED calls
  BY DEF Apply, Step
<1>4. CASE Respond("canceled", 0)
  BY <1>1, <1>2, <1>4, AnswerKeeps
<1>5. CASE Respond("idempotency_conflict", 0)
  BY <1>1, <1>2, <1>5, AnswerKeeps
<1>6. CASE previous # None /\ previous.payload = call.payload /\ Respond("ok", previous.sequence)
  <2>1. previous.sequence \in 1 .. Len(log) /\ previous.sequence \in Nat
        /\ log[previous.sequence] = RecordOf(work.call)
    BY Zenon, <1>1, <1>6, CachedAnswer
  <2> HIDE DEF previous
  <2> QED BY <1>1, <1>2, <1>6, <2>1, AnswerKeeps
<1>7. CASE previous = None /\ work' = Step(work, "append") /\ UNCHANGED calls
  <2>1. work' \in Works /\ work'.stage = "append" /\ work'.call = work.call /\ work' # Idle /\ LineSound'
    BY <1>1, <1>2, <1>7, StepKeeps
  <2>2. TypeOK'
    BY Zenon, <1>1, <1>7, <2>1 DEF RunnerInv, TypeOK, Works
  <2>3. StoreSound' /\ WorkSound'
    BY <1>1, <1>7, <2>1, StoreKept DEF WorkSound
  <2>4. RunnerSound'
    BY <1>1, <2>1, TakenUp DEF RunnerInv, RunnerSound, Accepts, Stops
  <2>5. \A c \in Calls : CallSound(calls'[c], log')
    BY <1>1, <1>7 DEF RunnerInv
  <2> QED BY Zenon, <2>1, <2>2, <2>3, <2>4, <2>5 DEF RunnerInv
<1> QED BY <1>3, <1>4, <1>5, <1>6, <1>7

LEMMA ApplyFailsKeeps ==
  ASSUME RunnerInv, ApplyFails
  PROVE  RunnerInv'
<1>1. "error" \in Replies \ {"none", "ok"}
  BY DEF Replies
<1> QED BY <1>1, AnswerKeeps DEF ApplyFails

LEMMA RespondDoneKeeps ==
  ASSUME RunnerInv, RespondDone
  PROVE  RunnerInv'
<1>1. "ok" \in Replies \ {"none"} /\ Len(trading.applied) \in Nat
  BY StateIs DEF Replies, RunnerInv, TypeOK
<1>2. work.stage = "respond" /\ Respond("ok", Len(trading.applied))
      /\ UNCHANGED <<log, pending, snapshot, gate, queue, runner, trading>>
  BY DEF RespondDone
<1>3. Len(trading.applied) \in 1 .. Len(log) /\ log[Len(trading.applied)] = RecordOf(work.call)
  BY <1>2 DEF RunnerInv, WorkSound
<1> QED BY <1>1, <1>2, <1>3, AnswerKeeps

LEMMA AppendCommitsKeeps ==
  ASSUME RunnerInv, AppendCommits
  PROVE  RunnerInv'
<1> DEFINE r == RecordOf(work.call)
           s == IF Len(log') % SnapshotEvery = 0 THEN "snapshot" ELSE "respond"
<1>1. /\ work.stage = "append" /\ pending = None /\ AppendAllowed
      /\ log' = Append(log, r) /\ trading' = Extended(trading, r) /\ work' = Step(work, s)
      /\ UNCHANGED <<pending, snapshot, gate, calls, queue, runner>>
  BY DEF AppendCommits, Step
<1>2. r \in Record /\ runner.state \notin {"down", "closed"}
  BY <1>1, TakenUp
<1>3. Len(trading.applied) = Len(log) /\ Fresh(r, log)
  BY <1>1, FreshIs DEF AppendAllowed, RecordOf
<1>4. log \in Seq(Record) /\ trading \in ExchangeState /\ snapshot \in ExchangeState
      /\ Faithful(trading, log) /\ Faithful(snapshot, log) /\ Distinct(log)
  BY DEF RunnerInv, TypeOK, StoreSound
<1>5. s \in {"snapshot", "respond"} /\ s \in Stages
  BY DEF Stages
<1> HIDE DEF s
<1>6. work' \in Works /\ work'.stage = s /\ work'.call = work.call /\ work' # Idle /\ LineSound'
  BY <1>1, <1>5, StepKeeps
<1>7. r' = r
  BY <1>1, <1>6 DEF RecordOf
<1> HIDE DEF r
<1>8. log' \in Seq(Record) /\ Len(log') = Len(log) + 1 /\ Len(log) \in Nat /\ log'[Len(log) + 1] = r
  BY <1>1, <1>2, <1>4, AppendedIs
<1>9. trading' \in ExchangeState /\ trading'.applied = Append(trading.applied, r) /\ Faithful(trading', log')
  BY <1>1, <1>2, <1>3, <1>4, ExtendedIs
<1>10. Len(trading'.applied) = Len(log')
  <2>1. Len(trading'.applied) = Len(trading.applied) + 1
    BY <1>2, <1>4, <1>9, AppendedIs, StateIs
  <2> QED BY Zenon, <1>3, <1>8, <2>1
<1>11. TypeOK'
  BY <1>1, <1>6, <1>8, <1>9 DEF RunnerInv, TypeOK, Works
<1>12. StoreSound'
  <2>1. Distinct(log') /\ Faithful(snapshot', log')
    BY <1>1, <1>2, <1>3, <1>4, DistinctGrows, FaithfulGrows
  <2>2. Len(log') - Len(trading'.applied) \in 0 .. 1
    BY <1>8, <1>10
  <2> QED BY <1>1, <1>9, <1>10, <2>1, <2>2 DEF StoreSound
<1>13. \A c \in Calls : CallSound(calls'[c], log')
  BY <1>1, <1>2, <1>4, CallsGrow DEF RunnerInv, TypeOK
<1>14. RunnerSound'
  BY <1>1, <1>2, <1>5, <1>6 DEF RunnerInv, RunnerSound, Accepts, Stops
<1>15. WorkSound'
  <2>1. Len(trading'.applied) \in 1 .. Len(log') /\ log'[Len(trading'.applied)] = r
    BY <1>8, <1>10
  <2> QED BY <1>5, <1>6, <1>7, <2>1 DEF WorkSound, r
<1> QED BY <1>6, <1>11, <1>12, <1>13, <1>14, <1>15 DEF RunnerInv

\* The append's outcome is not known, or it failed: the runner recovers.
LEMMA RecoveryKeeps ==
  ASSUME RunnerInv, work.stage = "append", StartRecovery,
         UNCHANGED <<log, snapshot, gate, calls, queue, trading>>,
         pending' = pending \/ (AppendAllowed /\ pending' = RecordOf(work.call))
  PROVE  RunnerInv'
<1>1. work' = Step(work, "restore") /\ runner' = Recovers(runner) /\ "restore" \in Stages
  BY DEF StartRecovery, Step, Recovers, Stages
<1>2. work' \in Works /\ work'.stage = "restore" /\ work'.call = work.call /\ work' # Idle /\ LineSound'
  BY Zenon, <1>1, StepKeeps
<1>3. runner \in Runners /\ runner.state # "down" /\ RecordOf(work.call) \in Record
  BY TakenUp DEF RunnerInv, TypeOK, Runners
<1>4. runner' \in Runners /\ runner'.state = "recovering" /\ ~Accepts(runner')
  BY Zenon, <1>1, <1>3, RunnerForms, RunnerFields
<1>5. TypeOK'
  BY <1>2, <1>3, <1>4 DEF RunnerInv, TypeOK, Works, Runners
<1>6. StoreSound'
  <2>1. Len(log) \in Nat
    BY DEF RunnerInv, TypeOK
  <2>2. CASE pending' = pending
    BY <1>3, <2>2 DEF RunnerInv, StoreSound
  <2>3. CASE AppendAllowed /\ pending' = RecordOf(work.call)
    <3>1. Fresh(pending', log) /\ Len(log) = Len(trading.applied)
      BY <2>3, FreshIs DEF AppendAllowed, RecordOf
    <3> QED BY <1>3, <3>1 DEF RunnerInv, StoreSound
  <2> QED BY <2>2, <2>3
<1>7. RunnerSound'
  BY <1>4 DEF RunnerSound
<1>8. WorkSound' /\ \A c \in Calls : CallSound(calls'[c], log')
  BY <1>2 DEF WorkSound, RunnerInv
<1> QED BY <1>2, <1>5, <1>6, <1>7, <1>8 DEF RunnerInv

LEMMA PendingLandsKeeps ==
  ASSUME RunnerInv, PendingLands
  PROVE  RunnerInv'
<1>1. pending # None /\ log' = Append(log, pending) /\ pending' = None
      /\ UNCHANGED <<snapshot, gate, calls, queue, runner, trading, work>>
  BY DEF PendingLands
<1>2. log \in Seq(Record) /\ pending \in Record /\ trading \in ExchangeState /\ snapshot \in ExchangeState
      /\ Faithful(trading, log) /\ Faithful(snapshot, log) /\ Distinct(log) /\ Fresh(pending, log)
  BY Zenon, <1>1 DEF RunnerInv, TypeOK, StoreSound
<1>3. log' \in Seq(Record) /\ Len(log') = Len(log) + 1 /\ Len(log) \in Nat
      /\ \A i \in 1 .. Len(log) : log'[i] = log[i]
  BY Zenon, <1>1, <1>2, AppendedIs
<1>4. TypeOK'
  BY <1>1, <1>3 DEF RunnerInv, TypeOK
<1>5. StoreSound'
  <2>1. Distinct(log') /\ Faithful(snapshot', log') /\ Faithful(trading', log')
    BY <1>1, <1>2, DistinctGrows, FaithfulGrows
  <2>2. runner'.state # "down" => Len(log') - Len(trading'.applied) \in 0 .. 1
    BY <1>1, <1>3 DEF RunnerInv, StoreSound
  <2> QED BY <1>1, <2>1, <2>2 DEF StoreSound
<1>6. \A c \in Calls : CallSound(calls'[c], log')
  BY Zenon, <1>1, <1>2, CallsGrow DEF RunnerInv, TypeOK
<1>7. LineSound' /\ RunnerSound'
  BY <1>1 DEF RunnerInv, LineSound, RunnerSound, Accepts, Stops
<1>8. WorkSound'
  <2>1. Len(trading.applied) \in 1 .. Len(log) =>
          Len(trading.applied) \in 1 .. Len(log') /\ log'[Len(trading.applied)] = log[Len(trading.applied)]
    BY <1>3
  <2> QED BY <1>1, <2>1 DEF RunnerInv, WorkSound, RecordOf
<1> QED BY <1>4, <1>5, <1>6, <1>7, <1>8 DEF RunnerInv

LEMMA PendingAbortsKeeps ==
  ASSUME RunnerInv, PendingAborts
  PROVE  RunnerInv'
<1>1. pending' = None /\ UNCHANGED <<log, snapshot, gate, calls, queue, runner, trading, work>>
  BY DEF PendingAborts
<1>2. TypeOK' /\ StoreSound'
  BY Zenon, <1>1 DEF RunnerInv, TypeOK, StoreSound
<1>3. LineSound' /\ RunnerSound' /\ WorkSound' /\ \A c \in Calls : CallSound(calls'[c], log')
  BY <1>1 DEF RunnerInv, LineSound, RunnerSound, Accepts, Stops, WorkSound, RecordOf
<1> QED BY <1>2, <1>3 DEF RunnerInv

LEMMA SavedKeeps ==
  ASSUME RunnerInv, snapshot' \in {snapshot, Saved}, UNCHANGED <<log, pending, trading>>,
         runner'.state # "down" => runner.state # "down"
  PROVE  snapshot' \in ExchangeState /\ StoreSound'
<1>1. snapshot' = snapshot \/ snapshot' = trading
  BY DEF Saved
<1>2. snapshot' \in ExchangeState /\ Faithful(snapshot', log)
  BY <1>1 DEF RunnerInv, TypeOK, StoreSound
<1> QED BY <1>2 DEF RunnerInv, StoreSound

LEMMA PeriodicSnapshotKeeps ==
  ASSUME RunnerInv, PeriodicSnapshot
  PROVE  RunnerInv'
<1>1. /\ work.stage = "snapshot" /\ work' = Step(work, "respond") /\ "respond" \in Stages
      /\ snapshot' \in {snapshot, Saved}
      /\ UNCHANGED <<log, pending, gate, calls, queue, runner, trading>>
  BY DEF PeriodicSnapshot, Step, Stages
<1>2. work' \in Works /\ work'.stage = "respond" /\ work'.call = work.call /\ work' # Idle /\ LineSound'
  BY <1>1, StepKeeps
<1>3. snapshot' \in ExchangeState /\ StoreSound'
  BY <1>1, SavedKeeps
<1>4. TypeOK'
  BY Zenon, <1>1, <1>2, <1>3 DEF RunnerInv, TypeOK, Works
<1>5. RunnerSound'
  BY Zenon, <1>1, <1>2, TakenUp DEF RunnerInv, RunnerSound, Accepts, Stops
<1>6. WorkSound' /\ \A c \in Calls : CallSound(calls'[c], log')
  BY <1>1, <1>2 DEF RunnerInv, WorkSound, RecordOf
<1> QED BY <1>2, <1>3, <1>4, <1>5, <1>6 DEF RunnerInv

-----------------------------------------------------------------------------
(* Restore, close, crash *)

LEMMA RestoreSucceedsKeeps ==
  ASSUME RunnerInv, RestoreSucceeds
  PROVE  RunnerInv'
<1>1. /\ work.stage = "restore" /\ trading' = Restored /\ Respond("persistence_error", 0)
      /\ "persistence_error" \in Replies \ {"none", "ok"}
      /\ UNCHANGED <<log, pending, snapshot, gate, queue>>
  BY DEF RestoreSucceeds, Replies
<1>2. (Stops(runner) /\ runner' = Closes(runner)) \/ (~Stops(runner) /\ runner' = Reopens(runner))
  BY DEF RestoreSucceeds, Stops, Closes, Reopens
<1>3. /\ calls' \in [Calls -> Call] /\ work' = Idle
      /\ \A c \in Calls : CallSound(calls'[c], log')
      /\ LineSound' /\ WorkSound'
  BY Zenon, <1>1, RespondKeeps
<1>4. runner \in Runners /\ runner.state # "down"
  BY <1>1, TakenUp DEF RunnerInv, TypeOK, Runners
<1>5. runner' \in Runners /\ runner'.state \in {"closing", "ready"}
  <2>1. Closes(runner) \in Runners /\ Closes(runner).state = "closing"
        /\ Reopens(runner) \in Runners /\ Reopens(runner).state = "ready"
    BY <1>4, RunnerForms, RunnerFields
  <2> QED BY <1>2, <2>1
<1>6. trading' \in ExchangeState /\ trading'.applied = log /\ Faithful(trading', log)
  BY <1>1, RestoredIs DEF RunnerInv, TypeOK, StoreSound
<1>7. TypeOK'
  BY <1>1, <1>3, <1>5, <1>6 DEF RunnerInv, TypeOK, Runners
<1>8. StoreSound'
  <2>1. Len(log) - Len(trading'.applied) \in 0 .. 1 /\ Len(log) = Len(trading'.applied)
    BY <1>6 DEF RunnerInv, TypeOK
  <2> QED BY <1>1, <1>6, <2>1 DEF RunnerInv, StoreSound
<1>9. RunnerSound'
  <2>1. Accepts(runner') => runner'.state = "ready" /\ ~Stops(runner')
    BY <1>2, <1>4, RunnerFields DEF RunnerInv, RunnerSound
  <2> QED BY Zenon, <1>3, <1>5, <2>1, WorkIs DEF RunnerSound
<1> QED BY <1>3, <1>7, <1>8, <1>9 DEF RunnerInv

LEMMA RestoreFailsKeeps ==
  ASSUME RunnerInv, RestoreFails
  PROVE  RunnerInv'
<1>1. /\ work.stage = "restore" /\ runner' = Breaks(runner) /\ Respond("persistence_error", 0)
      /\ "persistence_error" \in Replies \ {"none", "ok"}
      /\ UNCHANGED <<log, pending, snapshot, gate, queue, trading>>
  BY DEF RestoreFails, Replies, Breaks
<1>2. /\ calls' \in [Calls -> Call] /\ work' = Idle
      /\ \A c \in Calls : CallSound(calls'[c], log')
      /\ LineSound' /\ WorkSound'
  BY <1>1, RespondKeeps
<1>3. runner \in Runners /\ runner.state # "down"
  BY Zenon, <1>1, TakenUp DEF RunnerInv, TypeOK, Runners
<1>4. runner' \in Runners /\ runner'.state = "failed" /\ (Accepts(runner') <=> Accepts(runner))
  BY Zenon, <1>1, <1>3, RunnerForms, RunnerFields
<1>5. TypeOK'
  BY <1>1, <1>2, <1>4 DEF RunnerInv, TypeOK, Runners
<1>6. StoreSound'
  BY <1>1, <1>3, StoreKept
<1>7. RunnerSound'
  BY Zenon, <1>1, <1>2, <1>4, WorkIs DEF RunnerInv, RunnerSound
<1> QED BY <1>2, <1>5, <1>6, <1>7 DEF RunnerInv

LEMMA CloseKeeps ==
  ASSUME RunnerInv, Close
  PROVE  RunnerInv'
<1>1. runner.state \in {"ready", "recovering", "failed"} /\ runner' = Halts(runner)
      /\ UNCHANGED <<log, pending, snapshot, gate, calls, queue, trading, work>>
  BY DEF Close, Halts
<1>2. runner' \in Runners /\ runner'.state = "closing" /\ ~Accepts(runner')
  BY <1>1, RunnerForms, RunnerFields DEF RunnerInv, TypeOK, Runners
<1>3. TypeOK'
  BY <1>1, <1>2 DEF RunnerInv, TypeOK, Runners
<1>4. StoreSound'
  BY <1>1, StoreKept
<1>5. RunnerSound'
  BY Zenon, <1>2 DEF RunnerSound
<1>6. LineSound' /\ WorkSound' /\ \A c \in Calls : CallSound(calls'[c], log')
  BY <1>1 DEF RunnerInv, LineSound, WorkSound, RecordOf
<1> QED BY <1>3, <1>4, <1>5, <1>6 DEF RunnerInv

LEMMA DrainedKeeps ==
  ASSUME RunnerInv, Drained
  PROVE  RunnerInv'
<1>1. /\ Stops(runner) /\ work = Idle /\ queue = <<>> /\ runner' = Ends(runner)
      /\ snapshot' \in {snapshot, Saved}
      /\ UNCHANGED <<log, pending, gate, calls, queue, trading, work>>
  BY Zenon DEF Drained, Stops, Ends
<1>2. runner' \in Runners /\ runner'.state = "closed" /\ (Accepts(runner') <=> Accepts(runner))
  BY Zenon, <1>1, RunnerForms, RunnerFields DEF RunnerInv, TypeOK, Runners
<1>3. runner.state # "down" /\ ~Accepts(runner)
  BY <1>1 DEF RunnerInv, RunnerSound
<1>4. snapshot' \in ExchangeState /\ StoreSound'
  BY <1>1, <1>3, SavedKeeps
<1>5. TypeOK'
  BY <1>1, <1>2, <1>4 DEF RunnerInv, TypeOK, Runners
<1>6. RunnerSound'
  BY Zenon, <1>1, <1>2, <1>3 DEF RunnerSound
<1>7. LineSound' /\ WorkSound' /\ \A c \in Calls : CallSound(calls'[c], log')
  BY <1>1 DEF RunnerInv, LineSound, WorkSound, RecordOf
<1> QED BY <1>4, <1>5, <1>6, <1>7 DEF RunnerInv

LEMMA CrashKeeps ==
  ASSUME RunnerInv, Crash
  PROVE  RunnerInv'
<1>1. /\ runner.state # "down" /\ runner' = Dies(runner)
      /\ queue' = <<>> /\ work' = Idle /\ trading' = NewExchange /\ UNCHANGED <<log, snapshot, gate>>
      /\ calls' = [c \in Calls |-> IF calls[c].stage \in {"admitted", "queued"}
                                     THEN Staged(calls[c], "gone") ELSE calls[c]]
  BY DEF Crash, Dies, Staged
<1>2. pending' = pending \/ (work.stage = "append" /\ AppendAllowed /\ pending' = RecordOf(work.call))
  BY Zenon DEF Crash
<1>3. runner' \in Runners /\ runner'.state = "down" /\ ~Accepts(runner') /\ ~Stops(runner')
  BY <1>1, RunnerForms, RunnerFields DEF RunnerInv, TypeOK, Runners
<1>4. trading' \in ExchangeState /\ Faithful(trading', log)
  BY <1>1, NewExchangeIs DEF RunnerInv, TypeOK
<1>5. pending' \in Record \cup {None} /\ (pending' # None => Fresh(pending', log))
  <2>1. CASE pending' = pending
    BY Zenon, <2>1 DEF RunnerInv, TypeOK, StoreSound
  <2>2. CASE work.stage = "append" /\ AppendAllowed /\ pending' = RecordOf(work.call)
    BY Zenon, <2>2, TakenUp, FreshIs DEF AppendAllowed, RecordOf
  <2> QED BY <1>2, <2>1, <2>2
<1>6. calls' \in [Calls -> Call]
      /\ \A c \in Calls : CallSound(calls'[c], log') /\ calls'[c].stage # "queued"
  <2>1. ASSUME NEW c \in Calls
        PROVE  calls'[c] \in Call /\ CallSound(calls'[c], log) /\ calls'[c].stage # "queued"
    <3>1. calls[c] \in Call /\ CallSound(calls[c], log)
      BY Zenon DEF RunnerInv, TypeOK
    <3>2. CASE calls[c].stage \in {"admitted", "queued"}
      <4>1. calls'[c] = Staged(calls[c], "gone")
        BY Zenon, <1>1, <3>2
      <4>2. /\ calls'[c] \in Call /\ calls'[c].stage = "gone" /\ calls'[c].key = calls[c].key
            /\ calls'[c].payload = calls[c].payload /\ calls'[c].reply = calls[c].reply
            /\ calls'[c].sequence = calls[c].sequence
        BY <3>1, <4>1, StagedIs
      <4> QED BY <3>1, <3>2, <4>2 DEF CallSound
    <3>3. CASE calls[c].stage \notin {"admitted", "queued"}
      BY <1>1, <3>1, <3>3
    <3> QED BY <3>2, <3>3
  <2> QED BY <1>1, <2>1
<1>7. TypeOK'
  <2>1. queue' \in Seq(Calls) /\ Len(queue') <= QueueSize
    BY <1>1, RunnerAssumption
  <2> QED BY <1>1, <1>3, <1>4, <1>5, <1>6, <2>1 DEF RunnerInv, TypeOK, Runners
<1>8. StoreSound'
  BY Zenon, <1>1, <1>3, <1>4, <1>5 DEF RunnerInv, StoreSound
<1>9. LineSound' /\ WorkSound'
  <2>1. Len(queue') = 0 /\ work' = Idle /\ work'.stage = "idle"
    BY <1>1, WorkIs
  <2>2. WorkSound'
    BY <2>1 DEF WorkSound
  <2>3. LineSound'
    BY <1>6, <2>1 DEF LineSound
  <2> QED BY <2>2, <2>3
<1>10. RunnerSound'
  BY <1>1, <1>3, WorkIs DEF RunnerSound
<1> QED BY <1>6, <1>7, <1>8, <1>9, <1>10 DEF RunnerInv

LEMMA StartKeeps ==
  ASSUME RunnerInv, Start
  PROVE  RunnerInv'
<1> DEFINE r == [state |-> "ready", accepting |-> TRUE, stopped |-> FALSE, starts |-> runner.starts + 1]
<1>1. /\ runner.state = "down" /\ runner.starts < MaxStarts /\ trading' = Restored /\ runner' = r
      /\ UNCHANGED <<log, pending, snapshot, gate, calls, queue, work>>
  BY DEF Start
<1>2. r \in Runners /\ r.state = "ready" /\ ~Stops(r)
  <2>1. runner.starts \in 0 .. MaxStarts
    BY DEF RunnerInv, TypeOK
  <2>2. runner.starts + 1 \in 0 .. MaxStarts
    BY <1>1, <2>1, RunnerAssumption
  <2> QED BY <2>2 DEF Runners, Stops
<1> HIDE DEF r
<1>3. trading' \in ExchangeState /\ trading'.applied = log /\ Faithful(trading', log)
  BY <1>1, RestoredIs DEF RunnerInv, TypeOK, StoreSound
<1>4. work = Idle /\ queue = <<>>
  BY <1>1 DEF RunnerInv, RunnerSound
<1>5. TypeOK'
  BY <1>1, <1>2, <1>3 DEF RunnerInv, TypeOK, Runners
<1>6. StoreSound'
  <2>1. Len(log) - Len(trading'.applied) \in 0 .. 1 /\ Len(log) = Len(trading'.applied)
    BY <1>3 DEF RunnerInv, TypeOK
  <2> QED BY Zenon, <1>1, <1>3, <2>1 DEF RunnerInv, StoreSound
<1>7. RunnerSound'
  BY Zenon, <1>1, <1>2, <1>4, WorkIs DEF RunnerSound
<1>8. LineSound' /\ WorkSound' /\ \A c \in Calls : CallSound(calls'[c], log')
  BY <1>1, <1>4, WorkIs DEF RunnerInv, LineSound, WorkSound
<1> QED BY <1>5, <1>6, <1>7, <1>8 DEF RunnerInv

LEMMA GateKeeps ==
  ASSUME RunnerInv, MoveGate \/ BlockGate
  PROVE  RunnerInv'
<1>1. UNCHANGED <<log, pending, snapshot, calls, queue, runner, trading, work>>
  BY DEF MoveGate, BlockGate
<1>2. gate \in [authorized: SUBSET Keys, version: 0..MaxVersion]
  BY DEF RunnerInv, TypeOK
<1>3. gate' \in [authorized: SUBSET Keys, version: 0..MaxVersion]
  BY <1>2, RunnerAssumption DEF MoveGate, BlockGate
<1>4. TypeOK'
  BY <1>1, <1>3 DEF RunnerInv, TypeOK
<1>5. StoreSound'
  BY Zenon, <1>1, StoreKept
<1>6. LineSound' /\ RunnerSound' /\ WorkSound' /\ \A c \in Calls : CallSound(calls'[c], log')
  BY <1>1 DEF RunnerInv, LineSound, RunnerSound, Accepts, Stops, WorkSound, RecordOf
<1> QED BY <1>4, <1>5, <1>6 DEF RunnerInv

-----------------------------------------------------------------------------
(* The invariant *)

LEMMA RunnerStarts == Init => RunnerInv
<1> SUFFICES ASSUME Init PROVE RunnerInv
  OBVIOUS
<1>1. /\ log = <<>> /\ pending = None /\ snapshot = NewExchange /\ trading = NewExchange
      /\ calls = [c \in Calls |-> NewCall] /\ queue = <<>> /\ work = Idle
      /\ gate = [authorized |-> Keys, version |-> 0]
      /\ runner = [state |-> "down", accepting |-> FALSE, stopped |-> FALSE, starts |-> 0]
  BY DEF Init
<1>2. NewCall \in Call /\ NewCall.stage = "new" /\ NewCall.reply = "none"
  BY RunnerAssumption DEF NewCall, Call
<1>3. \A c \in Calls : calls[c] = NewCall
  BY <1>1
<1>4. log \in Seq(Record) /\ Len(log) = 0 /\ queue \in Seq(Calls) /\ Len(queue) = 0
  BY <1>1
<1>5. snapshot \in ExchangeState /\ Faithful(snapshot, log) /\ trading = snapshot
  BY Zenon, <1>1, <1>4, NewExchangeIs
<1>6. runner.state = "down" /\ ~Accepts(runner) /\ ~Stops(runner)
      /\ runner \in [state: {"down", "ready", "recovering", "failed", "closing", "closed"},
                     accepting: BOOLEAN, stopped: BOOLEAN, starts: 0..MaxStarts]
  BY <1>1, RunnerAssumption DEF Accepts, Stops
<1>7. gate \in [authorized: SUBSET Keys, version: 0..MaxVersion] /\ Len(queue) <= QueueSize
  BY SMT, SMTT(30), <1>1, <1>4, RunnerAssumption
<1>8. TypeOK
  BY Zenon, <1>1, <1>2, <1>4, <1>5, <1>6, <1>7 DEF TypeOK
<1>9. StoreSound
  BY SMT, SMTT(30), <1>1, <1>4, <1>5, <1>6 DEF StoreSound, Distinct
<1>10. LineSound /\ WorkSound /\ \A c \in Calls : CallSound(calls[c], log)
  BY SMT, SMTT(30), <1>1, <1>2, <1>3, <1>4, WorkIs DEF LineSound, WorkSound, CallSound
<1>11. RunnerSound
  BY <1>1, <1>6, WorkIs DEF RunnerSound
<1> QED BY <1>8, <1>9, <1>10, <1>11 DEF RunnerInv

LEMMA RunnerStep == RunnerInv /\ [Next]_vars => RunnerInv'
<1> SUFFICES ASSUME RunnerInv, [Next]_vars PROVE RunnerInv'
  OBVIOUS
<1>1. CASE \E c \in Calls, k \in Keys, p \in Payloads : Admit(c, k, p)
  BY <1>1, AdmitKeeps
<1>2. CASE \E c \in Calls : Enqueue(c) \/ TimeOut(c)
  BY <1>2, EnqueueKeeps, TimeOutKeeps
<1>3. CASE Loop
  <2>1. CASE Take \/ Fence \/ Apply \/ ApplyFails \/ AppendCommits
    BY <2>1, TakeKeeps, FenceKeeps, ApplyKeeps, ApplyFailsKeeps, AppendCommitsKeeps
  <2>2. CASE AppendFails \/ AppendUnknown
    BY <2>2, RecoveryKeeps DEF AppendFails, AppendUnknown
  <2>3. CASE PeriodicSnapshot \/ RespondDone \/ RestoreSucceeds \/ RestoreFails \/ Drained
    BY <2>3, PeriodicSnapshotKeeps, RespondDoneKeeps, RestoreSucceedsKeeps, RestoreFailsKeeps, DrainedKeeps
  <2> QED BY <1>3, <2>1, <2>2, <2>3 DEF Loop
<1>4. CASE PendingLands \/ PendingAborts
  BY <1>4, PendingLandsKeeps, PendingAbortsKeeps
<1>5. CASE Close \/ Crash \/ Start \/ MoveGate \/ BlockGate
  BY Zenon, <1>5, CloseKeeps, CrashKeeps, StartKeeps, GateKeeps
<1>6. CASE UNCHANGED vars
  <2>1. UNCHANGED <<log, pending, snapshot, gate, calls, queue, runner, trading, work>>
    BY <1>6 DEF vars
  <2>2. TypeOK'
    BY <2>1 DEF RunnerInv, TypeOK
  <2>3. StoreSound'
    BY Zenon, <2>1, StoreKept
  <2>4. LineSound' /\ WorkSound' /\ \A c \in Calls : CallSound(calls'[c], log')
    BY <2>1 DEF RunnerInv, LineSound, WorkSound, RecordOf
  <2>5. RunnerSound'
    BY <2>1 DEF RunnerInv, RunnerSound, Accepts, Stops
  <2> QED BY <2>2, <2>3, <2>4, <2>5 DEF RunnerInv
<1> QED BY <1>1, <1>2, <1>3, <1>4, <1>5, <1>6 DEF Next

-----------------------------------------------------------------------------
(* What the callers see *)

LEMMA AnswerIs ==
  ASSUME RunnerInv, NEW a \in Answers
  PROVE  a.sequence \in 1 .. Len(log) /\ a = Promise!AnswerAt(log, a.sequence)
<1>1. PICK c \in Calls : calls[c].reply = "ok" /\ a = [record |-> RecordOf(c), sequence |-> calls[c].sequence]
  BY DEF Answers
<1>2. CallSound(calls[c], log)
  BY Zenon DEF RunnerInv
<1>3. calls[c].sequence \in 1 .. Len(log) /\ log[calls[c].sequence] = RecordOf(c)
  BY Zenon, <1>1, <1>2 DEF CallSound, RecordOf
<1> QED BY Zenon, <1>1, <1>3 DEF Promise!AnswerAt

LEMMA RunnerMeans == RunnerInv => MemoryFollowsLog
<1> SUFFICES ASSUME RunnerInv PROVE MemoryFollowsLog
  BY Zenon
<1>1. runner.state # "down" =>
        /\ Len(log) - Len(trading.applied) \in 0..1
        /\ \A i \in 1..Len(trading.applied) : trading.applied[i] = log[i]
  BY Zenon DEF RunnerInv, StoreSound, Faithful
<1>2. work.stage = "append" /\ Len(log) = Len(trading.applied) =>
        calls[work.call].key \notin KeysOf(log) \ SystemKeys
  <2> SUFFICES ASSUME work.stage = "append", Len(log) = Len(trading.applied),
                      NEW i \in 1 .. Len(log), log[i].key = calls[work.call].key,
                      log[i].key \notin SystemKeys
               PROVE  FALSE
    BY DEF KeysOf
  <2>1. trading.requests[log[i].key] = None
    BY Zenon DEF RunnerInv, WorkSound
  <2>2. trading.requests[log[i].key] = [payload |-> log[i].payload, sequence |-> i]
    BY DEF RunnerInv, StoreSound, Faithful
  <2>3. log[i].payload \in Payloads /\ i \in Nat
    BY RecordIs DEF RunnerInv, TypeOK
  <2> QED BY SMT, SMTT(30), <2>1, <2>2, <2>3, RunnerAssumption DEF Cached
<1>3. runner.state = "closed" => queue = <<>> /\ \A c \in Calls : calls[c].stage # "queued"
  <2> SUFFICES ASSUME runner.state = "closed"
               PROVE  queue = <<>> /\ \A c \in Calls : calls[c].stage # "queued"
    OBVIOUS
  <2>1. queue = <<>> /\ work = Idle
    BY DEF RunnerInv, RunnerSound
  <2>2. Len(queue) = 0 /\ \A c \in Calls : c # work.call
    BY Zenon, <2>1, WorkIs
  <2>3. \A c \in Calls : calls[c].stage # "queued"
    BY <2>2 DEF RunnerInv, LineSound
  <2> QED BY <2>1, <2>3
<1>4. Promise!AnswersAgree
  <2> SUFFICES ASSUME NEW a \in Answers, NEW b \in Answers, a.record.key = b.record.key
               PROVE  a = b
    BY DEF Promise!AnswersAgree
  <2>1. a.sequence \in 1 .. Len(log) /\ a = Promise!AnswerAt(log, a.sequence)
        /\ b.sequence \in 1 .. Len(log) /\ b = Promise!AnswerAt(log, b.sequence)
    BY AnswerIs
  <2>2. a.record = log[a.sequence] /\ b.record = log[b.sequence]
    BY SMT, SMTT(30), <2>1 DEF Promise!AnswerAt
  <2>3. a.sequence = b.sequence
    BY Zenon, <2>1, <2>2 DEF RunnerInv, StoreSound, Distinct
  <2> QED BY <2>1, <2>3
<1> QED BY <1>1, <1>2, <1>3, <1>4 DEF MemoryFollowsLog

\* What one step does to the successful answers: nothing, or it adds the record
\* of the request in the hands of the loop.
Keeps(c) ==
  /\ calls'[c].reply = "ok" <=> calls[c].reply = "ok"
  /\ calls[c].reply = "ok" => calls'[c] = calls[c]

Grants(n) ==
  /\ n \in 1 .. Len(log) /\ log[n] = RecordOf(work.call)
  /\ Respond("ok", n) /\ calls[work.call].stage # "gone"

LEMMA NothingGranted ==
  ASSUME \A c \in Calls : Keeps(c)
  PROVE  Answers' = Answers
BY Zenon DEF Keeps, Answers, RecordOf

LEMMA OneGranted ==
  ASSUME RunnerInv, work.stage # "idle", NEW n, Grants(n)
  PROVE  Answers' = Answers \cup {Promise!AnswerAt(log, n)}
<1> DEFINE c == work.call
           k == Replied(calls[c], "ok", n)
<1>1. c \in Calls /\ calls[c] \in Call /\ calls[c].reply = "none"
  BY Zenon, TakenUp
<1>2. Changes(c, k)
  BY <1>1, Answers1 DEF RunnerInv, Grants, Respond
<1>3. n \in Nat /\ "ok" \in Replies
  BY DEF Grants, Replies, RunnerInv, TypeOK
<1>4. k \in Call /\ k.key = calls[c].key /\ k.payload = calls[c].payload
      /\ k.reply = "ok" /\ k.sequence = n
  BY SMT, SMTT(30), <1>1, <1>3, AnsweredIs
<1> HIDE DEF k
<1>5. calls'[c] = k /\ \A d \in Calls : d # c => calls'[d] = calls[d]
  BY Zenon, <1>1, <1>2, <1>4, ChangesAre DEF RunnerInv
<1>6. Promise!AnswerAt(log, n) = [record |-> [key |-> k.key, payload |-> k.payload], sequence |-> k.sequence]
  BY Zenon, <1>4 DEF Promise!AnswerAt, Grants, RecordOf
<1> HIDE DEF c
<1> DEFINE Said(d) == [record |-> [key |-> calls[d].key, payload |-> calls[d].payload],
                       sequence |-> calls[d].sequence]
           Says(d) == [record |-> [key |-> calls'[d].key, payload |-> calls'[d].payload],
                       sequence |-> calls'[d].sequence]
<1>7. \A d \in Calls : /\ calls'[d].reply = "ok" <=> d = c \/ calls[d].reply = "ok"
                       /\ d # c => Says(d) = Said(d)
  BY Zenon, <1>4, <1>5
<1>8. c \in Calls /\ calls[c].reply # "ok" /\ Says(c) = Promise!AnswerAt(log, n)
  BY Zenon, <1>1, <1>5, <1>6 DEF c
<1>9. Answers = {Said(d) : d \in {e \in Calls : calls[e].reply = "ok"}}
      /\ Answers' = {Says(d) : d \in {e \in Calls : calls'[e].reply = "ok"}}
  BY DEF Answers, RecordOf
<1> HIDE DEF Said, Says
<1> QED BY Zenon, <1>7, <1>8, <1>9

\* An answer of the loop.
LEMMA AnswerGrants ==
  ASSUME RunnerInv, work.stage # "idle", NEW r \in Replies, NEW n \in Nat, Respond(r, n),
         r = "ok" => n \in 1 .. Len(log) /\ log[n] = RecordOf(work.call)
  PROVE  (\A c \in Calls : Keeps(c)) \/ Grants(n)
<1> DEFINE c == work.call
           k == Replied(calls[c], r, n)
<1>1. c \in Calls /\ calls[c] \in Call /\ calls[c].reply = "none"
  BY Zenon, TakenUp
<1>2. IF calls[c].stage = "gone" THEN calls' = calls ELSE Changes(c, k)
  BY Zenon, <1>1, Answers1 DEF RunnerInv, Respond
<1>3. CASE calls[c].stage = "gone"
  BY <1>2, <1>3 DEF Keeps
<1>4. CASE calls[c].stage # "gone" /\ r = "ok"
  BY <1>4 DEF Grants
<1>5. CASE calls[c].stage # "gone" /\ r # "ok"
  <2>1. k \in Call /\ k.reply = r
    BY <1>1, AnsweredIs
  <2> HIDE DEF k
  <2>2. calls'[c] = k /\ \A d \in Calls : d # c => calls'[d] = calls[d]
    BY <1>1, <1>2, <1>5, <2>1, ChangesAre DEF RunnerInv
  <2> QED BY <1>1, <1>5, <2>1, <2>2 DEF Keeps
<1> QED BY Zenon, <1>3, <1>4, <1>5

LEMMA LoopGrants ==
  ASSUME RunnerInv, Loop
  PROVE  \/ \A c \in Calls : Keeps(c)
         \/ work.stage # "idle" /\ UNCHANGED log /\ \E n \in Nat : Grants(n)
<1>1. CASE UNCHANGED calls
  BY <1>1 DEF Keeps
<1>2. ASSUME NEW r \in Replies, r # "ok", Respond(r, 0), work.stage # "idle"
      PROVE  \A c \in Calls : Keeps(c)
  <2>1. ~Grants(0)
    BY DEF Grants
  <2> QED BY <1>2, <2>1, AnswerGrants
<1>3. /\ \A r \in {"recovery_in_progress", "unavailable", "canceled", "idempotency_conflict", "error",
                   "persistence_error"} : r \in Replies /\ r # "ok"
      /\ "ok" \in Replies
  BY DEF Replies
<1>4. CASE Fence
  <2>1. work.stage # "idle"
        /\ (Respond("recovery_in_progress", 0) \/ Respond("unavailable", 0) \/ UNCHANGED calls)
    BY Zenon, <1>4 DEF Fence
  <2> QED BY <1>1, <1>2, <1>3, <2>1
<1>5. CASE Apply
  <2> DEFINE call == calls[work.call]
             previous == trading.requests[call.key]
  <2>1. work.stage # "idle" /\ UNCHANGED log
        /\ \/ Respond("canceled", 0) \/ Respond("idempotency_conflict", 0) \/ UNCHANGED calls
           \/ previous # None /\ previous.payload = call.payload /\ Respond("ok", previous.sequence)
    BY Zenon, <1>5 DEF Apply
  <2>2. CASE Respond("canceled", 0) \/ Respond("idempotency_conflict", 0) \/ UNCHANGED calls
    BY <1>1, <1>2, <1>3, <2>1, <2>2
  <2>3. CASE previous # None /\ previous.payload = call.payload /\ Respond("ok", previous.sequence)
    <3>1. previous.sequence \in 1 .. Len(log) /\ previous.sequence \in Nat
          /\ log[previous.sequence] = RecordOf(work.call)
      BY Zenon, <2>1, <2>3, CachedAnswer
    <3> HIDE DEF previous
    <3> QED BY <1>3, <2>1, <2>3, <3>1, AnswerGrants
  <2> QED BY <2>1, <2>2, <2>3
<1>6. CASE ApplyFails
  BY <1>2, <1>3, <1>6 DEF ApplyFails
<1>7. CASE RestoreSucceeds \/ RestoreFails
  BY <1>2, <1>3, <1>7 DEF RestoreSucceeds, RestoreFails
<1>8. CASE RespondDone
  <2>1. work.stage = "respond" /\ UNCHANGED log /\ Respond("ok", Len(trading.applied))
    BY Zenon, <1>8 DEF RespondDone
  <2>2. Len(trading.applied) \in 1 .. Len(log) /\ log[Len(trading.applied)] = RecordOf(work.call)
        /\ Len(trading.applied) \in Nat
    BY <2>1, StateIs DEF RunnerInv, TypeOK, WorkSound
  <2> QED BY <1>3, <2>1, <2>2, AnswerGrants
<1>9. CASE Take \/ AppendCommits \/ AppendFails \/ AppendUnknown \/ PeriodicSnapshot \/ Drained
  BY <1>1, <1>9 DEF Take, AppendCommits, AppendFails, AppendUnknown, PeriodicSnapshot, Drained
<1> QED BY <1>4, <1>5, <1>6, <1>7, <1>8, <1>9 DEF Loop

LEMMA CallersGetNothing ==
  ASSUME RunnerInv, NEW c \in Calls,
         (\E k \in Keys, p \in Payloads : Admit(c, k, p)) \/ Enqueue(c) \/ TimeOut(c)
  PROVE  \A d \in Calls : Keeps(d)
<1>1. calls[c] \in Call /\ calls \in [Calls -> Call] /\ CallSound(calls[c], log)
  BY DEF RunnerInv, TypeOK
<1>2. calls[c].reply = "none"
  BY Zenon, <1>1 DEF CallSound, Admit, Enqueue, TimeOut
<1>3. ASSUME NEW k \in Call, Changes(c, k), k.reply # "ok"
      PROVE  \A d \in Calls : Keeps(d)
  <2>1. calls'[c] = k /\ \A d \in Calls : d # c => calls'[d] = calls[d]
    BY <1>3, ChangesAre DEF RunnerInv
  <2> QED BY Zenon, <1>2, <1>3, <2>1 DEF Keeps
<1>4. CASE TimeOut(c)
  <2>1. Changes(c, Staged(calls[c], "gone"))
    BY <1>4 DEF TimeOut, Changes, Staged
  <2> QED BY <1>1, <1>2, <1>3, <2>1, StagedIs
<1>5. CASE Enqueue(c)
  <2>1. ASSUME NEW r \in Replies, r # "ok", calls' = Returned(c, r, 0)
        PROVE  \A d \in Calls : Keeps(d)
    <3>1. calls[c].stage = "admitted"
      BY Zenon, <1>5 DEF Enqueue
    <3>2. Changes(c, Replied(calls[c], r, 0))
      BY <2>1, <3>1, Answers1 DEF RunnerInv
    <3> QED BY <1>1, <1>3, <2>1, <3>2, AnsweredIs
  <2>2. \A r \in {"closed", "unavailable", "queue_full"} : r \in Replies /\ r # "ok"
    BY DEF Replies
  <2>3. \/ calls' = Returned(c, "closed", 0) \/ calls' = Returned(c, "unavailable", 0)
        \/ calls' = Returned(c, "queue_full", 0) \/ Changes(c, Staged(calls[c], "queued"))
    BY <1>5 DEF Enqueue, Changes, Staged
  <2>4. CASE Changes(c, Staged(calls[c], "queued"))
    BY <1>1, <1>2, <1>3, <2>4, StagedIs
  <2> QED BY <2>1, <2>2, <2>3, <2>4
<1>6. ASSUME NEW x \in Keys, NEW p \in Payloads, Admit(c, x, p)
      PROVE  \A d \in Calls : Keeps(d)
  <2> DEFINE y == [NewCall EXCEPT !.stage = "admitted", !.key = x, !.payload = p, !.version = gate.version]
             z == [NewCall EXCEPT !.stage = "returned", !.key = x, !.payload = p, !.reply = "recovery_in_progress"]
  <2>1. gate.version \in 0 .. MaxVersion /\ 0 \in 0 .. MaxVersion
    BY RunnerAssumption DEF RunnerInv, TypeOK
  <2>2. y \in Call /\ y.reply = "none" /\ z \in Call /\ z.reply = "recovery_in_progress"
    BY Zenon, <2>1 DEF NewCall, Call
  <2>3. Changes(c, y) \/ Changes(c, z)
    BY Zenon, <1>6 DEF Admit, Changes
  <2> HIDE DEF y, z
  <2> QED BY <1>3, <2>2, <2>3
<1> QED BY <1>4, <1>5, <1>6

\* One step of the runner is a step of RequestLog, or none.
LEMMA RunnerAnswers == RunnerInv /\ [Next]_vars => [Promise!Next]_<<log, Answers>>
<1> SUFFICES ASSUME RunnerInv, [Next]_vars
             PROVE  \/ \E r \in Record : Promise!Commit(r)
                    \/ \E i \in 1 .. Len(log) : Promise!Answer(i)
                    \/ UNCHANGED <<log, Answers>>
  BY DEF Promise!Next, Promise!Record, Record
<1>1. CASE UNCHANGED calls /\ UNCHANGED log
  BY <1>1 DEF Answers, RecordOf
<1>2. ASSUME NEW r \in Record, Fresh(r, log), log' = Append(log, r), UNCHANGED calls
      PROVE  Promise!Commit(r)
  <2>1. Answers' = Answers
    BY <1>2 DEF Answers, RecordOf
  <2> QED BY Zenon, <1>2, <2>1 DEF Promise!Commit, Promise!KeysOf, Fresh
<1>3. CASE \E c \in Calls : (\E k \in Keys, p \in Payloads : Admit(c, k, p)) \/ Enqueue(c) \/ TimeOut(c)
  <2>1. UNCHANGED log
    BY Zenon, <1>3 DEF Admit, Enqueue, TimeOut
  <2> QED BY <1>3, <2>1, CallersGetNothing, NothingGranted
<1>4. CASE AppendCommits
  <2>1. work.stage = "append" /\ AppendAllowed /\ log' = Append(log, RecordOf(work.call)) /\ UNCHANGED calls
    BY Zenon, <1>4 DEF AppendCommits
  <2>2. RecordOf(work.call) \in Record /\ Fresh(RecordOf(work.call), log)
    BY <2>1, TakenUp, FreshIs DEF AppendAllowed, RecordOf
  <2> QED BY <1>2, <2>1, <2>2
<1>5. CASE Loop /\ ~AppendCommits
  <2>1. UNCHANGED log
    BY <1>5 DEF Loop, Take, Fence, Apply, ApplyFails, AppendFails, AppendUnknown, PeriodicSnapshot,
                RespondDone, RestoreSucceeds, RestoreFails, Drained
  <2>2. CASE \A c \in Calls : Keeps(c)
    BY <2>1, <2>2, NothingGranted
  <2>3. ASSUME work.stage # "idle", NEW n \in Nat, Grants(n)
        PROVE  \E i \in 1 .. Len(log) : Promise!Answer(i)
    <3>1. n \in 1 .. Len(log) /\ Answers' = Answers \cup {Promise!AnswerAt(log, n)}
      BY <2>3, OneGranted DEF Grants
    <3> QED BY <2>1, <3>1 DEF Promise!Answer
  <2> QED BY <1>5, <2>2, <2>3, LoopGrants
<1>6. CASE PendingLands
  <2>1. pending # None /\ log' = Append(log, pending) /\ UNCHANGED calls
    BY <1>6 DEF PendingLands
  <2>2. pending \in Record /\ Fresh(pending, log)
    BY <2>1 DEF RunnerInv, TypeOK, StoreSound
  <2> QED BY <1>2, <2>1, <2>2
<1>7. CASE PendingAborts \/ Close \/ Start \/ MoveGate \/ BlockGate
  BY <1>1, <1>7 DEF PendingAborts, Close, Start, MoveGate, BlockGate
<1>8. CASE Crash
  <2>1. UNCHANGED log
    BY Zenon, <1>8 DEF Crash
  <2>2. ASSUME NEW c \in Calls PROVE Keeps(c)
    <3>1. calls[c] \in Call /\ CallSound(calls[c], log)
      BY DEF RunnerInv, TypeOK
    <3>2. calls'[c] = IF calls[c].stage \in {"admitted", "queued"} THEN Staged(calls[c], "gone") ELSE calls[c]
      BY <1>8 DEF Crash, Staged
    <3>3. Staged(calls[c], "gone").reply = calls[c].reply
      BY <3>1, StagedIs
    <3> QED BY <3>1, <3>2, <3>3 DEF Keeps, CallSound
  <2> QED BY <2>1, <2>2, NothingGranted
<1>9. CASE UNCHANGED vars
  BY <1>1, <1>9 DEF vars
<1> QED BY <1>3, <1>4, <1>5, <1>6, <1>7, <1>8, <1>9 DEF Next

-----------------------------------------------------------------------------
(* Theorems *)

\* Whatever fails, is retried, times out or crashes, the exchange in memory of
\* the running writer (runtime/market.go) is a prefix of the event log that
\* misses at most one record; its idempotency cache stops every second append of
\* a caller's key; a closed runner leaves nothing queued; and two answers for one
\* key are the same answer.
THEOREM MemorySound == Spec => []MemoryFollowsLog
<1>1. Spec => []RunnerInv
  BY RunnerStarts, RunnerStep, PTL DEF Spec
<1> QED BY <1>1, RunnerMeans, PTL

\* The runner implements RequestLog: a request key is recorded once, no record is
\* lost or reordered, and a successful answer of execute is the record of its own
\* key and payload.
THEOREM RunnerImplementsLog == Spec => ExactlyOnce
<1>1. Init => Promise!Init
  <2> SUFFICES ASSUME Init PROVE Promise!Init
    OBVIOUS
  <2>1. \A c \in Calls : calls[c].reply = "none"
    BY DEF Init, NewCall
  <2>2. Answers = {}
    BY <2>1 DEF Answers
  <2> QED BY Zenon, <2>2 DEF Init, Promise!Init
<1>2. Spec => []RunnerInv
  BY RunnerStarts, RunnerStep, PTL DEF Spec
<1> QED BY <1>1, <1>2, RunnerAnswers, PTL DEF Spec, ExactlyOnce, Promise!Spec
=============================================================================
