--------------------------- MODULE RecoveryProofs ---------------------------
(***************************************************************************)
(* Proofs about RecoveryCoordinator, for any number of processes, threads, *)
(* epochs and saves.  Three invariants are built on one another: what the  *)
(* operations hold (Typed, Sound), how the rows they hold stand to the     *)
(* current row (Ordered), and what a tripped breaker stands for (Held).    *)
(***************************************************************************)
EXTENDS RecoveryCoordinator, TLAPS

(* A row grants writes only with its proofs. *)
Granted(r) == r.writes => r.phase = "writable" /\ r.proved /\ r.transport

(* An operation that is about to save has a row to save; all but a begin    *)
(* have loaded one, since their process has begun an epoch.                 *)
Sound ==
  /\ row # None => Granted(row)
  /\ started # {} => row # None
  /\ \A t \in Threads :
       /\ op[t].row # None => Granted(op[t].row) /\ row # None
       /\ op[t].next # None => Granted(op[t].next)
       /\ op[t].stage \in {"save", "selected", "begun"} => op[t].next # None
       /\ op[t].stage = "begun" => row # None /\ op[t].kind = "begin"
       /\ op[t].kind \in {"advance", "promote", "fail", "admit"} => op[t].row # None

SoundInv == TypeOK /\ Sound

-----------------------------------------------------------------------------
(* Types *)

(* A loaded row can be decided on: what an operation makes of it is a row. *)
LEMMA Effective ==
  ASSUME NEW p \in Processes, NEW r \in Row
  PROVE  /\ effectiveStatus(p, r) \in Row
         /\ effectiveStatus(p, r).epoch = r.epoch
         /\ effectiveStatus(p, r).version = r.version
         /\ effectiveStatus(p, r).phase = r.phase
         /\ effectiveStatus(p, r).proved = r.proved
         /\ effectiveStatus(p, r).release = r.release
         /\ ~Uncertain(p, r) => effectiveStatus(p, r) = r
         /\ Granted(r) => Granted(effectiveStatus(p, r))
BY Zenon DEF effectiveStatus, Row, RowUpTo, Granted

(* The bound of the versions is widened by one for the row to be saved. *)
LEMMA Widen ==
  ASSUME NEW r \in Row
  PROVE  r \in RowUpTo(MaxVersion + 1) /\ r.version + 1 \in 1..(MaxVersion + 1)
BY CoordinatorAssumption DEF Row, RowUpTo

LEMMA NoneIsNoRow == None \notin Row /\ None \notin RowUpTo(MaxVersion + 1)
<1>1. Row \subseteq RowUpTo(MaxVersion + 1)
  BY Widen
<1> QED BY <1>1, CoordinatorAssumption

LEMMA NoOpTyped == NoOp \in Op /\ NoOp.row = None /\ NoOp.next = None
BY CoordinatorAssumption DEF NoOp, Op

(* An operation that decides keeps the row it loaded. *)
LEMMA DecideTyped ==
  ASSUME TypeOK, NEW t \in Threads, NEW ok \in BOOLEAN, NEW next,
         ok => next \in RowUpTo(MaxVersion + 1), Decide(t, ok, next)
  PROVE  /\ op' \in [Threads -> Op]
         /\ \A u \in Threads \ {t} : op'[u] = op[u]
         /\ ok => /\ op'[t].kind = op[t].kind /\ op'[t].row = op[t].row
                  /\ op'[t].next = next /\ op'[t].stage = "save"
         /\ ~ok => op'[t] = NoOp
BY NoOpTyped, CoordinatorAssumption DEF Decide, TypeOK, Op

(* The initial state is typed and grants nothing. *)
LEMMA SoundInit == Init => SoundInv
<1> SUFFICES ASSUME Init PROVE SoundInv
  OBVIOUS
<1>1. TypeOK
  BY CoordinatorAssumption, NoOpTyped DEF Init, TypeOK, NewMemory
<1>2. Sound
  BY NoOpTyped DEF Init, Sound, NoOp
<1> QED BY <1>1, <1>2 DEF SoundInv

LEMMA SoundLoad ==
  ASSUME SoundInv, NEW t \in Threads, NEW kind \in Kinds, Load(t, kind)
  PROVE  SoundInv'
<1>1. op' = [op EXCEPT ![t] = [kind |-> kind, stage |-> "loaded", row |-> row,
                               next |-> None, seen |-> 0]]
  BY DEF Load, NoOp
<1>2. op' \in [Threads -> Op]
  BY <1>1, CoordinatorAssumption DEF SoundInv, TypeOK, Op
<1>3. TypeOK'
  BY <1>2 DEF Load, SoundInv, TypeOK
<1>4. kind # "begin" => row # None
  BY DEF Load, MayLoad, SoundInv, Sound
<1>5. Sound'
  BY <1>1, <1>4 DEF Load, SoundInv, Sound, TypeOK, Granted, Kinds
<1> QED BY <1>3, <1>5 DEF SoundInv

LEMMA TripTyped ==
  ASSUME TypeOK, NEW p \in Processes, Trip(p)
  PROVE  /\ memory' \in [Processes -> [last: 0..MaxEpoch, uncertain: BOOLEAN,
                                       epoch: 0..MaxEpoch]]
         /\ tripped' \in [Processes -> SUBSET (0..MaxEpoch)]
<1>1. markContinuityUncertain(memory[p]) \in [last: 0..MaxEpoch, uncertain: BOOLEAN,
                                             epoch: 0..MaxEpoch]
  BY Zenon DEF TypeOK, markContinuityUncertain
<1>2. memory' = [memory EXCEPT ![p] = markContinuityUncertain(memory[p])]
  BY DEF Trip
<1>3. tripped' = [tripped EXCEPT ![p] = IF Overtaken(p) THEN tripped[p]
                                        ELSE tripped[p] \cup {memory[p].last}]
  BY DEF Trip
<1> QED BY <1>1, <1>2, <1>3 DEF TypeOK

LEMMA SoundLoadFails ==
  ASSUME SoundInv, NEW t \in Threads, LoadFails(t)
  PROVE  SoundInv'
<1>1. TypeOK'
  BY TripTyped, CoordinatorAssumption DEF LoadFails, SoundInv, TypeOK
<1>2. Sound'
  <2>1. row' = row /\ started' = started /\ op' = op
    BY DEF LoadFails
  <2> QED BY <2>1 DEF SoundInv, Sound, Granted
<1> QED BY <1>1, <1>2 DEF SoundInv

LEMMA SoundObserve ==
  ASSUME SoundInv, NEW t \in Threads, Observe(t)
  PROVE  SoundInv'
<1> DEFINE Mem == [last: 0..MaxEpoch, uncertain: BOOLEAN, epoch: 0..MaxEpoch]
<1>1. op' = [op EXCEPT ![t] = [kind |-> op[t].kind, stage |-> "observed", row |-> op[t].row,
                               next |-> op[t].next, seen |-> op[t].seen]]
  BY DEF Observe, At, SoundInv, TypeOK, Op
<1>2. op' \in [Threads -> Op]
  BY <1>1 DEF SoundInv, TypeOK, Op
<1>3. op[t].row # None => op[t].row.epoch \in 0..MaxEpoch
  BY CoordinatorAssumption DEF SoundInv, TypeOK, Op, Row, RowUpTo, Epochs
<1>4. op[t].row # None => observeEpoch(memory[Owner[t]], op[t].row.epoch) \in Mem
  BY <1>3, CoordinatorAssumption DEF SoundInv, TypeOK, observeEpoch
<1>5. memory' \in [Processes -> Mem]
  BY Zenon, <1>4, CoordinatorAssumption DEF Observe, SoundInv, TypeOK
<1>6. TypeOK'
  BY <1>2, <1>5 DEF Observe, SoundInv, TypeOK
<1>7. Sound'
  BY <1>1, CoordinatorAssumption DEF Observe, SoundInv, TypeOK, Sound, Granted
<1> QED BY <1>6, <1>7 DEF SoundInv

(* The decisions: what they would save is a row, and grants no more than    *)
(* the operation was entitled to.                                           *)
LEMMA SoundDecide ==
  ASSUME SoundInv, NEW t \in Threads, NEW ok \in BOOLEAN, NEW next,
         ok => next \in RowUpTo(MaxVersion + 1) /\ Granted(next),
         op[t].stage = "observed", Decide(t, ok, next), epochs' \in 0..MaxEpoch,
         UNCHANGED <<row, memory, started, binding, tripped, past>>
  PROVE  SoundInv'
<1>1. TypeOK'
  BY DecideTyped DEF SoundInv, TypeOK
<1>2. Sound'
  <2> SUFFICES ASSUME NEW u \in Threads
               PROVE  /\ op'[u].row # None => Granted(op'[u].row) /\ row' # None
                      /\ op'[u].next # None => Granted(op'[u].next)
                      /\ op'[u].stage \in {"save", "selected", "begun"} => op'[u].next # None
                      /\ op'[u].stage = "begun" => row' # None /\ op'[u].kind = "begin"
                      /\ op'[u].kind \in {"advance", "promote", "fail", "admit"} => op'[u].row # None
    BY DEF SoundInv, Sound, Granted
  <2>1. CASE u # t
    BY <2>1, DecideTyped DEF SoundInv, Sound, Granted
  <2>2. CASE u = t /\ ok
    <3>1. /\ op'[t].kind = op[t].kind /\ op'[t].row = op[t].row
          /\ op'[t].next = next /\ op'[t].stage = "save" /\ row' = row
      BY Zenon, <2>2, DecideTyped DEF SoundInv
    <3>2. next # None /\ Granted(next)
      BY <2>2, CoordinatorAssumption
    <3> QED BY <2>2, <3>1, <3>2 DEF SoundInv, Sound
  <2>3. CASE u = t /\ ~ok
    BY <2>3, DecideTyped, NoOpTyped DEF SoundInv, NoOp
  <2> QED BY <2>1, <2>2, <2>3
<1> QED BY <1>1, <1>2 DEF SoundInv

LEMMA SuccessorTyped ==
  ASSUME NEW r \in Row, NEW phase \in Phases, NEW proved \in BOOLEAN,
         NEW transport \in BOOLEAN, NEW writes \in BOOLEAN
  PROVE  Successor(r, phase, proved, transport, writes) \in RowUpTo(MaxVersion + 1)
BY Widen DEF Successor, Row, RowUpTo

LEMMA SoundBegin ==
  ASSUME SoundInv, NEW t \in Threads, Begin(t)
  PROVE  SoundInv'
<1> DEFINE next == [epoch |-> epochs + 1,
                    version |-> IF op[t].row = None THEN 1 ELSE op[t].row.version + 1,
                    phase |-> "bootstrap", proved |-> FALSE, transport |-> FALSE,
                    writes |-> FALSE, release |-> Release[Owner[t]]]
<1>1. op[t].row # None => op[t].row.version + 1 \in 1..(MaxVersion + 1)
  BY Widen DEF SoundInv, TypeOK, Op
<1>2. (IF op[t].row = None THEN 1 ELSE op[t].row.version + 1) \in 1..(MaxVersion + 1)
  BY <1>1, CoordinatorAssumption
<1>3. "bootstrap" \in Phases
  BY DEF Phases, Chain
<1>4. epochs + 1 \in Epochs /\ Release[Owner[t]] \in Releases
  BY CoordinatorAssumption DEF Begin, SoundInv, TypeOK, Epochs, Releases
<1>5. next \in RowUpTo(MaxVersion + 1)
  BY <1>2, <1>3, <1>4 DEF RowUpTo
<1>6. Granted(next)
  BY DEF Granted
<1>7. epochs' \in 0..MaxEpoch
  BY CoordinatorAssumption DEF Begin, SoundInv, TypeOK
<1>8. Decide(t, TRUE, next)
  BY Zenon DEF Begin
<1> HIDE DEF next
<1> QED BY Zenon, <1>5, <1>6, <1>7, <1>8, SoundDecide DEF Begin

(* What the kinds that follow a started process may rely on. *)
LEMMA LoadedRow ==
  ASSUME SoundInv, NEW t \in Threads, op[t].kind \in {"advance", "promote", "fail", "admit"}
  PROVE  op[t].row \in Row /\ Granted(op[t].row) /\ Owner[t] \in Processes
BY CoordinatorAssumption DEF SoundInv, Sound, TypeOK, Op

LEMMA SoundAdvance ==
  ASSUME SoundInv, NEW t \in Threads, NEW phase \in Phases \ {"writable"},
         NEW proof \in BOOLEAN, Advance(t, phase, proof)
  PROVE  SoundInv'
<1> DEFINE current == effectiveStatus(Owner[t], op[t].row)
           proved == current.proved \/ proof
           ok == /\ ~Uncertain(Owner[t], op[t].row)
                 /\ allowedTransition(current.phase, phase)
                 /\ requiresLocalProof(phase) => proved
           next == Successor(current, phase, proved, FALSE, FALSE)
<1>1. current \in Row
  BY LoadedRow, Effective DEF Advance
<1>2. next \in RowUpTo(MaxVersion + 1)
  BY Zenon, <1>1, SuccessorTyped DEF Row, RowUpTo
<1>3. Granted(next)
  BY DEF Granted, Successor
<1>4. ok \in BOOLEAN
  OBVIOUS
<1>5. Decide(t, ok, next) /\ op[t].stage = "observed"
  BY Zenon DEF Advance, mergeProof
<1>6. epochs' \in 0..MaxEpoch
  BY DEF Advance, SoundInv, TypeOK
<1> HIDE DEF ok, next
<1> QED BY <1>2, <1>3, <1>4, <1>5, <1>6, SoundDecide DEF Advance

LEMMA SoundPromote ==
  ASSUME SoundInv, NEW t \in Threads, Promote(t)
  PROVE  SoundInv'
<1> DEFINE current == effectiveStatus(Owner[t], op[t].row)
           ok == /\ ~Uncertain(Owner[t], op[t].row)
                 /\ current.phase = "transport_warmup"
                 /\ matchesBinding(current) /\ current.proved
           next == Successor(current, "writable", TRUE, TRUE, TRUE)
<1>1. current \in Row
  BY LoadedRow, Effective DEF Promote
<1>2. next \in RowUpTo(MaxVersion + 1)
  BY Zenon, <1>1, SuccessorTyped DEF Phases
<1>3. Granted(next)
  BY DEF Granted, Successor
<1>4. ok \in BOOLEAN
  BY <1>1 DEF Row, RowUpTo
<1>5. Decide(t, ok, next) /\ op[t].stage = "observed"
  BY Zenon DEF Promote
<1>6. epochs' \in 0..MaxEpoch
  BY DEF Promote, SoundInv, TypeOK
<1> HIDE DEF ok, next
<1> QED BY <1>2, <1>3, <1>4, <1>5, <1>6, SoundDecide DEF Promote

LEMMA SoundFail ==
  ASSUME SoundInv, NEW t \in Threads, NEW phase \in FailurePhases, Fail(t, phase)
  PROVE  SoundInv'
<1> DEFINE current == effectiveStatus(Owner[t], op[t].row)
           next == Successor(current, phase, current.proved, current.transport, FALSE)
<1>1. current \in Row
  BY LoadedRow, Effective DEF Fail
<1>2. next \in RowUpTo(MaxVersion + 1)
  BY Zenon, <1>1, SuccessorTyped DEF Phases, Row, RowUpTo
<1>3. Granted(next)
  BY DEF Granted, Successor
<1>4. Decide(t, TRUE, next) /\ op[t].stage = "observed"
  BY Zenon DEF Fail
<1>5. epochs' \in 0..MaxEpoch
  BY DEF Fail, SoundInv, TypeOK
<1> HIDE DEF next
<1> QED BY Zenon, <1>2, <1>3, <1>4, <1>5, SoundDecide DEF Fail

(* An operation that ends leaves nothing behind. *)
LEMMA SoundEnd ==
  ASSUME SoundInv, NEW t \in Threads, op' = [op EXCEPT ![t] = NoOp],
         row' = row, started' \subseteq started \/ row # None,
         TypeOK'
  PROVE  SoundInv'
<1>1. \A u \in Threads : op'[u] = IF u = t THEN NoOp ELSE op[u]
  BY DEF SoundInv, TypeOK
<1>2. Sound'
  BY <1>1, NoOpTyped DEF SoundInv, Sound, Granted, NoOp
<1> QED BY <1>2 DEF SoundInv

LEMMA SoundAdmit ==
  ASSUME SoundInv, NEW t \in Threads, Admit(t)
  PROVE  SoundInv'
<1>1. TypeOK'
  BY NoOpTyped DEF Admit, SoundInv, TypeOK
<1> QED BY Zenon, <1>1, SoundEnd DEF Admit

LEMMA SoundSelect ==
  ASSUME SoundInv, NEW t \in Threads, Select(t)
  PROVE  SoundInv'
<1> DEFINE o == [kind |-> op[t].kind, stage |-> "selected", row |-> op[t].row,
                 next |-> op[t].next, seen |-> EpochOf(row)]
<1>1. EpochOf(row) \in 0..MaxEpoch
  BY CoordinatorAssumption DEF EpochOf, SoundInv, TypeOK, Row, RowUpTo, Epochs
<1>2. o \in Op
  BY <1>1 DEF SoundInv, TypeOK, Op
<1>3. op' = [op EXCEPT ![t] = o]
  BY DEF Select
<1>4. TypeOK'
  BY <1>2, <1>3 DEF Select, SoundInv, TypeOK
<1>5. \A u \in Threads : /\ op'[u].row = op[u].row /\ op'[u].next = op[u].next
                         /\ op'[u].kind = op[u].kind
                         /\ op'[u].stage = op[u].stage
                              \/ (op[u].stage = "save" /\ op'[u].stage = "selected")
  <2>1. \A u \in Threads : op'[u] = IF u = t THEN o ELSE op[u]
    BY <1>3 DEF SoundInv, TypeOK
  <2>2. /\ o.row = op[t].row /\ o.next = op[t].next /\ o.kind = op[t].kind
        /\ o.stage = "selected" /\ op[t].stage = "save"
    BY DEF Select
  <2> HIDE DEF o
  <2> QED BY <2>1, <2>2
<1>6. Sound'
  BY <1>5 DEF Select, SoundInv, Sound, Granted
<1> QED BY <1>4, <1>6 DEF SoundInv

(* A row that is saved is the one the operation decided on. *)
LEMMA StoreTyped ==
  ASSUME SoundInv, NEW t \in Threads, Store(t)
  PROVE  /\ row' \in Row /\ row' = op[t].next /\ Granted(row')
         /\ past' \subseteq Epochs
<1>1. op[t].next \in RowUpTo(MaxVersion + 1) /\ op[t].next # None /\ Granted(op[t].next)
  BY DEF Store, SoundInv, Sound, TypeOK, Op
<1>2. op[t].next \in Row
  BY <1>1, CoordinatorAssumption DEF Store, Row, RowUpTo
<1>3. EpochOf(row) \in Epochs \cup {0}
  BY DEF EpochOf, SoundInv, TypeOK, Row, RowUpTo
<1> QED BY <1>1, <1>2, <1>3 DEF Store, SoundInv, TypeOK

LEMMA SoundSave ==
  ASSUME SoundInv, NEW t \in Threads, Save(t)
  PROVE  SoundInv'
<1>1. \A u \in Threads :
        op'[u] = IF u # t THEN op[u]
                 ELSE IF op[t].kind = "begin" THEN At(op[t], "begun") ELSE NoOp
  BY DEF Save, AfterSave, SoundInv, TypeOK
<1>2. At(op[t], "begun") \in Op
  BY DEF SoundInv, TypeOK, Op, At
<1>3. TypeOK'
  BY <1>2, NoOpTyped, StoreTyped DEF Save, AfterSave, SoundInv, TypeOK
<1>4. row' # None /\ Granted(row')
  BY StoreTyped, NoneIsNoRow DEF Save
<1>5. /\ At(op[t], "begun").row = op[t].row /\ At(op[t], "begun").next = op[t].next
      /\ At(op[t], "begun").kind = op[t].kind /\ op[t].next # None
  BY DEF At, Save, Store, SoundInv, Sound
<1>6. Sound'
  <2> SUFFICES ASSUME NEW u \in Threads
               PROVE  /\ op'[u].row # None => Granted(op'[u].row)
                      /\ op'[u].next # None => Granted(op'[u].next)
                      /\ op'[u].stage \in {"save", "selected", "begun"} => op'[u].next # None
                      /\ op'[u].stage = "begun" => op'[u].kind = "begin"
                      /\ op'[u].kind \in {"advance", "promote", "fail", "admit"} => op'[u].row # None
    BY <1>4 DEF Sound, Granted
  <2>1. CASE u # t
    BY <2>1, <1>1 DEF SoundInv, Sound
  <2>2. CASE u = t /\ op[t].kind = "begin"
    BY <2>2, <1>1, <1>5 DEF SoundInv, Sound
  <2>3. CASE u = t /\ op[t].kind # "begin"
    BY <2>3, <1>1, NoOpTyped DEF NoOp
  <2> QED BY <2>1, <2>2, <2>3
<1> QED BY <1>3, <1>6 DEF SoundInv

LEMMA SoundSaveFails ==
  ASSUME SoundInv, NEW t \in Threads, SaveFails(t)
  PROVE  SoundInv'
<1>1. (row' \in Row /\ Granted(row') /\ past' \subseteq Epochs) \/ UNCHANGED <<row, past>>
  BY StoreTyped DEF SaveFails
<1>2. Owner[t] \in Processes
  BY CoordinatorAssumption
<1>3. TypeOK'
  BY <1>1, <1>2, TripTyped, NoOpTyped DEF SaveFails, SoundInv, TypeOK
<1>4. \A u \in Threads : op'[u] = IF u = t THEN NoOp ELSE op[u]
  BY DEF SaveFails, SoundInv, TypeOK
<1>5. (row' # None /\ Granted(row')) \/ row' = row
  BY <1>1, NoneIsNoRow
<1>6. Sound'
  BY <1>4, <1>5, NoOpTyped DEF SaveFails, SoundInv, Sound, Granted, NoOp
<1> QED BY <1>3, <1>6 DEF SoundInv

LEMMA SoundObserveNew ==
  ASSUME SoundInv, NEW t \in Threads, ObserveNew(t)
  PROVE  SoundInv'
<1>1. op[t].next \in RowUpTo(MaxVersion + 1) /\ row # None
  BY DEF ObserveNew, SoundInv, Sound, TypeOK, Op
<1>2. observeNewEpoch(memory[Owner[t]], op[t].next.epoch)
        \in [last: 0..MaxEpoch, uncertain: BOOLEAN, epoch: 0..MaxEpoch]
  BY <1>1, CoordinatorAssumption DEF observeNewEpoch, RowUpTo, Epochs
<1>3. TypeOK'
  BY Zenon, <1>2, NoOpTyped, CoordinatorAssumption DEF ObserveNew, SoundInv, TypeOK
<1> QED BY Zenon, <1>1, <1>3, SoundEnd DEF ObserveNew

LEMMA SoundRestart ==
  ASSUME SoundInv, NEW p \in Processes, Restart(p)
  PROVE  SoundInv'
<1>1. TypeOK'
  BY NoOpTyped, CoordinatorAssumption DEF Restart, SoundInv, TypeOK, NewMemory
<1>2. \A u \in Threads : op'[u] = NoOp \/ op'[u] = op[u]
  BY DEF Restart
<1>3. Sound'
  BY <1>2, NoOpTyped DEF Restart, SoundInv, Sound, Granted, NoOp
<1> QED BY <1>1, <1>3 DEF SoundInv

LEMMA SoundBind ==
  ASSUME SoundInv, Bind
  PROVE  SoundInv'
BY DEF Bind, validateSample, Sample, SoundInv, TypeOK, Sound, Granted

LEMMA SoundStep == SoundInv /\ [Next]_vars => SoundInv'
<1> SUFFICES ASSUME SoundInv, [Next]_vars PROVE SoundInv'
  OBVIOUS
<1>1. CASE UNCHANGED vars
  BY <1>1 DEF vars, SoundInv, TypeOK, Sound, Granted
<1>2. CASE Next
  BY <1>2, SoundLoad, SoundLoadFails, SoundObserve, SoundBegin, SoundAdvance, SoundPromote,
     SoundFail, SoundAdmit, SoundSelect, SoundSave, SoundSaveFails, SoundObserveNew,
     SoundRestart, SoundBind DEF Next
<1> QED BY <1>1, <1>2

(* Writes are enabled only in a writable epoch whose local proof is complete *)
(* and whose transport evidence was promoted, whatever loads, decisions and  *)
(* saves of any number of processes interleave (Advance, Promote, Fail and   *)
(* the store's Save).                                                        *)
THEOREM WritesProven == Spec => []WritesNeedProof
<1>1. SoundInv => WritesNeedProof
  BY DEF SoundInv, Sound, WritesNeedProof, Granted
<1> QED BY <1>1, SoundInit, SoundStep, PTL DEF Spec

-----------------------------------------------------------------------------
(* The order of rows *)

(* A row that can never be current again, when cur is current and the epochs *)
(* gone were replaced.                                                       *)
Dead(r, cur, gone) ==
  \/ r.epoch \in gone
  \/ cur # None /\ r.epoch = cur.epoch /\ r.version < cur.version

(* An epoch that is one of the n handed out and was not saved yet. *)
Unborn(e, cur, gone, n) == e \in 1..n /\ e \notin gone /\ e # EpochOf(cur)

Saving(t) == op[t].stage \in {"save", "selected"}

(* What an operation holds: a row that was current once, hence is current or *)
(* dead; and what it is about to save, which follows that row by the rule of *)
(* its kind, or begins an epoch that nobody has seen.                        *)
Follows(t) ==
  /\ op[t].row # None => op[t].row = row \/ Dead(op[t].row, row, past)
  /\ Saving(t) => op[t].kind \in {"begin", "advance", "promote", "fail"}
  /\ Saving(t) /\ op[t].kind = "begin" =>
       Unborn(op[t].next.epoch, row, past, epochs) /\ op[t].next.phase = "bootstrap"
  /\ Saving(t) /\ op[t].kind # "begin" =>
       /\ op[t].next.epoch = op[t].row.epoch
       /\ op[t].next.version = op[t].row.version + 1
  /\ Saving(t) /\ op[t].kind = "advance" =>
       /\ allowedTransition(op[t].row.phase, op[t].next.phase)
       /\ op[t].next.phase # "writable"
  /\ Saving(t) /\ op[t].kind = "fail" => op[t].next.phase \in FailurePhases
  /\ Saving(t) /\ op[t].kind = "promote" =>
       /\ op[t].row.phase = "transport_warmup" /\ op[t].next.phase = "writable"
       /\ op[t].row = binding \/ Dead(op[t].row, row, past)

(* Two begins were handed out different epochs. *)
Apart ==
  \A t, u \in Threads :
    t # u /\ Saving(t) /\ Saving(u) /\ op[t].kind = "begin" /\ op[u].kind = "begin"
      => op[t].next.epoch # op[u].next.epoch

RowsOrdered ==
  /\ EpochOf(row) \in 0..epochs /\ EpochOf(row) \notin past
  /\ past \subseteq 1..epochs
  /\ binding # None => row # None /\ (binding = row \/ Dead(binding, row, past))

Ordered == RowsOrdered /\ Apart /\ \A t \in Threads : Follows(t)

OrderedInv == SoundInv /\ Ordered

LEMMA OrderedInit == Init => OrderedInv
<1> SUFFICES ASSUME Init PROVE Ordered
  BY SoundInit DEF OrderedInv
<1>1. RowsOrdered
  BY DEF Init, RowsOrdered, EpochOf
<1>2. \A t \in Threads : op[t].row = None /\ ~Saving(t)
  BY DEF Init, NoOp, Saving
<1> QED BY <1>1, <1>2 DEF Ordered, Apart, Follows

(* A step that saves and decides nothing: an operation loads the current     *)
(* row, goes on with what it has, or ends.                                   *)
LEMMA OrderedStay ==
  ASSUME OrderedInv, UNCHANGED <<row, past, epochs, binding>>,
         \A u \in Threads :
           \/ op'[u] = op[u]
           \/ /\ op'[u].stage \notin {"save", "selected"}
              /\ op'[u].row \in {None, row, op[u].row}
           \/ /\ op[u].stage = "save" /\ op'[u].kind = op[u].kind
              /\ op'[u].row = op[u].row /\ op'[u].next = op[u].next
  PROVE  Ordered'
<1>1. RowsOrdered'
  BY DEF OrderedInv, Ordered, RowsOrdered, EpochOf, Dead
<1>2. \A u \in Threads : Saving(u)' =>
        /\ Saving(u) /\ op'[u].kind = op[u].kind
        /\ op'[u].row = op[u].row /\ op'[u].next = op[u].next
  BY DEF Saving
<1>3. \A u \in Threads : op'[u].row \in {None, row, op[u].row}
  OBVIOUS
<1>4. Apart'
  BY <1>2 DEF OrderedInv, Ordered, Apart
<1>5. ASSUME NEW u \in Threads PROVE Follows(u)'
  <2>1. Follows(u)
    BY DEF OrderedInv, Ordered
  <2>2. op'[u].row # None => op'[u].row = row' \/ Dead(op'[u].row, row', past')
    BY <2>1, <1>3 DEF Follows
  <2>3. CASE ~Saving(u)'
    BY <2>2, <2>3 DEF Follows
  <2>4. CASE Saving(u)'
    <3>1. /\ Saving(u) /\ op'[u].kind = op[u].kind
          /\ op'[u].row = op[u].row /\ op'[u].next = op[u].next
      BY <2>4, <1>2
    <3> QED BY <2>1, <3>1 DEF Follows
  <2> QED BY <2>3, <2>4
<1> QED BY <1>1, <1>4, <1>5 DEF Ordered

(* What a decision on a loaded row is about to save follows that row. *)
LEMMA OrderedDecide ==
  ASSUME OrderedInv, NEW t \in Threads, NEW ok \in BOOLEAN, NEW next,
         Decide(t, ok, next), ok => next \in RowUpTo(MaxVersion + 1),
         op[t].stage = "observed", op[t].kind \in {"advance", "promote", "fail"},
         ok => /\ next.epoch = op[t].row.epoch /\ next.version = op[t].row.version + 1
               /\ op[t].kind = "advance" =>
                    allowedTransition(op[t].row.phase, next.phase) /\ next.phase # "writable"
               /\ op[t].kind = "fail" => next.phase \in FailurePhases
               /\ op[t].kind = "promote" =>
                    /\ op[t].row.phase = "transport_warmup" /\ next.phase = "writable"
                    /\ op[t].row = binding \/ Dead(op[t].row, row, past),
         UNCHANGED <<row, past, epochs, binding>>
  PROVE  Ordered'
<1>1. /\ \A u \in Threads \ {t} : op'[u] = op[u]
      /\ ok => /\ op'[t].kind = op[t].kind /\ op'[t].row = op[t].row
               /\ op'[t].next = next /\ op'[t].stage = "save"
      /\ ~ok => op'[t] = NoOp
  BY DecideTyped DEF OrderedInv, SoundInv
<1>2. CASE ~ok
  BY <1>1, <1>2, OrderedStay, NoOpTyped DEF NoOp
<1>3. CASE ok
  <2>1. RowsOrdered'
    BY DEF OrderedInv, Ordered, RowsOrdered, EpochOf, Dead
  <2>2. op'[t].kind # "begin"
    BY <1>1, <1>3
  <2>3. Apart'
    BY Zenon, SMTT(30), <1>1, <2>2 DEF OrderedInv, Ordered, Apart, Saving
  <2>4. Follows(t)'
    BY Zenon, <1>1, <1>3, <2>2 DEF OrderedInv, Ordered, Follows
  <2>5. ASSUME NEW u \in Threads \ {t} PROVE Follows(u)'
    BY Zenon, <1>1, <2>5 DEF OrderedInv, Ordered, Follows, Saving
  <2> QED BY <2>1, <2>3, <2>4, <2>5 DEF Ordered
<1> QED BY <1>2, <1>3

LEMMA OrderedAdvance ==
  ASSUME OrderedInv, NEW t \in Threads, NEW phase \in Phases \ {"writable"},
         NEW proof \in BOOLEAN, Advance(t, phase, proof)
  PROVE  Ordered'
<1> DEFINE current == effectiveStatus(Owner[t], op[t].row)
           proved == current.proved \/ proof
           ok == /\ ~Uncertain(Owner[t], op[t].row)
                 /\ allowedTransition(current.phase, phase)
                 /\ requiresLocalProof(phase) => proved
           next == Successor(current, phase, proved, FALSE, FALSE)
<1>1. /\ current \in Row /\ current.epoch = op[t].row.epoch
      /\ current.version = op[t].row.version /\ current.phase = op[t].row.phase
  BY LoadedRow, Effective DEF Advance, OrderedInv
<1>2. next \in RowUpTo(MaxVersion + 1)
  BY Zenon, <1>1, SuccessorTyped DEF Row, RowUpTo
<1>3. next.epoch = op[t].row.epoch /\ next.version = op[t].row.version + 1 /\ next.phase = phase
  BY Zenon, <1>1 DEF Successor
<1>4. ok \in BOOLEAN /\ (ok => allowedTransition(op[t].row.phase, phase))
  BY <1>1
<1>5. /\ Decide(t, ok, next) /\ op[t].stage = "observed" /\ op[t].kind = "advance"
      /\ UNCHANGED <<row, past, epochs, binding>>
  BY Zenon DEF Advance, mergeProof
<1> HIDE DEF ok, next
<1> QED BY Zenon, <1>2, <1>3, <1>4, <1>5, OrderedDecide

(* The operator's binding names the row: what matches it in epoch and       *)
(* version is the row it observed, unless that row is gone.                 *)
LEMMA OrderedPromote ==
  ASSUME OrderedInv, NEW t \in Threads, Promote(t)
  PROVE  Ordered'
<1> DEFINE current == effectiveStatus(Owner[t], op[t].row)
           ok == /\ ~Uncertain(Owner[t], op[t].row)
                 /\ current.phase = "transport_warmup"
                 /\ matchesBinding(current) /\ current.proved
           next == Successor(current, "writable", TRUE, TRUE, TRUE)
<1>1. /\ current \in Row /\ current.epoch = op[t].row.epoch
      /\ current.version = op[t].row.version /\ current.phase = op[t].row.phase
  BY LoadedRow, Effective DEF Promote, OrderedInv
<1>2. next \in RowUpTo(MaxVersion + 1)
  BY Zenon, <1>1, SuccessorTyped DEF Phases
<1>3. next.epoch = op[t].row.epoch /\ next.version = op[t].row.version + 1 /\ next.phase = "writable"
  BY <1>1 DEF Successor
<1>4. ok \in BOOLEAN
  BY <1>1 DEF Row, RowUpTo
<1>5. /\ Decide(t, ok, next) /\ op[t].stage = "observed" /\ op[t].kind = "promote"
      /\ UNCHANGED <<row, past, epochs, binding>>
  BY Zenon DEF Promote
<1>6. ASSUME ok PROVE op[t].row.phase = "transport_warmup" /\ (op[t].row = binding \/ Dead(op[t].row, row, past))
  <2>1. binding # None /\ op[t].row.epoch = binding.epoch /\ op[t].row.version = binding.version
    BY <1>1, <1>6 DEF matchesBinding
  <2>2. op[t].row = row \/ Dead(op[t].row, row, past)
    BY LoadedRow, NoneIsNoRow, <1>5 DEF OrderedInv, Ordered, Follows
  <2>3. row # None /\ (binding = row \/ Dead(binding, row, past))
    BY <2>1 DEF OrderedInv, Ordered, RowsOrdered
  <2>4. Dead(binding, row, past) => Dead(op[t].row, row, past)
    BY <2>1 DEF Dead
  <2> QED BY <1>1, <1>6, <2>2, <2>3, <2>4
<1> HIDE DEF ok, next
<1> QED BY <1>2, <1>3, <1>4, <1>5, <1>6, OrderedDecide

LEMMA OrderedFail ==
  ASSUME OrderedInv, NEW t \in Threads, NEW phase \in FailurePhases, Fail(t, phase)
  PROVE  Ordered'
<1> DEFINE current == effectiveStatus(Owner[t], op[t].row)
           next == Successor(current, phase, current.proved, current.transport, FALSE)
<1>1. /\ current \in Row /\ current.epoch = op[t].row.epoch
      /\ current.version = op[t].row.version
  BY LoadedRow, Effective DEF Fail, OrderedInv
<1>2. next \in RowUpTo(MaxVersion + 1)
  BY Zenon, <1>1, SuccessorTyped DEF Phases, Row, RowUpTo
<1>3. next.epoch = op[t].row.epoch /\ next.version = op[t].row.version + 1 /\ next.phase = phase
  BY <1>1 DEF Successor
<1>4. /\ Decide(t, TRUE, next) /\ op[t].stage = "observed" /\ op[t].kind = "fail"
      /\ UNCHANGED <<row, past, epochs, binding>>
  BY Zenon DEF Fail
<1> HIDE DEF next
<1> QED BY Zenon, <1>2, <1>3, <1>4, OrderedDecide

(* A begin is handed an epoch that no row and no other begin has. *)
LEMMA OrderedBegin ==
  ASSUME OrderedInv, NEW t \in Threads, Begin(t)
  PROVE  Ordered'
<1> DEFINE next == [epoch |-> epochs + 1,
                    version |-> IF op[t].row = None THEN 1 ELSE op[t].row.version + 1,
                    phase |-> "bootstrap", proved |-> FALSE, transport |-> FALSE,
                    writes |-> FALSE, release |-> Release[Owner[t]]]
<1>1. /\ next.epoch = epochs + 1 /\ next.phase = "bootstrap"
      /\ epochs' = epochs + 1 /\ epochs \in Nat
      /\ UNCHANGED <<row, past, binding>>
  BY DEF Begin, OrderedInv, SoundInv, TypeOK
<1>2. /\ \A u \in Threads \ {t} : op'[u] = op[u]
      /\ op'[t].kind = "begin" /\ op'[t].row = op[t].row
      /\ op'[t].next = next /\ op'[t].stage = "save"
  BY DEF Begin, Decide, OrderedInv, SoundInv, TypeOK
<1> HIDE DEF next
<1>3. RowsOrdered'
  BY <1>1 DEF OrderedInv, Ordered, RowsOrdered, EpochOf, Dead
<1>4. \A u \in Threads \ {t} : Saving(u) /\ op[u].kind = "begin" => op[u].next.epoch \in 1..epochs
  BY DEF OrderedInv, Ordered, Follows, Unborn
<1>5. Apart'
  BY <1>1, <1>2, <1>4 DEF OrderedInv, Ordered, Apart, Saving
<1>6. Unborn(epochs + 1, row, past, epochs + 1)
  BY SMT, SMTT(30), <1>1 DEF OrderedInv, Ordered, RowsOrdered, Unborn
<1>7. Follows(t)'
  BY Zenon, <1>1, <1>2, <1>6 DEF OrderedInv, Ordered, Follows
<1>8. ASSUME NEW u \in Threads \ {t} PROVE Follows(u)'
  <2>1. \A e : Unborn(e, row, past, epochs) => Unborn(e, row, past, epochs')
    BY <1>1 DEF Unborn
  <2>2. Follows(u) /\ op'[u] = op[u]
    BY <1>2 DEF OrderedInv, Ordered
  <2> QED BY <1>1, <2>1, <2>2 DEF Follows, Saving
<1> QED BY <1>3, <1>5, <1>7, <1>8 DEF Ordered

LEMMA OrderedBind ==
  ASSUME OrderedInv, Bind
  PROVE  Ordered'
<1>1. UNCHANGED <<row, past, epochs, op>> /\ binding' = row
  BY DEF Bind, validateSample, Sample
<1>2. RowsOrdered'
  BY <1>1 DEF Bind, validateSample, Sample, OrderedInv, Ordered, RowsOrdered, EpochOf
<1>3. Apart'
  BY Zenon, <1>1 DEF OrderedInv, Ordered, Apart, Saving
<1>4. ASSUME NEW u \in Threads PROVE Follows(u)'
  <2>1. Follows(u) /\ (op[u].kind = "promote" => op[u].row # None)
    BY DEF OrderedInv, Ordered, SoundInv, Sound
  <2> QED BY <1>1, <2>1 DEF Follows, Saving
<1> QED BY <1>2, <1>3, <1>4 DEF Ordered

(* What a save does to the rows: an update in place is of the current row,   *)
(* one version on; a new epoch replaces the current one.                     *)
LEMMA Replaced ==
  ASSUME OrderedInv, NEW t \in Threads, Store(t)
  PROVE  /\ op[t].kind # "begin" =>
              /\ row # None /\ row'.epoch = row.epoch /\ past' = past
              /\ row'.version = row.version + 1 /\ op[t].row = row
         /\ op[t].kind = "begin" =>
              /\ Unborn(row'.epoch, row, past, epochs) /\ row'.phase = "bootstrap"
              /\ past' = past \cup ({EpochOf(row)} \ {0})
         /\ row' = op[t].next /\ row' \in Row
<1>1. row' = op[t].next /\ row' \in Row /\ row'.epoch \in Nat \ {0}
  BY StoreTyped DEF OrderedInv, Row, RowUpTo, Epochs
<1>2. Follows(t) /\ Saving(t)
  BY DEF OrderedInv, Ordered, Store, Saving
<1>3. CASE op[t].kind = "begin"
  <2>1. Unborn(row'.epoch, row, past, epochs) /\ row'.phase = "bootstrap"
    BY Zenon, <1>1, <1>2, <1>3 DEF Follows
  <2> QED BY Zenon, <1>1, <1>3, <2>1 DEF Store, Unborn
<1>4. CASE op[t].kind # "begin"
  <2>1. /\ EpochOf(row) = row'.epoch /\ row'.version = VersionOf(row) + 1
        /\ past' = past \cup ({EpochOf(row)} \ {0, row'.epoch})
    BY <1>1, <1>4 DEF Store, UpdateApplies
  <2>2. row # None /\ row'.epoch = row.epoch /\ past' = past /\ row'.version = row.version + 1
    BY Zenon, <1>1, <2>1 DEF EpochOf, VersionOf
  <2>3. op[t].row # None /\ op[t].row \in Row /\ row \in Row
    BY Zenon, <1>2, <1>4, <2>2 DEF Follows, OrderedInv, SoundInv, Sound, TypeOK, Op
  <2>4. op[t].row.epoch = row.epoch /\ op[t].row.version = row.version
    BY <1>1, <1>2, <1>4, <2>2, <2>3 DEF Follows, Row, RowUpTo
  <2>5. row.epoch \notin past
    BY <2>2 DEF OrderedInv, Ordered, RowsOrdered, EpochOf
  <2>6. ~Dead(op[t].row, row, past)
    BY <2>3, <2>4, <2>5 DEF Dead, Row, RowUpTo
  <2> QED BY <1>1, <1>2, <1>4, <2>2, <2>3, <2>6 DEF Follows
<1> QED BY <1>3, <1>4

(* A row that was current or dead is dead once another one is saved. *)
LEMMA Buried ==
  ASSUME OrderedInv, NEW t \in Threads, Store(t), NEW r \in Row,
         r = row \/ Dead(r, row, past)
  PROVE  Dead(r, row', past') /\ row' # None
<1>1. row' # None
  BY StoreTyped, NoneIsNoRow DEF OrderedInv
<1>2. row # None => row \in Row /\ row.epoch \in Nat \ {0} /\ row.version \in Nat
  BY DEF OrderedInv, SoundInv, TypeOK, Row, RowUpTo, Epochs
<1>3. r.version \in Nat /\ r # None
  BY NoneIsNoRow DEF Row, RowUpTo
<1>4. CASE op[t].kind # "begin"
  BY <1>1, <1>2, <1>3, <1>4, Replaced DEF Dead
<1>5. CASE op[t].kind = "begin"
  BY <1>1, <1>2, <1>3, <1>5, Replaced DEF Dead, EpochOf
<1> QED BY <1>1, <1>4, <1>5

LEMMA OrderedStore ==
  ASSUME OrderedInv, NEW t \in Threads, Store(t), UNCHANGED <<epochs, binding>>,
         \A u \in Threads \ {t} : op'[u] = op[u],
         op'[t].row \in {None, op[t].row}, op'[t].stage \notin {"save", "selected"}
  PROVE  Ordered'
<1>1. row' \in Row /\ row' # None
  BY StoreTyped, NoneIsNoRow DEF OrderedInv
<1>2. epochs \in Nat /\ \A u \in Threads : op[u].row # None => op[u].row \in Row
  BY DEF OrderedInv, SoundInv, TypeOK, Op
<1>3. \A u \in Threads : op'[u].row # None => Dead(op'[u].row, row', past')
  <2>1. \A u \in Threads : op[u].row # None => op[u].row = row \/ Dead(op[u].row, row, past)
    BY DEF OrderedInv, Ordered, Follows
  <2>2. \A u \in Threads : op[u].row # None => Dead(op[u].row, row', past')
    BY <1>2, <2>1, Buried
  <2> QED BY Zenon, <2>2
<1>4. RowsOrdered'
  <2>1. EpochOf(row)' = row'.epoch
    BY <1>1 DEF EpochOf
  <2>2. EpochOf(row) \in 0..epochs /\ EpochOf(row) \notin past /\ past \subseteq 1..epochs
    BY DEF OrderedInv, Ordered, RowsOrdered
  <2>3. row'.epoch \in 0..epochs /\ row'.epoch \notin past' /\ past' \subseteq 1..epochs
    <3>1. CASE op[t].kind # "begin"
      BY Zenon, <2>2, <3>1, Replaced DEF EpochOf
    <3>2. CASE op[t].kind = "begin"
      <4>1. /\ row'.epoch \in 1..epochs /\ row'.epoch \notin past /\ row'.epoch # EpochOf(row)
            /\ past' = past \cup ({EpochOf(row)} \ {0})
        BY <3>2, Replaced DEF Unborn
      <4>2. row'.epoch \notin past' /\ row'.epoch \in 0..epochs
        BY <1>2, <4>1
      <4>3. {EpochOf(row)} \ {0} \subseteq 1..epochs
        BY <1>2, <2>2
      <4> QED BY Zenon, <2>2, <4>1, <4>2, <4>3
    <3> QED BY <3>1, <3>2
  <2>4. binding # None => Dead(binding, row', past')
    <3>1. binding # None => binding \in Row /\ (binding = row \/ Dead(binding, row, past))
      BY DEF OrderedInv, Ordered, RowsOrdered, SoundInv, TypeOK
    <3> QED BY <3>1, Buried
  <2> QED BY <1>1, <2>1, <2>3, <2>4 DEF RowsOrdered
<1>5. Apart'
  BY SMT, SMTT(30) DEF OrderedInv, Ordered, Apart, Saving
<1>6. Follows(t)'
  BY Zenon, <1>3 DEF Follows, Saving
<1>7. ASSUME NEW u \in Threads \ {t} PROVE Follows(u)'
  <2>1. Follows(u) /\ op'[u] = op[u] /\ Saving(t)
    BY Zenon DEF OrderedInv, Ordered, Store, Saving
  <2>2. op[u].row # None => Dead(op[u].row, row', past')
    BY Zenon, <1>3, <2>1
  <2>3. op[u].kind # "begin" /\ Saving(u) => op[u].row # None
    BY <2>1 DEF Follows, OrderedInv, SoundInv, Sound
  <2>4. ASSUME Saving(u), op[u].kind = "begin" PROVE Unborn(op[u].next.epoch, row', past', epochs)
    <3>1. Unborn(op[u].next.epoch, row, past, epochs)
      BY Zenon, <2>1, <2>4 DEF Follows
    <3>2. op[t].kind = "begin" => row'.epoch # op[u].next.epoch
      BY Zenon, SMTT(30), <2>1, <2>4, Replaced DEF OrderedInv, Ordered, Apart
    <3>3. CASE op[t].kind # "begin"
      BY <1>1, <3>1, <3>3, Replaced DEF Unborn, EpochOf
    <3>4. CASE op[t].kind = "begin"
      BY <1>1, <3>1, <3>2, <3>4, Replaced DEF Unborn, EpochOf
    <3> QED BY Zenon, <3>3, <3>4
  <2> QED BY <2>1, <2>2, <2>3, <2>4 DEF Follows, Saving
<1> QED BY <1>4, <1>5, <1>6, <1>7 DEF Ordered

LEMMA OrderedStep == OrderedInv /\ [Next]_vars => OrderedInv'
<1> SUFFICES ASSUME OrderedInv, [Next]_vars PROVE Ordered'
  BY SoundStep DEF OrderedInv
<1>0. op \in [Threads -> Op]
  BY DEF OrderedInv, SoundInv, TypeOK
<1>1. CASE UNCHANGED vars
  BY <1>1, OrderedStay DEF vars
<1>2. ASSUME NEW t \in Threads, NEW kind \in Kinds, Load(t, kind) PROVE Ordered'
  BY <1>0, <1>2, OrderedStay DEF Load
<1>3. ASSUME NEW t \in Threads, LoadFails(t) PROVE Ordered'
  BY <1>3, OrderedStay DEF LoadFails
<1>4. ASSUME NEW t \in Threads, Observe(t) PROVE Ordered'
  BY <1>0, <1>4, OrderedStay DEF Observe, At
<1>5. ASSUME NEW t \in Threads, Admit(t) PROVE Ordered'
  BY <1>0, <1>5, OrderedStay DEF Admit, NoOp
<1>6. ASSUME NEW t \in Threads, Select(t) PROVE Ordered'
  BY <1>0, <1>6, OrderedStay DEF Select
<1>7. ASSUME NEW t \in Threads, Save(t) PROVE Ordered'
  <2>1. op'[t] = NoOp \/ op'[t] = At(op[t], "begun")
    BY <1>0, <1>7 DEF Save, AfterSave
  <2>2. op'[t].row \in {None, op[t].row} /\ op'[t].stage \notin {"save", "selected"}
    BY <2>1 DEF NoOp, At
  <2> QED BY <1>0, <1>7, <2>2, OrderedStore DEF Save, AfterSave
<1>8. ASSUME NEW t \in Threads, SaveFails(t) PROVE Ordered'
  <2>1. /\ \A u \in Threads \ {t} : op'[u] = op[u]
        /\ op'[t].row = None /\ op'[t].stage = "idle" /\ UNCHANGED <<epochs, binding>>
    BY <1>0, <1>8 DEF SaveFails, NoOp
  <2> QED BY <1>8, <2>1, OrderedStore, OrderedStay DEF SaveFails
<1>9. ASSUME NEW t \in Threads, ObserveNew(t) PROVE Ordered'
  BY <1>0, <1>9, OrderedStay DEF ObserveNew, NoOp
<1>10. ASSUME NEW p \in Processes, Restart(p) PROVE Ordered'
  BY <1>0, <1>10, OrderedStay DEF Restart, NoOp
<1> QED BY <1>1, <1>2, <1>3, <1>4, <1>5, <1>6, <1>7, <1>8, <1>9, <1>10,
           OrderedBegin, OrderedAdvance, OrderedPromote, OrderedFail, OrderedBind DEF Next

(* A row that changes was saved. *)
LEMMA ChangedByStore ==
  ASSUME [Next]_vars, row' # row
  PROVE  \E t \in Threads : Store(t)
<1>1. Next
  BY DEF vars
<1> QED BY Zenon, <1>1 DEF Next, Load, LoadFails, Observe, Begin, Promote, Admit, Select, Save,
           SaveFails, ObserveNew, Advance, Fail, Restart, Bind

(* Epochs move only forward, whatever operations race: a replaced epoch is   *)
(* never current again, an update in place replaces the very row its         *)
(* operation had loaded and by the rule of its kind, and only the row the    *)
(* operator bound the transport evidence to becomes writable.                *)
THEOREM EpochsForward == Spec => ForwardOnly
<1> DEFINE Forward ==
      row # None /\ row' # row =>
        /\ row'.epoch \notin past
        /\ row'.epoch = row.epoch =>
             /\ \/ row'.phase \in FailurePhases
                \/ row.phase = "transport_warmup" /\ row'.phase = "writable"
                \/ allowedTransition(row.phase, row'.phase)
             /\ \E t \in Threads : op[t].row = row /\ op[t].next = row'
        /\ row.phase # "writable" /\ row'.phase = "writable" => row = binding
<1>1. OrderedInv /\ [Next]_vars => [Forward]_vars
  <2> SUFFICES ASSUME OrderedInv, [Next]_vars, row # None, row' # row PROVE Forward
    OBVIOUS
  <2>1. PICK t \in Threads : Store(t)
    BY Zenon, ChangedByStore
  <2>2. Follows(t) /\ Saving(t) /\ row' = op[t].next
    BY <2>1, StoreTyped DEF OrderedInv, Ordered, Store, Saving
  <2>3. EpochOf(row) = row.epoch /\ row.epoch \notin past
    BY Zenon DEF OrderedInv, Ordered, RowsOrdered, EpochOf
  <2>4. CASE op[t].kind = "begin"
    BY Zenon, <2>1, <2>3, <2>4, Replaced DEF Unborn
  <2>5. CASE op[t].kind # "begin"
    <3>1. row'.epoch = row.epoch /\ op[t].row = row /\ row \in Row
      BY <2>1, <2>5, Replaced DEF OrderedInv, SoundInv, TypeOK
    <3>2. ~Dead(row, row, past)
      BY SMT, SMTT(30), <2>3, <3>1 DEF Dead, Row, RowUpTo
    <3>3. op[t].kind \in {"advance", "promote", "fail"}
      BY Zenon, <2>2, <2>5 DEF Follows
    <3>4. /\ row'.phase = "writable" => row = binding
          /\ \/ row'.phase \in FailurePhases
             \/ row.phase = "transport_warmup" /\ row'.phase = "writable"
             \/ allowedTransition(row.phase, row'.phase)
      BY <2>2, <3>1, <3>2, <3>3 DEF Follows, FailurePhases
    <3> QED BY <2>2, <2>3, <3>1, <3>4
  <2> QED BY <2>4, <2>5
<1>2. Spec => [][Forward]_vars
  BY <1>1, OrderedInit, OrderedStep, PTL DEF Spec
<1> QED BY <1>2 DEF ForwardOnly

-----------------------------------------------------------------------------
(* The breaker *)

(* The epochs that were ever current, and the empty one. *)
Seen(cur, gone) == {0} \cup gone \cup {EpochOf(cur)}

(* What a process remembers it has seen; a breaker that names an epoch names *)
(* the last one observed, and a new coordinator has tripped nothing.         *)
Remembers(p) ==
  /\ memory[p].last \in Seen(row, past) /\ tripped[p] \subseteq Seen(row, past)
  /\ memory[p].uncertain /\ memory[p].epoch # 0 => memory[p].epoch = memory[p].last
  /\ memory[p] = NewMemory => tripped[p] = {}

(* A trip recorded in an epoch that was not replaced: the breaker is set,    *)
(* and no operation in flight can clear it, since those that have yet to     *)
(* observe a row hold one of that epoch.                                     *)
Holds(p) ==
  \A e \in tripped[p] \ ({0} \cup past) :
    /\ memory[p].uncertain /\ memory[p].epoch \in {0, e}
    /\ \A t \in Threads :
         Owner[t] = p /\ op[t].stage = "loaded" /\ op[t].row # None => op[t].row.epoch = e

(* A process that begins its epoch does nothing else and has tripped nothing. *)
Alone(t) ==
  op[t].kind = "begin" =>
    /\ tripped[Owner[t]] = {} /\ Owner[t] \notin started
    /\ \A u \in Threads \ {t} : Owner[u] = Owner[t] => op[u] = NoOp

Begun(t) == op[t].stage = "begun" => op[t].next.epoch \in Seen(row, past)

Held ==
  /\ \A p \in Processes : Remembers(p) /\ Holds(p)
  /\ \A t \in Threads : Alone(t) /\ Begun(t)

HeldInv == OrderedInv /\ Held

LEMMA HeldInit == Init => HeldInv
<1> SUFFICES ASSUME Init PROVE Held
  BY OrderedInit DEF HeldInv
<1>1. \A p \in Processes : memory[p] = NewMemory /\ tripped[p] = {}
  BY DEF Init
<1>2. \A t \in Threads : op[t].kind = "none" /\ op[t].stage = "idle"
  BY DEF Init, NoOp
<1> QED BY <1>1, <1>2 DEF Held, Remembers, Holds, Alone, Begun, Seen, NewMemory

(* What was ever current stays among the epochs seen. *)
LEMMA SeenGrows ==
  ASSUME OrderedInv, (\E t \in Threads : Store(t)) \/ (row' = row /\ past' = past)
  PROVE  past \subseteq past' /\ Seen(row, past) \subseteq Seen(row', past')
<1>1. CASE row' = row /\ past' = past
  BY <1>1
<1>2. ASSUME NEW t \in Threads, Store(t)
      PROVE  past \subseteq past' /\ Seen(row, past) \subseteq Seen(row', past')
  <2>1. row' # None /\ row' = op[t].next
    BY <1>2, StoreTyped, NoneIsNoRow DEF OrderedInv
  <2>2. past' = past \cup ({EpochOf(row)} \ {0, row'.epoch})
    BY <1>2, <2>1 DEF Store
  <2>3. EpochOf(row') = row'.epoch
    BY <2>1 DEF EpochOf
  <2> QED BY <2>2, <2>3 DEF Seen
<1> QED BY <1>1, <1>2

(* A process whose breaker a step leaves alone: its operations go on with    *)
(* what they hold, or load the current row.                                  *)
LEMMA HeldProcess ==
  ASSUME HeldInv, NEW p \in Processes, past \subseteq past',
         Seen(row, past) \subseteq Seen(row', past'),
         memory'[p] = memory[p], tripped'[p] = tripped[p],
         \A t \in Threads : Owner[t] = p /\ op'[t].stage = "loaded" =>
           op'[t] = op[t] \/ op'[t].row = row
  PROVE  Remembers(p)' /\ Holds(p)'
<1>1. Remembers(p) /\ Holds(p)
  BY DEF HeldInv, Held
<1>2. Remembers(p)'
  BY <1>1 DEF Remembers
<1>3. Holds(p)'
  <2> SUFFICES ASSUME NEW e \in tripped'[p] \ ({0} \cup past')
               PROVE  /\ memory'[p].uncertain /\ memory'[p].epoch \in {0, e}
                      /\ \A t \in Threads :
                           Owner[t] = p /\ op'[t].stage = "loaded" /\ op'[t].row # None
                             => op'[t].row.epoch = e
    BY DEF Holds
  <2>1. e \in tripped[p] \ ({0} \cup past)
    OBVIOUS
  <2>2. row # None => row.epoch = e
    BY Zenon, <1>1, <2>1 DEF Remembers, Seen, EpochOf
  <2> QED BY <1>1, <2>1, <2>2 DEF Holds
<1> QED BY <1>2, <1>3

(* A process that trips its breaker. *)
LEMMA HeldTrip ==
  ASSUME HeldInv, NEW p \in Processes, Trip(p), past \subseteq past',
         Seen(row, past) \subseteq Seen(row', past'),
         \A t \in Threads : Owner[t] = p /\ op'[t].stage = "loaded" => op'[t] = op[t]
  PROVE  /\ Remembers(p)' /\ Holds(p)'
         /\ \A q \in Processes \ {p} : memory'[q] = memory[q] /\ tripped'[q] = tripped[q]
<1> DEFINE m == memory[p]
<1>1. Remembers(p) /\ Holds(p) /\ TypeOK
  BY DEF HeldInv, Held, OrderedInv, SoundInv
<1>2. /\ memory'[p] = markContinuityUncertain(m)
      /\ tripped'[p] = IF Overtaken(p) THEN tripped[p] ELSE tripped[p] \cup {m.last}
      /\ \A q \in Processes \ {p} : memory'[q] = memory[q] /\ tripped'[q] = tripped[q]
  BY <1>1 DEF Trip, TypeOK
<1>3. /\ memory'[p].uncertain /\ memory'[p].last = m.last
      /\ m.uncertain => memory'[p].epoch = m.epoch
      /\ ~m.uncertain => memory'[p].epoch = m.last
  BY <1>1, <1>2 DEF markContinuityUncertain, TypeOK
<1>4. memory'[p] # NewMemory
  BY SMT, SMTT(30), <1>3 DEF NewMemory
<1>5. Remembers(p)'
  <2>1. memory'[p].last \in Seen(row', past') /\ tripped'[p] \subseteq Seen(row', past')
    BY Zenon, <1>1, <1>2, <1>3 DEF Remembers
  <2>2. memory'[p].epoch # 0 => memory'[p].epoch = memory'[p].last
    BY Zenon, <1>1, <1>3 DEF Remembers
  <2> QED BY Zenon, <1>4, <2>1, <2>2 DEF Remembers
<1>6. Holds(p)'
  <2> SUFFICES ASSUME NEW e \in tripped'[p] \ ({0} \cup past')
               PROVE  /\ memory'[p].uncertain /\ memory'[p].epoch \in {0, e}
                      /\ \A t \in Threads :
                           Owner[t] = p /\ op'[t].stage = "loaded" /\ op'[t].row # None
                             => op'[t].row.epoch = e
    BY DEF Holds
  <2>1. CASE e \in tripped[p]
    <3>1. e \in tripped[p] \ ({0} \cup past)
      BY Zenon, <2>1
    <3> QED BY <1>1, <1>3, <3>1 DEF Holds
  <2>2. CASE e \notin tripped[p]
    <3>1. e = m.last /\ ~Overtaken(p)
      BY <1>2, <2>2
    <3>2. memory'[p].epoch \in {0, e}
      BY <1>1, <1>3, <3>1 DEF Remembers
    <3> QED BY Zenon, <1>3, <3>1, <3>2 DEF Overtaken
  <2> QED BY <2>1, <2>2
<1> QED BY <1>2, <1>5, <1>6

(* A thread of a process that begins its epoch, when no operation starts. *)
LEMMA HeldThread ==
  ASSUME HeldInv, NEW t \in Threads, Seen(row, past) \subseteq Seen(row', past'),
         \A u \in Threads :
           op'[u] = op[u] \/ op'[u] = NoOp \/ (op'[u].kind = op[u].kind /\ op[u] # NoOp),
         op[t].kind = "begin" /\ op'[t].kind = "begin" =>
           tripped'[Owner[t]] = tripped[Owner[t]] /\ (Owner[t] \in started' => Owner[t] \in started),
         op'[t].stage = "begun" => op'[t] = op[t] \/ op'[t].next.epoch \in Seen(row', past')
  PROVE  Alone(t)' /\ Begun(t)'
<1>1. Alone(t) /\ Begun(t) /\ NoOp.kind = "none"
  BY DEF HeldInv, Held, NoOp
<1>2. Alone(t)'
  BY <1>1 DEF Alone
<1>3. Begun(t)'
  BY Zenon, <1>1 DEF Begun
<1> QED BY Zenon, <1>2, <1>3

(* Steps that leave every breaker alone and start no operation. *)
LEMMA HeldStay ==
  ASSUME HeldInv, UNCHANGED <<memory, started, tripped>>,
         (\E t \in Threads : Store(t)) \/ (row' = row /\ past' = past),
         \A t \in Threads :
           \/ op'[t] = op[t] \/ op'[t] = NoOp
           \/ /\ op'[t].kind = op[t].kind /\ op[t] # NoOp
              /\ \/ op'[t].stage \in {"observed", "save", "selected"}
                 \/ op'[t].stage = "begun" /\ op'[t].next.epoch \in Seen(row', past')
  PROVE  Held'
<1>1. past \subseteq past' /\ Seen(row, past) \subseteq Seen(row', past')
  BY SeenGrows DEF HeldInv
<1>2. NoOp.stage = "idle"
  BY DEF NoOp
<1>3. ASSUME NEW p \in Processes PROVE Remembers(p)' /\ Holds(p)'
  BY Zenon, <1>1, <1>2, HeldProcess
<1>4. ASSUME NEW t \in Threads PROVE Alone(t)' /\ Begun(t)'
  BY <1>1, <1>2, HeldThread
<1> QED BY <1>3, <1>4 DEF Held

LEMMA HeldLoad ==
  ASSUME HeldInv, NEW t \in Threads, NEW kind \in Kinds, Load(t, kind)
  PROVE  Held'
<1>1. /\ past \subseteq past' /\ Seen(row, past) \subseteq Seen(row', past')
      /\ UNCHANGED <<memory, started, tripped>> /\ op \in [Threads -> Op]
  BY DEF Load, HeldInv, OrderedInv, SoundInv, TypeOK
<1>2. /\ \A u \in Threads \ {t} : op'[u] = op[u]
      /\ op'[t].kind = kind /\ op'[t].stage = "loaded" /\ op'[t].row = row
  BY Zenon, <1>1 DEF Load
<1>3. ASSUME NEW p \in Processes PROVE Remembers(p)' /\ Holds(p)'
  BY Zenon, <1>1, <1>2, HeldProcess
<1>4. /\ op[t] = NoOp
      /\ kind = "begin" =>
           /\ Owner[t] \notin started /\ memory[Owner[t]] = NewMemory
           /\ \A u \in Threads : Owner[u] = Owner[t] => op[u] = NoOp
      /\ Owner[t] \notin started => kind = "begin"
  BY Zenon DEF Load, MayLoad
<1>5. Alone(t)'
  <2>1. memory[Owner[t]] = NewMemory => tripped[Owner[t]] = {}
    BY Zenon, CoordinatorAssumption DEF HeldInv, Held, Remembers
  <2> QED BY Zenon, <1>1, <1>2, <1>4, <2>1 DEF Alone
<1>6. ASSUME NEW u \in Threads \ {t} PROVE Alone(u)'
  <2>1. Alone(u) /\ NoOp.kind = "none"
    BY DEF HeldInv, Held, NoOp
  <2>2. op[u].kind = "begin" => Owner[u] # Owner[t]
    BY Zenon, <1>4, <2>1 DEF Alone
  <2> QED BY <1>1, <1>2, <2>1, <2>2 DEF Alone
<1>7. \A u \in Threads : Begun(u)'
  BY Zenon, <1>1, <1>2 DEF HeldInv, Held, Begun
<1> QED BY <1>3, <1>5, <1>6, <1>7 DEF Held

LEMMA HeldLoadFails ==
  ASSUME HeldInv, NEW t \in Threads, LoadFails(t)
  PROVE  Held'
<1> DEFINE p == Owner[t]
<1>1. /\ past \subseteq past' /\ Seen(row, past) \subseteq Seen(row', past')
      /\ UNCHANGED <<started, op>> /\ Trip(p) /\ p \in Processes
  BY CoordinatorAssumption DEF LoadFails
<1>2. /\ Remembers(p)' /\ Holds(p)'
      /\ \A q \in Processes \ {p} : memory'[q] = memory[q] /\ tripped'[q] = tripped[q]
  BY Zenon, <1>1, HeldTrip
<1>3. ASSUME NEW q \in Processes \ {p} PROVE Remembers(q)' /\ Holds(q)'
  BY Zenon, <1>1, <1>2, HeldProcess
<1>4. ASSUME NEW u \in Threads PROVE Alone(u)' /\ Begun(u)'
  <2>1. op[u].kind = "begin" => Owner[u] # p
    <3>1. Alone(u) /\ NoOp.kind = "none"
      BY Zenon DEF HeldInv, Held, NoOp
    <3>2. op[t] = NoOp /\ (p \notin started => \A v \in Threads : Owner[v] = p => op[v] = NoOp)
      BY DEF LoadFails, MayLoad
    <3> QED BY <3>1, <3>2 DEF Alone
  <2>2. Owner[u] \in Processes
    BY CoordinatorAssumption
  <2> QED BY <1>1, <1>2, <2>1, <2>2, HeldThread
<1> QED BY <1>2, <1>3, <1>4 DEF Held

(* An observation cannot clear a breaker that holds: the operation loaded a  *)
(* row of the very epoch the breaker stands for.                             *)
LEMMA HeldObserve ==
  ASSUME HeldInv, NEW t \in Threads, Observe(t)
  PROVE  Held'
<1> DEFINE p == Owner[t]  r == op[t].row  m == memory[p]
<1>1. /\ row' = row /\ past' = past /\ UNCHANGED <<started, tripped>>
      /\ op \in [Threads -> Op] /\ p \in Processes /\ op[t].stage = "loaded"
  BY Zenon, CoordinatorAssumption DEF Observe, HeldInv, OrderedInv, SoundInv, TypeOK
<1>2. /\ \A u \in Threads \ {t} : op'[u] = op[u]
      /\ op'[t].kind = op[t].kind /\ op'[t].stage = "observed" /\ op[t] # NoOp
  BY <1>1 DEF Observe, At, NoOp
<1>3. \A q \in Processes \ {p} : memory'[q] = memory[q]
  BY <1>1 DEF Observe, HeldInv, OrderedInv, SoundInv, TypeOK
<1>4. ASSUME NEW u \in Threads PROVE Alone(u)' /\ Begun(u)'
  BY <1>1, <1>2, HeldThread
<1>5. ASSUME NEW q \in Processes \ {p} PROVE Remembers(q)' /\ Holds(q)'
  BY <1>1, <1>2, <1>3, HeldProcess
<1>6. CASE r = None
  <2>1. memory' = memory
    BY Zenon, <1>6 DEF Observe
  <2>2. Remembers(p)' /\ Holds(p)'
    BY <1>1, <1>2, <2>1, HeldProcess
  <2> QED BY <1>4, <1>5, <2>2 DEF Held
<1>7. CASE r # None
  <2>1. r \in Row /\ r.epoch \in Nat \ {0}
    BY <1>1, <1>7 DEF Op, Row, RowUpTo, Epochs
  <2>2. r.epoch \in Seen(row, past)
    <3>1. r = row \/ Dead(r, row, past)
      BY <1>7 DEF HeldInv, OrderedInv, Ordered, Follows
    <3> QED BY Zenon, <1>7, <3>1 DEF Dead, Seen, EpochOf
  <2>3. memory'[p] = observeEpoch(m, r.epoch)
    BY <1>1, <1>7 DEF Observe, HeldInv, OrderedInv, SoundInv, TypeOK
  <2>4. m \in [last: 0..MaxEpoch, uncertain: BOOLEAN, epoch: 0..MaxEpoch]
    BY <1>1 DEF HeldInv, OrderedInv, SoundInv, TypeOK
  <2>5. /\ memory'[p].last = r.epoch
        /\ memory'[p].uncertain => m.uncertain /\ memory'[p].epoch = m.epoch
        /\ m.uncertain /\ m.epoch \in {0, r.epoch} =>
             memory'[p].uncertain /\ memory'[p].epoch = m.epoch
        /\ memory'[p].uncertain /\ m.epoch # 0 => m.epoch = r.epoch
    BY <2>3, <2>4 DEF observeEpoch
  <2>6. Remembers(p) /\ Holds(p)
    BY Zenon, <1>1 DEF HeldInv, Held
  <2>7. memory'[p] # NewMemory
    BY SMT, SMTT(30), <2>1, <2>5 DEF NewMemory
  <2>8. Remembers(p)'
    <3>1. Seen(row', past') = Seen(row, past) /\ tripped'[p] = tripped[p]
      BY <1>1
    <3>2. tripped[p] \subseteq Seen(row, past)
      BY Zenon, <2>6 DEF Remembers
    <3>3. memory'[p].uncertain /\ memory'[p].epoch # 0 => memory'[p].epoch = memory'[p].last
      BY <2>5
    <3> QED BY <2>2, <2>5, <2>7, <3>1, <3>2, <3>3 DEF Remembers
  <2>9. Holds(p)'
    <3> SUFFICES ASSUME NEW e \in tripped[p] \ ({0} \cup past)
                 PROVE  /\ memory'[p].uncertain /\ memory'[p].epoch \in {0, e}
                        /\ \A u \in Threads :
                             Owner[u] = p /\ op'[u].stage = "loaded" /\ op'[u].row # None
                               => op'[u].row.epoch = e
      BY <1>1 DEF Holds
    <3>1. m.uncertain /\ m.epoch \in {0, e} /\ r.epoch = e
      BY Zenon, <1>1, <1>7, <2>6 DEF Holds
    <3>2. memory'[p].uncertain /\ memory'[p].epoch \in {0, e}
      BY <2>5, <3>1
    <3>3. \A u \in Threads :
            Owner[u] = p /\ op'[u].stage = "loaded" /\ op'[u].row # None
              => op'[u].row.epoch = e
      BY Zenon, <1>2, <2>6 DEF Holds
    <3> QED BY <3>2, <3>3
  <2> QED BY <1>4, <1>5, <2>8, <2>9 DEF Held
<1> QED BY Zenon, <1>6, <1>7

LEMMA HeldDecide ==
  ASSUME HeldInv, NEW t \in Threads, NEW ok, NEW next, Decide(t, ok, next),
         op[t].stage = "observed", UNCHANGED <<row, memory, started, tripped, past>>
  PROVE  Held'
<1>1. op \in [Threads -> Op] /\ op[t] # NoOp
  BY DEF HeldInv, OrderedInv, SoundInv, TypeOK, NoOp
<1>2. /\ \A u \in Threads \ {t} : op'[u] = op[u]
      /\ op'[t] = NoOp \/ (op'[t].kind = op[t].kind /\ op'[t].stage = "save")
  BY Zenon, <1>1 DEF Decide
<1> QED BY <1>1, <1>2, HeldStay

LEMMA HeldSave ==
  ASSUME HeldInv, NEW t \in Threads, Save(t)
  PROVE  Held'
<1>1. op \in [Threads -> Op] /\ op[t] # NoOp
  BY DEF HeldInv, OrderedInv, SoundInv, TypeOK, NoOp, Save, Store
<1>2. row' = op[t].next /\ row' # None
  BY StoreTyped, NoneIsNoRow DEF Save, HeldInv, OrderedInv
<1>3. op[t].next.epoch \in Seen(row', past')
  BY <1>2 DEF Seen, EpochOf
<1>4. /\ \A u \in Threads \ {t} : op'[u] = op[u]
      /\ op'[t] = NoOp \/ op'[t] = At(op[t], "begun")
  BY <1>1 DEF Save, AfterSave
<1>5. LET o == At(op[t], "begun")
      IN o.kind = op[t].kind /\ o.stage = "begun" /\ o.next = op[t].next
  BY DEF At
<1> QED BY <1>1, <1>3, <1>4, <1>5, HeldStay DEF Save

LEMMA HeldSaveFails ==
  ASSUME HeldInv, NEW t \in Threads, SaveFails(t)
  PROVE  Held'
<1> DEFINE p == Owner[t]
<1>1. op \in [Threads -> Op] /\ op[t] # NoOp /\ p \in Processes
  <2>1. op[t].stage # NoOp.stage
    BY DEF NoOp, SaveFails
  <2> QED BY <2>1, CoordinatorAssumption DEF HeldInv, OrderedInv, SoundInv, TypeOK
<1>2. past \subseteq past' /\ Seen(row, past) \subseteq Seen(row', past')
  BY SeenGrows DEF SaveFails, HeldInv
<1>3. /\ Trip(p) /\ started' = started /\ NoOp.stage = "idle" /\ NoOp.kind = "none"
      /\ \A u \in Threads : op'[u] = IF u = t THEN NoOp ELSE op[u]
  BY Zenon, <1>1 DEF SaveFails, NoOp
<1>4. /\ Remembers(p)' /\ Holds(p)'
      /\ \A q \in Processes \ {p} : memory'[q] = memory[q] /\ tripped'[q] = tripped[q]
  BY Zenon, <1>1, <1>2, <1>3, HeldTrip
<1>5. ASSUME NEW q \in Processes \ {p} PROVE Remembers(q)' /\ Holds(q)'
  BY Zenon, <1>2, <1>3, <1>4, HeldProcess
<1>6. ASSUME NEW u \in Threads PROVE Alone(u)' /\ Begun(u)'
  <2>1. op[u].kind = "begin" /\ op'[u].kind = "begin" => Owner[u] # p
    BY <1>1, <1>3 DEF HeldInv, Held, Alone
  <2>2. Owner[u] \in Processes
    BY CoordinatorAssumption
  <2> QED BY Zenon, <1>2, <1>3, <1>4, <2>1, <2>2, HeldThread
<1> QED BY <1>4, <1>5, <1>6 DEF Held

LEMMA HeldObserveNew ==
  ASSUME HeldInv, NEW t \in Threads, ObserveNew(t)
  PROVE  Held'
<1> DEFINE p == Owner[t]  e == op[t].next.epoch
<1>1. /\ op \in [Threads -> Op] /\ p \in Processes /\ row' = row /\ past' = past
      /\ tripped' = tripped /\ started' = started \cup {p} /\ op[t].stage = "begun"
  BY Zenon, CoordinatorAssumption DEF HeldInv, OrderedInv, SoundInv, TypeOK, ObserveNew
<1>2. op[t].kind = "begin" /\ e \in Nat \ {0} /\ op[t] # NoOp
  BY SMT, SMTT(30), <1>1 DEF HeldInv, OrderedInv, SoundInv, Sound, TypeOK, Op, RowUpTo, Epochs, NoOp
<1>3. tripped[p] = {} /\ e \in Seen(row, past)
  BY Zenon, <1>1, <1>2 DEF HeldInv, Held, Alone, Begun
<1>4. /\ memory'[p] = [last |-> e, uncertain |-> FALSE, epoch |-> 0]
      /\ \A q \in Processes \ {p} : memory'[q] = memory[q]
      /\ \A u \in Threads : op'[u] = IF u = t THEN NoOp ELSE op[u]
  BY <1>1 DEF ObserveNew, observeNewEpoch, HeldInv, OrderedInv, SoundInv, TypeOK
<1>5. NoOp.stage = "idle" /\ NoOp.kind = "none"
  BY DEF NoOp
<1>6. Remembers(p)' /\ Holds(p)'
  <2>1. /\ memory'[p].last = e /\ ~memory'[p].uncertain /\ tripped'[p] = {}
        /\ Seen(row', past') = Seen(row, past)
    <3>1. memory'[p].last = e /\ ~memory'[p].uncertain
      BY <1>4
    <3>2. tripped'[p] = {} /\ Seen(row', past') = Seen(row, past)
      BY <1>1, <1>3
    <3> QED BY <3>1, <3>2
  <2>2. Remembers(p)'
    BY <1>3, <2>1 DEF Remembers
  <2>3. Holds(p)'
    BY <2>1 DEF Holds
  <2> QED BY <2>2, <2>3
<1>7. ASSUME NEW q \in Processes \ {p} PROVE Remembers(q)' /\ Holds(q)'
  BY Zenon, <1>1, <1>4, <1>5, HeldProcess
<1>8. ASSUME NEW u \in Threads PROVE Alone(u)' /\ Begun(u)'
  <2>1. op[u].kind = "begin" /\ op'[u].kind = "begin" => Owner[u] # p
    BY Zenon, <1>2, <1>4, <1>5 DEF HeldInv, Held, Alone
  <2> QED BY <1>1, <1>4, <1>5, <2>1, HeldThread
<1> QED BY <1>6, <1>7, <1>8 DEF Held

LEMMA HeldRestart ==
  ASSUME HeldInv, NEW p \in Processes, Restart(p)
  PROVE  Held'
<1>1. /\ row' = row /\ past' = past /\ started' = started \ {p}
      /\ memory'[p] = NewMemory /\ tripped'[p] = {}
      /\ \A q \in Processes \ {p} : memory'[q] = memory[q] /\ tripped'[q] = tripped[q]
      /\ \A u \in Threads : op'[u] = IF Owner[u] = p THEN NoOp ELSE op[u]
  BY DEF Restart, HeldInv, OrderedInv, SoundInv, TypeOK
<1>2. NoOp.stage = "idle" /\ NoOp.kind = "none"
  BY DEF NoOp
<1>3. Remembers(p)' /\ Holds(p)'
  <2>1. memory'[p].last = 0 /\ ~memory'[p].uncertain /\ 0 \in Seen(row', past')
    <3>1. memory'[p].last = 0 /\ ~memory'[p].uncertain
      BY <1>1 DEF NewMemory
    <3>2. 0 \in Seen(row', past')
      BY DEF Seen
    <3> QED BY <3>1, <3>2
  <2>2. Remembers(p)'
    BY Zenon, <1>1, <2>1 DEF Remembers
  <2>3. Holds(p)'
    BY <1>1 DEF Holds
  <2> QED BY <2>2, <2>3
<1>4. ASSUME NEW q \in Processes \ {p} PROVE Remembers(q)' /\ Holds(q)'
  BY Zenon, <1>1, <1>2, HeldProcess
<1>5. ASSUME NEW u \in Threads PROVE Alone(u)' /\ Begun(u)'
  <2>1. Owner[u] \in Processes /\ (op'[u].kind = "begin" => Owner[u] # p)
    BY <1>1, <1>2, CoordinatorAssumption
  <2>2. op'[u].stage = "begun" => op'[u] = op[u]
    BY <1>1, <1>2
  <2>3. \A v \in Threads : op'[v] = op[v] \/ op'[v] = NoOp
    BY <1>1
  <2> QED BY Zenon, <1>1, <2>1, <2>2, <2>3, HeldThread
<1> QED BY <1>3, <1>4, <1>5 DEF Held

LEMMA HeldStep == HeldInv /\ [Next]_vars => HeldInv'
<1> SUFFICES ASSUME HeldInv, [Next]_vars PROVE Held'
  BY OrderedStep DEF HeldInv
<1>0. op \in [Threads -> Op]
  BY Zenon DEF HeldInv, OrderedInv, SoundInv, TypeOK
<1>1. CASE UNCHANGED vars
  BY <1>1, HeldStay DEF vars
<1>2. ASSUME NEW t \in Threads, Begin(t) PROVE Held'
  BY Zenon, <1>2, HeldDecide DEF Begin
<1>3. ASSUME NEW t \in Threads, NEW phase \in Phases, NEW proof, Advance(t, phase, proof)
      PROVE  Held'
  BY Zenon, <1>3, HeldDecide DEF Advance
<1>4. ASSUME NEW t \in Threads, Promote(t) PROVE Held'
  BY Zenon, <1>4, HeldDecide DEF Promote
<1>5. ASSUME NEW t \in Threads, NEW phase \in FailurePhases, Fail(t, phase) PROVE Held'
  BY Zenon, <1>5, HeldDecide DEF Fail
<1>6. ASSUME NEW t \in Threads, Admit(t) PROVE Held'
  BY <1>0, <1>6, HeldStay DEF Admit
<1>7. ASSUME NEW t \in Threads, Select(t) PROVE Held'
  BY <1>0, <1>7, HeldStay DEF Select, NoOp
<1>8. CASE Bind
  BY <1>8, HeldStay DEF Bind, validateSample, Sample
<1> QED BY <1>1, <1>2, <1>3, <1>4, <1>5, <1>6, <1>7, <1>8, HeldLoad, HeldLoadFails,
           HeldObserve, HeldSave, HeldSaveFails, HeldObserveNew, HeldRestart DEF Next

(* Once a process has tripped its breaker in an epoch, with none of its      *)
(* operations about to observe another, it takes that epoch to be uncertain  *)
(* for as long as the epoch is current: no observation of a loaded row, no   *)
(* conflict and no late answer of the store clears it (observeEpoch,         *)
(* markContinuityUncertain), whatever other processes begin meanwhile.       *)
THEOREM BreakerStays == Spec => []BreakerHolds
<1>1. HeldInv => BreakerHolds
  <2> SUFFICES ASSUME HeldInv, NEW p \in Processes, row # None, row.epoch \in tripped[p]
               PROVE  Uncertain(p, row)
    BY DEF BreakerHolds
  <2>1. row.epoch \notin past /\ row.epoch # 0
    BY DEF HeldInv, OrderedInv, Ordered, RowsOrdered, EpochOf, SoundInv, TypeOK, Row, RowUpTo, Epochs
  <2> QED BY <2>1 DEF HeldInv, Held, Holds, Uncertain
<1> QED BY <1>1, HeldInit, HeldStep, PTL DEF Spec
=============================================================================
