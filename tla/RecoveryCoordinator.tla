------------------------ MODULE RecoveryCoordinator ------------------------
(***************************************************************************)
(* The recovery gate of a market (trading/recovery): an epoch is taken     *)
(* from bootstrap to writable through a fixed chain of phases, each step a *)
(* compare-and-set on one database row, and writes are admitted only in a  *)
(* writable epoch.  A coordinator that meets a store error trips its own   *)
(* in-memory breaker.                                                      *)
(*                                                                         *)
(* Every operation is a load, an observation of the epoch, a decision on   *)
(* the effective status and possibly a save; operations of the threads of  *)
(* one or more processes interleave between those steps.                   *)
(*                                                                         *)
(* Abstracted: the local proof (state hash, ledger, events, projections,   *)
(* outbox) is one Boolean; a release stands for its provenance; transport  *)
(* evidence is valid or the promotion is not attempted; timestamps and     *)
(* error texts are left out.                                               *)
(***************************************************************************)
EXTENDS Integers, FiniteSets

CONSTANTS
  Processes, Threads,
  Owner,        \* the process of a thread
  Release,      \* the release a process runs
  None,
  MaxEpoch,     \* bound: epochs begun
  MaxVersion    \* bound: saves

Releases == {Release[p] : p \in Processes}

Chain == <<"bootstrap", "dependencies_ready", "trading_replay",
           "reconciling", "read_only", "transport_warmup">>
FailurePhases == {"offline", "manual_review"}
Phases == {Chain[i] : i \in 1..6} \cup {"writable"} \cup FailurePhases

Epochs == 1..MaxEpoch

RowUpTo(version) ==
  [epoch: Epochs, version: 1..version, phase: Phases, proved: BOOLEAN,
   transport: BOOLEAN, writes: BOOLEAN, release: Releases]

Row == RowUpTo(MaxVersion)

ASSUME CoordinatorAssumption ==
  /\ Owner \in [Threads -> Processes]
  /\ MaxEpoch \in Nat /\ MaxVersion \in Nat
  /\ None \notin RowUpTo(MaxVersion + 1)

VARIABLES
  row,      \* the current epoch's row
  epochs,   \* number of epoch ids handed out (newEpochID)
  memory,   \* per process: last observed epoch, breaker, epoch of the breaker
  started,  \* the processes whose own epoch has begun (service.New)
  op,       \* per thread: the operation in progress
  binding,  \* what the operator has observed and is about to promote
  tripped,  \* history: the epochs in which a process tripped its breaker
  past      \* history: the epochs that another epoch has replaced

vars == <<row, epochs, memory, started, op, binding, tripped, past>>

NewMemory == [last |-> 0, uncertain |-> FALSE, epoch |-> 0]

NoOp == [kind |-> "none", stage |-> "idle", row |-> None, next |-> None,
         seen |-> 0]

At(o, stage) == [kind |-> o.kind, stage |-> stage, row |-> o.row, next |-> o.next,
                 seen |-> o.seen]

Init ==
  /\ row = None /\ epochs = 0 /\ binding = None
  /\ memory = [p \in Processes |-> NewMemory]
  /\ started = {} /\ op = [t \in Threads |-> NoOp]
  /\ tripped = [p \in Processes |-> {}] /\ past = {}

-----------------------------------------------------------------------------
(* The breaker; epoch 0 is the empty epoch id *)

markContinuityUncertain(m) ==
  IF m.uncertain THEN m ELSE [m EXCEPT !.uncertain = TRUE, !.epoch = m.last]

\* Mutant: seeing the same epoch again clears the breaker.
observeAnyEpoch(m, epoch) ==
  IF m.uncertain /\ m.epoch # 0
    THEN [last |-> epoch, uncertain |-> FALSE, epoch |-> 0]
    ELSE [m EXCEPT !.last = epoch]

observeEpoch(m, epoch) ==
  IF m.uncertain /\ m.epoch # 0 /\ m.epoch # epoch
    THEN [last |-> epoch, uncertain |-> FALSE, epoch |-> 0]
    ELSE [m EXCEPT !.last = epoch]

observeNewEpoch(m, epoch) == [last |-> epoch, uncertain |-> FALSE, epoch |-> 0]

\* Whether the effective status of a loaded row is continuity-uncertain.
Uncertain(p, r) ==
  \/ r.release # Release[p]
  \/ memory[p].uncertain /\ memory[p].epoch \in {0, r.epoch}

effectiveStatus(p, r) ==
  [r EXCEPT !.writes = @ /\ ~Uncertain(p, r),
            !.transport = @ /\ ~Uncertain(p, r)]

\* An operation of the process holds the row of another epoch than the last
\* one observed, and is about to observe that one.
Overtaken(p) ==
  \E t \in Threads : /\ Owner[t] = p /\ op[t].stage = "loaded" /\ op[t].row # None
                     /\ op[t].row.epoch # memory[p].last

Trip(p) ==
  /\ memory' = [memory EXCEPT ![p] = markContinuityUncertain(@)]
  /\ tripped' = [tripped EXCEPT ![p] =
                   IF Overtaken(p) THEN @ ELSE @ \cup {memory[p].last}]

-----------------------------------------------------------------------------
(* Operations *)

Kinds == {"begin", "advance", "promote", "fail", "admit"}

\* A process begins an epoch before it does anything else, and ends if that
\* fails.  Processes start while there are epochs left within the bound.
MayLoad(t, kind) ==
  /\ op[t] = NoOp
  /\ IF Owner[t] \in started THEN kind # "begin"
     ELSE /\ kind = "begin" /\ epochs < MaxEpoch
          /\ memory[Owner[t]] = NewMemory
          /\ \A u \in Threads : Owner[u] = Owner[t] => op[u] = NoOp

Load(t, kind) ==
  /\ MayLoad(t, kind)
  /\ op' = [op EXCEPT ![t] = [kind |-> kind, stage |-> "loaded", row |-> row,
                              next |-> None, seen |-> 0]]
  /\ UNCHANGED <<row, epochs, memory, started, binding, tripped, past>>

LoadFails(t) ==
  /\ \E kind \in Kinds : MayLoad(t, kind)
  /\ Trip(Owner[t])
  /\ UNCHANGED <<row, epochs, started, op, binding, past>>

Observe(t) ==
  /\ op[t].stage = "loaded"
  /\ memory' = IF op[t].row = None THEN memory
               ELSE [memory EXCEPT ![Owner[t]] =
                       observeEpoch(@, op[t].row.epoch)]
  /\ op' = [op EXCEPT ![t] = At(@, "observed")]
  /\ UNCHANGED <<row, epochs, started, binding, tripped, past>>

allowedTransition(current, next) ==
  IF next \in FailurePhases THEN current \notin FailurePhases
  ELSE \E i \in 1..5 : current = Chain[i] /\ next = Chain[i + 1]

requiresLocalProof(phase) == phase \in {"read_only", "transport_warmup"}

\* The decision goes on to save the row `next', or the operation ends.
Decide(t, ok, next) ==
  op' = [op EXCEPT ![t] =
           IF ok THEN [kind |-> @.kind, stage |-> "save", row |-> @.row,
                       next |-> next, seen |-> 0]
           ELSE NoOp]

\* The row of the same epoch that follows r.
Successor(r, phase, proved, transport, writes) ==
  [epoch |-> r.epoch, version |-> r.version + 1, phase |-> phase, proved |-> proved,
   transport |-> transport, writes |-> writes, release |-> r.release]

Begin(t) ==
  /\ op[t].kind = "begin" /\ op[t].stage = "observed" /\ epochs < MaxEpoch
  /\ epochs' = epochs + 1
  /\ Decide(t, TRUE,
       [epoch |-> epochs + 1,
        version |-> IF op[t].row = None THEN 1 ELSE op[t].row.version + 1,
        phase |-> "bootstrap", proved |-> FALSE, transport |-> FALSE,
        writes |-> FALSE, release |-> Release[Owner[t]]])
  /\ UNCHANGED <<row, memory, started, binding, tripped, past>>

mergeProof(current, update) == current.proved \/ update

Advance(t, phase, proof) ==
  /\ op[t].kind = "advance" /\ op[t].stage = "observed"
  /\ LET current == effectiveStatus(Owner[t], op[t].row)
         proved == mergeProof(current, proof)
     IN Decide(t, /\ ~Uncertain(Owner[t], op[t].row)
                  /\ allowedTransition(current.phase, phase)
                  /\ requiresLocalProof(phase) => proved,
               Successor(current, phase, proved, FALSE, FALSE))
  /\ UNCHANGED <<row, epochs, memory, started, binding, tripped, past>>

\* What a probe shows, over the loopback and the public address alike.
Sample == row

validateSample(sample) ==
  /\ sample # None /\ sample.phase = "transport_warmup"
  /\ sample.proved /\ ~sample.writes /\ ~sample.transport

\* The operator has watched the transport of one status for the whole window.
Bind ==
  /\ validateSample(Sample)
  /\ binding' = Sample
  /\ UNCHANGED <<row, epochs, memory, started, op, tripped, past>>

\* Mutant: a promotion is not held to the state the operator observed.
matchesAnyBinding(r) == binding # None

matchesBinding(r) ==
  /\ binding # None
  /\ r.epoch = binding.epoch /\ r.version = binding.version
  /\ r.proved = binding.proved /\ r.release = binding.release

Promote(t) ==
  /\ op[t].kind = "promote" /\ op[t].stage = "observed"
  /\ LET current == effectiveStatus(Owner[t], op[t].row)
     IN Decide(t, /\ ~Uncertain(Owner[t], op[t].row)
                  /\ current.phase = "transport_warmup"
                  /\ matchesBinding(current) /\ current.proved,
               Successor(current, "writable", TRUE, TRUE, TRUE))
  /\ UNCHANGED <<row, epochs, memory, started, binding, tripped, past>>

\* Mutant: a failed epoch keeps its writes enabled.
FailKeepsWrites(t, phase) ==
  /\ op[t].kind = "fail" /\ op[t].stage = "observed"
  /\ LET current == effectiveStatus(Owner[t], op[t].row)
     IN Decide(t, TRUE, Successor(current, phase, current.proved,
                                  current.transport, current.writes))
  /\ UNCHANGED <<row, epochs, memory, started, binding, tripped, past>>

Fail(t, phase) ==
  /\ op[t].kind = "fail" /\ op[t].stage = "observed"
  /\ LET current == effectiveStatus(Owner[t], op[t].row)
     IN Decide(t, TRUE, Successor(current, phase, current.proved,
                                  current.transport, FALSE))
  /\ UNCHANGED <<row, epochs, memory, started, binding, tripped, past>>

\* Admit, RequireWritable, Status: operations that end without a save.
Admit(t) ==
  /\ op[t].kind = "admit" /\ op[t].stage = "observed"
  /\ op' = [op EXCEPT ![t] = NoOp]
  /\ UNCHANGED <<row, epochs, memory, started, binding, tripped, past>>

-----------------------------------------------------------------------------
(* Save.  The transaction first selects the current epoch, locking the      *)
(* `current' row, and its version, from the `epoch' row it does not lock: a *)
(* transaction that waits for the lock goes on with the version it saw      *)
(* before the wait.  Its update then runs on fresh data.                    *)

EpochOf(r) == IF r = None THEN 0 ELSE r.epoch
VersionOf(r) == IF r = None THEN 0 ELSE r.version

Select(t) ==
  /\ op[t].stage = "save" /\ op[t].next.version = VersionOf(row) + 1
  /\ op' = [op EXCEPT ![t] = [kind |-> @.kind, stage |-> "selected", row |-> @.row,
                              next |-> @.next, seen |-> EpochOf(row)]]
  /\ UNCHANGED <<row, epochs, memory, started, binding, tripped, past>>

\* Mutant: the update does not repeat the version check.
UpdateUnchecked(o) == EpochOf(row) = o.seen

\* A new epoch replaces the epoch selected; the row of an epoch is updated
\* where its version is still the expected one and the epoch still current.
\* An update in place of an epoch that is not the one selected would insert
\* that epoch a second time, which its primary key refuses.
UpdateApplies(o) ==
  /\ EpochOf(row) = o.seen
  /\ o.kind # "begin" => /\ o.seen = o.next.epoch
                         /\ o.next.version = VersionOf(row) + 1

\* A new epoch is observed after its row is saved.
AfterSave(t) ==
  op' = [op EXCEPT ![t] = IF @.kind = "begin" THEN At(@, "begun") ELSE NoOp]

Store(t) ==
  /\ op[t].stage = "selected" /\ UpdateApplies(op[t])
  /\ op[t].next.version <= MaxVersion
  /\ row' = op[t].next
  /\ past' = past \cup ({EpochOf(row)} \ {0, op[t].next.epoch})

Save(t) ==
  /\ Store(t)
  /\ AfterSave(t)
  /\ UNCHANGED <<epochs, memory, started, binding, tripped>>

\* A version conflict or a store error; the row may have been saved.
SaveFails(t) ==
  /\ op[t].stage \in {"save", "selected"}
  /\ Store(t) \/ UNCHANGED <<row, past>>
  /\ Trip(Owner[t])
  /\ op' = [op EXCEPT ![t] = NoOp]
  /\ UNCHANGED <<epochs, started, binding>>

ObserveNew(t) ==
  /\ op[t].stage = "begun"
  /\ memory' = [memory EXCEPT ![Owner[t]] =
                  observeNewEpoch(@, op[t].next.epoch)]
  /\ started' = started \cup {Owner[t]}
  /\ op' = [op EXCEPT ![t] = NoOp]
  /\ UNCHANGED <<row, epochs, binding, tripped, past>>

\* A process ends; its successor starts with a new coordinator.
Restart(p) ==
  /\ epochs < MaxEpoch
  /\ memory' = [memory EXCEPT ![p] = NewMemory]
  /\ started' = started \ {p}
  /\ op' = [t \in Threads |-> IF Owner[t] = p THEN NoOp ELSE op[t]]
  /\ tripped' = [tripped EXCEPT ![p] = {}]
  /\ UNCHANGED <<row, epochs, binding, past>>

Next ==
  \/ \E t \in Threads, kind \in Kinds : Load(t, kind)
  \/ \E t \in Threads : \/ LoadFails(t) \/ Observe(t) \/ Begin(t)
                        \/ Promote(t) \/ Admit(t)
                        \/ Select(t) \/ Save(t) \/ SaveFails(t) \/ ObserveNew(t)
  \/ \E t \in Threads, phase \in Phases \ {"writable"}, proof \in BOOLEAN :
       Advance(t, phase, proof)
  \/ \E t \in Threads, phase \in FailurePhases : Fail(t, phase)
  \/ \E p \in Processes : Restart(p)
  \/ Bind

Spec == Init /\ [][Next]_vars

-----------------------------------------------------------------------------
(* Properties *)

Op == [kind: Kinds \cup {"none"},
       stage: {"idle", "loaded", "observed", "save", "selected", "begun"},
       row: Row \cup {None}, next: RowUpTo(MaxVersion + 1) \cup {None},
       seen: 0..MaxEpoch]

\* The type invariant of the recovery row, the breakers and the operations.
TypeOK ==
  /\ row \in Row \cup {None} /\ binding \in Row \cup {None}
  /\ epochs \in 0..MaxEpoch /\ started \subseteq Processes
  /\ memory \in [Processes -> [last: 0..MaxEpoch, uncertain: BOOLEAN,
                               epoch: 0..MaxEpoch]]
  /\ op \in [Threads -> Op]
  /\ tripped \in [Processes -> SUBSET (0..MaxEpoch)] /\ past \subseteq Epochs

\* Writes are enabled only in a writable epoch with a complete local proof
\* and promoted transport evidence, whatever operations raced to save it.
WritesNeedProof ==
  /\ TypeOK
  /\ row # None /\ row.writes =>
       row.phase = "writable" /\ row.proved /\ row.transport

\* An epoch moves only forward: one link of the chain, to writable from
\* warm-up, or to a failure phase, which it never leaves. A replaced epoch
\* never becomes current again, within an epoch every save replaces the very
\* row its operation had loaded, and an epoch becomes writable only from the
\* row the operator observed the transport for: nothing was saved in between.
ForwardOnly ==
  [][row # None /\ row' # row =>
       /\ row'.epoch \notin past
       /\ row'.epoch = row.epoch =>
            /\ \/ row'.phase \in FailurePhases
               \/ row.phase = "transport_warmup" /\ row'.phase = "writable"
               \/ allowedTransition(row.phase, row'.phase)
            /\ \E t \in Threads : op[t].row = row /\ op[t].next = row'
       /\ row.phase # "writable" /\ row'.phase = "writable" => row = binding]_vars

\* Once a process has tripped its breaker in an epoch, while none of its
\* operations was about to observe another one, it takes that epoch to be
\* uncertain, and so admits no write in it, until another epoch begins.
BreakerHolds ==
  \A p \in Processes :
    row # None /\ row.epoch \in tripped[p] => Uncertain(p, row)

=============================================================================
