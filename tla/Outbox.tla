------------------------------- MODULE Outbox -------------------------------
(***************************************************************************)
(* The transactional outbox of a market (trading/outbox and the outbox     *)
(* operations of trading/store/postgres): a command's transaction inserts  *)
(* its events as unpublished rows, and a publisher moves them to the feed  *)
(* in batches, advances the checkpoint and later deletes published rows.   *)
(* The publishers of two processes may overlap during a restart.           *)
(*                                                                         *)
(* service.Backend lets a restarted process leave its reconciling phase    *)
(* when the checkpoint its publisher shows equals the event head recorded  *)
(* when the process was built (completeLocalRecovery).                     *)
(*                                                                         *)
(* Abstracted: delays and the cleanup clock (a cleanup may be due after    *)
(* any publish, and the retention boundary may fall anywhere among the     *)
(* published rows, which are published in cursor order); the phases after  *)
(* reconciling, in which writes are opened, are RecoveryCoordinator's.     *)
(***************************************************************************)
EXTENDS EventFeed

CONSTANTS
  Processes, None,
  BatchSize, CleanupBatchSize, MaximumCleanupRuns,
  MaxStarts,    \* bound: process starts
  LostReplies   \* bound: publish commits whose reply is lost

ASSUME OutboxAssumption ==
  /\ BatchSize \in Nat \ {0} /\ CleanupBatchSize \in Nat \ {0}
  /\ MaximumCleanupRuns \in Nat \ {0}
  /\ MaxStarts \in Nat /\ LostReplies \in Nat

VARIABLES
  unpublished,  \* trading_outbox rows with published_at null
  published,    \* trading_outbox rows with published_at set
  checkpoint,   \* trading_outbox_checkpoint
  pub,          \* per process: its publisher
  head,         \* per process: recoveryHead, None once reconciling is left
  writing,      \* per process: the append transaction in flight
  current,      \* the process whose recovery epoch is the current one
  starts, lost

database == <<batches, feed, unpublished, published, checkpoint>>
vars == <<database, pub, head, writing, current, starts, lost>>

NewPublisher(stage) ==
  [stage |-> stage, picked |-> {}, initialized |-> FALSE,
   checkpoint |-> Zero, state |-> "starting", cleanupDegraded |-> FALSE,
   runs |-> 0]

Init ==
  /\ FeedInit
  /\ unpublished = {} /\ published = {} /\ checkpoint = Zero
  /\ pub = [p \in Processes |-> NewPublisher("down")]
  /\ head = [p \in Processes |-> None]
  /\ writing = [p \in Processes |-> None]
  /\ current = None /\ starts = 0 /\ lost = 0

Up(p) == pub[p].stage # "down"

-----------------------------------------------------------------------------
(* Processes and their commands *)

Start(p) ==
  /\ ~Up(p) /\ starts < MaxStarts
  /\ pub' = [pub EXCEPT ![p] = NewPublisher("wait")]
  /\ head' = [head EXCEPT ![p] = EventHead(batches)]
  /\ current' = p /\ starts' = starts + 1
  /\ UNCHANGED <<database, writing, lost>>

\* A process stops or dies at any point: a transaction of its publisher that
\* has not committed is rolled back.  The last one within the bound stays up.
Stop(p) ==
  /\ Up(p) /\ starts < MaxStarts
  /\ pub' = [pub EXCEPT ![p] = NewPublisher("down")]
  /\ head' = [head EXCEPT ![p] = None]
  /\ UNCHANGED <<database, writing, current, starts, lost>>

\* A command is admitted in the current epoch; its transaction may outlive
\* the epoch and the process.
BeginAppend(p, n) ==
  /\ p = current /\ Up(p) /\ head[p] = None /\ writing[p] = None
  /\ Len(batches) < MaxBatches
  /\ writing' = [writing EXCEPT ![p] = [expected |-> Len(batches), size |-> n]]
  /\ UNCHANGED <<database, pub, head, current, starts, lost>>

CommitAppend(p) ==
  /\ writing[p] # None
  /\ writing[p].expected = Len(batches)
  /\ batches' = Append(batches, writing[p].size)
  /\ unpublished' = unpublished \cup (Events(batches') \ Events(batches))
  /\ writing' = [writing EXCEPT ![p] = None]
  /\ UNCHANGED <<feed, published, checkpoint, pub, head, current, starts, lost>>

\* The stream moved on (ErrSequenceConflict), or the transaction fails.
AbortAppend(p) ==
  /\ writing[p] # None
  /\ writing' = [writing EXCEPT ![p] = None]
  /\ UNCHANGED <<database, pub, head, current, starts, lost>>

-----------------------------------------------------------------------------
(* The publisher's status *)

recordError(s) == [s EXCEPT !.state = "degraded"]

\* Mutant: a successful publish hides a cleanup error.
recordPublishReady(s) ==
  [s EXCEPT !.state = "ready",
            !.checkpoint = IF s.picked = {} THEN @ ELSE Last(s.picked)]

recordPublish(s) ==
  [s EXCEPT !.state = IF s.cleanupDegraded THEN @ ELSE "ready",
            !.checkpoint = IF s.picked = {} THEN @ ELSE Last(s.picked)]

recordCleanupError(s) == recordError([s EXCEPT !.cleanupDegraded = TRUE])

recordCleanup(s) == [s EXCEPT !.cleanupDegraded = FALSE, !.state = "ready"]

-----------------------------------------------------------------------------
(* Publisher.Run *)

AtStage(p, stage) == pub[p].stage = stage

GoTo(s, stage) == [s EXCEPT !.stage = stage]

Retry(s) == GoTo([s EXCEPT !.picked = {}], "wait")

OnlyPublisher(p, s) ==
  /\ pub' = [pub EXCEPT ![p] = s]
  /\ UNCHANGED <<head, writing, current, starts>>

\* Mutant: the checkpoint of an earlier process is not loaded.
LoadNothing(p) ==
  /\ AtStage(p, "wait") /\ ~pub[p].initialized
  /\ OnlyPublisher(p, [pub[p] EXCEPT !.initialized = TRUE])
  /\ UNCHANGED <<database, lost>>

LoadCheckpoint(p) ==
  /\ AtStage(p, "wait") /\ ~pub[p].initialized
  /\ OnlyPublisher(p, [pub[p] EXCEPT !.initialized = TRUE,
                                     !.checkpoint = checkpoint])
  /\ UNCHANGED <<database, lost>>

LoadFails(p) ==
  /\ AtStage(p, "wait") /\ ~pub[p].initialized
  /\ OnlyPublisher(p, recordError(pub[p]))
  /\ UNCHANGED <<database, lost>>

InTransaction(p) == pub[p].stage \in {"locked", "picked"}

\* Mutant: no advisory lock, two publishers pick at the same time.
LockNothing(p) ==
  /\ AtStage(p, "wait") /\ pub[p].initialized
  /\ OnlyPublisher(p, GoTo(pub[p], "locked"))
  /\ UNCHANGED <<database, lost>>

\* Mutant: the publisher gives up after an error.
LockUnlessDegraded(p) ==
  /\ AtStage(p, "wait") /\ pub[p].initialized /\ pub[p].state # "degraded"
  /\ \A q \in Processes : ~InTransaction(q)
  /\ OnlyPublisher(p, GoTo(pub[p], "locked"))
  /\ UNCHANGED <<database, lost>>

\* pg_advisory_xact_lock, held until the transaction ends
Lock(p) ==
  /\ AtStage(p, "wait") /\ pub[p].initialized
  /\ \A q \in Processes : ~InTransaction(q)
  /\ OnlyPublisher(p, GoTo(pub[p], "locked"))
  /\ UNCHANGED <<database, lost>>

\* FOR UPDATE SKIP LOCKED, ORDER BY the cursor, LIMIT
Pick(p) ==
  /\ AtStage(p, "locked")
  /\ LET others == {q \in Processes : InTransaction(q)}
         locked == UNION {pub[q].picked : q \in others}
     IN  OnlyPublisher(p, GoTo([pub[p] EXCEPT
           !.picked = First(BatchSize, unpublished \ locked)], "picked"))
  /\ UNCHANGED <<database, lost>>

\* The upsert of trading_outbox_checkpoint
Advance(c, rows) ==
  IF rows # {} /\ Before(c, Last(rows)) THEN Last(rows) ELSE c

\* Mutant: the source rows are deleted without being fed.
MarkOnly(rows) ==
  /\ unpublished' = unpublished \ rows /\ published' = published \cup rows
  /\ checkpoint' = Advance(checkpoint, rows)
  /\ UNCHANGED <<batches, feed>>

\* What the commit of a publish transaction makes visible
PublishRows(rows) ==
  /\ feed' = feed \cup rows
  /\ unpublished' = unpublished \ rows /\ published' = published \cup rows
  /\ checkpoint' = Advance(checkpoint, rows)
  /\ UNCHANGED batches

Commit(p) ==
  /\ AtStage(p, "picked")
  /\ PublishRows(pub[p].picked)
  /\ OnlyPublisher(p, GoTo(pub[p], "committed"))
  /\ UNCHANGED lost

\* ErrCommitOutcomeUnknown of a commit that took effect
CommitReplyLost(p) ==
  /\ AtStage(p, "picked") /\ lost < LostReplies
  /\ PublishRows(pub[p].picked)
  /\ OnlyPublisher(p, Retry(recordError(pub[p])))
  /\ lost' = lost + 1

\* Any error that leaves the transaction rolled back
PublishFails(p) ==
  /\ InTransaction(p) \/ (AtStage(p, "wait") /\ pub[p].initialized)
  /\ OnlyPublisher(p, Retry(recordError(pub[p])))
  /\ UNCHANGED <<database, lost>>

RecordPublish(p) ==
  /\ AtStage(p, "committed")
  /\ \E stage \in {"wait", "cleanup"} :
       OnlyPublisher(p, GoTo([recordPublish(pub[p]) EXCEPT !.picked = {}],
                             stage))
  /\ UNCHANGED <<database, lost>>

\* Mutant: a cleanup runs until nothing is left.
CleanupUnbounded(p) ==
  /\ AtStage(p, "cleanup")
  /\ \E n \in 0..CleanupBatchSize :
       LET doomed == First(n, published \cap feed)
       IN  /\ published' = published \ doomed
           /\ IF Cardinality(doomed) < CleanupBatchSize
              THEN OnlyPublisher(p, GoTo([recordCleanup(pub[p]) EXCEPT
                                            !.runs = 0], "wait"))
              ELSE OnlyPublisher(p, [pub[p] EXCEPT !.runs = @ + 1])
  /\ UNCHANGED <<batches, feed, unpublished, checkpoint, lost>>

\* CleanupPublishedOutbox
CleanupRun(p) ==
  /\ AtStage(p, "cleanup")
  /\ \E n \in 0..CleanupBatchSize :
       LET doomed == First(n, published \cap feed)
           runs   == pub[p].runs + 1
       IN  /\ published' = published \ doomed
           /\ IF Cardinality(doomed) < CleanupBatchSize
                 \/ runs = MaximumCleanupRuns
              THEN OnlyPublisher(p, GoTo([recordCleanup(pub[p]) EXCEPT
                                            !.runs = 0], "wait"))
              ELSE OnlyPublisher(p, [pub[p] EXCEPT !.runs = runs])
  /\ UNCHANGED <<batches, feed, unpublished, checkpoint, lost>>

CleanupFails(p) ==
  /\ AtStage(p, "cleanup")
  /\ OnlyPublisher(p, GoTo([recordCleanupError(pub[p]) EXCEPT !.runs = 0],
                           "wait"))
  /\ UNCHANGED <<database, lost>>

-----------------------------------------------------------------------------
\* Mutant: any state of the publisher will do, its checkpoint need not match.
CompleteWhenUp(p) ==
  /\ Up(p) /\ head[p] # None
  /\ pub[p].state = "ready"
  /\ head' = [head EXCEPT ![p] = None]
  /\ UNCHANGED <<database, pub, writing, current, starts, lost>>

completeLocalRecovery(p) ==
  /\ Up(p) /\ head[p] # None
  /\ pub[p].state = "ready" /\ pub[p].checkpoint = head[p]
  /\ head' = [head EXCEPT ![p] = None]
  /\ UNCHANGED <<database, pub, writing, current, starts, lost>>

Publisher(p) ==
  \/ LoadCheckpoint(p) \/ LoadFails(p) \/ Lock(p) \/ Pick(p) \/ Commit(p)
  \/ CommitReplyLost(p) \/ PublishFails(p) \/ RecordPublish(p)
  \/ CleanupRun(p) \/ CleanupFails(p)

Next ==
  \E p \in Processes :
    \/ Start(p) \/ Stop(p)
    \/ \E n \in 1..MaxEvents : BeginAppend(p, n)
    \/ CommitAppend(p) \/ AbortAppend(p)
    \/ Publisher(p)
    \/ completeLocalRecovery(p)

Spec == Init /\ [][Next]_vars
-----------------------------------------------------------------------------
(* Properties *)

Stages == {"down", "wait", "locked", "picked", "committed", "cleanup"}

Publishers ==
  [stage: Stages, picked: SUBSET Cursors, initialized: BOOLEAN,
   checkpoint: Cursors, state: {"starting", "ready", "degraded"},
   cleanupDegraded: BOOLEAN, runs: 0..(MaximumCleanupRuns - 1)]

\* Every row and cursor is of a known batch; the publishers are in a stage of
\* Run and show one of the four states.
TypeOK ==
  /\ batches \in Seq(1..MaxEvents) /\ Len(batches) <= MaxBatches
  /\ feed \in SUBSET Cursors /\ unpublished \in SUBSET Cursors
  /\ published \in SUBSET Cursors /\ checkpoint \in Cursors
  /\ pub \in [Processes -> Publishers]
  /\ head \in [Processes -> Cursors \cup {None}]
  /\ writing \in [Processes ->
       [expected: 0..MaxBatches, size: 1..MaxEvents] \cup {None}]
  /\ current \in Processes \cup {None}
  /\ starts \in 0..MaxStarts /\ lost \in 0..LostReplies

\* The outbox implements the feed its readers rely on: whatever overlaps,
\* fails or is retried in PublishOutboxBatch, each commit extends the feed to
\* a longer prefix of the events, with no gap a reader could step over. And a
\* process leaves reconciling only when every event up to the head it was
\* built with is in the feed (completeLocalRecovery, OutboxCaughtUp).
FeedIsPrefix ==
  /\ FeedSpec
  /\ [][\A p \in Processes :
          (Up(p) /\ head[p] # None /\ Up(p)' /\ head'[p] = None)
            => Through(batches, head[p]) \subseteq feed]_vars

\* An event is waiting in the outbox or it is in the feed, never both and
\* never neither, cleanup of published rows included; the durable checkpoint
\* is the cursor of the last event of the feed, and the one a publisher shows
\* is in the feed; a state of ready is never shown while the last cleanup
\* failed.
NothingLost ==
  /\ TypeOK
  /\ unpublished \cup feed = Events(batches)
  /\ unpublished \cap feed = {}
  /\ published \subseteq feed
  /\ checkpoint = Last(feed)
  /\ \A p \in Processes :
       /\ pub[p].checkpoint \in feed \cup {Zero}
       /\ pub[p].state = "ready" => ~pub[p].cleanupDegraded

-----------------------------------------------------------------------------
(* Fairness: a publisher's loop goes on and a cleanup comes due; an         *)
(* operation that is retried for ever succeeds in the end; a database       *)
(* transaction ends; a process is started again; and the 250 ms ticker of   *)
(* completeLocalRecovery does not miss every interval without an error.     *)
Fairness ==
  \A p \in Processes :
    /\ SF_vars(LoadCheckpoint(p)) /\ SF_vars(Lock(p)) /\ SF_vars(Pick(p))
    /\ SF_vars(Commit(p)) /\ WF_vars(RecordPublish(p))
    /\ SF_vars(RecordPublish(p) /\ pub'[p].stage = "cleanup")
    /\ SF_vars(CleanupRun(p))
    /\ WF_vars(CommitAppend(p) \/ AbortAppend(p))
    /\ WF_vars(Start(p)) /\ SF_vars(completeLocalRecovery(p))

FairSpec == Spec /\ Fairness

\* Every event that waits in the outbox reaches the feed, through failing
\* loads, publishes and cleanups and restarts.
EventuallyFed ==
  \A c \in Cursors : (c \in unpublished) ~> (c \in feed)

\* A process whose outbox has caught up with the head it was built with
\* leaves reconciling, if no commit reply was lost, unless it stops or
\* a command of an earlier process still commits after that head was read
\* (completeLocalRecovery).
RecoveryUnlessLost ==
  \A p \in Processes :
    (head[p] # None /\ checkpoint = head[p])
      ~> (head[p] = None \/ head[p] # EventHead(batches) \/ lost > 0)

\* A process whose outbox has caught up with the head it was built with
\* leaves reconciling, unless it stops or a command of an earlier process
\* still commits after that head was read.
RecoveryCompletes ==
  \A p \in Processes :
    (head[p] # None /\ checkpoint = head[p])
      ~> (head[p] = None \/ head[p] # EventHead(batches))
=============================================================================
