---------------------------- MODULE EventStream ----------------------------
(***************************************************************************)
(* The readers' side of the event feed: the server's SubscribeEvents loop  *)
(* with its EventReconciler, the gateway's WebSocket that forwards it, and *)
(* the browser that keeps a cursor, reconnects from it, and reloads its    *)
(* private panels over REST.  The feed is the one EventFeed specifies,     *)
(* which the outbox implements.                                            *)
(*                                                                         *)
(* Abstracted: a panel is the number of commands it reflects, and orders,  *)
(* trades and ledger are one panel, loaded one request at a time (balances *)
(* may overlap and are left out); a status read returns the sequence and   *)
(* some checkpoint the publisher has shown, which is a cursor of the feed; *)
(* the ticket, the handshake and the subscription are one step; sessions   *)
(* and the polling-only mode are left out.                                 *)
(***************************************************************************)
EXTENDS EventFeed

CONSTANTS
  Nil,
  EventBatchSize,
  MaxMounts       \* bound: page loads after the first

ASSUME StreamAssumption == EventBatchSize \in Nat \ {0} /\ MaxMounts \in Nat

VARIABLES
  stream,   \* the server's stream: its reconciler's checkpoint, or Nil
  wire,     \* the events sent and not yet handled by the browser
  client,   \* cursor, wsState, eventReconcilePending, pendingGapCursor;
            \* is a refresh scheduled (due), is connectEvents (retry)
  saved,    \* the cursor in localStorage
  load,     \* the load of the private panel: none, asked, or its answer
  panel,    \* the commands the private panel shows; does it show an error
  op,       \* discoverSession or reconcileEventTransport in progress: does
            \* it await a load, and the status it has read
  accepted, \* history: the events this page has accepted
  mounts

browser == <<client, saved, load, panel, op, accepted, mounts>>
network == <<feedVars, stream, wire>>
streamVars == <<network, browser>>

NewClient(cursor) ==
  [cursor |-> cursor, ws |-> "polling", pending |-> FALSE, gap |-> Nil,
   due |-> FALSE, retry |-> FALSE]

Free == [stage |-> "free", value |-> 0]
Asked == [stage |-> "asked", value |-> 0]
Unloaded == [sequence |-> 0, error |-> TRUE]

Status(c) == [sequence |-> Len(batches), checkpoint |-> c]
NoStatus == [sequence |-> -1, checkpoint |-> Zero]
StatusReads == {Status(c) : c \in feed \cup {Zero}} \cup {NoStatus}

Mounting(status) == [kind |-> "mount", waits |-> TRUE, status |-> status]

StreamInit ==
  /\ FeedInit /\ mounts = 0
  /\ stream = Nil /\ wire = <<>> /\ saved = Nil
  /\ client = NewClient(Nil) /\ panel = Unloaded /\ accepted = {}
  /\ load = Asked
  /\ op \in {Mounting(Status(Zero)), Mounting(NoStatus)}

-----------------------------------------------------------------------------
(* The server: FeedAfter, EventReconciler and the loop of SubscribeEvents *)

\* The first EventBatchSize events of the feed after a cursor, in order.
FeedAfter(cursor) ==
  LET page == First(EventBatchSize, {e \in feed : Before(cursor, e)})
  IN  [i \in 1..Cardinality(page) |->
         CHOOSE e \in page :
           Cardinality({d \in page : Before(d, e)}) = i - 1]

\* Mutant: a batch is taken to end at its first event.
nextBatch(checkpoint) == <<checkpoint.cursor[1] + 1, 1>>

nextCursor(checkpoint) ==
  IF checkpoint.cursor[2] < checkpoint.count
    THEN <<checkpoint.cursor[1], checkpoint.cursor[2] + 1>>
    ELSE <<checkpoint.cursor[1] + 1, 1>>

\* Mutant: a batch has one event more than it has.
CheckpointPastEnd(cursor) ==
  [cursor |-> cursor,
   count  |-> IF cursor = Zero THEN 0 ELSE batches[cursor[1]] + 1]

CheckpointAt(cursor) ==
  [cursor |-> cursor,
   count  |-> IF cursor = Zero THEN 0 ELSE batches[cursor[1]]]

\* Reconcile stops at the first event that is not the successor of the
\* checkpoint, and what it accepted before has been sent.
Follows(checkpoint, e) == e = nextCursor(checkpoint)

Reconciled(events) ==
  LET before(i) == IF i = 1 THEN stream ELSE CheckpointAt(events[i - 1])
      good == {i \in DOMAIN events :
                 \A j \in 1..i : Follows(before(j), events[j])}
  IN  SubSeq(events, 1, Cardinality(good))

DataLoss(events) == Reconciled(events) # events

\* A cursor the server does not know is refused.
Subscribable(cursor) ==
  \/ cursor = Zero
  \/ cursor[1] \in DOMAIN batches /\ cursor[2] <= batches[cursor[1]]

Poll ==
  /\ stream # Nil
  /\ LET events == FeedAfter(stream.cursor)
     IN  /\ events # <<>>
         /\ wire' = wire \o Reconciled(events)
         /\ stream' = IF DataLoss(events) THEN Nil
                      ELSE CheckpointAt(events[Len(events)])
  /\ UNCHANGED <<feedVars, browser>>

-----------------------------------------------------------------------------
(* The browser: its cursor *)

\* Mutant: the newer answer wins, whatever its cursor.
Newest(left, right) == right

Latest(left, right) ==
  IF left = Nil \/ Before(left, right) THEN right ELSE left

advanceTradingEventCursor(current, e) ==
  CASE current = Nil -> "accepted"
    [] current # Nil /\ ~Before(current, e) -> "duplicate"
    [] current # Nil /\ e \in {<<current[1], current[2] + 1>>,
                                <<current[1] + 1, 1>>} -> "accepted"
    [] OTHER -> "gap"

\* parseCursor: no cursor is the beginning.
From(cursor) == IF cursor = Nil THEN Zero ELSE cursor

\* A cursor that changed is saved to localStorage, which may fail.
Adopt(c, next) ==
  LET latest == Latest(client.cursor, c)
  IN  /\ client' = [next EXCEPT !.cursor = latest]
      /\ saved' \in {saved} \cup ({latest} \ {client.cursor})

\* adoptStatusCheckpoint: nothing is adopted from a status read that failed.
AdoptStatus(status) ==
  IF status = NoStatus THEN UNCHANGED <<client, saved>>
  ELSE Adopt(status.checkpoint, client)

\* loadPrivate is called: a load in flight makes it return at once.
Ask == load' = IF load = Free THEN Asked ELSE load

\* reconcileEventTransport begins with refreshAll, which reads the private
\* panel and the status in any order.
Reconcile(kind) ==
  /\ op' = [kind |-> kind, waits |-> load = Free, status |-> Nil]
  /\ Ask

\* The socket's onclose, or a connection that failed
activatePolling(c) ==
  /\ client' = [c EXCEPT !.ws = "polling", !.pending = TRUE]
  /\ stream' = Nil /\ wire' = <<>>
  /\ Reconcile("closed")

handleEventMessage ==
  /\ wire # <<>>
  /\ LET e == Head(wire)
         decision == advanceTradingEventCursor(client.cursor, e)
     IN  IF decision = "gap"
           THEN /\ activatePolling([client EXCEPT !.gap = Latest(@, e)])
                /\ UNCHANGED <<saved, accepted>>
           ELSE /\ wire' = Tail(wire)
                /\ IF decision = "duplicate"
                     THEN UNCHANGED <<client, saved, accepted>>
                     ELSE /\ Adopt(e, [client EXCEPT !.due = TRUE])
                          /\ accepted' = accepted \cup {e}
                /\ UNCHANGED <<stream, load, op>>
  /\ UNCHANGED <<feedVars, panel, mounts>>

\* connectEvents, when the reconnect timer fires: a pending reconciliation
\* is tried once more, otherwise the browser connects.
connectEvents ==
  /\ client.retry
  /\ LET called == [client EXCEPT !.retry = FALSE]
     IN  IF client.pending
           THEN client' = called /\ Reconcile("retry")
           ELSE /\ client' = [called EXCEPT !.ws = "connecting"]
                /\ UNCHANGED <<load, op>>
  /\ UNCHANGED <<network, saved, panel, accepted, mounts>>

\* Mutant: the subscription starts at the head of the feed.
ConnectedAtHead ==
  /\ client.ws = "connecting"
  /\ stream' = CheckpointAt(Last(feed))
  /\ client' = [client EXCEPT !.ws = "live"]
  /\ UNCHANGED <<feedVars, wire, saved, load, panel, op, accepted, mounts>>

\* The subscription starts at the browser's cursor, if the server knows it.
Connected ==
  /\ client.ws = "connecting"
  /\ IF Subscribable(From(client.cursor))
       THEN /\ client' = [client EXCEPT !.ws = "live"]
            /\ stream' = CheckpointAt(From(client.cursor))
            /\ UNCHANGED <<wire, load, op>>
       ELSE activatePolling(client)
  /\ UNCHANGED <<feedVars, saved, panel, accepted, mounts>>

\* The ticket or the handshake fails, or the connection breaks.
Disconnect ==
  /\ client.ws \in {"connecting", "live"}
  /\ activatePolling(client)
  /\ UNCHANGED <<feedVars, saved, panel, accepted, mounts>>

-----------------------------------------------------------------------------
(* The browser: its private panel *)

ReadPrivate ==
  /\ load = Asked
  /\ load' = [stage |-> "read", value |-> Len(batches)]
  /\ UNCHANGED <<network, client, saved, panel, op, accepted, mounts>>

\* The operation that awaits the load goes on.
LoadDone ==
  /\ load' = Free
  /\ op' = IF op = Nil THEN Nil ELSE [op EXCEPT !.waits = FALSE]
  /\ UNCHANGED <<network, client, saved, accepted, mounts>>

ApplyPrivate ==
  /\ load.stage = "read"
  /\ panel' = [sequence |-> load.value, error |-> FALSE]
  /\ LoadDone

PanelFails ==
  /\ load # Free
  /\ panel' = [panel EXCEPT !.error = TRUE]
  /\ LoadDone

\* The refreshAll that an accepted event schedules
Refresh ==
  /\ client.due
  /\ client' = [client EXCEPT !.due = FALSE]
  /\ Ask
  /\ UNCHANGED <<network, saved, panel, op, accepted, mounts>>

\* loadPublic and, while polling, loadPrivate and adoptStatusCheckpoint
PublicTimer(status) ==
  /\ client.ws = "polling" /\ ~(op # Nil /\ op.kind = "mount")
  /\ Ask
  /\ AdoptStatus(status)
  /\ UNCHANGED <<network, panel, op, accepted, mounts>>

-----------------------------------------------------------------------------
(* The browser: reconciliation and page loads *)

Reconciling == op # Nil /\ op.kind \in {"closed", "retry"}

\* Mutant: the status shows the head of the events as its checkpoint.
ReadStatusHead ==
  /\ Reconciling /\ op.status = Nil
  /\ op' = [op EXCEPT !.status = Status(EventHead(batches))]
  /\ UNCHANGED <<network, client, saved, load, panel, accepted, mounts>>

ReadStatus ==
  /\ Reconciling /\ op.status = Nil
  /\ \E c \in feed \cup {Zero} : op' = [op EXCEPT !.status = Status(c)]
  /\ UNCHANGED <<network, client, saved, load, panel, accepted, mounts>>

StatusFails ==
  /\ Reconciling /\ op.status = Nil
  /\ op' = [op EXCEPT !.status = NoStatus]
  /\ UNCHANGED <<network, client, saved, load, panel, accepted, mounts>>

\* The end of reconcileEventTransport: the cursors are adopted if the status
\* covers the gap.  Then activatePolling schedules connectEvents in any case,
\* and connectEvents goes on to connect unless it is still pending.
FinishReconcile ==
  /\ Reconciling /\ ~op.waits /\ op.status # Nil
  /\ LET needed  == IF client.gap = Nil THEN 0 ELSE client.gap[1]
         covered == op.status.sequence >= needed
         target  == IF client.gap = Nil THEN op.status.checkpoint
                    ELSE Latest(client.gap, op.status.checkpoint)
         after   == [client EXCEPT !.retry = op.kind = "closed"]
     IN  \/ /\ covered
            /\ Adopt(target, [after EXCEPT
                 !.gap = Nil, !.pending = FALSE,
                 !.ws = IF op.kind = "retry" THEN "connecting" ELSE @])
         \/ /\ ~covered
            /\ client' = after
            /\ UNCHANGED saved
  /\ op' = Nil
  /\ UNCHANGED <<network, load, panel, accepted, mounts>>

\* A page load: the cursor is restored, the status is read, then the private
\* panel ...
Mount(status) ==
  /\ mounts < MaxMounts /\ mounts' = mounts + 1
  /\ client' = NewClient(saved)
  /\ stream' = Nil /\ wire' = <<>> /\ panel' = Unloaded /\ accepted' = {}
  /\ load' = Asked /\ op' = Mounting(status)
  /\ UNCHANGED <<feedVars, saved>>

\* ... then the status's checkpoint is adopted and connectEvents is called
\* (discoverSession).
FinishMount ==
  /\ op # Nil /\ op.kind = "mount" /\ ~op.waits
  /\ LET connecting == [client EXCEPT !.ws = "connecting"]
     IN  IF op.status = NoStatus
           THEN client' = connecting /\ UNCHANGED saved
           ELSE Adopt(op.status.checkpoint, connecting)
  /\ op' = Nil
  /\ UNCHANGED <<network, load, panel, accepted, mounts>>

StreamNext ==
  \/ FeedNext /\ UNCHANGED <<stream, wire, browser>>
  \/ Poll \/ handleEventMessage \/ Disconnect
  \/ connectEvents \/ Connected
  \/ ReadPrivate \/ ApplyPrivate \/ PanelFails \/ Refresh
  \/ \E status \in StatusReads : PublicTimer(status) \/ Mount(status)
  \/ ReadStatus \/ StatusFails \/ FinishReconcile \/ FinishMount

StreamSpec == StreamInit /\ [][StreamNext]_streamVars

-----------------------------------------------------------------------------
(* Properties *)

MaybeCursor == Cursors \cup {Nil}

\* The stream, the browser and the operations in progress hold cursors and
\* sequences of known batches.
StreamTypeOK ==
  /\ stream \in [cursor: Cursors, count: 0..MaxEvents] \cup {Nil}
  /\ wire \in Seq(Cursors)
  /\ client \in [cursor: MaybeCursor, ws: {"polling", "connecting", "live"},
                 pending: BOOLEAN, gap: MaybeCursor,
                 due: BOOLEAN, retry: BOOLEAN]
  /\ saved \in MaybeCursor /\ accepted \in SUBSET Cursors
  /\ load \in [stage: {"free", "asked", "read"}, value: 0..MaxBatches]
  /\ panel \in [sequence: 0..MaxBatches, error: BOOLEAN]
  /\ op \in [kind: {"mount", "closed", "retry"}, waits: BOOLEAN,
            status: [sequence: -1..MaxBatches, checkpoint: Cursors] \cup {Nil}]
           \cup {Nil}

\* Whatever was lost, resent, restored or adopted, the stream goes on. A
\* subscription never ends in DataLoss: what FeedAfter returns after the
\* stream's cursor is always accepted by the EventReconciler, across pages that
\* split a batch and reconnections in the middle of one. The browser never
\* meets a gap: the next event on the wire is a duplicate or the very next one.
\* And the browser's cursor, the saved one and the server's are cursors of
\* published events, so every one of them can be subscribed from.
StreamIntact ==
  /\ StreamTypeOK
  /\ stream # Nil => ~DataLoss(FeedAfter(stream.cursor))
  /\ wire # <<>> =>
       \/ client.cursor # Nil /\ ~Before(client.cursor, Head(wire))
       \/ Head(wire) = nextCursor(CheckpointAt(From(client.cursor)))
  /\ {client.cursor, saved} \subseteq feed \cup {Zero, Nil}
  /\ stream # Nil => stream.cursor \in feed \cup {Zero}

\* Within a page's life the cursor never goes back.
CursorForward ==
  [][ \/ mounts' # mounts
      \/ client.cursor = Nil
      \/ client'.cursor # Nil /\ ~Before(client'.cursor, client.cursor)]_streamVars

\* The cursor does not skip: while the browser is live, an event at or before
\* its cursor was accepted from the stream or is part of what the private
\* panel shows, unless a load is in progress or the panel shows an error.
NotSkipped ==
  (client.ws = "live" /\ ~panel.error /\ load = Free)
    => \A e \in Through(batches, From(client.cursor)) :
         e \in accepted \/ e[1] <= panel.sequence

-----------------------------------------------------------------------------
(* Fairness: timers and continuations run; a request that is made for ever  *)
(* is answered in the end; and connections last long enough, now and then, *)
(* for a message to arrive.                                                *)
StreamFairness ==
  /\ SF_streamVars(Poll) /\ SF_streamVars(handleEventMessage)
  /\ WF_streamVars(connectEvents) /\ SF_streamVars(Connected) /\ SF_streamVars(ReadStatus)
  /\ WF_streamVars(ReadPrivate) /\ SF_streamVars(ApplyPrivate)
  /\ WF_streamVars(FinishReconcile) /\ WF_streamVars(FinishMount)
  /\ WF_streamVars(\E status \in StatusReads : PublicTimer(status))

StreamFairSpec == StreamSpec /\ StreamFairness

\* A browser that lost its connection is live again in the end: it obtains a
\* new ticket and subscribes from its cursor.
Reconnects == (client.ws = "polling") ~> (client.ws = "live")
=============================================================================
