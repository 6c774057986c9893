----------------------------- MODULE MCDelivery -----------------------------
(***************************************************************************)
(* Small instances for TLC of the parts that bring a market's history to   *)
(* its readers: the outbox with its overlapping publishers, the event      *)
(* stream to the browser, and the private read model, once for its         *)
(* projection and once for its pages; and of the browser's way in, its     *)
(* logins and its writes. A behaviour is one of the part in focus; the     *)
(* stream reads the feed that the outbox implements.                       *)
(***************************************************************************)
EXTENDS Outbox, EventStream, ReadModel, WritePath, TLC

CONSTANTS MaxTotal,    \* bound: events of all commands
          StreamTotal  \* bound: those of a behaviour of the stream

VARIABLE focus

outboxVars == <<unpublished, published, checkpoint, pub, head, writing, current, starts, lost>>
streamOwn == <<stream, wire, browser>>

AnyProcess == Permutations(Processes)

\* A market without history, one whose orders traded, one whose first order
\* was closed by a later command.
Legacy == {<<>>, <<{1}, {1, 2}>>, <<{1}, {2}, {1}>>}

MCInit ==
  /\ focus \in {"outbox", "stream", "backfill", "pages", "access", "writes"}
  /\ Init /\ StreamInit /\ ReadInit /\ WriteInit
  /\ focus # "stream" => op = Mounting(NoStatus)
  /\ focus # "backfill" => log = <<>>

PagesNext ==
  \/ \E p \in {1} : OpenStore(p) \/ EnsureTradeV1Projections(p) \/ AppendProjected(p)
  \/ Paging

WithinTotal == Cardinality(Events(batches')) <= IF focus = "stream" THEN StreamTotal ELSE MaxTotal

\* Bound: the second operation a user starts is an order.
WithinKinds == \A o \in started' : o.n = 1 \/ o.kind = "submit"

MCNext ==
  \/ focus = "outbox" /\ Next /\ WithinTotal /\ UNCHANGED <<focus, streamOwn, readVars, writeVars>>
  \/ focus = "stream" /\ StreamNext /\ WithinTotal
                      /\ UNCHANGED <<focus, outboxVars, readVars, writeVars>>
  \/ focus = "backfill" /\ Lifecycle /\ UNCHANGED <<focus, vars, streamOwn, writeVars>>
  \/ focus = "pages" /\ PagesNext /\ UNCHANGED <<focus, vars, streamOwn, writeVars>>
  \/ focus = "access" /\ AccessAlone /\ UNCHANGED <<focus, vars, streamOwn, readVars>>
  \/ focus = "writes" /\ WriteNext /\ WithinKinds /\ UNCHANGED <<focus, vars, streamOwn, readVars>>

\* The read model and the user may come to rest; the outbox and the stream may not.
Resting ==
  /\ focus \notin {"outbox", "stream"}
  /\ UNCHANGED <<focus, vars, streamOwn, readVars, writeVars>>

MCSpec == MCInit /\ [][MCNext \/ Resting]_<<focus, vars, streamOwn, readVars, writeVars>>

\* No event is lost between the event store and the feed (NothingLost), and the
\* stream to the browser goes on, whatever is lost, resent or restored
\* (StreamIntact).
DeliveryWhole ==
  /\ focus = "outbox" => NothingLost
  /\ focus = "stream" => StreamIntact

\* The private read model is exact: trading_order_event holds the lifecycle of
\* the batches up to its checkpoint, each once, through crashes and overlapping
\* backfills, and a listing that reads its pages to the end returns every row
\* that was there when it began, once and in order, although orders move and
\* cursor keys rotate between its pages.
ReadModelExact ==
  focus \in {"backfill", "pages"} => ReadTypeOK /\ LifecycleExact /\ PagesComplete
=============================================================================
