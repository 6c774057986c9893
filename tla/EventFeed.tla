----------------------------- MODULE EventFeed -----------------------------
(***************************************************************************)
(* What the readers of a market's events are promised: commands append     *)
(* batches of events, and the feed (trading_event_feed) is at all times a  *)
(* prefix of those events in the order of their cursors, that only grows.  *)
(* A reader that has read up to a cursor has therefore missed nothing.     *)
(*                                                                         *)
(* A cursor is <<sequence, event index>>; the payload of an event is left  *)
(* out, its cursor identifies it.                                          *)
(***************************************************************************)
EXTENDS Integers, Sequences, FiniteSets

CONSTANTS
  MaxBatches,  \* bound: commands appended
  MaxEvents    \* bound: events of a command

ASSUME FeedAssumption == MaxBatches \in Nat /\ MaxEvents \in Nat \ {0}

VARIABLES
  batches,     \* trading_event_batch: the number of events of each command
  feed         \* trading_event_feed: the cursors of the published events

feedVars == <<batches, feed>>

Zero == <<0, 0>>

\* compareCursor(a, b) < 0
Before(a, b) == \/ a[1] < b[1]
                \/ a[1] = b[1] /\ a[2] < b[2]

Events(bs) == UNION {{<<s, i>> : i \in 1..bs[s]} : s \in DOMAIN bs}

Cursors == {Zero} \cup ((1..MaxBatches) \X (1..MaxEvents))

Through(bs, c) == {e \in Events(bs) : ~Before(c, e)}

\* The n first cursors of S.
First(n, S) == {c \in S : Cardinality({d \in S : Before(d, c)}) < n}

Last(S) == CHOOSE c \in S \cup {Zero} : \A d \in S : ~Before(c, d)

EventHead(bs) == IF bs = <<>> THEN Zero ELSE <<Len(bs), bs[Len(bs)]>>

FeedInit == batches = <<>> /\ feed = {}

AppendBatch(n) ==
  /\ Len(batches) < MaxBatches
  /\ batches' = Append(batches, n)
  /\ UNCHANGED feed

Publish(c) ==
  /\ feed' = Through(batches, c)
  /\ feed \subseteq feed'
  /\ UNCHANGED batches

FeedNext ==
  \/ \E n \in 1..MaxEvents : AppendBatch(n)
  \/ \E c \in Events(batches) : Publish(c)

FeedSpec == FeedInit /\ [][FeedNext]_feedVars
=============================================================================
