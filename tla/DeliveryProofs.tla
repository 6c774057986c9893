--------------------------- MODULE DeliveryProofs ---------------------------
(***************************************************************************)
(* The way of a market's events out and of a user's writes in, for every   *)
(* value of the constants. The outbox loses and repeats nothing, and it    *)
(* implements EventFeed, the feed its readers rely on. A write leaves the  *)
(* browser's journal only when its outcome is decided, and a one-time      *)
(* token is accepted once.                                                 *)
(***************************************************************************)
EXTENDS Outbox, WritePath, FiniteSetTheorems, TLAPS


-----------------------------------------------------------------------------
(* Cursors *)

LEMMA CursorIs ==
  ASSUME NEW c \in Cursors
  PROVE  /\ c[1] \in Nat /\ c[2] \in Nat /\ c = <<c[1], c[2]>>
         /\ c # Zero => c[1] \in 1..MaxBatches /\ c[2] \in 1..MaxEvents
         /\ c[1] = 0 => c = Zero
BY FeedAssumption DEF Cursors, Zero

(* compareCursor orders the cursors totally; the zero cursor is the first. *)
LEMMA BeforeOrders ==
  ASSUME NEW c \in Cursors, NEW d \in Cursors
  PROVE  /\ ~Before(c, c)
         /\ Before(c, d) => ~Before(d, c)
         /\ Before(c, d) \/ c = d \/ Before(d, c)
         /\ c # Zero => Before(Zero, c)
         /\ \A e \in Cursors : Before(c, d) /\ Before(d, e) => Before(c, e)
<1>1. /\ c[1] \in Nat /\ c[2] \in Nat /\ c = <<c[1], c[2]>>
      /\ d[1] \in Nat /\ d[2] \in Nat /\ d = <<d[1], d[2]>>
      /\ c # Zero => c[1] \in 1..MaxBatches
  BY CursorIs
<1>2. \A e \in Cursors : e[1] \in Nat /\ e[2] \in Nat
  BY CursorIs
<1> QED BY <1>1, <1>2, FeedAssumption DEF Before, Zero

LEMMA NatMin ==
  ASSUME NEW T, T \subseteq Nat, T # {}
  PROVE  \E x \in T : \A y \in T : x <= y
<1>1. PICK x \in T : \A y \in T : ~(<<y, x>> \in OpToRel(<, Nat))
  BY Zenon, WFMin, NatLessThanWellFounded
<1>2. \A y \in T : y < x => <<y, x>> \in OpToRel(<, Nat)
  BY DEF OpToRel
<1>3. \A y \in T : ~(y < x)
  BY Zenon, <1>1, <1>2
<1> QED BY <1>3

LEMMA NatMax ==
  ASSUME NEW n \in Nat, NEW T, T \subseteq 0..n, T # {}
  PROVE  \E x \in T : \A y \in T : y <= x
<1> DEFINE D == {n - y : y \in T}
<1>1. D \subseteq Nat /\ D # {}
  <2>1. \A y \in T : n - y \in Nat
    OBVIOUS
  <2> QED BY Zenon, <2>1
<1>2. PICK m \in D : \A z \in D : m <= z
  BY Zenon, <1>1, NatMin
<1>3. PICK x \in T : m = n - x
  OBVIOUS
<1>4. \A y \in T : n - y \in D /\ m <= n - y
  BY <1>2
<1> QED BY <1>3, <1>4

(* A set of cursors has a last one. *)
LEMMA LastExists ==
  ASSUME NEW S, S \subseteq Cursors, S # {}
  PROVE  \E c \in S : \A d \in S : ~Before(c, d)
<1> DEFINE A == {c[1] : c \in S}
<1>0. MaxBatches \in Nat /\ MaxEvents \in Nat
  BY FeedAssumption
<1>1. A \subseteq 0..MaxBatches /\ A # {}
  <2>1. \A c \in S : c[1] \in 0..MaxBatches
    BY CursorIs, <1>0 DEF Zero
  <2> QED BY <2>1
<1>2. PICK a \in A : \A x \in A : x <= a
  BY Zenon, <1>0, <1>1, NatMax
<1> DEFINE B == {c[2] : c \in {d \in S : d[1] = a}}
<1>3. B \subseteq 0..MaxEvents /\ B # {}
  <2>1. \A c \in S : c[2] \in 0..MaxEvents
    BY CursorIs, <1>0 DEF Zero
  <2> QED BY <2>1
<1>4. PICK b \in B : \A x \in B : x <= b
  BY Zenon, <1>0, <1>3, NatMax
<1>5. PICK c \in S : c[1] = a /\ c[2] = b
  OBVIOUS
<1>6. ASSUME NEW d \in S PROVE ~Before(c, d)
  <2>1. d[1] \in Nat /\ d[2] \in Nat /\ a \in Nat /\ b \in Nat
    BY <1>5, CursorIs
  <2>2. d[1] \in A /\ d[1] <= a
    BY <1>2
  <2>3. d[1] = a => d[2] \in B /\ d[2] <= b
    BY <1>4
  <2> QED BY <1>5, <2>1, <2>2, <2>3 DEF Before
<1> QED BY <1>6

LEMMA LastIs ==
  ASSUME NEW S, S \subseteq Cursors
  PROVE  /\ Last(S) \in S \cup {Zero} /\ Last(S) \in Cursors
         /\ \A d \in S : ~Before(Last(S), d)
<1>1. Zero \in Cursors
  BY DEF Cursors
<1>2. \E c \in S \cup {Zero} : \A d \in S : ~Before(c, d)
  <2>1. CASE S = {}
    BY <2>1
  <2>2. CASE S # {}
    BY <2>2, LastExists
  <2> QED BY <2>1, <2>2
<1>3. Last(S) \in S \cup {Zero} /\ \A d \in S : ~Before(Last(S), d)
  BY Zenon, <1>2 DEF Last
<1> QED BY <1>1, <1>3

LEMMA LastUnique ==
  ASSUME NEW S, S \subseteq Cursors \ {Zero}, NEW c \in S \cup {Zero},
         \A d \in S : ~Before(c, d)
  PROVE  Last(S) = c
<1>1. /\ Last(S) \in S \cup {Zero} /\ Last(S) \in Cursors
      /\ \A d \in S : ~Before(Last(S), d)
  BY LastIs
<1>2. c \in Cursors /\ Zero \in Cursors
  BY DEF Cursors
<1>3. ~Before(c, Last(S)) /\ ~Before(Last(S), c)
  BY <1>1, <1>2, BeforeOrders
<1> QED BY <1>1, <1>2, <1>3, BeforeOrders

LEMMA LastOfSome ==
  ASSUME NEW S, S \subseteq Cursors \ {Zero}, S # {}
  PROVE  Last(S) \in S
<1>1. PICK c \in S : \A d \in S : ~Before(c, d)
  BY LastExists
<1> QED BY <1>1, LastUnique

(* The n first rows of a table come before its other rows. *)
LEMMA FirstIs ==
  ASSUME NEW n \in Nat, NEW S, S \subseteq Cursors
  PROVE  /\ First(n, S) \subseteq S
         /\ \A c \in First(n, S), e \in S \ First(n, S) : Before(c, e)
<1>1. IsFiniteSet(S)
  <2>1. IsFiniteSet(1..MaxBatches) /\ IsFiniteSet(1..MaxEvents)
    BY FeedAssumption, FS_Interval
  <2>2. IsFiniteSet((1..MaxBatches) \X (1..MaxEvents))
    BY Zenon, <2>1, FS_Product
  <2>3. IsFiniteSet({Zero}) 
    BY FS_Singleton
  <2>4. IsFiniteSet(Cursors)
    BY Zenon, <2>2, <2>3, FS_Union DEF Cursors
  <2> QED BY <2>4, FS_Subset
<1>2. ASSUME NEW c \in First(n, S), NEW e \in S \ First(n, S), ~Before(c, e)
      PROVE  FALSE
  <2>1. c \in S /\ Cardinality({d \in S : Before(d, c)}) < n
    BY DEF First
  <2>2. e = c \/ Before(e, c)
    BY <1>2, <2>1, BeforeOrders
  <2>3. {d \in S : Before(d, e)} \subseteq {d \in S : Before(d, c)}
    BY <2>1, <2>2, BeforeOrders
  <2>4. /\ IsFiniteSet({d \in S : Before(d, c)})
        /\ Cardinality({d \in S : Before(d, c)}) \in Nat
        /\ Cardinality({d \in S : Before(d, e)}) \in Nat
    <3>1. \A T \in SUBSET S : IsFiniteSet(T) /\ Cardinality(T) \in Nat
      BY <1>1, FS_Subset, FS_CardinalityType
    <3> QED BY <3>1
  <2>5. Cardinality({d \in S : Before(d, e)}) <= Cardinality({d \in S : Before(d, c)})
    BY <2>3, <2>4, FS_Subset
  <2>6. Cardinality({d \in S : Before(d, e)}) < n
    BY <2>1, <2>4, <2>5
  <2> QED BY <2>6 DEF First
<1> QED BY <1>2 DEF First

-----------------------------------------------------------------------------
(* Events *)

LEMMA EventIs ==
  ASSUME NEW bs \in Seq(1..MaxEvents)
  PROVE  \A e : e \in Events(bs) <=>
                  \E s \in 1..Len(bs) : \E i \in 1..bs[s] : e = <<s, i>>
BY DEF Events

LEMMA ItemOf ==
  ASSUME NEW S, NEW s \in Seq(S), NEW n \in 1 .. Len(s)
  PROVE  s[n] \in S
OBVIOUS

LEMMA EventsAreCursors ==
  ASSUME NEW bs \in Seq(1..MaxEvents), Len(bs) <= MaxBatches
  PROVE  Events(bs) \subseteq Cursors \ {Zero}
<1> SUFFICES ASSUME NEW s \in 1..Len(bs), NEW i \in 1..bs[s]
             PROVE  <<s, i>> \in Cursors \ {Zero}
  BY EventIs
<1>1. bs[s] \in 1..MaxEvents
  BY Zenon, ItemOf
<1>2. s \in 1..MaxBatches /\ i \in 1..MaxEvents
  BY <1>1, FeedAssumption
<1> QED BY <1>2 DEF Cursors, Zero

(* The events of a new batch follow all others. *)
LEMMA AppendedEvents ==
  ASSUME NEW bs \in Seq(1..MaxEvents), NEW n \in 1..MaxEvents
  PROVE  /\ Events(bs) \subseteq Events(Append(bs, n))
         /\ \A e \in Events(bs) : \A f \in Events(Append(bs, n)) \ Events(bs) : Before(e, f)
<1> DEFINE more == Append(bs, n)
<1>1. /\ more \in Seq(1..MaxEvents) /\ Len(more) = Len(bs) + 1 /\ Len(bs) \in Nat
      /\ \A s \in 1..Len(bs) : more[s] = bs[s]
  OBVIOUS
<1> HIDE DEF more
<1>2. Events(bs) \subseteq Events(more)
  <2> SUFFICES ASSUME NEW s \in 1..Len(bs), NEW i \in 1..bs[s]
               PROVE  <<s, i>> \in Events(more)
    BY EventIs
  <2>1. s \in 1..Len(more) /\ i \in 1..more[s]
    BY <1>1
  <2> QED BY <1>1, <2>1, EventIs
<1>3. ASSUME NEW e \in Events(bs), NEW f \in Events(more) \ Events(bs) PROVE Before(e, f)
  <2>1. PICK s \in 1..Len(bs) : \E i \in 1..bs[s] : e = <<s, i>>
    BY EventIs
  <2>2. PICK t \in 1..Len(more) : \E i \in 1..more[t] : f = <<t, i>>
    BY <1>1, EventIs
  <2>3. t \notin 1..Len(bs)
    BY <1>1, <2>2, EventIs
  <2>4. e[1] = s /\ f[1] = t
    BY <2>1, <2>2
  <2>5. s < t
    BY <1>1, <2>3
  <2> QED BY <2>4, <2>5 DEF Before
<1> QED BY <1>2, <1>3 DEF more

-----------------------------------------------------------------------------
(* The inductive invariant *)

(* A publisher between its pick and its record: the rows it picked come      *)
(* before the other rows that wait, then they are in the feed.               *)
Fit(s, fed, waiting) ==
  /\ s.checkpoint \in fed \cup {Zero}
  /\ s.state = "ready" => ~s.cleanupDegraded
  /\ s.stage = "picked" =>
       s.picked \subseteq waiting /\ \A c \in s.picked, e \in waiting \ s.picked : Before(c, e)
  /\ s.stage = "committed" => s.picked \subseteq fed
  /\ s.stage \notin {"picked", "committed"} => s.picked = {}

(* The tables of the outbox: what waits comes after what is in the feed. *)
Tables ==
  /\ unpublished \cup feed = Events(batches) /\ unpublished \cap feed = {}
  /\ \A c \in feed, e \in unpublished : Before(c, e)
  /\ published \subseteq feed /\ checkpoint = Last(feed)

Exclusive == \A p, q \in Processes : InTransaction(p) /\ InTransaction(q) => p = q

Inv ==
  /\ TypeOK /\ Tables /\ Exclusive
  /\ \A p \in Processes : Fit(pub[p], feed, unpublished)
  /\ \A p \in Processes : writing[p] # None => writing[p].expected < MaxBatches

LEMMA InvSets ==
  ASSUME Inv
  PROVE  /\ Events(batches) \subseteq Cursors \ {Zero}
         /\ feed \subseteq Cursors \ {Zero} /\ unpublished \subseteq Cursors \ {Zero}
BY EventsAreCursors DEF Inv, TypeOK, Tables

LEMMA NewPublisherTyped ==
  ASSUME NEW stage \in Stages
  PROVE  /\ NewPublisher(stage) \in Publishers
         /\ stage \notin {"picked", "committed"} =>
              \A fed, waiting : Fit(NewPublisher(stage), fed, waiting)
         /\ NewPublisher(stage).stage = stage
<1>1. Zero \in Cursors /\ 0 \in 0..(MaximumCleanupRuns - 1)
  BY OutboxAssumption DEF Cursors
<1> QED BY <1>1 DEF NewPublisher, Publishers, Fit

LEMMA InvInit == Init => Inv
<1> SUFFICES ASSUME Init PROVE Inv
  OBVIOUS
<1>1. batches = <<>> /\ feed = {} /\ unpublished = {} /\ published = {} /\ checkpoint = Zero
  BY DEF Init, FeedInit
<1>2. \A p \in Processes : pub[p] = NewPublisher("down")
  BY DEF Init
<1>3. "down" \in Stages
  BY DEF Stages
<1>4. TypeOK
  <2>1. Zero \in Cursors /\ 0 \in 0..MaxStarts /\ 0 \in 0..LostReplies
    BY OutboxAssumption DEF Cursors
  <2>2. batches \in Seq(1..MaxEvents) /\ Len(batches) <= MaxBatches
    BY <1>1, FeedAssumption
  <2>3. pub \in [Processes -> Publishers]
    BY <1>3, NewPublisherTyped DEF Init
  <2> QED BY <1>1, <2>1, <2>2, <2>3 DEF Init, TypeOK
<1>5. Tables
  <2>1. Events(batches) = {}
    BY <1>1 DEF Events
  <2>2. Last({}) = Zero
    BY LastIs
  <2> QED BY <1>1, <2>1, <2>2 DEF Tables
<1>6. Exclusive
  BY <1>2, <1>3, NewPublisherTyped DEF Exclusive, InTransaction
<1>7. \A p \in Processes : Fit(pub[p], feed, unpublished)
  BY <1>2, <1>3, NewPublisherTyped
<1> QED BY <1>4, <1>5, <1>6, <1>7 DEF Inv, Init

(* A step of one publisher that leaves the tables alone. *)
LEMMA PublisherStep ==
  ASSUME Inv, NEW p \in Processes, NEW s \in Publishers, pub' = [pub EXCEPT ![p] = s],
         UNCHANGED <<batches, feed, unpublished, checkpoint, writing>>,
         published' \subseteq published,
         Fit(s, feed, unpublished),
         s.stage \in {"locked", "picked"} =>
           InTransaction(p) \/ \A q \in Processes : ~InTransaction(q),
         head' \in [Processes -> Cursors \cup {None}], current' \in Processes \cup {None},
         starts' \in 0..MaxStarts, lost' \in 0..LostReplies
  PROVE  Inv'
<1>1. \A q \in Processes : pub'[q] = IF q = p THEN s ELSE pub[q]
  BY DEF Inv, TypeOK
<1>2. TypeOK'
  BY Zenon DEF Inv, TypeOK
<1>3. Tables'
  BY DEF Inv, Tables
<1>4. Exclusive'
  BY <1>1 DEF Inv, Exclusive, InTransaction
<1>5. \A q \in Processes : Fit(pub[q], feed, unpublished)'
  BY <1>1 DEF Inv
<1> QED BY <1>2, <1>3, <1>4, <1>5 DEF Inv

-----------------------------------------------------------------------------
(* What the publisher's status functions do to it *)

LEMMA LoadedIs ==
  ASSUME NEW s \in Publishers, NEW c \in Cursors
  PROVE  LET t == [s EXCEPT !.initialized = TRUE, !.checkpoint = c]
         IN  /\ t \in Publishers /\ t.checkpoint = c /\ t.stage = s.stage
             /\ t.state = s.state /\ t.cleanupDegraded = s.cleanupDegraded
             /\ t.picked = s.picked
BY Zenon DEF Publishers

LEMMA ErrorIs ==
  ASSUME NEW s \in Publishers
  PROVE  LET t == recordError(s)
         IN  /\ t \in Publishers /\ t.checkpoint = s.checkpoint /\ t.stage = s.stage
             /\ t.state = "degraded" /\ t.cleanupDegraded = s.cleanupDegraded
             /\ t.picked = s.picked
BY DEF Publishers, recordError

LEMMA GoToIs ==
  ASSUME NEW s \in Publishers, NEW stage \in Stages
  PROVE  LET t == GoTo(s, stage)
         IN  /\ t \in Publishers /\ t.checkpoint = s.checkpoint /\ t.stage = stage
             /\ t.state = s.state /\ t.cleanupDegraded = s.cleanupDegraded
             /\ t.picked = s.picked
BY DEF Publishers, GoTo

LEMMA PickedIs ==
  ASSUME NEW s \in Publishers, NEW rows \in SUBSET Cursors
  PROVE  LET t == [s EXCEPT !.picked = rows]
         IN  /\ t \in Publishers /\ t.checkpoint = s.checkpoint /\ t.stage = s.stage
             /\ t.state = s.state /\ t.cleanupDegraded = s.cleanupDegraded
             /\ t.picked = rows
BY DEF Publishers

LEMMA RetryIs ==
  ASSUME NEW s \in Publishers
  PROVE  LET t == Retry(s)
         IN  /\ t \in Publishers /\ t.checkpoint = s.checkpoint /\ t.stage = "wait"
             /\ t.state = s.state /\ t.cleanupDegraded = s.cleanupDegraded
             /\ t.picked = {}
<1> DEFINE t == [s EXCEPT !.picked = {}]
<1>1. /\ t \in Publishers /\ t.checkpoint = s.checkpoint /\ t.picked = {}
      /\ t.state = s.state /\ t.cleanupDegraded = s.cleanupDegraded
  BY PickedIs
<1>2. "wait" \in Stages /\ Retry(s) = GoTo(t, "wait")
  BY DEF Stages, Retry
<1> HIDE DEF t
<1> QED BY <1>1, <1>2, GoToIs

LEMMA RecordedIs ==
  ASSUME NEW s \in Publishers
  PROVE  LET t == recordPublish(s)
         IN  /\ t \in Publishers /\ t.stage = s.stage /\ t.picked = s.picked
             /\ t.checkpoint = IF s.picked = {} THEN s.checkpoint ELSE Last(s.picked)
             /\ t.state = IF s.cleanupDegraded THEN s.state ELSE "ready"
             /\ t.cleanupDegraded = s.cleanupDegraded
<1>1. s.picked \in SUBSET Cursors
  BY DEF Publishers
<1>2. Last(s.picked) \in Cursors
  BY <1>1, LastIs
<1> QED BY Zenon, <1>2 DEF Publishers, recordPublish

LEMMA CleanedIs ==
  ASSUME NEW s \in Publishers
  PROVE  /\ LET t == recordCleanup(s)
            IN  /\ t \in Publishers /\ t.checkpoint = s.checkpoint /\ t.stage = s.stage
                /\ t.cleanupDegraded = FALSE /\ t.picked = s.picked
         /\ LET t == recordCleanupError(s)
            IN  /\ t \in Publishers /\ t.checkpoint = s.checkpoint /\ t.stage = s.stage
                /\ t.state = "degraded" /\ t.picked = s.picked
BY Zenon DEF Publishers, recordCleanup, recordCleanupError, recordError

LEMMA RunsIs ==
  ASSUME NEW s \in Publishers, NEW n \in 0..(MaximumCleanupRuns - 1)
  PROVE  LET t == [s EXCEPT !.runs = n]
         IN  /\ t \in Publishers /\ t.checkpoint = s.checkpoint /\ t.stage = s.stage
             /\ t.state = s.state /\ t.cleanupDegraded = s.cleanupDegraded
             /\ t.picked = s.picked
BY DEF Publishers

-----------------------------------------------------------------------------
(* The actions that leave the tables alone *)

LEMMA InvStart ==
  ASSUME Inv, NEW p \in Processes, Start(p) \/ Stop(p)
  PROVE  Inv'
<1>1. {"wait", "down"} \subseteq Stages
  BY DEF Stages
<1>2. PICK stage \in {"wait", "down"} : pub' = [pub EXCEPT ![p] = NewPublisher(stage)]
  BY DEF Start, Stop
<1>3. /\ NewPublisher(stage) \in Publishers /\ Fit(NewPublisher(stage), feed, unpublished)
      /\ NewPublisher(stage).stage = stage
  BY <1>1, NewPublisherTyped
<1>4. UNCHANGED <<batches, feed, unpublished, checkpoint, writing>> /\ published' = published
  BY DEF Start, Stop, database
<1>5. EventHead(batches) \in Cursors
  <2>1. CASE batches = <<>>
    BY <2>1 DEF EventHead, Cursors
  <2>2. CASE batches # <<>>
    <3>1. batches \in Seq(1..MaxEvents) /\ Len(batches) <= MaxBatches
      BY DEF Inv, TypeOK
    <3>2. Len(batches) \in 1..MaxBatches /\ Len(batches) \in 1..Len(batches)
      BY <2>2, <3>1, FeedAssumption
    <3>3. batches[Len(batches)] \in 1..MaxEvents
      BY Zenon, <3>1, <3>2, ItemOf
    <3> QED BY <2>2, <3>2, <3>3 DEF EventHead, Cursors
  <2> QED BY <2>1, <2>2
<1>6. head' \in [Processes -> Cursors \cup {None}]
  BY <1>5 DEF Start, Stop, Inv, TypeOK
<1>7. current' \in Processes \cup {None}
  BY DEF Start, Stop, Inv, TypeOK
<1>8. starts' \in 0..MaxStarts /\ lost' \in 0..LostReplies
  BY OutboxAssumption DEF Start, Stop, Inv, TypeOK
<1> HIDE DEF Inv
<1> QED BY Zenon, <1>2, <1>3, <1>4, <1>6, <1>7, <1>8, PublisherStep

LEMMA OnlyPublisherStep ==
  ASSUME Inv, NEW p \in Processes, NEW s \in Publishers, OnlyPublisher(p, s),
         UNCHANGED <<batches, feed, unpublished, checkpoint, lost>>,
         published' \subseteq published,
         Fit(s, feed, unpublished),
         s.stage \in {"locked", "picked"} =>
           InTransaction(p) \/ \A q \in Processes : ~InTransaction(q)
  PROVE  Inv'
<1>1. pub' = [pub EXCEPT ![p] = s] /\ UNCHANGED <<head, writing, current, starts>>
  BY DEF OnlyPublisher
<1>2. /\ head' \in [Processes -> Cursors \cup {None}] /\ current' \in Processes \cup {None}
      /\ starts' \in 0..MaxStarts /\ lost' \in 0..LostReplies
  BY <1>1 DEF Inv, TypeOK
<1> QED BY Zenon, <1>1, <1>2, PublisherStep

LEMMA InvPublisher ==
  ASSUME Inv, NEW p \in Processes
  PROVE  /\ pub[p] \in Publishers /\ Fit(pub[p], feed, unpublished) /\ pub[p].stage \in Stages
         /\ checkpoint \in feed \cup {Zero} /\ checkpoint \in Cursors
<1>1. feed \subseteq Cursors
  BY InvSets
<1> QED BY <1>1, LastIs DEF Inv, TypeOK, Tables, Publishers

LEMMA InvLoad ==
  ASSUME Inv, NEW p \in Processes, LoadCheckpoint(p) \/ LoadFails(p)
  PROVE  Inv'
<1>1. /\ pub[p] \in Publishers /\ Fit(pub[p], feed, unpublished) /\ pub[p].stage = "wait"
      /\ checkpoint \in feed \cup {Zero} /\ checkpoint \in Cursors
  BY InvPublisher DEF LoadCheckpoint, LoadFails, AtStage
<1>2. UNCHANGED <<batches, feed, unpublished, checkpoint, lost>> /\ published' = published
  BY DEF LoadCheckpoint, LoadFails, database
<1>3. CASE LoadCheckpoint(p)
  <2> DEFINE s == [pub[p] EXCEPT !.initialized = TRUE, !.checkpoint = checkpoint]
  <2>1. OnlyPublisher(p, s)
    BY <1>3 DEF LoadCheckpoint
  <2>2. /\ s \in Publishers /\ s.checkpoint = checkpoint /\ s.stage = "wait"
        /\ s.state = pub[p].state /\ s.cleanupDegraded = pub[p].cleanupDegraded
        /\ s.picked = pub[p].picked
    BY Zenon, <1>1, LoadedIs
  <2> HIDE DEF s
  <2>3. Fit(s, feed, unpublished)
    BY <1>1, <2>2 DEF Fit
  <2> QED BY <1>2, <2>1, <2>2, <2>3, OnlyPublisherStep
<1>4. CASE LoadFails(p)
  <2> DEFINE s == recordError(pub[p])
  <2>1. OnlyPublisher(p, s)
    BY <1>4 DEF LoadFails
  <2>2. /\ s \in Publishers /\ s.checkpoint = pub[p].checkpoint /\ s.stage = "wait"
        /\ s.state = "degraded" /\ s.picked = pub[p].picked
    BY <1>1, ErrorIs
  <2> HIDE DEF s
  <2>3. Fit(s, feed, unpublished)
    BY <1>1, <2>2 DEF Fit
  <2> QED BY <1>2, <2>1, <2>2, <2>3, OnlyPublisherStep
<1> QED BY <1>3, <1>4

LEMMA InvLock ==
  ASSUME Inv, NEW p \in Processes, Lock(p)
  PROVE  Inv'
<1>1. /\ pub[p] \in Publishers /\ Fit(pub[p], feed, unpublished) /\ pub[p].stage = "wait"
      /\ \A q \in Processes : ~InTransaction(q)
  BY InvPublisher DEF Lock, AtStage
<1>2. UNCHANGED <<batches, feed, unpublished, checkpoint, lost>> /\ published' = published
  BY DEF Lock, database
<1> DEFINE s == GoTo(pub[p], "locked")
<1>3. OnlyPublisher(p, s)
  BY DEF Lock
<1>4. /\ s \in Publishers /\ s.checkpoint = pub[p].checkpoint /\ s.stage = "locked"
      /\ s.state = pub[p].state /\ s.cleanupDegraded = pub[p].cleanupDegraded
      /\ s.picked = pub[p].picked
  BY <1>1, GoToIs DEF Stages
<1> HIDE DEF s
<1>5. Fit(s, feed, unpublished)
  BY <1>1, <1>4 DEF Fit
<1> QED BY <1>1, <1>2, <1>3, <1>4, <1>5, OnlyPublisherStep

(* Only this publisher is in a transaction, so no row is locked by another:  *)
(* it picks the first of all rows that wait.                                 *)
LEMMA InvPick ==
  ASSUME Inv, NEW p \in Processes, Pick(p)
  PROVE  Inv'
<1>1. /\ pub[p] \in Publishers /\ Fit(pub[p], feed, unpublished) /\ pub[p].stage = "locked"
      /\ pub[p].picked = {} /\ InTransaction(p)
  BY InvPublisher DEF Pick, AtStage, Fit, InTransaction
<1>2. UNCHANGED <<batches, feed, unpublished, checkpoint, lost>> /\ published' = published
  BY DEF Pick, database
<1> DEFINE others == {q \in Processes : InTransaction(q)}
           locked == UNION {pub[q].picked : q \in others}
           rows == First(BatchSize, unpublished)
           s == [pub[p] EXCEPT !.picked = rows]
           t == GoTo(s, "picked")
<1>3. locked = {}
  <2>1. \A q \in others : q = p
    BY <1>1 DEF Inv, Exclusive
  <2> QED BY <1>1, <2>1
<1>4. unpublished \ locked = unpublished
  BY <1>3
<1>5. OnlyPublisher(p, t)
  BY Zenon, <1>4 DEF Pick
<1>6. /\ rows \subseteq unpublished /\ unpublished \subseteq Cursors
      /\ \A c \in rows, e \in unpublished \ rows : Before(c, e)
  BY InvSets, FirstIs, OutboxAssumption
<1> HIDE DEF rows
<1>7. /\ s \in Publishers /\ s.checkpoint = pub[p].checkpoint /\ s.picked = rows
      /\ s.state = pub[p].state /\ s.cleanupDegraded = pub[p].cleanupDegraded
  BY <1>1, <1>6, PickedIs
<1> HIDE DEF s
<1>8. /\ t \in Publishers /\ t.checkpoint = pub[p].checkpoint /\ t.stage = "picked"
      /\ t.state = pub[p].state /\ t.cleanupDegraded = pub[p].cleanupDegraded
      /\ t.picked = rows
  BY <1>7, GoToIs DEF Stages
<1> HIDE DEF t
<1>9. Fit(t, feed, unpublished)
  BY <1>1, <1>6, <1>8 DEF Fit
<1> QED BY <1>1, <1>2, <1>5, <1>8, <1>9, OnlyPublisherStep

LEMMA InvPublishFails ==
  ASSUME Inv, NEW p \in Processes, PublishFails(p)
  PROVE  Inv'
<1>1. pub[p] \in Publishers /\ Fit(pub[p], feed, unpublished)
  BY InvPublisher
<1>2. UNCHANGED <<batches, feed, unpublished, checkpoint, lost>> /\ published' = published
  BY DEF PublishFails, database
<1> DEFINE s == recordError(pub[p])
           t == Retry(s)
<1>3. OnlyPublisher(p, t)
  BY DEF PublishFails
<1>4. s \in Publishers /\ s.checkpoint = pub[p].checkpoint /\ s.state = "degraded"
  BY <1>1, ErrorIs
<1> HIDE DEF s
<1>5. /\ t \in Publishers /\ t.checkpoint = pub[p].checkpoint /\ t.stage = "wait"
      /\ t.state = "degraded" /\ t.picked = {}
  BY <1>4, RetryIs
<1> HIDE DEF t
<1>6. Fit(t, feed, unpublished)
  BY Zenon, <1>1, <1>5 DEF Fit
<1> QED BY Zenon, <1>2, <1>3, <1>5, <1>6, OnlyPublisherStep

LEMMA InvRecordPublish ==
  ASSUME Inv, NEW p \in Processes, RecordPublish(p)
  PROVE  Inv'
<1>1. /\ pub[p] \in Publishers /\ Fit(pub[p], feed, unpublished) /\ pub[p].stage = "committed"
      /\ pub[p].picked \subseteq feed
  BY InvPublisher DEF RecordPublish, AtStage, Fit
<1>2. UNCHANGED <<batches, feed, unpublished, checkpoint, lost>> /\ published' = published
  BY DEF RecordPublish, database
<1> DEFINE r == recordPublish(pub[p])
           s == [r EXCEPT !.picked = {}]
<1>3. PICK stage \in {"wait", "cleanup"} : OnlyPublisher(p, GoTo(s, stage))
  BY DEF RecordPublish
<1> DEFINE t == GoTo(s, stage)
<1>4. /\ r \in Publishers /\ r.cleanupDegraded = pub[p].cleanupDegraded
      /\ r.checkpoint = IF pub[p].picked = {} THEN pub[p].checkpoint ELSE Last(pub[p].picked)
      /\ r.state = IF pub[p].cleanupDegraded THEN pub[p].state ELSE "ready"
  BY <1>1, RecordedIs
<1> HIDE DEF r
<1>5. r.checkpoint \in feed \cup {Zero}
  <2>1. CASE pub[p].picked = {}
    BY <1>1, <1>4, <2>1 DEF Fit
  <2>2. CASE pub[p].picked # {}
    <3>1. pub[p].picked \subseteq Cursors \ {Zero}
      BY <1>1, InvSets
    <3>2. Last(pub[p].picked) \in pub[p].picked
      BY <2>2, <3>1, LastOfSome
    <3> QED BY <1>1, <1>4, <2>2, <3>2
  <2> QED BY <2>1, <2>2
<1>6. r.state = "ready" => ~r.cleanupDegraded
  BY <1>1, <1>4 DEF Fit
<1>7. /\ s \in Publishers /\ s.checkpoint = r.checkpoint /\ s.state = r.state
      /\ s.cleanupDegraded = r.cleanupDegraded /\ s.picked = {}
  BY <1>4, PickedIs
<1> HIDE DEF s
<1>8. /\ t \in Publishers /\ t.checkpoint = r.checkpoint /\ t.state = r.state
      /\ t.cleanupDegraded = r.cleanupDegraded /\ t.picked = {} /\ t.stage = stage
  BY <1>7, GoToIs DEF Stages
<1>9. OnlyPublisher(p, t)
  BY <1>3
<1> HIDE DEF t
<1>10. Fit(t, feed, unpublished)
  BY <1>5, <1>6, <1>8 DEF Fit
<1> QED BY <1>2, <1>8, <1>9, <1>10, OnlyPublisherStep

LEMMA InvCleanupFails ==
  ASSUME Inv, NEW p \in Processes, CleanupFails(p)
  PROVE  Inv'
<1>1. pub[p] \in Publishers /\ Fit(pub[p], feed, unpublished) /\ pub[p].stage = "cleanup"
  BY InvPublisher DEF CleanupFails, AtStage
<1>2. UNCHANGED <<batches, feed, unpublished, checkpoint, lost>> /\ published' = published
  BY DEF CleanupFails, database
<1> DEFINE r == recordCleanupError(pub[p])
           s == [r EXCEPT !.runs = 0]
           t == GoTo(s, "wait")
<1>3. OnlyPublisher(p, t)
  BY DEF CleanupFails
<1>4. /\ r \in Publishers /\ r.checkpoint = pub[p].checkpoint /\ r.state = "degraded"
      /\ r.picked = pub[p].picked
  BY Zenon, <1>1, CleanedIs
<1> HIDE DEF r
<1>5. /\ s \in Publishers /\ s.checkpoint = pub[p].checkpoint /\ s.state = "degraded"
      /\ s.picked = pub[p].picked
  <2>1. 0 \in 0..(MaximumCleanupRuns - 1)
    BY OutboxAssumption
  <2> QED BY Zenon, <1>4, <2>1, RunsIs
<1> HIDE DEF s
<1>6. /\ t \in Publishers /\ t.checkpoint = pub[p].checkpoint /\ t.state = "degraded"
      /\ t.picked = pub[p].picked /\ t.stage = "wait"
  BY <1>5, GoToIs DEF Stages
<1> HIDE DEF t
<1>7. Fit(t, feed, unpublished)
  BY <1>1, <1>6 DEF Fit
<1> QED BY <1>2, <1>3, <1>6, <1>7, OnlyPublisherStep

(* Cleanup deletes published rows only: the feed keeps their events. *)
LEMMA InvCleanupRun ==
  ASSUME Inv, NEW p \in Processes, CleanupRun(p)
  PROVE  Inv'
<1>1. pub[p] \in Publishers /\ Fit(pub[p], feed, unpublished) /\ pub[p].stage = "cleanup"
  BY InvPublisher DEF CleanupRun, AtStage
<1>2. UNCHANGED <<batches, feed, unpublished, checkpoint, lost>> /\ published' \subseteq published
  BY DEF CleanupRun
<1> DEFINE runs == pub[p].runs + 1
           r == recordCleanup(pub[p])
           s == [r EXCEPT !.runs = 0]
           t == GoTo(s, "wait")
           u == [pub[p] EXCEPT !.runs = runs]
<1>3. OnlyPublisher(p, t) \/ (runs # MaximumCleanupRuns /\ OnlyPublisher(p, u))
  BY DEF CleanupRun
<1>4. CASE OnlyPublisher(p, t)
  <2>1. /\ r \in Publishers /\ r.checkpoint = pub[p].checkpoint /\ r.cleanupDegraded = FALSE
        /\ r.picked = pub[p].picked
    BY Zenon, <1>1, CleanedIs
  <2> HIDE DEF r
  <2>2. 0 \in 0..(MaximumCleanupRuns - 1)
    BY OutboxAssumption
  <2>3. /\ s \in Publishers /\ s.checkpoint = pub[p].checkpoint /\ s.cleanupDegraded = FALSE
        /\ s.picked = pub[p].picked
    BY Zenon, <2>1, <2>2, RunsIs
  <2> HIDE DEF s
  <2>4. /\ t \in Publishers /\ t.checkpoint = pub[p].checkpoint /\ t.cleanupDegraded = FALSE
        /\ t.picked = pub[p].picked /\ t.stage = "wait"
    BY <2>3, GoToIs DEF Stages
  <2> HIDE DEF t
  <2>5. Fit(t, feed, unpublished)
    BY <1>1, <2>4 DEF Fit
  <2> QED BY Zenon, <1>2, <1>4, <2>4, <2>5, OnlyPublisherStep
<1>5. CASE runs # MaximumCleanupRuns /\ OnlyPublisher(p, u)
  <2>1. runs \in 0..(MaximumCleanupRuns - 1)
    <3>1. pub[p].runs \in 0..(MaximumCleanupRuns - 1)
      BY <1>1 DEF Publishers
    <3> QED BY <1>5, <3>1, OutboxAssumption
  <2> HIDE DEF runs
  <2>2. /\ u \in Publishers /\ u.checkpoint = pub[p].checkpoint /\ u.stage = "cleanup"
        /\ u.state = pub[p].state /\ u.cleanupDegraded = pub[p].cleanupDegraded
        /\ u.picked = pub[p].picked
    BY <1>1, <2>1, RunsIs
  <2> HIDE DEF u
  <2>3. Fit(u, feed, unpublished)
    BY <1>1, <2>2 DEF Fit
  <2> QED BY <1>2, <1>5, <2>2, <2>3, OnlyPublisherStep
<1> QED BY <1>3, <1>4, <1>5

-----------------------------------------------------------------------------
(* The commit of a publish transaction *)

(* The rows of a commit go from the head of the table to the end of the      *)
(* feed; what the other publishers hold stays true of the new tables.        *)
LEMMA PublishedRows ==
  ASSUME Inv, NEW p \in Processes, pub[p].stage = "picked", PublishRows(pub[p].picked)
  PROVE  /\ Tables'
         /\ \A q \in Processes \ {p} :
              ~InTransaction(q) /\ Fit(pub[q], feed', unpublished')
         /\ feed \subseteq feed' /\ pub[p].picked \subseteq feed'
         /\ feed' \in SUBSET Cursors /\ unpublished' \in SUBSET Cursors
         /\ published' \in SUBSET Cursors /\ checkpoint' \in Cursors
<1> DEFINE rows == pub[p].picked
<1>1. rows \subseteq unpublished /\ \A c \in rows, e \in unpublished \ rows : Before(c, e)
  BY DEF Inv, Fit
<1> HIDE DEF rows
<1>2. /\ feed' = feed \cup rows /\ unpublished' = unpublished \ rows
      /\ published' = published \cup rows /\ checkpoint' = Advance(checkpoint, rows)
      /\ batches' = batches
  BY DEF PublishRows, rows
<1>3. /\ unpublished \cup feed = Events(batches) /\ unpublished \cap feed = {}
      /\ \A c \in feed, e \in unpublished : Before(c, e)
      /\ published \subseteq feed /\ checkpoint = Last(feed)
  BY DEF Inv, Tables
<1>4. feed \subseteq Cursors \ {Zero} /\ unpublished \subseteq Cursors \ {Zero}
  BY InvSets
<1>5. feed' \subseteq Cursors \ {Zero}
  BY <1>1, <1>2, <1>4
<1>6. checkpoint' = Last(feed')
  <2>1. CASE rows = {}
    BY <1>2, <1>3, <2>1 DEF Advance
  <2>2. CASE rows # {}
    <3>1. rows \subseteq Cursors \ {Zero}
      BY <1>1, <1>4
    <3>2. Last(rows) \in rows /\ \A d \in rows : ~Before(Last(rows), d)
      BY <2>2, <3>1, LastOfSome, LastIs
    <3>3. \A c \in feed : Before(c, Last(rows))
      BY <1>1, <1>3, <3>2
    <3>4. checkpoint \in feed \cup {Zero}
      BY <1>3, <1>4, LastIs
    <3>5. Last(rows) \in Cursors \ {Zero} /\ Zero \in Cursors
      BY <3>1, <3>2 DEF Cursors
    <3>6. Before(checkpoint, Last(rows))
      BY <3>3, <3>4, <3>5, BeforeOrders
    <3>7. checkpoint' = Last(rows)
      BY <1>2, <2>2, <3>6 DEF Advance
    <3>8. \A d \in feed' : ~Before(Last(rows), d)
      BY Zenon, <1>2, <1>4, <3>2, <3>3, <3>5, BeforeOrders
    <3>9. Last(rows) \in feed' \cup {Zero}
      BY <1>2, <3>2
    <3> QED BY <1>5, <3>7, <3>8, <3>9, LastUnique
  <2> QED BY <2>1, <2>2
<1>7. Tables'
  <2>1. (unpublished \cup feed = Events(batches) /\ unpublished \cap feed = {})'
    BY <1>1, <1>2, <1>3
  <2>2. (\A c \in feed, e \in unpublished : Before(c, e))'
    BY <1>1, <1>2, <1>3
  <2>3. (published \subseteq feed)'
    BY <1>2, <1>3
  <2> QED BY <1>6, <2>1, <2>2, <2>3 DEF Tables
<1>8. ASSUME NEW q \in Processes \ {p}
      PROVE  ~InTransaction(q) /\ Fit(pub[q], feed', unpublished')
  <2>1. ~InTransaction(q)
    BY DEF Inv, Exclusive, InTransaction
  <2>2. pub[q].stage # "picked"
    BY <2>1 DEF InTransaction
  <2>3. Fit(pub[q], feed, unpublished) /\ feed \subseteq feed'
    BY <1>2 DEF Inv
  <2> QED BY <2>1, <2>2, <2>3 DEF Fit
<1>9. checkpoint' \in Cursors
  BY <1>5, <1>6, LastIs
<1>10. published \subseteq Cursors
  BY <1>3, <1>4
<1> QED BY Zenon, <1>1, <1>2, <1>4, <1>5, <1>7, <1>8, <1>9, <1>10 DEF rows

LEMMA CommitStep ==
  ASSUME Inv, NEW p \in Processes, pub[p].stage = "picked", PublishRows(pub[p].picked),
         NEW s \in Publishers, OnlyPublisher(p, s), Fit(s, feed', unpublished'),
         s.stage \notin {"locked", "picked"}, lost' \in 0..LostReplies
  PROVE  Inv'
<1>1. /\ pub' = [pub EXCEPT ![p] = s] /\ head' = head /\ writing' = writing
      /\ current' = current /\ starts' = starts /\ batches' = batches
  BY DEF OnlyPublisher, PublishRows
<1>2. \A q \in Processes : pub'[q] = IF q = p THEN s ELSE pub[q]
  BY <1>1 DEF Inv, TypeOK
<1>3. /\ Tables'
      /\ \A q \in Processes \ {p} : ~InTransaction(q) /\ Fit(pub[q], feed', unpublished')
      /\ feed' \in SUBSET Cursors /\ unpublished' \in SUBSET Cursors
      /\ published' \in SUBSET Cursors /\ checkpoint' \in Cursors
  BY PublishedRows
<1>4. TypeOK'
  BY Zenon, <1>1, <1>3 DEF Inv, TypeOK
<1>5. \A q \in Processes : Fit(pub[q], feed, unpublished)'
  BY Zenon, <1>2, <1>3
<1>6. Exclusive'
  <2>1. \A q \in Processes : ~InTransaction(q)'
    BY <1>2, <1>3 DEF InTransaction
  <2> QED BY Zenon, <2>1 DEF Exclusive
<1>7. \A q \in Processes : (writing[q] # None => writing[q].expected < MaxBatches)'
  BY <1>1 DEF Inv
<1> QED BY Zenon, <1>3, <1>4, <1>5, <1>6, <1>7 DEF Inv

LEMMA InvCommit ==
  ASSUME Inv, NEW p \in Processes, Commit(p) \/ CommitReplyLost(p)
  PROVE  Inv'
<1>1. /\ pub[p] \in Publishers /\ Fit(pub[p], feed, unpublished) /\ pub[p].stage = "picked"
      /\ PublishRows(pub[p].picked)
  BY InvPublisher DEF Commit, CommitReplyLost, AtStage
<1>2. feed \subseteq feed' /\ pub[p].picked \subseteq feed'
  BY <1>1, PublishedRows
<1>3. lost' \in 0..LostReplies
  BY SMT, SMTT(30), OutboxAssumption DEF Commit, CommitReplyLost, Inv, TypeOK
<1>4. CASE Commit(p)
  <2> DEFINE s == GoTo(pub[p], "committed")
  <2>1. OnlyPublisher(p, s)
    BY <1>4 DEF Commit
  <2>2. /\ s \in Publishers /\ s.checkpoint = pub[p].checkpoint /\ s.stage = "committed"
        /\ s.state = pub[p].state /\ s.cleanupDegraded = pub[p].cleanupDegraded
        /\ s.picked = pub[p].picked
    BY Zenon, <1>1, GoToIs DEF Stages
  <2> HIDE DEF s
  <2>3. Fit(s, feed', unpublished')
    BY <1>1, <1>2, <2>2 DEF Fit
  <2> QED BY <1>1, <1>3, <2>1, <2>2, <2>3, CommitStep
<1>5. CASE CommitReplyLost(p)
  <2> DEFINE r == recordError(pub[p])
             s == Retry(r)
  <2>1. OnlyPublisher(p, s)
    BY <1>5 DEF CommitReplyLost
  <2>2. r \in Publishers /\ r.checkpoint = pub[p].checkpoint /\ r.state = "degraded"
    BY <1>1, ErrorIs
  <2> HIDE DEF r
  <2>3. /\ s \in Publishers /\ s.checkpoint = pub[p].checkpoint /\ s.stage = "wait"
        /\ s.state = "degraded" /\ s.picked = {}
    BY Zenon, <2>2, RetryIs
  <2> HIDE DEF s
  <2>4. Fit(s, feed', unpublished')
    BY Zenon, <1>1, <1>2, <2>3 DEF Fit
  <2> QED BY Zenon, <1>1, <1>3, <2>1, <2>3, <2>4, CommitStep
<1> QED BY <1>4, <1>5

-----------------------------------------------------------------------------
(* Commands and recovery *)

LEMMA WritingStep ==
  ASSUME Inv, writing' \in [Processes -> [expected: 0..MaxBatches, size: 1..MaxEvents] \cup {None}],
         head' \in [Processes -> Cursors \cup {None}],
         UNCHANGED <<database, pub, current, starts, lost>>,
         \A q \in Processes : writing'[q] # None => writing'[q].expected < MaxBatches
  PROVE  Inv'
<1>1. /\ batches' = batches /\ feed' = feed /\ unpublished' = unpublished
      /\ published' = published /\ checkpoint' = checkpoint /\ pub' = pub
      /\ current' = current /\ starts' = starts /\ lost' = lost
  BY DEF database
<1>2. TypeOK'
  BY Zenon, <1>1 DEF Inv, TypeOK
<1>3. Tables'
  BY Zenon, <1>1 DEF Inv, Tables
<1>4. Exclusive'
  BY Zenon, <1>1 DEF Inv, Exclusive, InTransaction
<1>5. \A q \in Processes : Fit(pub[q], feed, unpublished)'
  BY <1>1 DEF Inv
<1> QED BY <1>2, <1>3, <1>4, <1>5 DEF Inv

LEMMA InvBeginAppend ==
  ASSUME Inv, NEW p \in Processes, NEW n \in 1..MaxEvents, BeginAppend(p, n)
  PROVE  Inv'
<1> DEFINE w == [expected |-> Len(batches), size |-> n]
<1>1. /\ writing' = [writing EXCEPT ![p] = w] /\ head' = head
      /\ UNCHANGED <<database, pub, current, starts, lost>> /\ Len(batches) < MaxBatches
  BY DEF BeginAppend
<1>2. Len(batches) \in 0..MaxBatches
  BY <1>1, FeedAssumption DEF Inv, TypeOK
<1>3. w \in [expected: 0..MaxBatches, size: 1..MaxEvents] /\ w.expected < MaxBatches
  BY <1>1, <1>2
<1> HIDE DEF w
<1>4. /\ writing' \in [Processes -> [expected: 0..MaxBatches, size: 1..MaxEvents] \cup {None}]
      /\ head' \in [Processes -> Cursors \cup {None}]
  BY <1>1, <1>3 DEF Inv, TypeOK
<1>5. \A q \in Processes : writing'[q] = IF q = p THEN w ELSE writing[q]
  BY <1>1 DEF Inv, TypeOK
<1>6. \A q \in Processes : writing'[q] # None => writing'[q].expected < MaxBatches
  BY <1>3, <1>5 DEF Inv
<1> QED BY Zenon, <1>1, <1>4, <1>6, WritingStep

LEMMA InvAbort ==
  ASSUME Inv, NEW p \in Processes, AbortAppend(p) \/ completeLocalRecovery(p)
  PROVE  Inv'
<1>1. /\ UNCHANGED <<database, pub, current, starts, lost>>
      /\ writing' = [writing EXCEPT ![p] = None] \/ writing' = writing
      /\ head' = [head EXCEPT ![p] = None] \/ head' = head
  BY DEF AbortAppend, completeLocalRecovery
<1>2. /\ writing' \in [Processes -> [expected: 0..MaxBatches, size: 1..MaxEvents] \cup {None}]
      /\ head' \in [Processes -> Cursors \cup {None}]
  BY <1>1 DEF Inv, TypeOK
<1>3. \A q \in Processes : writing'[q] = writing[q] \/ writing'[q] = None
  BY <1>1 DEF Inv, TypeOK
<1>4. \A q \in Processes : writing'[q] # None => writing'[q].expected < MaxBatches
  BY <1>3 DEF Inv
<1> QED BY Zenon, <1>1, <1>2, <1>4, WritingStep

(* What the transaction of a command checked still holds when it commits. *)
LEMMA AppendIs ==
  ASSUME Inv, NEW p \in Processes, CommitAppend(p)
  PROVE  /\ writing[p].size \in 1..MaxEvents /\ Len(batches) < MaxBatches
         /\ batches \in Seq(1..MaxEvents) /\ batches' = Append(batches, writing[p].size)
<1>1. writing[p] \in [expected: 0..MaxBatches, size: 1..MaxEvents]
  BY DEF CommitAppend, Inv, TypeOK
<1>2. writing[p].expected < MaxBatches /\ writing[p].expected = Len(batches)
  BY DEF CommitAppend, Inv
<1> QED BY <1>1, <1>2 DEF CommitAppend, Inv, TypeOK

LEMMA InvCommitAppend ==
  ASSUME Inv, NEW p \in Processes, CommitAppend(p)
  PROVE  Inv'
<1> DEFINE new == Events(batches') \ Events(batches)
<1>1. /\ unpublished' = unpublished \cup new /\ feed' = feed /\ published' = published
      /\ checkpoint' = checkpoint /\ pub' = pub /\ head' = head /\ current' = current
      /\ starts' = starts /\ lost' = lost /\ writing' = [writing EXCEPT ![p] = None]
  BY DEF CommitAppend
<1>2. /\ batches' \in Seq(1..MaxEvents) /\ Len(batches') <= MaxBatches
      /\ Events(batches) \subseteq Events(batches')
      /\ \A e \in Events(batches), f \in new : Before(e, f)
  <2>1. /\ writing[p].size \in 1..MaxEvents /\ Len(batches) < MaxBatches
        /\ batches \in Seq(1..MaxEvents) /\ batches' = Append(batches, writing[p].size)
    BY AppendIs
  <2>2. Len(batches') = Len(batches) + 1 /\ Len(batches) \in Nat
    BY <2>1
  <2>3. Len(batches') <= MaxBatches
    BY <2>1, <2>2, FeedAssumption
  <2> QED BY <2>1, <2>3, AppendedEvents
<1>3. Events(batches') \subseteq Cursors
  BY <1>2, EventsAreCursors
<1> HIDE DEF new
<1>4. /\ unpublished \cup feed = Events(batches) /\ unpublished \cap feed = {}
      /\ \A c \in feed, e \in unpublished : Before(c, e)
      /\ published \subseteq feed /\ checkpoint = Last(feed)
  BY DEF Inv, Tables
<1>5. TypeOK'
  <2>1. unpublished' \in SUBSET Cursors
    BY <1>1, <1>3 DEF new, Inv, TypeOK
  <2> QED BY <1>1, <1>2, <2>1 DEF Inv, TypeOK
<1>6. Tables'
  <2>1. (unpublished \cup feed = Events(batches))'
    BY <1>1, <1>2, <1>4 DEF new
  <2>2. (unpublished \cap feed = {})'
    BY <1>1, <1>4 DEF new
  <2>3. (\A c \in feed, e \in unpublished : Before(c, e))'
    BY Zenon, <1>1, <1>2, <1>4
  <2> QED BY <1>1, <1>4, <2>1, <2>2, <2>3 DEF Tables
<1>7. Exclusive'
  BY Zenon, <1>1 DEF Inv, Exclusive, InTransaction
<1>8. ASSUME NEW q \in Processes PROVE Fit(pub[q], feed, unpublished)'
  <2>1. Fit(pub[q], feed, unpublished)
    BY Zenon DEF Inv
  <2>2. pub[q].stage = "picked" =>
          \A c \in pub[q].picked, e \in (unpublished \cup new) \ pub[q].picked : Before(c, e)
    BY <1>2, <1>4, <2>1 DEF Fit
  <2>3. Fit(pub[q], feed, unpublished \cup new)
    BY Zenon, <2>1, <2>2 DEF Fit
  <2> QED BY Zenon, <1>1, <2>3
<1>9. \A q \in Processes : writing'[q] = writing[q] \/ writing'[q] = None
  BY Zenon, <1>1 DEF Inv, TypeOK
<1>10. \A q \in Processes : (writing[q] # None => writing[q].expected < MaxBatches)'
  BY <1>9 DEF Inv
<1> QED BY <1>5, <1>6, <1>7, <1>8, <1>10 DEF Inv

LEMMA InvStep == Inv /\ [Next]_vars => Inv'
<1> SUFFICES ASSUME Inv, [Next]_vars PROVE Inv'
  BY Zenon
<1>1. CASE UNCHANGED vars
  <2>1. /\ UNCHANGED <<database, pub, current, starts, lost>>
        /\ writing' = writing /\ head' = head
    BY <1>1 DEF vars
  <2> QED BY <2>1, WritingStep DEF Inv, TypeOK
<1>2. CASE Next
  <2>1. PICK p \in Processes :
          \/ Start(p) \/ Stop(p)
          \/ \E n \in 1..MaxEvents : BeginAppend(p, n)
          \/ CommitAppend(p) \/ AbortAppend(p)
          \/ Publisher(p)
          \/ completeLocalRecovery(p)
    BY <1>2 DEF Next
  <2>2. CASE Publisher(p)
    BY <2>2, InvLoad, InvLock, InvPick, InvCommit, InvPublishFails, InvRecordPublish,
       InvCleanupRun, InvCleanupFails DEF Publisher
  <2> QED BY <2>1, <2>2, InvStart, InvBeginAppend, InvCommitAppend, InvAbort
<1> QED BY <1>1, <1>2

(* The outbox loses nothing and feeds nothing twice: whatever processes      *)
(* overlap, whatever transaction fails or loses its reply in                 *)
(* PublishOutboxBatch, an event waits or is in the feed, the durable         *)
(* checkpoint is the last event of the feed, and a publisher never shows     *)
(* a checkpoint that is not in the feed.                                     *)
THEOREM OutboxKeeps == Spec => []NothingLost
<1>1. Inv => NothingLost
  BY DEF Inv, Tables, Fit, NothingLost
<1> QED BY <1>1, InvInit, InvStep, PTL DEF Spec

-----------------------------------------------------------------------------
(* The refinement: a commit publishes everything up to its last event        *)

LEMMA CommitPublishes ==
  ASSUME Inv, NEW p \in Processes, Commit(p) \/ CommitReplyLost(p)
  PROVE  [FeedNext]_feedVars
<1>1. pub[p].stage = "picked" /\ PublishRows(pub[p].picked)
  BY DEF Commit, CommitReplyLost, AtStage
<1>2. Tables' /\ feed \subseteq feed'
  BY Zenon, <1>1, PublishedRows
<1>3. batches' = batches /\ feed' = feed \cup pub[p].picked
  BY <1>1 DEF PublishRows
<1>4. CASE feed' = {}
  BY <1>2, <1>3, <1>4 DEF feedVars
<1>5. CASE feed' # {}
  <2> DEFINE c == Last(feed')
  <2>1. /\ unpublished' \cup feed' = Events(batches)
        /\ \A d \in feed', e \in unpublished' : Before(d, e)
    BY Zenon, <1>2, <1>3 DEF Tables
  <2>2. feed' \subseteq Cursors \ {Zero}
    BY <1>1, <1>3, PublishedRows, <2>1, InvSets
  <2>3. c \in feed' /\ \A d \in feed' : ~Before(c, d)
    BY <1>5, <2>2, LastOfSome, LastIs
  <2> HIDE DEF c
  <2>4. feed' = Through(batches, c)
    BY <2>1, <2>3 DEF Through
  <2>5. c \in Events(batches)
    BY <2>1, <2>3
  <2>6. Publish(c)
    BY <1>2, <1>3, <2>4 DEF Publish
  <2> QED BY Zenon, <2>5, <2>6 DEF FeedNext
<1> QED BY <1>4, <1>5

LEMMA FeedStep ==
  ASSUME Inv, [Next]_vars
  PROVE  [FeedNext]_feedVars
<1>1. CASE UNCHANGED vars
  BY <1>1 DEF vars, database, feedVars
<1>2. CASE Next
  <2>1. PICK p \in Processes :
          \/ Start(p) \/ Stop(p)
          \/ \E n \in 1..MaxEvents : BeginAppend(p, n)
          \/ CommitAppend(p) \/ AbortAppend(p)
          \/ Publisher(p)
          \/ completeLocalRecovery(p)
    BY <1>2 DEF Next
  <2>2. CASE CommitAppend(p)
    <3>1. AppendBatch(writing[p].size) /\ writing[p].size \in 1..MaxEvents
      BY Zenon, <2>2, AppendIs DEF AppendBatch, CommitAppend
    <3> QED BY Zenon, <3>1 DEF FeedNext
  <2>3. CASE Publisher(p)
    <3>1. CASE Commit(p) \/ CommitReplyLost(p)
      BY <3>1, CommitPublishes
    <3>2. CASE ~(Commit(p) \/ CommitReplyLost(p))
      BY <2>3, <3>2 DEF Publisher, LoadCheckpoint, LoadFails, Lock, Pick, PublishFails,
         RecordPublish, CleanupRun, CleanupFails, database, feedVars
    <3> QED BY <3>1, <3>2
  <2>4. CASE ~CommitAppend(p) /\ ~Publisher(p)
    BY Zenon, <2>1, <2>4 DEF Start, Stop, BeginAppend, AbortAppend, completeLocalRecovery,
       database, feedVars
  <2> QED BY <2>2, <2>3, <2>4
<1> QED BY <1>1, <1>2

(* What is in the feed up to a cursor that is in the feed has no gap. *)
LEMMA FedThrough ==
  ASSUME Inv, NEW c \in feed \cup {Zero}
  PROVE  Through(batches, c) \subseteq feed
<1> SUFFICES ASSUME NEW e \in Events(batches), ~Before(c, e) PROVE e \in feed
  BY DEF Through
<1>1. /\ unpublished \cup feed = Events(batches)
      /\ \A d \in feed, f \in unpublished : Before(d, f)
  BY Zenon DEF Inv, Tables
<1>2. e \in Cursors \ {Zero} /\ Zero \in Cursors
  BY InvSets DEF Cursors
<1>3. Before(Zero, e)
  BY <1>2, BeforeOrders
<1> QED BY <1>1, <1>3

LEMMA LeavesCaughtUp ==
  ASSUME Inv, [Next]_vars, NEW p \in Processes,
         Up(p), head[p] # None, Up(p)', head'[p] = None
  PROVE  Through(batches, head[p]) \subseteq feed
<1>1. head' # head
  OBVIOUS
<1>2. PICK q \in Processes : Start(q) \/ Stop(q) \/ completeLocalRecovery(q)
  BY Zenon, <1>1 DEF Next, vars, BeginAppend, CommitAppend, AbortAppend, Publisher,
     LoadCheckpoint, LoadFails, Lock, Pick, Commit, CommitReplyLost, PublishFails,
     RecordPublish, CleanupRun, CleanupFails, OnlyPublisher
<1>3. q = p
  <2>1. \A r \in Processes \ {q} : head'[r] = head[r]
    BY <1>2 DEF Start, Stop, completeLocalRecovery, Inv, TypeOK
  <2> QED BY Zenon, <2>1
<1>4. ~Start(p)
  BY Zenon DEF Start
<1>5. ~Stop(p)
  <2>1. SUFFICES ASSUME Stop(p) PROVE FALSE
    BY Zenon
  <2>2. pub'[p].stage = "down"
    BY Zenon, <2>1 DEF Stop, NewPublisher, Inv, TypeOK
  <2> QED BY <2>2 DEF Up
<1>6. completeLocalRecovery(p)
  BY Zenon, <1>2, <1>3, <1>4, <1>5
<1>7. head[p] \in feed \cup {Zero}
  <2>1. pub[p].checkpoint = head[p] /\ Fit(pub[p], feed, unpublished)
    BY <1>6, InvPublisher DEF completeLocalRecovery
  <2> QED BY Zenon, <2>1 DEF Fit
<1> QED BY <1>7, FedThrough

(* The outbox implements EventFeed: each commit of PublishOutboxBatch        *)
(* extends the feed to a longer prefix of the events, each commit of a       *)
(* command appends one batch, and no other step changes either; a process    *)
(* leaves reconciling (completeLocalRecovery) only when every event up to    *)
(* the head it was built with is in the feed.                                *)
THEOREM OutboxImplementsFeed == Spec => FeedIsPrefix
<1> DEFINE Leaves ==
      \A p \in Processes :
        (Up(p) /\ head[p] # None /\ Up(p)' /\ head'[p] = None)
          => Through(batches, head[p]) \subseteq feed
<1>1. Init => FeedInit
  BY DEF Init
<1>2. Inv /\ [Next]_vars => [FeedNext]_feedVars
  BY Zenon, FeedStep
<1>3. Inv /\ [Next]_vars => [Leaves]_vars
  BY LeavesCaughtUp
<1>4. Spec => []Inv
  BY InvInit, InvStep, PTL DEF Spec
<1>5. Spec => FeedSpec
  BY <1>1, <1>2, <1>4, PTL DEF Spec, FeedSpec
<1>6. Spec => [][Leaves]_vars
  BY <1>3, <1>4, PTL DEF Spec
<1> QED BY <1>5, <1>6 DEF FeedIsPrefix



(* Sessions and one-time tokens *)

\* A token that is outstanding was never used and no other has its number.
AccessInv ==
  /\ logins \in Nat /\ issued \in 0 .. MaxIssued
  /\ cookie \in 0 .. logins /\ granted \subseteq 1 .. logins
  /\ windows \in [Keys -> 0 .. WriteLimit]
  /\ uses \in [1 .. MaxIssued -> 0 .. 1] /\ stateCookie \in 0 .. issued
  /\ \A i \in 1 .. MaxIssued : i > issued => uses[i] = 0
  /\ exchanging \subseteq 1 .. issued /\ \A i \in exchanging : uses[i] = 1
  /\ \A t \in tokens : t.id \in 1 .. issued /\ uses[t.id] = 0
  /\ \A t, u \in tokens : t.id = u.id => t = u

LEMMA AccessStarts == AccessInit => AccessInv
BY AccessAssumption DEF AccessInit, AccessInv

LEMMA AccessMeans == AccessInv => AccessTypeOK /\ TokensOnce
<1> SUFFICES ASSUME AccessInv PROVE AccessTypeOK /\ TokensOnce
  OBVIOUS
<1>1. AccessTypeOK
  BY DEF AccessInv, AccessTypeOK
<1>2. \A i \in 1 .. MaxIssued : uses[i] <= 1
  BY AccessAssumption DEF AccessInv
<1>3. \A i \in exchanging : uses[i] = 1 /\ \A t \in tokens : t.id # i
  BY DEF AccessInv
<1> QED BY <1>1, <1>2, <1>3 DEF TokensOnce

LEMMA CountedKeeps ==
  ASSUME AccessInv, NEW k \in Keys, Allows(k), Counted(k)
  PROVE  windows' \in [Keys -> 0 .. WriteLimit]
BY AccessAssumption DEF AccessInv, Allows, Counted

LEMMA CreateKeeps ==
  ASSUME AccessInv, CreateSession
  PROVE  logins' \in Nat /\ cookie' \in 0 .. logins' /\ granted' \subseteq 1 .. logins'
<1>1. logins \in Nat /\ logins' = logins + 1 /\ cookie' = logins + 1 /\ granted' = granted \cup {logins + 1}
  BY DEF AccessInv, CreateSession
<1>2. \A x \in 1 .. logins : x \in 1 .. (logins + 1)
  BY <1>1
<1>3. granted \subseteq 1 .. logins
  BY DEF AccessInv
<1> QED BY <1>1, <1>2, <1>3

\* The tokens are left alone.
LEMMA SessionsKeep ==
  ASSUME AccessInv, UNCHANGED tokenVars, logins' \in Nat, cookie' \in 0 .. logins',
         granted' \subseteq 1 .. logins', windows' \in [Keys -> 0 .. WriteLimit]
  PROVE  AccessInv'
BY DEF AccessInv, tokenVars

LEMMA OkCounts ==
  ASSUME NEW token, "ok" \in SessionAnswers(token)
  PROVE  Allows("account") /\ "account" \in Keys
BY DEF SessionAnswers, Keys

LEMMA LogoutKeeps ==
  ASSUME AccessInv, Logout
  PROVE  AccessInv'
<1>1. PICK answer \in SessionAnswers(cookie) :
        IF answer = "ok"
        THEN /\ Counted("account")
             /\ \/ granted' = granted \ {cookie} /\ cookie' = 0
                \/ UNCHANGED <<granted, cookie>>
             /\ UNCHANGED <<logins, tokenVars>>
        ELSE UNCHANGED accessVars
  BY DEF Logout
<1>2. CASE answer = "ok"
  <2>1. windows' \in [Keys -> 0 .. WriteLimit]
    BY <1>1, <1>2, OkCounts, CountedKeeps
  <2>2. logins' \in Nat /\ cookie' \in 0 .. logins' /\ granted' \subseteq 1 .. logins'
    <3>1. logins' = logins /\ cookie' \in {0, cookie} /\ granted' \subseteq granted
      BY <1>1, <1>2
    <3> QED BY <3>1 DEF AccessInv
  <2> QED BY <1>1, <1>2, <2>1, <2>2, SessionsKeep
<1>3. CASE answer # "ok"
  BY Zenon, <1>1, <1>3 DEF accessVars, AccessInv
<1> QED BY <1>2, <1>3

\* A session created, expired, or the limiter's window over.
LEMMA LoginsKeep ==
  ASSUME AccessInv, LocalLogin \/ LocalLoginFails \/ SessionExpires \/ WindowPasses
  PROVE  AccessInv'
<1>1. CASE LocalLogin
  BY <1>1, CountedKeeps, CreateKeeps, SessionsKeep DEF LocalLogin, Keys
<1>2. CASE LocalLoginFails
  <2>1. windows' \in [Keys -> 0 .. WriteLimit]
    BY <1>2, CountedKeeps DEF LocalLoginFails, Keys
  <2> QED BY <1>2, <2>1, SessionsKeep DEF LocalLoginFails, AccessInv
<1>3. CASE SessionExpires
  BY <1>3, SessionsKeep DEF SessionExpires, AccessInv
<1>4. CASE WindowPasses
  <2>1. windows' \in [Keys -> 0 .. WriteLimit]
    BY <1>4, AccessAssumption DEF WindowPasses, AccessInv
  <2> QED BY <1>4, <2>1, SessionsKeep DEF WindowPasses, AccessInv
<1> QED BY <1>1, <1>2, <1>3, <1>4

LEMMA IssueKeeps ==
  ASSUME AccessInv, NEW kind, Issue(kind), stateCookie' \in {stateCookie, issued + 1},
         UNCHANGED <<cookie, granted, logins, exchanging, uses>>,
         windows' \in [Keys -> 0 .. WriteLimit]
  PROVE  AccessInv'
<1> DEFINE t == [kind |-> kind, id |-> issued + 1]
<1>1. /\ issued' = issued + 1 /\ tokens' = tokens \cup {t} /\ t.id = issued + 1
      /\ issued \in Nat /\ issued < MaxIssued /\ issued + 1 \in 1 .. MaxIssued
  BY AccessAssumption DEF Issue, AccessInv
<1>2. uses[issued + 1] = 0
  BY <1>1, AccessAssumption DEF AccessInv
<1> HIDE DEF t
<1>3. \A x \in tokens' : x.id \in 1 .. issued' /\ uses[x.id] = 0
  BY <1>1, <1>2 DEF AccessInv
<1>4. \A x, y \in tokens' : x.id = y.id => x = y
  BY <1>1 DEF AccessInv
<1>5. issued' \in 0 .. MaxIssued /\ stateCookie' \in 0 .. issued' /\ exchanging' \subseteq 1 .. issued'
  BY <1>1, AccessAssumption DEF AccessInv
<1>6. \A i \in 1 .. MaxIssued : i > issued' => uses[i] = 0
  BY <1>1, AccessAssumption DEF AccessInv
<1> QED BY <1>3, <1>4, <1>5, <1>6 DEF AccessInv

LEMMA ConsumeKeeps ==
  ASSUME AccessInv, NEW kind, NEW id, Consume(kind, id),
         UNCHANGED <<cookie, granted, logins, windows, stateCookie, issued>>,
         exchanging' = exchanging \/ exchanging' = exchanging \cup {id}
  PROVE  AccessInv'
<1> DEFINE t == [kind |-> kind, id |-> id]
<1>1. t \in tokens /\ t.id = id /\ uses' = [uses EXCEPT ![id] = @ + 1] /\ tokens' = tokens \ {t}
  BY DEF Consume
<1> HIDE DEF t
<1>2. id \in 1 .. issued /\ id \in 1 .. MaxIssued /\ uses[id] = 0 /\ issued \in Nat
  BY <1>1, AccessAssumption DEF AccessInv
<1>3. /\ uses' \in [1 .. MaxIssued -> 0 .. 1] /\ uses'[id] = 1
      /\ \A i \in 1 .. MaxIssued : i # id => uses'[i] = uses[i]
  BY <1>1, <1>2 DEF AccessInv
<1>4. \A x \in tokens' : x.id \in 1 .. issued /\ uses'[x.id] = 0
  BY <1>1, <1>2, <1>3, AccessAssumption DEF AccessInv
<1>5. exchanging' \subseteq 1 .. issued /\ \A i \in exchanging' : uses'[i] = 1
  <2>1. exchanging \subseteq 1 .. issued /\ \A i \in exchanging : i \in 1 .. MaxIssued /\ uses[i] = 1
    BY <1>2, AccessAssumption DEF AccessInv
  <2>2. \A i \in exchanging : uses'[i] = 1
    BY <1>3, <2>1
  <2> QED BY Zenon, <1>2, <1>3, <2>1, <2>2
<1>6. \A i \in 1 .. MaxIssued : i > issued => uses'[i] = 0
  BY <1>2, <1>3 DEF AccessInv
<1> QED BY <1>1, <1>3, <1>4, <1>5, <1>6 DEF AccessInv

LEMMA RestartKeeps ==
  ASSUME AccessInv, GatewayRestarts \/ TokenExpires
  PROVE  AccessInv'
<1>1. tokens' \subseteq tokens /\ exchanging' \subseteq exchanging /\ UNCHANGED <<cookie, granted, logins, stateCookie, uses, issued>>
  BY DEF GatewayRestarts, TokenExpires
<1>2. windows' \in [Keys -> 0 .. WriteLimit]
  BY AccessAssumption DEF GatewayRestarts, TokenExpires, AccessInv
<1> QED BY <1>1, <1>2 DEF AccessInv

LEMMA AccessStep ==
  ASSUME AccessInv, [AccessNext]_accessVars
  PROVE  AccessInv'
<1>1. CASE LocalLogin \/ LocalLoginFails \/ SessionExpires \/ WindowPasses
  BY <1>1, LoginsKeep
<1>2. CASE Logout
  BY <1>2, LogoutKeeps
<1>3. CASE GithubStart
  BY <1>3, IssueKeeps DEF GithubStart, AccessInv
<1>4. CASE GithubCallback
  BY <1>4, ConsumeKeeps DEF GithubCallback
<1>5. CASE GithubExchanged
  <2>1. /\ exchanging' \subseteq exchanging /\ UNCHANGED <<windows, tokens, uses, issued>>
        /\ stateCookie' \in {0, stateCookie}
        /\ CreateSession \/ UNCHANGED <<cookie, granted, logins>>
    BY <1>5 DEF GithubExchanged
  <2>2. logins' \in Nat /\ cookie' \in 0 .. logins' /\ granted' \subseteq 1 .. logins'
    BY Zenon, <2>1, CreateKeeps DEF AccessInv
  <2> QED BY <2>1, <2>2 DEF AccessInv
<1>6. CASE IssueWebSocketTicket
  <2>1. windows' \in [Keys -> 0 .. WriteLimit]
    BY <1>6, OkCounts, CountedKeeps DEF IssueWebSocketTicket
  <2> QED BY <1>6, <2>1, IssueKeeps DEF IssueWebSocketTicket
<1>7. CASE ServeWebSocket
  BY <1>7, ConsumeKeeps DEF ServeWebSocket
<1>8. CASE TokenExpires \/ GatewayRestarts
  BY <1>8, RestartKeeps
<1>9. CASE UNCHANGED accessVars
  BY <1>9 DEF accessVars, AccessInv
<1> QED BY <1>1, <1>2, <1>3, <1>4, <1>5, <1>6, <1>7, <1>8, <1>9 DEF AccessNext

-----------------------------------------------------------------------------
(* The browser's journal *)

RequestFields == {"op", "mode", "token", "at", "awaited", "n"}

Known(r) == /\ r = [x \in RequestFields |-> r[x]]
            /\ r.op \in started /\ r.awaited \in BOOLEAN

WriteTypes ==
  /\ IsFiniteSet(started) /\ started \subseteq Operations /\ Cardinality(started) <= MaxOps
  /\ \A o \in started : o.n <= Cardinality(started)
  /\ journal # Absent => /\ journal = [op |-> journal.op, state |-> journal.state]
                         /\ journal.op \in started /\ journal.state \in JournalStates
  /\ recorded \subseteq started /\ querying \subseteq started
  /\ \A r \in requests : Known(r)

\* A page waits for one request of an operation at a time, and for the first
\* while there is no other.
Alone(r) ==
  /\ r.op \notin querying
  /\ MayStore(r.op) => journal.state # "unknown"
  /\ \A s \in requests : s.op = r.op /\ s.awaited => s = r
  /\ r.mode = "first" => \A s \in requests : s.op = r.op => s = r

WaitsForOne == \A r \in requests : r.awaited => Alone(r)

\* What a query looks for is still in the journal, or is decided.
LooksFor ==
  \A op \in querying :
    IF MayStore(op) THEN journal.state # "unknown" ELSE op \in recorded \cup closedFor

WriteInv == WriteTypes /\ WaitsForOne /\ LooksFor /\ JournalDecided

LEMMA WriteStarts == WriteInit => WriteInv
<1> SUFFICES ASSUME WriteInit PROVE WriteInv
  OBVIOUS
<1>1. WriteTypes
  BY FS_EmptySet, WriteAssumption DEF WriteInit, WriteTypes
<1>2. WaitsForOne /\ LooksFor /\ JournalDecided
  BY DEF WriteInit, WaitsForOne, LooksFor, JournalDecided
<1> QED BY <1>1, <1>2 DEF WriteInv

\* One awaited request for an operation at most, so no more than operations.
LEMMA WriteMeans == WriteInv => WriteTypeOK /\ JournalDecided
<1> SUFFICES ASSUME WriteInv PROVE WriteTypeOK
  BY DEF WriteInv
<1> DEFINE A == {r \in requests : r.awaited}
           f == [r \in A |-> r.op]
<1>1. f \in Injection(A, started)
  <2>1. \A r \in A : r.op \in started
    BY DEF WriteInv, WriteTypes, Known
  <2>2. \A r, s \in A : r.op = s.op => r = s
    BY DEF WriteInv, WaitsForOne, Alone
  <2>3. f \in [A -> started] /\ \A r \in A : f[r] = r.op
    BY <2>1
  <2> HIDE DEF f, A
  <2> QED BY <2>2, <2>3 DEF Injection, IsInjective
<1>2. Cardinality(A) <= Cardinality(started) /\ IsFiniteSet(A)
  BY <1>1, FS_Injection DEF WriteInv, WriteTypes
<1>3. Cardinality(A) \in Nat /\ Cardinality(started) \in Nat
  BY <1>2, FS_CardinalityType DEF WriteInv, WriteTypes
<1>4. Cardinality(A) <= MaxOps
  BY <1>2, <1>3, WriteAssumption DEF WriteInv, WriteTypes
<1> QED BY <1>4 DEF WriteInv, WriteTypes, WriteTypeOK

\* What a handler does to the journal.
LEMMA ClearIs ==
  ASSUME NEW op, Clear(op)
  PROVE  /\ journal' = journal \/ journal' = Absent
         /\ ~MayStore(op)'
         /\ \A o : MayStore(o)' => MayStore(o) /\ journal' = journal
         /\ \A o : o # op /\ MayStore(o) => MayStore(o)'
BY DEF Clear, MayStore

LEMMA TransitionIs ==
  ASSUME WriteTypes, NEW op, NEW state \in JournalStates, Transition(op, state)
  PROVE  /\ journal' = journal \/ (journal # Absent /\ journal.op = op /\ journal' = [op |-> op, state |-> state])
         /\ \A o : MayStore(o)' <=> MayStore(o)
         /\ MayStore(op) => journal'.state = state
         /\ ~MayStore(op) => journal' = journal
         /\ \A o : o # op /\ MayStore(o) => journal' = journal
         /\ journal' # Absent => /\ journal' = [op |-> journal'.op, state |-> journal'.state]
                                /\ journal'.op \in started /\ journal'.state \in JournalStates
<1>1. CASE MayStore(op)
  <2>1. /\ journal # Absent /\ journal = [op |-> op, state |-> journal.state] /\ op \in started
    BY <1>1 DEF MayStore, WriteTypes
  <2>2. journal' = [op |-> op, state |-> state]
    BY <1>1, <2>1 DEF Transition
  <2>3. journal' \in [op : Operations, state : JournalStates]
    BY <2>1, <2>2 DEF WriteTypes
  <2>4. journal' # Absent
    BY <2>3, WriteAssumption
  <2> QED BY <1>1, <2>1, <2>2, <2>4 DEF MayStore
<1>2. CASE ~MayStore(op)
  BY <1>2 DEF Transition, MayStore, WriteTypes
<1> QED BY <1>1, <1>2

\* Decided once, decided for good: the log only grows, and the requests of an
\* operation that no one asks for again only go.
LEMMA StaysDecided ==
  ASSUME recorded \subseteq recorded', closedFor \subseteq closedFor', NEW op, Decided(op),
         \A r \in requests' : r.op = op => \E s \in requests : s.op = op
  PROVE  Decided(op)'
BY DEF Decided

\* A request is answered, cancelled, given up or left by its caller.
LEMMA LeavesKeep ==
  ASSUME WriteInv, NEW r \in requests, NEW n, Known(n), n.op = r.op, ~n.awaited,
         requests' = requests \ {r} \/ requests' = (requests \ {r}) \cup {n},
         recorded \subseteq recorded', recorded' \subseteq started, closedFor \subseteq closedFor',
         UNCHANGED <<started, querying>>,
         \/ journal' = journal
         \/ /\ r.awaited /\ Clear(r.op)
            /\ r.op \in recorded' \/ (requests' = requests \ {r} /\ r.mode = "first")
         \/ r.awaited /\ Transition(r.op, "unknown")
  PROVE  WriteInv'
<1>1. \A s \in requests' : (s \in requests /\ s # r) \/ s = n
  OBVIOUS
<1>2. \A s \in requests' : s.awaited => s \in requests /\ s # r
  BY <1>1
<1>3. \A s \in requests' : Known(s)'
  BY <1>1 DEF WriteInv, WriteTypes, Known
<1>4. \A s \in requests' : \E u \in requests : u.op = s.op
  BY <1>1
<1>5. \A o : Decided(o) => Decided(o)'
  BY <1>4, StaysDecided
\* The parts of Alone that the journal has no say in.
<1>6. ASSUME NEW s \in requests', s.awaited
      PROVE  /\ s.op \notin querying'
             /\ \A u \in requests' : u.op = s.op /\ u.awaited => u = s
             /\ s.mode = "first" => \A u \in requests' : u.op = s.op => u = s
  <2>1. s \in requests /\ s # r /\ Alone(s)
    BY <1>2, <1>6 DEF WriteInv, WaitsForOne
  <2>2. \A u \in requests' : u.op = s.op /\ u.awaited => u = s
    BY <1>2, <2>1 DEF Alone
  <2>3. ASSUME s.mode = "first", NEW u \in requests', u.op = s.op PROVE u = s
    BY <1>1, <2>1, <2>3 DEF Alone
  <2> QED BY <2>1, <2>2, <2>3 DEF Alone
<1>7. CASE journal' = journal
  <2>1. \A o : MayStore(o)' <=> MayStore(o)
    BY <1>7 DEF MayStore
  <2>2. WriteTypes'
    BY <1>3, <1>7 DEF WriteInv, WriteTypes
  <2>3. WaitsForOne'
    BY <1>2, <1>6, <1>7, <2>1 DEF WriteInv, WaitsForOne, Alone
  <2>4. LooksFor'
    BY Zenon, <1>7, <2>1 DEF WriteInv, LooksFor
  <2>5. JournalDecided'
    BY <1>5, <1>7 DEF WriteInv, JournalDecided
  <2> QED BY <2>2, <2>3, <2>4, <2>5 DEF WriteInv
<1>8. CASE /\ r.awaited /\ Clear(r.op)
           /\ r.op \in recorded' \/ (requests' = requests \ {r} /\ r.mode = "first")
  <2>1. /\ journal' = journal \/ journal' = Absent
        /\ \A o : MayStore(o)' => MayStore(o) /\ journal' = journal
        /\ \A o : o # r.op /\ MayStore(o) => MayStore(o)'
    BY <1>8, ClearIs
  <2>2. Alone(r)
    BY <1>8 DEF WriteInv, WaitsForOne
  <2>3. Decided(r.op)'
    BY Zenon, <1>8, <2>2 DEF Decided, Alone
  <2>4. WriteTypes'
    BY <1>3, <2>1 DEF WriteInv, WriteTypes
  <2>5. WaitsForOne'
    BY <1>2, <1>6, <2>1 DEF WriteInv, WaitsForOne, Alone
  <2>6. LooksFor'
    BY <2>1, <2>2 DEF WriteInv, LooksFor, Alone
  <2>7. JournalDecided'
    BY Zenon, <1>5, <2>1, <2>3 DEF WriteInv, JournalDecided, MayStore
  <2> QED BY <2>4, <2>5, <2>6, <2>7 DEF WriteInv
<1>9. CASE r.awaited /\ Transition(r.op, "unknown")
  <2>1. /\ \A o : MayStore(o)' <=> MayStore(o)
        /\ \A o : o # r.op /\ MayStore(o) => journal' = journal
        /\ journal' # Absent => /\ journal' = [op |-> journal'.op, state |-> journal'.state]
                               /\ journal'.op \in started /\ journal'.state \in JournalStates
    BY <1>9, TransitionIs DEF WriteInv, JournalStates
  <2>2. Alone(r)
    BY <1>9 DEF WriteInv, WaitsForOne
  <2>3. WriteTypes'
    BY <1>3, <2>1 DEF WriteInv, WriteTypes
  <2>4. \A s \in requests' : s.awaited => s.op # r.op
    BY Zenon, <1>2, <2>2 DEF Alone
  <2>5. WaitsForOne'
    BY Zenon, <1>2, <1>6, <2>1, <2>4 DEF WriteInv, WaitsForOne, Alone
  <2>6. LooksFor'
    BY <2>1, <2>2 DEF WriteInv, LooksFor, Alone
  <2>7. JournalDecided'
    BY <1>5, <2>1 DEF WriteInv, JournalDecided, MayStore
  <2> QED BY <2>3, <2>5, <2>6, <2>7 DEF WriteInv
<1> QED BY <1>7, <1>8, <1>9

LEMMA UnawaitedIs ==
  ASSUME NEW r, Known(r)
  PROVE  LET n == [r EXCEPT !.awaited = FALSE] IN Known(n) /\ n.op = r.op /\ ~n.awaited /\ n.mode = r.mode
BY Zenon DEF Known, RequestFields

\* The answers of the guards, the handlers and the backend are none of them 200.
LEMMA NotOk ==
  /\ \A grpc : writeGRPC(grpc) # Ok
  /\ \A code : sessionError(code) # Ok
  /\ \A kind : InvalidBody(kind) # Ok
  /\ RecoveryBlocked # Ok /\ DiskPaused # Ok /\ NoAnswer # Ok
<1>1. \A grpc : writeGRPC(grpc) # Ok
  BY DEF writeGRPC, Ok
<1>2. \A code : sessionError(code) # Ok
  BY DEF sessionError, Ok
<1>3. \A kind : InvalidBody(kind) # Ok
  BY DEF InvalidBody, Ok
<1>4. RecoveryBlocked # Ok /\ DiskPaused # Ok /\ NoAnswer # Ok
  BY DEF RecoveryBlocked, DiskPaused, NoAnswer, Ok
<1> QED BY <1>1, <1>2, <1>3, <1>4

LEMMA StillUncertain == Uncertain(NoAnswer) /\ Uncertain(writeGRPC(mapError("deadline")))
<1>1. mapError("deadline") = "DeadlineExceeded"
  BY DEF mapError
<1>2. writeGRPC("DeadlineExceeded") = <<504, "backend_timeout">>
  BY DEF writeGRPC
<1>3. Uncertain(NoAnswer)
  BY DEF NoAnswer, Uncertain
<1> QED BY <1>1, <1>2, <1>3 DEF Uncertain

\* The request ends: only a recorded operation is answered by 200.
LEMMA AnswerKeeps ==
  ASSUME WriteInv, NEW r \in requests, NEW http, Answer(r, http),
         http = Ok => r.op \in recorded',
         recorded \subseteq recorded', recorded' \subseteq started, closedFor \subseteq closedFor',
         started' = started
  PROVE  WriteInv'
<1> DEFINE n == [r EXCEPT !.awaited = FALSE]
<1>1. Known(n) /\ n.op = r.op /\ ~n.awaited
  BY UnawaitedIs DEF WriteInv, WriteTypes
<1>2. requests' = requests \ {r} /\ querying' = querying
  BY DEF Answer, Handle
<1>3. \/ journal' = journal
      \/ r.awaited /\ Clear(r.op) /\ (http = Ok \/ r.mode = "first")
      \/ r.awaited /\ Transition(r.op, "unknown")
  BY DEF Answer, Handle, HandleFirst, HandleReplay
<1> HIDE DEF n
<1> QED BY <1>1, <1>2, <1>3, LeavesKeep

\* The page stops waiting and the request goes on without it.
LEMMA LeftKeeps ==
  ASSUME WriteInv, NEW r \in requests, r.awaited, NEW http, Uncertain(http), http # Ok,
         requests' = (requests \ {r}) \cup {[r EXCEPT !.awaited = FALSE]}, Handle(r, http),
         UNCHANGED <<recorded, closedFor, started>>
  PROVE  WriteInv'
<1> DEFINE n == [r EXCEPT !.awaited = FALSE]
<1>1. Known(n) /\ n.op = r.op /\ ~n.awaited
  BY UnawaitedIs DEF WriteInv, WriteTypes
<1>2. requests' = (requests \ {r}) \cup {n} /\ querying' = querying
  BY DEF Handle
<1>3. Transition(r.op, "unknown")
  BY DEF Handle, HandleFirst, HandleReplay
<1>4. recorded' \subseteq started
  BY DEF WriteInv, WriteTypes
<1> HIDE DEF n
<1> QED BY <1>1, <1>2, <1>3, <1>4, LeavesKeep

\* The request moves on, and the page does not notice.
LEMMA ForwardKeeps ==
  ASSUME WriteInv, NEW r \in requests, NEW place, Forward(r, place),
         UNCHANGED <<journal, querying, recorded, closedFor, started>>
  PROVE  WriteInv'
<1> DEFINE n == [r EXCEPT !.at = place]
<1>1. Known(r)
  BY DEF WriteInv, WriteTypes
<1>2. Known(n) /\ n.op = r.op /\ n.awaited = r.awaited /\ n.mode = r.mode
  BY <1>1 DEF Known, RequestFields
<1>3. requests' = (requests \ {r}) \cup {n}
  BY DEF Forward
<1> HIDE DEF n
<1>4. \A o : MayStore(o)' <=> MayStore(o)
  BY DEF MayStore
<1>5. WriteTypes'
  BY <1>2, <1>3 DEF WriteInv, WriteTypes, Known
<1>6. ASSUME NEW s \in requests', s.awaited PROVE Alone(s)'
  <2> DEFINE old == IF s = n THEN r ELSE s
  <2>1. old \in requests /\ old.op = s.op /\ old.mode = s.mode /\ old.awaited /\ Alone(old)
    BY <1>2, <1>3, <1>6 DEF WriteInv, WaitsForOne
  <2>2. ASSUME NEW u \in requests', u.op = s.op, u.awaited \/ s.mode = "first" PROVE u = s
    <3> DEFINE w == IF u = n THEN r ELSE u
    <3>1. w \in requests /\ w.op = u.op /\ (u.awaited => w.awaited) /\ (u = n => w = r) /\ (u # n => w = u /\ w # r)
      BY <1>2, <1>3, <2>2
    <3>2. (s = n => old = r) /\ (s # n => old = s /\ old # r)
      BY <1>3
    <3>3. w = old
      BY <2>1, <2>2, <3>1 DEF Alone
    <3> QED BY <3>1, <3>2, <3>3
  <2>3. s.op \notin querying /\ (MayStore(s.op) => journal.state # "unknown")
    BY <2>1 DEF Alone
  <2> QED BY <1>4, <2>2, <2>3 DEF Alone
<1>7. LooksFor'
  BY <1>4 DEF WriteInv, LooksFor
<1>8. \A s \in requests' : \E u \in requests : u.op = s.op
  BY <1>2, <1>3
<1>9. JournalDecided'
  BY <1>8, StaysDecided DEF WriteInv, JournalDecided
<1> QED BY <1>5, <1>6, <1>7, <1>9 DEF WriteInv, WaitsForOne

\* The page asks again for an operation it does not wait for.
LEMMA SendKeeps ==
  ASSUME WriteInv, NEW op \in started, Send(op, "replay"),
         \A r \in requests : r.awaited => r.op # op,
         MayStore(op) \/ op \in recorded \cup closedFor,
         op \notin querying', querying' \subseteq querying,
         \A o : MayStore(o)' <=> MayStore(o),
         \A o : o # op /\ MayStore(o) => journal' = journal,
         MayStore(op) => journal'.state # "unknown",
         journal' # Absent => /\ journal' = [op |-> journal'.op, state |-> journal'.state]
                             /\ journal'.op \in started /\ journal'.state \in JournalStates,
         UNCHANGED <<recorded, closedFor, started>>
  PROVE  WriteInv'
<1> DEFINE n == Request(op, "replay")
<1>1. requests' = requests \cup {n}
  BY DEF Send
<1>2. Known(n) /\ n.op = op /\ n.mode = "replay" /\ n.awaited
  BY DEF Request, Known, RequestFields
<1> HIDE DEF n
<1>3. WriteTypes'
  BY Zenon, <1>1, <1>2 DEF WriteInv, WriteTypes, Known
<1>4. ASSUME NEW s \in requests', s.awaited PROVE Alone(s)'
  <2>1. CASE s.op # op
    <3>1. s \in requests /\ Alone(s)
      BY <1>1, <1>2, <1>4, <2>1 DEF WriteInv, WaitsForOne
    <3>2. \A u \in requests' : u.op = s.op => u \in requests
      BY <1>1, <1>2, <2>1
    <3> QED BY <2>1, <3>1, <3>2 DEF Alone
  <2>2. CASE s.op = op
    <3>1. s = n
      BY <1>1, <1>4, <2>2
    <3>2. \A u \in requests' : u.op = op /\ u.awaited => u = n
      BY <1>1
    <3> QED BY <1>2, <3>1, <3>2 DEF Alone
  <2> QED BY <2>1, <2>2
<1>5. LooksFor'
  BY DEF WriteInv, LooksFor
<1>6. ASSUME NEW o \in started, ~MayStore(o)' PROVE Decided(o)'
  <2>1. CASE o = op
    BY <1>6, <2>1 DEF Decided
  <2>2. CASE o # op
    <3>1. Decided(o)
      BY <1>6 DEF WriteInv, JournalDecided, MayStore
    <3>2. \A r \in requests' : r.op = o => \E s \in requests : s.op = o
      BY <1>1, <1>2, <2>2
    <3> QED BY <3>1, <3>2, StaysDecided
  <2> QED BY <2>1, <2>2
<1>7. JournalDecided'
  BY <1>6 DEF JournalDecided, MayStore
<1> QED BY <1>3, <1>4, <1>5, <1>7 DEF WriteInv, WaitsForOne

LEMMA StartKeeps ==
  ASSUME WriteInv, NEW kind \in {"submit", "cancel", "fund"}, StartWrite(kind)
  PROVE  WriteInv'
<1> DEFINE c == Cardinality(started)
           op == [kind |-> kind, n |-> c + 1]
           n == Request(op, "first")
<1>1. /\ c < MaxOps /\ journal = Absent /\ journal' = [op |-> op, state |-> "submitted"]
      /\ requests' = requests \cup {n} /\ started' = started \cup {op}
      /\ UNCHANGED <<querying, recorded, closedFor>>
  BY Zenon DEF StartWrite, Send, backendVars
<1>2. n.op = op /\ n.mode = "first" /\ n.awaited /\ n.awaited \in BOOLEAN /\ n = [x \in RequestFields |-> n[x]]
  BY DEF Request, RequestFields
<1>3. c \in Nat /\ c + 1 \in 1 .. MaxOps
  BY <1>1, FS_CardinalityType, WriteAssumption DEF WriteInv, WriteTypes
<1>4. op \in Operations /\ op.n = c + 1 /\ op \notin started
  BY <1>3 DEF Operations, WriteInv, WriteTypes
<1>5. IsFiniteSet(started') /\ Cardinality(started') = c + 1
  BY <1>1, <1>4, FS_AddElement DEF WriteInv, WriteTypes
<1> HIDE DEF c, op, n
<1>6. journal' \in [op : Operations, state : JournalStates]
  BY <1>1, <1>4 DEF JournalStates
<1>7. journal' # Absent /\ journal'.op = op /\ journal'.state = "submitted"
  BY <1>1, <1>6, WriteAssumption
<1>8. \A r \in requests : r.op \in started /\ r.op # op /\ Known(r)
  BY <1>4 DEF WriteInv, WriteTypes, Known
<1>9. WriteTypes'
  <2>1. \A o \in started' : o.n <= Cardinality(started') /\ o \in Operations
    BY <1>1, <1>3, <1>4, <1>5 DEF WriteInv, WriteTypes, c, Operations
  <2>2. \A r \in requests' : Known(r)'
    BY Zenon, <1>1, <1>2, <1>8 DEF Known
  <2>3. Cardinality(started') <= MaxOps
    BY <1>3, <1>5
  <2>4. journal' = [op |-> journal'.op, state |-> journal'.state] /\ journal'.op \in started'
        /\ journal'.state \in JournalStates
    BY <1>1, <1>7 DEF JournalStates
  <2>5. recorded' \subseteq started' /\ querying' \subseteq started'
    BY <1>1 DEF WriteInv, WriteTypes
  <2> QED BY Zenon, <1>5, <2>1, <2>2, <2>3, <2>4, <2>5 DEF WriteTypes
<1>10. \A o : MayStore(o)' <=> o = op
  BY <1>7 DEF MayStore
<1>11. ASSUME NEW s \in requests', s.awaited PROVE Alone(s)'
  <2>1. CASE s = n
    BY Zenon, <1>1, <1>2, <1>4, <1>7, <1>8, <2>1 DEF Alone, WriteInv, WriteTypes
  <2>2. CASE s # n
    <3>1. s \in requests /\ Alone(s) /\ s.op # op
      BY <1>1, <1>8, <1>11, <2>2 DEF WriteInv, WaitsForOne
    <3>2. \A u \in requests' : u.op = s.op => u \in requests
      BY <1>1, <1>2, <3>1
    <3> QED BY <1>1, <1>10, <3>1, <3>2 DEF Alone
  <2> QED BY Zenon, <2>1, <2>2
<1>12. LooksFor'
  <2>1. \A o \in querying : o # op /\ ~MayStore(o)
    BY <1>1, <1>4 DEF WriteInv, WriteTypes, MayStore
  <2> QED BY <1>1, <1>10, <2>1 DEF WriteInv, LooksFor
<1>13. JournalDecided'
  <2> SUFFICES ASSUME NEW o \in started, o # op PROVE Decided(o)'
    BY <1>1, <1>7 DEF JournalDecided
  <2>1. Decided(o)
    BY <1>1 DEF WriteInv, JournalDecided
  <2>2. \A r \in requests' : r.op = o => \E s \in requests : s.op = o
    BY <1>1, <1>2
  <2>3. recorded \subseteq recorded' /\ closedFor \subseteq closedFor'
    BY <1>1
  <2> QED BY Zenon, <2>1, <2>2, <2>3, StaysDecided
<1> QED BY Zenon, <1>9, <1>11, <1>12, <1>13 DEF WriteInv, WaitsForOne

\* Nothing the journal depends on moves, or the log alone grows.
LEMMA GrowsKeep ==
  ASSUME WriteInv, UNCHANGED <<journal, querying, requests, started>>,
         recorded' = recorded, closedFor \subseteq closedFor'
  PROVE  WriteInv'
<1>1. \A o : MayStore(o)' <=> MayStore(o)
  BY DEF MayStore
<1>2. WriteTypes'
  BY DEF WriteInv, WriteTypes, Known
<1>3. WaitsForOne'
  BY <1>1 DEF WriteInv, WaitsForOne, Alone
<1>4. LooksFor'
  BY <1>1 DEF WriteInv, LooksFor
<1>5. JournalDecided'
  BY StaysDecided DEF WriteInv, JournalDecided
<1> QED BY <1>2, <1>3, <1>4, <1>5 DEF WriteInv

\* The journal drops an operation the read model shows, or marks it unknown,
\* while the page waits for no answer about it.
LEMMA JournalKeeps ==
  ASSUME WriteInv, NEW op \in started, querying' \subseteq querying,
         \/ Clear(op) /\ op \in recorded \cup closedFor
         \/ Transition(op, "unknown") /\ op \notin querying' /\ \A r \in requests : r.awaited => r.op # op,
         UNCHANGED <<requests, recorded, closedFor, started>>
  PROVE  WriteInv'
<1>1. CASE Clear(op) /\ op \in recorded \cup closedFor
  <2>1. /\ journal' = journal \/ journal' = Absent
        /\ \A o : MayStore(o)' => MayStore(o) /\ journal' = journal
        /\ \A o : o # op /\ MayStore(o) => MayStore(o)'
    BY Zenon, <1>1, ClearIs
  <2>2. WriteTypes'
    BY Zenon, <2>1 DEF WriteInv, WriteTypes, Known
  <2>3. WaitsForOne'
    BY <2>1 DEF WriteInv, WaitsForOne, Alone
  <2>4. LooksFor'
    BY <1>1, <2>1 DEF WriteInv, LooksFor
  <2>5. \A o : Decided(o) => Decided(o)'
    BY DEF Decided
  <2>6. Decided(op)'
    BY Zenon, <1>1 DEF Decided
  <2>7. JournalDecided'
    BY <2>1, <2>5, <2>6 DEF WriteInv, JournalDecided, MayStore
  <2> QED BY <2>2, <2>3, <2>4, <2>7 DEF WriteInv
<1>2. CASE Transition(op, "unknown") /\ op \notin querying' /\ \A r \in requests : r.awaited => r.op # op
  <2>1. /\ \A o : MayStore(o)' <=> MayStore(o)
        /\ \A o : o # op /\ MayStore(o) => journal' = journal
        /\ journal' # Absent => /\ journal' = [op |-> journal'.op, state |-> journal'.state]
                               /\ journal'.op \in started /\ journal'.state \in JournalStates
    BY Zenon, <1>2, TransitionIs DEF WriteInv, JournalStates
  <2>2. WriteTypes'
    BY Zenon, <2>1 DEF WriteInv, WriteTypes, Known
  <2>3. WaitsForOne'
    BY <1>2, <2>1 DEF WriteInv, WaitsForOne, Alone
  <2>4. LooksFor'
    BY <1>2, <2>1 DEF WriteInv, LooksFor
  <2>5. \A o : Decided(o) => Decided(o)'
    BY DEF Decided
  <2>6. JournalDecided'
    BY <2>1, <2>5 DEF WriteInv, JournalDecided, MayStore
  <2> QED BY <2>2, <2>3, <2>4, <2>6 DEF WriteInv
<1> QED BY <1>1, <1>2

LEMMA QueryKeeps ==
  ASSUME WriteInv, NEW op \in querying, QueryAnswered(op)
  PROVE  WriteInv'
<1>1. /\ op \in started /\ querying' = querying \ {op} /\ UNCHANGED <<recorded, closedFor, started>>
  BY DEF QueryAnswered, WriteInv, WriteTypes, backendVars
<1>2. \A r \in requests : r.awaited => r.op # op
  BY Zenon DEF WriteInv, WaitsForOne, Alone
<1>3. CASE ResolvedByOrders(op) /\ Clear(op) /\ UNCHANGED <<requests, sent>>
  BY <1>1, <1>3, JournalKeeps DEF ResolvedByOrders
<1>4. CASE Send(op, "replay") /\ UNCHANGED journal
  <2>1. IF MayStore(op) THEN journal.state # "unknown" ELSE op \in recorded \cup closedFor
    BY DEF WriteInv, LooksFor
  <2>2. \A o : MayStore(o)' <=> MayStore(o)
    BY <1>4 DEF MayStore
  <2>3. journal' # Absent => /\ journal' = [op |-> journal'.op, state |-> journal'.state]
                            /\ journal'.op \in started /\ journal'.state \in JournalStates
    BY <1>4 DEF WriteInv, WriteTypes
  <2> QED BY <1>1, <1>2, <1>4, <2>1, <2>2, <2>3, SendKeeps
<1>5. CASE Transition(op, "unknown") /\ UNCHANGED <<requests, sent>>
  BY <1>1, <1>2, <1>5, JournalKeeps
<1> QED BY <1>3, <1>4, <1>5 DEF QueryAnswered

LEMMA ReconcileKeeps ==
  ASSUME WriteInv, ReconcileWrite
  PROVE  WriteInv'
<1> DEFINE op == journal.op
<1>1. /\ journal # Absent /\ journal.state = "unknown" /\ op \in started /\ MayStore(op)
      /\ UNCHANGED <<recorded, closedFor, started>>
  BY DEF ReconcileWrite, WriteInv, WriteTypes, MayStore, backendVars
<1>2. \A r \in requests : r.awaited => r.op # op
  BY <1>1 DEF WriteInv, WaitsForOne, Alone
<1>3. op \notin querying
  BY <1>1 DEF WriteInv, LooksFor
<1>4. ASSUME Transition(op, "reconciling")
      PROVE  /\ \A o : MayStore(o)' <=> MayStore(o)
             /\ journal'.state # "unknown"
             /\ journal' # Absent => /\ journal' = [op |-> journal'.op, state |-> journal'.state]
                                    /\ journal'.op \in started /\ journal'.state \in JournalStates
             /\ \A o : o # op => ~MayStore(o)
  BY <1>1, <1>4, TransitionIs DEF WriteInv, JournalStates, MayStore
<1>5. CASE op.kind = "fund"
  <2>1. querying' = querying
    BY Zenon, <1>1, <1>5 DEF ReconcileWrite
  <2>2. CASE Transition(op, "reconciling") /\ Send(op, "replay")
    BY <1>1, <1>2, <1>3, <1>4, <2>1, <2>2, SendKeeps
  <2>3. CASE UNCHANGED <<journal, requests, sent>>
    BY <1>1, <2>1, <2>3, GrowsKeep
  <2> QED BY Zenon, <1>5, <2>2, <2>3 DEF ReconcileWrite
<1>6. CASE op.kind # "fund"
  <2>1. Transition(op, "reconciling") /\ requests' = requests /\ querying' \subseteq querying \cup {op}
    BY <1>6 DEF ReconcileWrite
  <2>2. /\ \A o : MayStore(o)' <=> MayStore(o)
        /\ journal'.state # "unknown"
        /\ journal' # Absent => /\ journal' = [op |-> journal'.op, state |-> journal'.state]
                               /\ journal'.op \in started /\ journal'.state \in JournalStates
    BY <1>4, <2>1
  <2> HIDE DEF op
  <2>3. WriteTypes'
    BY <1>1, <2>1, <2>2 DEF WriteInv, WriteTypes, Known
  <2>4. WaitsForOne'
    BY <1>2, <2>1, <2>2 DEF WriteInv, WaitsForOne, Alone
  <2>5. querying \subseteq querying \cup {op} /\ MayStore(op)
    BY <1>1
  <2>6. LooksFor'
    BY <1>1, <2>1, <2>2, <2>5 DEF WriteInv, LooksFor
  <2>7. \A o : Decided(o) => Decided(o)'
    BY <1>1, <2>1 DEF Decided
  <2>8. JournalDecided'
    BY <1>1, <2>2, <2>7 DEF WriteInv, JournalDecided, MayStore
  <2> QED BY Zenon, <2>3, <2>4, <2>6, <2>8 DEF WriteInv
<1> QED BY <1>5, <1>6

LEMMA ReloadKeeps ==
  ASSUME WriteInv, Reload
  PROVE  WriteInv'
<1>1. /\ requests' = {[r EXCEPT !.awaited = FALSE] : r \in requests} /\ querying' = {}
      /\ UNCHANGED <<recorded, closedFor, started>>
      /\ journal' = IF journal = Absent THEN journal ELSE [journal EXCEPT !.state = "unknown"]
  BY DEF Reload, backendVars
<1>2. \A s \in requests' : ~s.awaited /\ Known(s) /\ \E u \in requests : u.op = s.op
  BY Zenon, <1>1, UnawaitedIs DEF WriteInv, WriteTypes
<1>3. /\ \A o : MayStore(o)' <=> MayStore(o)
      /\ journal' # Absent => /\ journal' = [op |-> journal'.op, state |-> journal'.state]
                             /\ journal'.op \in started /\ journal'.state \in JournalStates
  <2>1. CASE journal = Absent
    BY <1>1, <2>1 DEF MayStore
  <2>2. CASE journal # Absent
    <3>1. Transition(journal.op, "unknown")
      BY <1>1, <2>2 DEF Transition, MayStore
    <3> QED BY <3>1, TransitionIs DEF WriteInv, JournalStates
  <2> QED BY <2>1, <2>2
<1>4. WriteTypes'
  BY <1>1, <1>2, <1>3 DEF WriteInv, WriteTypes, Known
<1>5. WaitsForOne' /\ LooksFor'
  BY <1>1, <1>2 DEF WaitsForOne, LooksFor
<1>6. \A o : Decided(o) => Decided(o)'
  BY <1>1, <1>2 DEF Decided
<1>7. JournalDecided'
  BY <1>1, <1>3, <1>6 DEF WriteInv, JournalDecided, MayStore
<1> QED BY <1>4, <1>5, <1>7 DEF WriteInv

\* The gateway and the backend, one request at a time.
LEMMA RequestsKeep ==
  ASSUME WriteInv, NEW r \in requests,
         \/ GiveUp(r) \/ Vanish(r) \/ recoveryWriteGuard(r) \/ diskWriteGuard(r) \/ Handler(r)
         \/ Serve(r) \/ CallerLeaves(r) \/ Execute(r)
  PROVE  WriteInv'
<1> USE DEF backendVars, pageVars
<1>0. recorded \subseteq started /\ Known(r)
  BY DEF WriteInv, WriteTypes
<1>1. CASE GiveUp(r)
  BY <1>1, NotOk, StillUncertain, LeftKeeps DEF GiveUp
<1>2. CASE Vanish(r)
  <2>1. Known([r EXCEPT !.awaited = FALSE]) /\ [r EXCEPT !.awaited = FALSE].op = r.op
        /\ ~[r EXCEPT !.awaited = FALSE].awaited
    BY <1>0, UnawaitedIs
  <2> QED BY <1>0, <1>2, <2>1, LeavesKeep DEF Vanish
<1>3. ASSUME NEW http, http # Ok, Answer(r, http), UNCHANGED <<recorded, closedFor, started>>
      PROVE  WriteInv'
  BY <1>0, <1>3, AnswerKeeps
<1>4. CASE recoveryWriteGuard(r) \/ diskWriteGuard(r)
  BY <1>3, <1>4, NotOk DEF recoveryWriteGuard, diskWriteGuard
<1>5. CASE Handler(r)
  <2>1. \/ Forward(r, "backend") /\ UNCHANGED <<journal, querying>>
        \/ Answer(r, InvalidBody(r.op.kind))
        \/ \E answer : Answer(r, sessionError(answer))
    BY <1>5 DEF Handler
  <2>2. UNCHANGED <<recorded, closedFor, started>>
    BY <1>5 DEF Handler
  <2> QED BY <1>3, <2>1, <2>2, NotOk, ForwardKeeps
<1>6. CASE Serve(r)
  <2>1. \E grpc : Answer(r, writeGRPC(grpc))
    BY Zenon, <1>6 DEF Serve, SubmitRefused, CancelRefused, FundRefused, NotQueued
  <2> QED BY <1>3, <1>6, <2>1, NotOk DEF Serve
<1>7. CASE CallerLeaves(r)
  BY <1>7, NotOk, StillUncertain, LeftKeeps DEF CallerLeaves
<1>8. CASE Execute(r)
  <2>1. CASE r.op \in recorded /\ Answer(r, Ok) /\ UNCHANGED <<recorded, closedFor>>
    BY Zenon, <1>0, <1>8, <2>1, AnswerKeeps DEF Execute
  <2>2. CASE /\ recorded' = recorded \cup {r.op} /\ closedFor \subseteq closedFor'
             /\ \E http : Answer(r, http)
    <3>1. recorded' \subseteq started /\ recorded \subseteq recorded' /\ r.op \in recorded'
      BY <1>0, <2>2 DEF Known
    <3> QED BY Zenon, <1>8, <2>2, <3>1, AnswerKeeps DEF Execute
  <2>3. CASE UNCHANGED <<recorded, closedFor>> /\ \E grpc : Answer(r, writeGRPC(grpc))
    BY Zenon, <1>3, <1>8, <2>3, NotOk DEF Execute
  <2> QED BY Zenon, <1>8, <2>1, <2>2, <2>3 DEF Execute
<1> QED BY <1>1, <1>2, <1>4, <1>5, <1>6, <1>7, <1>8

LEMMA WriteStep ==
  ASSUME WriteInv, [WriteNext]_writeVars
  PROVE  WriteInv'
<1> USE DEF backendVars, pageVars
<1>1. ASSUME NEW kind \in {"submit", "cancel", "fund"}, StartWrite(kind) PROVE WriteInv'
  BY <1>1, StartKeeps
<1>2. CASE ReconcileWrite
  BY <1>2, ReconcileKeeps
<1>3. CASE LoadPrivate
  <2>1. journal.op \in started /\ journal.op \in recorded \cup closedFor /\ Clear(journal.op)
        /\ UNCHANGED <<querying, requests, recorded, closedFor, started>>
    BY <1>3 DEF LoadPrivate, ResolvedByOrders, WriteInv, WriteTypes
  <2> QED BY Zenon, <2>1, JournalKeeps
<1>4. CASE Reload
  BY <1>4, ReloadKeeps
<1>5. CASE PageLogin \/ PageLogout \/ SessionLost
  BY <1>5, GrowsKeep DEF PageLogin, PageLogout, SessionLost
<1>6. ASSUME NEW op \in querying, QueryAnswered(op) PROVE WriteInv'
  BY <1>6, QueryKeeps
<1>7. ASSUME NEW r \in requests,
             \/ GiveUp(r) \/ Vanish(r) \/ recoveryWriteGuard(r) \/ diskWriteGuard(r) \/ Handler(r)
             \/ Serve(r) \/ CallerLeaves(r) \/ Execute(r)
      PROVE  WriteInv'
  BY <1>7, RequestsKeep
<1>8. CASE OrderFills
  BY <1>8, GrowsKeep DEF OrderFills
<1>9. CASE /\ SessionExpires \/ WindowPasses \/ GatewayRestarts
           /\ UNCHANGED <<pageVars, requests, backendVars, started, sent>>
  BY <1>9, GrowsKeep
<1>10. CASE UNCHANGED writeVars
  BY <1>10, GrowsKeep DEF writeVars
<1> QED BY <1>1, <1>2, <1>3, <1>4, <1>5, <1>6, <1>7, <1>8, <1>9, <1>10 DEF WriteNext

\* The page and the gateway's guards use the sessions and leave the tokens alone.
LEMMA WriteAccessStep ==
  ASSUME AccessInv, [WriteNext]_writeVars
  PROVE  AccessInv'
<1>1. CASE UNCHANGED accessVars
  BY <1>1 DEF accessVars, AccessInv
<1>2. CASE PageLogin \/ PageLogout
  BY Zenon, <1>2, LoginsKeep, LogoutKeeps DEF PageLogin, PageLogout
<1>3. ASSUME NEW r \in requests, Handler(r) PROVE AccessInv'
  <2>1. UNCHANGED <<cookie, granted, logins, tokenVars>>
    BY <1>3 DEF Handler
  <2>2. windows' = windows \/ (Counted("account") /\ "ok" \in SessionAnswers(r.token))
    BY <1>3 DEF Handler
  <2>3. windows' \in [Keys -> 0 .. WriteLimit]
    BY <2>2, OkCounts, CountedKeeps DEF AccessInv
  <2> QED BY <2>1, <2>3, SessionsKeep DEF AccessInv
<1>4. CASE SessionExpires \/ WindowPasses \/ GatewayRestarts
  BY <1>4, LoginsKeep, RestartKeeps
<1>5. \/ UNCHANGED accessVars \/ PageLogin \/ PageLogout \/ \E r \in requests : Handler(r)
      \/ SessionExpires \/ WindowPasses \/ GatewayRestarts
  BY Zenon DEF WriteNext, writeVars, StartWrite, ReconcileWrite, LoadPrivate, Reload, SessionLost, QueryAnswered,
         GiveUp, Vanish, recoveryWriteGuard, diskWriteGuard, Serve, CallerLeaves, Execute, OrderFills
<1> QED BY <1>1, <1>2, <1>3, <1>4, <1>5

-----------------------------------------------------------------------------
(* The result *)

\* A write leaves the browser's journal, which blocks every other write, only when
\* its outcome is decided (request, reconcilePendingWrite): for any operations and
\* requests, through lost and late answers, reloads, logouts, replays and restarts
\* of the gateway; and an OAuth state or a ticket is accepted once (Consume).
THEOREM WritesAreDecided == WriteSpec => []WritesDecided
<1> DEFINE Both == AccessInv /\ WriteInv
<1>1. WriteInit => Both
  BY AccessStarts, WriteStarts DEF WriteInit
<1>2. Both /\ [WriteNext \/ AccessAlone]_writeVars => Both'
  <2> SUFFICES ASSUME Both, [WriteNext \/ AccessAlone]_writeVars PROVE Both'
    OBVIOUS
  <2>1. CASE [WriteNext]_writeVars
    BY <2>1, WriteStep, WriteAccessStep
  <2>2. CASE AccessAlone
    BY <2>2, AccessStep, GrowsKeep DEF AccessAlone, pageVars, backendVars
  <2> QED BY <2>1, <2>2
<1>3. Both => WritesDecided
  BY AccessMeans, WriteMeans DEF WritesDecided
<1> HIDE DEF Both
<1> QED BY <1>1, <1>2, <1>3, PTL DEF WriteSpec
=============================================================================
