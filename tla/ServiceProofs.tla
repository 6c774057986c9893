---------------------------- MODULE ServiceProofs ---------------------------
(***************************************************************************)
(* The parts of one trading process for any number of prices, makers and   *)
(* faults: the demo maker's orders, the process around it from boot to     *)
(* shutdown, and, with RunnerProofs, the market runner.                    *)
(***************************************************************************)
EXTENDS MCTradingService, RunnerProofs, FiniteSetTheorems

-----------------------------------------------------------------------------
(* The demo maker *)

LEMMA ItemOf ==
  ASSUME NEW S, NEW s \in Seq(S), NEW n \in 1 .. Len(s)
  PROVE  s[n] \in S
OBVIOUS

LEMMA TailWithin ==
  ASSUME NEW S, NEW s \in Seq(S), s # <<>>
  PROVE  Tail(s) \in Seq(S)
OBVIOUS

LEMMA WiderSequence ==
  ASSUME NEW S, NEW T, NEW s \in Seq(S), S \subseteq T
  PROVE  s \in Seq(T)
<1>1. s \in [1 .. Len(s) -> S] /\ Len(s) \in Nat
  OBVIOUS
<1>2. s \in [1 .. Len(s) -> T]
  BY <1>1
<1> QED BY <1>1, <1>2

\* A listing of a finite set misses none of its members.
Listing(S) == CHOOSE s \in Injection(1 .. Cardinality(S), S) : TRUE

LEMMA ListingAll ==
  ASSUME NEW S, IsFiniteSet(S)
  PROVE  /\ Listing(S) \in Seq(S)
         /\ \A x \in S : \E i \in 1 .. Len(Listing(S)) : Listing(S)[i] = x
<1> DEFINE D == 1 .. Cardinality(S)
           f == Listing(S)
<1>1. Cardinality(S) \in Nat /\ ExistsBijection(D, S)
  BY FS_CardinalityType
<1>2. PICK g \in Bijection(D, S) : TRUE
  BY <1>1 DEF ExistsBijection
<1>3. g \in Injection(D, S)
  BY <1>2 DEF Bijection
<1>4. f \in Injection(D, S)
  BY <1>3 DEF Listing
<1>5. f \in [D -> S]
  BY <1>4 DEF Injection
<1>6. IsFiniteSet(D) /\ Cardinality(D) = Cardinality(S)
  BY <1>1, FS_Interval
<1>7. f \in Surjection(D, S)
  BY <1>4, <1>6, FS_Injection
<1>8. f \in Seq(S) /\ Len(f) = Cardinality(S)
  BY <1>1, <1>5
<1> HIDE DEF f
<1> QED BY <1>7, <1>8 DEF f, Surjection

-----------------------------------------------------------------------------
(* The demo maker *)

Fields == {"pc", "prev", "paused", "recov", "fresh", "ref", "why", "left", "bad"}
Shaped(m) == m = [x \in Fields |-> m[x]]

Plan(p) == {quotePlan(p)[n] : n \in DOMAIN quotePlan(p)}
Priced0 == Prices \cup {0}
Orders == UNION {Plan(p) : p \in Prices}
Has(s, x) == \E i \in 1 .. Len(s) : s[i] = x

LEMMA PlansAre ==
  ASSUME NEW p
  PROVE  /\ Range(quotePlan(p)) = Plan(p)
         /\ DOMAIN quotePlan(p) = 1 .. (2 * Len(SpreadsBPS)) /\ Len(SpreadsBPS) \in Nat
         /\ quotePlan(p) \in Seq(Plan(p))
<1>1. Len(SpreadsBPS) \in Nat
  BY MakerAssumption
<1>2. 2 * Len(SpreadsBPS) \in Nat
  BY <1>1
<1>3. DOMAIN quotePlan(p) = 1 .. (2 * Len(SpreadsBPS))
  BY DEF quotePlan
<1>4. quotePlan(p) \in [1 .. (2 * Len(SpreadsBPS)) -> Plan(p)]
  BY <1>3 DEF Plan, quotePlan
<1>5. Range(quotePlan(p)) = Plan(p)
  BY DEF Range, Plan
<1> QED BY <1>1, <1>2, <1>3, <1>4, <1>5

MakerTypes ==
  /\ Shaped(maker)
  /\ maker.pc \in {"idle", "orders", "cancel", "submit", "failed", "done"}
  /\ maker.prev \in Priced0 /\ maker.ref \in Priced0 /\ maker.recov \in Priced0
  /\ maker.fresh \in 0 .. 2 /\ maker.paused \in BOOLEAN /\ maker.bad \in BOOLEAN
  /\ maker.left \in Seq(Orders)
  /\ liquidity \in {"active", "recovering", "paused"}
  /\ live \in BOOLEAN /\ runs \in 1 .. MaxRuns /\ makerFaults \in 0 .. MaxMakerFaults
  /\ resting \subseteq Orders /\ IsFiniteSet(resting)
  /\ reads \in Seq(Prices) /\ Len(reads) <= 3

\* Where the maker's orders come from, whatever its public status.
QuotesSound ==
  /\ maker.pc = "idle" /\ maker.prev # 0 => resting \subseteq Plan(maker.prev)
  /\ maker.pc = "submit" => /\ maker.ref # 0 /\ resting \subseteq Plan(maker.ref)
                            /\ \A i \in 1 .. Len(maker.left) : maker.left[i] \in Plan(maker.ref)
  /\ maker.pc = "cancel" /\ ~maker.bad => \A q \in resting : Has(maker.left, q)
  /\ maker.pc \in {"orders", "cancel"} /\ maker.why = "requote" => maker.ref # 0
  /\ liquidity = "active" => /\ maker.prev # 0
                             /\ resting \subseteq Plan(maker.prev) \cup Plan(maker.ref)
  /\ maker.pc \in {"failed", "done"} => liquidity # "active"

\* What a paused maker has counted is what it has read.
SamplesCounted ==
  /\ maker.paused /\ maker.pc = "idle" =>
       /\ maker.fresh <= Len(reads)
       /\ maker.recov # 0 => maker.fresh >= 1
       /\ maker.fresh >= 1 => reads[1] = maker.recov
       /\ maker.fresh = 2 => ~Jumps(reads[1], reads[2])
  /\ maker.paused => maker.pc # "submit"
  /\ maker.paused /\ maker.pc \in {"orders", "cancel"} => maker.why \in {"pause", "stop"}

MakerInv == MakerTypes /\ QuotesSound /\ SamplesCounted

LEMMA ZeroAndEmpty == 0 \in Priced0 /\ <<>> \in Seq(Orders)
BY DEF Priced0

LEMMA MakerStarts == MakerInit => MakerInv
<1> SUFFICES ASSUME MakerInit PROVE MakerInv
  OBVIOUS
<1>1. Shaped(FreshMaker) /\ FreshMaker.left = <<>>
  BY DEF Shaped, Fields, FreshMaker
<1>2. <<>> \in Seq(Orders) /\ <<>> \in Seq(Prices) /\ IsFiniteSet({})
  BY FS_EmptySet
<1>3. MakerTypes
  BY <1>1, <1>2, MakerAssumption DEF MakerInit, MakerTypes, FreshMaker, Priced0
<1>4. QuotesSound /\ SamplesCounted
  BY DEF MakerInit, QuotesSound, SamplesCounted, FreshMaker
<1> QED BY <1>3, <1>4 DEF MakerInv

-----------------------------------------------------------------------------
(* What the record updates of the maker leave *)

LEMMA CancelAllIs ==
  ASSUME NEW m, NEW why, Shaped(m)
  PROVE  /\ Shaped(CancelAll(m, why)) /\ CancelAll(m, why).pc = "orders" /\ CancelAll(m, why).why = why
         /\ CancelAll(m, why).left = <<>> /\ CancelAll(m, why).bad = FALSE
         /\ CancelAll(m, why).prev = m.prev /\ CancelAll(m, why).paused = m.paused
         /\ CancelAll(m, why).recov = m.recov /\ CancelAll(m, why).fresh = m.fresh
         /\ CancelAll(m, why).ref = m.ref
BY Zenon DEF CancelAll, Shaped, Fields

LEMMA AtRestIs ==
  ASSUME Shaped(maker)
  PROVE  /\ Shaped(AtRest) /\ AtRest.pc = "idle" /\ AtRest.ref = 0 /\ AtRest.bad = FALSE
         /\ AtRest.prev = maker.prev /\ AtRest.paused = maker.paused
         /\ AtRest.recov = maker.recov /\ AtRest.fresh = maker.fresh /\ AtRest.left = maker.left
BY Zenon DEF AtRest, Shaped, Fields

LEMMA ResumedIs ==
  ASSUME Shaped(maker)
  PROVE  /\ Shaped(Resumed) /\ Resumed.pc = maker.pc /\ Resumed.prev = maker.prev
         /\ Resumed.paused = FALSE /\ Resumed.recov = 0 /\ Resumed.fresh = 0
         /\ Resumed.ref = maker.ref /\ Resumed.left = maker.left /\ Resumed.bad = maker.bad
         /\ Resumed.why = maker.why
BY Zenon DEF Resumed, Shaped, Fields

\* What a paused maker reads goes in front, and three samples are kept.
LEMMA SawIs ==
  ASSUME MakerTypes, NEW ref \in Prices, Saw(ref)
  PROVE  /\ ~maker.paused => reads' = <<>>
         /\ reads' \in Seq(Prices) /\ Len(reads') <= 3
         /\ maker.paused =>
              /\ reads' \in Seq(Prices) /\ reads'[1] = ref
              /\ Len(reads') = IF Len(reads) < 2 THEN Len(reads) + 1 ELSE 3
              /\ \A k \in 2 .. Len(reads') : reads'[k] = reads[k - 1]
<1>1. ref # 0
  BY MakerAssumption
<1>2. CASE ~maker.paused
  BY <1>1, <1>2 DEF Saw
<1>3. CASE maker.paused
  <2> DEFINE all == <<ref>> \o reads
             n == IF Len(reads) < 2 THEN Len(reads) + 1 ELSE 3
  <2>1. reads' = SubSeq(all, 1, n)
    BY <1>1, <1>3 DEF Saw
  <2>2. reads \in Seq(Prices) /\ Len(reads) \in Nat
    BY DEF MakerTypes
  <2>3. /\ all \in Seq(Prices) /\ Len(all) = Len(reads) + 1 /\ all[1] = ref
        /\ \A k \in 2 .. Len(all) : all[k] = reads[k - 1]
    BY <2>2
  <2>4. n \in 1 .. Len(all) /\ n \in Nat
    BY <2>2, <2>3
  <2> HIDE DEF all, n
  <2>5. /\ SubSeq(all, 1, n) \in Seq(Prices) /\ Len(SubSeq(all, 1, n)) = n
        /\ \A k \in 1 .. n : SubSeq(all, 1, n)[k] = all[k]
    BY <2>3, <2>4
  <2> QED BY <1>3, <2>1, <2>3, <2>4, <2>5 DEF n
<1> QED BY <1>2, <1>3

-----------------------------------------------------------------------------
(* refresh *)

LEMMA UnsafeKeeps ==
  ASSUME MakerInv, RefreshUnsafe
  PROVE  MakerInv'
<1> DEFINE n == CancelAll(maker, "pause")
<1>1. maker' = n /\ reads' = <<>> /\ UNCHANGED <<resting, live, runs, makerFaults>>
  BY DEF RefreshUnsafe, Saw
<1>2. liquidity' = liquidity \/ (liquidity # "active" /\ liquidity' = "recovering")
  BY DEF RefreshUnsafe, Recovering
<1>3. /\ Shaped(n) /\ n.pc = "orders" /\ n.why = "pause" /\ n.left = <<>> /\ n.bad = FALSE
      /\ n.prev = maker.prev /\ n.paused = maker.paused /\ n.recov = maker.recov
      /\ n.fresh = maker.fresh /\ n.ref = maker.ref
  <2>1. Shaped(maker)
    BY DEF MakerInv, MakerTypes
  <2> QED BY Zenon, <2>1 DEF CancelAll, Shaped, Fields
<1> HIDE DEF n
<1>4. MakerTypes'
  <2>1. maker'.paused \in BOOLEAN /\ maker'.bad \in BOOLEAN
    BY Zenon, <1>1, <1>2, <1>3 DEF MakerInv, MakerTypes
  <2>2. liquidity' \in {"active", "recovering", "paused"}
    BY <1>1, <1>2, <1>3 DEF MakerInv, MakerTypes
  <2>3. maker'.prev \in Priced0 /\ maker'.ref \in Priced0 /\ maker'.recov \in Priced0
    BY <1>1, <1>2, <1>3, ZeroAndEmpty DEF MakerInv, MakerTypes
  <2>4. maker'.fresh \in 0 .. 2 /\ maker'.left \in Seq(Orders)
    BY <1>1, <1>2, <1>3, ZeroAndEmpty DEF MakerInv, MakerTypes
  <2> QED BY <1>1, <1>2, <1>3, <2>1, <2>2, <2>3, <2>4 DEF MakerInv, MakerTypes
<1>5. QuotesSound'
  BY <1>1, <1>2, <1>3 DEF MakerInv, QuotesSound
<1>6. SamplesCounted'
  BY <1>1, <1>3 DEF SamplesCounted
<1> QED BY <1>4, <1>5, <1>6 DEF MakerInv

LEMMA SampleKeeps ==
  ASSUME MakerInv, NEW ref \in Prices, RefreshSample(ref)
  PROVE  MakerInv'
<1> DEFINE count == IF Restarts(ref) THEN 1 ELSE maker.fresh + 1
<1>1. /\ maker' = [maker EXCEPT !.recov = ref, !.fresh = count]
      /\ UNCHANGED <<resting, live, runs, makerFaults>>
      /\ maker.pc = "idle" /\ maker.paused /\ ~Enough(ref) /\ Saw(ref)
  BY DEF RefreshSample
<1>2. liquidity' = IF liquidity = "active" THEN liquidity ELSE "recovering"
  BY DEF RefreshSample, Recovering
<1>3. ref # 0 /\ ref \in Priced0
  BY MakerAssumption DEF Priced0
<1>4. count \in 1 .. 2 /\ (~Restarts(ref) => maker.recov # 0 /\ ~Jumps(ref, maker.recov) /\ maker.fresh = 1)
  BY <1>1 DEF Restarts, Enough, MakerInv, MakerTypes, SamplesCounted
<1>5. /\ Shaped(maker') /\ maker'.pc = maker.pc /\ maker'.prev = maker.prev /\ maker'.paused = maker.paused
      /\ maker'.recov = ref /\ maker'.fresh = count /\ maker'.ref = maker.ref
      /\ maker'.left = maker.left /\ maker'.bad = maker.bad /\ maker'.why = maker.why
  BY Zenon, <1>1 DEF MakerInv, MakerTypes, Shaped, Fields
<1>6. /\ reads' \in Seq(Prices) /\ reads'[1] = ref
      /\ Len(reads') = IF Len(reads) < 2 THEN Len(reads) + 1 ELSE 3
      /\ \A k \in 2 .. Len(reads') : reads'[k] = reads[k - 1]
  BY <1>1, SawIs DEF MakerInv
<1> HIDE DEF count
<1>7. MakerTypes'
  <2>1. Len(reads') <= 3
    BY <1>6 DEF MakerInv, MakerTypes
  <2>2. maker'.fresh \in 0 .. 2 /\ liquidity' \in {"active", "recovering", "paused"}
    BY <1>2, <1>4, <1>5 DEF MakerInv, MakerTypes
  <2> QED BY Zenon, <1>1, <1>3, <1>5, <1>6, <2>1, <2>2 DEF MakerInv, MakerTypes
<1>8. QuotesSound'
  BY <1>1, <1>2, <1>5 DEF MakerInv, QuotesSound
<1>9. SamplesCounted'
  <2>1. Len(reads) \in Nat /\ maker.fresh \in 0 .. 2
    BY DEF MakerInv, MakerTypes
  <2>2. count = 2 => maker.fresh = 1 /\ ~Restarts(ref)
    BY <1>4, <2>1 DEF count
  <2>3. count <= Len(reads') /\ Len(reads') <= 3
    BY <1>1, <1>4, <1>6, <2>1, <2>2 DEF MakerInv, SamplesCounted
  <2>4. count = 2 => reads'[2] = maker.recov /\ ~Jumps(reads'[1], reads'[2])
    <3> SUFFICES ASSUME count = 2 PROVE reads'[2] = maker.recov /\ ~Jumps(reads'[1], reads'[2])
      OBVIOUS
    <3>1. reads[1] = maker.recov
      BY <1>1, <2>2, <2>1 DEF MakerInv, SamplesCounted
    <3>2. 2 \in 2 .. Len(reads')
      BY <2>3, <1>6, <2>1
    <3>3. reads'[2] = reads[1]
      BY <1>6, <3>2
    <3> QED BY <1>4, <1>6, <2>2, <3>1, <3>3
  <2> QED BY <1>1, <1>4, <1>5, <1>6, <2>3, <2>4 DEF SamplesCounted
<1> QED BY <1>7, <1>8, <1>9 DEF MakerInv

LEMMA JumpKeeps ==
  ASSUME MakerInv, NEW ref \in Prices, RefreshJump(ref)
  PROVE  MakerInv'
<1> DEFINE n == CancelAll(Resumed, "pause")
<1>1. maker' = n /\ UNCHANGED <<resting, live, runs, makerFaults>> /\ Saw(ref)
  BY DEF RefreshJump
<1>2. liquidity' = IF liquidity = "active" THEN liquidity ELSE "recovering"
  BY DEF RefreshJump, Recovering
<1>3. /\ Shaped(n) /\ n.pc = "orders" /\ n.why = "pause" /\ n.left = <<>> /\ n.bad = FALSE
      /\ n.prev = maker.prev /\ n.paused = FALSE /\ n.recov = 0 /\ n.fresh = 0 /\ n.ref = maker.ref
  <2>1. Shaped(maker)
    BY DEF MakerInv, MakerTypes
  <2>2. /\ Shaped(Resumed) /\ Resumed.prev = maker.prev /\ Resumed.paused = FALSE
        /\ Resumed.recov = 0 /\ Resumed.fresh = 0 /\ Resumed.ref = maker.ref
    BY Zenon, <2>1, ResumedIs
  <2> QED BY Zenon, <2>2 DEF CancelAll, Shaped, Fields
<1>4. reads' \in Seq(Prices) /\ Len(reads') <= 3
  BY <1>1, SawIs DEF MakerInv
<1> HIDE DEF n
<1>5. MakerTypes'
  <2>1. maker'.paused \in BOOLEAN /\ maker'.bad \in BOOLEAN
    BY Zenon, <1>1, <1>2, <1>3, <1>4 DEF MakerInv, MakerTypes
  <2>2. liquidity' \in {"active", "recovering", "paused"}
    BY <1>1, <1>2, <1>3, <1>4 DEF MakerInv, MakerTypes
  <2>3. maker'.prev \in Priced0 /\ maker'.ref \in Priced0 /\ maker'.recov \in Priced0
    BY <1>1, <1>2, <1>3, <1>4, ZeroAndEmpty DEF MakerInv, MakerTypes
  <2>4. maker'.fresh \in 0 .. 2 /\ maker'.left \in Seq(Orders)
    BY <1>1, <1>2, <1>3, <1>4, ZeroAndEmpty DEF MakerInv, MakerTypes
  <2> QED BY <1>1, <1>2, <1>3, <1>4, <2>1, <2>2, <2>3, <2>4 DEF MakerInv, MakerTypes
<1>6. QuotesSound'
  BY <1>1, <1>2, <1>3 DEF MakerInv, QuotesSound
<1>7. SamplesCounted'
  BY <1>1, <1>3 DEF SamplesCounted
<1> QED BY <1>5, <1>6, <1>7 DEF MakerInv

LEMMA KeepKeeps ==
  ASSUME MakerInv, NEW ref \in Prices, RefreshKeep(ref)
  PROVE  MakerInv'
<1>1. /\ maker' = Resumed /\ UNCHANGED <<resting, live, runs, makerFaults>> /\ Saw(ref)
      /\ liquidity' = "active" /\ maker.pc = "idle" /\ maker.prev > 0
  BY DEF RefreshKeep, MayQuote, StillGood
<1>2. maker.prev # 0
  BY <1>1 DEF MakerInv, MakerTypes
<1>3. reads' \in Seq(Prices) /\ Len(reads') <= 3
  BY <1>1, SawIs DEF MakerInv
<1>4. /\ Shaped(maker') /\ maker'.pc = "idle" /\ maker'.prev = maker.prev /\ maker'.paused = FALSE
      /\ maker'.recov = 0 /\ maker'.fresh = 0 /\ maker'.ref = maker.ref /\ maker'.left = maker.left
      /\ maker'.bad = maker.bad
  BY Zenon, <1>1, ResumedIs DEF MakerInv, MakerTypes
<1>5. MakerTypes'
  <2>1. maker'.paused \in BOOLEAN /\ maker'.bad \in BOOLEAN
    BY Zenon, <1>1, <1>3, <1>4 DEF MakerInv, MakerTypes
  <2>2. liquidity' \in {"active", "recovering", "paused"}
    BY <1>1, <1>3, <1>4 DEF MakerInv, MakerTypes
  <2>3. maker'.prev \in Priced0 /\ maker'.ref \in Priced0 /\ maker'.recov \in Priced0
    BY <1>1, <1>3, <1>4, ZeroAndEmpty DEF MakerInv, MakerTypes
  <2>4. maker'.fresh \in 0 .. 2 /\ maker'.left \in Seq(Orders)
    BY <1>1, <1>3, <1>4, ZeroAndEmpty DEF MakerInv, MakerTypes
  <2> QED BY <1>1, <1>3, <1>4, <2>1, <2>2, <2>3, <2>4 DEF MakerInv, MakerTypes
<1>6. QuotesSound'
  BY <1>1, <1>2, <1>4 DEF MakerInv, QuotesSound
<1>7. SamplesCounted'
  BY <1>4 DEF SamplesCounted
<1> QED BY <1>5, <1>6, <1>7 DEF MakerInv

LEMMA RequoteKeeps ==
  ASSUME MakerInv, NEW ref \in Prices, RefreshRequote(ref)
  PROVE  MakerInv'
<1> DEFINE c == CancelAll(Resumed, "requote")
           n == [c EXCEPT !.ref = ref]
<1>1. /\ maker' = n /\ UNCHANGED <<resting, live, runs, makerFaults>> /\ Saw(ref) /\ maker.pc = "idle"
  BY DEF RefreshRequote, MayQuote
<1>2. liquidity' = IF liquidity = "active" THEN liquidity ELSE "recovering"
  BY DEF RefreshRequote, Recovering
<1>3. /\ Shaped(c) /\ c.pc = "orders" /\ c.why = "requote" /\ c.left = <<>> /\ c.bad = FALSE
      /\ c.prev = maker.prev /\ c.paused = FALSE /\ c.recov = 0 /\ c.fresh = 0
  <2>1. Shaped(maker)
    BY DEF MakerInv, MakerTypes
  <2>2. /\ Shaped(Resumed) /\ Resumed.prev = maker.prev /\ Resumed.paused = FALSE
        /\ Resumed.recov = 0 /\ Resumed.fresh = 0 /\ Resumed.ref = maker.ref
    BY Zenon, <2>1, ResumedIs
  <2> QED BY Zenon, <2>2 DEF CancelAll, Shaped, Fields
<1> HIDE DEF c
<1>4. /\ Shaped(n) /\ n.pc = "orders" /\ n.why = "requote" /\ n.left = <<>> /\ n.bad = FALSE
      /\ n.prev = maker.prev /\ n.paused = FALSE /\ n.recov = 0 /\ n.fresh = 0 /\ n.ref = ref
  BY <1>3 DEF Shaped, Fields
<1>5. reads' \in Seq(Prices) /\ Len(reads') <= 3 /\ ref # 0 /\ ref \in Priced0
  BY <1>1, SawIs, MakerAssumption DEF MakerInv, Priced0
<1> HIDE DEF n
<1>6. MakerTypes'
  <2>1. maker'.paused \in BOOLEAN /\ maker'.bad \in BOOLEAN
    BY Zenon, <1>1, <1>2, <1>4, <1>5 DEF MakerInv, MakerTypes
  <2>2. liquidity' \in {"active", "recovering", "paused"}
    BY <1>1, <1>2, <1>4, <1>5 DEF MakerInv, MakerTypes
  <2>3. maker'.prev \in Priced0 /\ maker'.ref \in Priced0 /\ maker'.recov \in Priced0
    BY <1>1, <1>2, <1>4, <1>5, ZeroAndEmpty DEF MakerInv, MakerTypes
  <2>4. maker'.fresh \in 0 .. 2 /\ maker'.left \in Seq(Orders)
    BY SMT, SMTT(30), <1>1, <1>2, <1>4, <1>5, ZeroAndEmpty DEF MakerInv, MakerTypes
  <2> QED BY <1>1, <1>2, <1>4, <1>5, <2>1, <2>2, <2>3, <2>4 DEF MakerInv, MakerTypes
<1>7. liquidity = "active" => maker.prev # 0 /\ resting \subseteq Plan(maker.prev)
  BY <1>1 DEF MakerInv, QuotesSound
<1>8. QuotesSound'
  BY <1>1, <1>2, <1>4, <1>5, <1>7 DEF MakerInv, QuotesSound
<1>9. SamplesCounted'
  BY <1>1, <1>4 DEF SamplesCounted
<1> QED BY <1>6, <1>8, <1>9 DEF MakerInv

-----------------------------------------------------------------------------
(* Engine calls *)

LEMMA ReadOrdersKeeps ==
  ASSUME MakerInv, ReadOrders
  PROVE  MakerInv'
<1>1. /\ maker.pc = "orders" /\ UNCHANGED <<liquidity, resting, live, runs, makerFaults, reads>>
      /\ maker' = [maker EXCEPT !.pc = "cancel", !.left = Listing(resting)]
  BY DEF ReadOrders, RestingOrders, Listing
<1>2. /\ Listing(resting) \in Seq(resting)
      /\ \A x \in resting : Has(Listing(resting), x)
  BY ListingAll DEF MakerInv, MakerTypes, Has
<1>3. Listing(resting) \in Seq(Orders)
  BY <1>2, WiderSequence DEF MakerInv, MakerTypes
<1>4. /\ Shaped(maker') /\ maker'.pc = "cancel" /\ maker'.prev = maker.prev /\ maker'.paused = maker.paused
      /\ maker'.recov = maker.recov /\ maker'.fresh = maker.fresh /\ maker'.ref = maker.ref
      /\ maker'.left = Listing(resting) /\ maker'.bad = maker.bad /\ maker'.why = maker.why
  BY Zenon, <1>1 DEF MakerInv, MakerTypes, Shaped, Fields
<1>5. MakerTypes'
  BY <1>1, <1>3, <1>4, ZeroAndEmpty DEF MakerInv, MakerTypes
<1>6. QuotesSound'
  BY <1>1, <1>2, <1>4 DEF MakerInv, QuotesSound
<1>7. SamplesCounted'
  BY <1>1, <1>4 DEF MakerInv, SamplesCounted
<1> QED BY <1>5, <1>6, <1>7 DEF MakerInv

LEMMA RestHas ==
  ASSUME NEW S, NEW s \in Seq(S), s # <<>>
  PROVE  /\ Tail(s) \in Seq(S) /\ Head(s) \in S /\ Head(s) = s[1] /\ 1 \in 1 .. Len(s)
         /\ \A i \in 1 .. Len(Tail(s)) : i + 1 \in 1 .. Len(s) /\ Tail(s)[i] = s[i + 1]
         /\ \A x : Has(s, x) /\ x # Head(s) => Has(Tail(s), x)
<1>1. /\ Tail(s) \in Seq(S) /\ Head(s) = s[1] /\ Len(s) \in Nat \ {0} /\ Len(Tail(s)) = Len(s) - 1
      /\ \A i \in 1 .. Len(Tail(s)) : Tail(s)[i] = s[i + 1]
  OBVIOUS
<1>2. ASSUME NEW x, NEW i \in 1 .. Len(s), s[i] = x, x # Head(s)
      PROVE  Has(Tail(s), x)
  <2>1. i # 1
    BY <1>1, <1>2
  <2>2. i - 1 \in 1 .. Len(Tail(s))
    BY <1>1, <2>1
  <2>3. Tail(s)[i - 1] = x
    BY <1>1, <1>2, <2>2
  <2> QED BY <2>2, <2>3 DEF Has
<1>3. \A x : Has(s, x) /\ x # Head(s) => Has(Tail(s), x)
  BY <1>2 DEF Has
<1>4. Head(s) \in S /\ 1 \in 1 .. Len(s)
  BY <1>1
<1> QED BY <1>1, <1>3, <1>4

LEMMA CancelKeeps ==
  ASSUME MakerInv, NEW done \in BOOLEAN, NEW ok \in BOOLEAN, Cancel(done, ok)
  PROVE  MakerInv'
<1>1. /\ maker.pc = "cancel" /\ maker.left # <<>> /\ UNCHANGED <<liquidity, live, runs, reads>>
      /\ maker' = [maker EXCEPT !.left = Tail(@), !.bad = @ \/ ~ok]
      /\ resting' = IF done THEN resting \ {Head(maker.left)} ELSE resting
      /\ ok => done
  BY DEF Cancel
<1>2. makerFaults' \in 0 .. MaxMakerFaults
  BY MakerAssumption DEF Cancel, Fails, MakerInv, MakerTypes
<1>3. /\ Shaped(maker') /\ maker'.pc = "cancel" /\ maker'.prev = maker.prev /\ maker'.paused = maker.paused
      /\ maker'.recov = maker.recov /\ maker'.fresh = maker.fresh /\ maker'.ref = maker.ref
      /\ maker'.left = Tail(maker.left) /\ maker'.why = maker.why
  BY Zenon, <1>1 DEF MakerInv, MakerTypes, Shaped, Fields
<1>4. maker'.bad = (maker.bad \/ ~ok)
  BY <1>1 DEF MakerInv, MakerTypes, Shaped, Fields
<1>5. /\ Tail(maker.left) \in Seq(Orders)
      /\ \A x : Has(maker.left, x) /\ x # Head(maker.left) => Has(Tail(maker.left), x)
  BY <1>1, RestHas DEF MakerInv, MakerTypes
<1>6. resting' \subseteq resting /\ IsFiniteSet(resting')
  BY <1>1, FS_Subset DEF MakerInv, MakerTypes
<1>7. maker'.bad \in BOOLEAN /\ (~maker'.bad => ~maker.bad /\ ok)
  BY Zenon, <1>4 DEF MakerInv, MakerTypes
<1>8. MakerTypes'
  BY <1>1, <1>2, <1>3, <1>5, <1>6, <1>7, ZeroAndEmpty DEF MakerInv, MakerTypes
<1>9. ~maker'.bad => \A q \in resting' : Has(maker'.left, q)
  BY <1>1, <1>3, <1>5, <1>7 DEF MakerInv, QuotesSound
<1>10. QuotesSound'
  BY <1>1, <1>3, <1>6, <1>9 DEF MakerInv, QuotesSound
<1>11. SamplesCounted'
  BY <1>1, <1>3 DEF MakerInv, SamplesCounted
<1> QED BY <1>8, <1>10, <1>11 DEF MakerInv

\* Once everything read has been cancelled without an error nothing rests.
LEMMA NothingRests ==
  ASSUME MakerInv, NEW whys, Cancelled(whys), ~maker.bad
  PROVE  resting = {}
<1>1. maker.pc = "cancel" /\ maker.left = <<>> /\ \A q \in resting : Has(maker.left, q)
  BY DEF Cancelled, MakerInv, QuotesSound
<1>2. Len(maker.left) = 0
  BY <1>1
<1> QED BY <1>1, <1>2 DEF Has

LEMMA PauseKeeps ==
  ASSUME MakerInv, PauseEnds
  PROVE  MakerInv'
<1>1. /\ maker' = [AtRest EXCEPT !.paused = TRUE, !.prev = 0, !.recov = 0, !.fresh = 0]
      /\ liquidity' = "paused" /\ UNCHANGED <<resting, live, runs, makerFaults, reads>>
  BY DEF PauseEnds
<1>2. /\ Shaped(maker') /\ maker'.pc = "idle" /\ maker'.prev = 0 /\ maker'.paused = TRUE
      /\ maker'.recov = 0 /\ maker'.fresh = 0 /\ maker'.ref = 0 /\ maker'.left = maker.left
      /\ maker'.bad = FALSE
  <2>1. /\ Shaped(AtRest) /\ AtRest.pc = "idle" /\ AtRest.ref = 0 /\ AtRest.bad = FALSE
        /\ AtRest.left = maker.left
    BY Zenon, AtRestIs DEF MakerInv, MakerTypes
  <2> QED BY Zenon, <1>1, <2>1 DEF Shaped, Fields
<1>3. MakerTypes'
  <2>1. maker'.paused \in BOOLEAN /\ maker'.bad \in BOOLEAN
    BY Zenon, <1>1, <1>2 DEF MakerInv, MakerTypes
  <2>2. liquidity' \in {"active", "recovering", "paused"}
    BY <1>1, <1>2 DEF MakerInv, MakerTypes
  <2>3. maker'.prev \in Priced0 /\ maker'.ref \in Priced0 /\ maker'.recov \in Priced0
    BY <1>1, <1>2, ZeroAndEmpty DEF MakerInv, MakerTypes
  <2>4. maker'.fresh \in 0 .. 2 /\ maker'.left \in Seq(Orders)
    BY <1>1, <1>2, ZeroAndEmpty DEF MakerInv, MakerTypes
  <2> QED BY <1>1, <1>2, <2>1, <2>2, <2>3, <2>4 DEF MakerInv, MakerTypes
<1>4. QuotesSound'
  BY <1>1, <1>2 DEF QuotesSound
<1>5. SamplesCounted'
  <2>1. Len(reads) \in Nat /\ Len(reads) <= 3
    BY DEF MakerInv, MakerTypes
  <2> QED BY <1>1, <1>2, <2>1 DEF SamplesCounted
<1> QED BY <1>3, <1>4, <1>5 DEF MakerInv

LEMMA FailsRunKeeps ==
  ASSUME MakerInv, FailsRun, UNCHANGED <<resting, live, runs, makerFaults, reads>>
  PROVE  MakerInv'
<1>1. /\ Shaped(maker') /\ maker'.pc = "failed" /\ maker'.prev = maker.prev /\ maker'.paused = maker.paused
      /\ maker'.recov = maker.recov /\ maker'.fresh = maker.fresh /\ maker'.ref = 0
      /\ maker'.left = maker.left /\ maker'.bad = FALSE /\ liquidity' = "paused"
  <2>1. /\ Shaped(AtRest) /\ AtRest.pc = "idle" /\ AtRest.ref = 0 /\ AtRest.bad = FALSE
        /\ AtRest.prev = maker.prev /\ AtRest.paused = maker.paused
        /\ AtRest.recov = maker.recov /\ AtRest.fresh = maker.fresh /\ AtRest.left = maker.left
    BY Zenon, AtRestIs DEF MakerInv, MakerTypes
  <2> QED BY <2>1 DEF FailsRun, Shaped, Fields
<1>2. MakerTypes'
  BY Zenon, <1>1, ZeroAndEmpty DEF MakerInv, MakerTypes
<1>3. QuotesSound' /\ SamplesCounted'
  BY <1>1 DEF QuotesSound, SamplesCounted
<1> QED BY <1>2, <1>3 DEF MakerInv

\* The maker comes to rest without quotes and without counting as active.
LEMMA RestKeeps ==
  ASSUME MakerInv, maker' = AtRest, liquidity' = "recovering", resting = {}, ~maker.paused,
         UNCHANGED <<resting, live, runs, makerFaults, reads>>
  PROVE  MakerInv'
<1>1. /\ Shaped(maker') /\ maker'.pc = "idle" /\ maker'.prev = maker.prev /\ maker'.paused = maker.paused
      /\ maker'.recov = maker.recov /\ maker'.fresh = maker.fresh /\ maker'.ref = 0
      /\ maker'.left = maker.left /\ maker'.bad = FALSE
  BY Zenon, AtRestIs DEF MakerInv, MakerTypes
<1>2. MakerTypes'
  BY Zenon, <1>1, ZeroAndEmpty DEF MakerInv, MakerTypes
<1>3. QuotesSound' /\ SamplesCounted'
  BY <1>1 DEF QuotesSound, SamplesCounted
<1> QED BY <1>2, <1>3 DEF MakerInv

\* Some clean-up begins: what rests stays accounted for.
LEMMA CleanupKeeps ==
  ASSUME MakerInv, NEW why, maker' = CancelAll(maker, why), liquidity' = liquidity,
         why # "requote", maker.paused => why \in {"pause", "stop"},
         resting' \subseteq Orders, IsFiniteSet(resting'),
         liquidity = "active" => resting' \subseteq Plan(maker.prev) \cup Plan(maker.ref),
         makerFaults' \in 0 .. MaxMakerFaults, UNCHANGED <<live, runs, reads>>
  PROVE  MakerInv'
<1>1. /\ Shaped(maker') /\ maker'.pc = "orders" /\ maker'.why = why /\ maker'.left = <<>>
      /\ maker'.bad = FALSE /\ maker'.prev = maker.prev /\ maker'.paused = maker.paused
      /\ maker'.recov = maker.recov /\ maker'.fresh = maker.fresh /\ maker'.ref = maker.ref
  <2>1. Shaped(maker)
    BY DEF MakerInv, MakerTypes
  <2> QED BY Zenon, <2>1 DEF CancelAll, Shaped, Fields
<1>2. MakerTypes'
  BY Zenon, <1>1, ZeroAndEmpty DEF MakerInv, MakerTypes
<1>3. QuotesSound'
  BY <1>1 DEF MakerInv, QuotesSound
<1>4. SamplesCounted'
  BY <1>1 DEF SamplesCounted
<1> QED BY <1>2, <1>3, <1>4 DEF MakerInv

LEMMA PlanKeeps ==
  ASSUME MakerInv, NEW crosses \in BOOLEAN, PlanQuotes(crosses)
  PROVE  MakerInv'
<1>1. /\ maker.pc = "cancel" /\ maker.why = "requote" /\ UNCHANGED <<resting, live, runs, makerFaults, reads>>
      /\ Cancelled({"requote"})
  BY DEF PlanQuotes, Cancelled
<1>2. ~maker.paused /\ maker.ref \in Prices /\ maker.ref # 0
  BY <1>1 DEF MakerInv, MakerTypes, SamplesCounted, QuotesSound, Priced0
<1>3. CASE maker.bad
  BY <1>1, <1>3, FailsRunKeeps DEF PlanQuotes
<1>4. CASE ~maker.bad /\ ~quotePricesValid(maker.ref)
  <2>1. maker' = CancelAll(maker, "pause") /\ liquidity' = liquidity
    BY <1>4 DEF PlanQuotes
  <2>2. /\ resting' \subseteq Orders /\ IsFiniteSet(resting') /\ makerFaults' \in 0 .. MaxMakerFaults
        /\ liquidity = "active" => resting' \subseteq Plan(maker.prev) \cup Plan(maker.ref)
    BY <1>1 DEF MakerInv, MakerTypes, QuotesSound
  <2> QED BY <1>1, <1>2, <2>1, <2>2, CleanupKeeps
<1>5. CASE ~maker.bad /\ quotePricesValid(maker.ref) /\ crosses
  BY <1>1, <1>2, <1>5, NothingRests, RestKeeps DEF PlanQuotes
<1>6. CASE ~maker.bad /\ quotePricesValid(maker.ref) /\ ~crosses
  <2>1. /\ maker' = [maker EXCEPT !.pc = "submit", !.left = quotePlan(maker.ref)]
        /\ liquidity' = liquidity /\ resting = {}
    BY <1>1, <1>6, NothingRests DEF PlanQuotes
  <2>2. /\ Shaped(maker') /\ maker'.pc = "submit" /\ maker'.prev = maker.prev /\ maker'.paused = maker.paused
        /\ maker'.recov = maker.recov /\ maker'.fresh = maker.fresh /\ maker'.ref = maker.ref
        /\ maker'.left = quotePlan(maker.ref) /\ maker'.bad = maker.bad /\ maker'.why = maker.why
    BY Zenon, <2>1 DEF MakerInv, MakerTypes, Shaped, Fields
  <2>3. quotePlan(maker.ref) \in Seq(Plan(maker.ref)) /\ Plan(maker.ref) \subseteq Orders
    BY <1>2, PlansAre DEF Orders
  <2>4. /\ quotePlan(maker.ref) \in Seq(Orders)
        /\ \A i \in 1 .. Len(quotePlan(maker.ref)) : quotePlan(maker.ref)[i] \in Plan(maker.ref)
    BY <2>3, WiderSequence, ItemOf
  <2>5. MakerTypes'
    BY <1>1, <2>1, <2>2, <2>4, ZeroAndEmpty DEF MakerInv, MakerTypes
  <2>6. QuotesSound'
    BY <1>1, <1>2, <2>1, <2>2, <2>4 DEF MakerInv, QuotesSound
  <2>7. SamplesCounted'
    BY <1>2, <2>2 DEF SamplesCounted
  <2> QED BY <2>5, <2>6, <2>7 DEF MakerInv
<1> QED BY <1>3, <1>4, <1>5, <1>6

LEMMA SubmitKeeps ==
  ASSUME MakerInv, maker.pc = "submit", maker.left # <<>>, UNCHANGED <<liquidity, live, runs, reads>>,
         makerFaults' \in 0 .. MaxMakerFaults,
         resting' = resting \/ resting' = resting \cup {Head(maker.left)},
         \/ maker' = [maker EXCEPT !.left = Tail(@)]
         \/ maker' = CancelAll(maker, "blocked")
         \/ maker' = CancelAll(maker, "error")
  PROVE  MakerInv'
<1>1. /\ Tail(maker.left) \in Seq(Orders) /\ Head(maker.left) \in Orders
      /\ Head(maker.left) = maker.left[1] /\ 1 \in 1 .. Len(maker.left)
      /\ \A i \in 1 .. Len(Tail(maker.left)) :
           i + 1 \in 1 .. Len(maker.left) /\ Tail(maker.left)[i] = maker.left[i + 1]
  BY RestHas DEF MakerInv, MakerTypes
<1>2. /\ maker.ref # 0 /\ resting \subseteq Plan(maker.ref)
      /\ \A i \in 1 .. Len(maker.left) : maker.left[i] \in Plan(maker.ref)
  BY DEF MakerInv, QuotesSound
<1>3. /\ resting' \subseteq Orders /\ resting' \subseteq Plan(maker.ref) /\ IsFiniteSet(resting')
  <2>1. resting \subseteq Orders /\ IsFiniteSet(resting) /\ Head(maker.left) \in Plan(maker.ref)
    BY <1>1, <1>2 DEF MakerInv, MakerTypes
  <2>2. IsFiniteSet(resting \cup {Head(maker.left)})
    BY <2>1, FS_AddElement
  <2> QED BY Zenon, <1>1, <1>2, <2>1, <2>2
<1>4. ~maker.paused
  BY DEF MakerInv, SamplesCounted
<1>5. CASE maker' = [maker EXCEPT !.left = Tail(@)]
  <2>1. /\ Shaped(maker') /\ maker'.pc = "submit" /\ maker'.prev = maker.prev /\ maker'.paused = maker.paused
        /\ maker'.recov = maker.recov /\ maker'.fresh = maker.fresh /\ maker'.ref = maker.ref
        /\ maker'.left = Tail(maker.left) /\ maker'.bad = maker.bad
    BY Zenon, <1>5 DEF MakerInv, MakerTypes, Shaped, Fields
  <2>2. MakerTypes'
    BY <1>1, <1>3, <2>1, ZeroAndEmpty DEF MakerInv, MakerTypes
  <2>3. \A i \in 1 .. Len(Tail(maker.left)) : Tail(maker.left)[i] \in Plan(maker.ref)
    BY <1>1, <1>2
  <2>4. QuotesSound'
    BY <1>2, <1>3, <2>1, <2>3 DEF MakerInv, QuotesSound
  <2>5. SamplesCounted'
    BY <1>4, <2>1 DEF SamplesCounted
  <2> QED BY <2>2, <2>4, <2>5 DEF MakerInv
<1>6. ASSUME NEW why \in {"blocked", "error"}, maker' = CancelAll(maker, why)
      PROVE  MakerInv'
  BY <1>3, <1>4, <1>6, CleanupKeeps
<1> QED BY <1>5, <1>6

LEMMA CleanupEndsKeeps ==
  ASSUME MakerInv, CleanupEnds
  PROVE  MakerInv'
<1>1. /\ maker.pc = "cancel" /\ maker.why \in {"error", "blocked"} /\ Cancelled({"error", "blocked"})
      /\ UNCHANGED <<resting, live, runs, makerFaults, reads>>
  BY DEF CleanupEnds, Cancelled
<1>2. ~maker.paused
  BY <1>1 DEF MakerInv, SamplesCounted
<1>3. CASE maker.why = "blocked" /\ ~maker.bad
  BY <1>1, <1>2, <1>3, NothingRests, RestKeeps DEF CleanupEnds
<1>4. CASE ~(maker.why = "blocked" /\ ~maker.bad)
  BY <1>1, <1>4, FailsRunKeeps DEF CleanupEnds
<1> QED BY <1>3, <1>4

LEMMA QuotedKeeps ==
  ASSUME MakerInv, Quoted
  PROVE  MakerInv'
<1>1. /\ maker' = [AtRest EXCEPT !.prev = maker.ref] /\ maker.pc = "submit"
      /\ liquidity' = "active" /\ UNCHANGED <<resting, live, runs, makerFaults, reads>>
  BY DEF Quoted
<1>2. /\ Shaped(maker') /\ maker'.pc = "idle" /\ maker'.prev = maker.ref /\ maker'.paused = maker.paused
      /\ maker'.recov = maker.recov /\ maker'.fresh = maker.fresh /\ maker'.ref = 0
      /\ maker'.left = maker.left /\ maker'.bad = FALSE
  <2>1. /\ Shaped(AtRest) /\ AtRest.pc = "idle" /\ AtRest.ref = 0 /\ AtRest.bad = FALSE
        /\ AtRest.paused = maker.paused
        /\ AtRest.recov = maker.recov /\ AtRest.fresh = maker.fresh /\ AtRest.left = maker.left
    BY Zenon, AtRestIs DEF MakerInv, MakerTypes
  <2> QED BY <1>1, <2>1 DEF Shaped, Fields
<1>3. maker.ref # 0 /\ resting \subseteq Plan(maker.ref) /\ ~maker.paused
  BY <1>1 DEF MakerInv, QuotesSound, SamplesCounted
<1>4. MakerTypes'
  BY Zenon, <1>1, <1>2, ZeroAndEmpty DEF MakerInv, MakerTypes
<1>5. QuotesSound' /\ SamplesCounted'
  BY <1>1, <1>2, <1>3 DEF QuotesSound, SamplesCounted
<1> QED BY <1>4, <1>5 DEF MakerInv

LEMMA UnwindEndsKeeps ==
  ASSUME MakerInv, UnwindEnds
  PROVE  MakerInv'
<1>1. CASE maker.bad
  BY <1>1, FailsRunKeeps DEF UnwindEnds
<1>2. CASE ~maker.bad
  <2>1. /\ maker' = [AtRest EXCEPT !.pc = "done"] /\ liquidity' = "recovering"
        /\ UNCHANGED <<resting, live, runs, makerFaults, reads>>
    BY <1>2 DEF UnwindEnds
  <2>2. /\ Shaped(maker') /\ maker'.pc = "done" /\ maker'.prev = maker.prev /\ maker'.paused = maker.paused
        /\ maker'.recov = maker.recov /\ maker'.fresh = maker.fresh /\ maker'.ref = 0
        /\ maker'.left = maker.left /\ maker'.bad = FALSE
    <3>1. /\ Shaped(AtRest) /\ AtRest.ref = 0 /\ AtRest.bad = FALSE
          /\ AtRest.prev = maker.prev /\ AtRest.paused = maker.paused
          /\ AtRest.recov = maker.recov /\ AtRest.fresh = maker.fresh /\ AtRest.left = maker.left
      BY Zenon, AtRestIs DEF MakerInv, MakerTypes
    <3> QED BY <2>1, <3>1 DEF Shaped, Fields
  <2>3. MakerTypes'
    BY Zenon, <2>1, <2>2, ZeroAndEmpty DEF MakerInv, MakerTypes
  <2>4. QuotesSound' /\ SamplesCounted'
    BY <2>1, <2>2 DEF QuotesSound, SamplesCounted
  <2> QED BY <2>3, <2>4 DEF MakerInv
<1> QED BY <1>1, <1>2

LEMMA AroundKeeps ==
  ASSUME MakerInv, Unwind \/ CancelContext \/ StartAgain \/ \E q \in resting : TakeQuote(q)
  PROVE  MakerInv'
<1>1. CASE Unwind
  <2>1. /\ resting' \subseteq Orders /\ IsFiniteSet(resting') /\ makerFaults' \in 0 .. MaxMakerFaults
        /\ liquidity = "active" => resting' \subseteq Plan(maker.prev) \cup Plan(maker.ref)
    BY Zenon, <1>1 DEF Unwind, MakerInv, MakerTypes, QuotesSound
  <2> QED BY Zenon, <1>1, <2>1, CleanupKeeps DEF Unwind
<1>2. CASE CancelContext
  BY Zenon, <1>2 DEF CancelContext, MakerInv, MakerTypes, QuotesSound, SamplesCounted
<1>3. CASE StartAgain
  <2>1. Shaped(FreshMaker)
    BY DEF Shaped, Fields, FreshMaker
  <2>2. MakerTypes'
    <3>1. /\ maker' = FreshMaker /\ live' = TRUE /\ runs' = runs + 1 /\ reads' = <<>>
          /\ runs < MaxRuns /\ UNCHANGED <<liquidity, resting, makerFaults>>
      BY Zenon, <1>3 DEF StartAgain
    <3>2. /\ FreshMaker.pc = "idle" /\ FreshMaker.prev = 0 /\ FreshMaker.ref = 0
          /\ FreshMaker.recov = 0 /\ FreshMaker.fresh = 0 /\ FreshMaker.paused = FALSE
          /\ FreshMaker.bad = FALSE /\ FreshMaker.left = <<>>
      BY DEF FreshMaker
    <3>3. 0 \in Priced0 /\ <<>> \in Seq(Orders) /\ <<>> \in Seq(Prices) /\ Len(<<>>) <= 3
          /\ 0 \in 0 .. 2
      BY DEF Priced0
    <3>4. runs' \in 1 .. MaxRuns
      BY <3>1, MakerAssumption DEF MakerInv, MakerTypes
    <3> QED BY Zenon, <2>1, <3>1, <3>2, <3>3, <3>4 DEF MakerInv, MakerTypes
  <2>3. QuotesSound' /\ SamplesCounted'
    BY <1>3 DEF StartAgain, MakerInv, QuotesSound, SamplesCounted, FreshMaker
  <2> QED BY <2>2, <2>3 DEF MakerInv
<1>4. CASE \E q \in resting : TakeQuote(q)
  <2>1. resting' \subseteq resting /\ UNCHANGED <<maker, liquidity, live, runs, makerFaults, reads>>
    BY <1>4 DEF TakeQuote
  <2>2. IsFiniteSet(resting')
    BY <2>1, FS_Subset DEF MakerInv, MakerTypes
  <2>3. MakerTypes'
    BY Zenon, <2>1, <2>2, ZeroAndEmpty DEF MakerInv, MakerTypes
  <2>4. QuotesSound' /\ SamplesCounted'
    BY <2>1 DEF MakerInv, QuotesSound, SamplesCounted
  <2> QED BY <2>3, <2>4 DEF MakerInv
<1> QED BY <1>1, <1>2, <1>3, <1>4

LEMMA MakerStep ==
  ASSUME MakerInv, [MakerNext]_makerVars
  PROVE  MakerInv'
<1>1. CASE RefreshUnsafe
  BY <1>1, UnsafeKeeps
<1>2. ASSUME NEW ref \in Prices,
             RefreshSample(ref) \/ RefreshJump(ref) \/ RefreshKeep(ref) \/ RefreshRequote(ref)
      PROVE  MakerInv'
  BY <1>2, SampleKeeps, JumpKeeps, KeepKeeps, RequoteKeeps
<1>3. CASE ReadOrders
  BY <1>3, ReadOrdersKeeps
<1>4. ASSUME NEW done \in BOOLEAN, NEW ok \in BOOLEAN, Cancel(done, ok)
      PROVE  MakerInv'
  BY <1>4, CancelKeeps
<1>5. CASE PauseEnds
  BY <1>5, PauseKeeps
<1>6. ASSUME NEW crosses \in BOOLEAN, PlanQuotes(crosses)
      PROVE  MakerInv'
  BY <1>6, PlanKeeps
<1>7. ASSUME NEW o \in {"open", "crossing", "rejected"}, Submit(o)
      PROVE  MakerInv'
  <2>1. makerFaults' \in 0 .. MaxMakerFaults
    BY <1>7 DEF Submit, MakerInv, MakerTypes
  <2> QED BY <1>7, <2>1, SubmitKeeps DEF Submit
<1>8. ASSUME NEW done \in BOOLEAN, SubmitFails(done)
      PROVE  MakerInv'
  <2>1. makerFaults' \in 0 .. MaxMakerFaults
    BY <1>8, MakerAssumption DEF SubmitFails, Fails, MakerInv, MakerTypes
  <2> QED BY <1>8, <2>1, SubmitKeeps DEF SubmitFails
<1>9. CASE CleanupEnds
  BY <1>9, CleanupEndsKeeps
<1>10. CASE Quoted
  BY <1>10, QuotedKeeps
<1>11. CASE UnwindEnds
  BY <1>11, UnwindEndsKeeps
<1>12. CASE Unwind \/ CancelContext \/ StartAgain \/ \E q \in resting : TakeQuote(q)
  BY Zenon, <1>12, AroundKeeps
<1>13. CASE UNCHANGED makerVars
  BY <1>13 DEF makerVars, MakerInv, MakerTypes, QuotesSound, SamplesCounted, Has
<1> QED
  BY Zenon, <1>1, <1>2, <1>3, <1>4, <1>5, <1>6, <1>7, <1>8, <1>9, <1>10, <1>11, <1>12, <1>13 DEF MakerNext

LEMMA MakerMeans == MakerInv => MakerTypeOK /\ ActiveQuotesCurrent
<1> SUFFICES ASSUME MakerInv PROVE MakerTypeOK /\ ActiveQuotesCurrent
  OBVIOUS
<1>1. MakerTypeOK
  BY DEF MakerInv, MakerTypes, MakerTypeOK, Priced0
<1>2. Range(quotePlan(maker.prev)) = Plan(maker.prev) /\ Range(quotePlan(maker.ref)) = Plan(maker.ref)
  BY PlansAre
<1>3. ActiveQuotesCurrent
  <2> SUFFICES ASSUME liquidity = "active", NEW q \in resting
               PROVE  \E p \in {maker.prev, maker.ref} : q \in Range(quotePlan(p))
    BY DEF ActiveQuotesCurrent
  <2>1. q \in Plan(maker.prev) \/ q \in Plan(maker.ref)
    BY DEF MakerInv, QuotesSound
  <2> QED BY <1>2, <2>1
<1> QED BY <1>1, <1>3

Resumes ==
  maker.paused /\ ~maker'.paused /\ runs' = runs =>
    /\ Len(reads') = 3
    /\ ~Jumps(reads'[1], reads'[2]) /\ ~Jumps(reads'[2], reads'[3])

\* The third consistent sample is the one the maker resumes on.
LEMMA EnoughSamples ==
  ASSUME MakerInv, NEW ref \in Prices, MayQuote(ref), Saw(ref), maker.paused
  PROVE  /\ Len(reads') = 3
         /\ ~Jumps(reads'[1], reads'[2]) /\ ~Jumps(reads'[2], reads'[3])
<1>1. maker.pc = "idle" /\ maker.recov # 0 /\ ~Jumps(ref, maker.recov) /\ maker.fresh + 1 >= 3
  BY DEF MayQuote, Enough, Restarts
<1>2. maker.fresh = 2 /\ Len(reads) \in Nat
  BY <1>1 DEF MakerInv, MakerTypes
<1>3. 2 <= Len(reads) /\ reads[1] = maker.recov /\ ~Jumps(reads[1], reads[2])
  BY <1>1, <1>2 DEF MakerInv, SamplesCounted
<1>4. /\ reads'[1] = ref /\ Len(reads') = IF Len(reads) < 2 THEN Len(reads) + 1 ELSE 3
      /\ \A k \in 2 .. Len(reads') : reads'[k] = reads[k - 1]
  BY SawIs DEF MakerInv
<1>5. Len(reads') = 3
  BY <1>2, <1>3, <1>4
<1>6. reads'[2] = reads[1] /\ reads'[3] = reads[2]
  <2>1. 2 \in 2 .. Len(reads') /\ 3 \in 2 .. Len(reads')
    BY <1>5
  <2>2. 2 - 1 = 1 /\ 3 - 1 = 2
    OBVIOUS
  <2> QED BY <1>4, <2>1, <2>2
<1> QED BY <1>1, <1>3, <1>4, <1>5, <1>6

LEMMA ResumesStep ==
  ASSUME MakerInv, [MakerNext]_makerVars
  PROVE  Resumes
<1> SUFFICES ASSUME maker.paused, ~maker'.paused, runs' = runs
             PROVE  /\ Len(reads') = 3
                    /\ ~Jumps(reads'[1], reads'[2]) /\ ~Jumps(reads'[2], reads'[3])
  BY DEF Resumes
<1>0. /\ Shaped(maker) /\ Shaped(AtRest) /\ AtRest.paused = maker.paused
      /\ \A why : CancelAll(maker, why).paused = maker.paused
  BY Zenon, AtRestIs, CancelAllIs DEF MakerInv, MakerTypes
<1>1. CASE RefreshUnsafe \/ Unwind
  BY Zenon, <1>0, <1>1 DEF RefreshUnsafe, Unwind
<1>2. ASSUME NEW ref \in Prices, RefreshSample(ref)
      PROVE  FALSE
  BY <1>0, <1>2 DEF RefreshSample, Shaped, Fields
<1>3. ASSUME NEW ref \in Prices, RefreshJump(ref) \/ RefreshKeep(ref) \/ RefreshRequote(ref)
      PROVE  /\ Len(reads') = 3
             /\ ~Jumps(reads'[1], reads'[2]) /\ ~Jumps(reads'[2], reads'[3])
  <2>1. MayQuote(ref) /\ Saw(ref)
    BY <1>3 DEF RefreshJump, RefreshKeep, RefreshRequote
  <2> QED BY <2>1, EnoughSamples
<1>4. CASE ReadOrders
  BY <1>0, <1>4 DEF ReadOrders, Shaped, Fields
<1>5. ASSUME NEW done \in BOOLEAN, NEW ok \in BOOLEAN, Cancel(done, ok)
      PROVE  FALSE
  BY <1>0, <1>5 DEF Cancel, Shaped, Fields
<1>6. CASE PauseEnds
  BY <1>0, <1>6 DEF PauseEnds, Shaped, Fields
<1>7. ASSUME FailsRun PROVE FALSE
  BY Zenon, <1>0, <1>7 DEF FailsRun, Shaped, Fields
<1>8. ASSUME NEW crosses \in BOOLEAN, PlanQuotes(crosses)
      PROVE  FALSE
  BY <1>8 DEF PlanQuotes, Cancelled, MakerInv, SamplesCounted
<1>9. CASE maker.pc = "submit"
  BY <1>9 DEF MakerInv, SamplesCounted
<1>10. CASE CleanupEnds
  BY <1>10 DEF CleanupEnds, Cancelled, MakerInv, SamplesCounted
<1>11. CASE UnwindEnds
  <2>1. CASE maker.bad
    BY <1>7, <1>11, <2>1 DEF UnwindEnds
  <2>2. CASE ~maker.bad
    BY Zenon, <1>0, <1>11, <2>2 DEF UnwindEnds, Shaped, Fields
  <2> QED BY <2>1, <2>2
<1>12. CASE CancelContext \/ \E q \in resting : TakeQuote(q)
  BY <1>12 DEF CancelContext, TakeQuote
<1>13. CASE StartAgain
  BY <1>13 DEF StartAgain, MakerInv, MakerTypes
<1>14. CASE UNCHANGED makerVars
  BY <1>14 DEF makerVars
<1> QED
  <2>1. \A o : Submit(o) => maker.pc = "submit"
    BY DEF Submit
  <2>2. \A done : SubmitFails(done) => maker.pc = "submit"
    BY DEF SubmitFails
  <2>3. Quoted => maker.pc = "submit"
    BY DEF Quoted
  <2> QED BY Zenon, <1>1, <1>2, <1>3, <1>4, <1>5, <1>6, <1>8, <1>9, <1>10, <1>11, <1>12, <1>13, <1>14,
             <2>1, <2>2, <2>3 DEF MakerNext

-----------------------------------------------------------------------------
(* The process around it *)

\* A sequence, of whatever it holds.
Sequence(s) == \E S : s \in Seq(S)

LEMMA SequenceIs ==
  ASSUME NEW s, Sequence(s)
  PROVE  DOMAIN s = 1 .. Len(s) /\ Len(s) \in Nat
<1>1. PICK S : s \in Seq(S)
  BY DEF Sequence
<1> QED BY <1>1

LEMMA SequenceSet ==
  ASSUME NEW s, Sequence(s), NEW i, NEW x
  PROVE  Sequence([s EXCEPT ![i] = x]) /\ Len([s EXCEPT ![i] = x]) = Len(s)
<1> DEFINE n == Len(s)
           t == [s EXCEPT ![i] = x]
<1>1. PICK S : s \in Seq(S)
  BY DEF Sequence
<1>2. n \in Nat /\ s \in [1 .. n -> S]
  BY <1>1
<1>3. t \in [1 .. n -> S \cup {x}]
  BY Zenon, <1>2
<1> HIDE DEF n, t
<1>4. t \in Seq(S \cup {x}) /\ Len(t) = n
  BY <1>2, <1>3
<1> QED BY <1>4 DEF n, t, Sequence

LEMMA SequenceGrows ==
  ASSUME NEW s, Sequence(s), NEW x
  PROVE  Sequence(Append(s, x)) /\ Len(Append(s, x)) = Len(s) + 1
<1>1. PICK S : s \in Seq(S)
  BY DEF Sequence
<1>2. Append(s, x) \in Seq(S \cup {x}) /\ Len(Append(s, x)) = Len(s) + 1
  BY <1>1
<1> QED BY <1>2 DEF Sequence

CallFields == {"client", "op", "order", "version", "stage"}

\* A call of the runner: a submit is for the quote of a maker that was started.
RunnerCall(c) ==
  /\ c = [x \in CallFields |-> c[x]]
  /\ c.stage \in {"queued", "fenced", "failed", "done"}
  /\ c.op = "submit" => c.order \in 1 .. Len(makers)

ServiceTypes ==
  /\ proc \in {"new", "boot", "up", "down"}
  /\ phase \in {"none", "replay", "proving", "warmup", "writable", "offline", "manual_review"}
  /\ Sequence(makers)
  /\ Len(makers) <= MaxMakers /\ handle \in 0 .. Len(makers)
  /\ quotes \subseteq {0} \cup 1 .. Len(makers)
  /\ \A c \in requests : RunnerCall(c)
  /\ withdraw = [l \in Loops |-> withdraw[l]]
  /\ monitor.pc \in {"idle", "fail", "fail_anyway", "start", "stop", "wait", "withdraw", "ended"}
  /\ stop.pc \in {"idle", "wait", "withdraw", "grpc", "runner", "publisher", "pools"}

Placing == \E c \in InHand : c.op = "submit"

\* What may still be placed once the epoch is not writable.
FenceKept ==
  /\ late = [inHand |-> late.inHand, placed |-> late.placed]
  /\ late.inHand \in Nat /\ late.placed \in Nat
  /\ \A c, d \in InHand : c = d
  /\ phase # "offline" => late.inHand = 0 /\ late.placed = 0
  /\ phase # "writable" => /\ late.placed <= late.inHand
                           /\ Placing => late.placed < late.inHand

\* The withdrawal of start-up: its own calls only, one at a time.
BootLoop ==
  /\ withdraw["boot"].left \in Seq({0}) /\ withdraw["boot"].bad \in BOOLEAN
  /\ \A c, d \in requests : c = d
  /\ \A c \in requests :
       /\ c.client = Client("boot") /\ c.op = "safety" /\ c.order = 0
       /\ withdraw["boot"].left # <<>> /\ (c.stage = "done" => quotes = {})
  /\ quotes # {} /\ ~withdraw["boot"].bad => withdraw["boot"].left # <<>>

BootKept ==
  /\ proc = "new" => phase = "none" /\ requests = {}
  /\ proc = "boot" => phase = "replay" /\ BootLoop
  /\ proc \in {"new", "boot"} =>
       /\ makers = <<>> /\ quotes \subseteq {0}
       /\ monitor.pc = "idle" /\ stop.pc = "idle"
  /\ proc = "up" /\ phase \in {"proving", "warmup"} => quotes = {}

ServiceInv == ServiceTypes /\ FenceKept /\ BootKept

LEMMA ServiceStarts == ServiceInit => ServiceInv
<1> SUFFICES ASSUME ServiceInit PROVE ServiceInv
  OBVIOUS
<1>1. makers = <<>> /\ Sequence(makers) /\ Len(makers) = 0
  <2>1. <<>> \in Seq({}) /\ Len(<<>>) = 0
    OBVIOUS
  <2> QED BY <2>1 DEF ServiceInit, Sequence
<1>2. ServiceTypes
  BY <1>1, ServiceAssumption DEF ServiceInit, ServiceTypes, NoStep
<1>3. FenceKept
  BY DEF ServiceInit, FenceKept, InHand, Placing
<1>4. BootKept
  BY <1>1 DEF ServiceInit, BootKept, NoStep
<1> QED BY <1>2, <1>3, <1>4 DEF ServiceInv

LEMMA ServiceMeans == ServiceInv => ServiceTypeOK /\ WarmupHasNoQuotes /\ FenceWindow
<1> SUFFICES ASSUME ServiceInv PROVE ServiceTypeOK /\ WarmupHasNoQuotes /\ FenceWindow
  OBVIOUS
<1>1. Sequence(makers)
  BY DEF ServiceInv, ServiceTypes
<1>2. DOMAIN makers = 1 .. Len(makers) /\ Len(makers) \in Nat
  BY <1>1, SequenceIs
<1>3. ServiceTypeOK
  BY <1>2 DEF ServiceInv, ServiceTypes, RunnerCall, ServiceTypeOK
<1>4. WarmupHasNoQuotes
  BY DEF ServiceInv, BootKept, WarmupHasNoQuotes
<1>5. FenceWindow
  BY DEF ServiceInv, FenceKept, FenceWindow
<1> QED BY <1>3, <1>4, <1>5

-----------------------------------------------------------------------------
(* Frames *)

\* Steps that bring no call into the runner's hand and leave the row alone.
LEMMA CalmWindow ==
  ASSUME FenceKept, InHand' \subseteq InHand, phase' = phase, late' = late
  PROVE  FenceKept'
BY DEF FenceKept, Placing

LEMMA AbandonIs ==
  ASSUME NEW client, \A c \in requests : RunnerCall(c), requests' = Abandon(client)
  PROVE  \A c \in requests' : \E d \in requests :
           /\ c = IF d.client = client THEN [d EXCEPT !.client = Nobody] ELSE d
           /\ c = [x \in CallFields |-> c[x]] /\ c.op = d.op /\ c.order = d.order /\ c.stage = d.stage
<1> SUFFICES ASSUME NEW c \in requests'
             PROVE  \E d \in requests :
                      /\ c = IF d.client = client THEN [d EXCEPT !.client = Nobody] ELSE d
                      /\ c = [x \in CallFields |-> c[x]] /\ c.op = d.op /\ c.order = d.order
                      /\ c.stage = d.stage
  OBVIOUS
<1>1. PICK d \in requests : c = IF d.client = client THEN [d EXCEPT !.client = Nobody] ELSE d
  BY DEF Abandon
<1>2. d = [x \in CallFields |-> d[x]]
  BY DEF RunnerCall
<1>3. c = [x \in CallFields |-> c[x]] /\ c.op = d.op /\ c.order = d.order /\ c.stage = d.stage
  BY <1>1, <1>2 DEF CallFields
<1> QED BY Zenon, <1>1, <1>3

LEMMA AbandonKeeps ==
  ASSUME ServiceTypes, FenceKept, NEW client, requests' = Abandon(client), Len(makers') = Len(makers)
  PROVE  /\ \A c \in requests' : RunnerCall(c)'
         /\ phase' = phase /\ late' = late => FenceKept'
<1>1. \A c \in requests' : \E d \in requests :
        /\ c = IF d.client = client THEN [d EXCEPT !.client = Nobody] ELSE d
        /\ c = [x \in CallFields |-> c[x]] /\ c.op = d.op /\ c.order = d.order /\ c.stage = d.stage
  <2>1. \A c \in requests : RunnerCall(c)
    BY DEF ServiceTypes
  <2> QED BY <2>1, AbandonIs
<1>2. ASSUME NEW c \in requests' PROVE RunnerCall(c)'
  <2>1. PICK d \in requests : /\ c = [x \in CallFields |-> c[x]] /\ c.op = d.op
                              /\ c.order = d.order /\ c.stage = d.stage
    BY <1>1
  <2>2. RunnerCall(d)
    BY DEF ServiceTypes
  <2> QED BY <2>1, <2>2 DEF RunnerCall
<1>3. ASSUME phase' = phase, late' = late PROVE FenceKept'
  <2>1. ASSUME NEW c \in InHand', NEW d \in InHand' PROVE c = d
    <3>1. PICK a \in requests : /\ c = IF a.client = client THEN [a EXCEPT !.client = Nobody] ELSE a
                                /\ c.stage = a.stage
      BY <1>1 DEF InHand
    <3>2. PICK b \in requests : /\ d = IF b.client = client THEN [b EXCEPT !.client = Nobody] ELSE b
                                /\ d.stage = b.stage
      BY <1>1 DEF InHand
    <3>3. a \in InHand /\ b \in InHand
      BY Zenon, <3>1, <3>2 DEF InHand
    <3>4. a = b
      BY <3>3 DEF FenceKept
    <3> QED BY <3>1, <3>2, <3>4
  <2>2. Placing' => Placing
    BY <1>1 DEF Placing, InHand
  <2> QED BY <1>3, <2>1, <2>2 DEF FenceKept
<1> QED BY <1>2, <1>3

\* The sequence of makers grows, or one of them changes.
LEMMA MakersBecome ==
  ASSUME Sequence(makers), NEW i, NEW m, makers' = [makers EXCEPT ![i] = m]
  PROVE  Sequence(makers') /\ Len(makers') = Len(makers)
<1>1. Sequence([makers EXCEPT ![i] = m]) /\ Len([makers EXCEPT ![i] = m]) = Len(makers)
  BY Zenon, SequenceSet
<1> QED BY <1>1

\* A call of the boot loop is not one that nobody waits for.
LEMMA ReplaceIs ==
  ASSUME NEW c \in requests, NEW st, RunnerCall(c), Replace(c, st)
  PROVE  /\ \A d \in requests' : d \in requests \ {c} \/ d = [c EXCEPT !.stage = st]
         /\ c.client = Client("boot") => requests' = (requests \ {c}) \cup {[c EXCEPT !.stage = st]}
         /\ LET n == [c EXCEPT !.stage = st] IN
            /\ n = [x \in CallFields |-> n[x]] /\ n.stage = st /\ n.op = c.op /\ n.order = c.order
            /\ n.client = c.client
<1>1. c = [x \in CallFields |-> c[x]]
  BY DEF RunnerCall
<1>2. LET n == [c EXCEPT !.stage = st] IN
        /\ n = [x \in CallFields |-> n[x]] /\ n.stage = st /\ n.op = c.op /\ n.order = c.order
        /\ n.client = c.client
  BY <1>1 DEF CallFields
<1>3. Client("boot") # Nobody
  BY DEF Client, Nobody
<1>4. \A d \in requests' : d \in requests \ {c} \/ d = [c EXCEPT !.stage = st]
  BY DEF Replace
<1>5. c.client = Client("boot") => requests' = (requests \ {c}) \cup {[c EXCEPT !.stage = st]}
  BY <1>3 DEF Replace
<1> QED BY <1>2, <1>4, <1>5

\* The runner answers or takes c, and the quotes follow.
LEMMA ReplaceKeeps ==
  ASSUME ServiceInv, NEW c \in requests, NEW st \in {"fenced", "failed", "done"}, Replace(c, st),
         quotes' \subseteq quotes \/ (c.op = "submit" /\ quotes' \subseteq quotes \cup {c.order}),
         st = "done" /\ c.op = "safety" => quotes' \subseteq quotes \ {c.order},
         c.op = "submit" => quotes' = quotes \/ c \in InHand,
         UNCHANGED <<makers, proc, phase, handle, withdraw, monitor, stop>>
  PROVE  ServiceTypes' /\ BootKept'
<1> DEFINE n == [c EXCEPT !.stage = st]
<1>1. /\ \A d \in requests' : d \in requests \ {c} \/ d = n
      /\ c.client = Client("boot") => requests' = (requests \ {c}) \cup {n}
      /\ n = [x \in CallFields |-> n[x]] /\ n.stage = st /\ n.op = c.op /\ n.order = c.order
      /\ n.client = c.client
  BY ReplaceIs DEF ServiceInv, ServiceTypes
<1>2. RunnerCall(c)
  BY DEF ServiceInv, ServiceTypes
<1> HIDE DEF n
<1>3. \A d \in requests' : RunnerCall(d)'
  BY <1>1, <1>2 DEF RunnerCall, ServiceInv, ServiceTypes
<1>4. quotes' \subseteq {0} \cup 1 .. Len(makers)
  BY <1>2 DEF RunnerCall, ServiceInv, ServiceTypes
<1>5. ServiceTypes'
  BY <1>3, <1>4 DEF ServiceInv, ServiceTypes
<1>6. proc = "boot" => BootLoop'
  <2> SUFFICES ASSUME proc = "boot" PROVE BootLoop'
    OBVIOUS
  <2>1. /\ BootLoop /\ c.client = Client("boot") /\ c.op = "safety" /\ c.order = 0
        /\ withdraw["boot"].left # <<>> /\ quotes \subseteq {0}
    BY DEF ServiceInv, BootKept, BootLoop
  <2>2. \A d \in requests' : d = n
    BY <1>1, <2>1 DEF BootLoop
  <2>3. st = "done" => quotes' = {}
    BY Zenon, <2>1
  <2> QED BY <1>1, <2>1, <2>2, <2>3 DEF BootLoop
<1>7. proc = "up" /\ phase \in {"proving", "warmup"} => quotes' = {}
  <2> SUFFICES ASSUME proc = "up", phase \in {"proving", "warmup"} PROVE quotes' = {}
    OBVIOUS
  <2>1. quotes = {} /\ ~Placing
    BY DEF ServiceInv, BootKept, FenceKept
  <2>2. c.op = "submit" => quotes' = quotes
    BY <2>1 DEF Placing
  <2> QED BY <2>1, <2>2
<1>8. proc \in {"new", "boot"} => quotes' \subseteq {0}
  BY DEF ServiceInv, BootKept, BootLoop
<1>9. proc = "new" => requests' = {}
  BY DEF ServiceInv, BootKept
<1>10. BootKept'
  BY <1>6, <1>7, <1>8, <1>9 DEF ServiceInv, BootKept
<1> QED BY <1>5, <1>10

LEMMA RunnerTakesKeeps ==
  ASSUME ServiceInv, NEW c, RunnerTakes(c)
  PROVE  ServiceInv'
<1>1. c \in requests /\ c.stage = "queued" /\ InHand = {} /\ UNCHANGED <<makers, quotes, faults, serviceVars>>
  BY DEF RunnerTakes
<1>2. PICK st \in {"fenced", "failed"} :
        Replace(c, st) /\ (st = "fenced" => ValidateAdmission(c))
  BY DEF RunnerTakes
<1>3. /\ UNCHANGED <<makers, quotes, proc, phase, handle, withdraw, monitor, stop, late>>
  BY <1>1 DEF serviceVars, rowVars, monitorVars, stopVars
<1>4. ServiceTypes' /\ BootKept'
  <2>1. /\ quotes' \subseteq quotes \/ (c.op = "submit" /\ quotes' \subseteq quotes \cup {c.order})
        /\ st = "done" /\ c.op = "safety" => quotes' \subseteq quotes \ {c.order}
        /\ c.op = "submit" => quotes' = quotes \/ c \in InHand
        /\ UNCHANGED <<makers, proc, phase, handle, withdraw, monitor, stop>>
        /\ st \in {"fenced", "failed", "done"}
    BY <1>3
  <2> QED BY <1>1, <1>2, <2>1, ReplaceKeeps
<1>5. FenceKept'
  <2> DEFINE n == [c EXCEPT !.stage = st]
  <2>1. /\ \A d \in requests' : d \in requests \ {c} \/ d = n
        /\ n.stage = st /\ n.op = c.op
    BY Zenon, <1>1, <1>2, ReplaceIs DEF ServiceInv, ServiceTypes
  <2> HIDE DEF n
  <2>2. InHand' \subseteq {n} /\ (InHand' # {} => ValidateAdmission(c))
    BY <1>1, <1>2, <2>1 DEF InHand
  <2>3. phase # "writable" => ~Placing'
    BY <2>1, <2>2 DEF Placing, ValidateAdmission, authorize
  <2> QED BY <1>3, <2>2, <2>3 DEF ServiceInv, FenceKept
<1> QED BY <1>4, <1>5 DEF ServiceInv

LEMMA RunnerEndsKeeps ==
  ASSUME ServiceInv, NEW c \in InHand, NEW st \in {"failed", "done"}, Replace(c, st),
         \E rests \in BOOLEAN : quotes' = Applied(c, rests) \/ (st = "failed" /\ quotes' = quotes),
         late' = late \/ (c.op = "submit" /\ phase # "writable" /\ late' = [late EXCEPT !.placed = @ + 1]),
         UNCHANGED <<makers, proc, phase, handle, withdraw, monitor, stop>>
  PROVE  ServiceInv'
<1>1. c \in requests /\ c.stage = "fenced"
  BY DEF InHand
<1>2. ServiceTypes' /\ BootKept'
  <2>1. /\ quotes' \subseteq quotes \/ (c.op = "submit" /\ quotes' \subseteq quotes \cup {c.order})
        /\ st = "done" /\ c.op = "safety" => quotes' \subseteq quotes \ {c.order}
        /\ c.op = "submit" => quotes' = quotes \/ c \in InHand
        /\ st \in {"fenced", "failed", "done"}
    BY DEF Applied
  <2> QED BY <1>1, <2>1, ReplaceKeeps
<1>3. InHand' = {}
  <2> DEFINE n == [c EXCEPT !.stage = st]
  <2>1. /\ \A d \in requests' : d \in requests \ {c} \/ d = n
        /\ n.stage = st
    BY Zenon, <1>1, ReplaceIs DEF ServiceInv, ServiceTypes
  <2> HIDE DEF n
  <2>2. \A d \in InHand : d = c
    BY DEF ServiceInv, FenceKept
  <2> QED BY <2>1, <2>2 DEF InHand
<1>4. FenceKept'
  <2>1. CASE late' = late
    BY <1>3, <2>1 DEF ServiceInv, FenceKept, Placing
  <2>2. CASE c.op = "submit" /\ phase # "writable" /\ late' = [late EXCEPT !.placed = @ + 1]
    <3>1. late.inHand \in Nat /\ late.placed \in Nat /\ late.placed < late.inHand /\ phase = "offline"
      BY <2>2 DEF ServiceInv, FenceKept, Placing
    <3>2. late' = [inHand |-> late.inHand, placed |-> late.placed + 1]
      BY <2>2 DEF ServiceInv, FenceKept
    <3>3. /\ late' = [inHand |-> late'.inHand, placed |-> late'.placed]
          /\ late'.inHand = late.inHand /\ late'.placed = late.placed + 1
      BY Zenon, <3>2
    <3> QED BY <1>3, <3>1, <3>3 DEF FenceKept, Placing
  <2> QED BY <2>1, <2>2
<1> QED BY <1>2, <1>4 DEF ServiceInv

-----------------------------------------------------------------------------
(* New calls *)

LEMMA RequestKeeps ==
  ASSUME ServiceInv, NEW client, NEW op, NEW order, Request(client, op, order),
         op = "submit" => order \in 1 .. Len(makers), proc # "new",
         proc = "boot" => /\ client = Client("boot") /\ op = "safety" /\ order = 0
                          /\ withdraw["boot"].left # <<>> /\ requests = {},
         UNCHANGED <<makers, quotes, faults, serviceVars>>
  PROVE  ServiceInv'
<1> DEFINE st == IF taking /\ authorize(op) THEN "queued" ELSE "failed"
           n == [client |-> client, op |-> op, order |-> order, version |-> version, stage |-> st]
<1>1. /\ requests' = requests \cup {n} /\ st \in {"queued", "failed"}
      /\ UNCHANGED <<makers, quotes, proc, phase, handle, withdraw, monitor, stop, late>>
  BY DEF Request, serviceVars, rowVars, monitorVars, stopVars
<1>2. /\ n = [x \in CallFields |-> n[x]] /\ n.stage = st /\ n.op = op /\ n.order = order
      /\ n.client = client
  BY DEF CallFields
<1> HIDE DEF n, st
<1>3. \A c \in requests' : RunnerCall(c)'
  BY <1>1, <1>2 DEF ServiceInv, ServiceTypes, RunnerCall
<1>4. ServiceTypes'
  BY Zenon, <1>1, <1>3 DEF ServiceInv, ServiceTypes
<1>5. FenceKept'
  <2>1. InHand' = InHand
    BY <1>1, <1>2 DEF InHand
  <2> QED BY <1>1, <2>1, CalmWindow DEF ServiceInv
<1>6. proc = "boot" => BootLoop'
  <2> SUFFICES ASSUME proc = "boot" PROVE BootLoop'
    OBVIOUS
  <2>1. BootLoop /\ requests' = {n}
    BY <1>1 DEF ServiceInv, BootKept
  <2> QED BY <1>1, <1>2, <2>1 DEF BootLoop
<1>7. BootKept'
  BY <1>1, <1>6 DEF ServiceInv, BootKept
<1> QED BY Zenon, <1>4, <1>5, <1>7 DEF ServiceInv

LEMMA Domain ==
  ASSUME ServiceTypes
  PROVE  DOMAIN makers = 1 .. Len(makers) /\ Len(makers) \in Nat
BY SequenceIs DEF ServiceTypes

LEMMA MakerAsks ==
  ASSUME ServiceInv, NEW i \in DOMAIN makers, Quoting(i) \/ MakerCancels(i)
  PROVE  ServiceInv'
<1>1. proc = "up" /\ UNCHANGED <<makers, quotes, faults, serviceVars>>
  BY DEF Quoting, MakerCalls, MakerCancels
<1>2. i \in 1 .. Len(makers)
  BY Domain DEF ServiceInv
<1>3. \E op \in {"submit", "cancel"} : Request(MakerClient(i), op, i)
        \/ Request(MakerClient(i), "cancel", Head(makers[i].left))
  BY Zenon DEF Quoting, MakerCalls, MakerCancels
<1>4. ASSUME NEW op \in {"submit", "cancel"}, Request(MakerClient(i), op, i)
      PROVE  ServiceInv'
  BY Zenon, <1>1, <1>2, <1>4, RequestKeeps
<1>5. ASSUME Request(MakerClient(i), "cancel", Head(makers[i].left))
      PROVE  ServiceInv'
  BY <1>1, <1>5, RequestKeeps
<1> QED BY Zenon, <1>3, <1>4, <1>5

\* Before the process is up only start-up withdraws.
LEMMA OnlyBoot ==
  ASSUME BootKept, NEW l \in Loops, Withdrawing(l)
  PROVE  proc # "new" /\ (proc = "boot" => l = "boot") /\ (l = "boot" => proc = "boot")
BY Zenon DEF BootKept, Withdrawing, Loops

LEMMA WithdrawAsks ==
  ASSUME ServiceInv, NEW l \in Loops, WithdrawNext(l)
  PROVE  ServiceInv'
<1>1. /\ Withdrawing(l) /\ withdraw[l].left # <<>> /\ ~Awaits(Client(l))
      /\ Request(Client(l), "safety", Head(withdraw[l].left))
      /\ UNCHANGED <<makers, quotes, faults, serviceVars>>
  BY DEF WithdrawNext
<1>2. proc # "new" /\ (proc = "boot" => l = "boot")
  BY <1>1, OnlyBoot DEF ServiceInv
<1>3. ASSUME proc = "boot"
      PROVE  l = "boot" /\ requests = {} /\ Head(withdraw[l].left) = 0
  <2>1. BootLoop /\ l = "boot"
    BY Zenon, <1>2, <1>3 DEF ServiceInv, BootKept
  <2>2. requests = {}
    BY <1>1, <2>1 DEF BootLoop, Awaits, CallsOf
  <2>3. withdraw[l].left \in Seq({0})
    BY Zenon, <2>1 DEF BootLoop
  <2>4. Head(withdraw[l].left) \in {0}
    BY <1>1, <2>3
  <2> QED BY <2>1, <2>2, <2>4
<1> QED BY Zenon, <1>1, <1>2, <1>3, RequestKeeps

\* A loop reads an answer, or stops waiting for one.
LEMMA WithdrawReads ==
  ASSUME ServiceInv, NEW l \in Loops, WithdrawReply(l)
  PROVE  ServiceInv'
<1>1. PICK c \in Answered(Client(l)) :
        /\ withdraw' = [withdraw EXCEPT ![l] = [left |-> Tail(@.left), bad |-> @.bad \/ c.stage = "failed"]]
        /\ requests' = requests \ {c}
  BY Zenon DEF WithdrawReply
<1>2. Withdrawing(l) /\ UNCHANGED <<makers, quotes, proc, phase, handle, monitor, stop, late>>
  BY DEF WithdrawReply, rowVars, stopVars
<1>3. proc # "new" /\ (proc = "boot" => l = "boot")
  BY <1>2, OnlyBoot DEF ServiceInv
<1> DEFINE w == [left |-> Tail(withdraw[l].left), bad |-> withdraw[l].bad \/ c.stage = "failed"]
<1>4. withdraw' = [withdraw EXCEPT ![l] = w]
  BY Zenon, <1>1
<1>5. w.left = Tail(withdraw[l].left) /\ w.bad = (withdraw[l].bad \/ c.stage = "failed")
  OBVIOUS
<1> HIDE DEF w
<1>6. withdraw'[l] = w /\ withdraw' = [k \in Loops |-> withdraw'[k]]
  BY Zenon, <1>4 DEF ServiceInv, ServiceTypes
<1>7. ServiceTypes'
  <2>1. \A d \in requests' : RunnerCall(d)'
    BY <1>1, <1>2 DEF ServiceInv, ServiceTypes, RunnerCall
  <2> QED BY Zenon, <1>2, <1>6, <2>1 DEF ServiceInv, ServiceTypes
<1>8. FenceKept'
  <2>1. InHand' \subseteq InHand
    BY Zenon, <1>1 DEF InHand
  <2> QED BY Zenon, <1>2, <2>1, CalmWindow DEF ServiceInv
<1>9. proc = "boot" => BootLoop'
  <2> SUFFICES ASSUME proc = "boot" PROVE BootLoop'
    OBVIOUS
  <2>1. BootLoop /\ l = "boot"
    BY <1>3 DEF ServiceInv, BootKept
  <2>2. c \in requests /\ c.stage \in {"failed", "done"}
    BY DEF Answered, CallsOf, ServiceInv, ServiceTypes, RunnerCall
  <2>3. requests' = {} /\ withdraw["boot"].left # <<>> /\ withdraw["boot"].left \in Seq({0})
    BY <1>1, <2>1, <2>2 DEF BootLoop
  <2>4. w.left \in Seq({0})
    <3>1. Tail(withdraw["boot"].left) \in Seq({0})
      BY <2>3, TailWithin
    <3> QED BY Zenon, <1>5, <2>1, <3>1
  <2>5. w.bad \in BOOLEAN /\ (~w.bad => c.stage # "failed")
    BY Zenon, <1>5
  <2>6. quotes # {} => w.bad
    BY Zenon, <2>1, <2>2, <2>5 DEF BootLoop
  <2> QED BY Zenon, <1>2, <1>6, <2>1, <2>3, <2>4, <2>5, <2>6 DEF BootLoop
<1>10. BootKept'
  BY <1>2, <1>3, <1>9 DEF ServiceInv, BootKept
<1> QED BY Zenon, <1>7, <1>8, <1>10 DEF ServiceInv

LEMMA WithdrawLeaves ==
  ASSUME ServiceInv, NEW l \in Loops, WithdrawAbandons(l)
  PROVE  ServiceInv'
<1>1. /\ Withdrawing(l) /\ l # "boot" /\ requests' = Abandon(Client(l))
      /\ withdraw' = [withdraw EXCEPT ![l] = [left |-> Tail(@.left), bad |-> TRUE]]
      /\ UNCHANGED <<makers, quotes, proc, phase, handle, monitor, stop, late>>
  BY Zenon DEF WithdrawAbandons, rowVars, stopVars
<1>2. proc \notin {"new", "boot"}
  BY <1>1, OnlyBoot DEF ServiceInv
<1>3. (\A c \in requests' : RunnerCall(c)') /\ FenceKept'
  BY <1>1, AbandonKeeps DEF ServiceInv
<1>4. withdraw' = [k \in Loops |-> withdraw'[k]]
  BY Zenon, <1>1 DEF ServiceInv, ServiceTypes
<1>5. ServiceTypes'
  BY <1>1, <1>3, <1>4 DEF ServiceInv, ServiceTypes
<1>6. BootKept'
  BY <1>1, <1>2 DEF ServiceInv, BootKept
<1> QED BY <1>3, <1>5, <1>6 DEF ServiceInv

-----------------------------------------------------------------------------
(* Start-up *)

LEMMA BeginKeeps ==
  ASSUME ServiceInv, Begin
  PROVE  ServiceInv'
<1>1. /\ proc = "new" /\ proc' = "boot" /\ phase' = "replay" /\ BeginWithdraw("boot")
      /\ UNCHANGED <<makers, quotes, requests, handle, monitor, stop, late>>
  BY DEF Begin, tradeVars
<1>2. /\ phase = "none" /\ requests = {} /\ makers = <<>> /\ quotes \subseteq {0}
      /\ monitor.pc = "idle" /\ stop.pc = "idle"
  BY <1>1 DEF ServiceInv, BootKept
<1> DEFINE w == [left |-> Listing(quotes), bad |-> FALSE]
<1>3. w.left = Listing(quotes) /\ w.bad = FALSE /\ withdraw' = [withdraw EXCEPT !["boot"] = w]
  BY <1>1 DEF BeginWithdraw, OpenOrders, Listing
<1> HIDE DEF w
<1>4. withdraw'["boot"] = w /\ withdraw' = [k \in Loops |-> withdraw'[k]]
  BY Zenon, <1>3 DEF ServiceInv, ServiceTypes, Loops
<1>5. IsFiniteSet(quotes)
  BY Zenon, <1>2, FS_Singleton, FS_Subset
<1>6. /\ w.left \in Seq(quotes)
      /\ \A x \in quotes : \E i \in 1 .. Len(w.left) : w.left[i] = x
  BY <1>3, <1>5, ListingAll
<1>7. w.left \in Seq({0})
  BY Zenon, <1>2, <1>6, WiderSequence
<1>8. quotes # {} => w.left # <<>>
  BY <1>6
<1>9. ServiceTypes'
  BY <1>1, <1>4 DEF ServiceInv, ServiceTypes, RunnerCall
<1>10. FenceKept'
  BY <1>1, <1>2 DEF ServiceInv, FenceKept, InHand, Placing
<1>11. BootLoop'
  BY Zenon, <1>1, <1>2, <1>3, <1>4, <1>7, <1>8 DEF BootLoop
<1>12. BootKept'
  BY <1>1, <1>2, <1>11 DEF BootKept
<1> QED BY <1>9, <1>10, <1>12 DEF ServiceInv

LEMMA BootedKeeps ==
  ASSUME ServiceInv, Booted
  PROVE  ServiceInv'
<1>1. /\ proc = "boot" /\ withdraw["boot"].left = <<>> /\ ~Awaits(Client("boot"))
      /\ UNCHANGED <<makers, quotes, requests, handle, withdraw, monitor, stop, late>>
  BY DEF Booted, Withdrawn, Withdrawing, tradeVars, monitorVars
<1>2. \/ proc' = "down" /\ phase' = "manual_review"
      \/ proc' = "up" /\ phase' = "proving" /\ ~withdraw["boot"].bad
  BY DEF Booted
<1>3. phase = "replay" /\ BootLoop /\ makers = <<>>
  BY <1>1 DEF ServiceInv, BootKept
<1>4. ~withdraw["boot"].bad => quotes = {}
  BY <1>1, <1>3 DEF BootLoop
<1>5. ServiceTypes'
  BY <1>1, <1>2 DEF ServiceInv, ServiceTypes, RunnerCall
<1>6. FenceKept'
  BY Zenon, <1>1, <1>2, <1>3 DEF ServiceInv, FenceKept, InHand, Placing
<1>7. BootKept'
  BY <1>1, <1>2, <1>4 DEF BootKept
<1> QED BY <1>5, <1>6, <1>7 DEF ServiceInv

-----------------------------------------------------------------------------
(* The process is up *)

\* What the steps of a running process that place and remove no quote have
\* in common.
UpStep ==
  /\ proc = "up" /\ proc' \in {"up", "down"} /\ quotes' = quotes
  /\ Sequence(makers')
  /\ Len(makers) <= Len(makers') /\ Len(makers') <= MaxMakers
  /\ handle' \in 0 .. Len(makers')
  /\ \A c \in requests' : RunnerCall(c)'
  /\ withdraw' = [l \in Loops |-> withdraw'[l]]
  /\ monitor'.pc \in {"idle", "fail", "fail_anyway", "start", "stop", "wait", "withdraw", "ended"}
  /\ stop'.pc \in {"idle", "wait", "withdraw", "grpc", "runner", "publisher", "pools"}
  /\ phase' \in {phase, "offline", "writable"} \/ (phase' = "warmup" /\ phase = "proving")

LEMMA UpKeeps ==
  ASSUME ServiceInv, UpStep
  PROVE  ServiceTypes' /\ BootKept'
<1>1. Len(makers) \in Nat /\ Len(makers') \in Nat
  BY SequenceIs DEF ServiceInv, ServiceTypes, UpStep
<1>2. quotes' \subseteq {0} \cup 1 .. Len(makers')
  <2>1. quotes' \subseteq {0} \cup 1 .. Len(makers) /\ Len(makers) <= Len(makers')
    BY DEF ServiceInv, ServiceTypes, UpStep
  <2> QED BY <1>1, <2>1
<1>3. ServiceTypes'
  BY <1>2 DEF ServiceInv, ServiceTypes, UpStep
<1>4. BootKept'
  BY DEF ServiceInv, BootKept, UpStep
<1> QED BY <1>3, <1>4

LEMMA SameMakers ==
  ASSUME ServiceTypes, makers' = makers, requests' \subseteq requests
  PROVE  /\ Sequence(makers')
         /\ Len(makers) <= Len(makers') /\ Len(makers') <= MaxMakers
         /\ \A c \in requests' : RunnerCall(c)'
<1>1. Len(makers) \in Nat
  BY Domain
<1>2. ASSUME NEW c \in requests' PROVE RunnerCall(c)'
  BY DEF ServiceTypes, RunnerCall
<1>3. Sequence(makers) /\ Len(makers) <= MaxMakers
  BY DEF ServiceTypes
<1>4. Len(makers) <= Len(makers)
  BY <1>1
<1> QED BY Zenon, <1>2, <1>3, <1>4

\* One maker changes, and calls are answered at most.
LEMMA MakerChanges ==
  ASSUME ServiceInv, proc = "up", NEW i, NEW m, makers' = [makers EXCEPT ![i] = m], quotes' = quotes,
         requests' \subseteq requests \/ \E client : requests' = Abandon(client),
         UNCHANGED <<proc, handle, withdraw, monitor, stop>>, phase' \in {phase, "offline"}
  PROVE  ServiceTypes' /\ BootKept' /\ (phase' = phase /\ late' = late => FenceKept')
<1>1. Sequence(makers') /\ Len(makers') = Len(makers) /\ Len(makers) \in Nat
  <2>1. Sequence(makers)
    BY DEF ServiceInv, ServiceTypes
  <2> QED BY Zenon, <2>1, MakersBecome, SequenceIs
<1>2. (\A c \in requests' : RunnerCall(c)') /\ (phase' = phase /\ late' = late => FenceKept')
  <2>1. CASE requests' \subseteq requests
    <3>1. InHand' \subseteq InHand
      BY <2>1 DEF InHand
    <3> QED BY Zenon, <1>1, <2>1, <3>1, CalmWindow DEF ServiceInv, ServiceTypes, RunnerCall
  <2>2. ASSUME NEW client, requests' = Abandon(client)
        PROVE  (\A c \in requests' : RunnerCall(c)') /\ (phase' = phase /\ late' = late => FenceKept')
    BY Zenon, <1>1, <2>2, AbandonKeeps DEF ServiceInv
  <2> QED BY <2>1, <2>2
<1>3. UpStep
  <2>1. Len(makers) <= Len(makers') /\ Len(makers') <= MaxMakers /\ handle' \in 0 .. Len(makers')
    <3>1. Len(makers) <= MaxMakers /\ handle \in 0 .. Len(makers)
      BY DEF ServiceInv, ServiceTypes
    <3> QED BY <1>1, <3>1
  <2> QED BY Zenon, <1>1, <1>2, <2>1 DEF UpStep, ServiceInv, ServiceTypes
<1> QED BY Zenon, <1>2, <1>3, UpKeeps

LEMMA MakersKeep ==
  ASSUME ServiceInv, NEW i \in DOMAIN makers,
         MakerReply(i) \/ MakerAbandons(i) \/ MakerUnwinds(i) \/ MakerEnds(i)
  PROVE  ServiceInv'
<1>1. /\ proc = "up" /\ quotes' = quotes
      /\ UNCHANGED <<proc, handle, withdraw, monitor, stop, phase, late>>
  BY Zenon DEF MakerReply, MakerAbandons, MakerUnwinds, MakerEnds, serviceVars, rowVars, monitorVars, stopVars
<1>2. \E m : makers' = [makers EXCEPT ![i] = m]
  BY Zenon DEF MakerReply, MakerAbandons, MakerUnwinds, MakerEnds, Becomes
<1>3. requests' \subseteq requests \/ \E client : requests' = Abandon(client)
  BY Zenon DEF MakerReply, MakerAbandons, MakerUnwinds, MakerEnds
<1> QED BY Zenon, <1>1, <1>2, <1>3, MakerChanges DEF ServiceInv

\* Leaving the writable phase notes the order in hand, of which there is one
\* at most.
LEMMA OfflineKeeps ==
  ASSUME ServiceInv, NEW saved, FailOffline(saved), requests' = requests
  PROVE  FenceKept' /\ phase' \in {phase, "offline"}
<1> DEFINE held == {c \in InHand : c.op = "submit"}
<1>1. InHand' = InHand /\ (Placing' <=> Placing)
  BY DEF InHand, Placing
<1>2. CASE ~saved \/ phase # "writable"
  <2>1. late' = late /\ (phase' = phase \/ (phase' = "offline" /\ phase # "writable"))
    BY <1>2 DEF FailOffline
  <2> QED BY <1>1, <2>1 DEF ServiceInv, FenceKept
<1>3. CASE saved /\ phase = "writable"
  <2>1. phase' = "offline" /\ late' = [late EXCEPT !.inHand = Cardinality(held)]
    BY <1>3 DEF FailOffline
  <2>2. late.placed = 0 /\ \A c, d \in InHand : c = d
    BY <1>3 DEF ServiceInv, FenceKept
  <2>3. Cardinality(held) \in Nat /\ (Placing => Cardinality(held) = 1)
    <3>1. CASE Placing
      <4>1. PICK c \in InHand : c.op = "submit"
        BY <3>1 DEF Placing
      <4>2. held = {c}
        BY <2>2, <4>1
      <4> QED BY <4>2, FS_Singleton
    <3>2. CASE ~Placing
      <4>1. held = {}
        BY <3>2 DEF Placing
      <4> QED BY <3>2, <4>1, FS_EmptySet
    <3> QED BY <3>1, <3>2
  <2> HIDE DEF held
  <2>4. late' = [inHand |-> Cardinality(held), placed |-> 0]
    BY <2>1, <2>2 DEF ServiceInv, FenceKept
  <2>5. /\ late' = [inHand |-> late'.inHand, placed |-> late'.placed]
        /\ late'.inHand = Cardinality(held) /\ late'.placed = 0
    BY <2>4
  <2> QED BY <1>1, <2>1, <2>2, <2>3, <2>5 DEF FenceKept
<1> QED BY <1>2, <1>3

LEMMA MakerFailedKeeps ==
  ASSUME ServiceInv, NEW i, NEW cancelled, NEW saved, MakerFailed(i, cancelled, saved)
  PROVE  ServiceInv'
<1>1. /\ proc = "up" /\ quotes' = quotes /\ requests' = requests
      /\ UNCHANGED <<proc, handle, withdraw, monitor, stop>>
      /\ \E m : makers' = [makers EXCEPT ![i] = m]
  BY Zenon DEF MakerFailed, monitorVars, stopVars
<1>2. UNCHANGED <<phase, late>> \/ FailOffline(saved)
  BY DEF MakerFailed, rowVars
<1>3. CASE UNCHANGED <<phase, late>>
  BY Zenon, <1>1, <1>3, MakerChanges DEF ServiceInv
<1>4. CASE FailOffline(saved)
  <2>1. FenceKept' /\ phase' \in {phase, "offline"}
    BY <1>1, <1>4, OfflineKeeps
  <2> QED BY Zenon, <1>1, <2>1, MakerChanges DEF ServiceInv
<1> QED BY <1>2, <1>3, <1>4

LEMMA RunnerKeeps ==
  ASSUME ServiceInv, Runner
  PROVE  ServiceInv'
<1>1. PICK c \in requests : \/ RunnerTakes(c)
                           \/ \E rests \in BOOLEAN : RunnerAppends(c, rests)
                           \/ \E stored \in BOOLEAN : RunnerFails(c, stored)
  BY DEF Runner
<1>2. ASSUME NEW rests \in BOOLEAN, RunnerAppends(c, rests)
      PROVE  ServiceInv'
  <2>1. /\ c \in InHand /\ Replace(c, "done") /\ quotes' = Applied(c, rests)
        /\ late' = late \/ (c.op = "submit" /\ phase # "writable" /\ late' = [late EXCEPT !.placed = @ + 1])
        /\ UNCHANGED <<makers, proc, phase, handle, withdraw, monitor, stop>>
    BY <1>2 DEF RunnerAppends, rowVars, monitorVars, stopVars
  <2> QED BY <2>1, RunnerEndsKeeps
<1>3. ASSUME NEW stored \in BOOLEAN, RunnerFails(c, stored)
      PROVE  ServiceInv'
  <2>1. /\ c \in InHand /\ Replace(c, "failed") /\ (quotes' = Applied(c, TRUE) \/ quotes' = quotes)
        /\ late' = late
        /\ UNCHANGED <<makers, proc, phase, handle, withdraw, monitor, stop>>
    BY Zenon, <1>3 DEF RunnerFails, rowVars, monitorVars, stopVars
  <2> QED BY Zenon, <2>1, RunnerEndsKeeps
<1> QED BY <1>1, <1>2, <1>3, RunnerTakesKeeps

LEMMA UserTakesKeeps ==
  ASSUME ServiceInv, NEW q, UserTakes(q)
  PROVE  ServiceInv'
<1>1. /\ phase = "writable" /\ quotes' \subseteq quotes
      /\ UNCHANGED <<makers, requests, proc, phase, handle, withdraw, monitor, stop, late>>
  BY DEF UserTakes, serviceVars, rowVars, monitorVars, stopVars
<1>2. ServiceTypes'
  BY <1>1 DEF ServiceInv, ServiceTypes, RunnerCall
<1>3. FenceKept'
  BY <1>1 DEF ServiceInv, FenceKept, InHand, Placing
<1>4. BootKept'
  BY <1>1 DEF ServiceInv, BootKept
<1> QED BY <1>2, <1>3, <1>4 DEF ServiceInv

\* The epoch moves forward, with no order in hand.
LEMMA EpochKeeps ==
  ASSUME ServiceInv, completeLocalRecovery \/ Promote
  PROVE  ServiceInv'
<1>1. /\ proc = "up"
      /\ (phase = "proving" /\ phase' = "warmup") \/ (phase = "warmup" /\ phase' = "writable")
      /\ UNCHANGED <<makers, quotes, requests, proc, handle, withdraw, monitor, stop, late>>
  BY DEF completeLocalRecovery, Promote, tradeVars, monitorVars, stopVars
<1>2. UpStep
  BY Zenon, <1>1, SameMakers DEF UpStep, ServiceInv, ServiceTypes
<1>3. FenceKept'
  BY <1>1 DEF ServiceInv, FenceKept, InHand, Placing
<1> QED BY Zenon, <1>2, <1>3, UpKeeps DEF ServiceInv

\* Steps that touch neither the makers nor the row.
LEMMA QuietKeeps ==
  ASSUME ServiceInv, proc = "up", proc' \in {"up", "down"},
         UNCHANGED <<makers, quotes, phase, handle, late>>, requests' \subseteq requests,
         withdraw' = withdraw \/ \E l \in Loops : BeginWithdraw(l),
         monitor'.pc \in {"idle", "fail", "fail_anyway", "start", "stop", "wait", "withdraw", "ended"},
         stop'.pc \in {"idle", "wait", "withdraw", "grpc", "runner", "publisher", "pools"}
  PROVE  ServiceInv'
<1>1. withdraw' = [l \in Loops |-> withdraw'[l]]
  BY DEF BeginWithdraw, ServiceInv, ServiceTypes
<1>2. UpStep
  BY <1>1, SameMakers DEF UpStep, ServiceInv, ServiceTypes
<1>3. InHand' \subseteq InHand
  BY DEF InHand
<1> QED BY Zenon, <1>2, <1>3, UpKeeps, CalmWindow DEF ServiceInv

LEMMA FromZero == \A n \in Nat : n <= n /\ 0 \in 0 .. n
OBVIOUS

\* stopMaker takes the maker's handle and cancels it.
LEMMA TakeHandleKeeps ==
  ASSUME ServiceInv, proc = "up", TakeHandle, UNCHANGED <<quotes, requests, proc, phase, withdraw, late>>,
         monitor'.pc \in {"idle", "fail", "fail_anyway", "start", "stop", "wait", "withdraw", "ended"},
         stop'.pc \in {"idle", "wait", "withdraw", "grpc", "runner", "publisher", "pools"}
  PROVE  ServiceInv'
<1>1. Sequence(makers') /\ Len(makers') = Len(makers) /\ Len(makers) \in Nat
  <2>1. makers' = makers \/ \E m : makers' = [makers EXCEPT ![handle] = m]
    BY Zenon DEF TakeHandle
  <2>2. Sequence(makers)
    BY DEF ServiceInv, ServiceTypes
  <2> QED BY Zenon, <2>1, <2>2, MakersBecome, SequenceIs
<1>2. \A c \in requests' : RunnerCall(c)'
  BY <1>1 DEF ServiceInv, ServiceTypes, RunnerCall
<1>3. handle' = 0
  BY DEF TakeHandle
<1>4. UpStep
  <2>1. Len(makers) <= Len(makers') /\ Len(makers') <= MaxMakers /\ handle' \in 0 .. Len(makers')
    <3>1. Len(makers) <= MaxMakers
      BY DEF ServiceInv, ServiceTypes
    <3> QED BY Zenon, <1>1, <1>3, <3>1, FromZero
  <2> QED BY Zenon, <1>1, <1>2, <2>1 DEF UpStep, ServiceInv, ServiceTypes
<1>5. InHand' \subseteq InHand
  BY DEF InHand
<1> QED BY Zenon, <1>4, <1>5, UpKeeps, CalmWindow DEF ServiceInv

LEMMA MonitorKeeps ==
  ASSUME ServiceInv, Monitor
  PROVE  ServiceInv'
<1> USE DEF Watching, NoStep
<1>1. ASSUME NEW b \in BOOLEAN, MonitorReads(b)
      PROVE  ServiceInv'
  <2>1. /\ proc = "up" /\ proc' = proc /\ UNCHANGED <<makers, quotes, requests, phase, handle, late, withdraw, stop>>
        /\ monitor'.pc \in {"stop", "fail", "fail_anyway", "start"}
    BY <1>1 DEF MonitorReads, stopVars
  <2> QED BY Zenon, <2>1, QuietKeeps DEF ServiceInv, ServiceTypes
<1>2. ASSUME NEW b \in BOOLEAN, MonitorFails(b)
      PROVE  ServiceInv'
  <2>1. /\ proc = "up" /\ FailOffline(b) /\ monitor'.pc \in {"stop", "idle"}
        /\ UNCHANGED <<makers, quotes, requests, proc, handle, withdraw, stop>>
    BY <1>2 DEF MonitorFails, stopVars
  <2>2. FenceKept' /\ phase' \in {phase, "offline"}
    BY Zenon, <2>1, OfflineKeeps
  <2>3. UpStep
    BY <2>1, <2>2, SameMakers DEF UpStep, ServiceInv, ServiceTypes
  <2> QED BY <2>2, <2>3, UpKeeps DEF ServiceInv
<1>3. CASE MonitorStarts
  <2>1. /\ proc = "up" /\ UNCHANGED <<quotes, requests, proc, phase, withdraw, stop, late>>
        /\ monitor'.pc = "idle"
    BY Zenon, <1>3 DEF MonitorStarts, rowVars, stopVars
  <2>2. CASE UNCHANGED <<makers, handle>>
    BY Zenon, <2>1, <2>2, QuietKeeps DEF ServiceInv, ServiceTypes
  <2>3. CASE ~UNCHANGED <<makers, handle>>
    <3>1. Len(makers) # MaxMakers /\ makers' = Append(makers, NewMaker) /\ handle' = Len(makers) + 1
      BY Zenon, <1>3, <2>3 DEF MonitorStarts
    <3>2. Sequence(makers) /\ Len(makers) <= MaxMakers /\ \A c \in requests : RunnerCall(c)
      BY DEF ServiceInv, ServiceTypes
    <3>3. Sequence(makers') /\ Len(makers') = Len(makers) + 1 /\ Len(makers) \in Nat
      BY <3>1, <3>2, SequenceGrows, SequenceIs
    <3>4. Len(makers') <= MaxMakers /\ Len(makers) <= Len(makers') /\ handle' \in 0 .. Len(makers')
      BY SMT, SMTT(30), <3>1, <3>2, <3>3, ServiceAssumption
    <3>5. ASSUME NEW c \in requests' PROVE RunnerCall(c)'
      BY SMT, SMTT(30), <2>1, <3>2, <3>3 DEF RunnerCall
    <3>6. UpStep
      BY Zenon, <2>1, <3>3, <3>4, <3>5 DEF UpStep, ServiceInv, ServiceTypes
    <3>7. InHand' \subseteq InHand
      BY Zenon, <2>1 DEF InHand
    <3> QED BY Zenon, <2>1, <3>6, <3>7, UpKeeps, CalmWindow DEF ServiceInv
  <2> QED BY Zenon, <2>2, <2>3
<1>4. CASE MonitorStops
  <2>1. /\ proc = "up" /\ UNCHANGED <<quotes, requests, proc, phase, withdraw, stop, late>> /\ TakeHandle
        /\ monitor'.pc = "wait"
    BY Zenon, <1>4 DEF MonitorStops, rowVars, stopVars
  <2> QED BY <2>1, TakeHandleKeeps DEF ServiceInv, ServiceTypes
<1>5. CASE MonitorWaited
  <2>1. /\ proc = "up" /\ UNCHANGED <<makers, quotes, requests, proc, phase, handle, stop, late>>
        /\ BeginWithdraw("monitor") /\ "monitor" \in Loops /\ monitor'.pc = "withdraw"
    BY Zenon, <1>5 DEF MonitorWaited, tradeVars, rowVars, stopVars, Loops
  <2> QED BY <2>1, QuietKeeps DEF ServiceInv, ServiceTypes
<1>6. CASE MonitorWithdrawn \/ MonitorEnds
  <2>1. /\ proc = "up" /\ UNCHANGED <<makers, quotes, requests, proc, phase, handle, withdraw, stop, late>>
        /\ monitor'.pc \in {"idle", "ended"}
    BY <1>6 DEF MonitorWithdrawn, MonitorEnds, tradeVars, rowVars, stopVars
  <2> QED BY <2>1, QuietKeeps DEF ServiceInv, ServiceTypes
<1> QED BY Zenon, <1>1, <1>2, <1>3, <1>4, <1>5, <1>6 DEF Monitor

LEMMA StoppingKeeps ==
  ASSUME ServiceInv, StopCalled \/ StopExpires \/ Stopping \/ Regress
  PROVE  ServiceInv'
<1> USE DEF StopGoes, NoStep
<1>1. CASE StopCalled
  <2>1. /\ proc = "up" /\ UNCHANGED <<quotes, requests, proc, phase, withdraw, monitor, late>> /\ TakeHandle
        /\ stop'.pc = "wait"
    BY Zenon, <1>1 DEF StopCalled, rowVars
  <2> QED BY Zenon, <2>1, TakeHandleKeeps DEF ServiceInv, ServiceTypes
<1>2. CASE StopExpires \/ Regress
  <2>1. /\ proc = "up" /\ UNCHANGED <<makers, quotes, requests, proc, phase, handle, withdraw, monitor, stop, late>>
    BY Zenon, <1>2 DEF StopExpires, Regress, tradeVars, rowVars, monitorVars, stopVars
  <2> QED BY Zenon, <2>1, QuietKeeps DEF ServiceInv, ServiceTypes
<1>3. CASE StopWaited
  <2>1. /\ proc = "up" /\ UNCHANGED <<makers, quotes, requests, proc, phase, handle, monitor, late>>
        /\ BeginWithdraw("stop") /\ "stop" \in Loops /\ stop'.pc = "withdraw"
    BY Zenon, <1>3 DEF StopWaited, tradeVars, rowVars, Loops
  <2> QED BY <2>1, QuietKeeps DEF ServiceInv, ServiceTypes
<1>4. CASE StopWithdrawn \/ StopGrpc \/ StopPublisher
  <2>1. /\ proc = "up" /\ UNCHANGED <<makers, quotes, requests, proc, phase, handle, withdraw, monitor, late>>
        /\ stop'.pc \in {"grpc", "runner", "pools"}
    BY <1>4 DEF StopWithdrawn, StopGrpc, StopPublisher, tradeVars, rowVars, monitorVars
  <2> QED BY <2>1, QuietKeeps DEF ServiceInv, ServiceTypes
<1>5. CASE StopRunner
  <2>1. /\ proc = "up" /\ UNCHANGED <<makers, quotes, proc, phase, handle, withdraw, monitor, late>>
        /\ stop'.pc = "publisher"
    BY <1>5 DEF StopRunner, rowVars, monitorVars
  <2>2. ASSUME NEW c \in requests'
        PROVE  /\ c \in InHand \/ c.stage # "fenced"
               /\ RunnerCall(c)'
    <3>1. CASE c \in InHand
      BY Zenon, <2>1, <3>1 DEF InHand, ServiceInv, ServiceTypes, RunnerCall
    <3>2. CASE c \notin InHand
      <4>1. PICK d \in requests \ InHand :
              c = [d EXCEPT !.stage = IF d.stage = "queued" THEN "failed" ELSE d.stage]
        BY <1>5, <2>2, <3>2 DEF StopRunner
      <4>2. RunnerCall(d) /\ d.stage # "fenced"
        BY DEF InHand, ServiceInv, ServiceTypes
      <4>3. /\ c = [x \in CallFields |-> c[x]] /\ c.op = d.op /\ c.order = d.order
            /\ c.stage = IF d.stage = "queued" THEN "failed" ELSE d.stage
        BY <4>1, <4>2 DEF RunnerCall, CallFields
      <4> QED BY <2>1, <4>2, <4>3 DEF RunnerCall
    <3> QED BY Zenon, <3>1, <3>2
  <2>3. InHand' \subseteq InHand
    BY Zenon, <2>2 DEF InHand
  <2>4. UpStep
    <3>1. Sequence(makers') /\ Len(makers) <= Len(makers') /\ Len(makers') <= MaxMakers
      <4>1. Sequence(makers) /\ Len(makers) <= MaxMakers
        BY DEF ServiceInv, ServiceTypes
      <4>2. Len(makers) <= Len(makers)
        BY SMT, SMTT(30), <4>1, SequenceIs
      <4> QED BY Zenon, <2>1, <4>1, <4>2
    <3> QED BY Zenon, <2>1, <2>2, <3>1 DEF UpStep, ServiceInv, ServiceTypes
  <2> QED BY Zenon, <2>1, <2>3, <2>4, UpKeeps, CalmWindow DEF ServiceInv
<1>6. CASE Stopped
  <2>1. /\ proc = "up" /\ proc' = "down"
        /\ UNCHANGED <<makers, quotes, requests, phase, handle, withdraw, monitor, stop, late>>
    BY <1>6 DEF Stopped, tradeVars, rowVars, monitorVars, stopVars
  <2> QED BY <2>1, QuietKeeps DEF ServiceInv, ServiceTypes
<1> QED BY Zenon, <1>1, <1>2, <1>3, <1>4, <1>5, <1>6 DEF Stopping

LEMMA ServiceStep ==
  ASSUME ServiceInv, [ServiceNext]_serviceAll
  PROVE  ServiceInv'
<1>1. ASSUME NEW i \in DOMAIN makers, Quoting(i) \/ Makers(i) \/ MakerFailures(i)
      PROVE  ServiceInv'
  BY Zenon, <1>1, MakerAsks, MakersKeep, MakerFailedKeeps DEF Makers, MakerFailures
<1>2. CASE Runner \/ \E q \in quotes : UserTakes(q)
  BY <1>2, RunnerKeeps, UserTakesKeeps
<1>3. ASSUME NEW l \in Loops, Withdrawal(l)
      PROVE  ServiceInv'
  BY Zenon, <1>3, WithdrawAsks, WithdrawReads, WithdrawLeaves DEF Withdrawal
<1>4. CASE Begin \/ Booted
  BY <1>4, BeginKeeps, BootedKeeps
<1>5. CASE completeLocalRecovery \/ Promote
  BY <1>5, EpochKeeps
<1>6. CASE Monitor
  BY <1>6, MonitorKeeps
<1>7. CASE StopCalled \/ StopExpires \/ Stopping \/ Regress
  BY <1>7, StoppingKeeps
<1>8. CASE UNCHANGED serviceAll
  <2>1. UNCHANGED <<makers, quotes, requests, proc, phase, handle, withdraw, monitor, stop, late>>
    BY <1>8 DEF serviceAll, tradeVars, serviceVars, rowVars, monitorVars, stopVars
  <2>2. ServiceTypes'
    BY Zenon, <2>1 DEF ServiceInv, ServiceTypes, RunnerCall
  <2>3. FenceKept'
    BY Zenon, <2>1 DEF ServiceInv, FenceKept, InHand, Placing
  <2>4. BootKept'
    BY <2>1 DEF ServiceInv, BootKept, BootLoop
  <2> QED BY Zenon, <2>2, <2>3, <2>4 DEF ServiceInv
<1> QED BY Zenon, <1>1, <1>2, <1>3, <1>4, <1>5, <1>6, <1>7, <1>8 DEF ServiceNext

-----------------------------------------------------------------------------
(* One process *)

MCVars == <<makerVars, serviceAll, vars, focus>>

\* The calls of the gate's part use one payload of many.
LEMMA RunnerMoves ==
  ASSUME RunnerNext
  PROVE  Next
BY InstanceAssumption DEF RunnerNext, Next

\* Every part keeps its own invariant, in focus or not.
ProcessInv == MakerInv /\ ServiceInv /\ RunnerInv

LEMMA ProcessStarts == MCInit => ProcessInv
BY Zenon, MakerStarts, ServiceStarts, RunnerStarts DEF MCInit, ProcessInv

LEMMA PartMoves ==
  ASSUME [MCNext]_MCVars
  PROVE  [MakerNext]_makerVars /\ [ServiceNext]_serviceAll /\ [Next]_vars /\ focus' = focus
<1>1. CASE focus = "maker" /\ MakerNext /\ UNCHANGED <<serviceAll, vars, focus>>
  BY <1>1
<1>2. CASE focus = "service" /\ ServiceNext /\ UNCHANGED <<makerVars, vars, focus>>
  BY <1>2
<1>3. CASE RunnerNext /\ UNCHANGED <<makerVars, serviceAll, focus>>
  BY <1>3, RunnerMoves
<1>4. CASE UNCHANGED MCVars
  BY <1>4 DEF MCVars
<1> QED BY Zenon, <1>1, <1>2, <1>3, <1>4 DEF MCNext

LEMMA ProcessStep == ProcessInv /\ [MCNext]_MCVars => ProcessInv'
<1> SUFFICES ASSUME ProcessInv, [MCNext]_MCVars PROVE ProcessInv'
  OBVIOUS
<1>1. [MakerNext]_makerVars /\ [ServiceNext]_serviceAll /\ [Next]_vars
  BY PartMoves
<1>2. MakerInv' /\ ServiceInv' /\ RunnerInv'
  BY <1>1, MakerStep, ServiceStep, RunnerStep DEF ProcessInv
<1> QED BY <1>2 DEF ProcessInv

LEMMA ProcessHolds == MCSpec => []ProcessInv
BY ProcessStarts, ProcessStep, PTL DEF MCSpec, MCVars

\* An active maker's resting orders quote the reference it last accepted and no
\* other (marketmaker.go). Once a process has proved its epoch nothing of a
\* predecessor's demo account rests while it warms up, whatever became of the
\* withdrawal's calls to the runner.
THEOREM OrdersBelong == MCSpec => []QuotesBelong
<1>1. ProcessInv => QuotesBelong
  BY MakerMeans, ServiceMeans DEF ProcessInv, RunnerInv, QuotesBelong
<1> QED BY <1>1, ProcessHolds, PTL

\* Once the epoch is no longer writable, only an order that the runner had in hand
\* is still placed: the fence is checked before the append, in a transaction of its
\* own, and every call that waits in the queue meets it.
THEOREM FenceHolds == MCSpec => []FenceWindow
<1>1. ProcessInv => FenceWindow
  BY ServiceMeans DEF ProcessInv
<1> QED BY <1>1, ProcessHolds, PTL

\* A paused maker quotes again only after three safe reads in a row of which no two
\* neighbours differ by more than MaxJumpBPS.
THEOREM MakerResumes == MCSpec => ResumesAfterThreeSamples
<1>1. ProcessInv /\ [MCNext]_MCVars => [Resumes]_makerVars
  BY PartMoves, ResumesStep DEF ProcessInv
<1> QED BY <1>1, ProcessHolds, PTL DEF MCSpec, MCVars, ResumesAfterThreeSamples, Resumes
=============================================================================
