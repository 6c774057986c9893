--------------------------- MODULE ProviderProofs ---------------------------
(***************************************************************************)
(* The provider side of market data, for every value of the constants: a   *)
(* quarantined source recovers by new evidence only, a dispatch answers    *)
(* only what its consumer accepts, a rate-limit window is only widened, a  *)
(* cached research document is never staler than one request, and a page   *)
(* of research events accounts for every item.                             *)
(***************************************************************************)
EXTENDS ProviderRouter, QualityGate, ResearchSignals, FiniteSetTheorems, TLAPS

LEMMA LeastNatural ==
  ASSUME NEW T, T \subseteq Nat, T # {}
  PROVE  \E x \in T : \A y \in T : x <= y
<1>1. PICK x \in T : \A y \in T : ~(<<y, x>> \in OpToRel(<, Nat))
  BY Zenon, WFMin, NatLessThanWellFounded
<1>2. \A y \in T : y < x => <<y, x>> \in OpToRel(<, Nat)
  BY DEF OpToRel
<1>3. \A y \in T : ~(y < x)
  BY Zenon, <1>1, <1>2
<1> QED BY <1>3

-----------------------------------------------------------------------------

Statuses == {"insufficient", "healthy", "degraded", "recovering", "quarantined"}

Gates == [status: Statuses, streak: 0 .. RecoveryWindows, quarantined: BOOLEAN,
          refs: SUBSET (Facts \cup {0}), lastEnd: Int]

Held(g) == g.quarantined

\* The streak of a quarantined source is backed by proving windows, and one that
\* is not quarantined has all of them.
Backed(g, n) ==
  /\ Held(g) => g.streak <= n /\ g.status \in {"quarantined", "recovering"}
  /\ ~Held(g) => n = RecoveryWindows /\ g.status \notin {"quarantined", "recovering"}
  /\ g.status = "quarantined" => g.streak = 0

QualityInv ==
  /\ hour \in 0 .. LastHour
  /\ observed \in [Evidences -> [class: Classes \cup {"none"}, at: 0 .. LastHour, ref: Facts \cup {0}]]
  /\ kept \subseteq Evidences /\ Cardinality(kept) <= EvidenceLimit
  /\ everSeen \subseteq Evidences /\ evaluated \subseteq everSeen
  /\ \A e \in kept \cup everSeen : observed[e] # Unobserved
  /\ \A e \in everSeen \ evaluated : observed[e].at < hour - WindowLength
  /\ gate \in Gates
  /\ proofs \in 0 .. RecoveryWindows
  /\ Backed(gate, proofs)

LEMMA QualityStarts == QualityInit => QualityInv
<1> SUFFICES ASSUME QualityInit PROVE QualityInv
  OBVIOUS
<1>1. Cardinality({}) = 0
  BY FS_EmptySet
<1>2. observed \in [Evidences -> [class: Classes \cup {"none"}, at: 0 .. LastHour, ref: Facts \cup {0}]]
  BY QualityAssumption DEF QualityInit, Unobserved
<1>3. gate \in Gates /\ Backed(gate, proofs) /\ proofs \in 0 .. RecoveryWindows
  BY QualityAssumption DEF QualityInit, Gates, Statuses, Backed, Held
<1> QED BY <1>1, <1>2, <1>3, QualityAssumption DEF QualityInit, QualityInv

\* Record keeps the map within its limit and forgets the evaluation only of
\* evidence that has left every later window.
LEMMA RecordKeeps ==
  ASSUME QualityInv, NEW e \in Evidences, Record(e), UNCHANGED <<hour, gate, everSeen, proofs>>,
         observed' \in [Evidences -> [class: Classes \cup {"none"}, at: 0 .. LastHour, ref: Facts \cup {0}]],
         observed'[e] # Unobserved,
         \A x \in Evidences : observed[x] # Unobserved => observed'[x] = observed[x]
  PROVE  QualityInv'
<1> DEFINE live == {x \in kept : observed'[x].at >= hour - WindowLength}
<1>1. CASE e \in kept
  <2>1. UNCHANGED <<kept, evaluated>>
    BY <1>1 DEF Record
  <2> QED BY <2>1 DEF QualityInv
<1>2. CASE e \notin kept
  <2>1. /\ kept' = IF Cardinality(live) >= EvidenceLimit THEN live ELSE live \cup {e}
        /\ evaluated' = evaluated \ (kept \ live)
    BY <1>2 DEF Record
  <2>2. IsFiniteSet(kept) /\ live \subseteq kept
    BY QualityAssumption, FS_Subset DEF QualityInv
  <2>3. IsFiniteSet(live) /\ Cardinality(live) \in Nat /\ Cardinality(kept) \in Nat
          /\ Cardinality(live) <= Cardinality(kept) /\ e \notin live
    BY <1>2, <2>2, FS_Subset, FS_CardinalityType
  <2>4. Cardinality(live \cup {e}) = Cardinality(live) + 1
    BY Zenon, <2>3, FS_AddElement
  <2>5. kept' \subseteq Evidences /\ Cardinality(kept') <= EvidenceLimit
    BY <2>1, <2>3, <2>4, QualityAssumption DEF QualityInv
  <2>6. evaluated' \subseteq everSeen'
    BY <2>1 DEF QualityInv
  <2>7. \A x \in kept' \cup everSeen' : observed'[x] # Unobserved
    BY <2>1 DEF QualityInv
  <2>8. \A x \in everSeen' \ evaluated' : observed'[x].at < hour' - WindowLength
    <3> SUFFICES ASSUME NEW x \in everSeen, x \notin evaluated'
                 PROVE  observed'[x].at < hour - WindowLength
      OBVIOUS
    <3>1. observed'[x] = observed[x] /\ x \in Evidences
      BY DEF QualityInv
    <3>2. CASE x \in evaluated
      <4>1. x \in kept /\ ~(observed'[x].at >= hour - WindowLength)
        BY <2>1, <3>2
      <4>2. observed'[x].at \in Int /\ hour - WindowLength \in Int
        BY <3>1, QualityAssumption DEF QualityInv
      <4> QED BY <4>1, <4>2
    <3>3. CASE x \notin evaluated
      BY <3>1, <3>3 DEF QualityInv
    <3> QED BY <3>2, <3>3
  <2> QED BY <2>5, <2>6, <2>7, <2>8 DEF QualityInv
<1> QED BY <1>1, <1>2

LEMMA ObserveKeeps ==
  ASSUME QualityInv, NEW e \in Evidences, NEW class \in Classes, NEW ref \in Facts \cup {0},
         Observe(e, class, ref)
  PROVE  QualityInv'
<1> DEFINE item == [class |-> class, at |-> hour, ref |-> ref]
<1>1. item \in [class: Classes \cup {"none"}, at: 0 .. LastHour, ref: Facts \cup {0}] /\ item # Unobserved
  BY DEF QualityInv, Classes, Unobserved
<1>2. observed' = [observed EXCEPT ![e] = item] /\ observed[e] = Unobserved
  BY DEF Observe
<1> HIDE DEF item
<1>3. /\ observed' \in [Evidences -> [class: Classes \cup {"none"}, at: 0 .. LastHour, ref: Facts \cup {0}]]
      /\ observed'[e] # Unobserved
      /\ \A x \in Evidences : observed[x] # Unobserved => observed'[x] = observed[x]
  BY <1>1, <1>2 DEF QualityInv
<1> QED BY <1>3, RecordKeeps DEF Observe

LEMMA RedeliverKeeps ==
  ASSUME QualityInv, NEW e \in Evidences, Redeliver(e)
  PROVE  QualityInv'
<1>1. observed' = observed /\ observed[e] # Unobserved
  BY DEF Redeliver
<1> QED BY <1>1, RecordKeeps DEF Redeliver, QualityInv

LEMMA HourPassesKeeps ==
  ASSUME QualityInv, HourPasses
  PROVE  QualityInv'
<1>1. hour' = hour + 1 /\ hour' \in 0 .. LastHour
  BY QualityAssumption DEF HourPasses, QualityInv
<1>2. \A e \in everSeen \ evaluated : observed[e].at < hour' - WindowLength
  BY <1>1, QualityAssumption DEF QualityInv
<1> QED BY <1>1, <1>2 DEF HourPasses, QualityInv

LEMMA EvaluateKinds ==
  ASSUME NEW items, NEW end
  PROVE  Evaluate(items, end) \in {"quarantined", "insufficient", "degraded", "healthy"}
BY DEF Evaluate

\* The four forms of a gate after a report.
Closed(g) == [g EXCEPT !.status = "quarantined", !.streak = 0, !.quarantined = TRUE]
Evaluated(g, as) == [g EXCEPT !.status = as, !.streak = 0]
Proved(g) == [g EXCEPT !.status = "healthy", !.streak = RecoveryWindows, !.quarantined = FALSE]
Counted(g) == [g EXCEPT !.status = "recovering", !.streak = g.streak + 1]

LEMMA StatusValues ==
  /\ {"healthy", "recovering", "quarantined"} \subseteq Statuses
  /\ 0 \in 0 .. RecoveryWindows /\ RecoveryWindows \in 0 .. RecoveryWindows
BY QualityAssumption DEF Statuses

LEMMA ClosedForm ==
  ASSUME NEW g \in Gates
  PROVE  /\ Closed(g) \in Gates /\ Held(Closed(g))
         /\ Closed(g).status = "quarantined" /\ Closed(g).streak = 0
<1>1. Closed(g) \in Gates
  BY Zenon, StatusValues DEF Gates, Closed
<1>2. Held(Closed(g))
  BY DEF Gates, Closed, Held
<1>3. Closed(g).status = "quarantined" /\ Closed(g).streak = 0
  BY DEF Gates, Closed
<1> QED BY <1>1, <1>2, <1>3

LEMMA SettledForm ==
  ASSUME NEW g \in Gates, NEW as \in Statuses
  PROVE  /\ Evaluated(g, as) \in Gates /\ (Held(Evaluated(g, as)) <=> Held(g))
         /\ Evaluated(g, as).status = as /\ Evaluated(g, as).streak = 0
<1>1. Evaluated(g, as) \in Gates
  BY Zenon, StatusValues DEF Gates, Evaluated
<1>2. Held(Evaluated(g, as)) <=> Held(g)
  BY DEF Gates, Evaluated, Held
<1>3. Evaluated(g, as).status = as /\ Evaluated(g, as).streak = 0
  BY DEF Gates, Evaluated
<1> QED BY Zenon, <1>1, <1>2, <1>3

LEMMA ProvedForm ==
  ASSUME NEW g \in Gates
  PROVE  /\ Proved(g) \in Gates /\ ~Held(Proved(g))
         /\ Proved(g).status = "healthy" /\ Proved(g).streak = RecoveryWindows
<1>1. Proved(g) \in Gates
  BY Zenon, StatusValues DEF Gates, Proved
<1>2. ~Held(Proved(g))
  BY DEF Gates, Proved, Held
<1>3. Proved(g).status = "healthy" /\ Proved(g).streak = RecoveryWindows
  BY DEF Gates, Proved
<1> QED BY <1>1, <1>2, <1>3

LEMMA CountedForm ==
  ASSUME NEW g \in Gates, ~(g.streak + 1 >= RecoveryWindows)
  PROVE  /\ Counted(g) \in Gates /\ (Held(Counted(g)) <=> Held(g))
         /\ Counted(g).status = "recovering" /\ Counted(g).streak = g.streak + 1
<1>1. g.streak + 1 \in 0 .. RecoveryWindows
  BY QualityAssumption DEF Gates
<1>2. Counted(g) \in Gates
  BY Zenon, <1>1, StatusValues DEF Gates, Counted
<1>3. Held(Counted(g)) <=> Held(g)
  BY DEF Gates, Counted, Held
<1>4. Counted(g).status = "recovering" /\ Counted(g).streak = g.streak + 1
  BY DEF Gates, Counted
<1> QED BY <1>2, <1>3, <1>4

\* The gate moves to a state its proving windows back.
LEMMA GateBacked ==
  ASSUME gate \in Gates, proofs \in 0 .. RecoveryWindows, Backed(gate, proofs),
         NEW status \in {"quarantined", "insufficient", "degraded", "healthy"},
         NEW refs \in SUBSET (Facts \cup {0}), NEW end \in Int, NEW n,
         n = IF GateAdvance(status, refs, end).status = "quarantined" THEN 0
             ELSE IF status = "healthy" /\ proofs < RecoveryWindows THEN proofs + 1 ELSE proofs
  PROVE  GateAdvance(status, refs, end) \in Gates /\ Backed(GateAdvance(status, refs, end), n)
<1> DEFINE g == [gate EXCEPT !.refs = refs, !.lastEnd = end]
           after == GateAdvance(status, refs, end)
<1>1. /\ g \in Gates /\ (Held(g) <=> Held(gate)) /\ g.status = gate.status
      /\ g.streak = gate.streak
  BY Zenon DEF Gates, Held
<1>6. /\ status = "quarantined" => after = Closed(g)
      /\ status = "degraded" => after = Evaluated(g, IF Held(gate) THEN "quarantined" ELSE "degraded")
      /\ status = "insufficient" => after = IF gate.status = "recovering" THEN Closed(g)
                                            ELSE IF Held(gate) THEN g ELSE Evaluated(g, "insufficient")
      /\ status = "healthy" => after = IF refs \subseteq gate.refs THEN g
                                       ELSE IF Held(gate)
                                       THEN (IF gate.streak + 1 >= RecoveryWindows THEN Proved(g) ELSE Counted(g))
                                       ELSE Evaluated(g, "healthy")
  BY <1>1 DEF GateAdvance, Held, Closed, Evaluated, Proved, Counted
<1>7. gate.streak \in Nat /\ gate.status \in Statuses
  BY QualityAssumption DEF Gates
<1> HIDE DEF g, after
<1>8. CASE after = Closed(g)
  BY SMT, SMTT(30), <1>1, <1>8, ClosedForm, QualityAssumption DEF after, Backed
<1>9. CASE after = g
  <2>1. n \in Nat /\ (g.status # "quarantined" => proofs <= n /\ n <= RecoveryWindows)
    BY <1>1, <1>9, QualityAssumption DEF after
  <2>2. Backed(g, n)
    BY SMT, SMTT(30), <1>1, <1>7, <2>1, QualityAssumption DEF Backed, Statuses
  <2> QED BY <1>1, <1>9, <2>2 DEF after
<1>10. ASSUME NEW as \in {"insufficient", "healthy", "degraded"}, after = Evaluated(g, as), ~Held(gate)
       PROVE  after \in Gates /\ Backed(after, n)
  <2>1. after.status # "quarantined" /\ proofs = RecoveryWindows
    <3>1. as \in Statuses /\ as # "quarantined"
      BY Zenon DEF Statuses
    <3>2. after.status = as
      BY Zenon, <1>1, <1>10, <3>1, SettledForm
    <3> QED BY Zenon, <1>10, <3>1, <3>2 DEF Backed
  <2>2. n = RecoveryWindows
    BY <2>1, QualityAssumption DEF after
  <2> QED BY Zenon, <2>2, <1>1, <1>10, <2>1, SettledForm DEF Backed, Statuses
<1>11. CASE after = Evaluated(g, "quarantined") /\ Held(gate)
  <2>1. n = 0
    BY <1>1, <1>11, SettledForm DEF after, Statuses
  <2> QED BY <1>1, <1>11, <2>1, SettledForm DEF after, Backed, Statuses
<1>12. CASE after = Proved(g) /\ gate.streak + 1 >= RecoveryWindows /\ Held(gate) /\ status = "healthy"
  <2>1. n = RecoveryWindows
    BY SMT, SMTT(30), <1>1, <1>7, <1>12, ProvedForm, QualityAssumption DEF after, Backed
  <2> QED BY <1>1, <1>12, <2>1, ProvedForm DEF after, Backed
<1>13. CASE after = Counted(g) /\ ~(gate.streak + 1 >= RecoveryWindows) /\ Held(gate) /\ status = "healthy"
  <2>1. gate.streak + 1 <= n
    BY SMT, SMTT(30), <1>1, <1>7, <1>13, CountedForm, QualityAssumption DEF after, Backed
  <2> QED BY SMT, SMTT(30), <1>1, <1>13, <2>1, CountedForm DEF after, Backed
<1> QED BY Zenon, <1>6, <1>8, <1>9, <1>10, <1>11, <1>12, <1>13 DEF after

LEMMA AdvanceKeeps ==
  ASSUME QualityInv, Advance
  PROVE  QualityInv'
<1> DEFINE end == hour + 1
           items == InWindow(end)
           status == Evaluate(items, end)
           fresh == OfClass(items \ everSeen, {"valid"})
           refs == {observed[e].ref : e \in items}
<1>1. /\ gate' = IF NewEvidence(items) # {} \/ status # "healthy"
                 THEN GateAdvance(status, refs, end) ELSE [gate EXCEPT !.lastEnd = end]
      /\ evaluated' = evaluated \cup items
      /\ everSeen' = everSeen \cup items
      /\ proofs' = IF gate'.status = "quarantined" THEN 0
                   ELSE IF status = "healthy" /\ fresh # {} /\ proofs < RecoveryWindows
                   THEN proofs + 1 ELSE proofs
      /\ UNCHANGED <<hour, observed, kept>>
  BY DEF Advance
<1>2. items \subseteq kept /\ \A e \in items : hour + 1 - WindowLength <= observed[e].at
  <2>1. items = {e \in kept : end - WindowLength <= observed[e].at /\ observed[e].at < end}
    BY DEF InWindow
  <2>2. hour \in Int /\ WindowLength \in Int
    BY QualityAssumption DEF QualityInv
  <2> HIDE DEF items
  <2> QED BY <2>1, <2>2
<1>3. NewEvidence(items) = fresh
  <2>1. ASSUME NEW e \in items, e \in everSeen
        PROVE  e \in evaluated
    <3>1. observed[e].at \in Int /\ hour \in Int /\ WindowLength \in Int
      BY <2>1, QualityAssumption DEF QualityInv
    <3>2. hour + 1 - WindowLength <= observed[e].at
      BY <1>2, <2>1
    <3>3. ~(observed[e].at < hour - WindowLength)
      BY <3>1, <3>2
    <3> QED BY <2>1, <3>3 DEF QualityInv
  <2>2. items \ evaluated = items \ everSeen
    BY <2>1 DEF QualityInv
  <2> QED BY <2>2 DEF NewEvidence
<1>4. status \in {"quarantined", "insufficient", "degraded", "healthy"}
  BY EvaluateKinds
<1>5. refs \in SUBSET (Facts \cup {0}) /\ end \in Int
  BY <1>2, QualityAssumption DEF QualityInv
<1> HIDE DEF status, refs, fresh, items, end
<1>6. gate' \in Gates /\ Backed(gate', proofs')
  <2>1. CASE NewEvidence(items) # {} \/ status # "healthy"
    <3>1. gate' = GateAdvance(status, refs, end)
      BY <1>1, <2>1
    <3>2. proofs' = IF GateAdvance(status, refs, end).status = "quarantined" THEN 0
                    ELSE IF status = "healthy" /\ proofs < RecoveryWindows THEN proofs + 1 ELSE proofs
      BY Zenon, <1>1, <1>3, <2>1, <3>1
    <3> QED BY Zenon, <1>4, <1>5, <3>1, <3>2, GateBacked DEF QualityInv
  <2>2. CASE ~(NewEvidence(items) # {} \/ status # "healthy")
    <3>1. gate' = [gate EXCEPT !.lastEnd = end]
      BY <1>1, <2>2
    <3>2. /\ gate' \in Gates /\ gate'.status = gate.status /\ gate'.streak = gate.streak
          /\ (Held(gate') <=> Held(gate))
      BY <1>5, <3>1 DEF Gates, QualityInv, Held
    <3>3. proofs' = IF gate.status = "quarantined" THEN 0 ELSE proofs
      BY Zenon, <1>1, <1>3, <2>2, <3>2
    <3>4. Backed(gate', proofs')
      BY <3>2, <3>3 DEF QualityInv, Backed
    <3> QED BY <3>2, <3>4
  <2> QED BY <2>1, <2>2
<1>7. proofs' \in 0 .. RecoveryWindows
  BY <1>1, QualityAssumption DEF QualityInv
<1>8. /\ everSeen' \subseteq Evidences /\ evaluated' \subseteq everSeen'
      /\ \A e \in kept' \cup everSeen' : observed'[e] # Unobserved
      /\ \A e \in everSeen' \ evaluated' : observed'[e].at < hour' - WindowLength
  BY <1>1, <1>2 DEF QualityInv
<1> QED BY <1>1, <1>6, <1>7, <1>8 DEF QualityInv

LEMMA QualityStep ==
  ASSUME QualityInv, [QualityNext]_qualityVars
  PROVE  QualityInv'
<1>1. CASE UNCHANGED qualityVars
  BY <1>1 DEF qualityVars, QualityInv
<1> QED BY Zenon, <1>1, HourPassesKeeps, AdvanceKeeps, RedeliverKeeps, ObserveKeeps DEF QualityNext

LEMMA QualityMeans == QualityInv => QualityTypeOK /\ RecoveryEarned
<1> SUFFICES ASSUME QualityInv PROVE QualityTypeOK /\ RecoveryEarned
  OBVIOUS
<1>1. gate.status \in Statuses /\ gate.streak \in 0 .. RecoveryWindows /\ evaluated \subseteq Evidences
  BY DEF QualityInv, Gates
<1>2. gate.status = "healthy" => proofs >= RecoveryWindows
  BY QualityAssumption DEF QualityInv, Backed, Gates
<1> QED BY <1>1, <1>2 DEF QualityTypeOK, RecoveryEarned, QualityInv, Statuses

-----------------------------------------------------------------------------

IsEntry(e) == e = [fact |-> e.fact, until |-> e.until, used |-> e.used] /\ e.used \in Nat

\* A table of the cache: within its capacity, of the requests there are.
Table(t) ==
  /\ DOMAIN t \subseteq Asked
  /\ Cardinality(DOMAIN t) <= CacheCapacity
  /\ \A k \in DOMAIN t : IsEntry(t[k])

LEMMA KeysFinite ==
  ASSUME NEW keys, keys \subseteq Asked
  PROVE  IsFiniteSet(keys) /\ Cardinality(keys) \in Nat
BY Zenon, RouterAssumption, FS_Subset, FS_CardinalityType DEF Asked, Upstream

LEMMA OnlyEntries ==
  ASSUME Table(cached), NEW keys, keys \subseteq DOMAIN cached
  PROVE  /\ DOMAIN Only(keys) = keys
         /\ \A k \in keys : IsEntry(Only(keys)[k])
<1> SUFFICES ASSUME NEW k \in keys PROVE IsEntry(Only(keys)[k])
  BY DEF Only
<1> DEFINE lower == {j \in keys : cached[j].used < cached[k].used}
<1>1. Cardinality(lower) \in Nat
  BY KeysFinite DEF Table
<1>2. Only(keys)[k] = [cached[k] EXCEPT !.used = Cardinality(lower)]
  BY DEF Only
<1> HIDE DEF lower
<1>3. cached[k] = [fact |-> cached[k].fact, until |-> cached[k].until, used |-> cached[k].used]
  BY DEF Table, IsEntry
<1>4. Only(keys)[k] = [fact |-> cached[k].fact, until |-> cached[k].until, used |-> Cardinality(lower)]
  BY <1>2, <1>3
<1> QED BY <1>1, <1>4 DEF IsEntry

LEMMA DeleteKeeps ==
  ASSUME Table(cached), NEW key
  PROVE  Table(Delete(key))
<1>1. /\ IsFiniteSet(DOMAIN cached) /\ Cardinality(DOMAIN cached) \in Nat
      /\ Cardinality(DOMAIN cached \ {key}) \in Nat
      /\ Cardinality(DOMAIN cached \ {key}) <= Cardinality(DOMAIN cached)
  BY KeysFinite, FS_Subset DEF Table
<1>2. DOMAIN Delete(key) = DOMAIN cached \ {key} /\ \A k \in DOMAIN cached \ {key} : IsEntry(Delete(key)[k])
  BY OnlyEntries DEF Delete
<1> QED BY <1>1, <1>2, RouterAssumption DEF Table

LEMMA InsertKeeps ==
  ASSUME Table(cached), NEW keys, keys \subseteq DOMAIN cached, NEW key \in Asked, key \notin keys,
         Cardinality(keys) < CacheCapacity, NEW fact, NEW until
  PROVE  Table(Insert(keys, key, fact, until))
<1>1. IsFiniteSet(keys) /\ Cardinality(keys) \in Nat
  BY KeysFinite DEF Table
<1>2. Cardinality(keys \cup {key}) <= CacheCapacity
  <2>1. Cardinality(keys \cup {key}) = Cardinality(keys) + 1
    BY Zenon, <1>1, FS_AddElement
  <2> QED BY SMT, SMTT(30), <1>1, <2>1, RouterAssumption
<1>3. DOMAIN Insert(keys, key, fact, until) = keys \cup {key}
  BY DEF Insert
<1>4. ASSUME NEW k \in keys \cup {key}
      PROVE  IsEntry(Insert(keys, key, fact, until)[k])
  <2>1. CASE k = key
    <3>1. Insert(keys, key, fact, until)[k] = [fact |-> fact, until |-> until, used |-> Cardinality(keys)]
      BY <2>1 DEF Insert
    <3> QED BY <1>1, <3>1 DEF IsEntry
  <2>2. CASE k # key
    <3>1. Insert(keys, key, fact, until)[k] = Only(keys)[k] /\ k \in keys
      BY <2>2 DEF Insert
    <3> QED BY <3>1, OnlyEntries
  <2> QED BY <2>1, <2>2
<1> QED BY Zenon, <1>2, <1>3, <1>4 DEF Table

LEMMA GetKeeps ==
  ASSUME Table(cached), NEW key \in Asked
  PROVE  Table(Get(key))
<1>1. CASE key \in DOMAIN cached /\ Live(key)
  <2> DEFINE rest == DOMAIN cached \ {key}
  <2>1. IsFiniteSet(DOMAIN cached) /\ Cardinality(DOMAIN cached) \in Nat
    BY KeysFinite DEF Table
  <2>2. Cardinality(rest) = Cardinality(DOMAIN cached) - 1
    BY Zenon, <1>1, <2>1, FS_RemoveElement
  <2>3. Cardinality(rest) < CacheCapacity
    BY <2>1, <2>2, RouterAssumption DEF Table
  <2> QED BY <1>1, <2>3, InsertKeeps DEF Get
<1> QED BY <1>1, DeleteKeeps DEF Get

\* A set of entries that is not empty has one used least recently.
LEMMA VictimIn ==
  ASSUME Table(cached), NEW keys, keys \subseteq DOMAIN cached, keys # {}
  PROVE  Victim(keys) \in keys
<1> DEFINE ranks == {cached[k].used : k \in keys}
<1>1. ranks # {} /\ ranks \subseteq Nat
  BY DEF Table, IsEntry
<1>2. PICK least \in ranks : \A r \in ranks : least <= r
  BY Zenon, <1>1, LeastNatural
<1>3. \E k \in keys : \A j \in keys : cached[k].used <= cached[j].used
  BY <1>2
<1> QED BY <1>3 DEF Victim

-----------------------------------------------------------------------------

Fallbacks == [provider: Upstream, kind: {"rate_limit", "unavailable"}, hit: {FALSE}]

IsCall(k) == k = [x \in {"at", "key", "next", "trace", "fact", "until", "hit", "when"} |-> k[x]]

\* A dispatch has so far only had attempts that allow a fallback; the answer it
\* has is one its consumer accepts.
Sound(k) ==
  /\ IsCall(k)
  /\ k.at \in {"idle", "hit", "asking", "fetching", "storing", "answered"}
  /\ k.at # "idle" => k.key \in Asked
  /\ k.at \in {"asking", "fetching"} =>
       /\ k.trace \in Seq(Fallbacks) /\ k.hit = FALSE /\ k.next \in Nat \ {0}
       /\ k.at = "fetching" => k.next <= Len(Upstreams)
  /\ k.at \in {"storing", "answered"} => NormalizeDispatch(k, k.when)

RouterInv ==
  /\ second \in 0 .. LastSecond
  /\ blockedUntil \in [Upstream -> 0 .. LastSecond + 2]
  /\ Table(cached)
  /\ DOMAIN call = Callers
  /\ \A c \in Callers : Sound(call[c])

LEMMA NoCallSound == Sound(NoCall)
BY DEF Sound, NoCall, IsCall

LEMMA RouterStarts == RouterInit => RouterInv
<1> SUFFICES ASSUME RouterInit PROVE RouterInv
  OBVIOUS
<1>1. Table(cached)
  <2>1. DOMAIN cached = {} /\ Cardinality({}) = 0
    BY FS_EmptySet DEF RouterInit
  <2> QED BY <2>1, RouterAssumption DEF Table
<1>2. blockedUntil \in [Upstream -> 0 .. LastSecond + 2] /\ second \in 0 .. LastSecond
  BY RouterAssumption DEF RouterInit
<1> QED BY <1>1, <1>2, NoCallSound DEF RouterInit, RouterInv

\* One dispatch moves to a sound state and the rest stays.
LEMMA PutKeeps ==
  ASSUME RouterInv, NEW c \in Callers, NEW k, Put(c, k), Sound(k),
         Table(cached'), second' = second, blockedUntil' \in [Upstream -> 0 .. LastSecond + 2]
  PROVE  RouterInv'
BY DEF RouterInv, Put

\* The forms a dispatch takes, with the fields it sets.
Hit(k, key, fact) == [k EXCEPT !.at = "hit", !.key = key, !.fact = fact]
Asking(k, key) == [k EXCEPT !.at = "asking", !.key = key, !.next = 1]
Served(k, trace, hit, now) == [k EXCEPT !.at = "answered", !.trace = trace, !.hit = hit, !.when = now]
Skipped(k, next) == [k EXCEPT !.next = next]
Limited(k, next, trace) == [k EXCEPT !.next = next, !.trace = trace]
Fetching(k) == [k EXCEPT !.at = "fetching"]
Fetched(k, trace, fact, at, until, now) ==
  [k EXCEPT !.trace = trace, !.fact = fact, !.at = at, !.until = until, !.when = now]
FellBack(k, next, trace) == [k EXCEPT !.at = "asking", !.next = next, !.trace = trace]
Answered(k) == [k EXCEPT !.at = "answered"]

LEMMA HitForm ==
  ASSUME NEW k, IsCall(k), NEW key, NEW fact
  PROVE  LET a == Hit(k, key, fact) IN IsCall(a) /\ a.at = "hit" /\ a.key = key
BY Zenon DEF IsCall, Hit

LEMMA AskingForm ==
  ASSUME NEW k, IsCall(k), NEW key
  PROVE  LET a == Asking(k, key)
         IN /\ IsCall(a) /\ a.at = "asking" /\ a.key = key /\ a.next = 1
            /\ a.trace = k.trace /\ a.hit = k.hit
BY Zenon DEF IsCall, Asking

LEMMA ServedForm ==
  ASSUME NEW k, IsCall(k), NEW trace, NEW hit, NEW now
  PROVE  LET a == Served(k, trace, hit, now)
         IN /\ IsCall(a) /\ a.at = "answered" /\ a.key = k.key /\ a.trace = trace /\ a.fact = k.fact
            /\ a.hit = hit /\ a.when = now
BY Zenon DEF IsCall, Served

LEMMA SkippedForm ==
  ASSUME NEW k, IsCall(k), NEW next
  PROVE  LET a == Skipped(k, next)
         IN /\ IsCall(a) /\ a.at = k.at /\ a.key = k.key /\ a.next = next
            /\ a.trace = k.trace /\ a.hit = k.hit
BY DEF IsCall, Skipped

LEMMA LimitedForm ==
  ASSUME NEW k, IsCall(k), NEW next, NEW trace
  PROVE  LET a == Limited(k, next, trace)
         IN /\ IsCall(a) /\ a.at = k.at /\ a.key = k.key /\ a.next = next
            /\ a.trace = trace /\ a.hit = k.hit
BY Zenon DEF IsCall, Limited

LEMMA FetchingForm ==
  ASSUME NEW k, IsCall(k)
  PROVE  LET a == Fetching(k)
         IN /\ IsCall(a) /\ a.at = "fetching" /\ a.key = k.key /\ a.next = k.next
            /\ a.trace = k.trace /\ a.hit = k.hit
BY DEF IsCall, Fetching

LEMMA FetchedForm ==
  ASSUME NEW k, IsCall(k), NEW trace, NEW fact, NEW at, NEW until, NEW now
  PROVE  LET a == Fetched(k, trace, fact, at, until, now)
         IN /\ IsCall(a) /\ a.at = at /\ a.key = k.key /\ a.trace = trace /\ a.fact = fact
            /\ a.hit = k.hit /\ a.when = now
BY Zenon DEF IsCall, Fetched

LEMMA FellBackForm ==
  ASSUME NEW k, IsCall(k), NEW next, NEW trace
  PROVE  LET a == FellBack(k, next, trace)
         IN /\ IsCall(a) /\ a.at = "asking" /\ a.key = k.key /\ a.next = next
            /\ a.trace = trace /\ a.hit = k.hit
BY Zenon DEF IsCall, FellBack

LEMMA AnsweredForm ==
  ASSUME NEW k, IsCall(k)
  PROVE  LET a == Answered(k)
         IN /\ IsCall(a) /\ a.at = "answered" /\ a.key = k.key /\ a.trace = k.trace /\ a.fact = k.fact
            /\ a.hit = k.hit /\ a.when = k.when
BY DEF IsCall, Answered

LEMMA DispatchKeeps ==
  ASSUME RouterInv, NEW c \in Callers, NEW key \in Asked, Dispatch(c, key)
  PROVE  RouterInv'
<1> DEFINE a == Hit(NoCall, key, cached[key].fact)
           b == Asking(NoCall, key)
<1>1. IsCall(NoCall) /\ NoCall.trace = <<>> /\ NoCall.hit = FALSE
  BY NoCallSound DEF Sound, NoCall
<1>2. IsCall(a) /\ a.at = "hit" /\ a.key = key
  BY <1>1, HitForm
<1>3. <<>> \in Seq(Fallbacks)
  OBVIOUS
<1>4. IsCall(b) /\ b.at = "asking" /\ b.key = key /\ b.next = 1 /\ b.trace = <<>> /\ b.hit = FALSE
  BY <1>1, AskingForm
<1>5. Table(cached')
  BY GetKeeps DEF Dispatch, RouterInv
<1>6. Put(c, a) \/ Put(c, b)
  BY Zenon DEF Dispatch, Hit, Asking
<1> HIDE DEF a, b
<1>7. Sound(a)
  BY <1>2 DEF Sound
<1>8. Sound(b)
  BY <1>3, <1>4 DEF Sound
<1> QED BY Zenon, <1>5, <1>6, <1>7, <1>8, PutKeeps DEF Dispatch, RouterInv

\* What passes normalizeRoutedResponse is the provider's own, of the capability
\* asked for, and without an error of its own.
LEMMA RoutedIs ==
  ASSUME NEW p, NEW key, NEW fact, NEW t, normalizeRoutedResponse(p, key, fact, t) = "none"
  PROVE  fact.source = p /\ FactError(fact, t) = "none"
BY DEF normalizeRoutedResponse

LEMMA UseCachedKeeps ==
  ASSUME RouterInv, NEW c \in Callers, UseCached(c)
  PROVE  RouterInv'
<1> DEFINE k == call[c]
           p == k.fact.source
           hit == TRUE
           last == Attempt(p, "none", hit)
           trace == <<last>>
           a == Served(k, trace, hit, second)
<1>1. Sound(k) /\ k.at = "hit" /\ IsCall(k)
  BY DEF RouterInv, UseCached, Sound
<1>4. \/ Put(c, NoCall) /\ cached' = Delete(k.key)
      \/ /\ Put(c, a) /\ UNCHANGED cached
         /\ normalizeRoutedResponse(p, k.key, k.fact, second) = "none"
  BY DEF UseCached, Served
<1> HIDE DEF hit, a
<1>2. CASE Put(c, NoCall) /\ cached' = Delete(k.key)
  BY Zenon, <1>2, NoCallSound, DeleteKeeps, PutKeeps DEF UseCached, RouterInv
<1>3. CASE /\ Put(c, a) /\ UNCHANGED cached
           /\ normalizeRoutedResponse(p, k.key, k.fact, second) = "none"
  <2>1. FactError(k.fact, second) = "none"
    BY <1>3, RoutedIs
  <2> HIDE DEF last
  <2>2. trace # <<>> /\ trace[Len(trace)] = last /\ Len(trace) = 1
    OBVIOUS
  <2> HIDE DEF trace
  <2>3. /\ IsCall(a) /\ a.at = "answered" /\ a.key = k.key /\ a.trace = trace /\ a.fact = k.fact
        /\ a.hit = hit /\ a.when = second
    BY SMT, SMTT(30), <1>1, ServedForm DEF a
  <2>4. NormalizeDispatch(a, a.when)
    <3>1. last = Attempt(a.fact.source, "none", a.hit)
      BY <2>3 DEF last
    <3>2. Len(a.trace) = 1
      BY Zenon, <2>2, <2>3
    <3>3. 1 .. Len(a.trace) - 1 = {}
      BY <3>2
    <3>4. /\ a.trace # <<>>
          /\ a.trace[Len(a.trace)] = Attempt(a.fact.source, "none", a.hit)
      BY Zenon, <2>2, <2>3, <3>1
    <3>5. \A i \in 1 .. Len(a.trace) - 1 : ~a.trace[i].hit /\ FallbackEligible(a.trace[i].kind)
      BY Zenon, <3>3
    <3>6. FactError(a.fact, a.when) = "none"
      BY Zenon, <2>1, <2>3
    <3> QED BY Zenon, <3>4, <3>5, <3>6 DEF NormalizeDispatch
  <2>5. k.key \in Asked
    BY <1>1 DEF Sound
  <2>6. Sound(a)
    BY Zenon, <2>3, <2>4, <2>5 DEF Sound
  <2> QED BY Zenon, <1>3, <2>6, PutKeeps DEF UseCached, RouterInv
<1> QED BY Zenon, <1>2, <1>3, <1>4

LEMMA AttemptFallback ==
  ASSUME NEW i \in 1 .. Len(Upstreams), NEW kind \in {"rate_limit", "unavailable"}
  PROVE  Upstreams[i] \in Upstream /\ Attempt(Upstreams[i], kind, FALSE) \in Fallbacks
<1>1. Upstreams[i] \in Upstream
  BY SMT, SMTT(30), RouterAssumption DEF Upstream, Range
<1> QED BY <1>1 DEF Fallbacks, Attempt

LEMMA AskNextKeeps ==
  ASSUME RouterInv, NEW c \in Callers, AskNext(c)
  PROVE  RouterInv'
<1> DEFINE k == call[c]
           p == Upstreams[k.next]
           last == Attempt(p, "rate_limit", FALSE)
           trace == Append(k.trace, last)
           a == Skipped(k, k.next + 1)
           b == Limited(k, k.next + 1, trace)
           f == Fetching(k)
<1>1. /\ IsCall(k) /\ k.at = "asking" /\ k.key \in Asked /\ k.trace \in Seq(Fallbacks)
      /\ k.hit = FALSE /\ k.next \in Nat \ {0}
  BY DEF RouterInv, AskNext, Sound
<1>2. CASE Put(c, NoCall)
  BY <1>2, NoCallSound, PutKeeps DEF AskNext, RouterInv
<1>3. CASE Put(c, a)
  <2>1. Sound(a)
    <3>1. /\ IsCall(a) /\ a.at = k.at /\ a.key = k.key /\ a.next = k.next + 1
          /\ a.trace = k.trace /\ a.hit = k.hit
      BY <1>1, SkippedForm
    <3> HIDE DEF a
    <3> QED BY SMT, SMTT(30), <1>1, <3>1 DEF Sound
  <2> QED BY Zenon, <1>3, <2>1, PutKeeps DEF AskNext, RouterInv
<1>4. CASE Put(c, b) /\ k.next <= Len(Upstreams)
  <2>1. trace \in Seq(Fallbacks)
    <3>1. k.next \in 1 .. Len(Upstreams)
      BY SMT, SMTT(30), <1>1, <1>4, RouterAssumption
    <3>2. last \in Fallbacks
      BY Zenon, <3>1, AttemptFallback
    <3> HIDE DEF last
    <3> QED BY SMT, SMTT(30), <1>1, <3>2
  <2> HIDE DEF trace
  <2>2. Sound(b)
    <3>1. /\ IsCall(b) /\ b.at = k.at /\ b.key = k.key /\ b.next = k.next + 1
          /\ b.trace = trace /\ b.hit = k.hit
      BY SMT, SMTT(30), <1>1, LimitedForm
    <3> HIDE DEF b
    <3> QED BY SMT, SMTT(30), <1>1, <2>1, <3>1 DEF Sound
  <2> QED BY Zenon, <1>4, <2>2, PutKeeps DEF AskNext, RouterInv
<1>5. CASE Put(c, f) /\ k.next <= Len(Upstreams)
  <2>1. Sound(f)
    <3>1. /\ IsCall(f) /\ f.at = "fetching" /\ f.key = k.key /\ f.next = k.next
          /\ f.trace = k.trace /\ f.hit = k.hit
      BY Zenon, <1>1, FetchingForm
    <3> HIDE DEF f
    <3> QED BY Zenon, <1>1, <1>5, <3>1 DEF Sound
  <2> QED BY Zenon, <1>5, <2>1, PutKeeps DEF AskNext, RouterInv
<1>6. k.next > Len(Upstreams) \/ k.next <= Len(Upstreams)
  BY SMT, SMTT(30), <1>1, RouterAssumption
<1>7. \/ Put(c, NoCall) \/ Put(c, a)
      \/ k.next <= Len(Upstreams) /\ Put(c, b)
      \/ k.next <= Len(Upstreams) /\ Put(c, f)
  <2>1. IsCall(k) => /\ [k EXCEPT !.next = k.next + 1] = a
                     /\ [k EXCEPT !.next = k.next + 1, !.trace = trace] = b
                     /\ [k EXCEPT !.at = "fetching"] = f
    BY DEF Skipped, Limited, Fetching
  <2> QED BY Zenon, <1>1, <1>6, <2>1 DEF AskNext
<1> QED BY Zenon, <1>2, <1>3, <1>4, <1>5, <1>7

LEMMA FetchedFactKeeps ==
  ASSUME RouterInv, NEW c \in Callers, NEW fact, FetchedFact(c, fact)
  PROVE  RouterInv'
<1> DEFINE k == call[c]
           p == Upstreams[k.next]
           last == Attempt(p, "none", FALSE)
           trace == Append(k.trace, last)
           life == LET left == fact.observed + FactLife - second
                   IN IF left < CacheLife THEN left ELSE CacheLife
           at == IF life > 0 THEN "storing" ELSE "answered"
           a == Fetched(k, trace, fact, at, second + life, second)
<1>1. /\ IsCall(k) /\ k.at = "fetching" /\ k.key \in Asked /\ k.trace \in Seq(Fallbacks)
      /\ k.hit = FALSE
  BY DEF RouterInv, FetchedFact, Sound
<1>4. \/ Put(c, NoCall)
      \/ Put(c, a) /\ normalizeRoutedResponse(p, k.key, fact, second) = "none"
  BY DEF FetchedFact, Fetched
<1> HIDE DEF last, a
<1>2. CASE Put(c, NoCall)
  BY Zenon, <1>2, NoCallSound, PutKeeps DEF FetchedFact, RouterInv
<1>3. CASE Put(c, a) /\ normalizeRoutedResponse(p, k.key, fact, second) = "none"
  <2>1. fact.source = p /\ FactError(fact, second) = "none"
    BY SMT, SMTT(30), <1>3, RoutedIs
  <2>2. trace # <<>> /\ trace[Len(trace)] = last /\ Len(trace) = Len(k.trace) + 1
    BY <1>1
  <2>3. ASSUME NEW i \in 1 .. Len(trace) - 1
        PROVE  trace[i] \in Fallbacks
    <3>1. i \in 1 .. Len(k.trace) /\ trace[i] = k.trace[i]
      BY <1>1, <2>2
    <3> QED BY SMT, SMTT(30), <1>1, <3>1
  <2>4. \A x \in Fallbacks : ~x.hit /\ FallbackEligible(x.kind)
    BY Zenon DEF Fallbacks, FallbackEligible
  <2>5. at \in {"storing", "answered"}
    OBVIOUS
  <2>6. last = Attempt(fact.source, "none", k.hit)
    BY Zenon, <1>1, <2>1 DEF last
  <2> HIDE DEF trace, at
  <2>7. /\ IsCall(a) /\ a.at = at /\ a.key = k.key /\ a.trace = trace /\ a.fact = fact
        /\ a.hit = k.hit /\ a.when = second
    BY <1>1, FetchedForm DEF a
  <2>8. NormalizeDispatch(a, a.when)
    BY Zenon, <2>1, <2>2, <2>3, <2>4, <2>6, <2>7 DEF NormalizeDispatch
  <2>9. Sound(a)
    BY Zenon, <1>1, <2>5, <2>7, <2>8 DEF Sound
  <2> QED BY Zenon, <1>3, <2>9, PutKeeps DEF FetchedFact, RouterInv
<1> QED BY Zenon, <1>2, <1>3, <1>4

LEMMA FetchFailedKeeps ==
  ASSUME RouterInv, NEW c \in Callers, NEW kind \in {"rate_limit", "unavailable", "bad_payload"},
         NEW retryAfter \in 0 .. 2, FetchFailed(c, kind, retryAfter)
  PROVE  RouterInv'
<1> DEFINE k == call[c]
           p == Upstreams[k.next]
           last == Attempt(p, kind, FALSE)
           trace == Append(k.trace, last)
           a == FellBack(k, k.next + 1, trace)
<1>1. /\ IsCall(k) /\ k.at = "fetching" /\ k.key \in Asked /\ k.trace \in Seq(Fallbacks)
      /\ k.hit = FALSE /\ k.next \in Nat \ {0} /\ k.next <= Len(Upstreams)
  BY DEF RouterInv, FetchFailed, Sound
<1>2. \/ Put(c, NoCall)
      \/ Put(c, a) /\ kind \in {"rate_limit", "unavailable"}
  BY DEF FetchFailed, FellBack, FallbackEligible
<1>3. blockedUntil' \in [Upstream -> 0 .. LastSecond + 2]
  <2>1. CASE blockedUntil' = blockedUntil
    BY <2>1 DEF RouterInv
  <2>2. CASE blockedUntil' = [blockedUntil EXCEPT ![p] = block(p, retryAfter)]
    <3>1. p \in Upstream => block(p, retryAfter) \in 0 .. LastSecond + 2
      <4>1. p \in Upstream => blockedUntil[p] \in 0 .. LastSecond + 2
        BY DEF RouterInv
      <4>2. second + retryAfter \in 0 .. LastSecond + 2
        BY RouterAssumption DEF RouterInv
      <4> QED BY Zenon, <4>1, <4>2 DEF block
    <3> HIDE DEF p
    <3> QED BY Zenon, <2>2, <3>1 DEF RouterInv
  <2> QED BY Zenon, <2>1, <2>2 DEF FetchFailed
<1> HIDE DEF last, a
<1>4. CASE Put(c, NoCall)
  BY Zenon, <1>3, <1>4, NoCallSound, PutKeeps DEF FetchFailed, RouterInv
<1>5. CASE Put(c, a) /\ kind \in {"rate_limit", "unavailable"}
  <2>1. k.next \in 1 .. Len(Upstreams)
    BY SMT, SMTT(30), <1>1, RouterAssumption
  <2>2. last \in Fallbacks
    BY Zenon, <1>5, <2>1, AttemptFallback DEF last
  <2>3. trace \in Seq(Fallbacks)
    BY SMT, SMTT(30), <1>1, <2>2
  <2> HIDE DEF trace
  <2>4. /\ IsCall(a) /\ a.at = "asking" /\ a.key = k.key /\ a.next = k.next + 1
        /\ a.trace = trace /\ a.hit = k.hit
    BY SMT, SMTT(30), <1>1, FellBackForm DEF a
  <2>5. Sound(a)
    BY SMT, SMTT(30), <1>1, <2>3, <2>4 DEF Sound
  <2> QED BY Zenon, <1>3, <1>5, <2>5, PutKeeps DEF FetchFailed, RouterInv
<1> QED BY Zenon, <1>2, <1>4, <1>5

\* One entry comes in, and one goes when the cache is full.
LEMMA putUntilKeeps ==
  ASSUME RouterInv, NEW c \in Callers, putUntil(c)
  PROVE  RouterInv'
<1> DEFINE k == call[c]
           live == {key \in DOMAIN cached \ {k.key} : Live(key)}
           stay == IF Cardinality(live) < CacheCapacity THEN live ELSE live \ {Victim(live)}
           a == Answered(k)
<1>1. IsCall(k) /\ k.at = "storing" /\ k.key \in Asked /\ NormalizeDispatch(k, k.when)
  BY DEF RouterInv, putUntil, Sound
<1>2. Put(c, a)
  BY DEF putUntil, Answered
<1>3. /\ IsCall(a) /\ a.at = "answered" /\ a.key = k.key /\ a.trace = k.trace /\ a.fact = k.fact
      /\ a.hit = k.hit /\ a.when = k.when
  BY <1>1, AnsweredForm
<1> HIDE DEF a
<1>4. Sound(a)
  BY Zenon, <1>1, <1>3 DEF Sound, NormalizeDispatch
<1>5. Table(cached')
  <2>1. CASE cached' = Delete(k.key)
    BY Zenon, <2>1, DeleteKeeps DEF RouterInv
  <2>2. CASE cached' = Insert(stay, k.key, k.fact, k.until) /\ CacheCapacity # 0
    <3>1. /\ live \subseteq DOMAIN cached /\ k.key \notin live /\ Table(cached)
          /\ IsFiniteSet(live) /\ IsFiniteSet(DOMAIN cached)
          /\ Cardinality(live) \in Nat /\ Cardinality(DOMAIN cached) \in Nat
      BY Zenon, KeysFinite DEF RouterInv, Table
    <3>2. Cardinality(live) <= CacheCapacity
      <4>1. Cardinality(live) <= Cardinality(DOMAIN cached)
        BY Zenon, <3>1, FS_Subset
      <4> QED BY SMT, SMTT(30), <3>1, <4>1, RouterAssumption DEF Table
    <3> HIDE DEF live
    <3>3. Cardinality(stay) < CacheCapacity /\ stay \subseteq live
      <4>1. CASE Cardinality(live) < CacheCapacity
        BY <4>1
      <4>2. CASE ~(Cardinality(live) < CacheCapacity)
        <5>1. Cardinality(live) = CacheCapacity /\ CacheCapacity \in Nat
          BY SMT, SMTT(30), <3>1, <3>2, <4>2, RouterAssumption
        <5>2. live # {}
          BY Zenon, <2>2, <5>1, FS_EmptySet
        <5>3. Victim(live) \in live
          BY Zenon, <3>1, <5>2, VictimIn
        <5>4. stay = live \ {Victim(live)}
          BY <4>2
        <5>5. Cardinality(stay) = Cardinality(live) - 1
          BY Zenon, <3>1, <5>3, <5>4, FS_RemoveElement
        <5> QED BY SMT, SMTT(30), <5>1, <5>4, <5>5
      <4> QED BY <4>1, <4>2
    <3> HIDE DEF stay
    <3> QED BY Zenon, <1>1, <2>2, <3>1, <3>3, InsertKeeps
  <2> QED BY Zenon, <2>1, <2>2 DEF putUntil
<1> QED BY Zenon, <1>2, <1>4, <1>5, PutKeeps DEF putUntil, RouterInv

LEMMA RouterStep ==
  ASSUME RouterInv, [RouterNext]_routerVars
  PROVE  RouterInv'
<1>1. CASE UNCHANGED routerVars
  BY <1>1 DEF routerVars, RouterInv, Sound, Table
<1>2. CASE SecondPasses
  BY SMT, SMTT(30), <1>2, RouterAssumption DEF SecondPasses, RouterInv
<1>3. ASSUME NEW c \in Callers, Cancel(c)
      PROVE  RouterInv'
  BY Zenon, <1>3, NoCallSound, PutKeeps DEF Cancel, RouterInv
<1>4. ASSUME NEW c \in Callers, \/ \E kind \in {"unavailable", "bad_payload"} : FetchFailed(c, kind, 0)
                                \/ \E retryAfter \in 0 .. 2 : FetchFailed(c, "rate_limit", retryAfter)
      PROVE  RouterInv'
  BY <1>4, FetchFailedKeeps
<1>5. ASSUME NEW c \in Callers, \/ \E key \in Asked : Dispatch(c, key)
                                \/ UseCached(c) \/ AskNext(c) \/ putUntil(c)
      PROVE  RouterInv'
  BY Zenon, <1>5, DispatchKeeps, UseCachedKeeps, AskNextKeeps, putUntilKeeps
<1>6. ASSUME NEW c \in Callers, NEW fact, FetchedFact(c, fact)
      PROVE  RouterInv'
  BY Zenon, <1>6, FetchedFactKeeps
<1> QED BY Zenon, <1>1, <1>2, <1>3, <1>4, <1>5, <1>6 DEF RouterNext

LEMMA RouterMeans == RouterInv => RouterTypeOK /\ ConsumerAccepts
BY DEF RouterInv, RouterTypeOK, ConsumerAccepts, Sound, Table

\* The rate-limit windows of the provider router.
Windows == second \in Nat /\ blockedUntil \in [Upstream -> Nat]

Wider == \A p \in Upstream : second < blockedUntil[p] => blockedUntil'[p] >= blockedUntil[p]

LEMMA FailureWidens ==
  ASSUME Windows, NEW c, NEW kind, NEW retryAfter \in Nat, FetchFailed(c, kind, retryAfter)
  PROVE  Windows' /\ Wider
<1> DEFINE p == Upstreams[call[c].next]
<1>1. second' = second
  BY DEF FetchFailed
<1>2. CASE blockedUntil' = blockedUntil
  BY SMT, SMTT(30), <1>1, <1>2 DEF Windows, Wider
<1>3. CASE blockedUntil' = [blockedUntil EXCEPT ![p] = block(p, retryAfter)]
  <2>1. p \in Upstream => block(p, retryAfter) \in Nat /\ block(p, retryAfter) >= blockedUntil[p]
    BY DEF Windows, block
  <2> HIDE DEF p
  <2>2. blockedUntil' \in [Upstream -> Nat]
    BY Zenon, <1>3, <2>1 DEF Windows
  <2>3. \A q \in Upstream : blockedUntil'[q] >= blockedUntil[q]
    BY <1>3, <2>1 DEF Windows
  <2> QED BY Zenon, <1>1, <2>2, <2>3 DEF Windows, Wider
<1> QED BY Zenon, <1>2, <1>3 DEF FetchFailed

LEMMA RouterWidens ==
  ASSUME Windows, [RouterNext]_routerVars
  PROVE  Windows' /\ Wider
<1>1. CASE UNCHANGED <<second, blockedUntil>>
  BY <1>1 DEF Windows, Wider
<1>2. CASE SecondPasses
  BY <1>2 DEF Windows, Wider, SecondPasses
<1>3. CASE \E c \in Callers : \/ \E kind \in {"unavailable", "bad_payload"} : FetchFailed(c, kind, 0)
                              \/ \E retryAfter \in 0 .. 2 : FetchFailed(c, "rate_limit", retryAfter)
  BY <1>3, FailureWidens
<1>4. ASSUME NEW c \in Callers,
             \/ \E key \in Asked : Dispatch(c, key)
             \/ UseCached(c) \/ AskNext(c) \/ putUntil(c) \/ Cancel(c)
             \/ \E fact : FetchedFact(c, fact)
      PROVE  UNCHANGED <<second, blockedUntil>>
  BY Zenon, <1>4 DEF Dispatch, UseCached, AskNext, putUntil, Cancel, FetchedFact
<1> QED BY Zenon, <1>1, <1>2, <1>3, <1>4 DEF RouterNext, routerVars

LEMMA WindowsStart == RouterInit => Windows
BY DEF RouterInit, Windows

-----------------------------------------------------------------------------
(* Research signals *)

-----------------------------------------------------------------------------

\* The least element theorem, applied to the copies of one ID.
LEMMA FirstOfIs ==
  ASSUME NEW in, NEW n \in Nat, DOMAIN in = 1 .. n, NEW j \in 1 .. n
  PROVE  /\ FirstOf(in, in[j].id) \in 1 .. n
         /\ in[FirstOf(in, in[j].id)].id = in[j].id
<1> DEFINE T == {i \in 1 .. n : in[i].id = in[j].id}
<1>1. T \subseteq Nat /\ T # {}
  OBVIOUS
<1>2. PICK i \in T : \A y \in T : i <= y
  BY Zenon, <1>1, LeastNatural
<1>3. \A y \in 1 .. i - 1 : y \in 1 .. n /\ y < i
  OBVIOUS
<1>4. \A y \in 1 .. i - 1 : in[y].id # in[j].id
  BY <1>2, <1>3
<1>5. \E x \in DOMAIN in : in[x].id = in[j].id /\ \A y \in 1 .. x - 1 : in[y].id # in[j].id
  BY <1>2, <1>4
<1> QED BY Zenon, <1>5 DEF FirstOf

LEMMA ImageCount ==
  ASSUME NEW S, IsFiniteSet(S), NEW T, NEW f \in [S -> T], T = {f[x] : x \in S}
  PROVE  IsFiniteSet(T) /\ Cardinality(T) <= Cardinality(S)
<1>1. f \in Surjection(S, T)
  BY DEF Surjection
<1> QED BY <1>1, FS_Surjection

LEMMA DisjointCount ==
  ASSUME NEW S, NEW T, IsFiniteSet(S), IsFiniteSet(T), S \cap T = {}
  PROVE  /\ IsFiniteSet(S \cup T)
         /\ Cardinality(S \cup T) = Cardinality(S) + Cardinality(T)
         /\ Cardinality(S) \in Nat /\ Cardinality(T) \in Nat
BY FS_Union, FS_EmptySet, FS_CardinalityType

\* The items of a page divide into the ones published, their equal copies, the
\* first copies of conflicted IDs and, for each of those, one copy that differs.
LEMMA PageAccounted ==
  ASSUME NEW Items, \A a \in Items, b \in Items : a.id = b.id /\ a.hash = b.hash => a = b,
         NEW in \in Seq(Items), NEW p, p = normalizeEvents(in)
  PROVE  /\ Len(in) >= Cardinality(p.output) + p.duplicates + 2 * p.conflicts
         /\ \A item \in p.output : \A i \in DOMAIN in : in[i].id = item.id => in[i] = item
<1> DEFINE n == Len(in)
           I == 1 .. n
           first(j) == FirstOf(in, in[j].id)
           C == conflicted(in)
           out == {in[FirstOf(in, id)] : id \in {in[i].id : i \in DOMAIN in} \ C}
           A == {i \in I : in[i].id \notin C /\ i = first(i)}
           D == {i \in I : i # first(i) /\ in[i].hash = in[first(i)].hash}
           B == {i \in I : in[i].id \in C /\ i = first(i)}
           M == {i \in I : in[i].hash # in[first(i)].hash}
<1>1. n \in Nat /\ DOMAIN in = I /\ \A i \in I : in[i] \in Items
  OBVIOUS
<1>2. \A j \in I : first(j) \in I /\ in[first(j)].id = in[j].id
  BY Zenon, <1>1, FirstOfIs
<1>3. \A j \in I : first(first(j)) = first(j)
  BY <1>2
<1>4. C = {in[i].id : i \in M}
  BY <1>1 DEF conflicted
<1> HIDE DEF C, first, n
<1>5. C = {in[i].id : i \in B}
  <2>1. \A i \in B : in[i].id \in C
    OBVIOUS
  <2>2. \A c \in C : \E i \in B : in[i].id = c
    BY <1>2, <1>3, <1>4
  <2> QED BY <2>1, <2>2
<1>6. out = {in[i] : i \in A}
  <2>1. \A i \in A : in[i] \in out
    BY <1>1, <1>2 DEF first
  <2>2. \A j \in I : in[j].id \notin C => first(j) \in A
    BY <1>2, <1>3
  <2>3. \A x \in out : \E j \in I : in[j].id \notin C /\ x = in[first(j)]
    BY <1>1 DEF first
  <2>4. \A x \in out : \E i \in A : x = in[i]
    BY Zenon, <2>2, <2>3
  <2> HIDE DEF out, A
  <2> QED BY <2>1, <2>4
<1>7. IsFiniteSet(I) /\ Cardinality(I) = n
  BY <1>1, FS_Interval
<1>8. A \subseteq I /\ B \subseteq I /\ D \subseteq I /\ M \subseteq I
  OBVIOUS
<1>9. IsFiniteSet(A) /\ IsFiniteSet(B) /\ IsFiniteSet(D) /\ IsFiniteSet(M)
  BY Zenon, <1>7, <1>8, FS_Subset
<1>10. A \cap D = {} /\ (A \cup D) \cap B = {} /\ (A \cup D \cup B) \cap M = {}
  <2>1. \A i \in M : i # first(i) /\ i \notin D
    OBVIOUS
  <2> QED BY <2>1
<1>11. A \cup D \cup B \cup M \subseteq I
  BY <1>8
<1>12. Cardinality(out) <= Cardinality(A) /\ IsFiniteSet(out)
  <2> DEFINE f == [i \in A |-> in[i]]
  <2>1. f \in [A -> out] /\ out = {f[i] : i \in A}
    BY Zenon, <1>6
  <2> HIDE DEF f, A, out
  <2> QED BY SMT, SMTT(30), <1>9, <2>1, ImageCount
<1>13. Cardinality(C) <= Cardinality(B) /\ IsFiniteSet(C)
  <2> DEFINE f == [i \in B |-> in[i].id]
  <2>1. f \in [B -> C] /\ C = {f[i] : i \in B}
    BY Zenon, <1>5
  <2> HIDE DEF f, B
  <2> QED BY SMT, SMTT(30), <1>9, <2>1, ImageCount
<1>14. Cardinality(C) <= Cardinality(M)
  <2> DEFINE f == [i \in M |-> in[i].id]
  <2>1. f \in [M -> C] /\ C = {f[i] : i \in M}
    BY <1>4
  <2> HIDE DEF f, M
  <2> QED BY Zenon, <1>9, <2>1, ImageCount
<1>15. p.output = out /\ p.duplicates = Cardinality(D) /\ p.conflicts = Cardinality(C)
  BY <1>1 DEF normalizeEvents, first, C
<1>16. \A x \in out : \A i \in I : in[i].id = x.id => in[i] = x
  <2>1. \A i \in I : in[i].id \notin C => in[i].hash = in[first(i)].hash
    BY <1>4
  <2>2. \A x \in out : \E j \in I : j = first(j) /\ x = in[j] /\ in[j].id \notin C
    BY <1>6
  <2>3. \A i \in I, j \in I : in[i].id = in[j].id => first(i) = first(j)
    BY DEF first
  <2>4. \A i \in I, j \in I : in[i].id = in[j].id /\ in[i].hash = in[j].hash => in[i] = in[j]
    BY <1>1
  <2> HIDE DEF out, I
  <2> QED BY SMT, SMTT(30), <2>1, <2>2, <2>3, <2>4
<1> HIDE DEF A, B, D, M, I, out
<1>17. Cardinality(A \cup D \cup B \cup M)
         = Cardinality(A) + Cardinality(D) + Cardinality(B) + Cardinality(M)
       /\ Cardinality(A) \in Nat /\ Cardinality(D) \in Nat
       /\ Cardinality(B) \in Nat /\ Cardinality(M) \in Nat
  <2>1. IsFiniteSet(A \cup D) /\ Cardinality(A \cup D) = Cardinality(A) + Cardinality(D)
        /\ Cardinality(A) \in Nat /\ Cardinality(D) \in Nat
    BY Zenon, <1>9, <1>10, DisjointCount
  <2>2. IsFiniteSet(A \cup D \cup B)
        /\ Cardinality(A \cup D \cup B) = Cardinality(A \cup D) + Cardinality(B)
        /\ Cardinality(B) \in Nat
    BY Zenon, <1>9, <1>10, <2>1, DisjointCount
  <2>3. Cardinality(A \cup D \cup B \cup M) = Cardinality(A \cup D \cup B) + Cardinality(M)
        /\ Cardinality(M) \in Nat
    BY Zenon, <1>9, <1>10, <2>2, DisjointCount
  <2> QED BY <2>1, <2>2, <2>3
<1>18. Cardinality(A \cup D \cup B \cup M) <= n
  BY <1>7, <1>11, FS_Subset
<1>19. Cardinality(out) \in Nat /\ Cardinality(C) \in Nat
  BY <1>12, <1>13, FS_CardinalityType
<1>20. n >= Cardinality(out) + Cardinality(D) + 2 * Cardinality(C)
  BY SMT, SMTT(30), <1>1, <1>12, <1>13, <1>14, <1>17, <1>18, <1>19
<1> QED BY <1>1, <1>15, <1>16, <1>20 DEF n

-----------------------------------------------------------------------------

ReadFields == {"at", "version", "since", "second", "received"}

IsRead(k) == k = [x \in ReadFields |-> k[x]]
IsResponse(e) == e = [x \in {"version", "stored"} |-> e[x]]

\* A read in progress is within its request time; one upstream answered holds a
\* version upstream served since the read began; the stamp of a body is no earlier
\* than the end of any older version.
ReadSound(k) ==
  /\ IsRead(k)
  /\ k.at \in {"idle", "sent", "200", "body", "304"}
  /\ k.version \in 0 .. published /\ k.since \in Nat /\ k.received \in Nat
  /\ k.at # "idle" => k.since <= tick /\ tick <= k.since + RequestTime
  /\ k.at \in {"200", "body", "304"} => k.version # 0 /\ lastCurrent[k.version] >= k.since
  /\ k.at = "body" => /\ k.received <= tick
                      /\ \A u \in 1 .. k.version - 1 : lastCurrent[u] <= k.received

\* A validator is only sent when every older version ended more than a cache life
\* before, so no request still running can bring one of those back.
ValidatorSound(k) ==
  k.at \in {"sent", "304"} /\ k.version # 0 =>
    /\ \A u \in 1 .. k.version - 1 : lastCurrent[u] + ResponseLife < k.since
    /\ response # NoResponse => response.version >= k.version

EntrySound ==
  /\ IsResponse(response) /\ response.version \in 0 .. published /\ response.stored \in Nat
  /\ response # NoResponse =>
       /\ response.version \in publishable /\ response.version # 0
       /\ response.stored <= lastCurrent[response.version] + RequestTime
       /\ \A u \in 1 .. response.version - 1 : lastCurrent[u] <= response.stored

UpstreamSound ==
  /\ tick \in 0 .. LastTick
  /\ published \in Versions /\ publishable \subseteq Versions
  /\ lastCurrent \in [Versions -> 0 .. tick]
  /\ lastCurrent[published] = tick
  /\ \A v \in 1 .. published : \A u \in 1 .. v : lastCurrent[u] <= lastCurrent[v]

ResearchInv ==
  /\ UpstreamSound /\ EntrySound
  /\ read \in [Readers -> {read[r] : r \in Readers}]
  /\ \A r \in Readers : ReadSound(read[r]) /\ ValidatorSound(read[r])

LEMMA VersionsAre ==
  /\ Versions \subseteq Nat \ {0} /\ 1 \in Versions
  /\ \A v \in Versions : \A u \in 1 .. v : u \in Versions
BY ResearchAssumption

LEMMA ResearchStarts == ResearchInit => ResearchInv
<1> SUFFICES ASSUME ResearchInit PROVE ResearchInv
  OBVIOUS
<1>1. UpstreamSound
  BY ResearchAssumption, VersionsAre DEF ResearchInit, UpstreamSound
<1>2. EntrySound
  BY DEF ResearchInit, EntrySound, IsResponse, NoResponse
<1>3. ReadSound(NotReading) /\ ValidatorSound(NotReading)
  BY DEF ResearchInit, ReadSound, ValidatorSound, IsRead, ReadFields, NotReading
<1> QED BY <1>1, <1>2, <1>3 DEF ResearchInit, ResearchInv

\* The reads as StartRead, UpstreamAnswers, HeadersArrive and RequestFails leave them.
Requested(v, t) == [NotReading EXCEPT !.at = "sent", !.version = v, !.since = t]
Told(k, at, v) == [k EXCEPT !.at = at, !.version = v]
Stamped(k, t) == [k EXCEPT !.at = "body", !.received = t]
Again(k) == [k EXCEPT !.second = TRUE]

LEMMA RequestedForm ==
  ASSUME NEW v, NEW t
  PROVE  /\ IsRead(Requested(v, t)) /\ Requested(v, t).at = "sent" /\ Requested(v, t).version = v
         /\ Requested(v, t).since = t /\ Requested(v, t).received = 0
BY Zenon DEF Requested, NotReading, IsRead, ReadFields

LEMMA ToldForm ==
  ASSUME NEW k, IsRead(k), NEW at, NEW v
  PROVE  /\ IsRead(Told(k, at, v)) /\ Told(k, at, v).at = at /\ Told(k, at, v).version = v
         /\ Told(k, at, v).since = k.since /\ Told(k, at, v).received = k.received
BY Zenon DEF Told, IsRead, ReadFields

LEMMA StampedForm ==
  ASSUME NEW k, IsRead(k), NEW t
  PROVE  /\ IsRead(Stamped(k, t)) /\ Stamped(k, t).at = "body" /\ Stamped(k, t).version = k.version
         /\ Stamped(k, t).since = k.since /\ Stamped(k, t).received = t
BY Zenon DEF Stamped, IsRead, ReadFields

LEMMA AgainForm ==
  ASSUME NEW k, IsRead(k)
  PROVE  /\ IsRead(Again(k)) /\ Again(k).at = k.at /\ Again(k).version = k.version
         /\ Again(k).since = k.since /\ Again(k).received = k.received
BY Zenon DEF Again, IsRead, ReadFields

\* A step that moves one read and nothing else.
LEMMA OneReadMoves ==
  ASSUME ResearchInv, NEW r \in Readers, NEW k, SetRead(r, k),
         UNCHANGED <<upstreamVars, response>>, ReadSound(k), ValidatorSound(k)
  PROVE  ResearchInv'
<1>1. UpstreamSound' /\ EntrySound'
  BY DEF ResearchInv, upstreamVars, UpstreamSound, EntrySound, IsResponse
<1>2. \A q \in Readers : read'[q] = k \/ read'[q] = read[q]
  BY DEF SetRead, ResearchInv
<1>3. \A q \in Readers : ReadSound(read'[q]) /\ ValidatorSound(read'[q])
  BY <1>2 DEF ResearchInv
<1>4. \A q \in Readers : ReadSound(read[q])' /\ ValidatorSound(read[q])'
  BY <1>3 DEF upstreamVars, ReadSound, ValidatorSound
<1>5. read' \in [Readers -> {read'[q] : q \in Readers}]
  BY DEF SetRead, ResearchInv
<1> QED BY <1>1, <1>4, <1>5 DEF ResearchInv

LEMMA NotReadingSound ==
  ASSUME UpstreamSound
  PROVE  ReadSound(NotReading) /\ ValidatorSound(NotReading)
BY VersionsAre DEF UpstreamSound, ReadSound, ValidatorSound, IsRead, ReadFields, NotReading

LEMMA StartReadKeeps ==
  ASSUME ResearchInv, NEW r \in Readers, StartRead(r)
  PROVE  ResearchInv'
<1> DEFINE k == Requested(response.version, tick)
<1>1. SetRead(r, k) /\ UNCHANGED <<upstreamVars, response>>
  BY DEF StartRead, Requested
<1>2. /\ IsRead(k) /\ k.at = "sent" /\ k.version = response.version
      /\ k.since = tick /\ k.received = 0
  BY RequestedForm
<1> HIDE DEF k
<1>3. ReadSound(k)
  BY <1>2, ResearchAssumption DEF ReadSound, ResearchInv, EntrySound, UpstreamSound
<1>4. ValidatorSound(k)
  <2>1. CASE response = NoResponse
    BY <1>2, <2>1 DEF ValidatorSound, NoResponse
  <2>2. CASE response # NoResponse
    <3>1. response.stored + ResponseLife < tick /\ response.stored \in Nat /\ tick \in Nat
      BY <2>2, ResearchAssumption DEF StartRead, ResearchInv, EntrySound, UpstreamSound
    <3>2. \A u \in 1 .. response.version - 1 : lastCurrent[u] <= response.stored /\ lastCurrent[u] \in Nat
      BY <2>2, VersionsAre DEF ResearchInv, EntrySound, UpstreamSound
    <3> QED BY SMT, SMTT(30), <1>2, <3>1, <3>2, ResearchAssumption DEF ValidatorSound, ResearchInv, EntrySound
  <2> QED BY <2>1, <2>2
<1> QED BY Zenon, <1>1, <1>3, <1>4, OneReadMoves

LEMMA UpstreamAnswersKeeps ==
  ASSUME ResearchInv, NEW r \in Readers, UpstreamAnswers(r)
  PROVE  ResearchInv'
<1> DEFINE j == read[r]
           at == IF j.version = published THEN "304" ELSE "200"
           k == Told(j, at, published)
<1>1. SetRead(r, k) /\ UNCHANGED <<upstreamVars, response>>
  BY DEF UpstreamAnswers, Told
<1>2. ReadSound(j) /\ ValidatorSound(j) /\ IsRead(j) /\ j.at = "sent"
  BY DEF ResearchInv, ReadSound, UpstreamAnswers
<1>3. /\ IsRead(k) /\ k.at = at /\ k.version = published /\ k.since = j.since /\ k.received = j.received
  BY <1>2, ToldForm
<1> HIDE DEF k, j
<1>4. published \in Nat \ {0} /\ lastCurrent[published] = tick
  BY VersionsAre DEF ResearchInv, UpstreamSound
<1>5. ReadSound(k)
  BY <1>2, <1>3, <1>4 DEF ReadSound
<1>6. ValidatorSound(k)
  BY <1>2, <1>3, <1>4 DEF ValidatorSound
<1> QED BY <1>1, <1>5, <1>6, OneReadMoves

LEMMA HeadersArriveKeeps ==
  ASSUME ResearchInv, NEW r \in Readers, HeadersArrive(r)
  PROVE  ResearchInv'
<1> DEFINE j == read[r]
           k == Stamped(j, tick)
<1>1. SetRead(r, k) /\ UNCHANGED <<upstreamVars, response>>
  BY DEF HeadersArrive, Stamped
<1>2. ReadSound(j) /\ IsRead(j) /\ j.at = "200"
  BY DEF ResearchInv, ReadSound, HeadersArrive
<1>3. /\ IsRead(k) /\ k.at = "body" /\ k.version = j.version /\ k.since = j.since /\ k.received = tick
  BY <1>2, StampedForm
<1> HIDE DEF k, j
<1>4. ReadSound(k)
  BY <1>2, <1>3, VersionsAre DEF ReadSound, ResearchInv, UpstreamSound
<1>5. ValidatorSound(k)
  BY <1>3 DEF ValidatorSound
<1> QED BY <1>1, <1>4, <1>5, OneReadMoves

LEMMA RequestFailsKeeps ==
  ASSUME ResearchInv, NEW r \in Readers, NEW retry \in BOOLEAN, RequestFails(r, retry)
  PROVE  ResearchInv'
<1> DEFINE j == read[r]
           k == Again(j)
<1>1. (SetRead(r, k) \/ SetRead(r, NotReading)) /\ UNCHANGED <<upstreamVars, response>>
  BY DEF RequestFails, Again
<1>2. ReadSound(j) /\ ValidatorSound(j) /\ IsRead(j)
  BY DEF ResearchInv, ReadSound
<1>3. /\ IsRead(k) /\ k.at = j.at /\ k.version = j.version /\ k.since = j.since /\ k.received = j.received
  BY <1>2, AgainForm
<1> HIDE DEF k, j
<1>4. ReadSound(k) /\ ValidatorSound(k)
  BY <1>2, <1>3 DEF ReadSound, ValidatorSound
<1> QED BY <1>1, <1>4, NotReadingSound, OneReadMoves DEF ResearchInv

LEMMA ReadEnds ==
  ASSUME ResearchInv, NEW r \in Readers, RateLimited(r) \/ TimesOut(r)
  PROVE  ResearchInv'
BY NotReadingSound, OneReadMoves DEF RateLimited, TimesOut, ResearchInv

\* A step that ends one read and leaves another sound entry in the cache.
LEMMA EntryMoves ==
  ASSUME ResearchInv, NEW r \in Readers, SetRead(r, NotReading), UNCHANGED upstreamVars,
         EntrySound',
         \A q \in Readers : read[q].at \in {"sent", "304"} /\ read[q].version # 0 =>
           (response' # NoResponse => response'.version >= read[q].version)
  PROVE  ResearchInv'
<1>1. UpstreamSound'
  BY DEF ResearchInv, upstreamVars, UpstreamSound
<1>2. \A q \in Readers : read'[q] = NotReading \/ read'[q] = read[q]
  BY DEF SetRead, ResearchInv
<1>3. ReadSound(NotReading)' /\ ValidatorSound(NotReading)'
  BY Zenon, NotReadingSound DEF ResearchInv, upstreamVars, ReadSound, ValidatorSound, NotReading
<1>4. \A q \in Readers : LET k == read[q] IN read'[q] = k => ReadSound(read[q])' /\ ValidatorSound(read[q])'
  BY DEF ResearchInv, upstreamVars, ReadSound, ValidatorSound
<1>5. \A q \in Readers : read'[q] = NotReading => ReadSound(read[q])' /\ ValidatorSound(read[q])'
  BY <1>3 DEF ReadSound, ValidatorSound, NotReading
<1>6. read' \in [Readers -> {read'[q] : q \in Readers}]
  BY DEF SetRead, ResearchInv
<1> QED BY Zenon, <1>1, <1>2, <1>4, <1>5, <1>6 DEF ResearchInv

LEMMA AcceptBodyKeeps ==
  ASSUME ResearchInv, NEW r \in Readers, AcceptBody(r)
  PROVE  ResearchInv'
<1> DEFINE j == read[r]
           e == [version |-> j.version, stored |-> j.received]
<1>1. SetRead(r, NotReading) /\ UNCHANGED upstreamVars
  BY DEF AcceptBody
<1>2. ReadSound(j) /\ j.at = "body"
  BY DEF ResearchInv, AcceptBody
<1>3. CASE response' = response
  <2>1. EntrySound'
    BY <1>1, <1>3 DEF ResearchInv, EntrySound, upstreamVars, IsResponse
  <2> QED BY Zenon, <1>1, <1>3, <2>1, EntryMoves DEF ResearchInv, ValidatorSound
<1>4. CASE response' = e /\ j.version \in publishable
  <2>1. IsResponse(e) /\ e.version = j.version /\ e.stored = j.received
    BY DEF IsResponse
  <2> HIDE DEF e, j
  <2>2. /\ j.version \in 1 .. published /\ j.received \in Nat /\ tick \in Nat /\ j.since \in Nat
        /\ lastCurrent[j.version] \in Nat /\ lastCurrent[j.version] >= j.since
        /\ j.received <= tick /\ tick <= j.since + RequestTime /\ RequestTime \in Nat
        /\ \A u \in 1 .. j.version - 1 : lastCurrent[u] <= j.received
    BY <1>2, VersionsAre, ResearchAssumption DEF ResearchInv, UpstreamSound, ReadSound
  <2>3. j.received <= lastCurrent[j.version] + RequestTime
    BY <2>2
  <2>4. EntrySound'
    BY SMT, SMTT(30), <1>1, <1>4, <2>1, <2>2, <2>3 DEF EntrySound, upstreamVars, IsResponse
  <2>5. ASSUME NEW q \in Readers, read[q].at \in {"sent", "304"}, read[q].version # 0
        PROVE  response'.version >= read[q].version
    <3> DEFINE k == read[q]
    <3>1. /\ k.version \in Nat /\ k.since \in Nat /\ k.since <= tick
          /\ \A u \in 1 .. k.version - 1 : lastCurrent[u] + ResponseLife < k.since
      BY <2>5, VersionsAre DEF ResearchInv, ReadSound, ValidatorSound, UpstreamSound
    <3> HIDE DEF k
    <3>2. j.version \in Nat \ {0}
      BY <2>2, VersionsAre DEF ResearchInv, UpstreamSound
    <3>3. ~(j.version < k.version)
      <4> SUFFICES ASSUME j.version < k.version PROVE FALSE
        OBVIOUS
      <4>1. lastCurrent[j.version] + ResponseLife < k.since
        BY <3>1, <3>2
      <4> QED BY SMT, SMTT(30), <2>2, <3>1, <4>1, ResearchAssumption
    <3> QED BY SMT, SMTT(30), <1>4, <2>1, <3>1, <3>2, <3>3 DEF k
  <2> QED BY Zenon, <1>1, <2>4, <2>5, EntryMoves
<1> QED BY <1>3, <1>4 DEF AcceptBody, cacheableStatus

Restamped(e, t) == [e EXCEPT !.stored = t]

LEMMA RestampedForm ==
  ASSUME NEW e, IsResponse(e), NEW t
  PROVE  /\ IsResponse(Restamped(e, t)) /\ Restamped(e, t).version = e.version
         /\ Restamped(e, t).stored = t
BY DEF Restamped, IsResponse

\* The entry a 304 restamps is at least as new as the version it is about.
LEMMA ReceiveNotModifiedKeeps ==
  ASSUME ResearchInv, NEW r \in Readers, ReceiveNotModified(r)
  PROVE  ResearchInv'
<1> DEFINE j == read[r]
           e == Restamped(response, tick)
<1>1. SetRead(r, NotReading) /\ UNCHANGED upstreamVars
  BY DEF ReceiveNotModified
<1>2. ReadSound(j) /\ ValidatorSound(j) /\ j.at = "304"
  BY DEF ResearchInv, ReceiveNotModified
<1>3. CASE response' = response
  <2>1. EntrySound'
    BY <1>1, <1>3 DEF ResearchInv, EntrySound, upstreamVars, IsResponse
  <2> QED BY <1>1, <1>3, <2>1, EntryMoves DEF ResearchInv, ValidatorSound
<1>4. CASE response' = e /\ response # NoResponse
  <2>1. IsResponse(e) /\ e.version = response.version /\ e.stored = tick
    BY RestampedForm DEF ResearchInv, EntrySound
  <2> HIDE DEF e, j
  <2>2. /\ j.version \in 1 .. published /\ response.version \in 1 .. published
        /\ response.version >= j.version
        /\ tick \in Nat /\ j.since \in Nat /\ RequestTime \in Nat
        /\ lastCurrent[j.version] >= j.since /\ tick <= j.since + RequestTime
    BY <1>2, <1>4, VersionsAre, ResearchAssumption
       DEF ResearchInv, UpstreamSound, EntrySound, ReadSound, ValidatorSound
  <2>3. published \in Versions /\ Versions \subseteq Nat \ {0}
    BY VersionsAre DEF ResearchInv, UpstreamSound
  <2>4. lastCurrent[j.version] <= lastCurrent[response.version]
    BY <2>2, <2>3 DEF ResearchInv, UpstreamSound
  <2>5. lastCurrent[j.version] \in Nat /\ lastCurrent[response.version] \in Nat
    BY SMT, SMTT(30), <2>2, <2>3, VersionsAre DEF ResearchInv, UpstreamSound
  <2>6. \A u \in 1 .. response.version - 1 : lastCurrent[u] <= tick
    BY <2>2, <2>3, VersionsAre DEF ResearchInv, UpstreamSound
  <2>7. tick <= lastCurrent[response.version] + RequestTime
    BY <2>2, <2>4, <2>5
  <2>8. EntrySound'
    BY Zenon, <1>1, <1>4, <2>1, <2>2, <2>6, <2>7 DEF ResearchInv, EntrySound, upstreamVars, IsResponse
  <2> QED BY Zenon, <1>1, <1>4, <2>1, <2>8, EntryMoves DEF ResearchInv, ValidatorSound
<1> QED BY <1>3, <1>4 DEF ReceiveNotModified, Restamped

LEMMA EntryEvictedKeeps ==
  ASSUME ResearchInv, EntryEvicted
  PROVE  ResearchInv'
<1>1. UpstreamSound'
  BY DEF EntryEvicted, ResearchInv, upstreamVars, UpstreamSound
<1>2. EntrySound'
  BY VersionsAre DEF EntryEvicted, ResearchInv, upstreamVars, EntrySound, UpstreamSound, IsResponse, NoResponse
<1>3. \A q \in Readers : ReadSound(read[q])' /\ ValidatorSound(read[q])'
  BY DEF EntryEvicted, ResearchInv, upstreamVars, ReadSound, ValidatorSound
<1> QED BY Zenon, <1>1, <1>2, <1>3 DEF EntryEvicted, ResearchInv

\* What Publish and TickPasses do to the past: no version that has ended moves, and
\* the current one only later.
LEMMA PastStands ==
  ASSUME ResearchInv, UNCHANGED <<publishable, response, read>>,
         published' \in Nat, published <= published', UpstreamSound',
         tick' \in Nat, tick <= tick',
         \A v \in 1 .. published : lastCurrent'[v] >= lastCurrent[v],
         \A v \in 1 .. published - 1 : lastCurrent'[v] = lastCurrent[v],
         \A r \in Readers : read[r].at # "idle" => tick' <= read[r].since + RequestTime
  PROVE  ResearchInv'
<1>1. /\ published \in Nat \ {0} /\ tick \in Nat
      /\ \A v \in 1 .. published : lastCurrent[v] \in Nat /\ lastCurrent'[v] \in Nat
  BY VersionsAre, ResearchAssumption DEF ResearchInv, UpstreamSound
<1>2. EntrySound'
  <2>1. IsResponse(response)' /\ response'.version \in 0 .. published' /\ response'.stored \in Nat
    BY <1>1 DEF ResearchInv, EntrySound, IsResponse
  <2>2. response # NoResponse =>
          /\ response.version \in publishable /\ response.version # 0
          /\ response.stored <= lastCurrent'[response.version] + RequestTime
    <3> SUFFICES ASSUME response # NoResponse
                 PROVE  /\ response.version \in publishable /\ response.version # 0
                        /\ response.stored <= lastCurrent'[response.version] + RequestTime
      OBVIOUS
    <3>1. /\ response.version \in publishable /\ response.version # 0
          /\ response.version \in 1 .. published /\ response.stored \in Nat
          /\ response.stored <= lastCurrent[response.version] + RequestTime
      BY <1>1 DEF ResearchInv, EntrySound
    <3>2. /\ lastCurrent[response.version] \in Nat /\ lastCurrent'[response.version] \in Nat
          /\ lastCurrent'[response.version] >= lastCurrent[response.version]
      BY <1>1, <3>1
    <3>3. RequestTime \in Nat
      BY ResearchAssumption
    <3> QED BY <3>1, <3>2, <3>3
  <2>3. response # NoResponse => \A u \in 1 .. response.version - 1 : lastCurrent'[u] <= response.stored
    BY <1>1 DEF ResearchInv, EntrySound
  <2> QED BY Zenon, <2>1, <2>2, <2>3 DEF EntrySound
<1>3. ASSUME NEW r \in Readers
      PROVE  ReadSound(read[r])' /\ ValidatorSound(read[r])'
  <2> DEFINE k == read[r]
  <2>1. ReadSound(k) /\ ValidatorSound(k)
    BY DEF ResearchInv
  <2>2. k' = k /\ (k.at # "idle" => tick' <= k.since + RequestTime)
    OBVIOUS
  <2> HIDE DEF k
  <2>3. k.version \in Nat /\ k.version <= published /\ k.since \in Nat /\ k.received \in Nat
    BY <1>1, <2>1 DEF ReadSound
  <2>4. \A u \in 1 .. k.version - 1 : lastCurrent'[u] = lastCurrent[u]
    BY <1>1, <2>3
  <2>5. k.version # 0 => lastCurrent'[k.version] >= lastCurrent[k.version]
                         /\ lastCurrent[k.version] \in Nat /\ lastCurrent'[k.version] \in Nat
    BY <1>1, <2>3
  <2>6. k.at \in {"200", "body", "304"} => k.version # 0 /\ lastCurrent'[k.version] >= k.since
    BY SMT, SMTT(30), <2>1, <2>3, <2>5 DEF ReadSound
  <2>7. ReadSound(k)'
    BY SMT, SMTT(30), <1>1, <2>1, <2>2, <2>3, <2>4, <2>6 DEF ReadSound, IsRead
  <2>8. ValidatorSound(k)'
    BY Zenon, <2>1, <2>2, <2>4 DEF ValidatorSound
  <2> QED BY <2>7, <2>8 DEF k
<1> QED BY <1>2, <1>3 DEF ResearchInv

LEMMA PublishKeeps ==
  ASSUME ResearchInv, Publish
  PROVE  ResearchInv'
<1>1. /\ published \in Nat \ {0} /\ tick \in 0 .. LastTick /\ LastTick \in Nat
      /\ published \in Versions /\ published + 1 \in Versions
  BY VersionsAre, ResearchAssumption DEF ResearchInv, UpstreamSound, Publish
<1>2. /\ lastCurrent' \in [Versions -> 0 .. tick]
      /\ lastCurrent'[published] = tick /\ lastCurrent'[published + 1] = tick
      /\ \A v \in Versions : v # published /\ v # published + 1 => lastCurrent'[v] = lastCurrent[v]
  BY <1>1 DEF ResearchInv, UpstreamSound, Publish
<1>3. \A v \in 1 .. published : v \in Versions /\ lastCurrent[v] \in 0 .. tick
  BY <1>1, VersionsAre DEF ResearchInv, UpstreamSound
<1>4. \A v \in 1 .. published : \A u \in 1 .. v : lastCurrent[u] <= lastCurrent[v]
  BY DEF ResearchInv, UpstreamSound
<1>5. \A v \in 1 .. published + 1 : \A u \in 1 .. v : lastCurrent'[u] <= lastCurrent'[v]
  <2>1. \A v \in 1 .. published + 1 : v \in Versions
    BY <1>1, VersionsAre
  <2> TAKE v \in 1 .. published + 1
  <2> TAKE u \in 1 .. v
  <2>2. CASE v \in {published, published + 1}
    BY SMT, SMTT(30), <1>1, <1>2, <2>1, <2>2
  <2>3. CASE v \notin {published, published + 1}
    BY SMT, SMTT(30), <1>1, <1>2, <1>3, <1>4, <2>3
  <2> QED BY <2>2, <2>3
<1>6. UpstreamSound'
  BY Zenon, <1>1, <1>2, <1>5 DEF ResearchInv, UpstreamSound, Publish
<1>7. \A v \in 1 .. published : lastCurrent'[v] >= lastCurrent[v]
  BY <1>1, <1>2, <1>3
<1>8. \A v \in 1 .. published - 1 : lastCurrent'[v] = lastCurrent[v]
  BY <1>1, <1>2, <1>3
<1>9. \A r \in Readers : read[r].at # "idle" => tick <= read[r].since + RequestTime
  BY DEF ResearchInv, ReadSound
<1>10. published' \in Nat /\ published <= published' /\ tick' = tick /\ UNCHANGED <<publishable, response, read>>
  BY <1>1 DEF Publish
<1> QED BY SMT, SMTT(30), <1>1, <1>6, <1>7, <1>8, <1>9, <1>10, PastStands

LEMMA TickPassesKeeps ==
  ASSUME ResearchInv, TickPasses
  PROVE  ResearchInv'
<1>1. published \in Nat \ {0} /\ tick \in Nat /\ LastTick \in Nat /\ published \in Versions /\ tick < LastTick
  BY VersionsAre, ResearchAssumption DEF ResearchInv, UpstreamSound, TickPasses
<1>2. /\ lastCurrent' \in [Versions -> 0 .. tick + 1] /\ lastCurrent'[published] = tick + 1
      /\ \A v \in Versions : v # published => lastCurrent'[v] = lastCurrent[v]
  BY <1>1 DEF ResearchInv, UpstreamSound, TickPasses
<1>3. \A v \in 1 .. published : v \in Versions /\ lastCurrent[v] \in 0 .. tick
  BY <1>1, VersionsAre DEF ResearchInv, UpstreamSound
<1>4. \A v \in 1 .. published : \A u \in 1 .. v : lastCurrent[u] <= lastCurrent[v]
  BY DEF ResearchInv, UpstreamSound
<1>5. \A v \in 1 .. published : \A u \in 1 .. v : lastCurrent'[u] <= lastCurrent'[v]
  BY SMT, SMTT(30), <1>1, <1>2, <1>3, <1>4
<1>6. UpstreamSound'
  BY <1>1, <1>2, <1>5 DEF ResearchInv, UpstreamSound, TickPasses
<1>7. \A v \in 1 .. published : lastCurrent'[v] >= lastCurrent[v]
  BY <1>1, <1>2, <1>3
<1>8. \A v \in 1 .. published - 1 : lastCurrent'[v] = lastCurrent[v]
  BY <1>1, <1>2, <1>3
<1>9. \A r \in Readers : read[r].at # "idle" => tick' <= read[r].since + RequestTime
  BY <1>1, ResearchAssumption DEF ResearchInv, ReadSound, TickPasses, Expired
<1>10. published' = published /\ tick' = tick + 1 /\ UNCHANGED <<publishable, response, read>>
  BY DEF TickPasses
<1> QED BY SMT, SMTT(30), <1>1, <1>6, <1>7, <1>8, <1>9, <1>10, PastStands

LEMMA ResearchStep ==
  ASSUME ResearchInv, [ResearchNext]_researchVars
  PROVE  ResearchInv'
<1>1. CASE UNCHANGED <<upstreamVars, response, read>>
  BY <1>1 DEF upstreamVars, ResearchInv, UpstreamSound, EntrySound, ReadSound, ValidatorSound, IsRead, IsResponse
<1>2. ASSUME NEW r \in Readers, ResearchRead(r)
      PROVE  ResearchInv'
  BY Zenon, <1>2, StartReadKeeps, UpstreamAnswersKeeps, HeadersArriveKeeps, AcceptBodyKeeps,
     ReceiveNotModifiedKeeps, RequestFailsKeeps, ReadEnds DEF ResearchRead
<1>3. CASE Publish \/ TickPasses \/ EntryEvicted
  BY <1>3, PublishKeeps, TickPassesKeeps, EntryEvictedKeeps
<1> QED BY Zenon, <1>1, <1>2, <1>3 DEF ResearchNext, ResearchReads, EventsPage, researchVars

LEMMA PageStep ==
  ASSUME DedupAccounted, [ResearchNext]_researchVars
  PROVE  DedupAccounted'
<1>1. CASE EventsPage
  <2> DEFINE Items == [id : {e.id : e \in Copies}, hash : {e.hash : e \in Copies}]
  <2>1. \A a \in Items, b \in Items : a.id = b.id /\ a.hash = b.hash => a = b
    OBVIOUS
  <2>2. Pages \subseteq Seq(Items)
    BY ResearchAssumption
  <2> HIDE DEF Items
  <2>3. PICK in \in Pages : page' = normalizeEvents(in)
    BY <1>1 DEF EventsPage
  <2>4. in \in Seq(Items)
    BY <2>2
  <2>5. page'.input = in
    BY <2>3 DEF normalizeEvents
  <2>6. /\ Len(in) >= Cardinality(page'.output) + page'.duplicates + 2 * page'.conflicts
        /\ \A item \in page'.output : \A i \in DOMAIN in : in[i].id = item.id => in[i] = item
    BY Zenon, <2>1, <2>3, <2>4, PageAccounted
  <2> QED BY Zenon, <2>5, <2>6 DEF DedupAccounted
<1>2. CASE UNCHANGED page
  BY <1>2 DEF DedupAccounted
<1>3. EventsPage \/ UNCHANGED page
  BY Zenon DEF ResearchNext, ResearchReads, ResearchRead, StartRead, UpstreamAnswers, HeadersArrive, AcceptBody,
     ReceiveNotModified, RequestFails, RateLimited, TimesOut, EntryEvicted, Publish, TickPasses, researchVars
<1> QED BY <1>1, <1>2, <1>3

LEMMA PageStarts == ResearchInit => DedupAccounted
BY FS_EmptySet DEF ResearchInit, DedupAccounted, NoPage

LEMMA ResearchMeans == ResearchInv => ResearchTypeOK /\ BoundedStaleness
<1> SUFFICES ASSUME ResearchInv PROVE ResearchTypeOK /\ BoundedStaleness
  OBVIOUS
<1>1. ResearchTypeOK
  BY VersionsAre DEF ResearchInv, UpstreamSound, EntrySound, ReadSound, ResearchTypeOK
<1>2. BoundedStaleness
  BY VersionsAre, ResearchAssumption DEF ResearchInv, UpstreamSound, EntrySound, BoundedStaleness
<1> QED BY <1>1, <1>2
=============================================================================
