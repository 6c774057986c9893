----------------------------- MODULE QualityGate -----------------------------
(***************************************************************************)
(* The data quality monitor (marketdata/quality) of one source: evidence   *)
(* recorded by the adapters, windows closed by Advance, and the gate that  *)
(* quarantines the source and lets it recover. Evidence is abstracted to   *)
(* the class the adapters and Evaluate give it:                            *)
(*   valid, nodata    successful attempts, with or without a usable fact   *)
(*   failed           attempts that cost availability (timeout, 5xx, 429)  *)
(*   faulty           bad payload, stale or a hard fault                   *)
(*   unlicensed       a successful attempt without an approved license     *)
(*   cached           a cache hit, which is no attempt                     *)
(***************************************************************************)
EXTENDS Integers, FiniteSets, FiniteSetsExt

CONSTANTS Evidences,       \* evidence IDs, numbers given in order
          Facts,           \* evidence references (source IDs)
          WindowLength,    \* Policy.WindowDuration
          FreshFor,        \* CapabilityRule.MaxAge
          MinSamples,      \* Policy.MinSamples
          RecoveryWindows, \* Policy.RecoveryHealthyWindows
          EvidenceLimit,   \* maxEvidencePerSource
          LastHour         \* the clock runs from 0 to LastHour

VARIABLES hour,            \* the monitor's clock
          observed,        \* evidence ID -> what was observed under it
          kept,            \* IDs in the monitor's map
          evaluated,       \* evaluatedIDs
          gate,            \* the Gate
          everSeen,        \* ghost: IDs any window has contained
          proofs           \* ghost: proving windows since the last quarantine

qualityVars == <<hour, observed, kept, evaluated, gate, everSeen, proofs>>

ASSUME QualityAssumption ==
  /\ IsFiniteSet(Evidences)
  /\ WindowLength \in Nat /\ RecoveryWindows \in Nat /\ EvidenceLimit \in Nat /\ LastHour \in Nat

Classes == {"valid", "nodata", "failed", "faulty", "unlicensed", "cached"}
Unobserved == [class |-> "none", at |-> 0, ref |-> 0]

QualityInit ==
  /\ hour = 0
  /\ observed = [e \in Evidences |-> Unobserved]
  /\ kept = {}
  /\ evaluated = {}
  /\ gate = [status |-> "insufficient", streak |-> 0, quarantined |-> FALSE,
             refs |-> {}, lastEnd |-> 0]
  /\ everSeen = {}
  /\ proofs = RecoveryWindows

\* Monitor.Record of e, first or again: prune what left the window, then insert
\* unless the source is at its limit. A known ID changes nothing.
Record(e) ==
  LET live == {x \in kept : observed'[x].at >= hour - WindowLength}
  IN IF e \in kept
     THEN UNCHANGED <<kept, evaluated>>
     ELSE /\ kept' = IF Cardinality(live) >= EvidenceLimit THEN live ELSE live \cup {e}
          /\ evaluated' = evaluated \ (kept \ live)

\* An adapter turns one fetch result into evidence and records it; a failed fetch is
\* referenced by its capability alone.
Observe(e, class, ref) ==
  /\ (class \in {"failed", "faulty"}) = (ref = 0)
  /\ observed[e] = Unobserved /\ \A x \in Evidences : observed[x] = Unobserved => e <= x
  /\ observed' = [observed EXCEPT ![e] = [class |-> class, at |-> hour, ref |-> ref]]
  /\ Record(e)
  /\ UNCHANGED <<hour, gate, everSeen, proofs>>

\* The same evidence is delivered again.
Redeliver(e) ==
  /\ observed[e] # Unobserved
  /\ UNCHANGED observed
  /\ Record(e)
  /\ UNCHANGED <<hour, gate, everSeen, proofs>>

InWindow(end) == {e \in kept : end - WindowLength <= observed[e].at /\ observed[e].at < end}
OfClass(items, classes) == {e \in items : observed[e].class \in classes}

\* Evaluate: hard faults and missing rights first, then sufficiency, then the score,
\* which any failed attempt pushes under its availability threshold.
Evaluate(items, end) ==
  LET successes == OfClass(items, {"valid", "nodata", "unlicensed"})
      enough == Cardinality(OfClass(items, {"valid", "unlicensed"})) >= MinSamples
      stale == enough /\ end - Max({observed[e].at : e \in successes}) > FreshFor
  IN IF OfClass(items, {"faulty", "unlicensed"}) # {} \/ stale THEN "quarantined"
     ELSE IF ~enough THEN "insufficient"
     ELSE IF OfClass(items, {"failed"}) # {} THEN "degraded"
     ELSE "healthy"

MutantAnyEvidence(items) == items \ evaluated

\* evaluateLocked: only a valid fetch not evaluated before is new evidence.
NewEvidence(items) == OfClass(items \ evaluated, {"valid"})

\* Gate.Advance on a report of this source with a later window end.
GateAdvance(status, refs, end) ==
  LET g == [gate EXCEPT !.refs = refs, !.lastEnd = end]
      closed == [g EXCEPT !.status = "quarantined", !.streak = 0, !.quarantined = TRUE]
      settled(as) == [g EXCEPT !.status = as, !.streak = 0]
      proving == IF gate.streak + 1 >= RecoveryWindows
                 THEN [g EXCEPT !.status = "healthy", !.streak = RecoveryWindows, !.quarantined = FALSE]
                 ELSE [g EXCEPT !.status = "recovering", !.streak = @ + 1]
  IN CASE status = "healthy" -> IF refs \subseteq gate.refs THEN g
                                ELSE IF gate.quarantined THEN proving ELSE settled("healthy")
       [] status = "quarantined" -> closed
       [] status = "degraded" -> settled(IF gate.quarantined THEN "quarantined" ELSE "degraded")
       [] status = "insufficient" -> IF gate.status = "recovering" THEN closed
                                     ELSE IF gate.quarantined THEN g ELSE settled("insufficient")

\* Monitor.Advance with the end its callers pass, just after the clock; the same end
\* again returns the snapshot.
Advance ==
  LET end == hour + 1
      items == InWindow(end)
      status == Evaluate(items, end)
      fresh == OfClass(items \ everSeen, {"valid"})
  IN /\ end > gate.lastEnd
     /\ gate' = IF NewEvidence(items) # {} \/ status # "healthy"
                THEN GateAdvance(status, {observed[e].ref : e \in items}, end)
                ELSE [gate EXCEPT !.lastEnd = end]
     /\ evaluated' = evaluated \cup items
     /\ everSeen' = everSeen \cup items
     /\ proofs' = IF gate'.status = "quarantined" THEN 0
                  ELSE IF status = "healthy" /\ fresh # {} /\ proofs < RecoveryWindows
                  THEN proofs + 1 ELSE proofs
     /\ UNCHANGED <<hour, observed, kept>>

HourPasses ==
  /\ hour < LastHour
  /\ hour' = hour + 1
  /\ UNCHANGED <<observed, kept, evaluated, gate, everSeen, proofs>>

QualityNext ==
  \/ HourPasses \/ Advance
  \/ \E e \in Evidences : Redeliver(e)
  \/ \E e \in Evidences, class \in Classes, ref \in Facts \cup {0} : Observe(e, class, ref)
-----------------------------------------------------------------------------
QualityTypeOK ==
  /\ hour \in 0 .. LastHour
  /\ Cardinality(kept) <= EvidenceLimit
  /\ evaluated \subseteq Evidences
  /\ gate.status \in {"insufficient", "healthy", "degraded", "recovering", "quarantined"}
  /\ gate.streak \in 0 .. RecoveryWindows

(* A source that was quarantined is healthy again only after                   *)
(* RecoveryHealthyWindows healthy windows since, each with a valid observation *)
(* no earlier window had contained. Cache hits, empty answers and evidence     *)
(* delivered again, also after Record pruned it, prove nothing                 *)
(* (Monitor.Advance and Gate.Advance).                                         *)
RecoveryEarned == gate.status = "healthy" => proofs >= RecoveryWindows
=============================================================================
