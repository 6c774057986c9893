-------------------------- MODULE ProviderRollout --------------------------
(***************************************************************************)
(* How a market-data provider is promoted from shadow to production: the   *)
(* persisted rollout row, the versioned asset selection of local preview,  *)
(* the status counters that are the promotion's evidence, the readiness    *)
(* rules and the operator's command line.  (database/venue_aggregation.go, *)
(* rollout_readiness.go, provider_status.go, cmd/market-services/          *)
(* catalog.go)                                                             *)
(*                                                                         *)
(* An asset is its market-cap rank.  The wall clock is two facts of a      *)
(* status row: whether its observation has lasted the soak time in good    *)
(* order, and whether its last success is fresh.                           *)
(***************************************************************************)
EXTENDS Integers, Sequences, FiniteSets, Functions

CONSTANTS
  Providers,     \* the promotion order, predecessors first
  Assets,        \* market-cap ranks, a set of positive integers
  CanarySize,    \* assets of a canary (10 in the code)
  SelectTarget,  \* assets of a preview selection (50 in the code)
  MaxChanges,    \* bound: rollout and preview changes
  MaxSelections, \* bound: versions of a selection
  LegacyCanary   \* whether a provider may start as a canary with no list

ASSUME RolloutAssumption ==
  /\ Assets \subseteq Nat \ {0}
  /\ CanarySize \in Nat \ {0} /\ SelectTarget \in Nat \ {0}

VARIABLES
  rollout,   \* provider -> its provider_rollout_state row
  resolved,  \* provider -> assets whose market is resolved in its catalog
  selection, \* provider -> its active provider_asset_selection
  status,    \* provider -> source key -> its market_provider_status row
  operator,  \* the rollout command under way
  changes    \* rollout and preview changes made

rolloutVars == <<rollout, resolved, selection, status, operator, changes>>

Provider == Range(Providers)
Modes == {"shadow", "canary", "enabled", "paused"}
StatusKey == {"spot-tickers", "spot-tickers-shadow"}

(***************************************************************************)
(* Status rows.  qualified: the observation has lasted the soak time with  *)
(* enough attempts and a high enough success rate.  stray counts, for the  *)
(* properties only, the successes a row took from a feed that began under  *)
(* another rollout, up to two.  The preview row is never evidence and is   *)
(* left out.                                                               *)
(***************************************************************************)
NoStatus == [attempted |-> FALSE, qualified |-> FALSE, failing |-> FALSE,
             fresh |-> FALSE, stray |-> 0]

\* The first attempt starts the observation anew, even after failures.
RecordAttempt(row) ==
  [row EXCEPT !.attempted = TRUE, !.qualified = @ /\ row.attempted]

RecordSuccess(row, strays) ==
  [row EXCEPT !.attempted = TRUE, !.failing = FALSE, !.fresh = TRUE,
              !.stray = IF strays /\ @ < 2 THEN @ + 1 ELSE @]

RecordFailure(row) == [row EXCEPT !.failing = TRUE]

Recorded(p, key, row) ==
  IF key \in StatusKey THEN [status EXCEPT ![p][key] = row] ELSE status
Recording(p, key) == IF key \in StatusKey THEN status[p][key] ELSE NoStatus

(***************************************************************************)
(* Who may be published.                                                   *)
(***************************************************************************)
Best(S, n) == {a \in S : Cardinality({b \in S : b <= a}) <= n}

Eligible(p) == resolved[p]

MutantRefreeze(p) == rollout[p].mode = "canary"
                     /\ Cardinality(Eligible(p)) >= CanarySize

\* A canary with no list is frozen by the first query that finds enough
\* assets; ensureFixedCanaryAssetIDs writes only where the list is empty.
Freezes(p) == rollout[p].mode = "canary" /\ rollout[p].canary = {}
              /\ Cardinality(Eligible(p)) >= CanarySize
Frozen(p) == IF Freezes(p) THEN [rollout EXCEPT ![p].canary = Best(Eligible(p), CanarySize)]
             ELSE rollout

RolloutAssets(p, row) ==
  CASE row.mode \in {"shadow", "paused"} -> {}
    [] row.mode = "canary" -> row.canary
    [] OTHER -> Eligible(p)

\* QueryRolloutAssetIDs fails when a canary cannot be frozen or one of its
\* assets is no longer eligible.
RolloutFails(p, row) ==
  row.mode = "canary" /\ (row.canary = {} \/ ~ row.canary \subseteq Eligible(p))

\* QueryPublishedAssetIDs, on the row as the freeze leaves it.
PublishedFails(p, row) ==
  IF row.preview THEN selection[p].version = 0 ELSE RolloutFails(p, row)
Published(p, row) ==
  IF row.preview THEN selection[p].assets ELSE RolloutAssets(p, row)

(***************************************************************************)
(* Selections.                                                             *)
(***************************************************************************)
RefreshSelection(p, sel) ==
  LET new == Best(Eligible(p), SelectTarget) IN
    IF new = sel.assets /\ sel.version > 0 THEN sel
    ELSE [version |-> sel.version + 1, assets |-> new]

SelectionFails(p) == Cardinality(Eligible(p)) < SelectTarget

\* EnsureProviderAssetSelection keeps a complete selection whose assets are
\* all still eligible, whatever their ranks.
EnsureSelection(p, sel) ==
  IF sel.version > 0 /\ Cardinality(sel.assets) = SelectTarget
     /\ sel.assets \subseteq Eligible(p)
  THEN sel ELSE RefreshSelection(p, sel)

(***************************************************************************)
(* Readiness.  Each blocker of the code is a conjunct.                     *)
(***************************************************************************)
Target(mode) == CASE mode \in {"shadow", "paused"} -> "canary"
                  [] mode = "canary" -> "enabled"
                  [] mode = "enabled" -> "stable"

FeedKey(mode) == IF mode \in {"shadow", "paused"} THEN "spot-tickers-shadow"
                 ELSE "spot-tickers"

FeedStatusReady(row) == row.fresh /\ ~ row.failing

FormalObservationReady(row) == row.attempted /\ row.qualified

StageReady(p) ==
  LET row == status[p][FeedKey(rollout[p].mode)] IN
    /\ ~ rollout[p].preview
    /\ FeedStatusReady(row)
    /\ IF Target(rollout[p].mode) = "canary"
       THEN Cardinality(Eligible(p)) >= CanarySize
       ELSE /\ rollout[p].mode = "canary"
                 => Cardinality(rollout[p].canary) = CanarySize
            /\ FormalObservationReady(row)
            /\ ~ RolloutFails(p, rollout[p])
            /\ RolloutAssets(p, rollout[p]) # {}

\* The predecessor must be enabled and have completed its own observation.
Ready(p) ==
  /\ StageReady(p)
  /\ Target(rollout[p].mode) # "stable" =>
       \A i \in DOMAIN Providers : (i > 1 /\ Providers[i] = p) =>
         /\ rollout[Providers[i - 1]].mode = "enabled"
         /\ StageReady(Providers[i - 1])

(***************************************************************************)
(* The initial state: the rows the migrations leave.                       *)
(***************************************************************************)
Idle == [at |-> "idle"]

Row(mode) == [mode |-> mode, preview |-> FALSE, canary |-> {}]

RolloutInit ==
  /\ rollout \in [Provider -> {Row("shadow")}
                    \cup IF LegacyCanary THEN {Row("canary")} ELSE {}]
  /\ resolved \in [Provider -> SUBSET Assets]
  /\ selection = [p \in Provider |-> [version |-> 0, assets |-> {}]]
  /\ status = [p \in Provider |-> [k \in StatusKey |-> NoStatus]]
  /\ operator = Idle
  /\ changes = 0

(***************************************************************************)
(* The command line: rollout evaluates in one set of queries and applies   *)
(* in a later transaction.                                                 *)
(***************************************************************************)
EvaluateRollout(p, mode) ==
  /\ operator = Idle
  /\ changes < MaxChanges
  /\ rollout[p].mode # mode
  /\ mode \in {"canary", "enabled"} => Target(rollout[p].mode) = mode /\ Ready(p)
  /\ operator' = [at |-> "apply", provider |-> p, mode |-> mode,
                  canary |-> IF mode = "canary" THEN Best(Eligible(p), CanarySize)
                             ELSE rollout[p].canary]
  /\ UNCHANGED <<rollout, resolved, selection, status, changes>>

\* SetProviderRollout keeps the preview flag and clears every counter.
SetProviderRollout(p, mode, canary) ==
  /\ rollout' = [rollout EXCEPT ![p].mode = mode, ![p].canary = canary]
  /\ status' = [status EXCEPT ![p] = [k \in StatusKey |-> NoStatus]]

ApplyRollout ==
  /\ operator.at = "apply"
  /\ SetProviderRollout(operator.provider, operator.mode, operator.canary)
  /\ operator' = Idle
  /\ changes' = changes + 1
  /\ UNCHANGED <<resolved, selection>>

\* Leaving preview drops the preview row and clears the formal one.
SetProviderLocalPreview(p) ==
  /\ changes < MaxChanges
  /\ rollout' = [rollout EXCEPT ![p].preview = ~ @]
  /\ status' = IF rollout[p].preview
               THEN [status EXCEPT ![p]["spot-tickers"] = NoStatus]
               ELSE status
  /\ changes' = changes + 1
  /\ UNCHANGED <<resolved, selection, operator>>

SelectAssets(p) ==
  /\ ~ SelectionFails(p)
  /\ selection[p].version < MaxSelections
  /\ selection' = [selection EXCEPT ![p] = RefreshSelection(p, @)]
  /\ UNCHANGED <<rollout, resolved, status, operator, changes>>

\* The soak time passes, with or without the attempts and the success rate
\* it must show; no earlier success is fresh after it.
TimePasses(p) ==
  /\ \E good \in BOOLEAN :
       status' = [status EXCEPT ![p] = [k \in StatusKey |->
         [@[k] EXCEPT !.qualified = good /\ status[p][k].attempted, !.fresh = FALSE]]]
  /\ UNCHANGED <<rollout, resolved, selection, operator, changes>>

RolloutNext ==
  \/ \E p \in Provider, mode \in Modes : EvaluateRollout(p, mode)
  \/ ApplyRollout
  \/ \E p \in Provider : \/ SetProviderLocalPreview(p) \/ SelectAssets(p)
                         \/ TimePasses(p)

=============================================================================
