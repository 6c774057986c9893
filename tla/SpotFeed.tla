------------------------------ MODULE SpotFeed ------------------------------
(***************************************************************************)
(* The feeds that run under a provider's rollout: the websocket sessions   *)
(* and the REST reconcile that publish tickers and record the evidence,    *)
(* and the catalog supervisor that opens and closes markets.               *)
(* (crawler/spot_ticker_streams.go, spot_ticker_supervisor.go,             *)
(* catalog_supervisor.go, database/market_aggregation.go)                  *)
(***************************************************************************)
EXTENDS ProviderRollout

CONSTANTS
  MaxDiscoveries, \* bound: catalog discoveries
  MaxFeedFaults   \* bound: sessions that end with an error

VARIABLES
  seen,       \* provider -> assets of its last discovered catalog
  active,     \* provider -> assets with an active provider market
  session,    \* provider -> its websocket session
  task,       \* the catalog refresh and the rollout reconcile, per provider
  discoveries,
  feedFaults

feedVars == <<seen, active, session, task, discoveries, feedFaults>>
spotVars == <<rolloutVars, feedVars>>

Publishes(row) == row.preview \/ row.mode \in {"canary", "enabled"}
StreamSourceKey(row) ==
  CASE row.preview -> "spot-tickers-preview"
    [] ~ row.preview /\ row.mode \in {"shadow", "paused"} -> "spot-tickers-shadow"
    [] OTHER -> "spot-tickers"
SameRollout(row, s) == row.mode = s.mode /\ row.preview = s.preview
RolloutChanged(p) == ~ SameRollout(rollout[p], session[p])

SpotInit ==
  /\ RolloutInit
  /\ seen = resolved
  /\ active = [p \in Provider |-> {}]
  /\ session = [p \in Provider |-> Idle]
  /\ task = [p \in Provider |-> [kind \in {"refresh", "reconcile"} |-> Idle]]
  /\ discoveries \in {0, MaxDiscoveries}
  /\ feedFaults = 0

(***************************************************************************)
(* A session reads the rollout, then its source key, then its markets, in  *)
(* three queries; the key and the markets stay for its whole life.         *)
(***************************************************************************)
SessionReads(p) ==
  /\ session[p] = Idle
  /\ session' = [session EXCEPT ![p] =
       [at |-> "key", mode |-> rollout[p].mode, preview |-> rollout[p].preview]]
  /\ UNCHANGED <<rolloutVars, seen, active, task, discoveries, feedFaults>>

SessionKey(p) ==
  /\ session[p].at = "key"
  /\ session' = [session EXCEPT ![p] =
       [at |-> "markets", mode |-> @.mode, preview |-> @.preview,
        key |-> StreamSourceKey(rollout[p])]]
  /\ UNCHANGED <<rolloutVars, seen, active, task, discoveries, feedFaults>>

\* Coinbase's session takes its source key from the rollout it read.
CoinbaseReads(p) ==
  /\ session[p] = Idle
  /\ session' = [session EXCEPT ![p] =
       [at |-> "markets", mode |-> rollout[p].mode, preview |-> rollout[p].preview,
        key |-> StreamSourceKey(rollout[p])]]
  /\ UNCHANGED <<rolloutVars, seen, active, task, discoveries, feedFaults>>

\* The markets of the session: the active ones within the published assets,
\* or for a shadow every eligible candidate.
SessionMarkets(p) ==
  IF Publishes(session[p]) THEN active[p] \cap Published(p, Frozen(p)[p])
  ELSE Eligible(p)

SessionFails(p) ==
  /\ LET key == StreamSourceKey(rollout[p])
     IN status' = Recorded(p, key, RecordFailure(Recording(p, key)))
  /\ session' = [session EXCEPT ![p] = Idle]

SessionOpens(p) ==
  /\ session[p].at = "markets"
  /\ rollout' = IF Publishes(session[p]) /\ ~ rollout[p].preview THEN Frozen(p) ELSE rollout
  /\ IF Publishes(session[p]) /\ PublishedFails(p, Frozen(p)[p])
     THEN SessionFails(p)
     ELSE IF SessionMarkets(p) = {}
     THEN session' = [session EXCEPT ![p] = Idle] /\ UNCHANGED status
     ELSE /\ LET key == session[p].key
             IN status' = Recorded(p, key, RecordAttempt(Recording(p, key)))
          /\ session' = [session EXCEPT ![p] =
               [at |-> "open", mode |-> @.mode, preview |-> @.preview,
                key |-> @.key, markets |-> SessionMarkets(p), behind |-> 0]]
  /\ UNCHANGED <<resolved, selection, operator, changes, seen, active, task,
                 discoveries, feedFaults>>

(***************************************************************************)
(* A flush with pending tickers: attempt, write, success, and only then    *)
(* the rollout is read again.  The write and the record are one step, the  *)
(* second read another: a change in between ends the session at once, one  *)
(* before it lets this flush through.                                      *)
(***************************************************************************)
Flush(p) ==
  LET s == session[p]
      strays == s.preview \/ RolloutChanged(p)
  IN /\ s.at = "open"
     /\ status' = Recorded(p, s.key, RecordSuccess(RecordAttempt(Recording(p, s.key)), strays))
     /\ session' = [session EXCEPT ![p].at = "check",
                                   ![p].behind =
            IF RolloutChanged(p) /\ Publishes(s) THEN @ + 1 ELSE @]
     /\ UNCHANGED <<rollout, resolved, selection, operator, changes, seen, active,
                    task, discoveries, feedFaults>>

MutantKeepsSession(p) ==
  /\ session[p].at = "check"
  /\ session' = [session EXCEPT ![p].at = "open"]
  /\ UNCHANGED <<rolloutVars, seen, active, task, discoveries, feedFaults>>

SessionChecks(p) ==
  /\ session[p].at = "check"
  /\ session' = [session EXCEPT ![p] =
       IF RolloutChanged(p) THEN Idle ELSE [@ EXCEPT !.at = "open", !.behind = 0]]
  /\ UNCHANGED <<rolloutVars, seen, active, task, discoveries, feedFaults>>

\* The socket cannot be dialled, stays silent past its deadline or drops.
SessionDrops(p) ==
  /\ session[p].at = "open"
  /\ feedFaults < MaxFeedFaults
  /\ feedFaults' = feedFaults + 1
  /\ SessionFails(p)
  /\ UNCHANGED <<rollout, resolved, selection, operator, changes, seen, active,
                 task, discoveries>>

\* A publishing flush whose tickers match no enabled market is an error: the attempt
\* counts under the session's key, the failure under the rollout's present one.
FlushMatchesNothing(p) ==
  /\ session[p].at = "open" /\ Publishes(session[p])
  /\ feedFaults < MaxFeedFaults
  /\ feedFaults' = feedFaults + 1
  /\ LET attempted == Recorded(p, session[p].key,
                               RecordAttempt(Recording(p, session[p].key)))
     IN status' = [attempted EXCEPT ![p] = [k \in StatusKey |->
          IF k = StreamSourceKey(rollout[p]) THEN RecordFailure(@[k]) ELSE @[k]]]
  /\ session' = [session EXCEPT ![p] = Idle]
  /\ UNCHANGED <<rollout, resolved, selection, operator, changes, seen, active,
                 task, discoveries>>

(***************************************************************************)
(* The catalog supervisor.  Its refresh and the reconcile run in different *)
(* goroutines; each reads the published assets and applies them in a later *)
(* transaction.                                                            *)
(***************************************************************************)
TaskFails(p, kind) == task' = [task EXCEPT ![p][kind] = Idle]

Discover(p) ==
  /\ task[p]["refresh"] = Idle
  /\ discoveries < MaxDiscoveries
  /\ \E listed \in SUBSET Assets \ {{}} : \E good \in SUBSET listed :
       /\ seen' = [seen EXCEPT ![p] = listed]
       /\ resolved' = [resolved EXCEPT ![p] = (@ \ listed) \cup good]
  /\ discoveries' = discoveries + 1
  /\ task' = [task EXCEPT ![p]["refresh"] = [at |-> "select"]]
  /\ UNCHANGED <<rollout, selection, status, operator, changes, active, session,
                 feedFaults>>

EnsureSelected(p) ==
  /\ task[p]["refresh"].at = "select"
  /\ IF ~ rollout[p].preview
     THEN task' = [task EXCEPT ![p]["refresh"] = [at |-> "allowed"]] /\ UNCHANGED selection
     ELSE IF EnsureSelection(p, selection[p]) # selection[p]
             /\ (SelectionFails(p) \/ selection[p].version = MaxSelections)
     THEN TaskFails(p, "refresh") /\ UNCHANGED selection  \* or a query fails
     ELSE /\ selection' = [selection EXCEPT ![p] = EnsureSelection(p, @)]
          /\ task' = [task EXCEPT ![p]["refresh"] = [at |-> "allowed"]]
  /\ UNCHANGED <<rollout, resolved, status, operator, changes, seen, active, session,
                 discoveries, feedFaults>>

ReadAllowed(p, kind) ==
  /\ task[p][kind].at = IF kind = "refresh" THEN "allowed" ELSE "idle"
  /\ rollout' = IF rollout[p].preview THEN rollout ELSE Frozen(p)
  /\ task' = [task EXCEPT ![p][kind] =
       IF PublishedFails(p, rollout'[p]) THEN Idle
       ELSE [at |-> "apply", allowed |-> Published(p, rollout'[p])]]
  /\ UNCHANGED <<resolved, selection, status, operator, changes, seen, active, session,
                 discoveries, feedFaults>>

\* EnableResolvedSpotMarkets: a market closes when the catalog reports it
\* ineligible or it is outside the allowed assets; absence from the catalog
\* neither closes it nor opens it.
MutantNothingAllowed(p, allowed) ==
  IF allowed = {} THEN active[p]
  ELSE ((active[p] \ (seen[p] \ resolved[p])) \cap allowed)
         \cup (seen[p] \cap resolved[p] \cap allowed)

Enabled(p, allowed) ==
  ((active[p] \ (seen[p] \ resolved[p])) \cap allowed)
    \cup (seen[p] \cap resolved[p] \cap allowed)

EnableResolvedSpotMarkets(p, kind) ==
  /\ task[p][kind].at = "apply"
  /\ active' = [active EXCEPT ![p] =
       IF seen[p] = {} THEN @
       ELSE Enabled(p, task[p][kind].allowed)]
  /\ TaskFails(p, kind)
  /\ UNCHANGED <<rolloutVars, seen, session, discoveries, feedFaults>>

Session(p) == \/ SessionReads(p) \/ CoinbaseReads(p) \/ SessionKey(p) \/ SessionOpens(p)
              \/ Flush(p) \/ SessionChecks(p) \/ SessionDrops(p) \/ FlushMatchesNothing(p)
Catalog(p) == \/ Discover(p) \/ EnsureSelected(p)
              \/ \E kind \in {"refresh", "reconcile"} :
                   ReadAllowed(p, kind) \/ EnableResolvedSpotMarkets(p, kind)

Operate == RolloutNext /\ UNCHANGED feedVars

SpotNext == Operate \/ \E p \in Provider : Session(p) \/ Catalog(p)

\* The 30 s reconcile ticker and the catalog goroutine keep running.
SpotFairness ==
  \A p \in Provider :
    /\ WF_spotVars(EnsureSelected(p))
    /\ \A kind \in {"refresh", "reconcile"} :
         /\ WF_spotVars(ReadAllowed(p, kind))
         /\ WF_spotVars(EnableResolvedSpotMarkets(p, kind))

(***************************************************************************)
(* Properties.                                                             *)
(***************************************************************************)
RowType == [attempted : BOOLEAN, qualified : BOOLEAN, failing : BOOLEAN,
            fresh : BOOLEAN, stray : 0..2]

\* The types of the rows, the sessions and the markets.
SpotTypeOK ==
  /\ rollout \in [Provider -> [mode : Modes, preview : BOOLEAN, canary : SUBSET Assets]]
  /\ status \in [Provider -> [StatusKey -> RowType]]
  /\ \A p \in Provider :
       /\ resolved[p] \cup seen[p] \cup active[p] \subseteq Assets
       /\ selection[p].assets \subseteq Assets
       /\ selection[p].version \in 0..MaxSelections
       /\ session[p].at \in {"idle", "key", "markets", "open", "check"}

\* A session publishes at most one flush after its provider's mode or preview
\* changed: runStreamSession reads the rollout again after every flush.  And
\* outside preview the row a promotion is judged by holds at most one success
\* that another rollout or a preview session earned, although the session reads
\* its rollout and its source key in two queries.
OneFlushBehind ==
  \A p \in Provider :
    /\ session[p].at \in {"open", "check"} => session[p].behind <= 1
    /\ ~ rollout[p].preview => status[p]["spot-tickers"].stray <= 1

\* While a provider stays a canary its persisted asset list never changes,
\* whatever the catalog and the ranks do and however many queries freeze it
\* (QueryRolloutAssetIDs: "can never silently replace that persisted canary
\* set"); only the first freeze of an empty list writes it.
CanaryFrozen ==
  [][\A p \in Provider :
       (rollout[p].mode = "canary" /\ rollout[p].canary # {} /\ rollout'[p].mode = "canary")
         => rollout'[p].canary = rollout[p].canary]_spotVars

\* Once the rollouts settle, no market stays active outside the published
\* assets, although both catalog goroutines apply a boundary they read
\* earlier: the reconcile repairs a stale apply.
BoundaryReached ==
  \A p \in Provider :
    <>[](PublishedFails(p, rollout[p]) \/ active[p] \subseteq Published(p, rollout[p]))
=============================================================================
