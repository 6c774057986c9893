----------------------------- MODULE RestPolls -----------------------------
(***************************************************************************)
(* The REST side of the spot feeds (crawler/spot_ticker_supervisor.go):    *)
(* the batch poll of Binance, Bybit and OKX, which probes a shadow and     *)
(* reconciles a published provider, and Coinbase's fallback for products   *)
(* the websocket has left quiet.  Each reads the rollout and its boundary, *)
(* then fetches, then writes.                                              *)
(***************************************************************************)
EXTENDS SpotFeed

VARIABLE poll  \* provider -> its REST poll

pollVars == <<spotVars, poll>>

PollInit == poll = [p \in Provider |-> Idle]

MutantRestKey(source) == IF source = "probe" THEN "spot-tickers-shadow" ELSE "spot-tickers"

\* The status row a poll reports under. Only the probe's is evidence.
RestKey(source) ==
  CASE source = "probe" -> "spot-tickers-shadow"
    [] source = "reconcile" -> "spot-tickers-rest-reconcile"
    [] source = "fallback" -> "spot-tickers-rest-fallback"

StartPoll(p, source, markets) ==
  IF markets = {}
  THEN poll' = [poll EXCEPT ![p] = Idle] /\ UNCHANGED status
  ELSE /\ poll' = [poll EXCEPT ![p] = [at |-> "fetching", source |-> source,
                                       markets |-> markets]]
       /\ status' = Recorded(p, RestKey(source),
                             RecordAttempt(Recording(p, RestKey(source))))

\* probeBatchAdapter: a shadow or paused provider is asked for every eligible candidate.
Probe(p) ==
  /\ poll[p] = Idle
  /\ ~ Publishes(rollout[p])
  /\ StartPoll(p, "probe", Eligible(p))
  /\ UNCHANGED <<rollout, resolved, selection, operator, changes, feedVars>>

\* The boundary of a publishing poll; the query freezes a canary without a list.
Boundary(p) == IF rollout[p].preview THEN rollout ELSE Frozen(p)
Allowed(p) == LET row == Boundary(p)[p]
              IN IF PublishedFails(p, row) THEN {} ELSE Published(p, row)

\* fetchAndWriteBatch of a published provider: its active markets within the boundary.
Reconcile(p) ==
  /\ poll[p] = Idle
  /\ Publishes(rollout[p])
  /\ rollout' = Boundary(p)
  /\ StartPoll(p, "reconcile", active[p] \cap Allowed(p))
  /\ UNCHANGED <<resolved, selection, operator, changes, feedVars>>

\* selectCoinbaseFallbackMarkets: the assets the venue has no fresh snapshot of.
FallbackMarkets(p, fresh) == (active[p] \cap Allowed(p)) \ fresh

Fallback(p) ==
  /\ poll[p] = Idle
  /\ Publishes(rollout[p])
  /\ rollout' = Boundary(p)
  /\ \E fresh \in SUBSET Assets : StartPoll(p, "fallback", FallbackMarkets(p, fresh))
  /\ UNCHANGED <<resolved, selection, operator, changes, feedVars>>

\* A batch adapter answers whole or not at all.
BatchFetch(markets) == {{}, markets}

\* Two workers ask product by product; the answers that came are used unless there
\* is none.
fetchCoinbaseRESTFallback(markets) == SUBSET markets

Answers(p) ==
  IF poll[p].source = "fallback" THEN fetchCoinbaseRESTFallback(poll[p].markets)
  ELSE BatchFetch(poll[p].markets)

\* The fetch returns: tickers a publishing poll writes and a probe only counts, or
\* a failure, with nothing fetched or nothing of it written.
PollReturns(p) ==
  LET key == RestKey(poll[p].source)
      strays == poll[p].source = "probe" /\ Publishes(rollout[p])
  IN /\ poll[p].at = "fetching"
     /\ \E answered \in Answers(p) :
          IF answered = {}
          THEN /\ feedFaults < MaxFeedFaults
               /\ feedFaults' = feedFaults + 1
               /\ status' = Recorded(p, key, RecordFailure(Recording(p, key)))
          ELSE /\ status' = Recorded(p, key, RecordSuccess(Recording(p, key), strays))
               /\ UNCHANGED feedFaults
     /\ poll' = [poll EXCEPT ![p] = Idle]
     /\ UNCHANGED <<rollout, resolved, selection, operator, changes, seen, active,
                    session, task, discoveries>>

Poll(p) == Probe(p) \/ Reconcile(p) \/ Fallback(p) \/ PollReturns(p)
-----------------------------------------------------------------------------
(* While no ticker stream connects, no provider is promoted past canary: the  *)
(* REST reconcile and fallback write its tickers but report under rows the    *)
(* readiness rules never read, whatever changed between their read and their  *)
(* write, so the formal row takes no success from them.                       *)
PollsNeverPromote ==
  \A p \in Provider :
    /\ rollout[p].mode # "enabled"
    /\ ~ status[p]["spot-tickers"].fresh
=============================================================================
