--------------------------- MODULE ProviderRouter ---------------------------
(***************************************************************************)
(* The provider contract (marketdata/providercontract): concurrent         *)
(* dispatches that read a bounded cache, ask the registered providers in   *)
(* order, honour their rate-limit windows, and hand a result with its      *)
(* trace to the consumer. A fact is abstracted to who says it, when it was *)
(* observed, and a ticker's bid and ask or a few candles; of the four      *)
(* capabilities a request has one of these two.                            *)
(***************************************************************************)
EXTENDS Integers, Sequences, FiniteSets, Functions

CONSTANTS Upstreams,     \* provider ids in registration order
          Serves,        \* provider -> its capabilities, "spot_ticker" or "ohlcv"
          Callers,       \* concurrent Dispatch calls
          CacheCapacity, \* entries of the cache
          CacheLife,     \* RouterOptions.CacheTTL
          FactLife,      \* Metadata.TTL
          LastSecond     \* the clock runs from 0 to LastSecond

VARIABLES second,        \* the router's clock
          cached,        \* cache key -> its entry
          blockedUntil,  \* provider -> end of its rate-limit window
          call           \* caller -> its dispatch

routerVars == <<second, cached, blockedUntil, call>>

ASSUME RouterAssumption ==
  /\ Upstreams \in Seq(Range(Upstreams))
  /\ CacheCapacity \in Nat /\ LastSecond \in Nat
  /\ IsFiniteSet(UNION {Serves[p] : p \in Range(Upstreams)})

Upstream == Range(Upstreams)
Asked == UNION {Serves[p] : p \in Upstream}
NoFact == [source |-> "none", observed |-> 0, capability |-> "none", data |-> <<>>]
\* No dispatch in progress; one that fails returns here with its error.
NoCall == [at |-> "idle", key |-> "none", next |-> 0, trace |-> <<>>, fact |-> NoFact,
           until |-> 0, hit |-> FALSE, when |-> 0]
Attempt(p, kind, hit) == [provider |-> p, kind |-> kind, hit |-> hit]

RouterInit ==
  /\ second = 0
  /\ cached = [k \in {} |-> NoFact]
  /\ blockedUntil = [p \in Upstream |-> 0]
  /\ call = [c \in Callers |-> NoCall]

\* Unsupported and the retryable kinds: "unavailable" stands for those that are not a
\* rate limit, "bad_payload" for every kind that ends the dispatch.
FallbackEligible(kind) == kind \in {"rate_limit", "unavailable"}

\* Observed in the future; the permitted clock skew is below the model's clock.
NormalizeMetadata(fact, t) == fact.observed <= t

NormalizeSpotTicker(ticker) == ticker.bid <= ticker.ask

normalizeCandle(candle) == candle.low <= candle.high

\* Candles of one open time are one candle, sent twice.
NormalizeOHLCV(candles) ==
  /\ candles # <<>>
  /\ \A c \in Range(candles) : normalizeCandle(c)
  /\ \A c, d \in Range(candles) : c.opens = d.opens => c = d

NormalizeResponse(fact, t) ==
  /\ NormalizeMetadata(fact, t)
  /\ IF fact.capability = "spot_ticker" THEN NormalizeSpotTicker(fact.data) ELSE NormalizeOHLCV(fact.data)

ResponseFreshness(fact, t) == IF t - fact.observed > FactLife THEN "stale" ELSE "fresh"

\* The error kind of a fact at time t, or "none".
FactError(fact, t) ==
  IF ~NormalizeResponse(fact, t) THEN "bad_payload"
  ELSE IF ResponseFreshness(fact, t) = "fresh" THEN "none" ELSE "stale"

MutantTrustPayload(p, key, fact, t) == IF fact.source # p THEN "invalid_identity" ELSE "none"

normalizeRoutedResponse(p, key, fact, t) ==
  IF fact.capability # key THEN "bad_payload"
  ELSE IF fact.source # p THEN "invalid_identity"
  ELSE FactError(fact, t)

\* The entries that stay; lastUsed is kept as a rank among them.
Only(keys) ==
  [k \in keys |-> [cached[k] EXCEPT !.used = Cardinality({j \in keys : cached[j].used < cached[k].used})]]

Delete(key) == Only(DOMAIN cached \ {key})

\* The entry of a key becomes the most recently used one beside those of keys.
Insert(keys, key, fact, until) ==
  [k \in keys \cup {key} |->
     IF k = key THEN [fact |-> fact, until |-> until, used |-> Cardinality(keys)] ELSE Only(keys)[k]]

Live(key) == second < cached[key].until

\* An expired entry is dropped, a live one is marked used.
Get(key) ==
  IF key \in DOMAIN cached /\ Live(key)
  THEN Insert(DOMAIN cached \ {key}, key, cached[key].fact, cached[key].until)
  ELSE Delete(key)

Put(c, with) == call' = [call EXCEPT ![c] = with]

\* Dispatch up to the cache lookup.
Dispatch(c, key) ==
  /\ call[c].at \in {"idle", "answered"}
  /\ cached' = Get(key)
  /\ IF key \in DOMAIN cached /\ Live(key)
     THEN Put(c, [NoCall EXCEPT !.at = "hit", !.key = key, !.fact = cached[key].fact])
     ELSE Put(c, [NoCall EXCEPT !.at = "asking", !.key = key, !.next = 1])
  /\ UNCHANGED <<second, blockedUntil>>

\* The rest of the cache branch: a bad entry is an error, never a reason to ask on.
UseCached(c) ==
  LET k == call[c]
      p == k.fact.source
      error == IF k.key \notin Serves[p] THEN "invalid_identity"
               ELSE normalizeRoutedResponse(p, k.key, k.fact, second)
  IN /\ k.at = "hit"
     /\ IF error = "none"
        THEN /\ Put(c, [k EXCEPT !.at = "answered", !.trace = <<Attempt(p, "none", TRUE)>>,
                                 !.hit = TRUE, !.when = second])
             /\ UNCHANGED cached
        ELSE Put(c, NoCall) /\ cached' = Delete(k.key)
     /\ UNCHANGED <<second, blockedUntil>>

\* One turn of the provider loop up to Fetch: past the end, not capable, blocked or asked.
AskNext(c) ==
  LET k == call[c]
      p == Upstreams[k.next]
  IN /\ k.at = "asking"
     /\ IF k.next > Len(Upstreams) THEN Put(c, NoCall)
        ELSE IF k.key \notin Serves[p] THEN Put(c, [k EXCEPT !.next = @ + 1])
        ELSE IF second < blockedUntil[p]
        THEN Put(c, [k EXCEPT !.next = @ + 1, !.trace = Append(@, Attempt(p, "rate_limit", FALSE))])
        ELSE Put(c, [k EXCEPT !.at = "fetching"])
     /\ UNCHANGED <<second, cached, blockedUntil>>

\* Fetch returned a fact: a fact that does not normalise ends the dispatch.
FetchedFact(c, fact) ==
  LET k == call[c]
      p == Upstreams[k.next]
      error == normalizeRoutedResponse(p, k.key, fact, second)
      life == LET left == fact.observed + FactLife - second
              IN IF left < CacheLife THEN left ELSE CacheLife
  IN /\ k.at = "fetching"
     /\ Put(c, IF error # "none" THEN NoCall
               ELSE [k EXCEPT !.trace = Append(@, Attempt(p, "none", FALSE)), !.fact = fact,
                              !.at = IF life > 0 THEN "storing" ELSE "answered",
                              !.until = second + life, !.when = second])
     /\ UNCHANGED <<second, cached, blockedUntil>>

MutantShorten(p, retryAfter) == second + retryAfter

\* block: a window is only ever extended.
block(p, retryAfter) ==
  IF second + retryAfter > blockedUntil[p] THEN second + retryAfter ELSE blockedUntil[p]

\* Fetch failed; bindProviderError turned an untyped error into bad_payload and
\* another provider's into invalid_identity.
FetchFailed(c, kind, retryAfter) ==
  LET k == call[c]
      p == Upstreams[k.next]
  IN /\ k.at = "fetching"
     /\ Put(c, IF FallbackEligible(kind)
               THEN [k EXCEPT !.at = "asking", !.next = @ + 1,
                              !.trace = Append(@, Attempt(p, kind, FALSE))]
               ELSE NoCall)
     /\ blockedUntil' = IF kind = "rate_limit" /\ retryAfter > 0
                        THEN [blockedUntil EXCEPT ![p] = block(p, retryAfter)]
                        ELSE blockedUntil
     /\ UNCHANGED <<second, cached>>

\* evictOneLocked among the entries beside the one just inserted.
Victim(keys) == CHOOSE k \in keys : \A j \in keys : cached[k].used <= cached[j].used

\* Drop what expired, insert as most recent, evict the least recent; one entry came
\* in, so one eviction is enough.
putUntil(c) ==
  LET k == call[c]
      live == {key \in DOMAIN cached \ {k.key} : Live(key)}
      stay == IF Cardinality(live) < CacheCapacity THEN live ELSE live \ {Victim(live)}
  IN /\ k.at = "storing"
     /\ cached' = IF CacheCapacity = 0 \/ second >= k.until THEN Delete(k.key)
                  ELSE Insert(stay, k.key, k.fact, k.until)
     /\ Put(c, [k EXCEPT !.at = "answered"])
     /\ UNCHANGED <<second, blockedUntil>>

\* The caller's context ends: the loop's check and the one after Fetch return its error.
Cancel(c) ==
  /\ call[c].at \in {"asking", "fetching"}
  /\ Put(c, NoCall)
  /\ UNCHANGED <<second, cached, blockedUntil>>

SecondPasses ==
  /\ second < LastSecond
  /\ second' = second + 1
  /\ UNCHANGED <<cached, blockedUntil, call>>

Candle(low, high) == [opens |-> 0, low |-> low, high |-> high]

\* For each capability one good payload and the ways to be a bad one.
Payloads(capability) ==
  IF capability = "spot_ticker" THEN {[bid |-> 1, ask |-> 1], [bid |-> 2, ask |-> 1]}
  ELSE {<<Candle(1, 1)>>, <<>>, <<Candle(2, 1)>>, <<Candle(1, 1), Candle(1, 2)>>}

RouterNext ==
  \/ SecondPasses
  \/ \E c \in Callers :
       \/ \E key \in Asked : Dispatch(c, key)
       \/ UseCached(c) \/ AskNext(c) \/ putUntil(c) \/ Cancel(c)
       \/ \E source \in Upstream, observed \in 0 .. second + 1, capability \in Asked :
            \E data \in Payloads(capability) :
              FetchedFact(c, [source |-> source, observed |-> observed,
                              capability |-> capability, data |-> data])
       \/ \E kind \in {"unavailable", "bad_payload"} : FetchFailed(c, kind, 0)
       \/ \E retryAfter \in 0 .. 2 : FetchFailed(c, "rate_limit", retryAfter)

\* Consumer.NormalizeDispatch at time t.
NormalizeDispatch(k, t) ==
  /\ FactError(k.fact, t) = "none"
  /\ k.trace # <<>>
  /\ k.trace[Len(k.trace)] = Attempt(k.fact.source, "none", k.hit)
  /\ \A i \in 1 .. Len(k.trace) - 1 : ~k.trace[i].hit /\ FallbackEligible(k.trace[i].kind)
-----------------------------------------------------------------------------
RouterTypeOK ==
  /\ second \in 0 .. LastSecond
  /\ Cardinality(DOMAIN cached) <= CacheCapacity
  /\ blockedUntil \in [Upstream -> 0 .. LastSecond + 2]
  /\ DOMAIN call = Callers

(* What Dispatch returns, fetched or cached, passes the independent checks of  *)
(* Consumer.NormalizeDispatch at the moment it is returned: a usable fact      *)
(* within its TTL, said by the provider the trace selected, and before it only *)
(* attempts that allow a fallback. Bad data of an earlier provider is never    *)
(* masked by a later one or by the cache, however concurrent dispatches share  *)
(* the cache while time passes.                                                *)
ConsumerAccepts ==
  \A c \in Callers : call[c].at = "answered" => NormalizeDispatch(call[c], call[c].when)

(* A rate-limit window another dispatch opened is never shortened: a late 429  *)
(* with a smaller Retry-After may not let a provider be asked earlier (block). *)
WindowsNeverShrink ==
  [][\A p \in Upstream : second < blockedUntil[p] => blockedUntil'[p] >= blockedUntil[p]]_routerVars
=============================================================================
