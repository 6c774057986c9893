--------------------------- MODULE ResearchSignals ---------------------------
(***************************************************************************)
(* The research signal client (marketdata/researchsignal) behind its HTTP  *)
(* handlers: concurrent reads of one upstream document through a cache     *)
(* that revalidates with If-None-Match, retries once, and honours a        *)
(* Retry-After window; and the deduplication of an events page. A document *)
(* is abstracted to its version and to how its status normalises.          *)
(***************************************************************************)
EXTENDS Integers, Sequences, FiniteSets, Functions

CONSTANTS Readers,       \* concurrent reads
          Versions,      \* 1 .. n, the documents upstream publishes in turn
          ResponseLife,  \* cacheTTL
          RequestTime,   \* requestTimeout, which covers both attempts of a read
          LastTick,      \* the clock runs from 0 to LastTick
          Pages          \* events pages: sequences of [id, hash]

Copies == UNION {Range(input) : input \in Pages}

\* requestTimeout is 5 s and cacheTTL 30 s.
ASSUME ResearchAssumption ==
  /\ \E n \in Versions : n \in Nat \ {0} /\ Versions = 1 .. n
  /\ ResponseLife \in Nat /\ RequestTime \in Nat /\ LastTick \in Nat
  /\ RequestTime <= ResponseLife
  /\ Pages \subseteq Seq([id : {e.id : e \in Copies}, hash : {e.hash : e \in Copies}])

VARIABLES tick,          \* the clock
          published,     \* the version upstream serves now
          publishable,   \* the versions whose status normalises to a cacheable one
          lastCurrent,   \* version -> the last tick at which upstream served it
          response,      \* the cache entry [version, stored], or NoResponse
          retryAt,       \* blockedUntil
          read,          \* reader -> its read in progress, or NotReading
          page           \* the last page normalizeEvents returned

upstreamVars == <<tick, published, publishable, lastCurrent>>
researchVars == <<upstreamVars, response, retryAt, read, page>>

NoResponse == [version |-> 0, stored |-> 0]
NotReading == [at |-> "idle", version |-> 0, since |-> 0, second |-> FALSE, received |-> 0]
NoPage == [input |-> <<>>, output |-> {}, duplicates |-> 0, conflicts |-> 0]

ResearchInit ==
  /\ tick = 0
  /\ published = 1
  /\ publishable \in SUBSET Versions
  /\ lastCurrent = [v \in Versions |-> 0]
  /\ response = NoResponse
  /\ retryAt = 0
  /\ read = [r \in Readers |-> NotReading]
  /\ page = NoPage

SetRead(r, with) == read' = [read EXCEPT ![r] = with]

\* fetch up to the request: the retry window, then a fresh entry, then upstream
\* with the validator of the entry it saw. The first two end the read.
StartRead(r) ==
  /\ read[r].at = "idle"
  /\ tick >= retryAt
  /\ response = NoResponse \/ tick - response.stored > ResponseLife
  /\ SetRead(r, [NotReading EXCEPT !.at = "sent", !.version = response.version, !.since = tick])
  /\ UNCHANGED <<upstreamVars, response, retryAt, page>>

\* Upstream answers with the document of this moment: 304 when the ETag still matches.
UpstreamAnswers(r) ==
  /\ read[r].at = "sent"
  /\ SetRead(r, [read[r] EXCEPT !.at = IF read[r].version = published THEN "304" ELSE "200",
                                !.version = published])
  /\ UNCHANGED <<upstreamVars, response, retryAt, page>>

\* The headers of a 200 arrive and the candidate entry is stamped; its body follows.
HeadersArrive(r) ==
  /\ read[r].at = "200"
  /\ SetRead(r, [read[r] EXCEPT !.at = "body", !.received = tick])
  /\ UNCHANGED <<upstreamVars, response, retryAt, page>>

MutantCacheAnything(version) == TRUE

cacheableStatus(version) == version \in publishable

\* The body is normalised; a document of cacheable status is accepted into the
\* cache with its stamp, whatever the cache holds by now.
AcceptBody(r) ==
  LET version == read[r].version
  IN /\ read[r].at = "body"
     /\ response' = IF cacheableStatus(version)
                    THEN [version |-> version, stored |-> read[r].received] ELSE response
     /\ SetRead(r, NotReading)
     /\ UNCHANGED <<upstreamVars, retryAt, page>>

\* cache.refresh on a 304: the entry cached by now is taken as confirmed at this
\* moment; without one the read fails.
ReceiveNotModified(r) ==
  /\ read[r].at = "304"
  /\ response' = IF response = NoResponse THEN response ELSE [response EXCEPT !.stored = tick]
  /\ SetRead(r, NotReading)
  /\ UNCHANGED <<upstreamVars, retryAt, page>>

\* A timeout or 5xx is tried once more with the same validator; any other failure,
\* or a second one, ends the read.
RequestFails(r, retry) ==
  /\ read[r].at = "sent"
  /\ SetRead(r, IF retry /\ ~read[r].second THEN [read[r] EXCEPT !.second = TRUE] ELSE NotReading)
  /\ UNCHANGED <<upstreamVars, response, retryAt, page>>

\* HTTP 429: the window is set from this answer alone.
RateLimited(r) ==
  /\ read[r].at = "sent"
  /\ \E retryAfter \in 1 .. 2 : retryAt' = tick + retryAfter
  /\ SetRead(r, NotReading)
  /\ UNCHANGED <<upstreamVars, response, page>>

MutantNoDeadline(r) == FALSE

\* requestTimeout has passed since fetch began.
Expired(r) == read[r].at # "idle" /\ tick >= read[r].since + RequestTime

TimesOut(r) ==
  /\ Expired(r)
  /\ SetRead(r, NotReading)
  /\ UNCHANGED <<upstreamVars, response, retryAt, page>>

\* Other keys push the entry out of the bounded cache.
EntryEvicted ==
  /\ response # NoResponse
  /\ response' = NoResponse
  /\ UNCHANGED <<upstreamVars, retryAt, read, page>>

Publish ==
  /\ published + 1 \in Versions
  /\ published' = published + 1
  /\ lastCurrent' = [lastCurrent EXCEPT ![published] = tick, ![published + 1] = tick]
  /\ UNCHANGED <<tick, publishable, response, retryAt, read, page>>

TickPasses ==
  /\ tick < LastTick
  /\ \A r \in Readers : ~Expired(r)
  /\ tick' = tick + 1
  /\ lastCurrent' = [lastCurrent EXCEPT ![published] = tick + 1]
  /\ UNCHANGED <<published, publishable, response, retryAt, read, page>>

FirstOf(input, id) == CHOOSE i \in DOMAIN input :
  input[i].id = id /\ \A j \in 1 .. i - 1 : input[j].id # id

MutantKeepFirst(input) == {}

\* IDs one page carries with different contents.
conflicted(input) == {input[i].id : i \in {j \in DOMAIN input :
  input[j].hash # input[FirstOf(input, input[j].id)].hash}}

\* normalizeEvents: one item per ID, none of a conflicted one, and the quality counts.
normalizeEvents(input) ==
  LET ids == {input[i].id : i \in DOMAIN input}
  IN [input |-> input,
      output |-> {input[FirstOf(input, id)] : id \in ids \ conflicted(input)},
      duplicates |-> Cardinality({i \in DOMAIN input :
                       LET first == FirstOf(input, input[i].id)
                       IN i # first /\ input[i].hash = input[first].hash}),
      conflicts |-> Cardinality(conflicted(input))]

EventsPage ==
  /\ \E input \in Pages : page' = normalizeEvents(input)
  /\ UNCHANGED <<upstreamVars, response, retryAt, read>>

ResearchRead(r) ==
  \/ StartRead(r) \/ UpstreamAnswers(r) \/ HeadersArrive(r) \/ AcceptBody(r)
  \/ ReceiveNotModified(r) \/ RateLimited(r) \/ TimesOut(r)
  \/ \E retry \in BOOLEAN : RequestFails(r, retry)

ResearchReads ==
  \/ Publish \/ TickPasses \/ EntryEvicted
  \/ \E r \in Readers : ResearchRead(r)

ResearchNext == ResearchReads \/ EventsPage
-----------------------------------------------------------------------------
ResearchTypeOK ==
  /\ tick \in 0 .. LastTick
  /\ published \in Versions
  /\ response.version \in Versions \cup {0}
  /\ \A r \in Readers : read[r].at \in {"idle", "sent", "200", "body", "304"}

(* Whatever the cache holds was upstream's document at most one request time   *)
(* before the instant it is stamped with, so a cached read is never older than *)
(* cacheTTL plus one request time, and never one of a status accept refuses:   *)
(* also when a 304 about an older ETag restamps a newer entry (refresh). It    *)
(* rests on cacheTTL being no shorter than the request time: otherwise a slow  *)
(* body replaces a newer entry and a 304 about that one confirms the old.      *)
BoundedStaleness ==
  response # NoResponse =>
    /\ response.version \in publishable
    /\ response.stored - lastCurrent[response.version] <= RequestTime

(* The counts normalizeEvents reports always pass the check of the quality     *)
(* adapter (ResearchEventsEvidence): input >= output + duplicates + 2 x        *)
(* conflicts, and no item of a conflicting ID is published, in whatever order  *)
(* equal and conflicting copies arrive.                                        *)
DedupAccounted ==
  LET in == page.input
  IN /\ Len(in) >= Cardinality(page.output) + page.duplicates + 2 * page.conflicts
     /\ \A item \in page.output : \A i \in DOMAIN in : in[i].id = item.id => in[i] = item
=============================================================================
