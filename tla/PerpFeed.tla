------------------------------ MODULE PerpFeed ------------------------------
(***************************************************************************)
(* The Hyperliquid crawler (crawler/hyperliquid.go): a registry of the     *)
(* perpetuals it has registered, loaded once at start, and a five-second   *)
(* cycle that audits the venue's catalogue, registers each published       *)
(* contract (exchange, symbol and exchange_symbol rows) and writes its     *)
(* snapshot.                                                               *)
(***************************************************************************)
EXTENDS Integers, FiniteSets

CONSTANTS Perps,          \* contracts the venue lists and the rollout publishes
          MaxPerpFaults   \* failed queries and inserts, lost replies and restarts

VARIABLES aliases,        \* database: contracts whose alias has been approved
          venueRow,       \* database: the exchange row exists
          symbolRows,     \* database: contracts with a symbol row
          linkRows,       \* database: contracts with an exchange_symbol row
          candidate,      \* database: contract -> resolution status
          perpRows,       \* contracts with a snapshot
          registry,       \* the maps in memory
          cycle,          \* the cycle in progress
          perpFaults

perpVars == <<aliases, venueRow, symbolRows, linkRows, candidate, perpRows,
              registry, cycle, perpFaults>>

\* Without initRegistry the maps are nil.
NilRegistry == [loaded |-> FALSE, approved |-> {}, symbols |-> {}, links |-> {}]
BetweenCycles == [at |-> "idle"]

\* initRegistry: everything that is in the database, or an error that Start logs.
initRegistry ==
  [loaded |-> TRUE, approved |-> aliases, symbols |-> symbolRows, links |-> linkRows]

PerpInit ==
  /\ aliases \in SUBSET Perps
  /\ venueRow \in BOOLEAN
  /\ symbolRows = {}
  /\ linkRows = {}
  /\ candidate = [n \in Perps |-> "none"]
  /\ perpRows = {}
  /\ registry \in {initRegistry, NilRegistry}
  /\ cycle = BetweenCycles
  /\ perpFaults = 0

PerpFault == perpFaults < MaxPerpFaults /\ perpFaults' = perpFaults + 1

ReviewAlias(n) ==
  /\ n \notin aliases
  /\ aliases' = aliases \cup {n}
  /\ UNCHANGED <<venueRow, symbolRows, linkRows, candidate, perpRows, registry, cycle, perpFaults>>

Resolution(n, approved) ==
  CASE n \notin approved -> "discovered"
    [] n \in registry.symbols /\ n \in registry.links -> "enabled"
    [] OTHER -> "resolved"

\* fetchAndStore up to QueryPublishedAssetIDs: auditCatalog reads the approved
\* aliases again and stores every listed contract as a candidate. A failed
\* audit is logged and the cycle goes on with what it has.
FetchAndAudit ==
  /\ cycle = BetweenCycles
  /\ \/ /\ registry' = [registry EXCEPT !.approved = aliases]
        /\ candidate' = [n \in Perps |-> Resolution(n, aliases)]
        /\ UNCHANGED perpFaults
     \/ PerpFault /\ UNCHANGED <<registry, candidate>>
  /\ cycle' = [at |-> "listing", left |-> Perps]
  /\ UNCHANGED <<aliases, venueRow, symbolRows, linkRows, perpRows>>

\* A failed fetch or rollout query ends the cycle.
CycleAborts ==
  /\ cycle.at = "listing"
  /\ PerpFault
  /\ cycle' = BetweenCycles
  /\ UNCHANGED <<aliases, venueRow, symbolRows, linkRows, candidate, perpRows, registry>>

NextPerp(n) ==
  IF cycle.left = {n} THEN BetweenCycles ELSE [at |-> "listing", left |-> cycle.left \ {n}]

\* processPerp: a contract without an approved alias, with an incomplete or
\* malformed context, or any contract while the registry is nil, is skipped; the
\* others go through ensureRegistered.
ProcessPerp(n) ==
  /\ cycle.at = "listing"
  /\ n \in cycle.left
  /\ \/ /\ registry.loaded /\ n \in registry.approved
        /\ cycle' = [at |-> "exchange", left |-> cycle.left, name |-> n]
     \/ cycle' = NextPerp(n)
  /\ UNCHANGED <<aliases, venueRow, symbolRows, linkRows, candidate, perpRows, registry, perpFaults>>

Continue(stage) == cycle' = [cycle EXCEPT !.at = stage]

\* ensureExchangeLocked looks the exchange up every time.
EnsureExchange ==
  /\ cycle.at = "exchange"
  /\ \/ venueRow /\ Continue("symbol") /\ UNCHANGED <<venueRow, perpFaults>>
     \/ ~venueRow /\ venueRow' = TRUE /\ Continue("symbol") /\ UNCHANGED perpFaults
     \/ venueRow' \in {venueRow, TRUE} /\ PerpFault /\ cycle' = NextPerp(cycle.name)
  /\ UNCHANGED <<aliases, symbolRows, linkRows, candidate, perpRows, registry>>

\* The symbol map decides whether to insert; a row that exists is a duplicate key.
EnsureSymbol ==
  LET n == cycle.name
      known == n \in registry.symbols
      inserted == symbolRows' = symbolRows \cup {n}
  IN /\ cycle.at = "symbol"
     /\ \/ known /\ Continue("link") /\ UNCHANGED <<symbolRows, registry, perpFaults>>
        \/ /\ ~known /\ n \notin symbolRows /\ inserted
           /\ registry' = [registry EXCEPT !.symbols = @ \cup {n}]
           /\ Continue("link") /\ UNCHANGED perpFaults
        \/ /\ ~known /\ n \notin symbolRows /\ (inserted \/ UNCHANGED symbolRows)
           /\ PerpFault /\ cycle' = NextPerp(n) /\ UNCHANGED registry
        \/ /\ ~known /\ n \in symbolRows
           /\ cycle' = NextPerp(n) /\ UNCHANGED <<symbolRows, registry, perpFaults>>
     /\ UNCHANGED <<aliases, venueRow, linkRows, candidate, perpRows>>

\* Mutant: the map is filled before the insert is known to have succeeded.
MutantEager(n, stored) == registry' = [registry EXCEPT !.links = @ \cup {n}]

RecordLink(n, stored) ==
  registry' = IF stored THEN [registry EXCEPT !.links = @ \cup {n}] ELSE registry

EnsureLink ==
  LET n == cycle.name
      known == n \in registry.links
      inserted == linkRows' = linkRows \cup {n}
  IN /\ cycle.at = "link"
     /\ \/ known /\ Continue("write") /\ UNCHANGED <<linkRows, registry, perpFaults>>
        \/ /\ ~known /\ n \notin linkRows /\ inserted
           /\ RecordLink(n, TRUE) /\ Continue("write") /\ UNCHANGED perpFaults
        \/ /\ ~known /\ n \notin linkRows /\ (inserted \/ UNCHANGED linkRows)
           /\ PerpFault /\ cycle' = NextPerp(n) /\ RecordLink(n, FALSE)
        \/ /\ ~known /\ n \in linkRows
           /\ cycle' = NextPerp(n) /\ RecordLink(n, FALSE) /\ UNCHANGED <<linkRows, perpFaults>>
     /\ UNCHANGED <<aliases, venueRow, symbolRows, candidate, perpRows>>

\* SnapshotWriter.Write and the venue snapshot.
WritePerp ==
  /\ cycle.at = "write"
  /\ \/ perpRows' = perpRows \cup {cycle.name} /\ UNCHANGED perpFaults
     \/ PerpFault /\ UNCHANGED perpRows
  /\ cycle' = NextPerp(cycle.name)
  /\ UNCHANGED <<aliases, venueRow, symbolRows, linkRows, candidate, registry>>

PerpRestarts ==
  /\ PerpFault
  /\ registry' \in {initRegistry, NilRegistry}
  /\ cycle' = BetweenCycles
  /\ UNCHANGED <<aliases, venueRow, symbolRows, linkRows, candidate, perpRows>>

PerpCycle ==
  \/ FetchAndAudit
  \/ \E n \in Perps : ProcessPerp(n)
  \/ EnsureExchange \/ EnsureSymbol \/ EnsureLink \/ WritePerp

PerpNext == PerpCycle \/ CycleAborts \/ PerpRestarts \/ \E n \in Perps : ReviewAlias(n)
-----------------------------------------------------------------------------
PerpTypeOK ==
  /\ aliases \subseteq Perps /\ symbolRows \subseteq Perps /\ linkRows \subseteq Perps
  /\ candidate \in [Perps -> {"none", "discovered", "resolved", "enabled"}]
  /\ perpFaults \in 0 .. MaxPerpFaults

(* What the crawler tells others is durable: a contract audited as enabled, and *)
(* every contract with a snapshot, has its exchange_symbol and symbol rows, and *)
(* the exchange row they refer to, whatever insert failed, lost its reply or    *)
(* was cut off by a restart (ensureRegistered, auditCatalog).                   *)
EnabledIsLinked ==
  \A n \in Perps :
    candidate[n] = "enabled" \/ n \in perpRows
      => venueRow /\ n \in symbolRows /\ n \in linkRows
=============================================================================
