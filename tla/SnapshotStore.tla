--------------------------- MODULE SnapshotStore ---------------------------
(***************************************************************************)
(* The market snapshot store (services/http/service/market_snapshot.go):   *)
(* API instances answer the overview, the dashboard and its pages from one *)
(* immutable read per 15-second bucket, kept in Redis under an ID that     *)
(* every instance derives from the bucket.                                 *)
(***************************************************************************)
EXTENDS PriceIndex

CONSTANTS Instances,   \* API processes
          LastBucket,  \* 15-second buckets 1 .. LastBucket
          MaxItems,    \* marketSnapshotMaximumItems
          Lifetime     \* marketSnapshotTTL, in buckets

ASSUME StoreAssumption ==
  LastBucket \in Nat \ {0} /\ MaxItems \in Nat /\ Lifetime \in Nat

VARIABLES bucket,      \* the current bucket
          stored,      \* Redis: bucket -> read or NoRead
          ordered,     \* the sorted set of stored keys, by bucket
          api,         \* instance -> its request in progress
          served,      \* bucket -> the reads answered under its ID
          forgotten    \* IDs whose key was evicted or expired

storeVars == <<bucket, stored, ordered, api, served, forgotten>>

Buckets == 1 .. LastBucket
NoRead == [rows |-> {}]
Waiting == [at |-> "idle"]

StoreInit ==
  /\ bucket = 1
  /\ stored = [b \in Buckets |-> NoRead]
  /\ ordered = {}
  /\ api = [i \in Instances |-> Waiting]
  /\ served = [b \in Buckets |-> {}]
  /\ forgotten = {}

\* marketSnapshotStore.read: the entry, unless the key is gone or has expired.
Readable(b) == stored[b] # NoRead /\ bucket < b + Lifetime

Answer(b, read) == served' = [served EXCEPT ![b] = @ \cup {read}]

\* resolve with an explicit snapshot ID: the stored read or ErrMarketSnapshotExpired.
ResolveExplicit(i) ==
  /\ api[i] = Waiting
  /\ \E b \in Buckets : Readable(b) /\ Answer(b, stored[b])
  /\ UNCHANGED <<bucket, stored, ordered, api, forgotten>>

\* resolve without an ID: the current bucket's read, or this instance builds it.
ResolveCurrent(i) ==
  /\ api[i] = Waiting
  /\ IF Readable(bucket)
     THEN Answer(bucket, stored[bucket]) /\ UNCHANGED api
     ELSE /\ api' = [api EXCEPT ![i] = [at |-> "building", id |-> bucket]]
          /\ UNCHANGED served
  /\ UNCHANGED <<bucket, stored, ordered, forgotten>>

\* QueryMarketReadSnapshot and validate; a read that fails its checks is an error.
BuildSnapshot(i) ==
  /\ api[i].at = "building"
  /\ api' = [api EXCEPT ![i] =
               IF ReadAccepted("all", ReadSnapshot("all"))
               THEN [at |-> "storing", id |-> @.id, read |-> ReadSnapshot("all")]
               ELSE Waiting]
  /\ UNCHANGED <<bucket, stored, ordered, served, forgotten>>

\* The oldest keys beyond the maximum; a late one may be its own victim.
Victims(keys) ==
  {k \in keys : Cardinality({l \in keys : l >= k}) > MaxItems}

MutantAlwaysCreates(b) == TRUE

\* SET ... NX: only an absent key is created.
Creates(b) == stored[b] = NoRead

\* The atomic script of store(), and what its caller does with the result.
\* Without a reply (`replyLost`) the caller fails although the script ran.
StoreSnapshot(i, replyLost) ==
  LET b == api[i].id
      keys == ordered \cup {b}
  IN /\ api[i].at = "storing"
     /\ IF Creates(b)
        THEN /\ stored' = [k \in Buckets |-> IF k \in Victims(keys) THEN NoRead
                                              ELSE IF k = b THEN api[i].read ELSE stored[k]]
             /\ ordered' = keys \ Victims(keys)
             /\ forgotten' = forgotten \cup Victims(keys)
             /\ IF replyLost THEN UNCHANGED served ELSE Answer(b, api[i].read)
             /\ api' = [api EXCEPT ![i] = Waiting]
        ELSE /\ api' = [api EXCEPT ![i] = IF replyLost THEN Waiting ELSE [at |-> "lost race", id |-> b]]
             /\ UNCHANGED <<stored, ordered, forgotten, served>>
     /\ UNCHANGED bucket

\* Another instance won the bucket: return the winner's value.
ReadWinner(i) ==
  /\ api[i].at = "lost race"
  /\ IF Readable(api[i].id) THEN Answer(api[i].id, stored[api[i].id]) ELSE UNCHANGED served
  /\ api' = [api EXCEPT ![i] = Waiting]
  /\ UNCHANGED <<bucket, stored, ordered, forgotten>>

NextBucket ==
  /\ bucket < LastBucket
  /\ bucket' = bucket + 1
  /\ UNCHANGED <<stored, ordered, api, served, forgotten>>

\* Redis drops a key after its PX time; the sorted set keeps the member.
KeyExpires ==
  /\ \E b \in Buckets :
       /\ stored[b] # NoRead
       /\ bucket >= b + Lifetime
       /\ stored' = [stored EXCEPT ![b] = NoRead]
       /\ forgotten' = forgotten \cup {b}
  /\ UNCHANGED <<bucket, ordered, api, served>>

StoreNext ==
  \/ NextBucket \/ KeyExpires
  \/ \E i \in Instances :
       \/ ResolveExplicit(i) \/ ResolveCurrent(i) \/ BuildSnapshot(i) \/ ReadWinner(i)
       \/ \E replyLost \in BOOLEAN : StoreSnapshot(i, replyLost)
-----------------------------------------------------------------------------
StoreTypeOK ==
  /\ bucket \in Buckets
  /\ ordered \subseteq Buckets
  /\ Cardinality(ordered) <= MaxItems
  /\ \A b \in Buckets : stored[b] # NoRead => b \in ordered

(* Two answers under one snapshot ID, from any two API instances, carry the    *)
(* same rows and overview while its key lives: the losers of the SET NX race   *)
(* in resolve drop their own read. Only an ID whose key was evicted or         *)
(* expired while a slow instance was still building for it can come back.      *)
OneReadPerID ==
  \A b \in Buckets : Cardinality(served[b]) <= 1 \/ b \in forgotten
=============================================================================
