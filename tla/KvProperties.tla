---------------------------- MODULE KvProperties ----------------------------
(***************************************************************************)
(* What the store of KvStore guarantees, and under which workload.         *)
(***************************************************************************)
EXTENDS KvStore

Labels == {"idle", "lookup", "select", "upsert", "insert", "update",
           "clearIndex", "insertIndex", "bloomAdd", "deleteIndex", "deleteRow",
           "purgeSelect", "purgeIndex", "purgeRows", "rebuildSelect",
           "rebuildClear"}

CallRecord == [op : {"none"} \cup AllOps, keys : SUBSET Keys,
               todo : SUBSET Keys, key : Keys \cup {NoDoc},
               val : Values \cup {NoDoc}, exp : Nat, ver : Nat]

\* What the variables of the store and of the calls look like.
Shape == /\ row \in [Keys -> Row \cup {NoDoc}]
         /\ idx \in [Keys -> Values \cup {NoDoc}]
         /\ bloom \subseteq Keys
         /\ now \in Nat
         /\ pc \in [Threads -> Labels]
         /\ loc \in [Threads -> CallRecord]
         /\ res \in [Threads -> [key : Keys \cup {NoDoc},
                                 val : Values \cup {NoDoc}, ver : Nat]]
         /\ left \in [Threads -> Nat]

\* Every variable keeps its shape; a stored document has a version from 1 up.
TypeOK == Shape /\ faults \in Nat /\ raised \subseteq Keys

-----------------------------------------------------------------------------
(* Bloom filter.                                                           *)

\* Some thread has written k and has yet to run the bloom.add of its call.
Adding(k) == \E t \in Threads :
               /\ loc[t].op \in {"set", "create"} /\ loc[t].key = k
               /\ pc[t] \in {"clearIndex", "insertIndex", "bloomAdd"}

\* bloom_filter.contains answers False only for keys without a live row: no
\* read may be answered "not found" from memory for a document that is in the
\* database. Two exceptions: a store of the key is between its row and its
\* bloom.add, or one raised there, or the rebuild of a restart raised, and no
\* store has been begun since. Holds for workloads without a rebuild beside
\* writers and without a versioned update of an expired row (kv_set_versioned
\* adds nothing on its UPDATE branch).
FilterCoversLiveRows ==
  \A k \in Keys : Live(row[k], now) => k \in bloom \cup raised \/ Adding(k)

-----------------------------------------------------------------------------
(* Blind index.                                                            *)

\* No call is between its first and its last statement on k.
Settled(k) == \A t \in Threads : pc[t] # "idle" => k \notin loc[t].keys

\* A key with one writing thread: every other thread at most reads or purges.
Writes(t, k) == \E op \in WriteOps : k \in Work[t][op]
OneWriter(k) == \A t, u \in Threads : Writes(t, k) /\ Writes(u, k) => t = u

\* Between calls kv_find_by_index finds a live document under the value its
\* indexed field holds and under no other, whatever deletes, lazy TTL deletes
\* and purges by other threads ran between the statements of its one writer,
\* and wherever a purge raised. Not after a writer or a delete of the key
\* raised between its statements (raised), until the key is stored anew.
IndexMatchesRow ==
  \A k \in Keys \ raised : OneWriter(k) /\ Settled(k) =>
    \A v \in Values \ Plain :
      k \in FindByIndex(v) <=> k \in LiveKeys(now) /\ Field(row[k].val) = v

-----------------------------------------------------------------------------
(* Versions.                                                               *)

\* t's conditional UPDATE changes its row in this step.
Updates(t) == pc[t] = "update" /\ pc'[t] = "clearIndex"

\* A versioned update overwrites exactly the document its caller read: two
\* read-modify-write cycles on a key never both succeed from the same version
\* (kv_set_versioned).  A key that is deleted and created again restarts at
\* version 1, so this is stated for keys nobody deletes or lets expire.
NeverRemoved(k) ==
  /\ Ttls[k] = {0}
  /\ \A t \in Threads : k \notin Work[t]["delete"]
  /\ \A t \in Threads : k \in Work[t]["mset"]
                          => \A j \in Work[t]["mset"] : Ttls[j] \subseteq {0}
NoLostUpdate ==
  [][\A t \in Threads :
       LET k == loc[t].key
       IN Updates(t) /\ NeverRemoved(k)
            => row[k].val = res[t].val /\ row[k].ver = res[t].ver]_vars

-----------------------------------------------------------------------------
(* TTL.                                                                    *)

\* purge_expired_records never removes a live document, although it decides
\* which keys are expired statements before it deletes them and writers
\* refresh keys in between: a live row only disappears in a kv_delete.
OnlyDeletesRemoveLiveRows ==
  [][\A k \in Keys : Live(row[k], now) /\ row'[k] = NoDoc
       => \E t \in Threads : pc[t] = "deleteRow" /\ loc[t].key = k]_vars

\* With the scavenger running, a document that has expired is eventually
\* refreshed or gone, even if nobody reads it again.
ExpiredRowsGo == \A k \in Keys : Dead(row[k], now) ~> ~Dead(row[k], now)

-----------------------------------------------------------------------------
(* Refinement: every call takes effect at one statement.                   *)

\* The statements that come after a call's effect.
Effected(t) == \/ pc[t] \in {"clearIndex", "insertIndex"}
               \/ pc[t] = "bloomAdd" /\ loc[t].op # "mset"
               \/ pc[t] \in {"deleteIndex", "deleteRow"} /\ loc[t].op # "delete"

AbstractCall(t) ==
  IF pc[t] = "idle" \/ loc[t].op \in Rebuilds THEN [op |-> "none"]
  ELSE [op |-> IF loc[t].op \in {"set", "mset"} THEN "put" ELSE loc[t].op,
        keys |-> loc[t].keys, val |-> loc[t].val, exp |-> loc[t].exp,
        ver |-> loc[t].ver, done |-> Effected(t)]

Abstract == INSTANCE AbstractKv WITH
  store <- row, public <- bloom, call <- [t \in Threads |-> AbstractCall(t)]

\* The statements of set, create, update, get and delete calls interleave in
\* any order, and each call still takes effect at one moment between its start
\* and its end, with the result it would have had alone at that moment, apart
\* from the gets of AbstractKv that miss a key which is not public yet; an
\* exception or a crash between two statements undoes no effect. For
\* workloads without TTLs and rebuilds and for batches of one key.
ImplementsAbstractKv == Abstract!Spec
=============================================================================
