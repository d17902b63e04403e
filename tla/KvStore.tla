------------------------------ MODULE KvStore ------------------------------
(***************************************************************************)
(* src/database.py: the encrypted key-value store, one SQL statement per   *)
(* step.  get_db_connection opens SQLite with isolation_level=None and no  *)
(* BEGIN is ever issued, so every conn.execute commits by itself, every    *)
(* row of an executemany commits by itself, and the calls of several       *)
(* threads interleave between any two statements.                          *)
(*                                                                         *)
(* The data is abstracted: a document is a member of Values, encryption    *)
(* with the one active key is lossless (KeyRotation has several keys), and *)
(* one indexed field stands for set_indexed_fields.                        *)
(***************************************************************************)
EXTENDS Integers, FiniteSets

CONSTANTS Keys,      \* document keys
          Values,    \* document payloads
          Plain,     \* the payloads that lack the indexed field
          Threads,   \* threads that call the API, the TTL scavenger among them
          Work,      \* Work[t][op]: the keys on which thread t issues op
          Ttls,      \* Ttls[k]: the ttl arguments used for k, 0 for ttl=None
          NoDoc,     \* no row, no index entry, the default of a read
          MaxOps,    \* bound: MaxOps[t] client calls of thread t
          MaxTime,   \* bound: the clock stops here
          MaxFaults, \* bound: statements that raise
          Crashes    \* TRUE if the process may be killed and restarted

WriteOps == {"set", "mset", "create", "update"}
Reads == {"get", "getv"}
Rebuilds == {"purge", "maint"}
AllOps == WriteOps \cup Reads \cup Rebuilds \cup {"delete"}

Row == [val : Values, ver : Nat \ {0}, exp : Nat]

ASSUME KvAssumption ==
  /\ Plain \subseteq Values
  /\ NoDoc \notin Values /\ NoDoc \notin Row
  /\ Work \in [Threads -> [AllOps -> SUBSET Keys]]
  /\ Ttls \in [Keys -> SUBSET Nat]
  /\ MaxOps \in [Threads -> Nat] /\ MaxTime \in Nat \ {0} /\ MaxFaults \in Nat
  /\ Crashes \in BOOLEAN

VARIABLES row,       \* table kv_store
          idx,       \* table blind_indexes: the indexed value of a key
          bloom,     \* keys for which bloom.contains answers True
          now,       \* int(time.time())
          pc,        \* pc[t]: the statement thread t is about to run
          loc,       \* loc[t]: the locals of the call t is in
          res,       \* res[t]: what t's last read or versioned write returned
          left,      \* left[t]: client calls t may still make
          faults,    \* statements that have raised
          raised     \* history: keys on which a call raised after it had changed
                     \* row or index, or that a restart could not put in the
                     \* filter, and that no call has stored since

history == <<faults, raised>>
vars == <<row, idx, bloom, now, pc, loc, res, left, history>>

NoCall == [op |-> "none", keys |-> {}, todo |-> {}, key |-> NoDoc,
           val |-> NoDoc, exp |-> 0, ver |-> 0]
NoRes == [key |-> NoDoc, val |-> NoDoc, ver |-> 0]

Live(r, at) == r # NoDoc /\ (r.exp = 0 \/ r.exp > at)
Dead(r, at) == r # NoDoc /\ r.exp > 0 /\ r.exp <= at
LiveKeys(at) == {k \in Keys : Live(row[k], at)}
DeadKeys(at) == {k \in Keys : Dead(row[k], at)}

\* kv_search, kv_count and the JOIN of kv_find_by_index see unexpired rows only.
FindByIndex(v) == {k \in LiveKeys(now) : idx[k] = v}

\* The blind index entry of a document: none without the indexed field.
Field(v) == IF v \in Plain THEN NoDoc ELSE v

ExpiresAt(ttl) == IF ttl > 0 THEN now + ttl ELSE 0

Init == /\ row = [k \in Keys |-> NoDoc]
        /\ idx = [k \in Keys |-> NoDoc]
        /\ bloom = {}
        /\ now = 1
        /\ pc = [t \in Threads |-> "idle"]
        /\ loc = [t \in Threads |-> NoCall]
        /\ res = [t \in Threads |-> NoRes]
        /\ left = MaxOps
        /\ faults = 0 /\ raised = {}

Goto(t, label) == pc' = [pc EXCEPT ![t] = label]
Return(t) == Goto(t, "idle") /\ loc' = [loc EXCEPT ![t] = NoCall]
Yield(t, r) == res' = [res EXCEPT ![t] = r]

-----------------------------------------------------------------------------
(* Calls: everything an operation computes before its first statement.     *)

Call(t, label, c) == /\ pc[t] = "idle"
                     /\ Goto(t, label)
                     /\ loc' = [loc EXCEPT ![t] = c]
                     /\ UNCHANGED <<row, idx, bloom, now, res, history>>

ClientCall(t, op, label, K, v, exp, ver) ==
  /\ K # {} /\ K \subseteq Work[t][op] /\ left[t] > 0
  /\ left' = [left EXCEPT ![t] = @ - 1]
  /\ \E k \in K : Call(t, label, [op |-> op, keys |-> K, todo |-> K, key |-> k,
                                  val |-> v, exp |-> exp, ver |-> ver])

KvSet(t) == \E k \in Keys : \E v \in Values, ttl \in Ttls[k] :
              ClientCall(t, "set", "upsert", {k}, v, ExpiresAt(ttl), 0)

\* A batch is the whole of Work[t]["mset"], with one ttl.
KvMset(t) == LET K == Work[t]["mset"]
             IN \E v \in Values : \E ttl \in UNION {Ttls[k] : k \in K} :
                  ClientCall(t, "mset", "bloomAdd", K, v, ExpiresAt(ttl), 0)

\* The expected version is 0, or the one the caller learnt about this key.
KvSetVersioned(t) ==
  \E k \in Keys : \E v \in Values, ttl \in Ttls[k] :
    \/ ClientCall(t, "create", "insert", {k}, v, ExpiresAt(ttl), 0)
    \/ /\ res[t].key = k /\ res[t].ver > 0
       /\ ClientCall(t, "update", "update", {k}, v, ExpiresAt(ttl), res[t].ver)

Read(t, op) == \E k \in Keys : ClientCall(t, op, "lookup", {k}, NoDoc, 0, 0)
KvGet(t) == Read(t, "get")
KvGetVersioned(t) == Read(t, "getv")
KvDelete(t) ==
  \E k \in Keys : ClientCall(t, "delete", "deleteIndex", {k}, NoDoc, 0, 0)

\* now_ts of purge_expired_records is read once, before its SELECT.
Purge(t) == /\ Work[t]["purge"] # {}
            /\ Call(t, "purgeSelect", [NoCall EXCEPT !.op = "purge", !.exp = now])
            /\ UNCHANGED left
DbMaintenance(t) == /\ Work[t]["maint"] # {}
                    /\ Call(t, "rebuildSelect", [NoCall EXCEPT !.op = "maint"])
                    /\ left[t] > 0 /\ left' = [left EXCEPT ![t] = @ - 1]

Begin(t) == \/ KvSet(t) \/ KvMset(t) \/ KvSetVersioned(t) \/ KvGet(t)
            \/ KvGetVersioned(t) \/ KvDelete(t) \/ Purge(t) \/ DbMaintenance(t)

-----------------------------------------------------------------------------
(* Reads.                                                                  *)

Lookup(t) == /\ pc[t] = "lookup"
             /\ IF loc[t].key \in bloom
                THEN Goto(t, "select") /\ UNCHANGED <<loc, res>>
                ELSE Return(t) /\ Yield(t, [NoRes EXCEPT !.key = loc[t].key])
             /\ UNCHANGED <<row, idx, bloom, now, left, history>>

\* SELECT, then the TTL test; an expired row is deleted before the default
\* is returned.  The clock is read with the row: it has a resolution of 1s.
Select(t) ==
  LET k == loc[t].key
      r == row[k]
  IN /\ pc[t] = "select"
     /\ IF Live(r, now)
        THEN Yield(t, [key |-> k, val |-> r.val,
                       ver |-> IF loc[t].op = "getv" THEN r.ver ELSE 0])
        ELSE Yield(t, [NoRes EXCEPT !.key = k])
     /\ IF Dead(r, now) THEN Goto(t, "deleteIndex") /\ UNCHANGED loc ELSE Return(t)
     /\ UNCHANGED <<row, idx, bloom, now, left, history>>

-----------------------------------------------------------------------------
(* Writes.                                                                 *)

\* Variant the properties must reject: the first version is 0.
BumpedFromZero(k, c) == [val |-> c.val, exp |-> c.exp,
                         ver |-> IF row[k] = NoDoc THEN 0 ELSE row[k].ver + 1]

Bumped(k, c) == [val |-> c.val, exp |-> c.exp,
                 ver |-> IF row[k] = NoDoc THEN 1 ELSE row[k].ver + 1]

\* Consume k from the work list; when it is empty refill it and go on.
Step(t, k, here, next) ==
  LET rest == loc[t].todo \ {k}
      more == rest # {}
  IN IF ~more /\ next = "idle" THEN Return(t)
     ELSE /\ Goto(t, IF more THEN here ELSE next)
          /\ loc' = [loc EXCEPT ![t].key = k,
                                ![t].todo = IF more THEN rest ELSE loc[t].keys]

Upsert(t) == /\ pc[t] = "upsert"
             /\ \E k \in loc[t].todo :
                  /\ row' = [row EXCEPT ![k] = Bumped(k, loc[t])]
                  /\ raised' = raised \ {k}
                  /\ Step(t, k, "upsert", "clearIndex")
             /\ UNCHANGED <<idx, bloom, now, res, left, faults>>

\* INSERT that raises IntegrityError, or conditional UPDATE with rowcount 0:
\* ConcurrentModificationError, which the caller sees as NoRes.
Versioned(t, label, ok) ==
  LET k == loc[t].key
  IN /\ pc[t] = label
     /\ IF ok
        THEN /\ row' = [row EXCEPT ![k] = Bumped(k, loc[t])]
             /\ Yield(t, [key |-> k, val |-> loc[t].val, ver |-> loc[t].ver + 1])
             /\ raised' = raised \ (IF label = "insert" THEN {k} ELSE {})
             /\ Goto(t, "clearIndex") /\ UNCHANGED loc
        ELSE Return(t) /\ Yield(t, NoRes) /\ UNCHANGED <<row, raised>>
     /\ UNCHANGED <<idx, bloom, now, left, faults>>

Insert(t) == Versioned(t, "insert", row[loc[t].key] = NoDoc)
\* Variant: the WHERE clause forgets the version.
UpdateAnyVersion(t) == Versioned(t, "update", row[loc[t].key] # NoDoc)
Update(t) == LET r == row[loc[t].key]
             IN Versioned(t, "update", r # NoDoc /\ r.ver = loc[t].ver)

\* Variant: a created document never enters the filter.
AfterIndexSetOnly(op) == IF op = "set" THEN "bloomAdd" ELSE "idle"
AfterIndex(op) == IF op \in {"set", "create"} THEN "bloomAdd" ELSE "idle"

\* Variant: the old entry stays when the new document lacks the field.
ClearIndexIfReplaced(t) ==
  /\ pc[t] = "clearIndex"
  /\ \E k \in loc[t].todo :
       IF Field(loc[t].val) = NoDoc
       THEN Step(t, k, "clearIndex", AfterIndex(loc[t].op)) /\ UNCHANGED idx
       ELSE /\ idx' = [idx EXCEPT ![k] = NoDoc]
            /\ Goto(t, "insertIndex") /\ loc' = [loc EXCEPT ![t].key = k]
  /\ UNCHANGED <<row, bloom, now, res, left, history>>

\* _update_blind_indexes: DELETE, then INSERT if the document has the field.
ClearIndex(t) ==
  /\ pc[t] = "clearIndex"
  /\ \E k \in loc[t].todo :
       /\ idx' = [idx EXCEPT ![k] = NoDoc]
       /\ IF Field(loc[t].val) = NoDoc
          THEN Step(t, k, "clearIndex", AfterIndex(loc[t].op))
          ELSE Goto(t, "insertIndex") /\ loc' = [loc EXCEPT ![t].key = k]
  /\ UNCHANGED <<row, bloom, now, res, left, history>>

InsertIndex(t) ==
  /\ pc[t] = "insertIndex"
  /\ idx' = [idx EXCEPT ![loc[t].key] = Field(loc[t].val)]
  /\ Step(t, loc[t].key, "clearIndex", AfterIndex(loc[t].op))
  /\ UNCHANGED <<row, bloom, now, res, left, history>>

\* A batch adds its keys before it writes, a single write after it; the
\* rebuild ends with it.
BloomAdd(t) ==
  /\ pc[t] = "bloomAdd"
  /\ \E k \in loc[t].todo :
       /\ bloom' = bloom \cup {k}
       /\ Step(t, k, "bloomAdd", IF loc[t].op = "mset" THEN "upsert" ELSE "idle")
  /\ UNCHANGED <<row, idx, now, res, left, history>>

DeleteIndex(t) == /\ pc[t] = "deleteIndex"
                  /\ idx' = [idx EXCEPT ![loc[t].key] = NoDoc]
                  /\ Goto(t, "deleteRow")
                  /\ UNCHANGED <<row, bloom, now, loc, res, left, history>>

DeleteRow(t) ==
  LET k == loc[t].key
  IN /\ pc[t] = "deleteRow"
     /\ row' = [row EXCEPT ![k] = NoDoc]
     /\ Return(t)
     /\ UNCHANGED <<idx, bloom, now, res, left, history>>

-----------------------------------------------------------------------------
(* TTL purge and Bloom rebuild.                                            *)

\* Variant: expires_at < now_ts.
PurgeSelectLate(t) ==
  LET K == DeadKeys(loc[t].exp - 1)
  IN /\ pc[t] = "purgeSelect"
     /\ IF K = {} THEN Return(t)
        ELSE /\ Goto(t, "purgeIndex")
             /\ loc' = [loc EXCEPT ![t].keys = K, ![t].todo = K]
     /\ UNCHANGED <<row, idx, bloom, now, res, left, history>>

PurgeSelect(t) ==
  LET K == DeadKeys(loc[t].exp)
  IN /\ pc[t] = "purgeSelect"
     /\ IF K = {} THEN Return(t)
        ELSE /\ Goto(t, "purgeIndex")
             /\ loc' = [loc EXCEPT ![t].keys = K, ![t].todo = K]
     /\ UNCHANGED <<row, idx, bloom, now, res, left, history>>

\* Both DELETEs select by expires_at <= now_ts again, not by the keys read.
PurgeIndex(t) ==
  /\ pc[t] = "purgeIndex"
  /\ idx' = [k \in Keys |-> IF k \in DeadKeys(loc[t].exp) THEN NoDoc ELSE idx[k]]
  /\ Goto(t, "purgeRows")
  /\ UNCHANGED <<row, bloom, now, loc, res, left, history>>

\* Variant: DELETE ... WHERE key IN the keys of the SELECT.
PurgeSelectedRows(t) ==
  /\ pc[t] = "purgeRows"
  /\ row' = [k \in Keys |-> IF k \in loc[t].keys THEN NoDoc ELSE row[k]]
  /\ Goto(t, "rebuildSelect")
  /\ UNCHANGED <<idx, bloom, now, loc, res, left, history>>

PurgeRows(t) ==
  /\ pc[t] = "purgeRows"
  /\ row' = [k \in Keys |-> IF k \in DeadKeys(loc[t].exp) THEN NoDoc ELSE row[k]]
  /\ Goto(t, "rebuildSelect")
  /\ UNCHANGED <<idx, bloom, now, loc, res, left, history>>

RebuildSelect(t) == /\ pc[t] = "rebuildSelect"
                    /\ loc' = [loc EXCEPT ![t].todo = LiveKeys(now)]
                    /\ Goto(t, "rebuildClear")
                    /\ UNCHANGED <<row, idx, bloom, now, res, left, history>>

RebuildClear(t) ==
  /\ pc[t] = "rebuildClear"
  /\ bloom' = {}
  /\ IF loc[t].todo = {} THEN Return(t) ELSE Goto(t, "bloomAdd") /\ UNCHANGED loc
  /\ UNCHANGED <<row, idx, now, res, left, history>>

-----------------------------------------------------------------------------
(* Statements that raise.                                                  *)

\* The call ends: a client gets the exception, kv_get swallows that of its
\* lazy delete, purge_expired_records that of its rebuild and the scavenger
\* the rest. What ran before stays, so a writer may leave its key without
\* index and outside the filter, and a delete a row without index.
Fail(t) ==
  /\ pc[t] \in {"select", "upsert", "insert", "update", "clearIndex", "insertIndex",
               "deleteIndex", "deleteRow", "purgeSelect", "purgeIndex", "purgeRows",
               "rebuildSelect"}
  /\ faults < MaxFaults /\ faults' = faults + 1
  /\ raised' = IF pc[t] \in {"clearIndex", "insertIndex", "deleteRow"} \/ loc[t].op = "mset"
               THEN raised \cup loc[t].keys ELSE raised
  \* The DELETE of the index has run when its key cannot be read.
  /\ \/ UNCHANGED idx
     \/ /\ pc[t] = "clearIndex"
        /\ \E k \in loc[t].todo : idx' = [idx EXCEPT ![k] = NoDoc]
  \* A caller does not learn the version it has written.
  /\ IF pc[t] \in {"clearIndex", "insertIndex"} THEN Yield(t, NoRes) ELSE UNCHANGED res
  /\ Return(t)
  /\ UNCHANGED <<row, bloom, now, left>>

-----------------------------------------------------------------------------
ThreadStep(t) ==
  \/ Lookup(t) \/ Select(t) \/ Upsert(t) \/ Insert(t) \/ Update(t)
  \/ ClearIndex(t) \/ InsertIndex(t) \/ BloomAdd(t) \/ DeleteIndex(t)
  \/ DeleteRow(t) \/ PurgeSelect(t) \/ PurgeIndex(t) \/ PurgeRows(t)
  \/ RebuildSelect(t) \/ RebuildClear(t)

Tick == /\ now < MaxTime
        /\ now' = now + 1
        /\ UNCHANGED <<row, idx, bloom, pc, loc, res, left, history>>

\* Variant: a restart that does not fill the filter.
CrashEmptyFilter == /\ Crashes
                    /\ bloom' = {}
                    /\ pc' = [t \in Threads |-> "idle"]
                    /\ loc' = [t \in Threads |-> NoCall]
                    /\ res' = [t \in Threads |-> NoRes]
                    /\ raised' = {}
                    /\ UNCHANGED <<row, idx, now, left, faults>>

\* The process dies between two statements; init_db rebuilds the filter from
\* the unexpired rows before it admits the first call, and goes on with an
\* empty filter if that raises.
Crash == /\ Crashes
         /\ \/ bloom' = LiveKeys(now) /\ raised' = {} /\ UNCHANGED faults
            \/ /\ faults < MaxFaults /\ faults' = faults + 1
               /\ bloom' = {} /\ raised' = LiveKeys(now)
         /\ pc' = [t \in Threads |-> "idle"]
         /\ loc' = [t \in Threads |-> NoCall]
         /\ res' = [t \in Threads |-> NoRes]
         /\ UNCHANGED <<row, idx, now, left>>

\* The bounds are used up: the only state in which nothing needs to happen.
Finished == /\ \A t \in Threads : pc[t] = "idle"
            /\ UNCHANGED vars

Next == \/ \E t \in Threads : Begin(t) \/ ThreadStep(t) \/ Fail(t)
        \/ Tick \/ Crash \/ Finished

Spec == Init /\ [][Next]_vars

\* Threads keep running, the clock advances, the scavenger loop comes round,
\* also after a purge that raised.
Fairness == /\ WF_vars(Tick)
            /\ \A t \in Threads : WF_vars(ThreadStep(t)) /\ WF_vars(Purge(t))
FairSpec == Spec /\ Fairness
=============================================================================
