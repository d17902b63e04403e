---------------------------- MODULE TwoTierCache ----------------------------
(***************************************************************************)
(* src/cache.py with the MemoryL1Adapter of src/adapters.py: an LRU cache  *)
(* in RAM (L1) over SQLite (L2), which a set reaches at once (kv_set) or   *)
(* through the write-behind engine. The module-wide lock covers L1 only;   *)
(* reads and writes of L2 happen outside it.                               *)
(*                                                                         *)
(* Extends WriteBehind: kv_set runs the statements of a batch of one. The  *)
(* cache is the module's own instance, whose L1 kv_delete clears as well.  *)
(***************************************************************************)
EXTENDS WriteBehind, Sequences

CONSTANTS Uses,      \* Uses[t]: the keys client t reads and writes
          MaxL1,     \* max_capacity of the adapter
          Modes      \* values of write_behind given to the constructor

ASSUME TwoTierCacheAssumption ==
  /\ Uses \in [Clients -> SUBSET Keys]
  /\ MaxL1 \in Nat \ {0}
  /\ Modes \subseteq BOOLEAN

VARIABLES l1,        \* the adapter's OrderedDict, least recently used first
          engine,    \* _write_behind_engine is not None
          arg,       \* arg[t]: operation, key and document of t's call
          got,       \* got[t]: key and document the last get of t returned
          last       \* history: the last write of a key, 0 after invalidate

cacheVars == <<l1, engine, arg, got, last>>
allVars == <<vars, cacheVars>>

Calls == {"get", "set", "invalidate"}
NoCall == [op |-> "none", key |-> CHOOSE k \in Keys : TRUE, num |-> 0]

CInit == /\ Init
         /\ l1 = <<>> /\ engine \in Modes
         /\ arg = [t \in Threads |-> NoCall]
         /\ got = [t \in Clients |-> NoCall]
         /\ last = None

InL1(k) == \E i \in DOMAIN l1 : l1[i].key = k
\* A key is in one place of the dictionary.
Place(k) == CHOOSE i \in DOMAIN l1 : l1[i].key = k
L1Value(k) == l1[Place(k)].num
Without(k) == IF ~InL1(k) THEN l1
              ELSE SubSeq(l1, 1, Place(k) - 1) \o SubSeq(l1, Place(k) + 1, Len(l1))

\* MemoryL1Adapter.set: the key becomes the most recent, the oldest may go.
L1Put(k, n) == LET s == Append(Without(k), [key |-> k, num |-> n])
               IN IF Len(s) > MaxL1 THEN Tail(s) ELSE s

\* A call on k begins while another is in progress: unless both are reads,
\* nothing orders their L1 and L2 steps.
Overlaps(t, op, k) ==
  \E u \in Clients \ {t} : /\ pc[u] # "idle"
                          /\ arg[u].op # "none" /\ arg[u].key = k
                          /\ {op, arg[u].op} # {"get"}
Starts(t, op, k, n) ==
  /\ pc[t] = "idle" /\ k \in Uses[t]
  /\ arg' = [arg EXCEPT ![t] = [op |-> op, key |-> k, num |-> n]]
  /\ disturbed' = IF Overlaps(t, op, k) THEN disturbed \cup {k} ELSE disturbed

L2Unchanged == UNCHANGED <<queue, closed, batch, todo, db, openUntil, accepted, lost>>
Charge == calls < MaxCalls /\ calls' = calls + 1 /\ UNCHANGED <<writes, faults>>

-----------------------------------------------------------------------------
Got(t, k, n) == got' = [got EXCEPT ![t] = [op |-> "get", key |-> k, num |-> n]]

\* Hit: one step under the lock.
GetHit(t, k) == /\ pc[t] = "idle" /\ k \in Uses[t] /\ Charge
                /\ InL1(k)
                /\ l1' = L1Put(k, L1Value(k))
                /\ Got(t, k, L1Value(k))
                /\ UNCHANGED <<pc, engine, arg, last, disturbed>> /\ L2Unchanged

\* Miss, or an entry whose L1 TTL has run out, which is deleted; kv_get
\* follows after the lock is released.
GetMiss(t, k) == /\ Starts(t, "get", k, 0) /\ Charge
                 /\ l1' = Without(k)
                 /\ Goto(t, "kvget")
                 /\ UNCHANGED <<engine, got, last>> /\ L2Unchanged

KvGet(t) ==
  LET k == arg[t].key
      n == IF k \in bloom THEN row[k] ELSE 0
  IN /\ pc[t] = "kvget"
     /\ arg' = [arg EXCEPT ![t].num = n]
     /\ IF n # 0 THEN Goto(t, "fill") /\ UNCHANGED got
        ELSE /\ Goto(t, "idle")
             /\ Got(t, k, 0)
     /\ UNCHANGED <<l1, engine, last, bounds, disturbed>> /\ L2Unchanged

\* set_l1_only of what kv_get returned, whatever happened since.
Fill(t) == /\ pc[t] = "fill"
           /\ l1' = L1Put(arg[t].key, arg[t].num)
           /\ Got(t, arg[t].key, arg[t].num)
           /\ Goto(t, "idle")
           /\ UNCHANGED <<arg, engine, last, bounds, disturbed>> /\ L2Unchanged

\* L1 first; L2 in a later step.
Set(t, k) == /\ writes < MaxWrites /\ writes' = writes + 1
             /\ Starts(t, "set", k, writes + 1)
             /\ l1' = L1Put(k, writes + 1)
             /\ last' = [last EXCEPT ![k] = writes + 1]
             /\ got' = [got EXCEPT ![t] = NoCall]
             /\ Goto(t, "persist")
             /\ UNCHANGED <<engine, calls, faults>> /\ L2Unchanged

\* queue_write, or kv_set: the row, the index and the filter, in this order.
Persist(t) ==
  LET k == arg[t].key
      n == arg[t].num
  IN /\ pc[t] = "persist"
     /\ IF engine THEN Enqueue(t, k, n) /\ UNCHANGED <<batch, todo>>
        ELSE /\ batch' = [batch EXCEPT ![t] = [None EXCEPT ![k] = n]]
             /\ todo' = [todo EXCEPT ![t] = {k}]
             /\ Goto(t, "upsert")
             /\ accepted' = [accepted EXCEPT ![k] = n]
             /\ UNCHANGED queue
     /\ UNCHANGED <<closed, db, bounds, openUntil, lost, disturbed, cacheVars>>

\* Variant: only L2 is told.
InvalidateKeepsL1(t, k) ==
  /\ Starts(t, "invalidate", k, 0) /\ Charge
  /\ last' = [last EXCEPT ![k] = 0]
  /\ got' = [got EXCEPT ![t] = NoCall]
  /\ Goto(t, "deleteIndex")
  /\ UNCHANGED <<l1, engine>> /\ L2Unchanged

\* L1 first, then kv_delete; the write-behind queue is left alone.
Invalidate(t, k) == /\ Starts(t, "invalidate", k, 0) /\ Charge
                    /\ l1' = Without(k)
                    /\ last' = [last EXCEPT ![k] = 0]
                    /\ got' = [got EXCEPT ![t] = NoCall]
                    /\ Goto(t, "deleteIndex")
                    /\ UNCHANGED engine /\ L2Unchanged

\* A write of k that is queued or in flight comes after the delete.
Resurrects(t) == IF queue[arg[t].key] # 0 \/ \E u \in Threads : arg[t].key \in Held(u)
                 THEN disturbed' = disturbed \cup {arg[t].key}
                 ELSE UNCHANGED disturbed

\* Variant: kv_delete forgets the index.
DeleteIndexKeeps(t) == /\ pc[t] = "deleteIndex"
                       /\ Resurrects(t)
                       /\ Goto(t, "deleteRow")
                       /\ UNCHANGED <<queue, closed, batch, todo, db, bounds,
                                      openUntil, accepted, lost, cacheVars>>
DeleteIndex(t) == /\ pc[t] = "deleteIndex"
                  /\ idx' = [idx EXCEPT ![arg[t].key] = 0]
                  /\ Resurrects(t)
                  /\ Goto(t, "deleteRow")
                  /\ UNCHANGED <<queue, closed, batch, todo, row, bloom, newest,
                                 bounds, openUntil, accepted, lost, cacheVars>>
\* The row. The unlink of a file of the same name that follows is in SecureJson.
DeleteRow(t) ==
  LET k == arg[t].key
  IN /\ pc[t] = "deleteRow"
     /\ row' = [row EXCEPT ![k] = 0]
     /\ accepted' = [accepted EXCEPT ![k] = 0]
     /\ Resurrects(t)
     /\ Goto(t, IF row[k] # 0 THEN "deleteL1" ELSE "idle")
     /\ UNCHANGED <<queue, closed, batch, todo, idx, bloom, newest,
                    bounds, openUntil, lost, cacheVars>>
\* A row was deleted: L1 once more, without the lock.
DeleteL1(t) == /\ pc[t] = "deleteL1"
               /\ l1' = Without(arg[t].key)
               /\ Goto(t, "idle")
               /\ UNCHANGED <<queue, closed, batch, todo, db, bounds, history,
                              engine, arg, got, last>>
\* A statement of kv_delete raises: invalidate swallows it and returns as if
\* the document were gone, with the row still there, perhaps without its index.
FailDelete(t) == /\ pc[t] \in {"deleteIndex", "deleteRow"}
                 /\ faults < MaxFaults /\ faults' = faults + 1
                 /\ disturbed' = disturbed \cup {arg[t].key}
                 /\ Goto(t, "idle")
                 /\ UNCHANGED <<queue, closed, batch, todo, db, writes, calls,
                                openUntil, accepted, lost, cacheVars>>

ClearL1(t) == /\ pc[t] = "idle" /\ l1 # <<>> /\ Charge
              /\ l1' = <<>>
              /\ UNCHANGED <<pc, disturbed, engine, arg, got, last>> /\ L2Unchanged

CacheFlush(t) == /\ engine /\ Flush(t)
                 /\ arg' = [arg EXCEPT ![t] = NoCall]
                 /\ UNCHANGED <<l1, engine, got, last>>

CacheCall(t) == \/ \E k \in Keys : \/ GetHit(t, k) \/ GetMiss(t, k)
                                   \/ Set(t, k) \/ Invalidate(t, k)
                \/ ClearL1(t) \/ CacheFlush(t)
CacheStep(t) == \/ KvGet(t) \/ Fill(t) \/ Persist(t)
                \/ DeleteIndex(t) \/ DeleteRow(t) \/ DeleteL1(t) \/ FailDelete(t)
EngineStep(t) == /\ \/ FlushStep(t) \/ Fail(t)
                    \/ t = Worker /\ engine /\ WorkerLoop(t)
                 /\ UNCHANGED cacheVars

\* The clients have gone quiet and no worker runs.
CFinished == /\ ~engine /\ \A t \in Clients : pc[t] = "idle"
             /\ UNCHANGED allVars

CNext == \/ \E t \in Clients : CacheCall(t) \/ CacheStep(t)
         \/ \E t \in Threads : EngineStep(t)
         \/ CFinished

CSpec == CInit /\ [][CNext]_allVars

-----------------------------------------------------------------------------
\* A cache without write-behind is a map: a get returns the last document set
\* or invalidated, by whichever thread, through LRU evictions, L1 expiry and
\* clear_l1, as long as no call on the key overlapped a write of it (a get
\* that overlaps one may put an older document into L1) and no statement of one
\* failed (set and invalidate hide the error, and L1 and SQLite then differ).
ReadsSeeLastWrite ==
  [][\A t \in Clients :
       LET k == got'[t].key
       IN got'[t] # got[t] /\ got'[t].op = "get" /\ k \notin disturbed' /\ ~engine
            => got'[t].num = last[k]]_allVars

\* No call is writing or deleting k, and no write of it is queued or in a batch.
Quiet(k) == /\ queue[k] = 0 /\ \A t \in Threads : k \notin Held(t)
            /\ \A t \in Clients : pc[t] \in {"persist", "deleteIndex", "deleteRow"}
                                    => arg[t].key # k

\* Whatever the mode: once no call writes or invalidates a key, and nothing of
\* it is queued or in a batch, SQLite has what was last set, or nothing after
\* an invalidate, in row and index, and the filter lets reads through. Not
\* promised for disturbed keys: a queued write survives an invalidate, and so
\* does a row whose DELETE raises, because invalidate swallows the exception.
CallsReachL2 ==
  \A k \in Keys \ disturbed :
    Quiet(k) => row[k] = last[k] /\ idx[k] = last[k] /\ (row[k] # 0 => k \in bloom)
=============================================================================
