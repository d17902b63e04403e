---------------------------- MODULE WriteBehind ----------------------------
(***************************************************************************)
(* src/write_behind.py: queue_write coalesces documents in RAM; a worker   *)
(* thread, a client that fills the queue, and every explicit flush take    *)
(* the whole queue under the lock and write it to SQLite outside the lock, *)
(* so several batches can be in flight. The batch is no SQL transaction:   *)
(* each statement of it commits by itself.                                 *)
(*                                                                         *)
(* A document is represented by its number in the order of the writes. The *)
(* keys of a batch are written in some order (in the code, queue order).   *)
(***************************************************************************)
EXTENDS Integers, FiniteSets

CONSTANTS Keys,        \* document keys
          Clients,     \* threads that call the engine
          Worker,      \* WriteBehind-Worker, the daemon thread
          MaxBatch,    \* max_batch_size
          MaxWrites,   \* bound: documents written
          MaxCalls,    \* bound: explicit flush and close calls
          MaxFaults    \* bound: flushes that skip a document or that raise

Threads == Clients \cup {Worker}

ASSUME WriteBehindAssumption ==
  /\ Worker \notin Clients
  /\ MaxBatch \in Nat \ {0}
  /\ MaxWrites \in Nat /\ MaxCalls \in Nat /\ MaxFaults \in Nat

VARIABLES queue,     \* _queue: the number of the write queued for a key, or 0
          closed,    \* _stop_event
          pc,        \* pc[t]: the statement thread t is about to run
          batch,     \* batch[t]: what t took from the queue
          todo,      \* todo[t]: keys the current statement has yet to write
          row,       \* table kv_store: the write a row comes from, or 0
          idx,       \* table blind_indexes: the write an entry comes from
          bloom,     \* keys in the filter
          writes, calls, faults,   \* how much of the bounds is used
          openUntil, \* history: how many writes there were at the first close
          accepted,  \* history: the last write of a key the engine accepted
          newest,    \* history: the newest write of a key that reached row
          lost,      \* history: the newest write of a key that a flush gave up
          disturbed  \* history: keys two batches held at once, or a flush gave up

db == <<row, idx, bloom, newest>>
history == <<openUntil, accepted, lost, disturbed>>
bounds == <<writes, calls, faults>>
vars == <<queue, closed, pc, batch, todo, db, bounds, history>>

None == [k \in Keys |-> 0]
Held(t) == {k \in Keys : batch[t][k] # 0}
HeldByOther(t, k) == \E u \in Threads \ {t} : k \in Held(u)
Larger(m, n) == IF m > n THEN m ELSE n

\* Writes of t that have not reached their row.
Unsaved(t) == IF pc[t] = "upsert" THEN todo[t] ELSE {}

Init == /\ queue = None /\ closed = FALSE
        /\ pc = [t \in Threads |-> IF t = Worker THEN "check" ELSE "idle"]
        /\ batch = [t \in Threads |-> None]
        /\ todo = [t \in Threads |-> {}]
        /\ row = None /\ idx = None /\ bloom = {}
        /\ writes = 0 /\ calls = 0 /\ faults = 0 /\ openUntil = 0
        /\ accepted = None /\ newest = None /\ lost = None /\ disturbed = {}

Goto(t, label) == pc' = [pc EXCEPT ![t] = label]
\* The worker goes back to its loop condition, a client to its caller.
Resting(t) == IF t = Worker THEN "check" ELSE "idle"
\* Variant: what was written is not forgotten.
ReturnKeepsBatch(t) == /\ Goto(t, Resting(t))
                       /\ todo' = [todo EXCEPT ![t] = {}]
                       /\ UNCHANGED batch
Return(t) == /\ Goto(t, Resting(t))
             /\ batch' = [batch EXCEPT ![t] = None]
             /\ todo' = [todo EXCEPT ![t] = {}]

-----------------------------------------------------------------------------
\* Variant: the entry already queued for the key stays.
EnqueueKeepsFirst(t, k, v) ==
  /\ queue' = [queue EXCEPT ![k] = IF @ = 0 THEN v ELSE @]
  /\ accepted' = [accepted EXCEPT ![k] = v]
  /\ Goto(t, IF Cardinality({j \in Keys : queue'[j] # 0}) >= MaxBatch
             THEN "take" ELSE Resting(t))

\* queue_write: replace the entry of the key; a full queue is flushed by the
\* caller, after it released the lock.
Enqueue(t, k, v) ==
  /\ queue' = [queue EXCEPT ![k] = v]
  /\ accepted' = [accepted EXCEPT ![k] = v]
  /\ Goto(t, IF Cardinality({j \in Keys : queue'[j] # 0}) >= MaxBatch
             THEN "take" ELSE Resting(t))

QueueWrite(t, k) == /\ pc[t] = "idle" /\ writes < MaxWrites
                    /\ writes' = writes + 1
                    /\ Enqueue(t, k, writes + 1)
                    /\ UNCHANGED <<closed, batch, todo, db, calls, faults,
                                   openUntil, lost, disturbed>>

FlushCall(t) == /\ pc[t] = "idle" /\ calls < MaxCalls
                /\ calls' = calls + 1
                /\ Goto(t, "take")
                /\ UNCHANGED <<queue, batch, todo, db, writes, faults,
                               accepted, lost, disturbed>>
Flush(t) == FlushCall(t) /\ UNCHANGED <<closed, openUntil>>

SetStop == /\ closed' = TRUE
           /\ openUntil' = IF closed THEN openUntil ELSE writes
\* Variant: what is queued stays there.
CloseOnly(t) == /\ pc[t] = "idle" /\ calls < MaxCalls
                /\ calls' = calls + 1
                /\ SetStop
                /\ UNCHANGED <<pc, queue, batch, todo, db, writes, faults,
                               accepted, lost, disturbed>>
\* _stop_event.set(), then a flush.
Close(t) == FlushCall(t) /\ SetStop

\* while not _stop_event.is_set(): sleep, flush
WorkerLoop(t) == /\ pc[t] = "check"
                 /\ Goto(t, IF closed THEN "exited" ELSE "take")
                 /\ UNCHANGED <<queue, closed, batch, todo, db, bounds, history>>

\* Copy and clear the queue under one lock. The documents in S cannot be
\* encrypted: the error is printed, and the rest of the batch goes on.
TakeBut(t, S) ==
  LET taken == {k \in Keys : queue[k] # 0} \ S
  IN /\ queue' = None
     /\ batch' = [batch EXCEPT ![t] = [k \in Keys |-> IF k \in taken THEN queue[k] ELSE 0]]
     /\ todo' = [todo EXCEPT ![t] = taken]
     /\ disturbed' = disturbed \cup S \cup {k \in taken : HeldByOther(t, k)}
     /\ lost' = [k \in Keys |-> IF k \in S THEN Larger(lost[k], queue[k]) ELSE lost[k]]
     /\ Goto(t, IF taken = {} THEN Resting(t) ELSE "upsert")
Take(t) ==
  /\ pc[t] = "take"
  /\ \/ queue = None /\ Return(t) /\ UNCHANGED <<queue, faults, disturbed, lost>>
     \/ queue # None /\ TakeBut(t, {}) /\ UNCHANGED faults
     \/ /\ faults < MaxFaults /\ faults' = faults + 1
        /\ \E S \in (SUBSET {k \in Keys : queue[k] # 0}) \ {{}} : TakeBut(t, S)
  /\ UNCHANGED <<closed, db, writes, calls, openUntil, accepted>>

\* One key of a phase is done; the phase after the last key is next.
Done(t, k, here, next) ==
  LET rest == todo[t] \ {k}
  IN IF rest # {} THEN /\ Goto(t, here)
                       /\ todo' = [todo EXCEPT ![t] = rest]
                       /\ UNCHANGED batch
     ELSE IF next = "return" THEN Return(t)
     ELSE /\ Goto(t, next)
          /\ todo' = [todo EXCEPT ![t] = Held(t)]
          /\ UNCHANGED batch

Upsert(t) ==
  /\ pc[t] = "upsert"
  /\ \E k \in todo[t] : /\ row' = [row EXCEPT ![k] = batch[t][k]]
                        /\ newest' = [newest EXCEPT ![k] = Larger(@, batch[t][k])]
                        /\ Done(t, k, "upsert", "index")
  /\ UNCHANGED <<queue, closed, idx, bloom, bounds, history>>

\* Variant: the filter is not told.
IndexSkipsFilter(t) ==
  /\ pc[t] = "index"
  /\ \E k \in todo[t] : /\ idx' = [idx EXCEPT ![k] = batch[t][k]]
                        /\ Done(t, k, "index", "return")
  /\ UNCHANGED <<queue, closed, row, bloom, newest, bounds, history>>

\* _update_blind_indexes: DELETE and INSERT of one key; Fail has the gap.
Index(t) ==
  /\ pc[t] = "index"
  /\ \E k \in todo[t] : /\ idx' = [idx EXCEPT ![k] = batch[t][k]]
                        /\ Done(t, k, "index", "bloomAdd")
  /\ UNCHANGED <<queue, closed, row, bloom, newest, bounds, history>>

BloomAdd(t) ==
  /\ pc[t] = "bloomAdd"
  /\ \E k \in todo[t] : /\ bloom' = bloom \cup {k}
                        /\ Done(t, k, "bloomAdd", "return")
  /\ UNCHANGED <<queue, closed, row, idx, newest, bounds, history>>

DropBatch(t) ==
  /\ pc[t] \in {"upsert", "index"} /\ faults < MaxFaults
  /\ faults' = faults + 1
  /\ lost' = [k \in Keys |-> IF k \in Unsaved(t) THEN Larger(lost[k], batch[t][k])
                             ELSE lost[k]]
  /\ disturbed' = disturbed \cup Held(t)
  /\ \/ UNCHANGED idx
     \/ pc[t] = "index" /\ \E k \in todo[t] : idx' = [idx EXCEPT ![k] = 0]
  /\ UNCHANGED <<queue, closed, row, bloom, newest, writes, calls, openUntil, accepted>>

\* Variant: the worker does not catch the exception.
FailStopsWorker(t) == /\ DropBatch(t)
                      /\ Goto(t, IF t = Worker THEN "exited" ELSE "idle")
                      /\ batch' = [batch EXCEPT ![t] = None]
                      /\ todo' = [todo EXCEPT ![t] = {}]

\* A statement raises: the rows written so far stay, the rest of the batch is
\* gone, and neither index nor filter hears of it. The worker prints the
\* error and goes on; a client passes it to its caller.
Fail(t) == DropBatch(t) /\ Return(t)

\* Every step of a flush after its call.
FlushStep(t) == Take(t) \/ Upsert(t) \/ Index(t) \/ BloomAdd(t)

Client(t) == (\E k \in Keys : QueueWrite(t, k)) \/ Flush(t) \/ Close(t)

\* The clients have gone quiet, the worker polls an empty queue or has ended.
Finished == /\ \A t \in Clients : pc[t] = "idle"
            /\ pc[Worker] = "exited"
            /\ UNCHANGED vars

Next == \/ \E t \in Clients : Client(t)
        \/ WorkerLoop(Worker)
        \/ \E t \in Threads : FlushStep(t) \/ Fail(t)
        \/ Finished

Spec == Init /\ [][Next]_vars

\* The worker's loop and a flush in progress are never suspended for ever.
Fairness == /\ WF_vars(WorkerLoop(Worker))
            /\ \A t \in Threads : WF_vars(FlushStep(t))
FairSpec == Spec /\ Fairness

-----------------------------------------------------------------------------
Labels == {"idle", "check", "exited", "take", "upsert", "index", "bloomAdd"}

\* Writes are numbered up to the bound; only a thread that flushes holds a
\* batch, and every key it has yet to write is in it.
TypeOK ==
  /\ queue \in [Keys -> 0..MaxWrites] /\ closed \in BOOLEAN
  /\ pc \in [Threads -> Labels]
  /\ batch \in [Threads -> [Keys -> 0..MaxWrites]]
  /\ \A t \in Threads : /\ todo[t] \subseteq Held(t)
                        /\ todo[t] # {} <=> pc[t] \in {"upsert", "index", "bloomAdd"}
                        /\ Held(t) # {} => todo[t] # {}
  /\ DOMAIN todo = Threads
  /\ \A f \in {row, idx, accepted, newest, lost} : f \in [Keys -> 0..MaxWrites]
  /\ bloom \subseteq Keys /\ disturbed \subseteq Keys
  /\ writes \in 0..MaxWrites /\ openUntil \in 0..MaxWrites /\ calls \in 0..MaxCalls /\ faults \in 0..MaxFaults

\* Whatever the clients, the worker and their flushes interleave: the last
\* write accepted for a key is still queued, in a batch that has yet to write
\* it, in SQLite (perhaps overwritten since by an older batch), or a flush gave
\* it up with an error (an exception, a document it cannot encrypt). Nothing
\* falls between the queue and the batch.
NothingDropped ==
  \A k \in Keys : \/ accepted[k] \in {queue[k], newest[k], lost[k]}
                  \/ \E t \in Threads : k \in Unsaved(t) /\ batch[t][k] = accepted[k]

\* Once nothing of a key is queued or in flight, row, index and filter all
\* show the last write accepted, unless two batches held the key at once (an
\* older batch may then finish after a newer one) or a flush gave it up.
LastWriteWins ==
  \A k \in Keys \ disturbed :
    queue[k] = 0 /\ (\A t \in Threads : k \notin Held(t))
      => /\ row[k] = accepted[k] /\ idx[k] = accepted[k]
         /\ row[k] # 0 => k \in bloom

\* Every accepted write, or a newer one of its key, reaches SQLite without
\* anyone calling flush, unless a flush gives it up or it was queued after the
\* engine had been closed: an exception in one flush does not stop the worker,
\* and a close writes what was queued before it.
EveryWriteLands ==
  \A k \in Keys, n \in 1..MaxWrites :
    accepted[k] = n ~> \/ newest[k] >= n \/ lost[k] >= n
                       \/ closed /\ n > openUntil
=============================================================================
