---------------------------- MODULE CacheProofs ----------------------------
(***************************************************************************)
(* Theorems about WriteBehind and about TwoTierCache, whose statements and *)
(* flushes are those of WriteBehind, for every number of keys, clients,    *)
(* writes and failures, and every size of L1.                              *)
(***************************************************************************)
EXTENDS TwoTierCache, SequenceTheorems, TLAPS

(***************************************************************************)
(* The engine. TypeOK is inductive. NothingDropped is not: a batch that    *)
(* overwrites newest or lost must not be newer than what was accepted, so  *)
(* it is proved together with Ordered.                                     *)
(***************************************************************************)
\* No place holds a write newer than the last one accepted.
Ordered == \A k \in Keys :
             /\ accepted[k] <= writes
             /\ queue[k] <= accepted[k]
             /\ newest[k] <= accepted[k]
             /\ lost[k] <= accepted[k]
             /\ \A t \in Threads : batch[t][k] <= accepted[k]

NInv == TypeOK /\ Ordered /\ NothingDropped

-----------------------------------------------------------------------------
(* TypeOK, thread by thread, for the engine alone and under the cache.     *)

CacheLabels == {"kvget", "fill", "persist", "deleteIndex", "deleteRow", "deleteL1"}
AllLabels == Labels \cup CacheLabels

\* TypeOK, but a thread may be at a statement of the cache.
Shape ==
  /\ queue \in [Keys -> 0..MaxWrites] /\ closed \in BOOLEAN
  /\ pc \in [Threads -> AllLabels]
  /\ batch \in [Threads -> [Keys -> 0..MaxWrites]]
  /\ \A t \in Threads : /\ todo[t] \subseteq Held(t)
                        /\ todo[t] # {} <=> pc[t] \in {"upsert", "index", "bloomAdd"}
                        /\ Held(t) # {} => todo[t] # {}
  /\ DOMAIN todo = Threads
  /\ \A f \in {row, idx, accepted, newest, lost} : f \in [Keys -> 0..MaxWrites]
  /\ bloom \subseteq Keys /\ disturbed \subseteq Keys
  /\ writes \in 0..MaxWrites /\ openUntil \in 0..MaxWrites
  /\ calls \in 0..MaxCalls /\ faults \in 0..MaxFaults

\* TypeOK is Shape, but for the labels that only the cache uses.
LEMMA TypeIsShape == TypeOK <=> Shape /\ pc \in [Threads -> Labels]
<1>1. \A f \in [Threads -> Labels] : f \in [Threads -> AllLabels] BY DEF AllLabels
<1> QED BY <1>1 DEF TypeOK, Shape

\* The same after a step.
LEMMA ShapeIsType == ASSUME Shape', pc' \in [Threads -> Labels] PROVE TypeOK'
BY DEF TypeOK, Shape

\* What Shape says of one thread: its label p, its batch b, its work list d.
ThreadOK(p, b, d) ==
  LET held == {k \in Keys : b[k] # 0}
  IN /\ p \in AllLabels
     /\ b \in [Keys -> 0..MaxWrites]
     /\ d \subseteq held
     /\ d # {} <=> p \in {"upsert", "index", "bloomAdd"}
     /\ held # {} => d # {}

ThreadsOK == /\ pc \in [Threads -> AllLabels]
             /\ batch \in [Threads -> [Keys -> 0..MaxWrites]]
             /\ DOMAIN todo = Threads
             /\ \A t \in Threads : ThreadOK(pc[t], batch[t], todo[t])

\* The rest of Shape.
DataOK == /\ queue \in [Keys -> 0..MaxWrites] /\ closed \in BOOLEAN
          /\ row \in [Keys -> 0..MaxWrites] /\ idx \in [Keys -> 0..MaxWrites]
          /\ accepted \in [Keys -> 0..MaxWrites]
          /\ newest \in [Keys -> 0..MaxWrites] /\ lost \in [Keys -> 0..MaxWrites]
          /\ bloom \subseteq Keys /\ disturbed \subseteq Keys
          /\ writes \in 0..MaxWrites /\ openUntil \in 0..MaxWrites
          /\ calls \in 0..MaxCalls /\ faults \in 0..MaxFaults

\* Shape splits into what concerns one thread and the rest.
LEMMA TypeParts == Shape <=> ThreadsOK /\ DataOK
<1>1. ASSUME ThreadsOK, DataOK PROVE Shape
  BY <1>1 DEF ThreadsOK, DataOK, Shape, ThreadOK, Held
<1>2. ASSUME Shape PROVE ThreadsOK /\ DataOK
  <2>1. DataOK BY <1>2 DEF Shape, DataOK
  <2>2. ThreadsOK BY <1>2 DEF Shape, ThreadsOK, ThreadOK, Held
  <2> QED BY <2>1, <2>2
<1> QED BY <1>1, <1>2

\* The same after a step.
LEMMA TypePartsNext == ASSUME ThreadsOK', DataOK' PROVE Shape'
  BY DEF ThreadsOK, DataOK, Shape, ThreadOK, Held

\* Shape splits into what concerns one thread and the data, after a step.
LEMMA ShapeParts == ASSUME Shape' PROVE ThreadsOK' /\ DataOK'
<1>1. DataOK' BY DEF Shape, DataOK
<1>2. ThreadsOK' BY DEF Shape, ThreadsOK, ThreadOK, Held
<1> QED BY <1>1, <1>2

\* The empty queue is a queue, with no key in it.
LEMMA NoneOK == /\ None \in [Keys -> 0..MaxWrites]
                /\ {k \in Keys : None[k] # 0} = {}
  BY WriteBehindAssumption DEF None

\* Thread t alone moves, to label p with batch b and work list d.
MovesTo(t, p, b, d) == /\ pc' = [pc EXCEPT ![t] = p]
                       /\ batch' = [batch EXCEPT ![t] = b]
                       /\ todo' = [todo EXCEPT ![t] = d]

\* A step that gives one thread a fitting label, batch and work list keeps
\* the threads well typed.
LEMMA MoveOK ==
  ASSUME ThreadsOK, NEW t \in Threads, NEW p, NEW b, NEW d,
         ThreadOK(p, b, d), MovesTo(t, p, b, d)
  PROVE  ThreadsOK'
<1>1. /\ pc' \in [Threads -> AllLabels]
      /\ batch' \in [Threads -> [Keys -> 0..MaxWrites]]
      /\ DOMAIN todo' = Threads
  BY DEF ThreadsOK, ThreadOK, MovesTo
<1>2. ASSUME NEW u \in Threads PROVE ThreadOK(pc'[u], batch'[u], todo'[u])
  <2>1. CASE u = t
    <3>1. pc'[u] = p /\ batch'[u] = b /\ todo'[u] = d
      BY <2>1 DEF MovesTo, ThreadsOK
    <3> QED BY <3>1
  <2>2. CASE u # t
    <3>1. pc'[u] = pc[u] /\ batch'[u] = batch[u] /\ todo'[u] = todo[u]
      BY <2>2 DEF MovesTo, ThreadsOK
    <3>2. ThreadOK(pc[u], batch[u], todo[u]) BY DEF ThreadsOK
    <3> QED BY <3>1, <3>2
  <2> QED BY <2>1, <2>2
<1> QED BY <1>1, <1>2 DEF ThreadsOK

\* Only the label of t changes.
LEMMA StayOK ==
  ASSUME ThreadsOK, NEW t \in Threads, NEW p, Goto(t, p), UNCHANGED <<batch, todo>>,
         ThreadOK(p, batch[t], todo[t])
  PROVE  ThreadsOK'
<1>1. pc' \in [Threads -> AllLabels]
  BY DEF ThreadsOK, ThreadOK, Goto
<1>2. ASSUME NEW u \in Threads PROVE ThreadOK(pc'[u], batch'[u], todo'[u])
  <2>1. CASE u = t BY <2>1 DEF Goto, ThreadsOK
  <2>2. CASE u # t
    <3>1. pc'[u] = pc[u] BY <2>2 DEF Goto, ThreadsOK
    <3> QED BY <3>1 DEF ThreadsOK
  <2> QED BY <2>1, <2>2
<1> QED BY <1>1, <1>2 DEF ThreadsOK

\* Returning from a flush does.
LEMMA ReturnOK ==
  ASSUME ThreadsOK, NEW t \in Threads, Return(t) PROVE ThreadsOK'
<1>1. ThreadOK(Resting(t), None, {})
  BY NoneOK DEF ThreadOK, Resting, AllLabels, Labels
<1>2. MovesTo(t, Resting(t), None, {})
  BY DEF Return, Goto, MovesTo
<1> QED BY <1>1, <1>2, MoveOK

\* One key of a phase is done: t stays, goes to the next phase, or returns.
LEMMA DoneOK ==
  ASSUME ThreadsOK, NEW t \in Threads, NEW here, NEW next, NEW k \in todo[t],
         here \in {"upsert", "index", "bloomAdd"}, pc[t] = here,
         next \in {"upsert", "index", "bloomAdd", "return"},
         Done(t, k, here, next)
  PROVE  ThreadsOK'
<1> DEFINE rest == todo[t] \ {k}
<1>1. ThreadOK(pc[t], batch[t], todo[t]) BY DEF ThreadsOK
<1>2. batch = [batch EXCEPT ![t] = batch[t]] BY DEF ThreadsOK
<1>3. CASE rest # {}
  <2>1. ThreadOK(here, batch[t], rest) BY <1>1, <1>3 DEF ThreadOK
  <2>2. MovesTo(t, here, batch[t], rest)
    BY <1>2, <1>3 DEF Done, Goto, MovesTo
  <2> QED BY <2>1, <2>2, MoveOK
<1>4. CASE rest = {} /\ next = "return"
  BY <1>4, ReturnOK DEF Done
<1>5. CASE rest = {} /\ next # "return"
  <2>1. ThreadOK(next, batch[t], Held(t))
    BY <1>1, <1>5 DEF ThreadOK, Held, AllLabels, Labels
  <2>2. MovesTo(t, next, batch[t], Held(t))
    BY <1>2, <1>5 DEF Done, Goto, MovesTo
  <2> QED BY <2>1, <2>2, MoveOK
<1> QED BY <1>3, <1>4, <1>5

\* The initial state is well typed.
LEMMA InitOK == Init => TypeOK
<1> SUFFICES ASSUME Init PROVE ThreadsOK /\ DataOK /\ pc \in [Threads -> Labels]
  BY TypeParts, TypeIsShape
<1>1. DataOK
  <2>1. {} \subseteq Keys /\ FALSE \in BOOLEAN OBVIOUS
  <2>2. 0 \in 0..MaxWrites /\ 0 \in 0..MaxCalls /\ 0 \in 0..MaxFaults
    BY WriteBehindAssumption
  <2> QED BY <2>1, <2>2, NoneOK DEF Init, DataOK
<1>2. ASSUME NEW t \in Threads PROVE ThreadOK(pc[t], batch[t], todo[t])
  BY NoneOK DEF Init, ThreadOK, AllLabels, Labels
<1>3. ThreadsOK
  BY <1>2, NoneOK DEF Init, ThreadsOK, AllLabels, Labels
<1>4. pc \in [Threads -> Labels] BY DEF Init, Labels
<1> QED BY <1>1, <1>3, <1>4

\* A thread at rest, or about to take the queue, holds no batch.
LEMMA RestOK ==
  ASSUME ThreadsOK, NEW t \in Threads, pc[t] \notin {"upsert", "index", "bloomAdd"}
  PROVE  \A p \in AllLabels \ {"upsert", "index", "bloomAdd"} :
           ThreadOK(p, batch[t], todo[t])
  BY DEF ThreadsOK, ThreadOK

\* What t takes from the queue when the documents in S cannot be encrypted.
Taken(S) == {k \in Keys : queue[k] # 0} \ S
BatchOf(S) == [k \in Keys |-> IF k \in Taken(S) THEN queue[k] ELSE 0]
LabelOf(t, S) == IF Taken(S) = {} THEN Resting(t) ELSE "upsert"

\* Taking the queue gives t a batch of what can be encrypted.
LEMMA TakeMoves ==
  ASSUME NEW t \in Threads, NEW S, TakeBut(t, S)
  PROVE  MovesTo(t, LabelOf(t, S), BatchOf(S), Taken(S))
  BY DEF TakeBut, MovesTo, Goto, LabelOf, BatchOf, Taken

\* A batch has exactly the keys that were taken, as they were queued.
LEMMA TakenHeld ==
  ASSUME DataOK, NEW S
  PROVE  /\ BatchOf(S) \in [Keys -> 0..MaxWrites]
         /\ {k \in Keys : BatchOf(S)[k] # 0} = Taken(S)
  BY WriteBehindAssumption DEF DataOK, BatchOf, Taken

\* It keeps the shape.
LEMMA TakeButShape ==
  ASSUME ThreadsOK, DataOK, NEW t \in Threads,
         NEW S \in SUBSET {k \in Keys : queue[k] # 0}, TakeBut(t, S),
         UNCHANGED <<closed, db, writes, calls, openUntil, accepted>>,
         faults' \in 0..MaxFaults
  PROVE  ThreadsOK' /\ DataOK'
<1>1. ThreadOK(LabelOf(t, S), BatchOf(S), Taken(S))
  <2>1. CASE Taken(S) = {}
    BY <2>1, TakenHeld DEF ThreadOK, LabelOf, Resting, AllLabels, Labels
  <2>2. CASE Taken(S) # {}
    BY <2>2, TakenHeld DEF ThreadOK, LabelOf, AllLabels, Labels
  <2> QED BY <2>1, <2>2
<1>2. ThreadsOK' BY <1>1, TakeMoves, MoveOK
<1>3. queue' \in [Keys -> 0..MaxWrites] BY NoneOK DEF TakeBut
<1>4. lost' \in [Keys -> 0..MaxWrites] BY DEF TakeBut, DataOK, Larger
<1>5. disturbed' \subseteq Keys BY DEF TakeBut, DataOK
<1>6. DataOK' BY <1>3, <1>4, <1>5 DEF DataOK, db
<1> QED BY <1>2, <1>6

\* Every statement of a flush keeps Shape.
LEMMA FlushShape ==
  ASSUME Shape, NEW t \in Threads, FlushStep(t) \/ Fail(t) PROVE Shape'
<1> SUFFICES ASSUME ThreadsOK, DataOK PROVE ThreadsOK' /\ DataOK'
  BY TypeParts, TypePartsNext
<1>1. CASE Take(t)
  <2>1. CASE queue = None /\ Return(t) /\ UNCHANGED <<queue, faults, disturbed, lost>>
    <3>1. DataOK' BY <1>1, <2>1 DEF Take, DataOK, db
    <3> QED BY <2>1, <3>1, ReturnOK
  <2>2. CASE TakeBut(t, {}) /\ UNCHANGED faults
    <3>1. faults' \in 0..MaxFaults BY <2>2 DEF DataOK
    <3> QED BY <1>1, <2>2, <3>1, TakeButShape DEF Take
  <2>3. ASSUME faults < MaxFaults, faults' = faults + 1,
               NEW S \in SUBSET {k \in Keys : queue[k] # 0}, TakeBut(t, S)
        PROVE  ThreadsOK' /\ DataOK'
    <3>1. faults' \in 0..MaxFaults BY <2>3, WriteBehindAssumption DEF DataOK
    <3> QED BY <1>1, <2>3, <3>1, TakeButShape DEF Take
  <2> QED BY <1>1, <2>1, <2>2, <2>3 DEF Take
<1>2. CASE Upsert(t)
  <2>1. PICK k \in todo[t] : /\ row' = [row EXCEPT ![k] = batch[t][k]]
                             /\ newest' = [newest EXCEPT ![k] = Larger(@, batch[t][k])]
                             /\ Done(t, k, "upsert", "index")
    BY <1>2 DEF Upsert
  <2>2. ThreadsOK' BY <1>2, <2>1, DoneOK DEF Upsert
  <2>3. k \in Keys /\ batch[t][k] \in 0..MaxWrites
    BY DEF ThreadsOK, ThreadOK
  <2>4. row' \in [Keys -> 0..MaxWrites] /\ newest' \in [Keys -> 0..MaxWrites]
    BY <2>1, <2>3 DEF DataOK, Larger
  <2>5. DataOK' BY <1>2, <2>4 DEF Upsert, DataOK, bounds, history
  <2> QED BY <2>2, <2>5
<1>3. CASE Index(t)
  <2>1. PICK k \in todo[t] : /\ idx' = [idx EXCEPT ![k] = batch[t][k]]
                             /\ Done(t, k, "index", "bloomAdd")
    BY <1>3 DEF Index
  <2>2. ThreadsOK' BY <1>3, <2>1, DoneOK DEF Index
  <2>3. k \in Keys /\ batch[t][k] \in 0..MaxWrites
    BY DEF ThreadsOK, ThreadOK
  <2>4. idx' \in [Keys -> 0..MaxWrites] BY <2>1, <2>3 DEF DataOK
  <2>5. DataOK' BY <1>3, <2>4 DEF Index, DataOK, bounds, history
  <2> QED BY <2>2, <2>5
<1>4. CASE BloomAdd(t)
  <2>1. PICK k \in todo[t] : bloom' = bloom \cup {k} /\ Done(t, k, "bloomAdd", "return")
    BY <1>4 DEF BloomAdd
  <2>2. ThreadsOK' BY <1>4, <2>1, DoneOK DEF BloomAdd
  <2>3. k \in Keys BY DEF ThreadsOK, ThreadOK
  <2>4. DataOK' BY <1>4, <2>1, <2>3 DEF BloomAdd, DataOK, bounds, history
  <2> QED BY <2>2, <2>4
<1>5. CASE Fail(t)
  <2>1. ThreadsOK' BY <1>5, ReturnOK DEF Fail
  <2>2. /\ \A k \in todo[t] : k \in Keys
        /\ \A k \in Keys : batch[t][k] \in 0..MaxWrites
        /\ Held(t) \subseteq Keys
    BY DEF ThreadsOK, ThreadOK, Held
  <2>3. lost' \in [Keys -> 0..MaxWrites]
    BY <1>5, <2>2 DEF Fail, DropBatch, DataOK, Larger
  <2>4. idx' \in [Keys -> 0..MaxWrites]
    BY <1>5, <2>2, WriteBehindAssumption DEF Fail, DropBatch, DataOK
  <2>5. faults' \in 0..MaxFaults
    BY <1>5, WriteBehindAssumption DEF Fail, DropBatch, DataOK
  <2>6. disturbed' \subseteq Keys
    BY <1>5, <2>2 DEF Fail, DropBatch, DataOK
  <2>7. DataOK' BY <1>5, <2>3, <2>4, <2>5, <2>6 DEF Fail, DropBatch, DataOK
  <2> QED BY <2>1, <2>7
<1> QED BY <1>1, <1>2, <1>3, <1>4, <1>5 DEF FlushStep

\* Every action keeps Shape.
LEMMA NextShape == Shape /\ [Next]_vars => Shape'
<1> SUFFICES ASSUME ThreadsOK, DataOK, [Next]_vars PROVE ThreadsOK' /\ DataOK'
  BY TypeParts, TypePartsNext
<1>1. ASSUME NEW t \in Clients, NEW k \in Keys, QueueWrite(t, k)
      PROVE  ThreadsOK' /\ DataOK'
  <2>1. PICK p \in {"take", "idle", "check"} : Goto(t, p)
    BY <1>1 DEF QueueWrite, Enqueue, Resting
  <2>2. t \in Threads BY DEF Threads
  <2>3. ThreadOK(p, batch[t], todo[t])
    BY <1>1, <2>2, RestOK DEF QueueWrite, AllLabels, Labels
  <2>4. ThreadsOK' BY <1>1, <2>1, <2>2, <2>3, StayOK DEF QueueWrite
  <2>5. DataOK' 
    BY <1>1, WriteBehindAssumption DEF QueueWrite, Enqueue, DataOK, db
  <2> QED BY <2>4, <2>5
<1>2. ASSUME NEW t \in Clients, Flush(t) \/ Close(t)
      PROVE  ThreadsOK' /\ DataOK'
  <2>1. t \in Threads BY DEF Threads
  <2> FlushCall(t) BY <1>2 DEF Flush, Close
  <2>2. ThreadOK("take", batch[t], todo[t])
    BY <2>1, RestOK DEF FlushCall, AllLabels, Labels
  <2>3. ThreadsOK' BY <2>1, <2>2, StayOK DEF FlushCall
  <2>4. closed' \in BOOLEAN /\ openUntil' \in 0..MaxWrites
    BY <1>2 DEF Flush, Close, SetStop, DataOK
  <2>5. DataOK'
    BY <2>4, WriteBehindAssumption DEF FlushCall, DataOK, db
  <2> QED BY <2>3, <2>5
<1>3. ASSUME WorkerLoop(Worker) PROVE ThreadsOK' /\ DataOK'
  <2>1. Worker \in Threads BY DEF Threads
  <2>2. PICK p \in {"exited", "take"} : Goto(Worker, p) BY <1>3 DEF WorkerLoop
  <2>3. ThreadOK(p, batch[Worker], todo[Worker])
    BY <1>3, <2>1, RestOK DEF WorkerLoop, AllLabels, Labels
  <2>4. ThreadsOK' BY <1>3, <2>1, <2>2, <2>3, StayOK DEF WorkerLoop
  <2>5. DataOK' BY <1>3 DEF WorkerLoop, DataOK, db, history, bounds
  <2> QED BY <2>4, <2>5
<1>4. ASSUME NEW t \in Threads, FlushStep(t) \/ Fail(t) PROVE ThreadsOK' /\ DataOK'
  BY <1>4, FlushShape, TypeParts, ShapeParts
<1>5. ASSUME UNCHANGED vars PROVE ThreadsOK' /\ DataOK'
  BY <1>5 DEF vars, db, bounds, history, ThreadsOK, DataOK
<1> QED BY <1>1, <1>2, <1>3, <1>4, <1>5 DEF Next, Client, Finished

\* Without a cache, no thread comes to a statement of the cache.
LEMMA EngineLabels ==
  ASSUME pc \in [Threads -> Labels], [Next]_vars PROVE pc' \in [Threads -> Labels]
<1>1. \A t \in Threads : Resting(t) \in Labels BY DEF Resting, Labels
<1>2. ASSUME NEW t \in Threads, NEW label \in Labels, Goto(t, label)
      PROVE  pc' \in [Threads -> Labels]
  BY <1>2 DEF Goto
<1>3. ASSUME NEW t \in Threads, Return(t) PROVE pc' \in [Threads -> Labels]
  BY <1>1, <1>2, <1>3 DEF Return
<1>4. ASSUME NEW t \in Threads, NEW k, NEW here \in Labels, NEW next \in Labels \cup {"return"},
             Done(t, k, here, next)
      PROVE  pc' \in [Threads -> Labels]
  BY <1>2, <1>3, <1>4 DEF Done
<1>5. ASSUME NEW t \in Threads, FlushStep(t) \/ Fail(t) PROVE pc' \in [Threads -> Labels]
  <2>1. "upsert" \in Labels /\ "index" \in Labels /\ "bloomAdd" \in Labels BY DEF Labels
  <2>2. CASE Take(t)
    <3>1. ASSUME NEW S, TakeBut(t, S) PROVE pc' \in [Threads -> Labels]
      BY <1>1, <1>2, <2>1, <3>1 DEF TakeBut
    <3> QED BY <1>3, <2>2, <3>1 DEF Take
  <2>3. CASE Upsert(t) BY <1>4, <2>1, <2>3 DEF Upsert
  <2>4. CASE Index(t) BY <1>4, <2>1, <2>4 DEF Index
  <2>5. CASE BloomAdd(t) BY <1>4, <2>1, <2>5 DEF BloomAdd
  <2>6. CASE Fail(t) BY <1>3, <2>6 DEF Fail
  <2> QED BY <1>5, <2>2, <2>3, <2>4, <2>5, <2>6 DEF FlushStep
<1>6. ASSUME NEW t \in Clients, Client(t) PROVE pc' \in [Threads -> Labels]
  <2>1. t \in Threads /\ "take" \in Labels BY DEF Threads, Labels
  <2> QED BY <1>1, <1>2, <1>6, <2>1 DEF Client, QueueWrite, Enqueue, Flush, Close, FlushCall
<1>7. CASE WorkerLoop(Worker)
  <2>1. Worker \in Threads /\ "take" \in Labels /\ "exited" \in Labels BY DEF Threads, Labels
  <2> QED BY <1>2, <1>7, <2>1 DEF WorkerLoop
<1>8. CASE UNCHANGED vars BY <1>8 DEF vars
<1> QED BY <1>5, <1>6, <1>7, <1>8 DEF Next, Finished

\* Every action keeps TypeOK.
LEMMA NextOK == TypeOK /\ [Next]_vars => TypeOK'
BY TypeIsShape, NextShape, EngineLabels, ShapeIsType

\* Every reachable state is well typed; in particular a thread that is not in
\* the middle of a flush holds no batch, so nothing is written twice.
THEOREM TypeCorrect == Spec => []TypeOK
<1> QED BY InitOK, NextOK, PTL DEF Spec

-----------------------------------------------------------------------------
(* Nothing falls between the queue and the batch.                          *)

\* Where the last write accepted for k can be.
Placed(k) == \/ accepted[k] \in {queue[k], newest[k], lost[k]}
             \/ \E t \in Threads : k \in Unsaved(t) /\ batch[t][k] = accepted[k]

\* NothingDropped, key by key.
LEMMA PlacedEverywhere == NothingDropped <=> \A k \in Keys : Placed(k)
  BY DEF NothingDropped, Placed

\* The same after a step.
LEMMA PlacedNext == ASSUME \A k \in Keys : Placed(k)' PROVE NothingDropped'
  BY DEF NothingDropped, Placed

\* The bounds of Ordered for one key.
Below(k) == /\ accepted[k] <= writes
            /\ queue[k] <= accepted[k]
            /\ newest[k] <= accepted[k]
            /\ lost[k] <= accepted[k]
            /\ \A t \in Threads : batch[t][k] <= accepted[k]

\* Ordered, key by key, after a step.
LEMMA OrderedNext == ASSUME \A k \in Keys : Below(k)' PROVE Ordered'
  BY DEF Ordered, Below

\* Writes are numbered by naturals.
LEMMA Numbers ==
  ASSUME TypeOK, NEW k \in Keys
  PROVE  /\ writes \in Nat /\ queue[k] \in Nat /\ accepted[k] \in Nat
         /\ newest[k] \in Nat /\ lost[k] \in Nat
         /\ \A t \in Threads : batch[t][k] \in Nat
  BY WriteBehindAssumption DEF TypeOK

\* A step that only moves labels and ends no upsert disturbs neither.
LEMMA Undisturbed ==
  ASSUME TypeOK, Ordered, NothingDropped, TypeOK', NEW t \in Threads,
         UNCHANGED <<queue, accepted, newest, lost, writes>>,
         pc[t] # "upsert",
         \A u \in Threads \ {t} : /\ pc'[u] = pc[u] /\ todo'[u] = todo[u]
                                  /\ batch'[u] = batch[u],
         batch'[t] = batch[t] \/ batch'[t] = None
  PROVE  Ordered' /\ NothingDropped'
<1>1. ASSUME NEW k \in Keys PROVE Below(k)'
  <2>1. ASSUME NEW u \in Threads PROVE batch'[u][k] <= accepted[k]
    <3>1. batch'[u] = batch[u] \/ batch'[u][k] = 0 BY DEF None
    <3> QED BY <3>1, Numbers DEF Ordered
  <2> QED BY <2>1 DEF Below, Ordered
<1>2. ASSUME NEW k \in Keys PROVE Placed(k)'
  <2>1. CASE accepted[k] \in {queue[k], newest[k], lost[k]}
    BY <2>1 DEF Placed
  <2>2. CASE \E u \in Threads : k \in Unsaved(u) /\ batch[u][k] = accepted[k]
    <3>1. PICK u \in Threads : k \in Unsaved(u) /\ batch[u][k] = accepted[k]
      BY <2>2
    <3>2. u # t BY <3>1 DEF Unsaved
    <3>3. k \in Unsaved(u)' BY <3>1, <3>2 DEF Unsaved
    <3> QED BY <3>1, <3>2, <3>3 DEF Placed
  <2> QED BY <2>1, <2>2, PlacedEverywhere DEF Placed
<1> QED BY <1>1, <1>2, OrderedNext, PlacedNext

\* A write that is queued is placed in the queue, and newer than all others.
LEMMA QueueWriteKeeps ==
  ASSUME TypeOK, Ordered, NothingDropped, NEW t \in Clients, NEW j \in Keys,
         QueueWrite(t, j)
  PROVE  Ordered' /\ NothingDropped'
<1>1. /\ queue' = [queue EXCEPT ![j] = writes + 1]
      /\ accepted' = [accepted EXCEPT ![j] = writes + 1]
      /\ writes' = writes + 1
      /\ UNCHANGED <<newest, lost, batch, todo>>
  BY DEF QueueWrite, Enqueue, db
<1>2. \A u \in Threads : Unsaved(u) \subseteq Unsaved(u)'
  BY <1>1 DEF QueueWrite, Enqueue, Goto, Unsaved, TypeOK
<1>3. /\ queue'[j] = writes + 1 /\ accepted'[j] = writes + 1
      /\ \A k \in Keys \ {j} : queue'[k] = queue[k] /\ accepted'[k] = accepted[k]
  BY <1>1 DEF TypeOK
<1>4. ASSUME NEW k \in Keys PROVE Below(k)'
  <2>1. CASE k = j BY <1>1, <1>3, <2>1, Numbers DEF Below, Ordered
  <2>2. CASE k # j BY <1>1, <1>3, <2>2, Numbers DEF Below, Ordered
  <2> QED BY <2>1, <2>2
<1>5. ASSUME NEW k \in Keys PROVE Placed(k)'
  <2>1. CASE k = j BY <1>3, <2>1 DEF Placed
  <2>2. CASE k # j BY <1>1, <1>2, <1>3, <2>2, PlacedEverywhere DEF Placed
  <2> QED BY <2>1, <2>2
<1> QED BY <1>4, <1>5, OrderedNext, PlacedNext

\* The thread has the batch that was taken, the others are as they were.
LEMMA TakeButStill ==
  ASSUME ThreadsOK, NEW t \in Threads, NEW S, TakeBut(t, S)
  PROVE  /\ pc'[t] = LabelOf(t, S) /\ batch'[t] = BatchOf(S) /\ todo'[t] = Taken(S)
         /\ \A u \in Threads \ {t} : /\ pc'[u] = pc[u] /\ todo'[u] = todo[u]
                                     /\ batch'[u] = batch[u]
  BY TakeMoves DEF MovesTo, ThreadsOK

\* What was queued is in the batch now, or given up.
LEMMA TakeButKeeps ==
  ASSUME TypeOK, Ordered, NothingDropped, NEW t \in Threads, pc[t] = "take",
         NEW S \in SUBSET {k \in Keys : queue[k] # 0}, TakeBut(t, S),
         UNCHANGED <<accepted, newest, writes>>
  PROVE  Ordered' /\ NothingDropped'
<1>t. ThreadsOK BY TypeIsShape, TypeParts
<1>1. /\ queue' = None
      /\ \A k \in Keys : lost'[k] = IF k \in S THEN Larger(lost[k], queue[k])
                                    ELSE lost[k]
  BY DEF TakeBut
<1>2. /\ pc'[t] = LabelOf(t, S) /\ batch'[t] = BatchOf(S) /\ todo'[t] = Taken(S)
      /\ \A u \in Threads \ {t} : /\ pc'[u] = pc[u] /\ todo'[u] = todo[u]
                                  /\ batch'[u] = batch[u]
  BY <1>t, TakeButStill
<1>3. ASSUME NEW k \in Keys PROVE Below(k)'
  <2>1. queue'[k] = 0 BY <1>1 DEF None
  <2>2. lost'[k] <= accepted[k] BY <1>1 DEF Larger, Ordered
  <2>3. BatchOf(S)[k] <= accepted[k] BY Numbers DEF BatchOf, Ordered
  <2>4. ASSUME NEW u \in Threads PROVE batch'[u][k] <= accepted[k]
    BY <1>2, <2>3 DEF Ordered
  <2> QED BY <2>1, <2>2, <2>4, Numbers DEF Below, Ordered
<1>4. ASSUME NEW k \in Keys PROVE Placed(k)'
  <2>1. CASE accepted[k] = queue[k] /\ k \in Taken(S)
    <3>1. pc'[t] = "upsert" /\ todo'[t] = Taken(S) BY <1>2, <2>1 DEF LabelOf
    <3>2. batch'[t][k] = queue[k] BY <1>2, <2>1 DEF BatchOf
    <3>3. k \in Unsaved(t)' BY <2>1, <3>1 DEF Unsaved
    <3> QED BY <2>1, <3>2, <3>3 DEF Placed
  <2>2. CASE accepted[k] = queue[k] /\ k \in S
    <3>1. lost'[k] = accepted[k] BY <1>1, <2>2, Numbers DEF Larger, Ordered
    <3> QED BY <3>1 DEF Placed
  <2>3. CASE accepted[k] = queue[k] /\ queue[k] = 0
    BY <1>1, <2>3 DEF Placed, None
  <2>4. CASE accepted[k] = newest[k] BY <2>4 DEF Placed
  <2>5. CASE accepted[k] = lost[k]
    <3>1. lost'[k] = accepted[k] BY <1>1, <2>5, Numbers DEF Larger, Ordered
    <3> QED BY <3>1 DEF Placed
  <2>6. CASE \E u \in Threads : k \in Unsaved(u) /\ batch[u][k] = accepted[k]
    <3>1. PICK u \in Threads : k \in Unsaved(u) /\ batch[u][k] = accepted[k]
      BY <2>6
    <3>2. u # t BY <3>1 DEF Unsaved
    <3>3. k \in Unsaved(u)' BY <1>2, <3>1, <3>2 DEF Unsaved
    <3> QED BY <1>2, <3>1, <3>2, <3>3 DEF Placed
  <2>7. accepted[k] = queue[k] => k \in Taken(S) \/ k \in S \/ queue[k] = 0
    BY DEF Taken
  <2> QED BY <2>1, <2>2, <2>3, <2>4, <2>5, <2>6, <2>7, PlacedEverywhere DEF Placed
<1> QED BY <1>3, <1>4, OrderedNext, PlacedNext

\* Either way, and when the queue is empty.
LEMMA TakeKeeps ==
  ASSUME TypeOK, Ordered, NothingDropped, TypeOK', NEW t \in Threads, Take(t)
  PROVE  Ordered' /\ NothingDropped'
<1>1. UNCHANGED <<accepted, newest, writes>> /\ pc[t] = "take" BY DEF Take, db
<1>2. CASE Return(t) /\ UNCHANGED <<queue, lost>>
  <2>1. \A u \in Threads \ {t} : /\ pc'[u] = pc[u] /\ todo'[u] = todo[u]
                                 /\ batch'[u] = batch[u]
    BY <1>2 DEF Return, Goto, TypeOK
  <2>2. batch'[t] = None BY <1>2 DEF Return, TypeOK
  <2> QED BY <1>1, <1>2, <2>1, <2>2, Undisturbed
<1>3. CASE TakeBut(t, {})
  BY <1>1, <1>3, TakeButKeeps
<1>4. ASSUME NEW S \in SUBSET {k \in Keys : queue[k] # 0}, TakeBut(t, S)
      PROVE  Ordered' /\ NothingDropped'
  BY <1>1, <1>4, TakeButKeeps
<1> QED BY <1>2, <1>3, <1>4 DEF Take

\* A row has been written: newest has the write, unless it had a newer one,
\* and nothing newer than the accepted one exists.
LEMMA UpsertKeeps ==
  ASSUME TypeOK, Ordered, NothingDropped, NEW t \in Threads, Upsert(t)
  PROVE  Ordered' /\ NothingDropped'
<1>1. PICK j \in todo[t] : /\ newest' = [newest EXCEPT ![j] = Larger(@, batch[t][j])]
                           /\ Done(t, j, "upsert", "index")
  BY DEF Upsert
<1>2. UNCHANGED <<queue, accepted, lost, writes>> BY DEF Upsert, history, bounds
<1>3. j \in Keys BY DEF TypeOK, Held
<1>4. /\ newest'[j] = Larger(newest[j], batch[t][j])
      /\ \A k \in Keys \ {j} : newest'[k] = newest[k]
  BY <1>1, <1>3 DEF TypeOK
<1>5. batch' = batch BY <1>1 DEF Done
<1>6. \A u \in Threads : Unsaved(u) \ {j} \subseteq Unsaved(u)'
  <2>1. ASSUME NEW u \in Threads, u # t PROVE Unsaved(u)' = Unsaved(u)
    BY <1>1, <2>1 DEF Done, Goto, Unsaved, TypeOK
  <2>2. Unsaved(t) \ {j} \subseteq Unsaved(t)'
    BY <1>1 DEF Upsert, Done, Goto, Unsaved, TypeOK
  <2> QED BY <2>1, <2>2
<1>7. newest[j] <= accepted[j] /\ batch[t][j] <= accepted[j]
  BY <1>3 DEF Ordered
<1>8. ASSUME NEW k \in Keys PROVE Below(k)'
  <2>1. newest'[k] <= accepted[k]
    BY <1>3, <1>4, <1>7 DEF Larger, Ordered
  <2> QED BY <1>2, <1>5, <2>1 DEF Below, Ordered
<1>9. ASSUME NEW k \in Keys PROVE Placed(k)'
  <2>1. CASE k # j
    BY <1>2, <1>4, <1>5, <1>6, <2>1, PlacedEverywhere DEF Placed
  <2>2. CASE k = j
    <3>1. CASE accepted[j] \in {queue[j], lost[j]}
      BY <1>2, <2>2, <3>1 DEF Placed
    <3>2. CASE accepted[j] = newest[j]
      <4>1. newest'[j] = accepted[j]
        BY <1>3, <1>4, <1>7, <3>2, Numbers DEF Larger
      <4> QED BY <1>2, <2>2, <4>1 DEF Placed
    <3>3. CASE \E u \in Threads \ {t} : j \in Unsaved(u) /\ batch[u][j] = accepted[j]
      <4>1. PICK u \in Threads \ {t} : j \in Unsaved(u) /\ batch[u][j] = accepted[j]
        BY <3>3
      <4>2. j \in Unsaved(u)'
        BY <1>1, <4>1 DEF Done, Goto, Unsaved, TypeOK
      <4> QED BY <1>2, <1>5, <2>2, <4>1, <4>2 DEF Placed
    <3>4. CASE batch[t][j] = accepted[j]
      <4>1. newest'[j] = accepted[j]
        BY <1>3, <1>4, <1>7, <3>4, Numbers DEF Larger
      <4> QED BY <1>2, <2>2, <4>1 DEF Placed
    <3> QED BY <1>3, <3>1, <3>2, <3>3, <3>4, PlacedEverywhere DEF Placed
  <2> QED BY <2>1, <2>2
<1> QED BY <1>8, <1>9, OrderedNext, PlacedNext

\* What a batch had yet to write when it failed is lost.
LEMMA FailKeeps ==
  ASSUME TypeOK, Ordered, NothingDropped, NEW t \in Threads, Fail(t)
  PROVE  Ordered' /\ NothingDropped'
<1>1. /\ UNCHANGED <<queue, accepted, newest, writes>>
      /\ \A k \in Keys : lost'[k] = IF k \in Unsaved(t) THEN Larger(lost[k], batch[t][k])
                                    ELSE lost[k]
  BY DEF Fail, DropBatch
<1>2. \A u \in Threads \ {t} : /\ pc'[u] = pc[u] /\ todo'[u] = todo[u]
                               /\ batch'[u] = batch[u]
  BY DEF Fail, Return, Goto, TypeOK
<1>3. batch'[t] = None BY DEF Fail, Return, TypeOK
<1>4. ASSUME NEW k \in Keys PROVE Below(k)'
  <2>1. lost'[k] <= accepted[k] BY <1>1 DEF Larger, Ordered
  <2>2. ASSUME NEW u \in Threads PROVE batch'[u][k] <= accepted[k]
    <3>1. batch'[u] = batch[u] \/ batch'[u][k] = 0 BY <1>2, <1>3 DEF None
    <3> QED BY <3>1, Numbers DEF Ordered
  <2> QED BY <1>1, <2>1, <2>2 DEF Below, Ordered
<1>5. ASSUME NEW k \in Keys PROVE Placed(k)'
  <2>1. CASE accepted[k] \in {queue[k], newest[k]} BY <1>1, <2>1 DEF Placed
  <2>2. CASE accepted[k] = lost[k]
    <3>1. lost'[k] = accepted[k] BY <1>1, <2>2, Numbers DEF Larger, Ordered
    <3> QED BY <1>1, <3>1 DEF Placed
  <2>3. CASE k \in Unsaved(t) /\ batch[t][k] = accepted[k]
    <3>1. lost'[k] = accepted[k] BY <1>1, <2>3, Numbers DEF Larger, Ordered
    <3> QED BY <1>1, <3>1 DEF Placed
  <2>4. CASE \E u \in Threads \ {t} : k \in Unsaved(u) /\ batch[u][k] = accepted[k]
    <3>1. PICK u \in Threads \ {t} : k \in Unsaved(u) /\ batch[u][k] = accepted[k]
      BY <2>4
    <3>2. k \in Unsaved(u)' BY <1>2, <3>1 DEF Unsaved
    <3> QED BY <1>1, <1>2, <3>1, <3>2 DEF Placed
  <2> QED BY <2>1, <2>2, <2>3, <2>4, PlacedEverywhere DEF Placed
<1> QED BY <1>4, <1>5, OrderedNext, PlacedNext

\* Nothing is accepted at the start.
LEMMA NInvInit == Init => NInv
<1> SUFFICES ASSUME Init PROVE TypeOK /\ Ordered /\ NothingDropped BY DEF NInv
<1>1. TypeOK BY InitOK
<1>2. \A k \in Keys : None[k] = 0 BY DEF None
<1>3. /\ queue = None /\ accepted = None /\ newest = None /\ lost = None
      /\ writes = 0 /\ \A t \in Threads : batch[t] = None
  BY DEF Init
<1>4. Ordered BY <1>2, <1>3 DEF Ordered
<1>5. NothingDropped BY <1>3 DEF NothingDropped
<1> QED BY <1>1, <1>4, <1>5

\* Every action keeps NInv.
LEMMA NInvNext == NInv /\ [Next]_vars => NInv'
<1> SUFFICES ASSUME TypeOK, Ordered, NothingDropped, [Next]_vars
             PROVE  Ordered' /\ NothingDropped' /\ TypeOK'
  BY DEF NInv
<1>t. TypeOK' BY NextOK
<1>1. ASSUME NEW t \in Clients, NEW k \in Keys, QueueWrite(t, k)
      PROVE  Ordered' /\ NothingDropped'
  BY <1>1, QueueWriteKeeps
<1>2. ASSUME NEW t \in Clients, Flush(t) \/ Close(t)
      PROVE  Ordered' /\ NothingDropped'
  <2> FlushCall(t) BY <1>2 DEF Flush, Close
  <2>1. /\ t \in Threads /\ pc[t] # "upsert"
        /\ UNCHANGED <<queue, accepted, newest, lost, writes, batch, todo>>
    BY DEF FlushCall, Threads, db
  <2>2. \A u \in Threads \ {t} : pc'[u] = pc[u]
    BY DEF FlushCall, Goto, TypeOK
  <2> QED BY <1>t, <2>1, <2>2, Undisturbed
<1>3. ASSUME WorkerLoop(Worker) PROVE Ordered' /\ NothingDropped'
  <2>1. /\ Worker \in Threads /\ pc[Worker] # "upsert"
        /\ UNCHANGED <<queue, accepted, newest, lost, writes, batch, todo>>
    BY <1>3 DEF WorkerLoop, Threads, db, history, bounds
  <2>2. \A u \in Threads \ {Worker} : pc'[u] = pc[u]
    BY <1>3 DEF WorkerLoop, Goto, TypeOK
  <2> QED BY <1>t, <2>1, <2>2, Undisturbed
<1>4. ASSUME NEW t \in Threads, Take(t) PROVE Ordered' /\ NothingDropped'
  BY <1>t, <1>4, TakeKeeps
<1>5. ASSUME NEW t \in Threads, Upsert(t) PROVE Ordered' /\ NothingDropped'
  BY <1>5, UpsertKeeps
<1>6. ASSUME NEW t \in Threads, Index(t) \/ BloomAdd(t)
      PROVE  Ordered' /\ NothingDropped'
  <2>1. /\ pc[t] # "upsert"
        /\ UNCHANGED <<queue, accepted, newest, lost, writes>>
    BY <1>6 DEF Index, BloomAdd, history, bounds
  <2>2. \E k \in todo[t], here \in Labels, next \in {"bloomAdd", "return"} :
          Done(t, k, here, next)
    BY <1>6 DEF Index, BloomAdd, Labels
  <2>3. /\ \A u \in Threads \ {t} : /\ pc'[u] = pc[u] /\ todo'[u] = todo[u]
                                    /\ batch'[u] = batch[u]
        /\ batch'[t] = batch[t] \/ batch'[t] = None
    BY <2>2 DEF Done, Return, Goto, TypeOK
  <2> QED BY <1>t, <2>1, <2>3, Undisturbed
<1>7. ASSUME NEW t \in Threads, Fail(t) PROVE Ordered' /\ NothingDropped'
  BY <1>7, FailKeeps
<1>8. ASSUME UNCHANGED vars PROVE Ordered' /\ NothingDropped'
  BY <1>8 DEF vars, db, bounds, history, Ordered, NothingDropped, Unsaved
<1> QED
  BY <1>t, <1>1, <1>2, <1>3, <1>4, <1>5, <1>6, <1>7, <1>8
  DEF Next, Client, FlushStep, Finished

\* The last write accepted for a key is never lost between queue_write, the
\* worker and any number of flushes at once: it is queued, in a batch that has
\* yet to write it, in SQLite (perhaps overwritten since by an older batch), or
\* a flush gave it up: an exception dropped its batch, or it could not be
\* encrypted.
THEOREM NoWriteDropped == Spec => []NothingDropped
<1>1. NInv => NothingDropped BY DEF NInv
<1> QED BY <1>1, NInvInit, NInvNext, PTL DEF Spec

-----------------------------------------------------------------------------
(* The last write wins, where one batch at a time has a key.               *)

RowDone(t, k) == \/ pc[t] \in {"index", "bloomAdd"}
                 \/ pc[t] = "upsert" /\ k \notin todo[t]
IndexDone(t, k) == \/ pc[t] = "bloomAdd"
                   \/ pc[t] = "index" /\ k \notin todo[t]
FilterDone(t, k) == pc[t] = "bloomAdd" /\ k \notin todo[t]

\* What the flush of t has done to a key of its batch, phase by phase.
InHand(t, k) == /\ \A u \in Threads \ {t} : k \notin Held(u)
                /\ queue[k] = 0 => batch[t][k] = accepted[k]
                /\ RowDone(t, k) => row[k] = batch[t][k]
                /\ IndexDone(t, k) => idx[k] = batch[t][k]
                /\ FilterDone(t, k) => k \in bloom
Settled(k) == /\ row[k] = accepted[k] /\ idx[k] = accepted[k]
              /\ row[k] # 0 => k \in bloom
Follows(k) == /\ queue[k] \in {0, accepted[k]}
              /\ queue[k] = 0 /\ (\A t \in Threads : k \notin Held(t)) => Settled(k)
              /\ \A t \in Threads : k \in Held(t) => InHand(t, k)

\* A key that nothing disturbed is settled, queued, or in the hands of one flush.
Orderly == \A k \in Keys \ disturbed : Follows(k)

\* The others are as they were.
Still(t) == \A u \in Threads \ {t} : /\ pc'[u] = pc[u] /\ todo'[u] = todo[u]
                                     /\ batch'[u] = batch[u]

\* A key that a step of t leaves alone.
LEMMA FollowsAside ==
  ASSUME Shape, NEW t \in Threads, Still(t), NEW k \in Keys, Follows(k),
         k \notin Held(t), k \notin Held(t)',
         queue'[k] = queue[k], accepted'[k] = accepted[k],
         row'[k] = row[k], idx'[k] = idx[k], k \in bloom => k \in bloom'
  PROVE  Follows(k)'
<1>1. \A u \in Threads : k \in Held(u)' <=> k \in Held(u) BY DEF Held, Still
<1>2. ASSUME NEW u \in Threads, k \in Held(u) PROVE InHand(u, k)'
  <2>1. u # t /\ InHand(u, k) BY <1>2 DEF Follows
  <2>2. pc'[u] = pc[u] /\ todo'[u] = todo[u] /\ batch'[u] = batch[u]
    BY <2>1 DEF Still
  <2> QED BY <1>1, <2>1, <2>2 DEF InHand, RowDone, IndexDone, FilterDone
<1> QED BY <1>1, <1>2 DEF Follows, Settled

\* Only a flush has a batch, and it has not written what it has to do.
LEMMA HeldInFlush ==
  ASSUME Shape, NEW t \in Threads, pc[t] \notin {"upsert", "index", "bloomAdd"}
  PROVE  Held(t) = {}
BY DEF Shape

\* A step that only moves a thread without a batch.
LEMMA FollowsMove ==
  ASSUME Shape, NEW t \in Threads, Still(t), Held(t) = {}, Held(t)' = {},
         UNCHANGED <<queue, accepted, row, idx, bloom>>, NEW k \in Keys, Follows(k)
  PROVE  Follows(k)'
BY FollowsAside

\* Queued again: the newer write is what its next flush will hold.
LEMMA FollowsEnqueue ==
  ASSUME Shape, NEW t \in Threads, Held(t) = {}, NEW j \in Keys, NEW n \in Nat \ {0},
         Enqueue(t, j, n), UNCHANGED <<row, idx, bloom, batch, todo>>,
         NEW k \in Keys, Follows(k)
  PROVE  Follows(k)'
<1>1. /\ queue'[j] = n /\ accepted'[j] = n
      /\ \A i \in Keys \ {j} : queue'[i] = queue[i] /\ accepted'[i] = accepted[i]
      /\ \A u \in Threads \ {t} : pc'[u] = pc[u]
  BY DEF Enqueue, Goto, Shape
<1>2. Still(t) /\ Held(t)' = {} BY <1>1 DEF Still, Held
<1>3. CASE k # j BY <1>1, <1>2, <1>3, FollowsAside
<1>4. CASE k = j
  <2>1. ASSUME NEW u \in Threads, k \in Held(u)' PROVE InHand(u, k)'
    <3>1. k \in Held(u) /\ u # t BY <2>1 DEF Held
    <3>2. InHand(u, k) BY <3>1 DEF Follows
    <3>3. pc'[u] = pc[u] BY <1>1, <3>1
    <3> QED BY <1>1, <1>4, <3>2, <3>3 DEF InHand, RowDone, IndexDone, FilterDone, Held
  <2> QED BY <1>1, <1>4, <2>1 DEF Follows
<1> QED BY <1>3, <1>4

\* The queue becomes a batch: its keys are in hand, unless another batch has
\* one or it cannot be encrypted.
LEMMA FollowsTakeBut ==
  ASSUME Shape, NEW t \in Threads, pc[t] = "take", NEW S, TakeBut(t, S),
         UNCHANGED <<accepted, row, idx, bloom>>,
         NEW k \in Keys \ disturbed', Follows(k)
  PROVE  Follows(k)'
<1>t. ThreadsOK /\ DataOK BY TypeParts
<1>0. Held(t) = {} BY HeldInFlush
<1>1. /\ pc'[t] = LabelOf(t, S) /\ batch'[t] = BatchOf(S) /\ todo'[t] = Taken(S)
      /\ Still(t)
  BY <1>t, TakeButStill DEF Still
<1>2. /\ queue' = None
      /\ disturbed' = disturbed \cup S \cup {j \in Taken(S) : HeldByOther(t, j)}
  BY DEF TakeBut, Taken
<1>3. queue'[k] = 0 /\ k \notin S BY <1>2 DEF None
<1>4. CASE k \notin Taken(S)
  <2>1. queue[k] = 0 BY <1>3, <1>4 DEF Taken
  <2>2. k \notin Held(t)' BY <1>1, <1>4 DEF Held, BatchOf
  <2> QED BY <1>0, <1>1, <1>3, <2>1, <2>2, FollowsAside
<1>5. CASE k \in Taken(S)
  <2>1. queue[k] # 0 BY <1>5 DEF Taken
  <2>2. \A u \in Threads \ {t} : k \notin Held(u)'
    BY <1>1, <1>2, <1>5 DEF HeldByOther, Held, Still
  <2>3. batch'[t][k] = queue[k] BY <1>1, <1>5 DEF BatchOf
  <2>4. k \in Held(t)' /\ batch'[t][k] = accepted'[k]
    BY <2>1, <2>3 DEF Held, Follows
  <2>5. pc'[t] = "upsert" /\ k \in todo'[t] BY <1>1, <1>5 DEF LabelOf
  <2>6. InHand(t, k)'
    BY <2>2, <2>4, <2>5 DEF InHand, RowDone, IndexDone, FilterDone
  <2> QED BY <1>3, <2>2, <2>4, <2>6 DEF Follows
<1> QED BY <1>4, <1>5

\* The same when the queue is empty.
LEMMA FollowsTake ==
  ASSUME Shape, NEW t \in Threads, Take(t), NEW k \in Keys \ disturbed', Follows(k)
  PROVE  Follows(k)'
<1>0. pc[t] = "take" /\ Held(t) = {} /\ UNCHANGED <<accepted, row, idx, bloom>>
  BY HeldInFlush DEF Take, db
<1>1. CASE Return(t) /\ UNCHANGED queue
  <2>1. Still(t) /\ batch'[t] = None BY <1>1 DEF Return, Goto, Still, Shape
  <2>2. Held(t)' = {} BY <2>1 DEF Held, None
  <2> QED BY <1>0, <1>1, <2>1, <2>2, FollowsMove
<1>2. ASSUME NEW S, TakeBut(t, S) PROVE Follows(k)'
  BY <1>0, <1>2, FollowsTakeBut
<1> QED BY <1>1, <1>2 DEF Take

\* Where Done leaves t: in its phase with one key less to do, in the next phase
\* with all of its keys, or without a batch.
LEMMA DoneGoes ==
  ASSUME Shape, NEW t \in Threads, NEW j \in todo[t], NEW here, NEW next, Done(t, j, here, next)
  PROVE  /\ Still(t)
         /\ \/ pc'[t] = here /\ todo'[t] = todo[t] \ {j} /\ batch' = batch
            \/ /\ todo[t] = {j} /\ next # "return"
               /\ pc'[t] = next /\ todo'[t] = Held(t) /\ batch' = batch
            \/ /\ todo[t] = {j} /\ next = "return" /\ Held(t)' = {}
<1>1. CASE todo[t] \ {j} # {} BY <1>1 DEF Done, Goto, Still, Shape
<1>2. CASE todo[t] \ {j} = {} /\ next = "return"
  <2>1. Still(t) /\ batch'[t] = None BY <1>2 DEF Done, Return, Goto, Still, Shape
  <2> QED BY <1>2, <2>1 DEF Held, None
<1>3. CASE todo[t] \ {j} = {} /\ next # "return" BY <1>3 DEF Done, Goto, Still, Shape
<1> QED BY <1>1, <1>2, <1>3

\* A key written in one phase of a flush.
LEMMA FollowsWritten ==
  ASSUME Shape, NEW t \in Threads, NEW j \in todo[t], NEW here, NEW next,
         pc[t] = here, Done(t, j, here, next), UNCHANGED <<queue, accepted>>,
         \/ here = "upsert" /\ next = "index" /\ row'[j] = batch[t][j]
            /\ idx' = idx /\ bloom' = bloom
         \/ here = "index" /\ next = "bloomAdd" /\ idx'[j] = batch[t][j]
            /\ row' = row /\ bloom' = bloom
         \/ here = "bloomAdd" /\ next = "return" /\ bloom' = bloom \cup {j}
            /\ row' = row /\ idx' = idx,
         \A i \in Keys \ {j} : row'[i] = row[i] /\ idx'[i] = idx[i],
         NEW k \in Keys, Follows(k)
  PROVE  Follows(k)'
<1>0. j \in Held(t) /\ j \in Keys /\ todo[t] \subseteq Held(t) BY DEF Shape, Held
<1>1. Still(t) BY DoneGoes
<1>2. \/ pc'[t] = here /\ todo'[t] = todo[t] \ {j} /\ batch' = batch
      \/ /\ todo[t] = {j} /\ next # "return"
         /\ pc'[t] = next /\ todo'[t] = Held(t) /\ batch' = batch
      \/ /\ todo[t] = {j} /\ next = "return" /\ Held(t)' = {}
  BY DoneGoes
<1>3. k \in bloom => k \in bloom' OBVIOUS
<1>4. CASE k \notin Held(t)
  <2>1. k \notin Held(t)' BY <1>2, <1>4 DEF Held
  <2>2. k # j BY <1>0, <1>4
  <2> QED BY <1>1, <1>3, <1>4, <2>1, <2>2, FollowsAside
<1>5. CASE k \in Held(t)
  <2>1. InHand(t, k) BY <1>5 DEF Follows
  <2>2. \A u \in Threads \ {t} : k \notin Held(u)' BY <1>1, <2>1 DEF InHand, Held, Still
  <2>3. CASE batch' = batch
    <3>1. k \in Held(t)' BY <1>5, <2>3 DEF Held
    <3>2. RowDone(t, k)' => row'[k] = batch[t][k]
      BY <1>2, <2>1, <2>3, <3>1 DEF InHand, RowDone
    <3>3. IndexDone(t, k)' => idx'[k] = batch[t][k]
      BY <1>0, <1>2, <1>5, <2>1, <2>3, <3>1 DEF InHand, IndexDone
    <3>4. FilterDone(t, k)' => k \in bloom'
      BY <1>0, <1>2, <1>5, <2>1, <2>3, <3>1 DEF InHand, FilterDone
    <3>5. InHand(t, k)' BY <2>1, <2>2, <2>3, <3>2, <3>3, <3>4 DEF InHand
    <3> QED BY <2>1, <2>2, <3>1, <3>5 DEF Follows
  <2>4. CASE todo[t] = {j} /\ next = "return" /\ Held(t)' = {}
    <3>1. here = "bloomAdd" /\ row' = row /\ idx' = idx BY <2>4
    <3>2. row[k] = batch[t][k] /\ idx[k] = batch[t][k] /\ k \in bloom'
      BY <2>1, <2>4, <3>1 DEF InHand, RowDone, IndexDone, FilterDone
    <3>3. queue'[k] = 0 => Settled(k)' BY <2>1, <3>1, <3>2 DEF InHand, Settled
    <3> QED BY <2>1, <2>2, <2>4, <3>3 DEF Follows
  <2> QED BY <1>2, <2>3, <2>4
<1> QED BY <1>4, <1>5

\* A statement of a flush, on a key that nothing disturbs.
LEMMA FollowsFlush ==
  ASSUME Shape, NEW t \in Threads, FlushStep(t) \/ Fail(t),
         NEW k \in Keys \ disturbed', Follows(k)
  PROVE  Follows(k)'
<1> USE DEF db, bounds, history
<1>1. CASE Take(t) BY <1>1, FollowsTake
<1>2. CASE Upsert(t)
  <2>1. PICK j \in todo[t] : row' = [row EXCEPT ![j] = batch[t][j]]
                             /\ Done(t, j, "upsert", "index")
    BY <1>2 DEF Upsert
  <2>2. j \in Keys BY DEF Shape, Held
  <2>3. row'[j] = batch[t][j] /\ \A i \in Keys \ {j} : row'[i] = row[i]
    BY <2>1, <2>2 DEF Shape
  <2> QED BY <1>2, <2>1, <2>3, FollowsWritten DEF Upsert
<1>3. CASE Index(t)
  <2>1. PICK j \in todo[t] : idx' = [idx EXCEPT ![j] = batch[t][j]]
                             /\ Done(t, j, "index", "bloomAdd")
    BY <1>3 DEF Index
  <2>2. j \in Keys BY DEF Shape, Held
  <2>3. idx'[j] = batch[t][j] /\ \A i \in Keys \ {j} : idx'[i] = idx[i]
    BY <2>1, <2>2 DEF Shape
  <2> QED BY <1>3, <2>1, <2>3, FollowsWritten DEF Index
<1>4. CASE BloomAdd(t) BY <1>4, FollowsWritten DEF BloomAdd
<1>5. CASE Fail(t)
  <2>1. /\ Still(t) /\ batch'[t] = None /\ disturbed' = disturbed \cup Held(t)
        /\ UNCHANGED <<queue, accepted, row, bloom>>
    BY <1>5 DEF Fail, DropBatch, Return, Goto, Still, Shape
  <2>2. Held(t)' = {} BY <2>1 DEF Held, None
  <2>3. k \notin Held(t) BY <2>1
  <2>4. idx'[k] = idx[k]
    <3>1. idx' = idx \/ \E j \in todo[t] : idx' = [idx EXCEPT ![j] = 0]
      BY <1>5 DEF Fail, DropBatch
    <3> QED BY <2>3, <3>1 DEF Shape
  <2> QED BY <2>1, <2>2, <2>3, <2>4, FollowsAside
<1> QED BY <1>1, <1>2, <1>3, <1>4, <1>5 DEF FlushStep

\* A flush only adds keys to disturbed.
LEMMA FlushDisturbs ==
  ASSUME NEW t \in Threads, FlushStep(t) \/ Fail(t) PROVE disturbed \subseteq disturbed'
<1>1. CASE Take(t)
  <2>1. ASSUME NEW S, TakeBut(t, S) PROVE disturbed \subseteq disturbed'
    BY <2>1 DEF TakeBut
  <2> QED BY <1>1, <2>1 DEF Take
<1>2. CASE Upsert(t) \/ Index(t) \/ BloomAdd(t)
  BY <1>2 DEF Upsert, Index, BloomAdd, history
<1>3. CASE Fail(t) BY <1>3 DEF Fail, DropBatch
<1> QED BY <1>1, <1>2, <1>3 DEF FlushStep

\* Every action of the engine keeps Orderly.
LEMMA OrderlyNext == ASSUME Shape, Orderly, [Next]_vars PROVE Orderly'
<1>1. ASSUME NEW t \in Clients, NEW j \in Keys, QueueWrite(t, j) PROVE Orderly'
  <2>1. t \in Threads /\ Held(t) = {} BY <1>1, HeldInFlush DEF Threads, QueueWrite
  <2>2. writes + 1 \in Nat \ {0} BY WriteBehindAssumption DEF Shape
  <2> QED BY <1>1, <2>1, <2>2, FollowsEnqueue DEF QueueWrite, Orderly, db
<1>2. ASSUME NEW t \in Threads, pc[t] \notin {"upsert", "index", "bloomAdd"},
             UNCHANGED <<queue, accepted, row, idx, bloom, disturbed, batch, todo>>,
             \E label : Goto(t, label)
      PROVE  Orderly'
  <2>1. Held(t) = {} BY <1>2, HeldInFlush
  <2>2. Still(t) /\ Held(t)' = {} BY <1>2, <2>1 DEF Goto, Still, Held, Shape
  <2> QED BY <1>2, <2>1, <2>2, FollowsMove DEF Orderly
<1>3. ASSUME NEW t \in Clients, Flush(t) \/ Close(t) PROVE Orderly'
  BY <1>2, <1>3 DEF Flush, Close, FlushCall, Threads, db, history
<1>4. CASE WorkerLoop(Worker)
  BY <1>2, <1>4 DEF WorkerLoop, Threads, db, history, bounds
<1>5. ASSUME NEW t \in Threads, FlushStep(t) \/ Fail(t) PROVE Orderly'
  BY <1>5, FollowsFlush, FlushDisturbs DEF Orderly
<1>6. CASE UNCHANGED vars
  <2>1. \A k \in Keys : Follows(k) => Follows(k)'
    BY <1>6 DEF vars, db, history, Follows, InHand, Settled, RowDone, IndexDone, FilterDone, Held
  <2> QED BY <1>6, <2>1 DEF vars, history, Orderly
<1> QED BY <1>1, <1>3, <1>4, <1>5, <1>6 DEF Next, Client, Finished

\* Once nothing of a key is queued or in flight, row, index and filter all show
\* the last write accepted, unless two batches held the key at once or a flush
\* of it failed.
THEOREM LastWriteWinsAlways == Spec => []LastWriteWins
<1>1. Init => Orderly
  BY DEF Init, Orderly, Follows, Settled, Held, None
<1>2. TypeOK /\ Orderly /\ [Next]_vars => TypeOK' /\ Orderly' BY NextOK, OrderlyNext, TypeIsShape
<1>3. Orderly => LastWriteWins BY DEF Orderly, Follows, Settled, LastWriteWins
<1> QED BY <1>1, <1>2, <1>3, InitOK, PTL DEF Spec

-----------------------------------------------------------------------------
(***************************************************************************)
(* The cache. Neither CallsReachL2 nor ReadsSeeLastWrite is inductive:     *)
(* both rest on what every call in progress has still to do for its key,   *)
(* and on calls that write a key being alone with it.                      *)
(***************************************************************************)
Entry == [key : Keys, num : 0..MaxWrites]
Entries(s) == {s[i] : i \in DOMAIN s}
\* An ordered dictionary has a key once.
Tidy(s) == /\ s \in Seq(Entry)
           /\ \A i, j \in DOMAIN s : s[i].key = s[j].key => i = j

CallRecord == [op : Calls, key : Keys, num : 0..MaxWrites] \cup {NoCall}

\* Which call a thread is in, by its label. Without write-behind a thread
\* writes the one document of its set.
Calling(t) ==
  /\ pc[t] \in CacheLabels => t \in Clients
  /\ pc[t] = "persist" => arg[t].op = "set" /\ arg[t].num # 0
  /\ pc[t] \in {"deleteIndex", "deleteRow", "deleteL1"} => arg[t].op = "invalidate"
  /\ pc[t] \in {"kvget", "fill"} => arg[t].op = "get"
  /\ ~engine => /\ pc[t] # "take"
                /\ Held(t) # {} => t \in Clients /\ arg[t].op = "set" /\ Held(t) = {arg[t].key}

CShape == /\ Shape /\ engine \in BOOLEAN
          /\ arg \in [Threads -> CallRecord] /\ got \in [Clients -> CallRecord]
          /\ last \in [Keys -> 0..MaxWrites] /\ Tidy(l1)
          /\ \A t \in Threads : Calling(t)
          /\ ~engine => queue = None

\* A client is in a call on k, or a flush that its call began.
Busy(t, k) == pc[t] # "idle" /\ arg[t].op # "none" /\ arg[t].key = k
\* Whoever writes or removes k is alone with it.
Solo(k) == \A t, u \in Clients : Busy(t, k) /\ Busy(u, k) /\ t # u => arg[t].op = "get"

Removing(t, k) == pc[t] = "deleteRow" /\ arg[t].key = k
\* SQLite follows what was accepted, except between the statements of kv_delete.
Kept(k) == IF \E t \in Clients : Removing(t, k)
           THEN idx[k] = 0 /\ queue[k] = 0 /\ \A t \in Threads : k \notin Held(t)
           ELSE Follows(k)

Due(t, k) == pc[t] \in {"persist", "deleteIndex", "deleteRow"} /\ arg[t].key = k
\* The last write was accepted, or its call has it at hand; a fill has it too.
Said(k) == /\ \A t \in Clients :
                /\ Due(t, k) => last[k] = IF pc[t] = "persist" THEN arg[t].num ELSE 0
                /\ ~engine /\ pc[t] = "fill" /\ arg[t].key = k => arg[t].num = last[k]
           /\ (\A t \in Clients : ~Due(t, k)) => accepted[k] = last[k]

\* Without write-behind, L1 has nothing older.
L1True(k) == ~engine => \A e \in Entries(l1) : e.key = k => e.num = last[k]

CacheFits(k) == Solo(k) /\ Kept(k) /\ Said(k) /\ L1True(k)
CInv == CShape /\ \A k \in Keys \ disturbed : CacheFits(k)

-----------------------------------------------------------------------------
(* The dictionary of L1.                                                   *)

\* A sequence up to i, joined to what comes after i.
LEMMA Joined ==
  ASSUME NEW S, NEW s \in Seq(S), NEW i \in 1 .. Len(s), NEW a, NEW b,
         a \in Seq(S), Len(a) = i - 1, \A j \in 1 .. (i - 1) : a[j] = s[j],
         b \in Seq(S), Len(b) = Len(s) - i, \A j \in 1 .. (Len(s) - i) : b[j] = s[i + j]
  PROVE  /\ a \o b \in Seq(S) /\ DOMAIN (a \o b) = 1 .. (Len(s) - 1)
         /\ \A j \in 1 .. (Len(s) - 1) : (a \o b)[j] = IF j < i THEN s[j] ELSE s[j + 1]
<1>1. Len(s) \in Nat /\ i \in Int /\ i >= 1 /\ i <= Len(s) OBVIOUS
<1>2. /\ a \o b \in Seq(S) /\ Len(a \o b) = Len(a) + Len(b)
      /\ \A j \in 1 .. (Len(a) + Len(b)) :
           (a \o b)[j] = IF j <= Len(a) THEN a[j] ELSE b[j - Len(a)]
  BY ConcatProperties
<1>3. Len(a) + Len(b) = Len(s) - 1 BY <1>1
<1>4. DOMAIN (a \o b) = 1 .. Len(a \o b) BY <1>2, LenProperties
<1>5. ASSUME NEW j \in 1 .. (Len(s) - 1)
      PROVE  (a \o b)[j] = IF j < i THEN s[j] ELSE s[j + 1]
  <2>1. j \in Int /\ 1 <= j /\ j <= Len(s) - 1 BY <1>1
  <2>2. (a \o b)[j] = IF j <= Len(a) THEN a[j] ELSE b[j - Len(a)] BY <1>2, <1>3
  <2>3. CASE j < i
    <3>1. j \in 1 .. (i - 1) BY <1>1, <2>1, <2>3
    <3> QED BY <1>1, <2>2, <2>3, <3>1
  <2>4. CASE ~(j < i)
    <3>1. j - (i - 1) \in 1 .. (Len(s) - i) /\ i + (j - (i - 1)) = j + 1
      BY <1>1, <2>1, <2>4
    <3>2. b[j - (i - 1)] = s[j + 1] BY <3>1
    <3>3. ~(j <= Len(a)) BY <1>1, <2>1, <2>4
    <3> QED BY <2>2, <2>4, <3>2, <3>3
  <2> QED BY <2>3, <2>4
<1> QED BY <1>2, <1>3, <1>4, <1>5

\* A sequence without the element at i.
Cut(s, i) == SubSeq(s, 1, i - 1) \o SubSeq(s, i + 1, Len(s))

\* What is left, position by position.
LEMMA Removed ==
  ASSUME NEW S, NEW s \in Seq(S), NEW i \in 1 .. Len(s)
  PROVE  /\ Cut(s, i) \in Seq(S) /\ DOMAIN Cut(s, i) = 1 .. (Len(s) - 1)
         /\ \A j \in 1 .. (Len(s) - 1) : Cut(s, i)[j] = IF j < i THEN s[j] ELSE s[j + 1]
<1>1. PICK a, b : a = SubSeq(s, 1, i - 1) /\ b = SubSeq(s, i + 1, Len(s)) OBVIOUS
<1>2. Len(s) \in Nat /\ i \in Int /\ i >= 1 /\ i <= Len(s) OBVIOUS
<1>3. a \in Seq(S) /\ Len(a) = i - 1 /\ \A j \in 1 .. (i - 1) : a[j] = s[j]
  BY <1>1, <1>2
<1>4. b \in Seq(S) /\ Len(b) = Len(s) - i /\ \A j \in 1 .. (Len(s) - i) : b[j] = s[i + j]
  BY <1>1, <1>2
<1>5. a \o b \in Seq(S) BY ONLY <1>3, <1>4, Joined, s \in Seq(S), i \in 1 .. Len(s)
<1>6. DOMAIN (a \o b) = 1 .. (Len(s) - 1)
  BY ONLY <1>3, <1>4, Joined, s \in Seq(S), i \in 1 .. Len(s)
<1>7. \A j \in 1 .. (Len(s) - 1) : (a \o b)[j] = IF j < i THEN s[j] ELSE s[j + 1]
  BY ONLY <1>3, <1>4, Joined, s \in Seq(S), i \in 1 .. Len(s)
<1>8. Cut(s, i) = a \o b BY <1>1 DEF Cut
<1> QED BY <1>5, <1>6, <1>7, <1>8

\* A dictionary without the entry at i.
LEMMA RemovedTidy ==
  ASSUME NEW s, Tidy(s), NEW i \in DOMAIN s
  PROVE  /\ Tidy(Cut(s, i))
         /\ \A e \in Entries(Cut(s, i)) : e \in Entries(s) /\ e.key # s[i].key
<1> DEFINE r == Cut(s, i)
<1>1. s \in Seq(Entry) /\ i \in 1 .. Len(s) /\ Len(s) \in Nat BY DEF Tidy
<1>2. r \in Seq(Entry) BY <1>1, Removed
<1>3. DOMAIN r = 1 .. (Len(s) - 1) BY <1>1, Removed
<1> DEFINE at(j) == IF j < i THEN j ELSE j + 1
<1>4. ASSUME NEW j \in DOMAIN r PROVE at(j) \in DOMAIN s /\ at(j) # i /\ r[j] = s[at(j)]
  <2>1. j \in Int /\ 1 <= j /\ j <= Len(s) - 1 BY <1>1, <1>3
  <2>2. at(j) \in 1 .. Len(s) /\ at(j) # i BY <1>1, <2>1
  <2>3. DOMAIN s = 1 .. Len(s) BY <1>1
  <2>4. r[j] = s[at(j)] BY <1>1, <1>3, Removed
  <2> QED BY <2>2, <2>3, <2>4
<1>5. \A j, m \in DOMAIN r : at(j) = at(m) => j = m
  <2>1. SUFFICES ASSUME NEW j \in DOMAIN r, NEW m \in DOMAIN r, at(j) = at(m) PROVE j = m
    OBVIOUS
  <2>2. j \in Int /\ m \in Int BY <1>1, <1>3
  <2> QED BY <1>1, <2>1, <2>2
<1> HIDE DEF at, r
<1>6. ASSUME NEW j \in DOMAIN r, NEW m \in DOMAIN r, r[j].key = r[m].key PROVE j = m
  <2>1. at(j) = at(m) BY <1>4, <1>6 DEF Tidy
  <2> QED BY <1>5, <2>1
<1>7. \A j \in DOMAIN r : r[j].key # s[i].key BY <1>4 DEF Tidy
<1>8. Tidy(r) BY <1>2, <1>6 DEF Tidy
<1>9. \A e \in Entries(r) : e \in Entries(s) /\ e.key # s[i].key BY <1>4, <1>7 DEF Entries
<1> QED BY <1>8, <1>9 DEF r

\* A removal takes the one entry of the key.
LEMMA WithoutTidy ==
  ASSUME Tidy(l1), NEW k
  PROVE  /\ Tidy(Without(k))
         /\ \A e \in Entries(Without(k)) : e \in Entries(l1) /\ e.key # k
<1>1. CASE ~InL1(k) BY <1>1 DEF Without, InL1, Entries
<1>2. CASE InL1(k)
  <2>1. Place(k) \in DOMAIN l1 /\ l1[Place(k)].key = k BY <1>2 DEF InL1, Place
  <2>2. Without(k) = Cut(l1, Place(k)) BY <1>2 DEF Without, Cut
  <2> QED BY <2>1, <2>2, RemovedTidy
<1> QED BY <1>1, <1>2

\* What set puts into L1 is the only new entry, and the only one of its key.
LEMMA PutTidy ==
  ASSUME Tidy(l1), NEW k \in Keys, NEW n \in 0..MaxWrites
  PROVE  /\ Tidy(L1Put(k, n))
         /\ \A e \in Entries(L1Put(k, n)) :
              \/ e = [key |-> k, num |-> n]
              \/ e \in Entries(l1) /\ e.key # k
<1> DEFINE new == [key |-> k, num |-> n]
           w == Without(k)
           s == Append(w, new)
<1>1. Tidy(w) /\ \A e \in Entries(w) : e \in Entries(l1) /\ e.key # k BY WithoutTidy
<1>2. new \in Entry /\ new.key = k BY DEF Entry
<1> HIDE DEF new, w
<1>3. w \in Seq(Entry) /\ Len(w) \in Nat BY <1>1 DEF Tidy
<1>4. /\ s \in Seq(Entry) /\ DOMAIN s = 1 .. (Len(w) + 1) /\ Len(s) = Len(w) + 1
      /\ s[Len(w) + 1] = new /\ \A i \in 1 .. Len(w) : i \in DOMAIN w /\ s[i] = w[i]
  BY <1>2, <1>3
<1> HIDE DEF s
<1>5. \A i \in DOMAIN s : s[i].key = k <=> i = Len(w) + 1
  BY <1>1, <1>2, <1>3, <1>4 DEF Entries
<1>6. Tidy(s)
  <2>1. ASSUME NEW i \in DOMAIN s, NEW j \in DOMAIN s, s[i].key = s[j].key PROVE i = j
    <3>1. CASE s[i].key = k BY <1>5, <2>1, <3>1
    <3>2. CASE s[i].key # k
      <4>1. i \in 1 .. Len(w) /\ j \in 1 .. Len(w) BY <1>3, <1>4, <1>5, <2>1, <3>2
      <4> QED BY <1>1, <1>4, <2>1, <4>1 DEF Tidy
    <3> QED BY <3>1, <3>2
  <2> QED BY <1>4, <2>1 DEF Tidy
<1>7. \A e \in Entries(s) : e = new \/ (e \in Entries(l1) /\ e.key # k)
  <2>1. ASSUME NEW i \in DOMAIN s PROVE s[i] = new \/ s[i] \in Entries(w)
    <3>1. CASE i = Len(w) + 1 BY <1>4, <3>1
    <3>2. CASE i # Len(w) + 1
      <4>1. i \in 1 .. Len(w) BY <1>3, <1>4, <3>2
      <4> QED BY <1>4, <4>1 DEF Entries
    <3> QED BY <3>1, <3>2
  <2>2. \A e \in Entries(s) : e = new \/ e \in Entries(w) BY <2>1 DEF Entries
  <2>3. \A e \in Entries(w) : e \in Entries(l1) /\ e.key # k BY <1>1
  <2> QED BY <2>2, <2>3
<1>8. L1Put(k, n) = s \/ L1Put(k, n) = Tail(s) BY DEF L1Put, s, w, new
<1>9. /\ Tail(s) \in Seq(Entry) /\ DOMAIN Tail(s) = 1 .. Len(w)
      /\ \A i \in 1 .. Len(w) : Tail(s)[i] = s[i + 1] /\ i + 1 \in DOMAIN s
  <2>1. s # <<>> BY <1>3, <1>4
  <2> QED BY <1>3, <1>4, <2>1
<1>10. Tidy(Tail(s)) /\ Entries(Tail(s)) \subseteq Entries(s)
  <2>1. \A i, j \in 1 .. Len(w) : Tail(s)[i].key = Tail(s)[j].key => i = j
    <3>1. ASSUME NEW i \in 1 .. Len(w), NEW j \in 1 .. Len(w),
                 Tail(s)[i].key = Tail(s)[j].key
          PROVE  i = j
      <4>1. i + 1 = j + 1 BY <1>6, <1>9, <3>1 DEF Tidy
      <4> QED BY <1>3, <4>1
    <3> QED BY <3>1
  <2>2. \A i \in DOMAIN Tail(s) : Tail(s)[i] \in Entries(s) BY <1>9 DEF Entries
  <2>3. Entries(Tail(s)) \subseteq Entries(s) BY <2>2 DEF Entries
  <2> QED BY <1>9, <2>1, <2>3 DEF Tidy
<1> QED BY <1>6, <1>7, <1>8, <1>10 DEF new

\* The entry of a hit.
LEMMA HitEntry ==
  ASSUME Tidy(l1), NEW k, InL1(k)
  PROVE  /\ L1Value(k) \in 0..MaxWrites
         /\ \E e \in Entries(l1) : e.key = k /\ e.num = L1Value(k)
<1>1. Place(k) \in DOMAIN l1 /\ l1[Place(k)].key = k BY DEF InL1, Place
<1>2. l1[Place(k)] \in Entry
  <2>1. l1 \in Seq(Entry) BY DEF Tidy
  <2> QED BY <1>1, <2>1
<1> QED BY <1>1, <1>2 DEF L1Value, Entries, Entry

-----------------------------------------------------------------------------
(* One thread moves.                                                       *)

Alone(t) == Still(t) /\ \A u \in Threads \ {t} : arg'[u] = arg[u]

\* A thread without a batch goes to a statement that needs none.
LEMMA ShapeStay ==
  ASSUME Shape, DataOK', NEW t \in Threads, pc[t] \notin {"upsert", "index", "bloomAdd"},
         NEW p \in AllLabels \ {"upsert", "index", "bloomAdd"},
         Goto(t, p), UNCHANGED <<batch, todo>>
  PROVE  Shape' /\ Still(t) /\ Held(t) = {} /\ Held(t)' = {} /\ pc'[t] = p
<1>1. ThreadsOK BY TypeParts
<1>2. ThreadOK(p, batch[t], todo[t]) BY <1>1, RestOK
<1>3. ThreadsOK' BY <1>1, <1>2, StayOK
<1>4. Held(t) = {} BY HeldInFlush
<1> QED BY <1>3, <1>4, TypePartsNext DEF Goto, Still, Held, Shape

\* A step of one thread: the labels of the others say what they said.
LEMMA CallingMove ==
  ASSUME NEW t \in Threads, \A u \in Threads : Calling(u), Alone(t), engine' = engine,
         Calling(t)'
  PROVE  \A u \in Threads : Calling(u)'
BY DEF Calling, Alone, Still, Held

\* A step that enters no call leaves who is alone alone.
LEMMA SoloMove ==
  ASSUME NEW t \in Threads, NEW k, Solo(k), Alone(t),
         Busy(t, k)' => Busy(t, k) /\ arg'[t].op = arg[t].op
  PROVE  Solo(k)'
BY DEF Solo, Busy, Alone, Still, Threads

\* A step that changes neither queue nor SQLite leaves a key kept.
LEMMA KeptMove ==
  ASSUME Shape, NEW t \in Threads, Alone(t), Held(t) = {}, Held(t)' = {},
         UNCHANGED <<queue, accepted, row, idx, bloom>>, NEW k \in Keys, Kept(k),
         Removing(t, k)' <=> Removing(t, k)
  PROVE  Kept(k)'
<1>1. \A u \in Clients : Removing(u, k)' <=> Removing(u, k)
  BY DEF Removing, Alone, Still, Threads
<1>2. \A u \in Threads : k \in Held(u)' <=> k \in Held(u) BY DEF Held, Alone, Still
<1>3. Follows(k) => Follows(k)' BY FollowsMove DEF Alone
<1> QED BY <1>1, <1>2, <1>3 DEF Kept

\* A step that leaves the last write and its acceptance alone.
LEMMA SaidMove ==
  ASSUME NEW t \in Threads, Alone(t), NEW k, Said(k), engine' = engine,
         last'[k] = last[k], accepted'[k] = accepted[k],
         Due(t, k)' <=> Due(t, k),
         Due(t, k)' => /\ arg'[t].num = arg[t].num
                       /\ pc'[t] = "persist" <=> pc[t] = "persist",
         ~engine /\ pc'[t] = "fill" /\ arg'[t].key = k => arg'[t].num = last[k]
  PROVE  Said(k)'
<1>1. \A u \in Clients \ {t} : pc'[u] = pc[u] /\ arg'[u] = arg[u]
  BY DEF Alone, Still, Threads
<1>2. \A u \in Clients : Due(u, k)' <=> Due(u, k) BY <1>1 DEF Due
<1>3. \A u \in Clients : Due(u, k)' => last'[k] = IF pc'[u] = "persist" THEN arg'[u].num ELSE 0
  BY <1>1, <1>2 DEF Said
<1>4. \A u \in Clients : ~engine /\ pc'[u] = "fill" /\ arg'[u].key = k => arg'[u].num = last'[k]
  BY <1>1 DEF Said
<1> QED BY <1>2, <1>3, <1>4 DEF Said

\* L1 loses entries, or keeps them.
LEMMA L1Less ==
  ASSUME NEW k, L1True(k), engine' = engine, last'[k] = last[k],
         \A e \in Entries(l1') : e \in Entries(l1)
  PROVE  L1True(k)'
BY DEF L1True

\* Whoever is busy with a key that is not disturbed holds off writers.
LEMMA NotDue ==
  ASSUME CShape, NEW k, Solo(k), NEW t \in Clients, Busy(t, k), NEW u \in Clients, u # t
  PROVE  ~Due(u, k)
<1>1. u \in Threads BY DEF Threads
<1>2. Calling(u) BY <1>1 DEF CShape
<1> QED BY <1>2 DEF Due, Solo, Busy, Calling

\* Without write-behind, nobody writes a key beside a call that has it to itself.
LEMMA NoHolder ==
  ASSUME CShape, ~engine, NEW k, Solo(k), NEW t \in Clients, Busy(t, k), Held(t) = {},
         NEW u \in Threads
  PROVE  k \notin Held(u)
<1> SUFFICES ASSUME k \in Held(u) PROVE FALSE OBVIOUS
<1>1. u \in Clients /\ arg[u].op = "set" /\ arg[u].key = k BY DEF CShape, Calling
<1>2. pc[u] # "idle" BY HeldInFlush DEF CShape
<1> QED BY <1>1, <1>2 DEF Solo, Busy

\* A call that starts on a key that stays undisturbed finds it free of writers,
\* and of readers if it writes.
LEMMA SoloStart ==
  ASSUME CShape, NEW t \in Clients, NEW op \in Calls, NEW j \in Keys, NEW n,
         Starts(t, op, j, n), NEW p, Goto(t, p), UNCHANGED <<batch, todo>>,
         NEW k \in Keys \ disturbed', Solo(k)
  PROVE  Solo(k)' /\ (k = j /\ op # "get" => \A u \in Clients \ {t} : ~Busy(u, k))
<1>1. t \in Threads /\ Alone(t) /\ pc[t] = "idle" /\ pc'[t] = p
      /\ arg'[t] = [op |-> op, key |-> j, num |-> n]
  BY DEF Starts, Goto, Alone, Still, CShape, Shape, Threads
<1>2. CASE k # j
  <2>1. ~Busy(t, k)' BY <1>1, <1>2 DEF Busy
  <2> QED BY <1>1, <1>2, <2>1, SoloMove
<1>3. CASE k = j
  <2>1. ~Overlaps(t, op, k) BY <1>3 DEF Starts
  <2>2. \A u \in Clients \ {t} : Busy(u, k) => op = "get" /\ arg[u].op = "get"
    BY <2>1 DEF Overlaps, Busy
  <2>3. \A u \in Clients \ {t} : (Busy(u, k)' <=> Busy(u, k)) /\ arg'[u] = arg[u]
    BY <1>1 DEF Busy, Alone, Still, Threads
  <2>4. Solo(k)' BY <1>1, <2>2, <2>3 DEF Solo
  <2> QED BY <2>2, <2>4
<1> QED BY <1>2, <1>3

\* A call that starts: the client leaves the idle state for statement p.
LEMMA StartShape ==
  ASSUME WriteBehindAssumption, CShape, NEW t \in Clients, NEW op \in Calls, NEW j \in Keys,
         NEW n \in 0..MaxWrites, Starts(t, op, j, n), L2Unchanged,
         NEW p \in {"kvget", "persist", "deleteIndex"}, Goto(t, p),
         p = "kvget" => op = "get", p = "persist" => op = "set" /\ n # 0,
         p = "deleteIndex" => op = "invalidate",
         writes' \in 0..MaxWrites, calls' \in 0..MaxCalls, faults' = faults,
         engine' = engine, got' \in [Clients -> CallRecord],
         last' \in [Keys -> 0..MaxWrites], Tidy(l1')
  PROVE  /\ CShape' /\ Alone(t) /\ t \in Threads /\ Held(t) = {} /\ Held(t)' = {}
         /\ pc[t] = "idle" /\ pc'[t] = p /\ arg'[t] = [op |-> op, key |-> j, num |-> n]
         /\ disturbed \subseteq disturbed'
<1>0. t \in Threads /\ Shape BY DEF Threads, CShape
<1>1. disturbed' \subseteq Keys /\ disturbed \subseteq disturbed' /\ pc[t] = "idle"
  BY <1>0 DEF Starts, Shape
<1>2. DataOK BY <1>0, TypeParts
<1>3. DataOK' BY <1>1, <1>2 DEF DataOK, L2Unchanged, db
<1>4. p \in AllLabels \ {"upsert", "index", "bloomAdd"} BY DEF AllLabels, CacheLabels
<1>5. UNCHANGED <<batch, todo, queue>> BY DEF L2Unchanged
<1>6. Shape' /\ Still(t) /\ Held(t) = {} /\ Held(t)' = {} /\ pc'[t] = p
  BY <1>0, <1>1, <1>3, <1>4, <1>5, ShapeStay
<1>7. arg' \in [Threads -> CallRecord] /\ arg'[t] = [op |-> op, key |-> j, num |-> n]
      /\ \A u \in Threads \ {t} : arg'[u] = arg[u]
  BY <1>0 DEF Starts, CShape, CallRecord
<1>8. Calling(t)' BY <1>6, <1>7 DEF Calling, CacheLabels
<1>9. Alone(t) BY <1>6, <1>7 DEF Alone
<1>10. \A u \in Threads : Calling(u)' BY <1>0, <1>8, <1>9, CallingMove DEF CShape
<1>11. CShape' BY <1>5, <1>6, <1>7, <1>10 DEF CShape
<1> QED BY <1>0, <1>1, <1>6, <1>7, <1>9, <1>11

\* Steps of a client that touch L1 alone.
LEMMA L1Step ==
  ASSUME WriteBehindAssumption, CInv, calls' \in 0..MaxCalls,
         UNCHANGED <<writes, faults, pc, engine, arg, last, disturbed>>, L2Unchanged,
         Tidy(l1'), \A e \in Entries(l1') : e \in Entries(l1),
         got' \in [Clients -> CallRecord]
  PROVE  CInv'
<1>1. Shape' BY DEF CInv, CShape, Shape, L2Unchanged, db, Held
<1>2. \A t \in Threads : Calling(t)' BY DEF CInv, CShape, Calling, L2Unchanged, Held
<1>3. CShape' BY <1>1, <1>2 DEF CInv, CShape, L2Unchanged
<1>4. ASSUME NEW k \in Keys \ disturbed' PROVE CacheFits(k)'
  <2>1. CacheFits(k) BY <1>4 DEF CInv
  <2>2. Solo(k)' BY <2>1 DEF CacheFits, Solo, Busy
  <2>3. Follows(k) => Follows(k)'
    BY DEF L2Unchanged, db, Follows, InHand, Settled, RowDone, IndexDone, FilterDone, Held
  <2>4. Kept(k)' BY <2>1, <2>3 DEF CacheFits, Kept, Removing, L2Unchanged, db, Held
  <2>5. Said(k)' BY <2>1 DEF CacheFits, Said, Due, L2Unchanged
  <2>6. L1True(k)' BY <2>1, L1Less DEF CacheFits
  <2> QED BY <2>2, <2>4, <2>5, <2>6 DEF CacheFits
<1> QED BY <1>3, <1>4 DEF CInv

\* A get that L1 answers moves the entry to the end.
LEMMA GetHitKeeps ==
  ASSUME WriteBehindAssumption, CInv, NEW t \in Clients, NEW k \in Keys, GetHit(t, k)
  PROVE  CInv'
<1>1. Tidy(l1) BY DEF CInv, CShape
<1>2. /\ L1Value(k) \in 0..MaxWrites
      /\ \E e \in Entries(l1) : e.key = k /\ e.num = L1Value(k)
  BY <1>1, HitEntry DEF GetHit
<1>3. Entries(l1) \subseteq Entry BY <1>1 DEF Tidy, Entries
<1>4. [key |-> k, num |-> L1Value(k)] \in Entries(l1)
  <2>1. PICK e \in Entries(l1) : e.key = k /\ e.num = L1Value(k) BY <1>2
  <2>2. e \in Entry BY <1>3, <2>1
  <2>3. e = [key |-> k, num |-> L1Value(k)] BY <2>1, <2>2 DEF Entry
  <2> QED BY <2>1, <2>3
<1>5. Tidy(l1') /\ \A e \in Entries(l1') : e \in Entries(l1)
  <2>1. l1' = L1Put(k, L1Value(k)) BY DEF GetHit
  <2> QED BY <1>1, <1>2, <1>4, <2>1, PutTidy
<1>6. got' \in [Clients -> CallRecord]
  BY <1>2 DEF GetHit, Got, CInv, CShape, CallRecord, Calls
<1>7. calls' \in 0..MaxCalls
  BY WriteBehindAssumption DEF GetHit, Charge, CInv, CShape, Shape
<1> QED BY <1>5, <1>6, <1>7, L1Step DEF GetHit, Charge

\* An empty L1 has nothing older.
LEMMA ClearL1Keeps ==
  ASSUME WriteBehindAssumption, CInv, NEW t \in Clients, ClearL1(t)
  PROVE  CInv'
<1>1. Tidy(<<>>) /\ Entries(<<>>) = {} BY DEF Tidy, Entries
<1>2. calls' \in 0..MaxCalls
  BY WriteBehindAssumption DEF ClearL1, Charge, CInv, CShape, Shape
<1>3. got' \in [Clients -> CallRecord] BY DEF ClearL1, CInv, CShape
<1> QED BY <1>1, <1>2, <1>3, L1Step DEF ClearL1, Charge

\* A miss only starts a read.
LEMMA GetMissKeeps ==
  ASSUME WriteBehindAssumption, CInv, NEW t \in Clients, NEW j \in Keys, GetMiss(t, j)
  PROVE  CInv'
<1>1. Tidy(l1') /\ \A e \in Entries(l1') : e \in Entries(l1)
  BY WithoutTidy DEF GetMiss, CInv, CShape
<1>2. calls' \in 0..MaxCalls /\ writes' \in 0..MaxWrites /\ faults' = faults
  BY WriteBehindAssumption DEF GetMiss, Charge, CInv, CShape, Shape
<1>3. /\ "get" \in Calls /\ 0 \in 0..MaxWrites /\ "kvget" \in {"kvget", "persist", "deleteIndex"}
      /\ Starts(t, "get", j, 0) /\ Goto(t, "kvget") /\ L2Unchanged
      /\ engine' = engine /\ got' = got /\ last' = last /\ CShape
  BY WriteBehindAssumption DEF Calls, GetMiss, CInv
<1>4. got' \in [Clients -> CallRecord] /\ last' \in [Keys -> 0..MaxWrites]
  BY <1>3 DEF CShape
<1>5. /\ CShape' /\ Alone(t) /\ t \in Threads /\ Held(t) = {} /\ Held(t)' = {}
      /\ pc[t] = "idle" /\ pc'[t] = "kvget" /\ disturbed \subseteq disturbed'
  BY <1>1, <1>2, <1>3, <1>4, StartShape
<1>6. ASSUME NEW k \in Keys \ disturbed' PROVE CacheFits(k)'
  <2>1. CacheFits(k) BY <1>5, <1>6 DEF CInv
  <2>2. Solo(k)' BY <1>3, <2>1, SoloStart DEF CacheFits, L2Unchanged
  <2>3. Kept(k)'
    BY <1>3, <1>5, <2>1, KeptMove DEF CacheFits, CShape, L2Unchanged, db, Removing
  <2>4. Said(k)' BY <1>3, <1>5, <2>1, SaidMove DEF CacheFits, L2Unchanged, Due
  <2>5. L1True(k)' BY <1>1, <1>3, <2>1, L1Less DEF CacheFits
  <2> QED BY <2>2, <2>3, <2>4, <2>5 DEF CacheFits
<1> QED BY <1>5, <1>6 DEF CInv

\* Without write-behind a read that nothing disturbs finds the last write.
LEMMA ReadTrue ==
  ASSUME CInv, ~engine, NEW t \in Clients, pc[t] = "kvget",
         NEW k \in Keys \ disturbed, k = arg[t].key
  PROVE  (IF k \in bloom THEN row[k] ELSE 0) = last[k]
<1>0. t \in Threads /\ CShape /\ CacheFits(k) BY DEF Threads, CInv
<1>1. arg[t].op = "get" BY <1>0 DEF CShape, Calling
<1>2. Busy(t, k) /\ ~Due(t, k) BY <1>1 DEF Busy, Due
<1>3. \A u \in Clients : ~Due(u, k) BY <1>0, <1>2, NotDue DEF CacheFits
<1>4. Held(t) = {} BY <1>0, HeldInFlush DEF CShape
<1>5. \A u \in Threads : k \notin Held(u) BY <1>0, <1>2, <1>4, NoHolder DEF CacheFits
<1>6. Follows(k) BY <1>0, <1>3 DEF CacheFits, Kept, Removing, Due
<1>7. queue[k] = 0 BY <1>0 DEF CShape, None
<1>8. Settled(k) BY <1>5, <1>6, <1>7 DEF Follows
<1>9. accepted[k] = last[k] BY <1>0, <1>3 DEF CacheFits, Said
<1> QED BY <1>8, <1>9 DEF Settled

\* A client in a call goes on to statement p, or returns.
LEMMA StepShape ==
  ASSUME CShape, NEW t \in Clients, pc[t] \in CacheLabels,
         NEW p \in {"fill", "deleteRow", "deleteL1", "idle"}, Goto(t, p), UNCHANGED <<batch, todo>>,
         p = "fill" => arg[t].op = "get",
         p \in {"deleteRow", "deleteL1"} => arg[t].op = "invalidate",
         DataOK', arg' \in [Threads -> CallRecord],
         \A u \in Threads \ {t} : arg'[u] = arg[u], arg'[t].op = arg[t].op,
         got' \in [Clients -> CallRecord], UNCHANGED <<engine, last, queue>>, Tidy(l1')
  PROVE  /\ CShape' /\ Alone(t) /\ t \in Threads /\ Held(t) = {} /\ Held(t)' = {}
         /\ pc'[t] = p
<1>0. t \in Threads /\ Shape BY DEF Threads, CShape
<1>1. /\ p \in AllLabels \ {"upsert", "index", "bloomAdd"}
      /\ pc[t] \notin {"upsert", "index", "bloomAdd"}
  BY DEF AllLabels, CacheLabels, Labels
<1>2. Shape' /\ Still(t) /\ Held(t) = {} /\ Held(t)' = {} /\ pc'[t] = p
  BY <1>0, <1>1, ShapeStay
<1>3. Alone(t) BY <1>2 DEF Alone
<1>4. Calling(t)' BY <1>2 DEF Calling, CacheLabels
<1>5. \A u \in Threads : Calling(u)' BY <1>0, <1>3, <1>4, CallingMove DEF CShape
<1> QED BY <1>0, <1>2, <1>3, <1>5 DEF CShape

\* The call of a client that is in one.
LEMMA CallOf ==
  ASSUME CShape, NEW t \in Clients, pc[t] \in CacheLabels
  PROVE  /\ t \in Threads /\ arg[t] \in [op : Calls, key : Keys, num : 0..MaxWrites]
         /\ arg[t].key \in Keys /\ arg[t].num \in 0..MaxWrites
<1>1. t \in Threads /\ Calling(t) BY DEF Threads, CShape
<1>2. arg[t].op # "none" BY <1>1 DEF Calling, CacheLabels
<1>3. arg[t] \in CallRecord BY <1>1 DEF CShape
<1>4. arg[t] \in [op : Calls, key : Keys, num : 0..MaxWrites] BY <1>2, <1>3 DEF CallRecord, NoCall
<1> QED BY <1>1, <1>4

\* A get that missed reads what SQLite has, which is the last write.
LEMMA KvGetKeeps ==
  ASSUME WriteBehindAssumption, CInv, NEW t \in Clients, KvGet(t)
  PROVE  CInv'
<1> DEFINE j == arg[t].key
           n == IF j \in bloom THEN row[j] ELSE 0
<1>0. CShape /\ Shape /\ pc[t] = "kvget" /\ pc[t] \in CacheLabels
  BY DEF CInv, CShape, KvGet, CacheLabels
<1>1. /\ t \in Threads /\ arg[t] \in [op : Calls, key : Keys, num : 0..MaxWrites]
      /\ j \in Keys
  BY <1>0, CallOf
<1>2. n \in 0..MaxWrites BY <1>0, <1>1, WriteBehindAssumption DEF Shape
<1>3. /\ arg' = [arg EXCEPT ![t].num = n]
      /\ UNCHANGED <<l1, engine, last, disturbed, queue, closed, batch, todo, accepted, lost>>
      /\ UNCHANGED <<row, idx, bloom, newest, writes, calls, faults, openUntil>>
      /\ \/ Goto(t, "fill") /\ got' = got
         \/ Goto(t, "idle") /\ Got(t, j, 0)
  BY DEF KvGet, L2Unchanged, db, bounds
<1> HIDE DEF n
<1>4. /\ arg'[t] = [op |-> arg[t].op, key |-> j, num |-> n]
      /\ \A u \in Threads \ {t} : arg'[u] = arg[u]
      /\ arg' \in [Threads -> CallRecord]
  <2>1. arg \in [Threads -> CallRecord] BY <1>0 DEF CShape
  <2>2. [arg[t] EXCEPT !.num = n] = [op |-> arg[t].op, key |-> j, num |-> n] BY <1>1
  <2>3. [op |-> arg[t].op, key |-> j, num |-> n] \in CallRecord BY <1>1, <1>2 DEF CallRecord
  <2> QED BY <1>1, <1>3, <2>1, <2>2, <2>3
<1>5. got' \in [Clients -> CallRecord]
  <2>1. [op |-> "get", key |-> j, num |-> 0] \in CallRecord
    BY <1>1, WriteBehindAssumption DEF CallRecord, Calls
  <2> QED BY <1>0, <1>3, <2>1 DEF Got, CShape
<1>6. DataOK' BY <1>0, <1>3, TypeParts DEF DataOK
<1>7. PICK p \in {"fill", "idle"} : Goto(t, p) BY <1>3
<1>8. arg[t].op = "get" /\ Tidy(l1') BY <1>0, <1>1, <1>3 DEF CShape, Calling
<1>9. /\ CShape' /\ Alone(t) /\ Held(t) = {} /\ Held(t)' = {} /\ pc'[t] = p
  <2>1. /\ arg'[t].op = arg[t].op /\ p \in {"fill", "deleteRow", "idle"}
        /\ p = "fill" => arg[t].op = "get"
        /\ p # "deleteRow"
        /\ UNCHANGED <<batch, todo>> /\ UNCHANGED <<engine, last, queue>>
    BY <1>3, <1>4, <1>8
  <2> QED BY <1>0, <1>4, <1>5, <1>6, <1>7, <1>8, <2>1, StepShape
<1>10. ASSUME NEW k \in Keys \ disturbed' PROVE CacheFits(k)'
  <2>1. CacheFits(k) BY <1>3, <1>10 DEF CInv
  <2>2. Solo(k)' BY <1>0, <1>1, <1>4, <1>9, <2>1, SoloMove DEF CacheFits, Busy
  <2>3. Kept(k)' BY <1>0, <1>1, <1>3, <1>9, <2>1, KeptMove DEF CacheFits, Removing
  <2>4. ~engine /\ arg'[t].key = k => arg'[t].num = last[k]
    <3>1. SUFFICES ASSUME ~engine, k = j PROVE n = last[k] BY <1>4
    <3>2. k \in Keys \ disturbed BY <1>3, <1>10
    <3>3. (IF k \in bloom THEN row[k] ELSE 0) = last[k] BY <1>0, <3>1, <3>2, ReadTrue
    <3> QED BY <3>1, <3>3 DEF n
  <2>5. ~Due(t, k) /\ ~Due(t, k)' BY <1>0, <1>9 DEF Due
  <2>6. Said(k)' BY <1>1, <1>3, <1>9, <2>1, <2>4, <2>5, SaidMove DEF CacheFits
  <2>7. L1True(k)' BY <1>3, <2>1, L1Less DEF CacheFits
  <2> QED BY <2>2, <2>3, <2>6, <2>7 DEF CacheFits
<1> QED BY <1>9, <1>10 DEF CInv

\* Without write-behind what a fill puts into L1 is the last write.
LEMMA FillKeeps ==
  ASSUME WriteBehindAssumption, CInv, NEW t \in Clients, Fill(t)
  PROVE  CInv'
<1> DEFINE j == arg[t].key
           n == arg[t].num
<1>0. CShape /\ Shape /\ pc[t] = "fill" /\ pc[t] \in CacheLabels
  BY DEF CInv, CShape, Fill, CacheLabels
<1>1. t \in Threads /\ j \in Keys /\ n \in 0..MaxWrites BY <1>0, CallOf
<1>2. /\ l1' = L1Put(j, n) /\ Got(t, j, n) /\ Goto(t, "idle")
      /\ UNCHANGED <<arg, engine, last, disturbed, queue, closed, batch, todo, accepted, lost>>
      /\ UNCHANGED <<row, idx, bloom, newest, writes, calls, faults, openUntil>>
  BY DEF Fill, L2Unchanged, db, bounds
<1>3. Tidy(l1) BY <1>0 DEF CShape
<1>4. Tidy(l1') BY <1>1, <1>2, <1>3, PutTidy
<1>5. \A e \in Entries(l1') : e = [key |-> j, num |-> n] \/ (e \in Entries(l1) /\ e.key # j)
  BY <1>1, <1>2, <1>3, PutTidy
<1>6. got' \in [Clients -> CallRecord]
  <2>1. [op |-> "get", key |-> j, num |-> n] \in CallRecord BY <1>1 DEF CallRecord, Calls
  <2> QED BY <1>0, <1>2, <2>1 DEF Got, CShape
<1>7. DataOK' BY <1>0, <1>2, TypeParts DEF DataOK
<1>8. arg' \in [Threads -> CallRecord] BY <1>0, <1>2 DEF CShape
<1>9. /\ CShape' /\ Alone(t) /\ Held(t) = {} /\ Held(t)' = {} /\ pc'[t] = "idle"
  BY <1>0, <1>2, <1>4, <1>6, <1>7, <1>8, StepShape
<1>10. ASSUME NEW k \in Keys \ disturbed' PROVE CacheFits(k)'
  <2>1. CacheFits(k) BY <1>2, <1>10 DEF CInv
  <2>2. Solo(k)' BY <1>1, <1>9, <2>1, SoloMove DEF CacheFits, Busy
  <2>3. Kept(k)' BY <1>0, <1>1, <1>2, <1>9, <2>1, KeptMove DEF CacheFits, Removing
  <2>4. ~Due(t, k) /\ ~Due(t, k)' BY <1>0, <1>9 DEF Due
  <2>5. Said(k)' BY <1>1, <1>2, <1>9, <2>1, <2>4, SaidMove DEF CacheFits
  <2>6. ~engine /\ k = j => n = last[k] BY <1>0, <2>1 DEF CacheFits, Said
  <2>7. L1True(k)' BY <1>2, <1>5, <2>1, <2>6 DEF CacheFits, L1True
  <2> QED BY <2>2, <2>3, <2>5, <2>7 DEF CacheFits
<1> QED BY <1>9, <1>10 DEF CInv

\* A set or an invalidate that starts has the last write of its key at hand.
LEMMA SaidStart ==
  ASSUME CShape, NEW t \in Clients, Alone(t), NEW j \in Keys, NEW n,
         NEW p \in {"persist", "deleteIndex"}, pc[t] = "idle", pc'[t] = p,
         arg'[t].key = j, arg'[t].num = n,
         last'[j] = IF p = "persist" THEN n ELSE 0,
         \A i \in Keys \ {j} : last'[i] = last[i],
         UNCHANGED <<engine, accepted>>,
         NEW k \in Keys, k = j => \A u \in Clients \ {t} : ~Busy(u, k), Said(k)
  PROVE  Said(k)'
<1>0. t \in Threads /\ ~Due(t, k) BY DEF Threads, Due
<1>1. CASE k # j
  <2>1. ~Due(t, k)' BY <1>1 DEF Due
  <2> QED BY <1>0, <1>1, <2>1, SaidMove
<1>2. CASE k = j
  <2>1. Due(t, k)' /\ pc'[t] # "fill" BY <1>2 DEF Due
  <2>2. ASSUME NEW u \in Clients \ {t} PROVE ~Due(u, k)' /\ ~(pc'[u] = "fill" /\ arg'[u].key = k)
    <3>1. u \in Threads /\ pc'[u] = pc[u] /\ arg'[u] = arg[u] BY DEF Alone, Still, Threads
    <3>2. Calling(u) BY <3>1 DEF CShape
    <3>3. Due(u, k) \/ (pc[u] = "fill" /\ arg[u].key = k) => Busy(u, k)
      BY <3>2 DEF Calling, Due, Busy
    <3> QED BY <1>2, <3>1, <3>3 DEF Due
  <2> QED BY <1>2, <2>1, <2>2 DEF Said
<1> QED BY <1>1, <1>2

\* A set puts its document into L1 and has yet to hand it on.
LEMMA SetKeeps ==
  ASSUME WriteBehindAssumption, CInv, NEW t \in Clients, NEW j \in Keys, Set(t, j)
  PROVE  CInv'
<1> DEFINE n == writes + 1
<1>0. CShape /\ Shape BY DEF CInv, CShape
<1>1. n \in 0..MaxWrites /\ n # 0 BY <1>0, WriteBehindAssumption DEF Set, Shape
<1>2. /\ Starts(t, "set", j, n) /\ l1' = L1Put(j, n) /\ Goto(t, "persist")
      /\ last' = [last EXCEPT ![j] = n] /\ got' = [got EXCEPT ![t] = NoCall]
      /\ writes' = n /\ UNCHANGED <<engine, calls, faults>> /\ L2Unchanged
  BY DEF Set
<1> HIDE DEF n
<1>3. last' \in [Keys -> 0..MaxWrites] /\ last'[j] = n
      /\ \A i \in Keys \ {j} : last'[i] = last[i]
  BY <1>0, <1>1, <1>2 DEF CShape
<1>4. got' \in [Clients -> CallRecord] BY <1>0, <1>2 DEF CShape, CallRecord
<1>5. Tidy(l1) BY <1>0 DEF CShape
<1>6. Tidy(l1') BY <1>1, <1>2, <1>5, PutTidy
<1>7. \A e \in Entries(l1') : e = [key |-> j, num |-> n] \/ (e \in Entries(l1) /\ e.key # j)
  BY <1>1, <1>2, <1>5, PutTidy
<1>8. /\ "set" \in Calls /\ "persist" \in {"kvget", "persist", "deleteIndex"}
      /\ calls' \in 0..MaxCalls /\ writes' \in 0..MaxWrites
  BY <1>0, <1>1, <1>2 DEF Calls, Shape
<1>9. /\ CShape' /\ Alone(t) /\ t \in Threads /\ Held(t) = {} /\ Held(t)' = {}
      /\ pc[t] = "idle" /\ pc'[t] = "persist" /\ arg'[t] = [op |-> "set", key |-> j, num |-> n]
      /\ disturbed \subseteq disturbed'
  BY <1>0, <1>1, <1>2, <1>3, <1>4, <1>6, <1>8, StartShape
<1>10. ASSUME NEW k \in Keys \ disturbed' PROVE CacheFits(k)'
  <2>1. CacheFits(k) BY <1>9, <1>10 DEF CInv
  <2>2. Solo(k)' /\ (k = j => \A u \in Clients \ {t} : ~Busy(u, k))
    BY <1>0, <1>2, <1>8, <2>1, SoloStart DEF CacheFits, L2Unchanged
  <2>3. Kept(k)'
    BY <1>0, <1>2, <1>9, <2>1, KeptMove DEF CacheFits, L2Unchanged, db, Removing
  <2>4. Said(k)'
    BY <1>0, <1>2, <1>3, <1>9, <2>1, <2>2, SaidStart DEF CacheFits, L2Unchanged
  <2>5. L1True(k)' BY <1>2, <1>3, <1>7, <2>1 DEF CacheFits, L1True
  <2> QED BY <2>2, <2>3, <2>4, <2>5 DEF CacheFits
<1> QED BY <1>9, <1>10 DEF CInv

\* An invalidate takes the entry out of L1 and has yet to delete the row.
LEMMA InvalidateKeeps ==
  ASSUME WriteBehindAssumption, CInv, NEW t \in Clients, NEW j \in Keys, Invalidate(t, j)
  PROVE  CInv'
<1>0. CShape /\ Shape BY DEF CInv, CShape
<1>2. /\ Starts(t, "invalidate", j, 0) /\ l1' = Without(j) /\ Goto(t, "deleteIndex")
      /\ last' = [last EXCEPT ![j] = 0] /\ got' = [got EXCEPT ![t] = NoCall]
      /\ Charge /\ UNCHANGED engine /\ L2Unchanged
  BY DEF Invalidate
<1>3. last' \in [Keys -> 0..MaxWrites] /\ last'[j] = 0
      /\ \A i \in Keys \ {j} : last'[i] = last[i]
  BY <1>0, <1>2, WriteBehindAssumption DEF CShape
<1>4. got' \in [Clients -> CallRecord] BY <1>0, <1>2 DEF CShape, CallRecord
<1>5. Tidy(l1) BY <1>0 DEF CShape
<1>6. Tidy(l1') /\ \A e \in Entries(l1') : e \in Entries(l1) /\ e.key # j
  BY <1>2, <1>5, WithoutTidy
<1>8. /\ "invalidate" \in Calls /\ "deleteIndex" \in {"kvget", "persist", "deleteIndex"}
      /\ 0 \in 0..MaxWrites
      /\ calls' \in 0..MaxCalls /\ writes' \in 0..MaxWrites /\ faults' = faults
  BY <1>0, <1>2, WriteBehindAssumption DEF Calls, Shape, Charge
<1>9. /\ CShape' /\ Alone(t) /\ t \in Threads /\ Held(t) = {} /\ Held(t)' = {}
      /\ pc[t] = "idle" /\ pc'[t] = "deleteIndex"
      /\ arg'[t] = [op |-> "invalidate", key |-> j, num |-> 0]
      /\ disturbed \subseteq disturbed'
  BY <1>0, <1>2, <1>3, <1>4, <1>6, <1>8, StartShape
<1>10. ASSUME NEW k \in Keys \ disturbed' PROVE CacheFits(k)'
  <2>1. CacheFits(k) BY <1>9, <1>10 DEF CInv
  <2>2. Solo(k)' /\ (k = j => \A u \in Clients \ {t} : ~Busy(u, k))
    BY <1>0, <1>2, <1>8, <2>1, SoloStart DEF CacheFits, L2Unchanged
  <2>3. Kept(k)'
    BY <1>0, <1>2, <1>9, <2>1, KeptMove DEF CacheFits, L2Unchanged, db, Removing
  <2>4. Said(k)'
    BY <1>0, <1>2, <1>3, <1>9, <2>1, <2>2, SaidStart DEF CacheFits, L2Unchanged
  <2>5. L1True(k)' BY <1>2, <1>3, <1>6, <2>1 DEF CacheFits, L1True
  <2> QED BY <2>2, <2>3, <2>4, <2>5 DEF CacheFits
<1> QED BY <1>9, <1>10 DEF CInv

\* Of the other keys nothing changes.
LEMMA KeptAside ==
  ASSUME Shape, NEW t \in Threads, Alone(t), NEW k \in Keys, Kept(k),
         k \notin Held(t), k \notin Held(t)',
         queue'[k] = queue[k], accepted'[k] = accepted[k],
         row'[k] = row[k], idx'[k] = idx[k], k \in bloom => k \in bloom',
         Removing(t, k)' <=> Removing(t, k)
  PROVE  Kept(k)'
<1>1. \A u \in Clients : Removing(u, k)' <=> Removing(u, k)
  BY DEF Removing, Alone, Still, Threads
<1>2. \A u \in Threads : k \in Held(u)' <=> k \in Held(u) BY DEF Held, Alone, Still
<1>3. Follows(k) => Follows(k)' BY FollowsAside DEF Alone
<1> QED BY <1>1, <1>2, <1>3 DEF Kept

\* The call that was due to write a key has: nobody else is due.
LEMMA SaidEnd ==
  ASSUME CShape, NEW t \in Clients, Alone(t), NEW k, Solo(k), Said(k), Busy(t, k),
         ~Due(t, k)', pc'[t] # "fill", UNCHANGED <<engine, last>>, accepted'[k] = last[k]
  PROVE  Said(k)'
<1>1. \A u \in Clients \ {t} : pc'[u] = pc[u] /\ arg'[u] = arg[u]
  BY DEF Alone, Still, Threads
<1>2. \A u \in Clients : ~Due(u, k)' BY <1>1, NotDue DEF Due
<1>3. \A u \in Clients : ~engine' /\ pc'[u] = "fill" /\ arg'[u].key = k => arg'[u].num = last'[k]
  BY <1>1 DEF Said
<1> QED BY <1>2, <1>3 DEF Said

\* The call of a client about to write.
LEMMA DueCall ==
  ASSUME CShape, NEW t \in Clients, NEW k, Due(t, k)
  PROVE  /\ t \in Threads /\ k \in Keys /\ arg[t].num \in 0..MaxWrites
         /\ Busy(t, k) /\ Held(t) = {} /\ arg[t].op \in {"set", "invalidate"}
         /\ pc[t] = "persist" => arg[t].op = "set" /\ arg[t].num # 0
<1>1. pc[t] \in CacheLabels /\ pc[t] \notin {"upsert", "index", "bloomAdd"}
  BY DEF Due, CacheLabels
<1>2. /\ t \in Threads /\ arg[t].key \in Keys /\ arg[t].num \in 0..MaxWrites
  BY <1>1, CallOf
<1>3. Calling(t) BY <1>2 DEF CShape
<1>4. Held(t) = {} BY <1>1, <1>2, HeldInFlush DEF CShape
<1> QED BY <1>1, <1>2, <1>3, <1>4 DEF Due, Calling, Busy

\* queue_write: the document waits in the queue of the engine.
LEMMA PersistQueues ==
  ASSUME WriteBehindAssumption, CInv, NEW t \in Clients, Persist(t), engine
  PROVE  CInv'
<1> DEFINE j == arg[t].key
           n == arg[t].num
<1>0. CShape /\ Shape /\ pc[t] = "persist" /\ Due(t, j) BY DEF CInv, CShape, Persist, Due
<1>1. /\ t \in Threads /\ j \in Keys /\ n \in 0..MaxWrites /\ n # 0 /\ Busy(t, j)
      /\ Held(t) = {}
  BY <1>0, DueCall
<1>2. /\ Enqueue(t, j, n)
      /\ UNCHANGED <<closed, batch, todo, row, idx, bloom, newest, writes, calls, faults, openUntil>>
      /\ UNCHANGED <<lost, disturbed, l1, engine, arg, got, last>>
  BY DEF Persist, db, bounds, cacheVars
<1> HIDE DEF j, n
<1>3. PICK p \in {"take", "idle"} : Goto(t, p)
  <2>1. Resting(t) = "idle" BY WriteBehindAssumption DEF Resting
  <2> QED BY <1>2, <2>1 DEF Enqueue
<1>4. /\ queue' \in [Keys -> 0..MaxWrites] /\ accepted' \in [Keys -> 0..MaxWrites]
      /\ accepted'[j] = n
      /\ \A i \in Keys \ {j} : queue'[i] = queue[i] /\ accepted'[i] = accepted[i]
  BY <1>0, <1>1, <1>2 DEF Enqueue, Shape
<1>5. DataOK' BY <1>0, <1>2, <1>4, TypeParts DEF DataOK
<1>6. /\ p \in AllLabels \ {"upsert", "index", "bloomAdd"}
      /\ pc[t] \notin {"upsert", "index", "bloomAdd"} /\ UNCHANGED <<batch, todo>>
  BY <1>0, <1>2 DEF AllLabels, Labels
<1>7. Shape' /\ Still(t) /\ Held(t)' = {} /\ pc'[t] = p
  BY <1>0, <1>1, <1>3, <1>5, <1>6, ShapeStay
<1>8. Alone(t) BY <1>2, <1>7 DEF Alone
<1>9. Calling(t)' BY <1>2, <1>7 DEF Calling, CacheLabels
<1>10. \A u \in Threads : Calling(u)' BY <1>0, <1>1, <1>2, <1>8, <1>9, CallingMove DEF CShape
<1>11. CShape' BY <1>0, <1>2, <1>7, <1>10 DEF CShape
<1>12. ASSUME NEW k \in Keys \ disturbed' PROVE CacheFits(k)'
  <2>1. CacheFits(k) BY <1>2, <1>12 DEF CInv
  <2>2. Solo(k)' BY <1>0, <1>1, <1>2, <1>8, <2>1, SoloMove DEF CacheFits, Busy
  <2>3. ~Removing(t, k) /\ ~Removing(t, k)' BY <1>0, <1>7 DEF Removing
  <2>4. L1True(k)' BY <1>2 DEF L1True
  <2>5. CASE k # j
    <3>1. Kept(k)' BY <1>0, <1>1, <1>2, <1>4, <1>7, <1>8, <2>1, <2>3, <2>5, KeptAside DEF CacheFits
    <3>2. ~Due(t, k) /\ ~Due(t, k)' BY <1>2, <2>5 DEF Due, j
    <3>3. Said(k)' BY <1>1, <1>2, <1>4, <1>7, <1>8, <2>1, <2>5, <3>2, SaidMove DEF CacheFits
    <3> QED BY <2>2, <2>4, <3>1, <3>3 DEF CacheFits
  <2>6. CASE k = j
    <3>1. \A u \in Clients : ~Removing(u, k)
      BY <1>0, <1>1, <2>1, <2>3, <2>6, NotDue DEF CacheFits, Removing, Due
    <3>2. \A u \in Clients : ~Removing(u, k)'
      BY <1>8, <2>3, <3>1 DEF Removing, Alone, Still, Threads
    <3>3. Follows(k) BY <2>1, <3>1 DEF CacheFits, Kept
    <3>4. n \in Nat \ {0} BY <1>1, WriteBehindAssumption
    <3>5. Follows(k)' BY <1>0, <1>1, <1>2, <3>3, <3>4, FollowsEnqueue
    <3>6. Kept(k)' BY <3>2, <3>5 DEF Kept
    <3>7. last[k] = n BY <1>0, <2>1, <2>6 DEF CacheFits, Said, n
    <3>8. ~Due(t, k)' /\ pc'[t] # "fill" BY <1>7 DEF Due
    <3>9. Said(k)' BY <1>0, <1>1, <1>2, <1>4, <1>8, <2>1, <2>6, <3>7, <3>8, SaidEnd DEF CacheFits
    <3> QED BY <2>2, <2>4, <3>6, <3>9 DEF CacheFits
  <2> QED BY <2>5, <2>6
<1> QED BY <1>11, <1>12 DEF CInv

\* kv_set: the client holds a batch of one.
LEMMA PersistWrites ==
  ASSUME WriteBehindAssumption, CInv, NEW t \in Clients, Persist(t), ~engine
  PROVE  CInv'
<1> DEFINE j == arg[t].key
           n == arg[t].num
           b == [None EXCEPT ![j] = n]
<1>0. CShape /\ Shape /\ pc[t] = "persist" /\ Due(t, j) BY DEF CInv, CShape, Persist, Due
<1>1. /\ t \in Threads /\ j \in Keys /\ n \in 0..MaxWrites /\ n # 0 /\ Busy(t, j)
      /\ Held(t) = {} /\ arg[t].op = "set"
  BY <1>0, DueCall
<1>2. /\ batch' = [batch EXCEPT ![t] = b] /\ todo' = [todo EXCEPT ![t] = {j}]
      /\ Goto(t, "upsert") /\ accepted' = [accepted EXCEPT ![j] = n]
      /\ UNCHANGED <<queue, closed, row, idx, bloom, newest, writes, calls, faults, openUntil>>
      /\ UNCHANGED <<lost, disturbed, l1, engine, arg, got, last>>
  BY DEF Persist, db, bounds, cacheVars
<1>3. b \in [Keys -> 0..MaxWrites] /\ {i \in Keys : b[i] # 0} = {j} /\ b[j] = n
  BY <1>1, WriteBehindAssumption DEF None
<1> HIDE DEF j, n, b
<1>4. /\ accepted' \in [Keys -> 0..MaxWrites] /\ accepted'[j] = n
      /\ \A i \in Keys \ {j} : accepted'[i] = accepted[i]
  BY <1>0, <1>1, <1>2 DEF Shape
<1>5. DataOK' BY <1>0, <1>2, <1>4, TypeParts DEF DataOK
<1>6. ThreadOK("upsert", b, {j}) BY <1>3 DEF ThreadOK, AllLabels, Labels
<1>7. MovesTo(t, "upsert", b, {j}) BY <1>2 DEF MovesTo, Goto
<1>8. Shape' BY <1>0, <1>1, <1>5, <1>6, <1>7, MoveOK, TypeParts, TypePartsNext
<1>9. /\ Still(t) /\ pc'[t] = "upsert" /\ batch'[t] = b /\ todo'[t] = {j}
  BY <1>0, <1>1, <1>2 DEF Still, Goto, Shape
<1>10. Held(t)' = {j} BY <1>3, <1>9 DEF Held
<1>11. Alone(t) BY <1>2, <1>9 DEF Alone
<1>12. Calling(t)' BY <1>1, <1>2, <1>9, <1>10 DEF Calling, CacheLabels, j
<1>13. \A u \in Threads : Calling(u)' BY <1>0, <1>1, <1>2, <1>11, <1>12, CallingMove DEF CShape
<1>14. CShape' BY <1>0, <1>2, <1>8, <1>13 DEF CShape
<1>15. ASSUME NEW k \in Keys \ disturbed' PROVE CacheFits(k)'
  <2>1. CacheFits(k) BY <1>2, <1>15 DEF CInv
  <2>2. Solo(k)' BY <1>0, <1>1, <1>2, <1>11, <2>1, SoloMove DEF CacheFits, Busy
  <2>3. ~Removing(t, k) /\ ~Removing(t, k)' BY <1>0, <1>9 DEF Removing
  <2>4. L1True(k)' BY <1>2, <2>1, L1Less DEF CacheFits
  <2>5. CASE k # j
    <3>1. k \notin Held(t) /\ k \notin Held(t)' BY <1>1, <1>10, <2>5
    <3>2. Kept(k)'
      BY <1>0, <1>1, <1>2, <1>4, <1>11, <2>1, <2>3, <2>5, <3>1, KeptAside DEF CacheFits
    <3>3. ~Due(t, k) /\ ~Due(t, k)' BY <1>2, <2>5 DEF Due, j
    <3>4. Said(k)' BY <1>1, <1>2, <1>4, <1>9, <1>11, <2>1, <2>5, <3>3, SaidMove DEF CacheFits
    <3> QED BY <2>2, <2>4, <3>2, <3>4 DEF CacheFits
  <2>6. CASE k = j
    <3>1. \A u \in Clients : ~Removing(u, k)
      BY <1>0, <1>1, <2>1, <2>3, <2>6, NotDue DEF CacheFits, Removing, Due
    <3>2. \A u \in Clients : ~Removing(u, k)'
      BY <1>11, <2>3, <3>1 DEF Removing, Alone, Still, Threads
    <3>3. \A u \in Threads : k \notin Held(u) BY <1>0, <1>1, <2>1, <2>6, NoHolder DEF CacheFits
    <3>4. \A u \in Threads \ {t} : k \notin Held(u)' BY <1>9, <3>3 DEF Still, Held
    <3>5. InHand(t, k)'
      BY <1>3, <1>4, <1>9, <2>6, <3>4 DEF InHand, RowDone, IndexDone, FilterDone
    <3>6. queue'[k] = 0 BY <1>0, <1>2 DEF CShape, None
    <3>7. Follows(k)'
      <4>1. k \in Held(t)' BY <1>10, <2>6
      <4>2. \A u \in Threads : k \in Held(u)' => InHand(u, k)' BY <3>4, <3>5
      <4> QED BY <1>1, <3>6, <4>1, <4>2 DEF Follows
    <3>8. Kept(k)' BY <3>2, <3>7 DEF Kept
    <3>9. last[k] = n BY <1>0, <2>1, <2>6 DEF CacheFits, Said, n
    <3>10. ~Due(t, k)' /\ pc'[t] # "fill" BY <1>9 DEF Due
    <3>11. Said(k)'
      BY <1>0, <1>1, <1>2, <1>4, <1>11, <2>1, <2>6, <3>9, <3>10, SaidEnd DEF CacheFits
    <3> QED BY <2>2, <2>4, <3>8, <3>11 DEF CacheFits
  <2> QED BY <2>5, <2>6
<1> QED BY <1>14, <1>15 DEF CInv

\* kv_delete, the index first. A queued write of the key would disturb it.
LEMMA IndexDeleteKeeps ==
  ASSUME WriteBehindAssumption, CInv, NEW t \in Clients, DeleteIndex(t)
  PROVE  CInv'
<1> DEFINE j == arg[t].key
<1>0. /\ CShape /\ Shape /\ pc[t] = "deleteIndex" /\ pc[t] \in CacheLabels /\ Due(t, j)
  BY DEF CInv, CShape, DeleteIndex, Due, CacheLabels
<1>1. t \in Threads /\ j \in Keys /\ Busy(t, j) /\ Held(t) = {} BY <1>0, DueCall
<1>2. /\ idx' = [idx EXCEPT ![j] = 0] /\ Goto(t, "deleteRow")
      /\ UNCHANGED <<queue, closed, batch, todo, row, bloom, newest, writes, calls, faults, openUntil>>
      /\ UNCHANGED <<accepted, lost, l1, engine, arg, got, last>>
      /\ Resurrects(t)
  BY DEF DeleteIndex, bounds, cacheVars
<1>3. /\ disturbed \subseteq disturbed' /\ disturbed' \subseteq Keys
      /\ j \notin disturbed' => queue[j] = 0 /\ \A u \in Threads : j \notin Held(u)
  BY <1>0, <1>1, <1>2 DEF Resurrects, Shape
<1> HIDE DEF j
<1>4. idx' \in [Keys -> 0..MaxWrites] /\ idx'[j] = 0 /\ \A i \in Keys \ {j} : idx'[i] = idx[i]
  BY <1>0, <1>1, <1>2, WriteBehindAssumption DEF Shape
<1>5. DataOK' BY <1>0, <1>2, <1>3, <1>4, TypeParts DEF DataOK
<1>6. /\ arg' \in [Threads -> CallRecord] /\ got' \in [Clients -> CallRecord] /\ Tidy(l1')
      /\ \A u \in Threads : arg'[u] = arg[u]
      /\ arg[t].op = "invalidate"
  BY <1>0, <1>1, <1>2 DEF CShape, Calling
<1>7. /\ CShape' /\ Alone(t) /\ Held(t)' = {} /\ pc'[t] = "deleteRow"
  BY <1>0, <1>1, <1>2, <1>5, <1>6, StepShape
<1>8. ASSUME NEW k \in Keys \ disturbed' PROVE CacheFits(k)'
  <2>1. CacheFits(k) BY <1>3, <1>8 DEF CInv
  <2>2. Solo(k)' BY <1>0, <1>1, <1>6, <1>7, <2>1, SoloMove DEF CacheFits, Busy
  <2>3. /\ Due(t, k)' <=> Due(t, k)
        /\ pc[t] # "persist" /\ pc'[t] # "persist" /\ pc'[t] # "fill"
    BY <1>0, <1>2, <1>7 DEF Due
  <2>4. Said(k)' BY <1>1, <1>2, <1>6, <1>7, <2>1, <2>3, SaidMove DEF CacheFits
  <2>5. L1True(k)' BY <1>2, <2>1, L1Less DEF CacheFits
  <2>6. Kept(k)'
    <3>1. CASE k # j
      <4>1. ~Removing(t, k) /\ ~Removing(t, k)' BY <1>2, <3>1 DEF Removing, j
      <4> QED BY <1>0, <1>1, <1>2, <1>4, <1>7, <2>1, <3>1, <4>1, KeptAside DEF CacheFits
    <3>2. CASE k = j
      <4>1. Removing(t, k)' BY <1>2, <1>7, <3>2 DEF Removing, j
      <4>2. idx'[k] = 0 /\ queue'[k] = 0 BY <1>2, <1>3, <1>4, <1>8, <3>2
      <4>3. \A u \in Threads : k \notin Held(u)' BY <1>2, <1>3, <1>8, <3>2 DEF Held
      <4> QED BY <4>1, <4>2, <4>3 DEF Kept
    <3> QED BY <3>1, <3>2
  <2> QED BY <2>2, <2>4, <2>5, <2>6 DEF CacheFits
<1> QED BY <1>7, <1>8 DEF CInv

\* Then the row: SQLite has nothing of the key.
LEMMA DeleteRowKeeps ==
  ASSUME WriteBehindAssumption, CInv, NEW t \in Clients, DeleteRow(t)
  PROVE  CInv'
<1> DEFINE j == arg[t].key
<1>0. /\ CShape /\ Shape /\ pc[t] = "deleteRow" /\ pc[t] \in CacheLabels /\ Due(t, j)
  BY DEF CInv, CShape, DeleteRow, Due, CacheLabels
<1>1. t \in Threads /\ j \in Keys /\ Busy(t, j) /\ Held(t) = {} BY <1>0, DueCall
<1>2. /\ row' = [row EXCEPT ![j] = 0] /\ accepted' = [accepted EXCEPT ![j] = 0]
      /\ \E p \in {"deleteL1", "idle"} : Goto(t, p)
      /\ UNCHANGED <<queue, closed, batch, todo, idx, bloom, newest, writes, calls, faults, openUntil>>
      /\ UNCHANGED <<lost, l1, engine, arg, got, last>>
      /\ Resurrects(t)
  BY DEF DeleteRow, bounds, cacheVars
<1>3. /\ disturbed \subseteq disturbed' /\ disturbed' \subseteq Keys
      /\ j \notin disturbed' => queue[j] = 0 /\ \A u \in Threads : j \notin Held(u)
  BY <1>0, <1>1, <1>2 DEF Resurrects, Shape
<1> HIDE DEF j
<1>4. /\ row' \in [Keys -> 0..MaxWrites] /\ accepted' \in [Keys -> 0..MaxWrites]
      /\ row'[j] = 0 /\ accepted'[j] = 0
      /\ \A i \in Keys \ {j} : row'[i] = row[i] /\ accepted'[i] = accepted[i]
  BY <1>0, <1>1, <1>2, WriteBehindAssumption DEF Shape
<1>5. DataOK' BY <1>0, <1>2, <1>3, <1>4, TypeParts DEF DataOK
<1>6. /\ arg' \in [Threads -> CallRecord] /\ got' \in [Clients -> CallRecord] /\ Tidy(l1')
      /\ \A u \in Threads : arg'[u] = arg[u]
      /\ arg[t].op = "invalidate"
  BY <1>0, <1>1, <1>2 DEF CShape, Calling
<1>p. PICK p \in {"deleteL1", "idle"} : Goto(t, p) BY <1>2
<1>7. /\ CShape' /\ Alone(t) /\ Held(t)' = {} /\ pc'[t] = p
  BY <1>0, <1>1, <1>2, <1>p, <1>5, <1>6, StepShape
<1>8. ASSUME NEW k \in Keys \ disturbed' PROVE CacheFits(k)'
  <2>1. CacheFits(k) BY <1>3, <1>8 DEF CInv
  <2>2. Solo(k)' BY <1>0, <1>1, <1>6, <1>7, <2>1, SoloMove DEF CacheFits, Busy
  <2>3. ~Due(t, k)' /\ pc'[t] # "fill" /\ ~Removing(t, k)' BY <1>7 DEF Due, Removing
  <2>4. L1True(k)' BY <1>2, <2>1, L1Less DEF CacheFits
  <2>5. CASE k # j
    <3>1. ~Removing(t, k) /\ ~Due(t, k) BY <2>5 DEF Removing, Due, j
    <3>2. Kept(k)'
      BY <1>0, <1>1, <1>2, <1>4, <1>7, <2>1, <2>3, <2>5, <3>1, KeptAside DEF CacheFits
    <3>3. Said(k)' BY <1>1, <1>2, <1>4, <1>7, <2>1, <2>3, <2>5, <3>1, SaidMove DEF CacheFits
    <3> QED BY <2>2, <2>4, <3>2, <3>3 DEF CacheFits
  <2>6. CASE k = j
    <3>1. \A u \in Clients \ {t} : ~Removing(u, k)
      BY <1>0, <1>1, <2>1, <2>6, NotDue DEF CacheFits, Removing, Due
    <3>2. \A u \in Clients : ~Removing(u, k)'
      BY <1>7, <2>3, <3>1 DEF Removing, Alone, Still, Threads
    <3>3. Removing(t, k) BY <1>0, <2>6 DEF Removing, j
    <3>4. idx[k] = 0 /\ queue[k] = 0 /\ \A u \in Threads : k \notin Held(u)
      BY <2>1, <3>3 DEF CacheFits, Kept
    <3>5. \A u \in Threads : k \notin Held(u)' BY <1>2, <3>4 DEF Held
    <3>6. Settled(k)' BY <1>2, <1>4, <2>6, <3>4 DEF Settled
    <3>7. Follows(k)' BY <1>2, <3>4, <3>5, <3>6 DEF Follows
    <3>8. Kept(k)' BY <3>2, <3>7 DEF Kept
    <3>9. last[k] = 0 BY <1>0, <2>1, <2>6 DEF CacheFits, Said
    <3>10. Said(k)'
      BY <1>0, <1>1, <1>2, <1>4, <1>7, <2>1, <2>3, <2>6, <3>9, SaidEnd DEF CacheFits
    <3> QED BY <2>2, <2>4, <3>8, <3>10 DEF CacheFits
  <2> QED BY <2>5, <2>6
<1> QED BY <1>7, <1>8 DEF CInv

\* A key that a step of kv_delete leaves to the others: it writes neither
\* SQLite nor the queue, and enters or leaves none of the statements between.
LEMMA DeleteMoves ==
  ASSUME CInv, NEW t \in Clients, pc[t] \in CacheLabels, Goto(t, "idle"), DataOK',
         UNCHANGED <<batch, todo, queue, row, idx, bloom, accepted>>,
         UNCHANGED <<engine, arg, got, last>>,
         Tidy(l1'), \A e \in Entries(l1') : e \in Entries(l1),
         disturbed \subseteq disturbed',
         \A k \in Keys \ disturbed' : ~Due(t, k)
  PROVE  CInv'
<1>0. CShape /\ Shape BY DEF CInv, CShape
<1>1. /\ arg' \in [Threads -> CallRecord] /\ got' \in [Clients -> CallRecord]
      /\ \A u \in Threads : arg'[u] = arg[u]
  BY <1>0 DEF CShape
<1>t. t \in Threads BY DEF Threads
<1>2. /\ CShape' /\ Alone(t) /\ Held(t) = {} /\ Held(t)' = {} /\ pc'[t] = "idle"
  BY <1>0, <1>1, <1>t, StepShape
<1>3. ASSUME NEW k \in Keys \ disturbed' PROVE CacheFits(k)'
  <2>1. CacheFits(k) BY <1>3 DEF CInv
  <2>2. Solo(k)' BY <1>t, <1>2, <2>1, SoloMove DEF CacheFits, Busy
  <2>3. /\ ~Due(t, k) /\ ~Due(t, k)' /\ pc'[t] # "fill"
        /\ ~Removing(t, k) /\ ~Removing(t, k)'
    BY <1>2, <1>3 DEF Due, Removing
  <2>4. Kept(k)' BY <1>0, <1>t, <1>2, <2>1, <2>3, KeptMove DEF CacheFits
  <2>5. Said(k)' BY <1>t, <1>2, <2>1, <2>3, SaidMove DEF CacheFits
  <2>6. L1True(k)' BY <2>1, L1Less DEF CacheFits
  <2> QED BY <2>2, <2>4, <2>5, <2>6 DEF CacheFits
<1> QED BY <1>2, <1>3 DEF CInv

\* L1 once more.
LEMMA DeleteL1Keeps ==
  ASSUME CInv, NEW t \in Clients, DeleteL1(t)
  PROVE  CInv'
<1>0. CShape /\ Shape /\ pc[t] = "deleteL1" /\ pc[t] \in CacheLabels
  BY DEF CInv, CShape, DeleteL1, CacheLabels
<1>1. /\ Goto(t, "idle") /\ l1' = Without(arg[t].key)
      /\ UNCHANGED <<queue, closed, batch, todo, row, idx, bloom, newest, writes, calls, faults>>
      /\ UNCHANGED <<openUntil, accepted, lost, disturbed, engine, arg, got, last>>
  BY DEF DeleteL1, db, bounds, history
<1>2. DataOK' BY <1>0, <1>1, TypeParts DEF DataOK
<1>3. Tidy(l1') /\ \A e \in Entries(l1') : e \in Entries(l1)
  BY <1>0, <1>1, CallOf, WithoutTidy DEF CShape
<1>4. \A k \in Keys : ~Due(t, k) BY <1>0 DEF Due
<1> QED BY <1>0, <1>1, <1>2, <1>3, <1>4, DeleteMoves

\* A delete that fails disturbs its key.
LEMMA FailDeleteKeeps ==
  ASSUME WriteBehindAssumption, CInv, NEW t \in Clients, FailDelete(t)
  PROVE  CInv'
<1>0. CShape /\ Shape /\ pc[t] \in CacheLabels
  BY DEF CInv, CShape, FailDelete, CacheLabels
<1>1. /\ Goto(t, "idle") /\ faults < MaxFaults /\ faults' = faults + 1
      /\ disturbed' = disturbed \cup {arg[t].key}
      /\ UNCHANGED <<queue, closed, batch, todo, row, idx, bloom, newest, writes, calls>>
      /\ UNCHANGED <<openUntil, accepted, lost, l1, engine, arg, got, last>>
  BY DEF FailDelete, db, cacheVars
<1>2. arg[t].key \in Keys BY <1>0, CallOf
<1>3. faults' \in 0..MaxFaults BY <1>0, <1>1, WriteBehindAssumption DEF Shape
<1>4. disturbed' \subseteq Keys /\ disturbed \subseteq disturbed' BY <1>0, <1>1, <1>2 DEF Shape
<1>5. DataOK' BY <1>0, <1>1, <1>3, <1>4, TypeParts DEF DataOK
<1>6. Tidy(l1') /\ \A e \in Entries(l1') : e \in Entries(l1) BY <1>0, <1>1 DEF CShape
<1>7. \A k \in Keys \ disturbed' : ~Due(t, k) BY <1>1 DEF Due
<1> QED BY <1>0, <1>1, <1>4, <1>5, <1>6, <1>7, DeleteMoves

\* A call of flush, or the worker's turn: the thread goes to p without a batch.
LEMMA EngineMoves ==
  ASSUME CInv, engine, NEW t \in Threads, pc[t] \in {"idle", "check"},
         NEW p \in {"take", "exited"}, Goto(t, p), DataOK',
         UNCHANGED <<queue, batch, todo, row, idx, bloom, accepted, disturbed>>,
         UNCHANGED <<l1, engine, got, last>>,
         arg' \in [Threads -> CallRecord], \A u \in Threads \ {t} : arg'[u] = arg[u],
         \/ arg'[t] = NoCall
         \/ pc[t] = "check" /\ arg'[t] = arg[t]
  PROVE  CInv'
<1>0. CShape /\ Shape BY DEF CInv, CShape
<1>1. /\ p \in AllLabels \ {"upsert", "index", "bloomAdd"}
      /\ pc[t] \notin {"upsert", "index", "bloomAdd"}
  BY DEF AllLabels, Labels
<1>2. Shape' /\ Still(t) /\ Held(t) = {} /\ Held(t)' = {} /\ pc'[t] = p
  BY <1>0, <1>1, ShapeStay
<1>3. Alone(t) BY <1>2 DEF Alone
<1>4. Calling(t)' BY <1>2 DEF Calling, CacheLabels
<1>5. \A u \in Threads : Calling(u)' BY <1>0, <1>3, <1>4, CallingMove DEF CShape
<1>6. CShape' BY <1>0, <1>2, <1>5 DEF CShape
<1>7. ASSUME NEW k \in Keys \ disturbed' PROVE CacheFits(k)'
  <2>1. CacheFits(k) BY <1>7 DEF CInv
  <2>2. Busy(t, k)' => Busy(t, k) /\ arg'[t].op = arg[t].op BY DEF Busy, NoCall
  <2>3. Solo(k)' BY <1>3, <2>1, <2>2, SoloMove DEF CacheFits
  <2>4. /\ ~Due(t, k) /\ ~Due(t, k)' /\ pc'[t] # "fill"
        /\ ~Removing(t, k) /\ ~Removing(t, k)'
    BY <1>2 DEF Due, Removing
  <2>5. Kept(k)' BY <1>0, <1>2, <1>3, <2>1, <2>4, KeptMove DEF CacheFits
  <2>6. Said(k)' BY <1>3, <2>1, <2>4, SaidMove DEF CacheFits
  <2>7. L1True(k)' BY <2>1, L1Less DEF CacheFits
  <2> QED BY <2>3, <2>5, <2>6, <2>7 DEF CacheFits
<1> QED BY <1>6, <1>7 DEF CInv

\* A call of flush takes no key into its hands yet.
LEMMA CacheFlushKeeps ==
  ASSUME WriteBehindAssumption, CInv, NEW t \in Clients, CacheFlush(t)
  PROVE  CInv'
<1>0. Shape /\ t \in Threads /\ arg \in [Threads -> CallRecord]
  BY DEF CInv, CShape, Threads
<1>1. /\ engine /\ pc[t] = "idle" /\ Goto(t, "take") /\ calls < MaxCalls /\ calls' = calls + 1
      /\ closed' = closed /\ arg' = [arg EXCEPT ![t] = NoCall]
      /\ UNCHANGED <<queue, batch, todo, row, idx, bloom, newest, writes, faults, openUntil>>
      /\ UNCHANGED <<accepted, lost, disturbed, l1, engine, got, last>>
  BY DEF CacheFlush, Flush, FlushCall, db
<1>2. calls' \in 0..MaxCalls /\ closed' \in BOOLEAN
  BY <1>0, <1>1, WriteBehindAssumption DEF Shape
<1>3. DataOK' BY <1>0, <1>1, <1>2, TypeParts DEF DataOK
<1>4. /\ arg' \in [Threads -> CallRecord] /\ arg'[t] = NoCall
      /\ \A u \in Threads \ {t} : arg'[u] = arg[u]
  BY <1>0, <1>1 DEF CallRecord
<1> QED BY <1>0, <1>1, <1>3, <1>4, EngineMoves

\* The worker goes to flush, or ends.
LEMMA WorkerLoopKeeps ==
  ASSUME CInv, NEW t \in Threads, engine, WorkerLoop(t), UNCHANGED cacheVars
  PROVE  CInv'
<1>0. Shape /\ arg \in [Threads -> CallRecord] BY DEF CInv, CShape
<1>1. PICK p \in {"take", "exited"} : Goto(t, p) BY DEF WorkerLoop
<1>2. /\ pc[t] = "check" /\ UNCHANGED <<queue, closed, batch, todo, row, idx, bloom, newest>>
      /\ UNCHANGED <<writes, calls, faults, openUntil, accepted, lost, disturbed>>
      /\ UNCHANGED <<l1, engine, arg, got, last>>
  BY DEF WorkerLoop, db, history, bounds, cacheVars
<1>3. DataOK' BY <1>0, <1>2, TypeParts DEF DataOK
<1> QED BY <1>0, <1>1, <1>2, <1>3, EngineMoves

\* What any statement of a flush does to its thread and to the keys it leaves alone.
LEMMA FlushMoves ==
  ASSUME Shape, NEW t \in Threads, FlushStep(t) \/ Fail(t)
  PROVE  /\ Still(t) /\ pc[t] \in {"take", "upsert", "index", "bloomAdd"}
         /\ pc'[t] \in {"upsert", "index", "bloomAdd", Resting(t)}
         /\ UNCHANGED <<accepted, writes, calls>>
         /\ \A k \in Keys : k \notin Held(t) /\ queue[k] = 0
              => k \notin Held(t)' /\ queue'[k] = 0 /\ idx'[k] = idx[k]
         /\ pc[t] # "take" => queue' = queue /\ Held(t)' \in {Held(t), {}}
<1> USE DEF db, bounds, history
<1>0. todo[t] \subseteq Held(t) BY DEF Shape
<1>1. CASE Take(t)
  <2>0. pc[t] = "take" /\ UNCHANGED <<idx, accepted, writes, calls>> BY <1>1 DEF Take
  <2>1. CASE Return(t) /\ UNCHANGED queue
    <3>1. Still(t) /\ pc'[t] = Resting(t) /\ batch'[t] = None
      BY <2>1 DEF Return, Goto, Still, Shape
    <3>2. Held(t)' = {} BY <3>1 DEF Held, None
    <3> QED BY <2>0, <2>1, <3>1, <3>2
  <2>2. ASSUME NEW S, TakeBut(t, S)
        PROVE  /\ Still(t) /\ pc'[t] \in {"upsert", Resting(t)}
               /\ \A k \in Keys : queue[k] = 0 => k \notin Held(t)' /\ queue'[k] = 0
    <3>1. ThreadsOK BY TypeParts
    <3>2. /\ pc'[t] = LabelOf(t, S) /\ batch'[t] = BatchOf(S) /\ Still(t)
      BY <2>2, <3>1, TakeButStill DEF Still
    <3>3. \A k \in Keys : queue[k] = 0 => k \notin Held(t)'
      BY <3>2 DEF Held, BatchOf, Taken
    <3>4. \A k \in Keys : queue'[k] = 0 BY <2>2 DEF TakeBut, None
    <3> QED BY <3>2, <3>3, <3>4 DEF LabelOf
  <2> QED BY <1>1, <2>0, <2>1, <2>2 DEF Take
<1>2. ASSUME NEW j \in todo[t], NEW here, NEW next, Done(t, j, here, next), pc[t] = here,
             here \in {"upsert", "index", "bloomAdd"},
             next \in {"index", "bloomAdd", "return"}
      PROVE  /\ Still(t) /\ pc'[t] \in {"upsert", "index", "bloomAdd", Resting(t)}
             /\ Held(t)' \in {Held(t), {}}
  <2>1. /\ Still(t)
        /\ \/ pc'[t] = here /\ batch' = batch
           \/ next # "return" /\ pc'[t] = next /\ batch' = batch
           \/ todo[t] = {j} /\ next = "return" /\ Held(t)' = {}
    BY <1>2, DoneGoes
  <2>2. batch' = batch => Held(t)' = Held(t) BY DEF Held
  <2>3. todo[t] = {j} /\ next = "return" => pc'[t] = Resting(t)
    BY <1>2 DEF Done, Return, Goto, Shape
  <2> QED BY <1>2, <2>1, <2>2, <2>3
<1>3. CASE Upsert(t)
  <2>1. PICK j \in todo[t] : Done(t, j, "upsert", "index") BY <1>3 DEF Upsert
  <2>2. pc[t] = "upsert" /\ UNCHANGED <<queue, idx, accepted, writes, calls>> BY <1>3 DEF Upsert
  <2>3. /\ Still(t) /\ pc'[t] \in {"upsert", "index", "bloomAdd", Resting(t)}
        /\ Held(t)' \in {Held(t), {}}
    BY <1>2, <2>1, <2>2
  <2> QED BY <2>2, <2>3
<1>4. CASE Index(t)
  <2>1. PICK j \in todo[t] : idx' = [idx EXCEPT ![j] = batch[t][j]]
                             /\ Done(t, j, "index", "bloomAdd")
    BY <1>4 DEF Index
  <2>2. pc[t] = "index" /\ UNCHANGED <<queue, accepted, writes, calls>> BY <1>4 DEF Index
  <2>3. /\ Still(t) /\ pc'[t] \in {"upsert", "index", "bloomAdd", Resting(t)}
        /\ Held(t)' \in {Held(t), {}}
    BY <1>2, <2>1, <2>2
  <2>4. \A k \in Keys : k \notin Held(t) => idx'[k] = idx[k] BY <1>0, <2>1 DEF Shape
  <2> QED BY <2>2, <2>3, <2>4
<1>5. CASE BloomAdd(t)
  <2>1. PICK j \in todo[t] : Done(t, j, "bloomAdd", "return") BY <1>5 DEF BloomAdd
  <2>2. pc[t] = "bloomAdd" /\ UNCHANGED <<queue, idx, accepted, writes, calls>>
    BY <1>5 DEF BloomAdd
  <2>3. /\ Still(t) /\ pc'[t] \in {"upsert", "index", "bloomAdd", Resting(t)}
        /\ Held(t)' \in {Held(t), {}}
    BY <1>2, <2>1, <2>2
  <2> QED BY <2>2, <2>3
<1>6. CASE Fail(t)
  <2>1. /\ Still(t) /\ batch'[t] = None /\ pc'[t] = Resting(t) /\ pc[t] \in {"upsert", "index"}
        /\ UNCHANGED <<queue, accepted, writes, calls>>
    BY <1>6 DEF Fail, DropBatch, Return, Goto, Still, Shape
  <2>2. Held(t)' = {} BY <2>1 DEF Held, None
  <2>3. \A k \in Keys : k \notin Held(t) => idx'[k] = idx[k]
    <3>1. idx' = idx \/ \E j \in todo[t] : idx' = [idx EXCEPT ![j] = 0]
      BY <1>6 DEF Fail, DropBatch
    <3> QED BY <1>0, <3>1 DEF Shape
  <2> QED BY <2>1, <2>2, <2>3
<1> QED BY <1>1, <1>3, <1>4, <1>5, <1>6 DEF FlushStep

\* The statements of a flush, and their failures, are those of the engine.
LEMMA FlushKeeps ==
  ASSUME CInv, NEW t \in Threads, FlushStep(t) \/ Fail(t), UNCHANGED cacheVars
  PROVE  CInv'
<1>0. CShape /\ Shape /\ Calling(t) BY DEF CInv, CShape
<1>1. /\ Still(t) /\ pc[t] \in {"take", "upsert", "index", "bloomAdd"}
      /\ pc'[t] \in {"upsert", "index", "bloomAdd", "check", "idle"}
      /\ accepted' = accepted
  BY <1>0, FlushMoves DEF Resting
<1>2. \A k \in Keys : k \notin Held(t) /\ queue[k] = 0
        => k \notin Held(t)' /\ queue'[k] = 0 /\ idx'[k] = idx[k]
  BY <1>0, FlushMoves
<1>3. pc[t] # "take" => queue' = queue /\ Held(t)' \in {Held(t), {}}
  BY <1>0, FlushMoves
<1>4. UNCHANGED <<l1, engine, arg, got, last>> BY DEF cacheVars
<1>5. Alone(t) BY <1>1, <1>4 DEF Alone
<1>6. ~engine => pc[t] # "take" BY <1>0 DEF Calling
<1>7. Calling(t)'
  <2>1. pc'[t] \notin CacheLabels /\ pc'[t] # "take" BY <1>1 DEF CacheLabels
  <2>2. ~engine => (Held(t)' # {} => Held(t)' = Held(t)) BY <1>3, <1>6
  <2>3. ~engine => (Held(t)' # {} => t \in Clients /\ arg'[t].op = "set"
                                     /\ Held(t)' = {arg'[t].key})
    BY <1>0, <1>4, <2>2 DEF Calling
  <2> QED BY <1>4, <2>1, <2>3 DEF Calling, CacheLabels
<1>8. \A u \in Threads : Calling(u)' BY <1>0, <1>4, <1>5, <1>7, CallingMove DEF CShape
<1>9. CShape'
  <2>1. Shape' BY <1>0, FlushShape
  <2>2. ~engine' => queue' = None BY <1>0, <1>3, <1>4, <1>6 DEF CShape, None
  <2> QED BY <1>0, <1>4, <1>8, <2>1, <2>2 DEF CShape
<1>10. ASSUME NEW k \in Keys \ disturbed' PROVE CacheFits(k)'
  <2>1. k \notin disturbed BY <1>10, FlushDisturbs
  <2>2. CacheFits(k) BY <2>1 DEF CInv
  <2>3. Solo(k)' BY <1>1, <1>4, <1>5, <2>2, SoloMove DEF CacheFits, Busy
  <2>4. /\ ~Due(t, k) /\ ~Due(t, k)' /\ pc'[t] # "fill"
        /\ ~Removing(t, k) /\ ~Removing(t, k)'
    BY <1>1 DEF Due, Removing
  <2>5. Said(k)' BY <1>1, <1>4, <1>5, <2>2, <2>4, SaidMove DEF CacheFits
  <2>6. L1True(k)' BY <1>4, <2>2, L1Less DEF CacheFits
  <2>7. \A u \in Clients : Removing(u, k)' <=> Removing(u, k)
    BY <1>1, <1>4, <2>4 DEF Removing, Still, Threads
  <2>8. CASE \E u \in Clients : Removing(u, k)
    <3>1. idx[k] = 0 /\ queue[k] = 0 /\ \A u \in Threads : k \notin Held(u)
      BY <2>2, <2>8 DEF CacheFits, Kept
    <3>2. k \notin Held(t)' /\ queue'[k] = 0 /\ idx'[k] = 0 BY <1>2, <3>1
    <3>3. \A u \in Threads : k \notin Held(u)' BY <1>1, <3>1, <3>2 DEF Still, Held
    <3>4. Kept(k)' BY <2>7, <2>8, <3>2, <3>3 DEF Kept
    <3> QED BY <2>3, <2>5, <2>6, <3>4 DEF CacheFits
  <2>9. CASE ~\E u \in Clients : Removing(u, k)
    <3>1. Follows(k) BY <2>2, <2>9 DEF CacheFits, Kept
    <3>2. Follows(k)' BY <1>0, <1>10, <3>1, FollowsFlush
    <3>3. Kept(k)' BY <2>7, <2>9, <3>2 DEF Kept
    <3> QED BY <2>3, <2>5, <2>6, <3>3 DEF CacheFits
  <2> QED BY <2>8, <2>9
<1> QED BY <1>9, <1>10 DEF CInv

\* The empty cache fits.
LEMMA CInvInit == CInit => CInv
<1> SUFFICES ASSUME CInit PROVE CInv OBVIOUS
<1>0. Init BY DEF CInit
<1>1. Shape BY <1>0, InitOK, TypeIsShape
<1>2. /\ l1 = <<>> /\ engine \in Modes /\ arg = [t \in Threads |-> NoCall]
      /\ got = [t \in Clients |-> NoCall] /\ last = None
  BY DEF CInit
<1>3. Tidy(l1) /\ Entries(l1) = {} BY <1>2 DEF Tidy, Entries
<1>4. engine \in BOOLEAN BY <1>2, TwoTierCacheAssumption
<1>5. /\ arg \in [Threads -> CallRecord] /\ got \in [Clients -> CallRecord]
      /\ last \in [Keys -> 0..MaxWrites]
  BY <1>2, NoneOK DEF CallRecord
<1>6. \A t \in Threads : /\ pc[t] \in {"idle", "check"} /\ arg[t].op = "none"
                         /\ batch[t] = None /\ Held(t) = {}
  BY <1>0, <1>2, NoneOK DEF Init, Held, NoCall
<1>7. \A t \in Threads : Calling(t) BY <1>6 DEF Calling, CacheLabels
<1>8. CShape BY <1>0, <1>1, <1>3, <1>4, <1>5, <1>7 DEF CShape, Init
<1>9. ASSUME NEW k \in Keys PROVE CacheFits(k)
  <2>1. Clients \subseteq Threads BY DEF Threads
  <2>2. Solo(k) BY <1>6, <2>1 DEF Solo, Busy
  <2>3. Settled(k) BY <1>0 DEF Settled, Init, None
  <2>4. Kept(k) BY <1>0, <1>6, <2>1, <2>3 DEF Kept, Removing, Follows, Init, None
  <2>5. Said(k) BY <1>0, <1>2, <1>6, <2>1 DEF Said, Due, Init, None
  <2>6. L1True(k) BY <1>3 DEF L1True
  <2> QED BY <2>2, <2>4, <2>5, <2>6 DEF CacheFits
<1> QED BY <1>8, <1>9 DEF CInv

\* Every action of the cache keeps CInv.
LEMMA CInvNext == CInv /\ [CNext]_allVars => CInv'
<1> SUFFICES ASSUME CInv, [CNext]_allVars PROVE CInv' OBVIOUS
<1>1. ASSUME NEW t \in Clients, CacheCall(t) PROVE CInv'
  <2>1. ASSUME NEW k \in Keys, GetHit(t, k) PROVE CInv'
    BY <2>1, GetHitKeeps, WriteBehindAssumption
  <2>2. ASSUME NEW k \in Keys, GetMiss(t, k) PROVE CInv'
    BY <2>2, GetMissKeeps, WriteBehindAssumption
  <2>3. ASSUME NEW k \in Keys, Set(t, k) PROVE CInv'
    BY <2>3, SetKeeps, WriteBehindAssumption
  <2>4. ASSUME NEW k \in Keys, Invalidate(t, k) PROVE CInv'
    BY <2>4, InvalidateKeeps, WriteBehindAssumption
  <2>5. CASE ClearL1(t) BY <2>5, ClearL1Keeps, WriteBehindAssumption
  <2>6. CASE CacheFlush(t) BY <2>6, CacheFlushKeeps, WriteBehindAssumption
  <2> QED BY <1>1, <2>1, <2>2, <2>3, <2>4, <2>5, <2>6 DEF CacheCall
<1>2. ASSUME NEW t \in Clients, CacheStep(t) PROVE CInv'
  <2>1. CASE KvGet(t) BY <2>1, KvGetKeeps, WriteBehindAssumption
  <2>2. CASE Fill(t) BY <2>2, FillKeeps, WriteBehindAssumption
  <2>3. CASE Persist(t) BY <2>3, PersistQueues, PersistWrites, WriteBehindAssumption
  <2>4. CASE DeleteIndex(t) BY <2>4, IndexDeleteKeeps, WriteBehindAssumption
  <2>5. CASE DeleteRow(t) BY <2>5, DeleteRowKeeps, WriteBehindAssumption
  <2>6. CASE DeleteL1(t) BY <2>6, DeleteL1Keeps
  <2>7. CASE FailDelete(t) BY <2>7, FailDeleteKeeps, WriteBehindAssumption
  <2> QED BY <1>2, <2>1, <2>2, <2>3, <2>4, <2>5, <2>6, <2>7 DEF CacheStep
<1>3. ASSUME NEW t \in Threads, EngineStep(t) PROVE CInv'
  <2>1. UNCHANGED cacheVars BY <1>3 DEF EngineStep
  <2>2. CASE FlushStep(t) \/ Fail(t) BY <2>1, <2>2, FlushKeeps
  <2>3. CASE engine /\ WorkerLoop(t) BY <2>1, <2>3, WorkerLoopKeeps
  <2> QED BY <1>3, <2>2, <2>3 DEF EngineStep
<1>4. CASE UNCHANGED allVars
  <2>1. /\ UNCHANGED <<queue, closed, pc, batch, todo, row, idx, bloom, newest>>
        /\ UNCHANGED <<writes, calls, faults, openUntil, accepted, lost, disturbed>>
        /\ UNCHANGED <<l1, engine, arg, got, last>>
    BY <1>4 DEF allVars, vars, cacheVars, db, bounds, history
  <2>2. L2Unchanged /\ Tidy(l1') BY <2>1 DEF L2Unchanged, db, CInv, CShape
  <2>3. calls' \in 0..MaxCalls /\ got' \in [Clients -> CallRecord]
    BY <2>1 DEF CInv, CShape, Shape
  <2> QED BY <2>1, <2>2, <2>3, L1Step, WriteBehindAssumption
<1> QED BY <1>1, <1>2, <1>3, <1>4 DEF CNext, CFinished

\* The invariant of the cache.
LEMMA CInvAlways == CSpec => []CInv
BY CInvInit, CInvNext, PTL DEF CSpec

\* In both modes, once no call writes or invalidates a key and nothing of it is
\* queued or in a batch, SQLite has what was last set, or nothing after an
\* invalidate, in row and index, and the filter lets reads of it through:
\* unless the key was disturbed (calls on it overlapped, a flush of it failed,
\* a queued write of it came after its invalidate, or its kv_delete raised,
\* which invalidate does not pass on).
THEOREM CallsReachL2Always == CSpec => []CallsReachL2
<1>1. CInv => CallsReachL2
  <2> SUFFICES ASSUME CInv, NEW k \in Keys \ disturbed, Quiet(k)
               PROVE  row[k] = last[k] /\ idx[k] = last[k] /\ (row[k] # 0 => k \in bloom)
    BY DEF CallsReachL2
  <2>1. CacheFits(k) BY DEF CInv
  <2>2. \A t \in Clients : ~Due(t, k) /\ ~Removing(t, k) BY DEF Quiet, Due, Removing
  <2>3. Follows(k) BY <2>1, <2>2 DEF CacheFits, Kept
  <2>4. Settled(k) BY <2>3 DEF Follows, Quiet
  <2>5. accepted[k] = last[k] BY <2>1, <2>2 DEF CacheFits, Said
  <2> QED BY <2>4, <2>5 DEF Settled
<1> QED BY <1>1, CInvAlways, PTL

\* What one step of the cache lets a get return.
LEMMA StepReads ==
  ASSUME CInv, CNext, NEW t \in Clients, got'[t] # got[t], got'[t].op = "get",
         got'[t].key \notin disturbed', ~engine
  PROVE  got'[t].num = last[got'[t].key]
<1> DEFINE k == got'[t].key
<1>0. CShape /\ got \in [Clients -> CallRecord] BY DEF CInv, CShape
<1>1. ASSUME NEW u \in Clients, NEW j, NEW n, Got(u, j, n)
      PROVE  t = u /\ k = j /\ got'[t].num = n
  BY <1>0, <1>1 DEF Got
<1>2. ASSUME NEW u \in Clients, got' = [got EXCEPT ![u] = NoCall] PROVE FALSE
  BY <1>0, <1>2 DEF NoCall
<1>3. ASSUME NEW u \in Clients, NEW j \in Keys, GetHit(u, j) PROVE got'[t].num = last[k]
  <2>1. k = j /\ got'[t].num = L1Value(j) BY <1>1, <1>3 DEF GetHit
  <2>2. PICK e \in Entries(l1) : e.key = j /\ e.num = L1Value(j)
    BY <1>0, <1>3, HitEntry DEF GetHit, CShape
  <2>3. j \in Keys \ disturbed BY <1>3, <2>1 DEF GetHit
  <2>4. L1True(j) BY <2>3 DEF CInv, CacheFits
  <2> QED BY <2>1, <2>2, <2>4 DEF L1True
<1>4. ASSUME NEW u \in Clients, KvGet(u) PROVE got'[t].num = last[k]
  <2>1. /\ Got(u, arg[u].key, 0) /\ pc[u] = "kvget" /\ disturbed' = disturbed
        /\ (IF arg[u].key \in bloom THEN row[arg[u].key] ELSE 0) = 0
    BY <1>4 DEF KvGet
  <2>2. k = arg[u].key /\ got'[t].num = 0 BY <1>1, <2>1
  <2>3. arg[u].key \in Keys BY <1>0, <2>1, CallOf DEF CacheLabels
  <2>4. arg[u].key \in Keys \ disturbed BY <2>1, <2>2, <2>3
  <2>5. last[arg[u].key] = 0 BY <2>1, <2>4, ReadTrue
  <2> QED BY <2>2, <2>5
<1>5. ASSUME NEW u \in Clients, Fill(u) PROVE got'[t].num = last[k]
  <2>1. Got(u, arg[u].key, arg[u].num) /\ pc[u] = "fill" /\ disturbed' = disturbed
    BY <1>5 DEF Fill
  <2>2. k = arg[u].key /\ got'[t].num = arg[u].num BY <1>1, <2>1
  <2>3. arg[u].key \in Keys BY <1>0, <2>1, CallOf DEF CacheLabels
  <2>4. CacheFits(arg[u].key) BY <2>1, <2>2, <2>3 DEF CInv
  <2> QED BY <2>1, <2>2, <2>4 DEF CacheFits, Said
<1>6. ASSUME NEW u \in Clients, NEW j \in Keys, GetMiss(u, j) PROVE FALSE BY <1>6 DEF GetMiss
<1>7. ASSUME NEW u \in Clients, NEW j \in Keys, Set(u, j) \/ Invalidate(u, j) PROVE FALSE
  BY <1>2, <1>7 DEF Set, Invalidate
<1>8. ASSUME NEW u \in Clients,
             \/ ClearL1(u) \/ CacheFlush(u) \/ Persist(u)
             \/ DeleteIndex(u) \/ DeleteRow(u) \/ DeleteL1(u) \/ FailDelete(u)
      PROVE  FALSE
  BY <1>8 DEF ClearL1, CacheFlush, Persist, DeleteIndex, DeleteRow, DeleteL1, FailDelete, cacheVars
<1>9. ASSUME NEW u \in Threads, EngineStep(u) PROVE FALSE BY <1>9 DEF EngineStep, cacheVars
<1>10. CASE CFinished BY <1>10 DEF CFinished, allVars, cacheVars
<1> QED BY <1>3, <1>4, <1>5, <1>6, <1>7, <1>8, <1>9, <1>10 DEF CNext, CacheCall, CacheStep

\* Without write-behind, a get returns the last document set or invalidated, by
\* whichever thread, through LRU evictions, L1 expiry and clear_l1, for every
\* key on which no call overlapped a write and none failed.
THEOREM ReadsSeeLastWriteAlways == CSpec => ReadsSeeLastWrite
<1>1. CInv /\ [CNext]_allVars =>
        [\A t \in Clients :
           LET k == got'[t].key
           IN got'[t] # got[t] /\ got'[t].op = "get" /\ k \notin disturbed' /\ ~engine
                => got'[t].num = last[k]]_allVars
  BY StepReads
<1> QED BY <1>1, CInvAlways, PTL DEF CSpec, ReadsSeeLastWrite
=============================================================================
