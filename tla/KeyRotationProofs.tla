-------------------------- MODULE KeyRotationProofs --------------------------
(***************************************************************************)
(* Theorems about KeyRotation, for every number of documents, rotators,    *)
(* clients, rotations, failures and restarts.                              *)
(***************************************************************************)
EXTENDS KeyRotation, FiniteSetTheorems, TLAPS

Labels == {"none", "starting", "check", "exited", "select", "update", "index", "setKey",
           "saveFile", "idle", "upsert", "writeIndex"}
RotRecord == [old : Nat, new : Nat, recs : [Docs -> Nat], todo : SUBSET Docs, cur : Docs]
CallRecord == [doc : Docs, num : Nat, key : Nat]
RowRecord == [num : Nat, key : Nat]

Shape == /\ row \in [Docs -> RowRecord] /\ latest \in [Docs -> Nat]
         /\ idx \in [Docs -> Nat]
         /\ active \in Nat /\ file \in Nat /\ keys \in Nat /\ writes \in Nat
         /\ pc \in [Rotators \cup Clients -> Labels]
         /\ rot \in [Rotators -> RotRecord] /\ loc \in [Clients -> CallRecord]
         /\ mixed \subseteq Docs
         /\ stops \in Nat /\ joining \in [1..MaxStops -> SUBSET Rotators]
         /\ handle \subseteq Rotators

\* The locals a thread starts with are well formed.
LEMMA Blank == NoRot \in RotRecord /\ NoCall \in CallRecord
<1>1. \A k \in Docs : (CHOOSE j \in Docs : TRUE) \in Docs OBVIOUS
<1>2. (CHOOSE j \in Docs : TRUE) \in Docs BY KeyRotationAssumption, <1>1
<1> QED BY <1>2 DEF NoRot, RotRecord, NoCall, CallRecord

\* Shape holds at the start.
LEMMA ShapeInit == Init => Shape
<1> SUFFICES ASSUME Init PROVE Shape OBVIOUS
<1>1. Absent \in RowRecord BY DEF Absent, RowRecord
<1>2. pc \in [Rotators \cup Clients -> Labels] BY DEF Init, Labels
<1>3. [num |-> 1, key |-> 1] \in RowRecord BY DEF RowRecord
<1>4. row \in [Docs -> RowRecord] BY <1>1, <1>3 DEF Init
<1>5. latest \in [Docs -> Nat] BY <1>4 DEF Init, RowRecord
<1> QED BY Blank, <1>2, <1>4, <1>5 DEF Init, Shape

\* Every action keeps Shape.
LEMMA ShapeNext == Shape /\ [Next]_vars => Shape'
<1> SUFFICES ASSUME Shape, [Next]_vars PROVE Shape' OBVIOUS
<1> USE DEF data, control, bounds, history
<1>1. ASSUME NEW c \in Clients, NEW k \in Docs, Encrypt(c, k) PROVE Shape'
  <2>1. loc' \in [Clients -> CallRecord]
    BY <1>1 DEF Encrypt, Shape, CallRecord
  <2>2. pc' \in [Rotators \cup Clients -> Labels]
    BY <1>1 DEF Encrypt, Goto, Shape, Labels
  <2>3. mixed' \subseteq Docs /\ writes' \in Nat BY <1>1 DEF Encrypt, Shape
  <2> QED BY <1>1, <2>1, <2>2, <2>3 DEF Encrypt, Shape
<1>2. ASSUME NEW c \in Clients, UpsertRow(c) PROVE Shape'
  <2>1. loc[c] \in CallRecord BY DEF Shape
  <2>2. row' \in [Docs -> RowRecord] /\ latest' \in [Docs -> Nat]
    BY <1>2, <2>1 DEF UpsertRow, Shape, CallRecord, RowRecord
  <2>3. pc' \in [Rotators \cup Clients -> Labels]
    BY <1>2 DEF UpsertRow, Goto, Shape, Labels
  <2> QED BY <1>2, <2>2, <2>3 DEF UpsertRow, Shape
<1>3. ASSUME NEW c \in Clients, WriteIndex(c) PROVE Shape'
  <2>1. idx' \in [Docs -> Nat] /\ loc' \in [Clients -> CallRecord]
    BY <1>3, Blank DEF WriteIndex, Shape
  <2>2. pc' \in [Rotators \cup Clients -> Labels]
    BY <1>3 DEF WriteIndex, Goto, Shape, Labels
  <2> QED BY <1>3, <2>1, <2>2 DEF WriteIndex, Shape
<1>4. ASSUME NEW r \in Rotators, Start(r) \/ Launch(r) \/ LoopEnds(r) PROVE Shape'
  <2>1. pc' \in [Rotators \cup Clients -> Labels]
    BY <1>4 DEF Start, CheckThread, Launch, LoopEnds, Goto, Shape, Labels
  <2> QED BY <1>4, <2>1 DEF Start, CheckThread, Launch, LoopEnds, Shape
<1>5. ASSUME NEW r \in Rotators, CheckAndRotate(r) PROVE Shape'
  <2>1. [NoRot EXCEPT !.old = file, !.new = keys + 1] \in RotRecord
    <3>1. file \in Nat /\ keys + 1 \in Nat BY DEF Shape
    <3> HIDE DEF NoRot
    <3> QED BY <3>1, Blank DEF RotRecord
  <2>2. rot' \in [Rotators -> RotRecord] BY <1>5, <2>1 DEF CheckAndRotate, Shape
  <2>3. mixed' \subseteq Docs BY <1>5 DEF CheckAndRotate, Shape, CallRecord
  <2>4. pc' \in [Rotators \cup Clients -> Labels]
    BY <1>5 DEF CheckAndRotate, Goto, Shape, Labels
  <2>5. keys' \in Nat BY <1>5 DEF CheckAndRotate, Shape
  <2> QED BY <1>5, <2>2, <2>3, <2>4, <2>5 DEF CheckAndRotate, Shape
<1>6. ASSUME NEW r \in Rotators, Select(r) PROVE Shape'
  <2>1. rot[r] \in RotRecord /\ \A k \in Docs : row[k].num \in Nat
    BY DEF Shape, RowRecord
  <2>2. rot' \in [Rotators -> RotRecord]
    BY <1>6, <2>1 DEF Select, Shape, RotRecord, Present
  <2>3. pc' \in [Rotators \cup Clients -> Labels]
    BY <1>6 DEF Select, Goto, Shape, Labels
  <2> QED BY <1>6, <2>2, <2>3 DEF Select, Shape
<1>7. ASSUME NEW r \in Rotators, Update(r) PROVE Shape'
  <2>1. rot[r] \in RotRecord BY DEF Shape
  <2>2. PICK k \in rot[r].todo :
          /\ row' = [row EXCEPT ![k] = [num |-> rot[r].recs[k], key |-> rot[r].new]]
          /\ rot' = [rot EXCEPT ![r].cur = k]
    BY <1>7 DEF Update
  <2>3. k \in Docs BY <2>1, <2>2 DEF RotRecord
  <2>4. [num |-> rot[r].recs[k], key |-> rot[r].new] \in RowRecord
    BY <2>1, <2>3 DEF RotRecord, RowRecord
  <2>5. row' \in [Docs -> RowRecord] BY <2>2, <2>4 DEF Shape
  <2>6. rot' \in [Rotators -> RotRecord] BY <2>1, <2>2, <2>3 DEF Shape, RotRecord
  <2>7. pc' \in [Rotators \cup Clients -> Labels]
    BY <1>7 DEF Update, Goto, Shape, Labels
  <2> QED BY <1>7, <2>5, <2>6, <2>7 DEF Update, Shape
<1>8. ASSUME NEW r \in Rotators, Index(r) PROVE Shape'
  <2>1. rot[r] \in RotRecord BY DEF Shape
  <2>2. idx' \in [Docs -> Nat]
    BY <1>8, <2>1 DEF Index, IndexWith, Shape, RotRecord
  <2>3. rot' \in [Rotators -> RotRecord]
    BY <1>8, <2>1 DEF Index, IndexWith, Shape, RotRecord
  <2>4. pc' \in [Rotators \cup Clients -> Labels]
    BY <1>8 DEF Index, IndexWith, Goto, Shape, Labels
  <2> QED BY <1>8, <2>2, <2>3, <2>4 DEF Index, IndexWith, Shape
<1>9. ASSUME NEW r \in Rotators, SetKey(r) \/ SaveFile(r) PROVE Shape'
  <2>1. rot[r] \in RotRecord BY DEF Shape
  <2>2. active' \in Nat /\ file' \in Nat
    BY <1>9, <2>1 DEF SetKey, SaveFile, Shape, RotRecord
  <2>3. rot' \in [Rotators -> RotRecord]
    BY <1>9, Blank DEF SetKey, SaveFile, Shape
  <2>4. pc' \in [Rotators \cup Clients -> Labels]
    BY <1>9 DEF SetKey, SaveFile, Goto, Shape, Labels
  <2> QED BY <1>9, <2>2, <2>3, <2>4 DEF SetKey, SaveFile, Shape
<1>10. ASSUME NEW r \in Rotators, Fail(r) PROVE Shape'
  <2>1. rot' \in [Rotators -> RotRecord] BY <1>10, Blank DEF Fail, Raise, Shape
  <2>2. pc' \in [Rotators \cup Clients -> Labels]
    BY <1>10 DEF Fail, Raise, Goto, Shape, Labels
  <2> QED BY <1>10, <2>1, <2>2 DEF Fail, Raise, Shape
<1>11. CASE Stop \/ Age \/ UNCHANGED vars
  <2>1. CASE Stop
    <3>1. stops' \in Nat BY <2>1 DEF Stop, Shape
    <3>2. handle \in SUBSET Rotators BY DEF Shape
    <3>3. joining' = [joining EXCEPT ![stops + 1] = handle] BY <2>1 DEF Stop
    <3>4. joining' \in [1..MaxStops -> SUBSET Rotators] BY <3>2, <3>3 DEF Shape
    <3> QED BY <2>1, <3>1, <3>4 DEF Stop, Shape
  <2>2. CASE Age \/ UNCHANGED vars
    BY <2>2 DEF Age, vars, Shape
  <2> QED BY <1>11, <2>1, <2>2
<1>12. CASE Crash
  <2>1. pc' \in [Rotators \cup Clients -> Labels] BY <1>12 DEF Crash, Labels
  <2>2. rot' \in [Rotators -> RotRecord] /\ loc' \in [Clients -> CallRecord]
    BY <1>12, Blank DEF Crash
  <2>3. mixed' \subseteq Docs BY <1>12 DEF Crash, Shape, CallRecord
  <2> QED BY <1>12, <2>1, <2>2, <2>3 DEF Crash, Shape
<1>13. ASSUME NEW s \in 1..MaxStops, Joined(s) PROVE Shape'
  BY <1>13 DEF Joined, Shape
<1> QED
  BY <1>1, <1>2, <1>3, <1>4, <1>5, <1>6, <1>7, <1>8, <1>9, <1>10, <1>11, <1>12, <1>13
  DEF Next, ClientStep, RotationStep, Finished

\* Rows, keys, threads and their locals keep their shape in every reachable
\* state (key_rotation.py, database.py).
THEOREM Shaped == Spec => []Shape
<1> QED BY ShapeInit, ShapeNext, PTL DEF Spec

-----------------------------------------------------------------------------
(* At most one rotator thread, unless a join timed out or calls overlapped. *)

\* Of start and stop one call runs at a time: a start has seen no thread, and
\* a stop joins the thread that the rotator remembers.
OneCall ==
  /\ \A r \in Rotators : pc[r] = "starting"
       => /\ handle = {} /\ \A q \in Rotators : pc[q] = "starting" => q = r
          /\ \A s \in 1..MaxStops : joining[s] = {}
  /\ \A s \in 1..MaxStops : joining[s] # {}
       => /\ handle = joining[s]
          /\ \A u \in 1..MaxStops : joining[u] # {} => u = s

\* A thread that lives is the one the rotator remembers.
OneAlive == \A r \in Rotators : Alive(r) => handle = {r}
Remembered == timedOut \/ crossed \/ (OneCall /\ OneAlive)

\* No thread lives at the start.
LEMMA RememberedInit == Init => Remembered
  BY KeyRotationAssumption DEF Init, Remembered, OneCall, OneAlive, Alive

\* What has happened stays recorded.
LEMMA HistoryGrows ==
  [Next]_vars => (timedOut => timedOut') /\ (crossed => crossed')
<1> DEFINE Grows == (timedOut => timedOut') /\ (crossed => crossed')
<1> SUFFICES ASSUME [Next]_vars PROVE Grows OBVIOUS
<1> USE DEF data, control, bounds, history
<1>1. ASSUME NEW c \in Clients, ClientStep(c) \/ \E k \in Docs : Encrypt(c, k)
      PROVE  Grows
  BY <1>1 DEF ClientStep, Encrypt, UpsertRow, WriteIndex
<1>2. ASSUME NEW r \in Rotators,
             RotationStep(r) \/ Launch(r) \/ LoopEnds(r) \/ Fail(r)
      PROVE  Grows
  BY <1>2 DEF RotationStep, CheckAndRotate, Select, Update, Index, IndexWith, SetKey,
              SaveFile, Launch, LoopEnds, Fail, Raise
<1>3. ASSUME NEW s \in 1..MaxStops, Joined(s) PROVE Grows
  BY <1>3 DEF Joined
<1>4. ASSUME NEW r \in Rotators, Start(r) PROVE Grows
  BY <1>4, Zenon DEF Start, CheckThread
<1>5. CASE Stop BY <1>5, Zenon DEF Stop
<1>6. CASE Age \/ Crash \/ UNCHANGED vars
  BY <1>6 DEF Age, Crash, vars
<1> HIDE DEF Grows
<1> QED BY <1>1, <1>2, <1>3, <1>4, <1>5, <1>6 DEF Next, Finished

\* start only creates a thread when the remembered one is dead, and stop
\* forgets it only after it ended, the join timed out or calls overlapped.
LEMMA RememberedNext == Shape /\ Remembered /\ [Next]_vars => Remembered'
<1> SUFFICES ASSUME Shape, Remembered, [Next]_vars, ~timedOut', ~crossed'
             PROVE  OneCall' /\ OneAlive'
  BY DEF Remembered
<1> USE DEF data, control, bounds, history
<1>t. ~timedOut /\ ~crossed BY HistoryGrows
<1>r. OneCall /\ OneAlive BY <1>t DEF Remembered
<1>s. /\ pc \in [Rotators \cup Clients -> Labels] /\ stops \in Nat
      /\ joining \in [1..MaxStops -> SUBSET Rotators] /\ handle \subseteq Rotators
  BY DEF Shape
\* A step that begins no thread and no call.
<1>u. ASSUME UNCHANGED <<handle, joining>>,
             \A r \in Rotators : /\ Alive(r)' => Alive(r)
                                 /\ pc'[r] = "starting" => pc[r] = "starting"
      PROVE  OneCall' /\ OneAlive'
  BY <1>r, <1>u DEF OneCall, OneAlive
<1>1. ASSUME NEW c \in Clients, ClientStep(c) \/ \E k \in Docs : Encrypt(c, k)
      PROVE  OneCall' /\ OneAlive'
  <2>1. (\A r \in Rotators : pc'[r] = pc[r]) /\ UNCHANGED <<handle, joining>>
    BY <1>1, <1>s, KeyRotationAssumption
    DEF ClientStep, Encrypt, UpsertRow, WriteIndex, Goto
  <2> QED BY <1>u, <2>1 DEF Alive
<1>2. ASSUME NEW q \in Rotators, RotationStep(q) \/ LoopEnds(q) \/ Fail(q)
      PROVE  OneCall' /\ OneAlive'
  <2>1. UNCHANGED <<handle, joining>>
    BY <1>2 DEF RotationStep, LoopEnds, CheckAndRotate, Select, Update, Index, IndexWith,
                SetKey, SaveFile, Fail, Raise
  <2>2. /\ pc[q] \notin {"none", "starting", "exited"} /\ pc'[q] # "starting"
        /\ \A p \in Rotators \ {q} : pc'[p] = pc[p]
    BY <1>2, <1>s DEF RotationStep, LoopEnds, CheckAndRotate, Select, Update, Index, IndexWith,
                SetKey, SaveFile, Fail, Raise, Goto
  <2> QED BY <1>u, <2>1, <2>2 DEF Alive
<1>3. ASSUME NEW q \in Rotators, Start(q) PROVE OneCall' /\ OneAlive'
  <2>1. /\ handle = {} /\ UNCHANGED <<handle, joining>> /\ ~Calling
        /\ \A p \in Rotators : pc'[p] = IF p = q THEN "starting" ELSE pc[p]
    BY <1>3, <1>s DEF Start, CheckThread, Goto
  <2>2. /\ \A p \in Rotators : pc[p] # "starting"
        /\ \A s \in 1..MaxStops : joining[s] = {}
    BY <2>1 DEF Calling
  <2>3. OneAlive' BY <1>r, <2>1 DEF OneAlive, Alive
  <2> QED BY <2>1, <2>2, <2>3 DEF OneCall
<1>4. ASSUME NEW q \in Rotators, Launch(q) PROVE OneCall' /\ OneAlive'
  <2>1. /\ pc[q] = "starting" /\ handle' = {q} /\ UNCHANGED joining
        /\ \A p \in Rotators : pc'[p] = IF p = q THEN "check" ELSE pc[p]
    BY <1>4, <1>s DEF Launch, Goto
  <2>2. /\ handle = {} /\ \A s \in 1..MaxStops : joining[s] = {}
        /\ \A p \in Rotators : pc[p] = "starting" => p = q
    BY <1>r, <2>1 DEF OneCall
  <2>3. \A p \in Rotators : ~Alive(p) BY <1>r, <2>2 DEF OneAlive
  <2> QED BY <2>1, <2>2, <2>3 DEF OneCall, OneAlive, Alive
<1>5. CASE Stop
  <2>1. /\ handle # {} /\ UNCHANGED <<handle, pc>> /\ ~Calling
        /\ \A s \in 1..MaxStops : joining'[s] = IF s = stops + 1 THEN handle ELSE joining[s]
    BY <1>5, <1>s DEF Stop
  <2>2. /\ \A p \in Rotators : pc[p] # "starting"
        /\ \A s \in 1..MaxStops : joining[s] = {}
    BY <2>1 DEF Calling
  <2>3. OneAlive' BY <1>r, <2>1 DEF OneAlive, Alive
  <2> QED BY <2>1, <2>2, <2>3 DEF OneCall
<1>6. ASSUME NEW s \in 1..MaxStops, Joined(s) PROVE OneCall' /\ OneAlive'
  <2>1. /\ joining[s] # {} /\ handle' = {} /\ UNCHANGED pc
        /\ \A r \in joining[s] : ~Alive(r)
        /\ \A u \in 1..MaxStops : joining'[u] = IF u = s THEN {} ELSE joining[u]
    BY <1>6, <1>s DEF Joined
  <2>2. /\ handle = joining[s]
        /\ \A u \in 1..MaxStops : joining[u] # {} => u = s
        /\ \A p \in Rotators : pc[p] # "starting"
    BY <1>r, <2>1 DEF OneCall
  <2>3. \A p \in Rotators : ~Alive(p) BY <1>r, <2>1, <2>2 DEF OneAlive
  <2> QED BY <2>1, <2>2, <2>3 DEF OneCall, OneAlive, Alive
<1>7. CASE Age \/ UNCHANGED vars
  BY <1>7, <1>u DEF Age, vars, Alive
<1>8. CASE Crash
  <2>1. /\ \A r \in Rotators : pc'[r] = "none"
        /\ \A s \in 1..MaxStops : joining'[s] = {}
    BY <1>8, KeyRotationAssumption DEF Crash
  <2> QED BY <2>1 DEF OneCall, OneAlive, Alive
<1> QED
  BY <1>1, <1>2, <1>3, <1>4, <1>5, <1>6, <1>7, <1>8 DEF Next, Finished

\* start, stop and restart as they may, with any number of callers, two
\* threads of one rotator only ever run at once after a stop that gave up
\* waiting or after calls that overlapped (key_rotation.py:16-32).
THEOREM AtMostOneRotator == Spec => []OneRotator
<1>1. Remembered => OneRotator
  <2> SUFFICES ASSUME Remembered, ~timedOut, ~crossed
           PROVE  ~(Cardinality({r \in Rotators : Alive(r)}) > 1)
    BY DEF OneRotator
  <2> DEFINE alive == {r \in Rotators : Alive(r)}
  <2>1. CASE alive = {} BY <2>1, FS_EmptySet
  <2>2. ASSUME NEW r \in alive PROVE Cardinality(alive) = 1
    <3>1. alive = {r} BY <2>2 DEF Remembered, OneAlive
    <3> QED BY <3>1, FS_Singleton
  <2> QED BY <2>1, <2>2
<1> QED BY <1>1, ShapeInit, ShapeNext, RememberedInit, RememberedNext, PTL DEF Spec

-----------------------------------------------------------------------------
(* A rotation puts no older document back.                                 *)

\* A rotation that has read its rows still has the stored documents.
Fresh(r) == pc[r] \in {"update", "index"}
              => \A k \in rot[r].todo \ mixed : rot[r].recs[k] = row[k].num

\* Whatever a client is writing while a rotation runs is counted as mixed.
Apart == (\E r \in Rotators : Rotating(r))
           => \A c \in Clients : pc[c] # "idle" => loc[c].doc \in mixed

DInv == /\ Shape
        /\ DocsSurvive
        /\ \A r \in Rotators : Fresh(r)
        /\ Apart

\* Nothing is stored at the start.
LEMMA DInvInit == Init => DInv
<1> SUFFICES ASSUME Init PROVE DInv OBVIOUS
<1>1. Shape BY ShapeInit
<1>2. DocsSurvive BY DEF Init, DocsSurvive
<1>3. \A r \in Rotators : pc[r] = "none" BY KeyRotationAssumption DEF Init
<1> QED BY <1>1, <1>2, <1>3 DEF DInv, Fresh, Apart, Rotating

\* A client's write stores its newest document, and marks the key as written
\* beside any rotation in progress.
LEMMA ClientKeepsDocs ==
  ASSUME DInv, NEW c \in Clients, UpsertRow(c)
  PROVE  DocsSurvive' /\ Apart' /\ \A r \in Rotators : Fresh(r)'
<1> DEFINE k == loc[c].doc
<1>1. /\ k \in Docs /\ pc[c] = "upsert"
      /\ row' = [row EXCEPT ![k] = [num |-> loc[c].num, key |-> loc[c].key]]
      /\ latest' = [latest EXCEPT ![k] = loc[c].num]
      /\ UNCHANGED <<mixed, rot, loc>>
      /\ pc' = [pc EXCEPT ![c] = "writeIndex"]
  BY DEF UpsertRow, DInv, Shape, CallRecord, Goto
<1>2. \A r \in Rotators : pc'[r] = pc[r]
  BY <1>1, KeyRotationAssumption DEF DInv, Shape
<1>3. DocsSurvive'
  BY <1>1 DEF DocsSurvive, DInv, Shape
<1>4. Apart'
  BY <1>1, <1>2 DEF Apart, DInv, Shape, Rotating
<1>5. ASSUME NEW r \in Rotators PROVE Fresh(r)'
  <2>1. Rotating(r) => k \in mixed BY <1>1 DEF DInv, Apart
  <2>2. \A j \in Docs \ {k} : row'[j] = row[j] BY <1>1 DEF DInv, Shape
  <2>3. rot[r].todo \subseteq Docs BY DEF DInv, Shape, RotRecord
  <2> QED BY <1>1, <1>2, <2>1, <2>2, <2>3 DEF DInv, Fresh, Rotating
<1> QED BY <1>3, <1>4, <1>5

\* The UPDATE of a rotation writes back what its SELECT read, which is still
\* the newest document unless a client wrote beside it.
LEMMA UpdateKeepsDocs ==
  ASSUME DInv, NEW q \in Rotators, Update(q)
  PROVE  DocsSurvive' /\ Apart' /\ \A r \in Rotators : Fresh(r)'
<1>1. PICK k \in rot[q].todo :
        /\ row' = [row EXCEPT ![k] = [num |-> rot[q].recs[k], key |-> rot[q].new]]
        /\ rot' = [rot EXCEPT ![q].cur = k]
  BY DEF Update
<1>2. /\ k \in Docs /\ pc[q] = "update"
      /\ UNCHANGED <<latest, mixed, loc>>
      /\ pc' = [pc EXCEPT ![q] = "index"]
  BY DEF Update, DInv, Shape, RotRecord, Goto, history
<1>3. \A j \in Docs \ mixed : row'[j].num = row[j].num
  <2>1. k \notin mixed => rot[q].recs[k] = row[k].num BY <1>2 DEF DInv, Fresh
  <2>2. row'[k].num = rot[q].recs[k] /\ \A j \in Docs \ {k} : row'[j] = row[j]
    BY <1>1, <1>2 DEF DInv, Shape
  <2> QED BY <2>1, <2>2
<1>4. \A r \in Rotators : /\ rot'[r].todo = rot[r].todo /\ rot'[r].recs = rot[r].recs
                          /\ rot[r].todo \subseteq Docs
  BY <1>1 DEF DInv, Shape, RotRecord
<1>5. /\ \A r \in Rotators : /\ Rotating(r)' = Rotating(r)
                             /\ (pc[r] \in {"update", "index"})' = (pc[r] \in {"update", "index"})
      /\ \A c \in Clients : pc'[c] = pc[c]
  BY <1>2, KeyRotationAssumption DEF DInv, Shape, Rotating
<1>6. DocsSurvive' BY <1>2, <1>3 DEF DInv, DocsSurvive
<1>7. Apart' BY <1>2, <1>5 DEF DInv, Apart
<1>8. ASSUME NEW r \in Rotators PROVE Fresh(r)'
  BY <1>2, <1>3, <1>4, <1>5 DEF DInv, Fresh
<1> QED BY <1>6, <1>7, <1>8

\* Steps that leave the rows alone and take up no new record.
LEMMA CalmKeepsDocs ==
  ASSUME DInv, UNCHANGED <<row, latest>>, mixed \subseteq mixed',
         \A r \in Rotators : pc'[r] \in {"update", "index"}
           => /\ pc[r] \in {"update", "index"}
              /\ rot'[r].recs = rot[r].recs /\ rot'[r].todo \subseteq rot[r].todo
  PROVE  DocsSurvive' /\ \A r \in Rotators : Fresh(r)'
<1>1. DocsSurvive' BY DEF DInv, DocsSurvive
<1>2. ASSUME NEW r \in Rotators PROVE Fresh(r)' BY DEF DInv, Fresh
<1> QED BY <1>1, <1>2

\* Steps that start neither a rotation nor a write.
LEMMA ApartStays ==
  ASSUME DInv, mixed \subseteq mixed',
         \A r \in Rotators : Rotating(r)' => \E q \in Rotators : Rotating(q),
         \A c \in Clients : pc'[c] # "idle" => pc[c] # "idle" /\ loc'[c] = loc[c]
  PROVE  Apart'
  BY DEF DInv, Apart

\* Every action keeps DInv.
LEMMA DInvNext == DInv /\ [Next]_vars => DInv'
<1> SUFFICES ASSUME DInv, [Next]_vars
             PROVE  DocsSurvive' /\ Apart' /\ \A r \in Rotators : Fresh(r)'
  BY ShapeNext DEF DInv
<1> USE DEF data, control, bounds, history
<1>s. /\ pc \in [Rotators \cup Clients -> Labels]
      /\ rot \in [Rotators -> RotRecord] /\ loc \in [Clients -> CallRecord]
  BY DEF DInv, Shape
<1>1. ASSUME NEW c \in Clients, NEW k \in Docs, Encrypt(c, k)
      PROVE  DocsSurvive' /\ Apart' /\ \A r \in Rotators : Fresh(r)'
  <2>1. /\ UNCHANGED <<row, latest, rot>> /\ mixed \subseteq mixed'
        /\ \A r \in Rotators : pc'[r] = pc[r]
    BY <1>1, <1>s, KeyRotationAssumption DEF Encrypt, Goto
  <2>2. /\ loc'[c].doc = k
        /\ \A b \in Clients \ {c} : pc'[b] = pc[b] /\ loc'[b] = loc[b]
    BY <1>1, <1>s DEF Encrypt, Goto
  <2>3. (\E r \in Rotators : Rotating(r)) => k \in mixed'
    BY <1>1 DEF Encrypt, Beside
  <2>4. Apart' BY <2>1, <2>2, <2>3 DEF DInv, Apart, Rotating
  <2> QED BY <2>1, <2>4, CalmKeepsDocs
<1>2. ASSUME NEW c \in Clients, WriteIndex(c)
      PROVE  DocsSurvive' /\ Apart' /\ \A r \in Rotators : Fresh(r)'
  <2>1. /\ UNCHANGED <<row, latest, rot, mixed>>
        /\ \A r \in Rotators : pc'[r] = pc[r]
    BY <1>2, <1>s, KeyRotationAssumption DEF WriteIndex, Goto
  <2>2. /\ pc'[c] = "idle"
        /\ \A b \in Clients \ {c} : pc'[b] = pc[b] /\ loc'[b] = loc[b]
    BY <1>2, <1>s DEF WriteIndex, Goto
  <2>3. Apart' BY <2>1, <2>2, ApartStays DEF Rotating
  <2> QED BY <2>1, <2>3, CalmKeepsDocs
<1>3. ASSUME NEW r \in Rotators, CheckAndRotate(r)
      PROVE  DocsSurvive' /\ Apart' /\ \A q \in Rotators : Fresh(q)'
  <2>1. /\ UNCHANGED <<row, latest, loc>> /\ mixed \subseteq mixed'
        /\ pc'[r] = "select"
        /\ \A q \in Rotators \ {r} : pc'[q] = pc[q] /\ rot'[q] = rot[q]
        /\ \A c \in Clients : pc'[c] = pc[c]
        /\ \A c \in Clients : pc[c] # "idle" => loc[c].doc \in mixed'
    BY <1>3, <1>s, KeyRotationAssumption DEF CheckAndRotate, Goto
  <2>2. Apart' BY <2>1 DEF Apart
  <2> QED BY <2>1, <2>2, CalmKeepsDocs
<1>4. ASSUME NEW r \in Rotators, Select(r)
      PROVE  DocsSurvive' /\ Apart' /\ \A q \in Rotators : Fresh(q)'
  <2> DEFINE K == {k \in Present : row[k].key = rot[r].old}
  <2>1. /\ UNCHANGED <<row, latest, mixed, loc>> /\ pc[r] = "select"
        /\ \A q \in Rotators \ {r} : pc'[q] = pc[q] /\ rot'[q] = rot[q]
        /\ \A c \in Clients : pc'[c] = pc[c]
    BY <1>4, <1>s, KeyRotationAssumption DEF Select, Goto
  <2>2. /\ rot'[r].todo = K
        /\ rot'[r].recs = [k \in Docs |-> IF k \in K THEN row[k].num ELSE 0]
    BY <1>4, <1>s DEF Select, RotRecord
  <2>3. Fresh(r)' BY <2>1, <2>2 DEF Fresh, Present
  <2>4. ASSUME NEW q \in Rotators, q # r PROVE Fresh(q)'
    BY <2>1, <2>4 DEF DInv, Fresh
  <2>5. DocsSurvive' BY <2>1 DEF DInv, DocsSurvive
  <2>6. Apart'
    BY <2>1, ApartStays DEF Rotating
  <2> QED BY <2>3, <2>4, <2>5, <2>6
<1>5. ASSUME NEW r \in Rotators, Index(r)
      PROVE  DocsSurvive' /\ Apart' /\ \A q \in Rotators : Fresh(q)'
  <2>1. /\ UNCHANGED <<row, latest, mixed, loc>> /\ pc[r] = "index"
        /\ \A q \in Rotators \ {r} : pc'[q] = pc[q] /\ rot'[q] = rot[q]
        /\ \A c \in Clients : pc'[c] = pc[c]
        /\ rot'[r].recs = rot[r].recs /\ rot'[r].todo \subseteq rot[r].todo
    BY <1>5, <1>s, KeyRotationAssumption DEF Index, IndexWith, Goto, RotRecord
  <2>2. Apart' BY <2>1, ApartStays DEF Rotating
  <2> QED BY <2>1, <2>2, CalmKeepsDocs
<1>6. ASSUME NEW r \in Rotators,
             Start(r) \/ Launch(r) \/ LoopEnds(r) \/ SetKey(r) \/ SaveFile(r) \/ Fail(r)
      PROVE  DocsSurvive' /\ Apart' /\ \A q \in Rotators : Fresh(q)'
  <2>1. /\ UNCHANGED <<row, latest, mixed, loc>>
        /\ \A q \in Rotators \ {r} : pc'[q] = pc[q] /\ rot'[q] = rot[q]
        /\ \A c \in Clients : pc'[c] = pc[c]
    BY <1>6, <1>s, KeyRotationAssumption
    DEF Start, CheckThread, Launch, LoopEnds, SetKey, SaveFile, Fail, Raise, Goto
  <2>2. /\ pc'[r] \notin {"update", "index"}
        /\ Rotating(r)' => Rotating(r)
    BY <1>6, <1>s
    DEF Start, CheckThread, Launch, LoopEnds, SetKey, SaveFile, Fail, Raise, Goto, Rotating
  <2>3. Apart' BY <2>1, <2>2, ApartStays DEF Rotating
  <2> QED BY <2>1, <2>2, <2>3, CalmKeepsDocs
<1>7. CASE Stop \/ (\E s \in 1..MaxStops : Joined(s)) \/ Age \/ UNCHANGED vars
  <2>1. UNCHANGED <<row, latest, mixed, loc, pc, rot>>
    BY <1>7 DEF Stop, Joined, Age, vars
  <2>2. Apart' BY <2>1, ApartStays DEF Rotating
  <2> QED BY <2>1, <2>2, CalmKeepsDocs
<1>8. CASE Crash
  <2>1. /\ UNCHANGED <<row, latest>> /\ mixed \subseteq mixed'
        /\ \A r \in Rotators : pc'[r] = "none"
    BY <1>8, KeyRotationAssumption DEF Crash
  <2>2. Apart' BY <2>1 DEF Apart, Rotating
  <2> QED BY <2>1, <2>2, CalmKeepsDocs
<1> QED
  BY <1>1, <1>2, <1>3, <1>4, <1>5, <1>6, <1>7, <1>8, ClientKeepsDocs, UpdateKeepsDocs
  DEF Next, ClientStep, RotationStep, Finished

\* A rotation, complete, failed or killed at any statement, and any number of
\* them at once, never replaces a document by an older one, except one that a
\* client wrote while a rotation ran (rotate_encryption_key).
THEOREM DocumentsSurvive == Spec => []DocsSurvive
<1>1. DInv => DocsSurvive BY DEF DInv
<1> QED BY <1>1, DInvInit, DInvNext, PTL DEF Spec

-----------------------------------------------------------------------------
(* Between rotations every document is under the key in the file.          *)

Settled == Present \ mixed
Unindexed(k) == \E c \in Clients : pc[c] = "writeIndex" /\ loc[c].doc = k
Under(k, key) == row[k].key = key /\ idx[k] = key

\* No rotation runs: one key everywhere, in writes in progress too.
Quiet == /\ active = file
         /\ \A c \in Clients : pc[c] = "upsert" /\ loc[c].doc \notin mixed
                                 => loc[c].key = file
         /\ \A k \in Settled : /\ row[k].key = file
                               /\ idx[k] # file => Unindexed(k)

\* How far a rotation is: the documents still to do are under the old key, the
\* one at hand has its row under the new one, the others are done.
Underway(r) ==
  /\ rot[r].old = file
  /\ active = IF pc[r] = "saveFile" THEN rot[r].new ELSE file
  /\ \A k \in Settled :
       /\ pc[r] = "select" => Under(k, file)
       /\ pc[r] \in {"update", "index"} => rot[r].recs[k] # 0
       /\ pc[r] = "update" /\ k \in rot[r].todo => Under(k, file)
       /\ pc[r] = "update" /\ k \notin rot[r].todo => Under(k, rot[r].new)
       /\ pc[r] = "index" /\ k = rot[r].cur => row[k].key = rot[r].new
       /\ pc[r] = "index" /\ k \in rot[r].todo \ {rot[r].cur} => Under(k, file)
       /\ pc[r] = "index" /\ k \notin rot[r].todo \cup {rot[r].cur}
            => Under(k, rot[r].new)
       /\ pc[r] \in {"setKey", "saveFile"} => Under(k, rot[r].new)

Alone == \A q, r \in Rotators : Rotating(q) /\ Rotating(r) => q = r
Keyed == /\ Alone
         /\ ~Beside => Quiet
         /\ \A r \in Rotators : Rotating(r) => Underway(r)
KInv == DInv /\ (~broken => Keyed)

\* Nothing is stored at the start, and one key exists.
LEMMA KInvInit == Init => KInv
<1> SUFFICES ASSUME Init PROVE KInv OBVIOUS
<1>1. \A r \in Rotators : ~Rotating(r)
  BY KeyRotationAssumption DEF Init, Rotating
<1>2. Quiet
  <2>1. \A c \in Clients : pc[c] = "idle" BY DEF Init
  <2>2. \A k \in Docs : row[k].num # 0 => row[k].key = 1 /\ idx[k] = 1
    BY DEF Init, Absent
  <2> QED BY <2>1, <2>2 DEF Init, Quiet, Settled, Present
<1> QED BY <1>1, <1>2, DInvInit DEF KInv, Keyed, Alone

\* Under a rotation a client only touches documents that count as mixed;
\* otherwise it uses the one key there is.
LEMMA ClientKeyed ==
  ASSUME DInv, Keyed, NEW c \in Clients, ClientStep(c) \/ \E k \in Docs : Encrypt(c, k)
  PROVE  Keyed'
<1> DEFINE k == loc[c].doc
<1> USE DEF data, control, bounds, history
<1>s. /\ pc \in [Rotators \cup Clients -> Labels] /\ k \in Docs
      /\ row \in [Docs -> RowRecord] /\ idx \in [Docs -> Nat]
      /\ loc \in [Clients -> CallRecord]
  BY DEF DInv, Shape, CallRecord
<1>1. /\ UNCHANGED <<rot, file, active>> /\ mixed \subseteq mixed'
      /\ \A r \in Rotators : pc'[r] = pc[r]
      /\ \A b \in Clients \ {c} : pc'[b] = pc[b] /\ loc'[b] = loc[b]
  BY <1>s, KeyRotationAssumption
  DEF ClientStep, Encrypt, UpsertRow, WriteIndex, Goto
<1>2. /\ \A r \in Rotators : Rotating(r)' <=> Rotating(r)
      /\ Beside' <=> Beside
  BY <1>1 DEF Rotating, Beside
<1>3. CASE Beside
  <2>1. pc[c] # "idle" => k \in mixed BY <1>3 DEF DInv, Apart, Beside
  <2>2. \A j \in Docs \ mixed : row'[j] = row[j] /\ idx'[j] = idx[j]
    BY <1>s, <2>1 DEF ClientStep, Encrypt, UpsertRow, WriteIndex
  <2>3. Settled' \subseteq Settled BY <1>1, <2>2 DEF Settled, Present
  <2>4. \A j \in Settled' : /\ j \in Settled
                            /\ \A key : Under(j, key)' <=> Under(j, key)
                            /\ row'[j] = row[j]
    BY <2>2, <2>3 DEF Under, Settled, Present
  <2>5. ASSUME NEW r \in Rotators, Rotating(r)' PROVE Underway(r)'
    <3>1. Underway(r) BY <1>2, <2>5 DEF Keyed
    <3> QED BY <1>1, <2>4, <3>1 DEF Underway
  <2> QED BY <1>2, <1>3, <2>5 DEF Keyed, Alone
<1>4. CASE ~Beside
  <2>q. Quiet BY <1>4 DEF Keyed
  <2>1. ASSUME NEW j \in Docs, Encrypt(c, j) PROVE Quiet'
    <3>1. /\ UNCHANGED <<row, idx, mixed>> /\ pc[c] = "idle"
          /\ pc'[c] = "upsert" /\ loc'[c].key = active
      BY <1>s, <1>4, <2>1 DEF Encrypt, Goto
    <3>2. Settled' = Settled /\ \A i \in Docs : Unindexed(i) => Unindexed(i)'
      BY <1>1, <3>1 DEF Settled, Present, Unindexed
    <3>3. \A i \in Settled : i \in Docs BY DEF Settled, Present
    <3> QED BY <1>1, <2>q, <3>1, <3>2, <3>3 DEF Quiet
  <2>2. ASSUME UpsertRow(c) PROVE Quiet'
    <3>1. /\ UNCHANGED <<idx, mixed, loc>> /\ pc[c] = "upsert" /\ pc'[c] = "writeIndex"
          /\ row'[k].key = loc[c].key
          /\ \A j \in Docs \ {k} : row'[j] = row[j]
      BY <1>s, <2>2 DEF UpsertRow, Goto
    <3>2. \A j \in Docs : Unindexed(j) \/ j = k => Unindexed(j)'
      BY <1>1, <3>1 DEF Unindexed
    <3>3. \A j \in Settled' : j \in Docs /\ j \notin mixed /\ (j # k => j \in Settled)
      BY <3>1 DEF Settled, Present
    <3>4. \A b \in Clients : pc'[b] = "upsert" => pc[b] = "upsert"
      BY <1>1, <3>1
    <3> QED BY <1>1, <2>q, <3>1, <3>2, <3>3, <3>4 DEF Quiet
  <2>3. ASSUME WriteIndex(c) PROVE Quiet'
    <3>1. /\ UNCHANGED <<row, mixed>> /\ pc[c] = "writeIndex" /\ pc'[c] = "idle"
          /\ idx'[k] = active
          /\ \A j \in Docs \ {k} : idx'[j] = idx[j]
      BY <1>s, <2>3 DEF WriteIndex, Goto
    <3>2. \A j \in Docs \ {k} : Unindexed(j) => Unindexed(j)'
      BY <1>1, <3>1 DEF Unindexed
    <3>3. Settled' = Settled /\ Settled \subseteq Docs
      BY <3>1 DEF Settled, Present
    <3> QED BY <1>1, <2>q, <3>1, <3>2, <3>3 DEF Quiet
  <2>4. Quiet' BY <2>1, <2>2, <2>3 DEF ClientStep
  <2> QED BY <1>2, <1>4, <2>4 DEF Keyed, Alone, Beside
<1> QED BY <1>3, <1>4

\* A rotation that starts while none runs finds every document that is not
\* being written under the key in the file.
LEMMA BeginKeyed ==
  ASSUME DInv, Keyed, NEW r \in Rotators, CheckAndRotate(r), ~broken'
  PROVE  Keyed'
<1> USE DEF data, control, bounds, history
<1>1. ~Beside BY DEF CheckAndRotate
<1>2. Quiet BY <1>1 DEF Keyed
<1>3. /\ UNCHANGED <<row, idx, active, file, loc>> /\ mixed \subseteq mixed'
      /\ pc'[r] = "select" /\ rot'[r].old = file
      /\ \A q \in Rotators \ {r} : pc'[q] = pc[q]
      /\ \A c \in Clients : pc[c] # "idle" => loc[c].doc \in mixed'
  BY KeyRotationAssumption DEF CheckAndRotate, Goto, DInv, Shape, NoRot
<1>4. \A q \in Rotators : Rotating(q)' => q = r
  BY <1>1, <1>3 DEF Beside, Rotating
<1>5. \A k \in Settled' : k \in Settled /\ ~Unindexed(k)
  BY <1>3 DEF Settled, Present, Unindexed
<1>6. \A k \in Settled' : Under(k, file)' BY <1>2, <1>3, <1>5 DEF Quiet, Under
<1>7. Underway(r)' BY <1>2, <1>3, <1>6 DEF Underway, Quiet
<1>8. Beside' BY <1>3 DEF Beside, Rotating
<1> QED BY <1>4, <1>7, <1>8 DEF Keyed, Alone

\* While a thread rotates alone, the others do not begin.
LEMMA StayAlone ==
  ASSUME Alone, NEW r \in Rotators, Rotating(r),
         \A q \in Rotators \ {r} : pc'[q] = pc[q]
  PROVE  \A q \in Rotators : Rotating(q)' => q = r
BY DEF Alone, Rotating

\* Select, Update, Index and SetKey bring the rotation one statement further.
LEMMA AdvanceKeyed ==
  ASSUME DInv, Keyed, NEW r \in Rotators,
         Select(r) \/ Update(r) \/ Index(r) \/ SetKey(r)
  PROVE  Keyed'
<1> USE DEF data, control, bounds, history
<1>s. /\ pc \in [Rotators \cup Clients -> Labels] /\ rot \in [Rotators -> RotRecord]
      /\ rot[r] \in RotRecord
      /\ row \in [Docs -> RowRecord] /\ idx \in [Docs -> Nat]
  BY DEF DInv, Shape
<1>1. Rotating(r) BY DEF Select, Update, Index, IndexWith, SetKey, Rotating
<1>2. Underway(r) BY <1>1 DEF Keyed
<1>3. /\ UNCHANGED <<file, loc, mixed>>
      /\ \A q \in Rotators \ {r} : pc'[q] = pc[q]
      /\ rot'[r].new = rot[r].new /\ rot'[r].old = rot[r].old
  BY <1>s DEF Select, Update, Index, IndexWith, SetKey, Goto, RotRecord
<1>4. Rotating(r)'
  BY <1>s DEF Select, Update, Index, IndexWith, SetKey, Goto, Rotating
<1>5. ASSUME Select(r) PROVE Underway(r)'
  <2> DEFINE K == {k \in Present : row[k].key = rot[r].old}
  <2>1. /\ UNCHANGED <<row, idx, active>> /\ pc[r] = "select"
        /\ pc'[r] = IF K = {} THEN "setKey" ELSE "update"
        /\ rot'[r].todo = K
        /\ rot'[r].recs = [k \in Docs |-> IF k \in K THEN row[k].num ELSE 0]
    BY <1>s, <1>5 DEF Select, Goto, RotRecord
  <2>2. Settled' = Settled BY <1>3, <2>1 DEF Settled, Present
  <2>3. \A k \in Settled : Under(k, file)' /\ k \in K
    BY <1>2, <1>3, <2>1 DEF Underway, Under, Settled
  <2>4. \A k \in Settled : rot'[r].recs[k] # 0
    BY <2>1, <2>3 DEF Present
  <2> HIDE DEF K
  <2> QED BY <1>2, <1>3, <2>1, <2>2, <2>3, <2>4 DEF Underway
<1>6. ASSUME Update(r) PROVE Underway(r)'
  <2>1. PICK k \in rot[r].todo :
          /\ row' = [row EXCEPT ![k] = [num |-> rot[r].recs[k], key |-> rot[r].new]]
          /\ rot' = [rot EXCEPT ![r].cur = k]
    BY <1>6 DEF Update
  <2>2. /\ UNCHANGED <<idx, active>> /\ pc[r] = "update" /\ pc'[r] = "index"
        /\ k \in Docs /\ row'[k].key = rot[r].new
        /\ row'[k].num = rot[r].recs[k]
        /\ \A j \in Docs \ {k} : row'[j] = row[j]
        /\ rot'[r].cur = k /\ rot'[r].todo = rot[r].todo /\ rot'[r].recs = rot[r].recs
    BY <1>s, <1>6, <2>1 DEF Update, Goto, RotRecord
  <2>3. k \notin mixed => rot[r].recs[k] = row[k].num
    BY <2>2 DEF DInv, Fresh
  <2>4. Settled' = Settled BY <1>3, <2>2, <2>3 DEF Settled, Present
  <2>5. \A j \in Settled : /\ j \in Docs
                           /\ j # k => \A key : Under(j, key)' <=> Under(j, key)
    BY <2>2 DEF Settled, Present, Under
  <2> QED BY <1>2, <1>3, <2>2, <2>4, <2>5 DEF Underway
<1>7. ASSUME Index(r) PROVE Underway(r)'
  <2> DEFINE k == rot[r].cur
             rest == rot[r].todo \ {k}
  <2>1. /\ UNCHANGED <<row, active>> /\ pc[r] = "index"
        /\ pc'[r] = IF rest = {} THEN "setKey" ELSE "update"
        /\ k \in Docs /\ idx'[k] = rot[r].new
        /\ \A j \in Docs \ {k} : idx'[j] = idx[j]
        /\ rot'[r].todo = rest /\ rot'[r].recs = rot[r].recs /\ rot'[r].cur = k
    BY <1>s, <1>7 DEF Index, IndexWith, Goto, RotRecord
  <2>2. Settled' = Settled /\ Settled \subseteq Docs
    BY <1>3, <2>1 DEF Settled, Present
  <2>3. \A j \in Settled : j # k => \A key : Under(j, key)' <=> Under(j, key)
    BY <2>1, <2>2 DEF Under
  <2>4. k \in Settled => Under(k, rot[r].new)' BY <1>2, <1>3, <2>1 DEF Underway, Under
  <2>5. \A j \in Settled : IF j \in rest THEN Under(j, file)' ELSE Under(j, rot[r].new)'
    BY <1>2, <1>3, <2>1, <2>3, <2>4 DEF Underway
  <2> HIDE DEF rest
  <2> QED BY <1>2, <1>3, <2>1, <2>2, <2>5 DEF Underway
<1>8. ASSUME SetKey(r) PROVE Underway(r)'
  <2>1. /\ UNCHANGED <<row, idx, rot>> /\ pc[r] = "setKey" /\ pc'[r] = "saveFile"
        /\ active' = rot[r].new
    BY <1>s, <1>8 DEF SetKey, Goto
  <2>2. /\ Settled' = Settled
        /\ \A j \in Settled : \A key : Under(j, key)' <=> Under(j, key)
    BY <1>3, <2>1 DEF Settled, Present, Under
  <2> QED BY <1>2, <1>3, <2>1, <2>2 DEF Underway
<1>9. Underway(r)' BY <1>5, <1>6, <1>7, <1>8
<1>10. \A q \in Rotators : Rotating(q)' => q = r
  BY <1>1, <1>3, StayAlone DEF Keyed
<1> QED BY <1>4, <1>9, <1>10 DEF Keyed, Alone, Beside

\* A rotation that writes its file, or ends before its first row, leaves one
\* key everywhere.
LEMMA EndKeyed ==
  ASSUME DInv, Keyed, NEW r \in Rotators, SaveFile(r) \/ Fail(r), ~broken'
  PROVE  Keyed'
<1> USE DEF data, control, bounds, history
<1>1. Rotating(r) BY DEF SaveFile, Fail, Raise, Rotating
<1>2. Underway(r) BY <1>1 DEF Keyed
<1>3. /\ UNCHANGED <<row, idx, active, loc, mixed>>
      /\ pc'[r] = "check"
      /\ \A q \in (Rotators \cup Clients) \ {r} : pc'[q] = pc[q]
  BY DEF SaveFile, Fail, Raise, Goto, DInv, Shape
<1>4. ~Beside'
  <2>1. \A q \in Rotators : Rotating(q)' => q = r
    BY <1>1, <1>3, StayAlone DEF Keyed
  <2> QED BY <1>3, <2>1 DEF Beside, Rotating
<1>5. \A c \in Clients : pc'[c] = "upsert" => loc'[c].doc \in mixed'
  BY <1>1, <1>3, KeyRotationAssumption DEF DInv, Apart
<1>6. Settled' = Settled BY <1>3 DEF Settled, Present
<1>7. active' = file' /\ \A k \in Settled : row[k].key = file' /\ idx[k] = file'
  <2>1. CASE SaveFile(r)
    BY <1>2, <1>3, <2>1 DEF SaveFile, Underway, Under
  <2>2. CASE Fail(r)
    <3>1. file' = file /\ pc[r] \in {"select", "update"} /\ ~Halfway(r)
      BY <2>2 DEF Fail, Raise, Halfway
    <3>2. \A k \in Settled : Under(k, file)
      BY <1>2, <3>1 DEF Underway, Halfway, Settled, Present
    <3> QED BY <1>2, <1>3, <3>1, <3>2 DEF Underway, Under
  <2> QED BY <2>1, <2>2
<1>8. Quiet' BY <1>3, <1>5, <1>6, <1>7 DEF Quiet
<1> QED BY <1>4, <1>8 DEF Keyed, Alone, Beside

\* A process killed outside a rotation, or before its first row, finds one key
\* everywhere when it starts again.
LEMMA CrashKeyed ==
  ASSUME DInv, Keyed, Crash, ~broken'
  PROVE  Keyed'
<1> USE DEF data, control, bounds, history
<1>1. /\ UNCHANGED <<row, idx, file>> /\ active' = file /\ mixed \subseteq mixed'
      /\ \A r \in Rotators : pc'[r] = "none" /\ ~Halfway(r)
      /\ \A c \in Clients : /\ pc'[c] = "idle"
                            /\ pc[c] # "idle" => loc[c].doc \in mixed'
  BY KeyRotationAssumption DEF Crash
<1>2. ~Beside' BY <1>1 DEF Beside, Rotating
<1>3. \A k \in Settled' : k \in Settled /\ ~Unindexed(k)
  BY <1>1 DEF Settled, Present, Unindexed
<1>4. \A k \in Settled' : Under(k, file)
  <2>1. CASE ~Beside BY <1>3, <2>1 DEF Keyed, Quiet, Under
  <2>2. ASSUME NEW r \in Rotators, Rotating(r), NEW k \in Settled'
        PROVE  Under(k, file)
    <3>1. Underway(r) BY <2>2 DEF Keyed
    <3>2. pc[r] \in {"select", "update"} /\ k \in Settled /\ k \in Docs
      BY <1>1, <1>3, <2>2 DEF Rotating, Halfway, Settled, Present
    <3> QED BY <1>1, <3>1, <3>2 DEF Underway, Halfway
  <2> QED BY <2>1, <2>2 DEF Beside
<1>5. Quiet' BY <1>1, <1>4 DEF Quiet, Under
<1> QED BY <1>2, <1>5 DEF Keyed, Alone, Beside

\* Steps that move no rotation, client, row or key.
LEMMA CalmKeyed ==
  ASSUME Keyed, UNCHANGED <<row, idx, active, file, rot, loc, mixed>>,
         \A c \in Clients : pc'[c] = pc[c],
         \A r \in Rotators : Rotating(r) \/ Rotating(r)' => pc'[r] = pc[r]
  PROVE  Keyed'
<1>1. \A r \in Rotators : /\ Rotating(r)' <=> Rotating(r)
                          /\ Rotating(r) => pc'[r] = pc[r]
  BY DEF Rotating
<1>2. Settled' = Settled BY DEF Settled, Present
<1>3. Quiet => Quiet' BY <1>2 DEF Quiet, Unindexed
<1>4. \A k, key : Under(k, key)' <=> Under(k, key) BY DEF Under
<1>5. ASSUME NEW r \in Rotators, Rotating(r), Underway(r) PROVE Underway(r)'
  BY <1>1, <1>2, <1>4, <1>5 DEF Underway
<1> QED BY <1>1, <1>3, <1>5 DEF Keyed, Alone, Beside

\* Every action keeps KInv.
LEMMA KInvNext == KInv /\ [Next]_vars => KInv'
<1> SUFFICES ASSUME KInv, [Next]_vars, ~broken' PROVE Keyed'
  BY DInvNext DEF KInv
<1> USE DEF data, control, bounds, history
<1>b. ~broken
  BY DEF Next, ClientStep, RotationStep, Encrypt, UpsertRow, WriteIndex, Start,
         CheckThread, Launch, LoopEnds, CheckAndRotate, Select, Update, Index, IndexWith, SetKey, SaveFile,
         Fail, Raise, Stop, Joined, Age, Crash, Finished, vars
<1>k. DInv /\ Keyed BY <1>b DEF KInv
<1>1. ASSUME NEW c \in Clients, ClientStep(c) \/ \E k \in Docs : Encrypt(c, k)
      PROVE  Keyed'
  BY <1>1, <1>k, ClientKeyed
<1>2. ASSUME NEW r \in Rotators, RotationStep(r) \/ Fail(r) PROVE Keyed'
  BY <1>2, <1>k, BeginKeyed, AdvanceKeyed, EndKeyed DEF RotationStep
<1>3. ASSUME NEW r \in Rotators, Start(r) \/ Launch(r) \/ LoopEnds(r) PROVE Keyed'
  <2>1. /\ UNCHANGED <<row, idx, active, file, rot, loc, mixed>>
        /\ \A q \in (Rotators \cup Clients) \ {r} : pc'[q] = pc[q]
        /\ ~Rotating(r) /\ ~Rotating(r)'
    BY <1>3, <1>k DEF Start, CheckThread, Launch, LoopEnds, Goto, Rotating, DInv, Shape
  <2>2. \A c \in Clients : pc'[c] = pc[c] BY <2>1, KeyRotationAssumption
  <2> QED BY <1>k, <2>1, <2>2, CalmKeyed DEF Rotating
<1>4. CASE Stop \/ (\E s \in 1..MaxStops : Joined(s)) \/ Age \/ UNCHANGED vars
  <2>1. UNCHANGED <<row, idx, active, file, rot, loc, mixed, pc>>
    BY <1>4 DEF Stop, Joined, Age, vars
  <2> QED BY <1>k, <2>1, CalmKeyed DEF Rotating
<1>5. CASE Crash BY <1>5, <1>k, CrashKeyed
<1> QED BY <1>1, <1>2, <1>3, <1>4, <1>5 DEF Next, Finished

\* Whatever the number of rotations, failures and restarts, between rotations
\* the key in memory is the one in the file and every settled document is
\* under it, unless a rotation was cut off halfway or ran beside another
\* (check_and_rotate, rotate_encryption_key).
THEOREM DocumentsReadable == Spec => []SettledReadable
<1>1. KInv => SettledReadable
  BY DEF KInv, Keyed, Beside, Quiet, Settled, Unindexed, SettledReadable
<1> QED BY <1>1, KInvInit, KInvNext, PTL DEF Spec
=============================================================================
