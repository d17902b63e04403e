----------------------------- MODULE KeyRotation -----------------------------
(***************************************************************************)
(* src/key_rotation.py and rotate_encryption_key of src/database.py: a     *)
(* background thread replaces a key file that has grown too old. It reads  *)
(* all rows in one SELECT, re-encrypts them in RAM, updates them row by    *)
(* row (no transaction), switches the ciphers in memory, and only then     *)
(* writes the new key to the file. Clients write beside it, encrypting     *)
(* with the cipher in memory at the start of their call.                   *)
(*                                                                         *)
(* Keys are numbered in the order they are generated. The environment      *)
(* variable, which takes precedence over the file, is not set at start; in *)
(* a running process it follows the cipher in memory.                      *)
(***************************************************************************)
EXTENDS Integers, FiniteSets

CONSTANTS Docs,       \* document keys
          Stored,     \* those stored before the process starts, as document 1
          Rotators,   \* threads that start() may create
          Clients,    \* threads that call kv_set
          MaxKeys,    \* bound: encryption keys generated
          MaxWrites,  \* bound: documents written
          MaxFaults,  \* bound: statements or file writes that raise
          MaxStops,   \* bound: calls of stop
          Crashes     \* TRUE if the process may be killed and restarted

ASSUME KeyRotationAssumption ==
  /\ Docs # {} /\ Stored \subseteq Docs
  /\ Rotators \cap Clients = {}
  /\ MaxKeys \in Nat \ {0} /\ MaxWrites \in Nat /\ MaxFaults \in Nat
  /\ MaxStops \in Nat /\ Crashes \in BOOLEAN

VARIABLES row,       \* kv_store: document number and encryption key of a row
          idx,       \* blind_indexes: the key that an entry was computed with
          active,    \* the ciphers in memory and ENCRYPTION_KEY
          file,      \* secret.key
          aged,      \* the file is older than rotation_interval
          handle,    \* _thread of the rotator: set of at most one thread
          stopping,  \* _stop_event
          joining,   \* joining[s]: the thread that the s-th call of stop joins
          pc,        \* pc[t]: what thread t does next
          rot,       \* rot[r]: the locals of a rotation
          loc,       \* loc[c]: the locals of a kv_set
          keys, writes, faults, stops,  \* how much of the bounds is used
          latest,    \* history: last document written
          mixed,     \* history: documents written beside a rotation
          broken,    \* history: a rotation ended between first row and file
          timedOut,  \* history: a stop gave up waiting for its thread
          crossed    \* history: calls of start and stop overlapped

data == <<row, idx, active, file>>
control == <<handle, stopping, joining>>
bounds == <<keys, writes, faults, stops>>
history == <<latest, mixed, broken, timedOut, crossed>>
vars == <<data, aged, control, pc, rot, loc, bounds, history>>

Absent == [num |-> 0, key |-> 0]
Present == {k \in Docs : row[k].num # 0}
NoRot == [old |-> 0, new |-> 0, recs |-> [k \in Docs |-> 0], todo |-> {},
          cur |-> CHOOSE k \in Docs : TRUE]
NoCall == [doc |-> CHOOSE k \in Docs : TRUE, num |-> 0, key |-> 0]

Rotating(r) == pc[r] \in {"select", "update", "index", "setKey", "saveFile"}
Alive(r) == pc[r] \notin {"none", "starting", "exited"}

Init == /\ row = [k \in Docs |-> IF k \in Stored THEN [num |-> 1, key |-> 1] ELSE Absent]
        /\ idx = [k \in Docs |-> IF k \in Stored THEN 1 ELSE 0]
        /\ active = 1 /\ file = 1 /\ aged = FALSE
        /\ handle = {} /\ stopping = FALSE /\ joining = [s \in 1..MaxStops |-> {}]
        /\ pc = [t \in Rotators \cup Clients |-> IF t \in Clients THEN "idle" ELSE "none"]
        /\ rot = [r \in Rotators |-> NoRot] /\ loc = [c \in Clients |-> NoCall]
        /\ keys = 1 /\ writes = 0 /\ faults = 0 /\ stops = 0
        /\ latest = [k \in Docs |-> row[k].num] /\ mixed = {}
        /\ broken = FALSE /\ timedOut = FALSE /\ crossed = FALSE

Goto(t, label) == pc' = [pc EXCEPT ![t] = label]

-----------------------------------------------------------------------------
(* kv_set.                                                                 *)

Beside == \E r \in Rotators : Rotating(r)

\* pack_and_encrypt with the cipher in memory.
Encrypt(c, k) == /\ pc[c] = "idle" /\ writes < MaxWrites
                 /\ writes' = writes + 1
                 /\ loc' = [loc EXCEPT ![c] = [doc |-> k, num |-> writes + 2, key |-> active]]
                 /\ mixed' = IF Beside THEN mixed \cup {k} ELSE mixed
                 /\ Goto(c, "upsert")
                 /\ UNCHANGED <<data, aged, control, rot, keys, faults, stops,
                                latest, broken, timedOut, crossed>>
UpsertRow(c) ==
  LET k == loc[c].doc
  IN /\ pc[c] = "upsert"
     /\ row' = [row EXCEPT ![k] = [num |-> loc[c].num, key |-> loc[c].key]]
     /\ latest' = [latest EXCEPT ![k] = loc[c].num]
     /\ Goto(c, "writeIndex")
     /\ UNCHANGED <<idx, active, file, aged, control, rot, loc, bounds, mixed,
                    broken, timedOut, crossed>>

\* The index key is derived from ENCRYPTION_KEY at this moment.
WriteIndex(c) == /\ pc[c] = "writeIndex"
                 /\ idx' = [idx EXCEPT ![loc[c].doc] = active]
                 /\ loc' = [loc EXCEPT ![c] = NoCall]
                 /\ Goto(c, "idle")
                 /\ UNCHANGED <<row, active, file, aged, control, rot, bounds, history>>

-----------------------------------------------------------------------------
(* start, stop and the loop of the rotator.                                *)

\* A call of start or stop is in progress: they hold no lock.
Calling == \/ \E r \in Rotators : pc[r] = "starting"
           \/ \E s \in 1..MaxStops : joining[s] # {}

\* start looks at _thread; r is the thread it is about to make.
CheckThread(r) == /\ pc[r] = "none"
                  /\ crossed' = (crossed \/ Calling)
                  /\ Goto(r, "starting")
                  /\ UNCHANGED <<data, aged, control, rot, loc, bounds,
                                 latest, mixed, broken, timedOut>>
\* Variant: a second thread is started.
StartAgain(r) == CheckThread(r)
Start(r) == handle = {} /\ CheckThread(r)

\* It clears the stop event and starts r, whatever has happened since.
Launch(r) == /\ pc[r] = "starting"
             /\ handle' = {r} /\ stopping' = FALSE
             /\ Goto(r, "check")
             /\ UNCHANGED <<data, aged, joining, rot, loc, bounds, history>>

\* _stop_event.set(), then join(timeout=5.0).
Stop == /\ handle # {} /\ stops < MaxStops
        /\ stops' = stops + 1
        /\ stopping' = TRUE
        /\ joining' = [joining EXCEPT ![stops + 1] = handle]
        /\ crossed' = (crossed \/ Calling)
        /\ UNCHANGED <<data, aged, handle, pc, rot, loc, keys, writes, faults,
                       latest, mixed, broken, timedOut>>
\* The join returns because the thread has ended, or without it; _thread is
\* forgotten, even if a start has put another there meanwhile.
Joined(s) == /\ joining[s] # {}
             /\ timedOut' = (timedOut \/ \E r \in joining[s] : Alive(r))
             /\ handle' = {}
             /\ joining' = [joining EXCEPT ![s] = {}]
             /\ UNCHANGED <<data, aged, stopping, pc, rot, loc, bounds,
                            latest, mixed, broken, crossed>>

LoopEnds(r) == /\ pc[r] = "check" /\ stopping
               /\ Goto(r, "exited")
               /\ UNCHANGED <<data, aged, control, rot, loc, bounds, history>>

\* check_and_rotate of a file that is too old: the old key comes from the
\* file, the new one is generated.
CheckAndRotate(r) == /\ pc[r] = "check" /\ ~stopping /\ aged /\ keys < MaxKeys
                     /\ keys' = keys + 1
                     /\ rot' = [rot EXCEPT ![r] = [NoRot EXCEPT !.old = file,
                                                               !.new = keys + 1]]
                     /\ mixed' = mixed \cup {loc[c].doc : c \in {c \in Clients : pc[c] # "idle"}}
                     /\ broken' = (broken \/ Beside)
                     /\ Goto(r, "select")
                     /\ UNCHANGED <<data, aged, control, loc, writes, faults, stops,
                                    latest, timedOut, crossed>>

-----------------------------------------------------------------------------
(* rotate_encryption_key.                                                  *)

\* Rows that the old key does not decrypt are skipped without a word.
Select(r) ==
  LET K == {k \in Present : row[k].key = rot[r].old}
  IN /\ pc[r] = "select"
     /\ rot' = [rot EXCEPT ![r].recs = [k \in Docs |-> IF k \in K THEN row[k].num ELSE 0],
                           ![r].todo = K]
     /\ Goto(r, IF K = {} THEN "setKey" ELSE "update")
     /\ UNCHANGED <<data, aged, control, loc, bounds, history>>

\* Variant: UPDATE without its WHERE.
UpdateEverywhere(r) ==
  /\ pc[r] = "update"
  /\ \E k \in rot[r].todo :
       /\ row' = [j \in Docs |-> IF j \in Present
                                 THEN [num |-> rot[r].recs[k], key |-> rot[r].new]
                                 ELSE Absent]
       /\ rot' = [rot EXCEPT ![r].cur = k]
  /\ Goto(r, "index")
  /\ UNCHANGED <<idx, active, file, aged, control, loc, bounds, history>>
Update(r) ==
  /\ pc[r] = "update"
  /\ \E k \in rot[r].todo :
       /\ row' = [row EXCEPT ![k] = [num |-> rot[r].recs[k], key |-> rot[r].new]]
       /\ rot' = [rot EXCEPT ![r].cur = k]
  /\ Goto(r, "index")
  /\ UNCHANGED <<idx, active, file, aged, control, loc, bounds, history>>

IndexWith(r, key) ==
  LET rest == rot[r].todo \ {rot[r].cur}
  IN /\ pc[r] = "index"
     /\ idx' = [idx EXCEPT ![rot[r].cur] = key]
     /\ rot' = [rot EXCEPT ![r].todo = rest]
     /\ Goto(r, IF rest = {} THEN "setKey" ELSE "update")
     /\ UNCHANGED <<row, active, file, aged, control, loc, bounds, history>>
\* Variant: custom_derived_key is forgotten.
IndexActive(r) == IndexWith(r, active)
Index(r) == IndexWith(r, rot[r].new)

SetKey(r) == /\ pc[r] = "setKey"
             /\ active' = rot[r].new
             /\ Goto(r, "saveFile")
             /\ UNCHANGED <<row, idx, file, aged, control, rot, loc, bounds, history>>

SaveFile(r) == /\ pc[r] = "saveFile"
               /\ file' = rot[r].new /\ aged' = FALSE
               /\ rot' = [rot EXCEPT ![r] = NoRot]
               /\ Goto(r, "check")
               /\ UNCHANGED <<row, idx, active, control, loc, bounds, history>>

\* The rotation r is in has changed a row or the ciphers, not yet the file.
Halfway(r) == \/ pc[r] \in {"index", "setKey", "saveFile"}
              \/ pc[r] = "update" /\ \E k \in Docs : rot[r].recs[k] # 0
                                                    /\ k \notin rot[r].todo
Raise(r, label) == /\ pc[r] \in {"select", "update", "index", "saveFile"}
                   /\ faults < MaxFaults /\ faults' = faults + 1
                   /\ broken' = (broken \/ Halfway(r))
                   /\ rot' = [rot EXCEPT ![r] = NoRot]
                   /\ Goto(r, label)
                   /\ UNCHANGED <<data, aged, control, loc, keys, writes, stops,
                                  latest, mixed, timedOut, crossed>>
\* Variant: the exception ends the thread.
FailEndsLoop(r) == Raise(r, "exited")
\* A statement raises, or the file cannot be written: the error is printed
\* and the loop goes on. The new key only existed in this thread.
Fail(r) == Raise(r, "check")

-----------------------------------------------------------------------------
\* A key is too old: now and then, while another may still be generated.
Age == /\ ~aged /\ aged' = TRUE
       /\ UNCHANGED <<data, control, pc, rot, loc, bounds, history>>

\* A restarted process takes its key from the file.
Crash == /\ Crashes
         /\ active' = file
         /\ handle' = {} /\ stopping' = FALSE /\ joining' = [s \in 1..MaxStops |-> {}]
         /\ pc' = [t \in Rotators \cup Clients |-> IF t \in Clients THEN "idle" ELSE "none"]
         /\ broken' = (broken \/ \E r \in Rotators : Halfway(r))
         /\ mixed' = mixed \cup {loc[c].doc : c \in {c \in Clients : pc[c] # "idle"}}
         /\ rot' = [r \in Rotators |-> NoRot] /\ loc' = [c \in Clients |-> NoCall]
         /\ UNCHANGED <<row, idx, file, aged, bounds, latest, timedOut, crossed>>

RotationStep(r) == \/ CheckAndRotate(r) \/ Select(r) \/ Update(r) \/ Index(r)
                   \/ SetKey(r) \/ SaveFile(r)
ClientStep(c) == UpsertRow(c) \/ WriteIndex(c)

\* No key may be generated any more.
Finished == keys = MaxKeys /\ UNCHANGED vars

Next == \/ \E c \in Clients : ClientStep(c) \/ \E k \in Docs : Encrypt(c, k)
        \/ \E r \in Rotators : RotationStep(r) \/ Start(r) \/ Launch(r) \/ LoopEnds(r) \/ Fail(r)
        \/ \E s \in 1..MaxStops : Joined(s)
        \/ Stop \/ Age \/ Crash \/ Finished

Spec == Init /\ [][Next]_vars

\* The rotator thread keeps running.
Fairness == \A r \in Rotators : WF_vars(RotationStep(r))
FairSpec == Spec /\ Fairness

-----------------------------------------------------------------------------
\* After any number of rotations, restarts and failed attempts every document
\* is encrypted with the key in memory, which is the one in the file, and
\* indexed under it. Not promised once a rotation ended between its first row
\* and its file, or ran beside another, nor for documents written beside one.
SettledReadable ==
  (\A r \in Rotators : ~Rotating(r)) /\ ~broken
    => /\ active = file
       /\ \A k \in Present \ mixed :
            /\ row[k].key = file
            /\ idx[k] # file => \E c \in Clients : pc[c] = "writeIndex" /\ loc[c].doc = k

\* A rotation, complete, failed or killed at any statement, never puts an
\* older document back, except over one written beside it.
DocsSurvive == \A k \in Docs \ mixed : row[k].num = latest[k]

\* Two threads of the same rotator run at once only in two ways: after a stop
\* whose join timed out (start then clears the stop event that the first has
\* not seen yet), or after calls of start and stop that overlapped, each of
\* which looks at _thread and assigns it later without a lock.
OneRotator ==
  Cardinality({r \in Rotators : Alive(r)}) > 1 => timedOut \/ crossed

\* A key that is too old is replaced although an attempt fails, unless the
\* rotator is stopped or the process ends, or the last key that the bound
\* allows went into an attempt that has failed as well.
AgedKeyReplaced ==
  \A r \in Rotators :
    aged /\ pc[r] = "check"
      ~> \/ ~aged \/ stopping \/ handle # {r}
         \/ keys = MaxKeys /\ pc[r] = "check"

\* "Re-encrypt all records ... atomically. Guarantees zero data loss with full
\* rollback on error" (database.py:1128-1129): the key of a stored document is
\* always in memory, in the file or with a rotation in progress.
KeyNeverLost ==
  \A k \in Present : \/ row[k].key \in {active, file}
                     \/ \E r \in Rotators : Rotating(r) /\ row[k].key = rot[r].new
=============================================================================
