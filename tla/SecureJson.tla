----------------------------- MODULE SecureJson -----------------------------
(***************************************************************************)
(* src/secure_json.py and async_delete_json of src/async_engine.py: one    *)
(* document in three places, L1, SQLite (L2) and an encrypted file, which  *)
(* save, load and delete visit one after the other with no lock around     *)
(* them. A file is written to <name>.tmp, the same for every saver, and    *)
(* renamed. Calls on L1 and L2 are single steps here (KvStore and          *)
(* TwoTierCache have theirs); the cache writes through.                    *)
(*                                                                         *)
(* A document is represented by its number in the order of the saves and   *)
(* the ttl it was saved with: "none" (None), "zero" (0 or less) or         *)
(* "timed". Only a timed one expires, only one without a ttl has a file.   *)
(***************************************************************************)
EXTENDS Integers

CONSTANTS Threads,    \* callers
          MaxSaves,   \* bound: saves
          MaxCalls,   \* bound: loads and deletes
          MaxFaults   \* bound: kills, and statements and file operations that raise

ASSUME SecureJsonAssumption == MaxSaves \in Nat /\ MaxCalls \in Nat /\ MaxFaults \in Nat

VARIABLES l1, row,    \* entry in L1, row in SQLite: number and ttl
          file, tmp,  \* content of the file and of its .tmp
          outside,    \* the path is absolute and not in DATA_DIR
          pc, arg,    \* pc[t], arg[t]: next step of t's call and its document
          opened,     \* opened[t]: where the file that t has open is now
          saves, calls, faults,  \* how much of the bounds is used
          last,       \* history: the last document saved, 0 once deleted or expired
          refilled,   \* history: L1 kept a document longer than its ttl
          collided,   \* history: a save or delete overlapped another call
          cut,        \* history: a save or delete was killed, or a step of it raised
          stray       \* history: a delete left the file of an absolute path

places == <<l1, row, file, tmp>>
bounds == <<saves, calls, faults>>
history == <<last, refilled, collided, cut, stray>>
vars == <<places, outside, pc, arg, opened, bounds, history>>

Ttls == {"none", "zero", "timed"}
Nothing == [num |-> 0, ttl |-> "none"]
Gone == 0     \* no such file
Empty == -1   \* a file just opened for writing
Torn == -2    \* a file with pieces of two documents

Init == /\ l1 = Nothing /\ row = Nothing /\ file = Gone /\ tmp = Gone
        /\ outside \in BOOLEAN
        /\ pc = [t \in Threads |-> "idle"] /\ arg = [t \in Threads |-> Nothing]
        /\ opened = [t \in Threads |-> "none"]
        /\ saves = 0 /\ calls = 0 /\ faults = 0
        /\ last = 0 /\ refilled = FALSE
        /\ collided = FALSE /\ cut = FALSE /\ stray = FALSE

Goto(t, label) == pc' = [pc EXCEPT ![t] = label]
Loading(t) == pc[t] \in {"loadL2", "loadFile", "fill"}
Changing(t) == pc[t] # "idle" /\ ~Loading(t)

\* Files that are open under a name lose it.
Unnamed(names) == [u \in Threads |-> IF opened[u] \in names THEN "gone" ELSE opened[u]]

-----------------------------------------------------------------------------
(* load_json.                                                              *)

LoadStarts(t) == /\ pc[t] = "idle"
                 /\ calls < MaxCalls /\ calls' = calls + 1
                 /\ collided' = (collided \/ \E u \in Threads : Changing(u))
                 /\ UNCHANGED <<places, outside, arg, opened, saves, faults, last,
                                refilled, cut, stray>>
LoadHit(t) == /\ l1 # Nothing /\ LoadStarts(t)
              /\ UNCHANGED pc
LoadMiss(t) == /\ l1 = Nothing /\ LoadStarts(t)
               /\ Goto(t, "loadL2")

LoadL2(t) == /\ pc[t] = "loadL2"
             /\ arg' = [arg EXCEPT ![t] = row]
             /\ Goto(t, IF row = Nothing THEN "loadFile" ELSE "fill")
             /\ UNCHANGED <<places, outside, opened, bounds, history>>

\* A file that is missing, empty or cannot be decrypted: the default.
LoadFile(t) == /\ pc[t] = "loadFile"
               /\ IF file > 0
                  THEN /\ arg' = [arg EXCEPT ![t] = [num |-> file, ttl |-> "none"]]
                       /\ Goto(t, "fill")
                  ELSE Goto(t, "idle") /\ UNCHANGED arg
               /\ UNCHANGED <<places, outside, opened, bounds, history>>

\* set_l1_only with the default lifetime of L1, whatever the ttl of the row.
Fill(t) == /\ pc[t] = "fill"
           /\ l1' = [num |-> arg[t].num, ttl |-> "none"]
           /\ Goto(t, "idle")
           /\ UNCHANGED <<row, file, tmp, outside, arg, opened, bounds, history>>

\* The ttl of the row has run out; L1 may still have or get the document.
RowEnds == /\ row.ttl = "timed" /\ row' = Nothing
           /\ refilled' = (\/ refilled
                          \/ l1'.num = row.num
                          \/ \E t \in Threads : pc[t] = "fill" /\ arg[t].num = row.num)
           /\ last' = IF last = row.num THEN 0 ELSE last
           /\ UNCHANGED <<outside, bounds, collided, cut, stray>>

\* A load finds it so: kv_delete clears the row, DATA_DIR/key and L1.
LoadExpired(t) == /\ pc[t] = "loadL2"
                  /\ l1' = Nothing /\ RowEnds
                  /\ IF outside THEN UNCHANGED <<file, tmp, opened>>
                     ELSE file' = Gone /\ tmp' = Gone /\ opened' = Unnamed({"tmp", "file"})
                  /\ arg' = [arg EXCEPT ![t] = Nothing]
                  /\ Goto(t, "loadFile")

-----------------------------------------------------------------------------
(* save_json.                                                              *)

Collides(t) == collided' = (collided \/ \E u \in Threads \ {t} : pc[u] # "idle")

SaveL1(t, ttl) == /\ pc[t] = "idle" /\ saves < MaxSaves
                  /\ saves' = saves + 1
                  /\ l1' = [num |-> saves + 1, ttl |-> ttl]
                  /\ arg' = [arg EXCEPT ![t] = l1']
                  /\ last' = saves + 1
                  /\ Collides(t)
                  /\ Goto(t, "saveL2")
                  /\ UNCHANGED <<row, file, tmp, outside, opened, calls, faults,
                                 refilled, cut, stray>>
\* Variant: the condition of the row, ttl > 0, decides about the file too.
AfterL2Timed(t) == Goto(t, IF arg[t].ttl = "timed" THEN "unlink" ELSE "open")
\* Any ttl, and one of 0 as well, means no file.
AfterL2(t) == Goto(t, IF arg[t].ttl # "none" THEN "unlink" ELSE "open")
SaveL2(t) == /\ pc[t] = "saveL2"
             /\ row' = arg[t]
             /\ AfterL2(t)
             /\ UNCHANGED <<l1, file, tmp, outside, arg, opened, bounds, history>>

Raises == /\ faults < MaxFaults /\ faults' = faults + 1 /\ cut' = TRUE
          /\ UNCHANGED <<outside, saves, calls, last, refilled, collided, stray>>
\* cache.set raises: save_json prints the error and goes on.
SaveL2Fails(t) == /\ pc[t] = "saveL2" /\ Raises
                  /\ AfterL2(t)
                  /\ UNCHANGED <<places, arg, opened>>

RemoveFile == file' = Gone /\ opened' = Unnamed({"file"})
\* Variant: the file of an earlier permanent save stays.
UnlinkNothing(t) == /\ pc[t] = "unlink"
                    /\ Goto(t, "idle")
                    /\ UNCHANGED <<places, outside, arg, opened, bounds, history>>
Unlink(t) == /\ pc[t] = "unlink"
             /\ RemoveFile
             /\ Goto(t, "idle")
             /\ UNCHANGED <<l1, row, tmp, outside, arg, bounds, history>>

\* Variant: the file is written in place.
OpenFile(t) == /\ pc[t] = "open"
               /\ file' = Empty
               /\ opened' = [opened EXCEPT ![t] = "file"]
               /\ Goto(t, "write")
               /\ UNCHANGED <<l1, row, tmp, outside, arg, bounds, history>>
\* write_bytes creates or truncates the .tmp ...
Open(t) == /\ pc[t] = "open"
           /\ tmp' = Empty
           /\ opened' = [opened EXCEPT ![t] = "tmp"]
           /\ Goto(t, "write")
           /\ UNCHANGED <<l1, row, file, outside, arg, bounds, history>>

\* ... and writes to what it opened, which another saver may have renamed
\* since; what another saver wrote there shows wherever it was longer.
Write(t) ==
  /\ pc[t] = "write"
  /\ LET Over(old) == IF old = Empty THEN {arg[t].num} ELSE {arg[t].num, Torn}
     IN CASE opened[t] = "tmp" -> tmp' \in Over(tmp) /\ UNCHANGED file
          [] opened[t] = "file" -> file' \in Over(file) /\ UNCHANGED tmp
          [] OTHER -> UNCHANGED <<tmp, file>>
  /\ opened' = [opened EXCEPT ![t] = "none"]
  /\ Goto(t, "replace")
  /\ UNCHANGED <<l1, row, outside, arg, bounds, history>>

\* Rename; the error of a missing .tmp goes to the caller.
Replace(t) ==
  /\ pc[t] = "replace"
  /\ IF tmp = Gone THEN UNCHANGED <<file, tmp, opened>>
     ELSE /\ file' = tmp /\ tmp' = Gone
          /\ opened' = [u \in Threads |-> CASE opened[u] = "tmp" -> "file"
                                            [] opened[u] = "file" -> "gone"
                                            [] OTHER -> opened[u]]
  /\ Goto(t, "idle")
  /\ UNCHANGED <<l1, row, outside, arg, bounds, history>>

-----------------------------------------------------------------------------
(* async_delete_json: L1, then kv_delete (the row, the file and its .tmp,  *)
(* L1 once more if there was a row), then the file. Both mean the file in  *)
(* DATA_DIR, wherever save_json put it.                                    *)

DeleteL1(t) == /\ pc[t] = "idle" /\ calls < MaxCalls
               /\ calls' = calls + 1
               /\ l1' = Nothing /\ last' = 0
               /\ Collides(t)
               /\ Goto(t, "deleteL2")
               /\ UNCHANGED <<row, file, tmp, outside, arg, opened, saves, faults,
                              refilled, cut, stray>>
DeleteL2(t) == /\ pc[t] = "deleteL2"
               /\ row' = Nothing
               /\ arg' = [arg EXCEPT ![t] = row]
               /\ Goto(t, "kvUnlink")
               /\ UNCHANGED <<l1, file, tmp, outside, opened, bounds, history>>
KvUnlink(t) == /\ pc[t] = "kvUnlink"
               /\ IF outside THEN UNCHANGED <<file, opened>> ELSE RemoveFile
               /\ Goto(t, "kvUnlinkTmp")
               /\ UNCHANGED <<l1, row, tmp, outside, arg, bounds, history>>
KvUnlinkTmp(t) == /\ pc[t] = "kvUnlinkTmp"
                  /\ IF outside THEN UNCHANGED <<tmp, opened>>
                     ELSE tmp' = Gone /\ opened' = Unnamed({"tmp"})
                  /\ Goto(t, "kvL1")
                  /\ UNCHANGED <<l1, row, file, outside, arg, bounds, history>>
KvL1(t) == /\ pc[t] = "kvL1"
           /\ l1' = IF arg[t] # Nothing THEN Nothing ELSE l1
           /\ Goto(t, "unlinkTarget")
           /\ UNCHANGED <<row, file, tmp, outside, arg, opened, bounds, history>>
UnlinkTarget(t) ==
  /\ pc[t] = "unlinkTarget"
  /\ IF outside THEN UNCHANGED <<file, opened>> ELSE RemoveFile
  /\ stray' = (stray \/ (outside /\ file # Gone))
  /\ Goto(t, "idle")
  /\ UNCHANGED <<l1, row, tmp, outside, arg, bounds, last, refilled, collided, cut>>

\* A file operation or a statement raises. kv_delete swallows what its unlinks
\* raise, and save_json what its unlink raises; the rest goes to the caller.
\* A write that stops leaves an unfinished .tmp.
Fail(t) ==
  /\ pc[t] \in {"unlink", "open", "write", "replace", "deleteL2", "kvUnlink",
               "kvUnlinkTmp", "unlinkTarget"}
  /\ Raises
  /\ Goto(t, IF pc[t] \in {"kvUnlink", "kvUnlinkTmp"} THEN "kvL1" ELSE "idle")
  /\ opened' = [opened EXCEPT ![t] = "none"]
  /\ UNCHANGED <<places, arg>>

-----------------------------------------------------------------------------
\* The entry leaves L1, for lack of room or at the end of its L1 lifetime.
Evict == /\ l1 # Nothing /\ l1' = Nothing
         /\ UNCHANGED <<row, file, tmp, outside, pc, arg, opened, bounds, history>>

\* The ttl of the row runs out, and with it that of an L1 entry saved with it;
\* the scavenger deletes the row.
Expire == /\ l1' = IF l1 = row THEN Nothing ELSE l1
          /\ RowEnds
          /\ UNCHANGED <<file, tmp, pc, arg, opened>>

Crash == /\ \E t \in Threads : pc[t] # "idle"
         /\ faults < MaxFaults /\ faults' = faults + 1
         /\ l1' = Nothing
         /\ pc' = [t \in Threads |-> "idle"] /\ arg' = [t \in Threads |-> Nothing]
         /\ opened' = [t \in Threads |-> "none"]
         /\ cut' = (cut \/ \E t \in Threads : Changing(t))
         /\ UNCHANGED <<row, file, tmp, outside, saves, calls, last, refilled, collided, stray>>

Load(t) == LoadHit(t) \/ LoadMiss(t) \/ LoadL2(t) \/ LoadExpired(t) \/ LoadFile(t) \/ Fill(t)
Save(t) == \/ \E ttl \in Ttls : SaveL1(t, ttl)
           \/ SaveL2(t) \/ SaveL2Fails(t) \/ Unlink(t) \/ Open(t) \/ Write(t) \/ Replace(t)
Delete(t) == \/ DeleteL1(t) \/ DeleteL2(t)
             \/ KvUnlink(t) \/ KvUnlinkTmp(t) \/ KvL1(t) \/ UnlinkTarget(t)

\* The calls are used up.
Finished == /\ \A t \in Threads : pc[t] = "idle"
            /\ UNCHANGED vars

Next == \/ \E t \in Threads : Load(t) \/ Save(t) \/ Delete(t) \/ Fail(t)
        \/ Evict \/ Expire \/ Crash \/ Finished

Spec == Init /\ [][Next]_vars

-----------------------------------------------------------------------------
\* The step by which a load of t returns n: from L1, from L2 or the file, or
\* the default, 0.
Returned(t, n) == \/ LoadHit(t) /\ n = l1.num
                  \/ Fill(t) /\ n = arg[t].num
                  \/ LoadFile(t) /\ pc'[t] = "idle" /\ n = 0

\* One caller at a time, through evictions, restarts and expiry: load returns
\* the last document saved, or the default after a delete or once its ttl has
\* run out, from whichever of the three places it comes; no older document
\* comes back from a place that a save or delete left behind. Not promised:
\* - after a save or delete that was killed or of which a step raised (cut), a
\*   swallowed unlink included: the places may differ;
\* - after a document saved under an absolute path was deleted (stray): its
\*   file stays, and the next load returns it;
\* - where L1 kept an expired document: a fill gives it a lifetime of its own.
LoadSeesLastSave ==
  [][\A t \in Threads, n \in 0..MaxSaves :
       Returned(t, n) /\ ~collided' /\ ~cut /\ ~stray /\ ~refilled => n = last]_vars

\* The file is a whole document at every moment, a crash included, unless two
\* savers shared the .tmp.
FileWhole == collided \/ file \notin {Empty, Torn}

\* Between calls the file is the document that SQLite has, if that was saved
\* without a ttl, and there is none otherwise: a document with a ttl (whatever
\* its value), a deleted or an expired one leaves no file behind. The same
\* exceptions: a save or delete that was cut short or of which a step raised,
\* and the file that a delete leaves under an absolute path.
FileFollowsRow ==
  (\A t \in Threads : ~Changing(t)) /\ ~collided /\ ~cut /\ ~stray
    => file = IF row.ttl = "none" THEN row.num ELSE Gone
=============================================================================
