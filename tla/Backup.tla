------------------------------- MODULE Backup -------------------------------
(***************************************************************************)
(* src/cloud_sync.py beside a running store: snapshots, uploads, pruning   *)
(* and restores, called by threads of the application.                     *)
(*                                                                         *)
(* A restore renames a file over DB_PATH. Connections are per thread and   *)
(* stay on the file they were opened on, while the write-ahead log belongs *)
(* to the name, so that connections on the old and on the new file use one *)
(* log. What SQLite then shows is a mixture of pages; Seen is one of them, *)
(* and the properties speak of states without ("mixed" in upsets).         *)
(*                                                                         *)
(* A row is the number of the write it comes from and the encryption key   *)
(* it is under. Interleavings inside one copy of a file are left out, and  *)
(* so is a DB_PATH without a file.                                         *)
(***************************************************************************)
EXTENDS Integers, FiniteSets

CONSTANTS Keys,          \* document keys
          Threads,       \* threads of the application
          Clients,       \* those that use the store, over a connection of their own
          Retention,     \* retention_count
          MaxTime,       \* bound: seconds on the clock
          MaxWrites,     \* bound: documents written
          MaxCalls,      \* bound: snapshots, restores and key rotations
          MaxFaults      \* bound: kills, and requests, checks and copies that raise

ASSUME BackupAssumption ==
  /\ Clients \subseteq Threads
  /\ IsFiniteSet(Threads)
  /\ {Retention, MaxTime} \subseteq Nat \ {0}
  /\ {MaxWrites, MaxCalls, MaxFaults} \subseteq Nat

VARIABLES path,      \* the file DB_PATH names; files are numbered
          main,      \* main[f]: the rows in file f
          wal,       \* committed rows that are in the log only
          conn,      \* conn[t]: the file of t's connection, 0 for none
          bloom,     \* keys for which the filter answers True
          key,       \* the active encryption key
          local,     \* data/snapshots: the image under a name
          bucket,    \* the objects of the bucket
          safety,    \* backup_before_restore.db
          down, temp,  \* restore_download.tmp and restore_temp.db
          now,       \* time in seconds
          pc, loc,   \* pc[t], loc[t]: next step and locals of t
          used,      \* how much of the bounds is used
          latest,    \* history: the last write of a key
          since,     \* history: keys that the safety copy may have missed
          upsets     \* history: what happened that the properties except

store == <<path, main, wal>>
process == <<conn, bloom, key>>
restoring == <<safety, down, temp>>
calls == <<pc, loc>>
history == <<latest, since, upsets>>
vars == <<store, process, local, bucket, restoring, now, calls, used, history>>

Files == 1..(1 + MaxCalls)
NoRow == [num |-> 0, key |-> 0]
NoRows == [k \in Keys |-> NoRow]

\* A file or object: the rows of a database and the key of the envelope
\* around it, 0 for none.
Image(rows, seal) == [rows |-> rows, seal |-> seal]
Nothing == Image(NoRows, -1)   \* no such file
Empty == Image(NoRows, 0)      \* a file of no bytes, a database of no rows

\* snapshot_<second>.db and its envelope, .db.enc.
Names == [sec : 1..MaxTime, enc : BOOLEAN]
NoObject == [image |-> Nothing, at |-> 0]
Objects == {n \in Names : bucket[n] # NoObject}

\* The rows a connection on f sees.
Seen(f) == [k \in Keys |-> IF wal[k] # NoRow THEN wal[k] ELSE main[f][k]]
Present(rows) == {k \in Keys : rows[k] # NoRow}
ForeignRows(rows) == {k \in Present(rows) : rows[k].key # key}

NoCall == [name |-> [sec |-> 1, enc |-> FALSE], image |-> Nothing, doomed |-> {}]

Init == /\ path = 1 /\ main = [f \in Files |-> NoRows] /\ wal = NoRows
        /\ conn = [t \in Threads |-> 0] /\ bloom = {} /\ key = 1
        /\ local = [n \in Names |-> Nothing]
        /\ bucket = [n \in Names |-> NoObject]
        /\ safety = Nothing /\ down = Nothing /\ temp = Nothing
        /\ now = 1
        /\ pc = [t \in Threads |-> "idle"] /\ loc = [t \in Threads |-> NoCall]
        /\ used = [write |-> 0, call |-> 0, fault |-> 0]
        /\ latest = [k \in Keys |-> 0] /\ since = {} /\ upsets = {}

Use(what, max) == used[what] < max /\ used' = [used EXCEPT ![what] = @ + 1]
Goto(t, label) == pc' = [pc EXCEPT ![t] = label]
Return(t) == Goto(t, "idle") /\ loc' = [loc EXCEPT ![t] = NoCall]
Busy(labels) == {t \in Threads : pc[t] \in labels}
Restoring == {"unpack", "check", "move", "clean"}

-----------------------------------------------------------------------------
(* The store.                                                              *)

\* Variant: the filter is only filled by writes.
KeysAtStart(f) == {}
\* init_db of a process that starts: rebuild_bloom_filter.
InitDb(f) == Present(Seen(f))
Started == \E t \in Clients : conn[t] # 0

\* get_db_connection; the first one belongs to init_db, which the import of
\* the package calls. It has created the file.
Connect(t) == /\ pc[t] = "idle" /\ conn[t] = 0
              /\ conn' = [conn EXCEPT ![t] = path]
              /\ bloom' = IF Started THEN bloom ELSE InitDb(path)
              /\ UNCHANGED <<store, key, local, bucket, restoring, now, calls, used,
                             history>>

\* The file has all that the log holds: the next writer may begin it anew.
Replayed(f) == \A k \in Keys : wal[k] # NoRow => wal[k] = main[f][k]

\* Rows committed through t's connection are in the log of the name.
Commit(t, rows) == /\ pc[t] = "idle" /\ conn[t] # 0
                   /\ \E log \in {wal} \cup IF Replayed(conn[t]) THEN {NoRows} ELSE {} :
                        wal' = [k \in Keys |-> IF k \in DOMAIN rows THEN rows[k] ELSE log[k]]
                   /\ since' = since \cup DOMAIN rows
                   /\ UNCHANGED <<path, main, conn, local, bucket, restoring, now, calls>>
Stray(t) == IF conn[t] # path THEN {"mixed"} ELSE {}

KvSet(t, k) ==
  /\ Use("write", MaxWrites)
  /\ Commit(t, [x \in {k} |-> [num |-> used'.write, key |-> key]])
  /\ bloom' = bloom \cup {k}
  /\ latest' = [latest EXCEPT ![k] = used'.write]
  /\ upsets' = upsets \cup Stray(t)
  /\ UNCHANGED key

\* rotate_encryption_key, in one step (KeyRotation has its statements). Rows
\* that the old key does not open stay as they are.
RotateKey(t) ==
  LET seen == Seen(conn[t])
      mine == Present(seen) \ ForeignRows(seen)
  IN /\ Use("call", MaxCalls)
     /\ key' = key + 1
     /\ Commit(t, [k \in mine |-> [seen[k] EXCEPT !.key = key']])
     /\ upsets' = upsets \cup Stray(t) \cup
                  IF Busy({"encrypt", "check", "move"}) # {} THEN {"turned"} ELSE {}
     /\ UNCHANGED <<bloom, latest>>

\* The log goes into the file of the connection. db_maintenance empties it;
\* the checkpoint that SQLite makes by itself leaves it as it is, and may
\* leave out what a reader still needs.
Checkpoint(t) == /\ pc[t] = "idle" /\ conn[t] # 0
                 /\ \/ main' = [main EXCEPT ![conn[t]] = Seen(conn[t])] /\ wal' = NoRows
                    \/ \E K \in SUBSET Keys :
                         /\ main' = [main EXCEPT ![conn[t]] =
                                       [k \in Keys |-> IF k \in K THEN Seen(conn[t])[k] ELSE @[k]]]
                         /\ UNCHANGED wal
                 /\ upsets' = upsets \cup IF wal = NoRows THEN {} ELSE Stray(t)
                 /\ UNCHANGED <<path, process, local, bucket, restoring, now, calls,
                                used, latest, since>>

\* The process is killed; a new one has no connection yet. The key comes from
\* the environment. The files stay, the log among them.
Crash == /\ Started
         /\ Use("fault", MaxFaults)
         /\ conn' = [t \in Threads |-> 0] /\ bloom' = {}
         /\ pc' = [t \in Threads |-> "idle"] /\ loc' = [t \in Threads |-> NoCall]
         /\ upsets' = upsets \ {"replaced"}
         /\ UNCHANGED <<store, key, local, bucket, restoring, now, latest, since>>

Tick == /\ now < MaxTime /\ now' = now + 1
        /\ UNCHANGED <<store, process, local, bucket, restoring, calls, used, history>>

-----------------------------------------------------------------------------
(* sync_to_cloud.                                                          *)

\* Variant: the file is copied without its log.
FileCopy(f) == main[f]
\* source.backup(dest), over a connection of its own.
Backup(f) == Seen(f)

CreateLocalSnapshot(t, sealed) ==
  LET name == [sec |-> now, enc |-> FALSE]
  IN /\ pc[t] = "idle" /\ Started /\ Use("call", MaxCalls)
     /\ local' = [local EXCEPT ![name] = Image(Backup(path), 0)]
     /\ loc' = [loc EXCEPT ![t] = [@ EXCEPT !.name = name,
                                            !.image = Image(Seen(path), 0)]]
     /\ Goto(t, IF sealed THEN "encrypt" ELSE "upload")
     /\ upsets' = upsets \cup IF local[name] # Nothing THEN {"shared name"} ELSE {}
     /\ UNCHANGED <<store, process, bucket, restoring, now, latest, since>>

EncryptSnapshotFile(t) ==
  LET name == loc[t].name
      sealed == [name EXCEPT !.enc = TRUE]
  IN /\ pc[t] = "encrypt"
     /\ local' = [local EXCEPT ![sealed] = Image(local[name].rows, key)]
     /\ loc' = [loc EXCEPT ![t] = [@ EXCEPT !.name = sealed,
                                            !.image = Image(loc[t].image.rows, key)]]
     /\ Goto(t, "upload")
     /\ UNCHANGED <<store, process, bucket, restoring, now, used, history>>

\* The finally: an envelope is unlinked, the snapshot stays.
EndSync(t) == IF loc[t].name.enc THEN Goto(t, "unlink") /\ UNCHANGED loc ELSE Return(t)
UnlinkEnvelope(t) ==
  /\ pc[t] = "unlink"
  /\ local' = [local EXCEPT ![loc[t].name] = Nothing]
  /\ Return(t)
  /\ UNCHANGED <<store, process, bucket, restoring, now, used, history>>

\* put_object; a request that raises, or a file that another call has
\* unlinked, ends the call.
Upload(t) ==
  LET name == loc[t].name IN
  /\ pc[t] = "upload" /\ local[name] # Nothing
  /\ bucket' = [bucket EXCEPT ![name] = [image |-> local[name], at |-> now]]
  /\ loc' = [loc EXCEPT ![t].image = Nothing]
  /\ Goto(t, "list")
  /\ UNCHANGED <<store, process, local, restoring, now, used, history>>
UploadFails(t) == /\ pc[t] = "upload"
                  /\ IF local[loc[t].name] = Nothing THEN UNCHANGED used ELSE Use("fault", MaxFaults)
                  /\ EndSync(t)
                  /\ UNCHANGED <<store, process, local, bucket, restoring, now, history>>

\* list_objects_v2 lists by key; the sort by LastModified is stable.
ListedBefore(n, o) == \/ bucket[n].at > bucket[o].at
                      \/ /\ bucket[n].at = bucket[o].at
                         /\ n.sec < o.sec \/ (n.sec = o.sec /\ o.enc /\ ~n.enc)
\* Variant: one object too many.
SurplusAndOne == {n \in Objects : Cardinality({o \in Objects : ListedBefore(o, n)})
                                    >= Retention - 1}
Surplus == {n \in Objects : Cardinality({o \in Objects : ListedBefore(o, n)}) >= Retention}

\* A listing that raises is taken for an empty one.
ListCloudBackups(t) ==
  /\ pc[t] = "list"
  /\ \/ Surplus = {} /\ EndSync(t) /\ UNCHANGED used
     \/ /\ Surplus # {}
        /\ loc' = [loc EXCEPT ![t].doomed = Surplus]
        /\ Goto(t, "prune") /\ UNCHANGED used
     \/ Use("fault", MaxFaults) /\ EndSync(t)
  /\ UNCHANGED <<store, process, local, bucket, restoring, now, history>>

\* One delete_object after the other; the first that raises is the last.
DeleteObject(t) ==
  /\ pc[t] = "prune"
  /\ \/ \E n \in loc[t].doomed :
          /\ bucket' = [bucket EXCEPT ![n] = NoObject]
          /\ IF loc[t].doomed = {n} THEN EndSync(t)
             ELSE loc' = [loc EXCEPT ![t].doomed = @ \ {n}] /\ UNCHANGED pc
          /\ UNCHANGED used
     \/ Use("fault", MaxFaults) /\ EndSync(t) /\ UNCHANGED bucket
  /\ UNCHANGED <<store, process, local, restoring, now, history>>

-----------------------------------------------------------------------------
(* restore_from_cloud.                                                     *)

\* The temporary file is opened, which empties it, and filled.
Request(t, got) == /\ pc[t] = "idle" /\ Started /\ Use("call", MaxCalls)
                   /\ down' = got
                   /\ upsets' = upsets \cup IF Busy(Restoring) # {} THEN {"shared temp"} ELSE {}
                   /\ UNCHANGED <<store, process, local, bucket, safety, temp, now,
                                  latest, since>>
\* Variant: the failure goes unnoticed.
DownloadCutShort(t) == \E n \in Objects :
                         /\ Request(t, Empty)
                         /\ loc' = [loc EXCEPT ![t] = [@ EXCEPT !.image = bucket[n].image]]
                         /\ Goto(t, "unpack")
Download(t) == \E n \in Objects :
                 /\ Request(t, bucket[n].image)
                 /\ loc' = [loc EXCEPT ![t] = [@ EXCEPT !.name = n, !.image = bucket[n].image]]
                 /\ Goto(t, "unpack")
\* There is no such object, or the request raises.
DownloadFails(t) == /\ Request(t, Empty)
                    /\ Goto(t, "clean") /\ UNCHANGED loc

\* Variant: the key of the envelope is not the matter.
OpensAny(image) == image.seal > 0
\* The header or the name tells that there is an envelope; decryption
\* authenticates it.
Opens(image) == image.seal = key
Enveloped(image, n) == image.seal > 0 \/ n.enc

\* Variant: decrypted in place.
UnpackInPlace(t) ==
  /\ pc[t] = "unpack"
  /\ IF down # Nothing /\ (Enveloped(down, loc[t].name) => Opens(down))
     THEN /\ temp' = Image(down.rows, 0) /\ down' = Nothing
          /\ main' = [main EXCEPT ![path] = down.rows]
          /\ Goto(t, "check")
     ELSE Goto(t, "clean") /\ UNCHANGED <<main, temp, down>>
  /\ UNCHANGED <<path, wal, process, local, bucket, safety, now, loc, used, history>>
Unpack(t) ==
  /\ pc[t] = "unpack"
  /\ IF down # Nothing /\ (Enveloped(down, loc[t].name) => Opens(down))
     THEN temp' = Image(down.rows, 0) /\ down' = Nothing /\ Goto(t, "check")
     ELSE Goto(t, "clean") /\ UNCHANGED <<temp, down>>
  /\ UNCHANGED <<store, process, local, bucket, safety, now, loc, used, history>>

\* Variant: the first safety copy is kept.
KeepFirst(old) == IF safety = Nothing THEN old ELSE safety
\* copy2 of the file, without the log.
SafetyCopy(old) == old

\* Rows that a copy of the file leaves out.
LogOnly == {k \in Keys : Seen(path)[k] # main[path][k]}

\* sqlite3.connect creates a missing file; what integrity_check answers is not
\* looked at. Then the safety copy.
CheckAndCopy(t) ==
  /\ pc[t] = "check"
  /\ temp' = IF temp = Nothing THEN Empty ELSE temp
  /\ safety' = SafetyCopy(Image(main[path], 0))
  /\ since' = LogOnly
  /\ Goto(t, "move")
  /\ UNCHANGED <<store, process, local, bucket, down, now, loc, used, latest, upsets>>

\* The file is no database, or the copy raises: its target has been emptied.
CheckFails(t) ==
  /\ pc[t] = "check" /\ Use("fault", MaxFaults)
  /\ temp' = IF temp = Nothing THEN Empty ELSE temp
  /\ safety' \in {safety, Empty}
  /\ Goto(t, "clean")
  /\ UNCHANGED <<store, process, local, bucket, down, now, loc, history>>

\* The rename. Connections keep the old file, the log keeps its name.
Move(t) ==
  /\ pc[t] = "move"
  /\ IF temp = Nothing THEN Goto(t, "clean") /\ UNCHANGED <<path, main, temp, loc, upsets>>
     ELSE /\ path' = path + 1
          /\ main' = [main EXCEPT ![path'] = temp.rows]
          /\ temp' = Nothing
          /\ upsets' = upsets \cup {"restored", "replaced"}
               \cup (IF wal # NoRows THEN {"mixed"} ELSE {})
               \cup (IF loc[t].name.enc \/ ForeignRows(temp.rows) = {} THEN {} ELSE {"plain"})
          /\ Return(t)
  /\ UNCHANGED <<wal, process, local, bucket, safety, down, now, used, latest, since>>

\* The except of restore_from_cloud, which returns False.
CleanUp(t) == /\ pc[t] = "clean"
              /\ down' = Nothing /\ temp' = Nothing
              /\ Return(t)
              /\ UNCHANGED <<store, process, local, bucket, safety, now, used, history>>

-----------------------------------------------------------------------------
Sync(t) == \/ \E sealed \in BOOLEAN : CreateLocalSnapshot(t, sealed)
           \/ EncryptSnapshotFile(t) \/ Upload(t) \/ UploadFails(t)
           \/ ListCloudBackups(t) \/ DeleteObject(t) \/ UnlinkEnvelope(t)
Restore(t) == \/ Download(t) \/ DownloadFails(t) \/ Unpack(t) \/ CheckAndCopy(t)
              \/ CheckFails(t) \/ Move(t) \/ CleanUp(t)
Operate(t) == /\ t \in Clients
              /\ \/ Connect(t) \/ RotateKey(t) \/ Checkpoint(t)
                 \/ \E k \in Keys : KvSet(t, k)

\* The calls are used up.
Finished == /\ \A t \in Threads : pc[t] = "idle"
            /\ UNCHANGED vars

Next == \/ \E t \in Threads : Operate(t) \/ Sync(t) \/ Restore(t)
        \/ Tick \/ Crash \/ Finished

Spec == Init /\ [][Next]_vars

-----------------------------------------------------------------------------
Calm(exceptions) == upsets \cap exceptions = {}

\* Without a restore the database has the last write of every key, whatever
\* snapshots, rotations, checkpoints, kills and failed restores there were:
\* restore_from_cloud changes DB_PATH by the final rename or not at all.
KeptUntilRestored ==
  Calm({"restored"}) => \A k \in Keys : Seen(path)[k].num = latest[k]

\* All rows are under the active key, also after the restore of an envelope:
\* one from before a rotation does not open, and none holds rows of another
\* key than its own. Two moments are excepted: a rotation between the
\* snapshot and its encryption, or between the decryption and the rename; and
\* with them plain snapshots, shared file names and a log that was not empty.
RowsReadable ==
  Calm({"mixed", "turned", "plain", "shared name", "shared temp"})
    => ForeignRows(Seen(path)) = {}

\* An uploaded object is the database as it was at one moment of the call,
\* with the rows that are in the log only. Two calls of one second share the
\* name of the snapshot.
UploadIsSnapshot ==
  [][\A t \in Threads : Upload(t) /\ Calm({"mixed", "shared name"})
       => bucket'[loc[t].name].image = loc[t].image]_vars

\* Pruning leaves retention_count objects that are at least as new as the one
\* it deletes, whatever other calls upload and prune meanwhile.
NewestKept ==
  [][\A n \in Objects : bucket'[n] = NoObject /\ Calm({"shared name"})
       => Cardinality({o \in Objects' : bucket'[o].at >= bucket[n].at}) >= Retention]_vars

\* The database that a restore leaves is the object it was asked for, unless
\* two restores used the temporary files at once or the old log was not empty:
\* its rows, checkpointed or not, are then replayed into the restored file.
RestoreInstalls ==
  [][\A t \in Threads : Move(t) /\ path' # path /\ Calm({"shared temp"})' /\ Calm({"mixed"})'
       => Seen(path)' = loc[t].image.rows]_vars

\* When a restore replaces the database, the safety copy has all it held, but
\* for the rows that were in the log only at the copy or were written since.
SafetyCopyWhole ==
  [][\A t \in Threads : Move(t) /\ path' # path /\ Calm({"mixed", "shared temp"})
       => \A k \in Keys \ since : safety.rows[k] = Seen(path)[k]]_vars

\* A process that was started after the last restore works on the restored
\* database in all its threads, and its filter denies none of the rows.
RestartSeesRestore ==
  /\ Calm({"replaced"}) => \A t \in Threads : conn[t] \in {0, path}
  /\ Calm({"replaced", "mixed"}) /\ Started
       => Present(Seen(path)) \subseteq bloom
=============================================================================
