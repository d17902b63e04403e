---------------------------- MODULE BackupProofs ----------------------------
(***************************************************************************)
(* Theorems about Backup, for every number of keys, threads, clients,      *)
(* snapshots, restores, rotations, kills and failing requests.             *)
(***************************************************************************)
EXTENDS Backup, FiniteSetTheorems, TLAPS

RowRecord == [num : Nat, key : Nat]
Rows == [Keys -> RowRecord]
ImageRecord == [rows : Rows, seal : Int]
Labels == {"idle", "encrypt", "upload", "list", "prune", "unlink", "unpack", "check",
           "move", "clean"}
CallRecord == [name : Names, image : ImageRecord, doomed : SUBSET Names]

\* Threads that may still rename a file over DB_PATH.
Renaming == {"unpack", "check", "move"}
Inside == Busy(Renaming)

Shape == /\ path \in Nat \ {0} /\ key \in Nat /\ now \in 1..MaxTime
         /\ main \in [Files -> Rows] /\ wal \in Rows
         /\ conn \in [Threads -> Files \cup {0}]
         /\ local \in [Names -> ImageRecord]
         /\ bucket \in [Names -> [image : ImageRecord, at : Nat]]
         /\ safety \in ImageRecord /\ down \in ImageRecord /\ temp \in ImageRecord
         /\ pc \in [Threads -> Labels] /\ loc \in [Threads -> CallRecord]
         /\ used \in [{"write", "call", "fault"} -> Nat]
         /\ latest \in [Keys -> Nat]

\* A restore is a call, and it makes at most one new file.
Budget == used.call <= MaxCalls /\ path + Cardinality(Inside) <= 1 + used.call

\* What the module starts with is well formed.
LEMMA Blanks == /\ NoRow \in RowRecord /\ NoRows \in Rows
                /\ Nothing \in ImageRecord /\ Empty \in ImageRecord /\ NoCall \in CallRecord
                /\ \A rows : Image(rows, 0) # Nothing
<1>1. NoRow \in RowRecord BY DEF NoRow, RowRecord
<1>2. NoRows \in Rows BY <1>1 DEF NoRows, Rows
<1>3. Nothing \in ImageRecord /\ Empty \in ImageRecord
  BY <1>2 DEF Nothing, Empty, Image, ImageRecord
<1>4. 1 \in 1..MaxTime BY BackupAssumption
<1>5. NoCall \in CallRecord BY <1>3, <1>4 DEF NoCall, CallRecord, Names
<1>6. ASSUME NEW rows PROVE Image(rows, 0).seal # Nothing.seal BY DEF Nothing, Image
<1> QED BY <1>1, <1>2, <1>3, <1>5, <1>6

\* A file number within the budget is one.
LEMMA CountedFile ==
  ASSUME NEW p \in Nat \ {0}, NEW c \in Nat, NEW u \in Nat, NEW m \in Nat,
         u <= m, p + c <= 1 + u
  PROVE  p \in 1..(1 + m)
OBVIOUS

\* A connection sees rows.
LEMMA SeenRows == ASSUME Shape, NEW f \in Files PROVE Seen(f) \in Rows
BY DEF Seen, Shape, Rows

\* The renaming threads are finitely many.
LEMMA InsideFinite == IsFiniteSet(Inside) /\ Cardinality(Inside) \in Nat
<1>1. Inside \subseteq Threads BY DEF Inside, Busy
<1> QED BY <1>1, BackupAssumption, FS_Subset, FS_CardinalityType

\* DB_PATH names a file.
LEMMA PathFile == ASSUME Shape, Budget PROVE path \in Files
BY InsideFinite, BackupAssumption DEF Shape, Budget, Files

\* What a step of a thread does to the number of renaming threads.
LEMMA InsideStep ==
  ASSUME pc \in [Threads -> Labels], NEW t \in Threads, NEW label, Goto(t, label)
  PROVE  /\ Cardinality(Inside') \in Nat
         /\ Cardinality(Inside') <= Cardinality(Inside) + 1
         /\ label \notin Renaming \/ pc[t] \in Renaming
              => Cardinality(Inside') <= Cardinality(Inside)
         /\ label \notin Renaming /\ pc[t] \in Renaming
              => Cardinality(Inside') = Cardinality(Inside) - 1
<1> USE InsideFinite
<1>1. \A s \in Threads : pc'[s] = IF s = t THEN label ELSE pc[s] BY DEF Goto
<1>2. CASE label \in Renaming /\ pc[t] \notin Renaming
  <2>1. t \notin Inside /\ Inside' = Inside \cup {t} BY <1>1, <1>2 DEF Inside, Busy
  <2>2. Cardinality(Inside \cup {t}) = Cardinality(Inside) + 1 BY <2>1, FS_AddElement
  <2> QED BY <2>1, <2>2, <1>2
<1>3. CASE label \in Renaming /\ pc[t] \in Renaming
  <2>1. Inside' = Inside BY <1>1, <1>3 DEF Inside, Busy
  <2> QED BY <2>1, <1>3
<1>4. CASE label \notin Renaming /\ pc[t] \in Renaming
  <2>1. t \in Inside /\ Inside' = Inside \ {t} BY <1>1, <1>4 DEF Inside, Busy
  <2>2. Cardinality(Inside \ {t}) = Cardinality(Inside) - 1 BY <2>1, FS_RemoveElement
  <2>3. Cardinality(Inside \ {t}) \in Nat BY FS_RemoveElement, FS_CardinalityType
  <2> QED BY <2>1, <2>2, <2>3, <1>4
<1>5. CASE label \notin Renaming /\ pc[t] \notin Renaming
  <2>1. Inside' = Inside BY <1>1, <1>5 DEF Inside, Busy
  <2> QED BY <2>1, <1>5
<1> QED BY <1>2, <1>3, <1>4, <1>5

\* Without a renaming thread there are none to count.
LEMMA NobodyInside == ASSUME Inside = {} PROVE Cardinality(Inside) = 0
BY FS_EmptySet

\* The first state is well formed.
LEMMA ShapeInit == Init => Shape /\ Budget
<1> SUFFICES ASSUME Init PROVE Shape /\ Budget OBVIOUS
<1>1. 1 \in 1..MaxTime BY BackupAssumption
<1>2. bucket \in [Names -> [image : ImageRecord, at : Nat]] BY Blanks DEF Init, NoObject
<1>3. used \in [{"write", "call", "fault"} -> Nat] BY DEF Init
<1>4. Shape BY Blanks, <1>1, <1>2, <1>3 DEF Init, Shape, Labels
<1>5. Inside = {} BY DEF Init, Inside, Busy, Renaming
<1>6. Budget BY <1>5, NobodyInside, BackupAssumption DEF Init, Budget
<1> QED BY <1>4, <1>6

\* Taking from a bound counts it.
LEMMA UseCount ==
  ASSUME Shape, NEW what \in {"write", "call", "fault"}, NEW max \in Nat, Use(what, max)
  PROVE  /\ used' \in [{"write", "call", "fault"} -> Nat]
         /\ used'[what] = used[what] + 1 /\ used'[what] <= max
         /\ what # "call" => used'.call = used.call
BY DEF Use, Shape

\* The end of a synchronisation leaves the program counters and locals well formed
\* and nobody is renaming for it.
LEMMA EndSyncShape ==
  ASSUME Shape, NEW t \in Threads, EndSync(t), pc[t] \notin Renaming
  PROVE  /\ pc' \in [Threads -> Labels] /\ loc' \in [Threads -> CallRecord]
         /\ Inside' = Inside
<1>1. /\ pc' \in [Threads -> Labels]
      /\ \A s \in Threads : pc'[s] = IF s = t THEN pc'[t] ELSE pc[s]
      /\ pc'[t] \in {"unlink", "idle"}
  BY DEF EndSync, Return, Goto, Shape, Labels
<1>2. loc' \in [Threads -> CallRecord] BY Blanks DEF EndSync, Return, Shape
<1>3. Inside' = Inside BY <1>1 DEF Inside, Busy, Renaming
<1> QED BY <1>1, <1>2, <1>3

\* A commit leaves rows in the log, begun anew or not.
LEMMA CommitShape ==
  ASSUME Shape, NEW t \in Threads, NEW rows, Commit(t, rows),
         \A k \in DOMAIN rows : rows[k] \in RowRecord
  PROVE  wal' \in Rows
<1>1. PICK log \in {wal} \cup IF Replayed(conn[t]) THEN {NoRows} ELSE {} :
        wal' = [k \in Keys |-> IF k \in DOMAIN rows THEN rows[k] ELSE log[k]]
  BY DEF Commit
<1>2. log \in Rows BY <1>1, Blanks DEF Shape
<1> QED BY <1>1, <1>2 DEF Rows

\* Steps of the store keep the state well formed.
LEMMA ShapeOperate ==
  ASSUME Shape, Budget, NEW t \in Threads, Operate(t)
  PROVE  Shape' /\ Budget'
<1> USE DEF store, process, restoring, calls, history
<1>0. Cardinality(Inside) \in Nat BY InsideFinite
<1>1. CASE Connect(t)
  <2>1. path \in Files BY PathFile
  <2> QED BY <1>1, <2>1 DEF Connect, Shape, Budget, Inside, Busy
<1>2. CASE RotateKey(t)
  <2> DEFINE seen == Seen(conn[t])
             mine == Present(seen) \ ForeignRows(seen)
             rows == [k \in mine |-> [seen[k] EXCEPT !.key = key']]
  <2>1. conn[t] \in Files /\ key' \in Nat BY <1>2 DEF RotateKey, Commit, Shape
  <2>2. seen \in Rows BY <2>1, SeenRows
  <2>3. mine \subseteq Keys BY DEF Present
  <2>4. \A k \in mine : rows[k] \in RowRecord BY <2>1, <2>2, <2>3 DEF Rows, RowRecord
  <2>5. wal' \in Rows
    <3>1. Commit(t, rows) BY <1>2 DEF RotateKey
    <3> HIDE DEF rows
    <3>2. DOMAIN rows = mine BY DEF rows
    <3> QED BY <2>4, <3>1, <3>2, CommitShape
  <2>6. used' \in [{"write", "call", "fault"} -> Nat] /\ used'.call = used.call + 1
        /\ used'.call <= MaxCalls
    BY <1>2, UseCount, BackupAssumption DEF RotateKey
  <2>7. Inside' = Inside BY <1>2 DEF RotateKey, Commit, Inside, Busy
  <2> QED BY <1>2, <2>1, <2>5, <2>6, <2>7, <1>0 DEF RotateKey, Commit, Shape, Budget
<1>3. CASE Checkpoint(t)
  <2>1. conn[t] \in Files BY <1>3 DEF Checkpoint, Shape
  <2>2. Seen(conn[t]) \in Rows BY <2>1, SeenRows
  <2>3. main' \in [Files -> Rows] /\ wal' \in Rows
    <3>1. CASE main' = [main EXCEPT ![conn[t]] = Seen(conn[t])] /\ wal' = NoRows
      BY <2>2, <3>1, Blanks DEF Shape
    <3>2. ASSUME NEW K \in SUBSET Keys,
                 main' = [main EXCEPT ![conn[t]] =
                           [k \in Keys |-> IF k \in K THEN Seen(conn[t])[k] ELSE @[k]]]
          PROVE  main' \in [Files -> Rows]
      <4>1. main[conn[t]] \in Rows BY <2>1 DEF Shape
      <4>2. [k \in Keys |-> IF k \in K THEN Seen(conn[t])[k] ELSE main[conn[t]][k]] \in Rows
        BY <2>2, <4>1 DEF Rows
      <4> QED BY <3>2, <4>2 DEF Shape
    <3> QED BY <1>3, <3>1, <3>2 DEF Checkpoint, Shape
  <2> QED BY <1>3, <2>3 DEF Checkpoint, Shape, Budget, Inside, Busy
<1>4. ASSUME NEW k \in Keys, KvSet(t, k) PROVE Shape' /\ Budget'
  <2>1. used' \in [{"write", "call", "fault"} -> Nat] /\ used'.call = used.call
    BY <1>4, UseCount, BackupAssumption DEF KvSet
  <2>2. [num |-> used'.write, key |-> key] \in RowRecord BY <2>1 DEF RowRecord, Shape
  <2>3. wal' \in Rows
    <3> DEFINE rows == [x \in {k} |-> [num |-> used'.write, key |-> key]]
    <3>1. Commit(t, rows) BY <1>4 DEF KvSet
    <3>2. \A x \in DOMAIN rows : rows[x] \in RowRecord BY <2>2
    <3> HIDE DEF rows
    <3> QED BY <3>1, <3>2, CommitShape
  <2>4. latest' \in [Keys -> Nat] BY <1>4, <2>1 DEF KvSet, Shape
  <2> QED BY <1>4, <2>1, <2>3, <2>4 DEF KvSet, Commit, Shape, Budget, Inside, Busy
<1> QED BY <1>1, <1>2, <1>3, <1>4 DEF Operate

\* Steps of a synchronisation keep the state well formed.
LEMMA ShapeSync ==
  ASSUME Shape, Budget, NEW t \in Threads, Sync(t)
  PROVE  Shape' /\ Budget'
<1> USE DEF store, process, restoring, calls, history
<1>0. Cardinality(Inside) \in Nat BY InsideFinite
<1>1. ASSUME NEW sealed \in BOOLEAN, CreateLocalSnapshot(t, sealed) PROVE Shape' /\ Budget'
  <2> DEFINE name == [sec |-> now, enc |-> FALSE]
  <2>1. path \in Files BY PathFile
  <2>2. Image(Seen(path), 0) \in ImageRecord /\ Image(Backup(path), 0) \in ImageRecord
    BY <2>1, SeenRows DEF Backup, Image, ImageRecord
  <2>3. name \in Names BY DEF Names, Shape
  <2>4. local' \in [Names -> ImageRecord]
    BY <1>1, <2>2 DEF CreateLocalSnapshot, Shape
  <2>5. [loc[t] EXCEPT !.name = name, !.image = Image(Seen(path), 0)] \in CallRecord
    <3>1. loc[t] \in CallRecord BY DEF Shape
    <3> QED BY <2>2, <2>3, <3>1 DEF CallRecord
  <2>6. loc' \in [Threads -> CallRecord] BY <1>1, <2>5 DEF CreateLocalSnapshot, Shape
  <2>7. used' \in [{"write", "call", "fault"} -> Nat] /\ used'.call = used.call + 1
        /\ used'.call <= MaxCalls
    BY <1>1, UseCount, BackupAssumption DEF CreateLocalSnapshot
  <2>8. pc' \in [Threads -> Labels]
    BY <1>1 DEF CreateLocalSnapshot, Goto, Shape, Labels
  <2>9. Inside' = Inside
    BY <1>1 DEF CreateLocalSnapshot, Goto, Inside, Busy, Renaming, Shape
  <2>10. UNCHANGED <<path, main, wal, conn, key, bucket, safety, down, temp, now, latest>>
    BY <1>1 DEF CreateLocalSnapshot
  <2>11. Shape'
    <3>1. used' \in [{"write", "call", "fault"} -> Nat] BY <2>7
    <3> QED BY <2>4, <2>6, <2>8, <2>10, <3>1 DEF Shape
  <2>12. path \in Nat /\ used.call \in Nat BY DEF Shape
  <2> QED BY <2>7, <2>9, <2>10, <2>11, <2>12, <1>0 DEF Budget
<1>2. CASE EncryptSnapshotFile(t)
  <2> DEFINE sealed == [loc[t].name EXCEPT !.enc = TRUE]
  <2>1. loc[t].name \in Names /\ sealed \in Names BY DEF Shape, CallRecord, Names
  <2>2. Image(local[loc[t].name].rows, key) \in ImageRecord
    BY <2>1 DEF Shape, Image, ImageRecord
  <2>3. local' \in [Names -> ImageRecord] BY <1>2, <2>2 DEF EncryptSnapshotFile, Shape
  <2>4. [loc[t] EXCEPT !.name = sealed, !.image = Image(loc[t].image.rows, key)] \in CallRecord
    <3>1. loc[t] \in CallRecord /\ key \in Nat BY DEF Shape
    <3>2. Image(loc[t].image.rows, key) \in ImageRecord
      BY <3>1 DEF CallRecord, ImageRecord, Image
    <3> QED BY <2>1, <3>1, <3>2 DEF CallRecord
  <2>5. loc' \in [Threads -> CallRecord] BY <1>2, <2>4 DEF EncryptSnapshotFile, Shape
  <2>6. pc' \in [Threads -> Labels] /\ Inside' = Inside
    BY <1>2 DEF EncryptSnapshotFile, Goto, Shape, Labels, Inside, Busy, Renaming
  <2> QED BY <1>2, <2>3, <2>5, <2>6 DEF EncryptSnapshotFile, Shape, Budget
<1>3. CASE Upload(t)
  <2>1. loc[t].name \in Names BY DEF Shape, CallRecord
  <2>2. now \in Nat BY BackupAssumption DEF Shape
  <2>3. bucket' \in [Names -> [image : ImageRecord, at : Nat]]
    BY <1>3, <2>1, <2>2 DEF Upload, Shape
  <2>4. [loc[t] EXCEPT !.image = Nothing] \in CallRecord BY Blanks DEF Shape, CallRecord
  <2>5. loc' \in [Threads -> CallRecord] BY <1>3, <2>4 DEF Upload, Shape
  <2>6. pc' \in [Threads -> Labels] /\ Inside' = Inside
    BY <1>3 DEF Upload, Goto, Shape, Labels, Inside, Busy, Renaming
  <2> QED BY <1>3, <2>3, <2>5, <2>6 DEF Upload, Shape, Budget
<1>4. CASE UploadFails(t)
  <2>1. used' \in [{"write", "call", "fault"} -> Nat] /\ used'.call = used.call
    BY <1>4, UseCount, BackupAssumption DEF UploadFails, Shape
  <2>2. pc[t] \notin Renaming BY <1>4 DEF UploadFails, Renaming
  <2> QED BY <1>4, <2>1, <2>2, EndSyncShape DEF UploadFails, Shape, Budget
<1>5. CASE ListCloudBackups(t)
  <2>1. used' \in [{"write", "call", "fault"} -> Nat] /\ used'.call = used.call
    BY <1>5, UseCount, BackupAssumption DEF ListCloudBackups, Shape
  <2>2. pc[t] = "list" /\ pc[t] \notin Renaming BY <1>5 DEF ListCloudBackups, Renaming
  <2>3. pc' \in [Threads -> Labels] /\ loc' \in [Threads -> CallRecord] /\ Inside' = Inside
    <3>1. CASE EndSync(t) BY <3>1, <2>2, EndSyncShape
    <3>2. CASE loc' = [loc EXCEPT ![t].doomed = Surplus] /\ Goto(t, "prune")
      <4>1. [loc[t] EXCEPT !.doomed = Surplus] \in CallRecord
        BY DEF Shape, CallRecord, Surplus, Objects
      <4>2. pc' \in [Threads -> Labels] /\ Inside' = Inside
        BY <3>2, <2>2 DEF Goto, Shape, Labels, Inside, Busy, Renaming
      <4> QED BY <3>2, <4>1, <4>2 DEF Shape
    <3> QED BY <1>5, <3>1, <3>2 DEF ListCloudBackups
  <2> QED BY <1>5, <2>1, <2>3 DEF ListCloudBackups, Shape, Budget
<1>6. CASE DeleteObject(t)
  <2>1. used' \in [{"write", "call", "fault"} -> Nat] /\ used'.call = used.call
    BY <1>6, UseCount, BackupAssumption DEF DeleteObject, Shape
  <2>2. pc[t] = "prune" /\ pc[t] \notin Renaming BY <1>6 DEF DeleteObject, Renaming
  <2>3. pc' \in [Threads -> Labels] /\ loc' \in [Threads -> CallRecord] /\ Inside' = Inside
    <3>1. CASE EndSync(t) BY <3>1, <2>2, EndSyncShape
    <3>2. ASSUME NEW n, loc' = [loc EXCEPT ![t].doomed = @ \ {n}], UNCHANGED pc
          PROVE  /\ pc' \in [Threads -> Labels] /\ loc' \in [Threads -> CallRecord]
                 /\ Inside' = Inside
      <4>1. [loc[t] EXCEPT !.doomed = @ \ {n}] \in CallRecord BY DEF Shape, CallRecord
      <4> QED BY <3>2, <4>1 DEF Shape, Inside, Busy
    <3> QED BY <1>6, <3>1, <3>2 DEF DeleteObject
  <2>4. bucket' \in [Names -> [image : ImageRecord, at : Nat]]
    BY <1>6, Blanks DEF DeleteObject, Shape, NoObject
  <2> QED BY <1>6, <2>1, <2>3, <2>4 DEF DeleteObject, Shape, Budget
<1>7. CASE UnlinkEnvelope(t)
  <2>1. pc' \in [Threads -> Labels] /\ Inside' = Inside
    BY <1>7 DEF UnlinkEnvelope, Return, Goto, Shape, Labels, Inside, Busy, Renaming
  <2>2. loc' \in [Threads -> CallRecord] BY <1>7, Blanks DEF UnlinkEnvelope, Return, Shape
  <2>3. local' \in [Names -> ImageRecord] BY <1>7, Blanks DEF UnlinkEnvelope, Shape
  <2> QED BY <1>7, <2>1, <2>2, <2>3 DEF UnlinkEnvelope, Shape, Budget
<1> QED BY <1>1, <1>2, <1>3, <1>4, <1>5, <1>6, <1>7 DEF Sync

\* Steps of a restore keep the state well formed; one that renames has room for it.
LEMMA ShapeRestore ==
  ASSUME Shape, Budget, NEW t \in Threads, Restore(t)
  PROVE  Shape' /\ Budget'
<1> USE DEF store, process, restoring, calls, history
<1>0. Cardinality(Inside) \in Nat BY InsideFinite
<1>1. ASSUME NEW got \in ImageRecord, NEW label \in {"unpack", "clean"}, Request(t, got),
             Goto(t, label), loc' \in [Threads -> CallRecord]
      PROVE  Shape' /\ Budget'
  <2>1. used' \in [{"write", "call", "fault"} -> Nat] /\ used'.call = used.call + 1
        /\ used'.call <= MaxCalls
    BY <1>1, UseCount, BackupAssumption DEF Request
  <2>2. Cardinality(Inside') \in Nat /\ Cardinality(Inside') <= Cardinality(Inside) + 1
    BY <1>1, InsideStep DEF Shape
  <2>3. pc' \in [Threads -> Labels] BY <1>1 DEF Goto, Shape, Labels
  <2>4. UNCHANGED <<path, main, wal, conn, key, local, bucket, safety, temp, now, latest>>
        /\ down' = got
    BY <1>1 DEF Request
  <2>5. Shape' BY <1>1, <2>1, <2>3, <2>4 DEF Shape
  <2>6. path \in Nat /\ used.call \in Nat BY DEF Shape
  <2> QED BY <1>0, <2>1, <2>2, <2>4, <2>5, <2>6 DEF Budget
<1>2. CASE Download(t)
  <2>1. PICK n \in Objects : /\ Request(t, bucket[n].image) /\ Goto(t, "unpack")
                             /\ loc' = [loc EXCEPT ![t] = [@ EXCEPT !.name = n,
                                                    !.image = bucket[n].image]]
    BY <1>2 DEF Download
  <2>2. n \in Names /\ bucket[n].image \in ImageRecord BY DEF Objects, Shape
  <2>3. [loc[t] EXCEPT !.name = n, !.image = bucket[n].image] \in CallRecord
    <3>1. loc[t] \in CallRecord BY DEF Shape
    <3> QED BY <2>2, <3>1 DEF CallRecord
  <2>4. loc' \in [Threads -> CallRecord] BY <2>1, <2>3 DEF Shape
  <2> QED BY <2>1, <2>2, <2>4, <1>1
<1>3. CASE DownloadFails(t)
  <2>1. loc' \in [Threads -> CallRecord] BY <1>3 DEF DownloadFails, Shape
  <2> QED BY <1>1, <1>3, <2>1, Blanks DEF DownloadFails
<1>4. CASE Unpack(t)
  <2>1. Image(down.rows, 0) \in ImageRecord BY DEF Image, ImageRecord, Shape
  <2>2. PICK label \in {"check", "clean"} : Goto(t, label) BY <1>4 DEF Unpack
  <2>3. Cardinality(Inside') \in Nat /\ Cardinality(Inside') <= Cardinality(Inside)
    BY <1>4, <2>2, InsideStep DEF Unpack, Renaming, Shape
  <2>4. pc' \in [Threads -> Labels] BY <2>2 DEF Goto, Shape, Labels
  <2> QED BY <1>0, <1>4, <2>1, <2>3, <2>4, Blanks DEF Unpack, Shape, Budget
<1>5. CASE CheckAndCopy(t)
  <2>1. path \in Files BY PathFile
  <2>2. Image(main[path], 0) \in ImageRecord BY <2>1 DEF Image, ImageRecord, Shape
  <2>3. Cardinality(Inside') \in Nat /\ Cardinality(Inside') <= Cardinality(Inside)
    BY <1>5, InsideStep DEF CheckAndCopy, Renaming, Shape
  <2>4. pc' \in [Threads -> Labels] BY <1>5 DEF CheckAndCopy, Goto, Shape, Labels
  <2> QED BY <1>0, <1>5, <2>2, <2>3, <2>4, Blanks
      DEF CheckAndCopy, SafetyCopy, Shape, Budget
<1>6. CASE Move(t)
  <2>1. PICK label \in {"clean", "idle"} : Goto(t, label) BY <1>6 DEF Move, Return
  <2>2. Cardinality(Inside') \in Nat /\ Cardinality(Inside') = Cardinality(Inside) - 1
    BY <1>6, <2>1, InsideStep DEF Move, Renaming, Shape
  <2>3. pc' \in [Threads -> Labels] BY <2>1 DEF Goto, Shape, Labels
  <2>4. loc' \in [Threads -> CallRecord] BY <1>6, Blanks DEF Move, Return, Shape
  <2>5. main' \in [Files -> Rows] BY <1>6 DEF Move, Shape, ImageRecord
  <2>6. path' \in Nat \ {0} /\ path' <= path + 1 BY <1>6 DEF Move, Shape
  <2>7. temp' \in ImageRecord BY <1>6, Blanks DEF Move, Shape
  <2> QED BY <1>0, <1>6, <2>2, <2>3, <2>4, <2>5, <2>6, <2>7 DEF Move, Shape, Budget
<1>8. CASE CheckFails(t)
  <2>1. used' \in [{"write", "call", "fault"} -> Nat] /\ used'.call = used.call
    BY <1>8, UseCount, BackupAssumption DEF CheckFails
  <2>2. Cardinality(Inside') \in Nat /\ Cardinality(Inside') <= Cardinality(Inside)
    BY <1>8, InsideStep DEF CheckFails, Renaming, Shape
  <2>3. pc' \in [Threads -> Labels] BY <1>8 DEF CheckFails, Goto, Shape, Labels
  <2> QED BY <1>0, <1>8, <2>1, <2>2, <2>3, Blanks DEF CheckFails, Shape, Budget
<1>7. CASE CleanUp(t)
  <2>1. Cardinality(Inside') \in Nat /\ Cardinality(Inside') <= Cardinality(Inside)
    BY <1>7, InsideStep DEF CleanUp, Return, Renaming, Shape
  <2>2. pc' \in [Threads -> Labels] BY <1>7 DEF CleanUp, Return, Goto, Shape, Labels
  <2>3. loc' \in [Threads -> CallRecord] BY <1>7, Blanks DEF CleanUp, Return, Shape
  <2> QED BY <1>0, <1>7, <2>1, <2>2, <2>3, Blanks DEF CleanUp, Shape, Budget
<1> QED BY <1>2, <1>3, <1>4, <1>5, <1>6, <1>7, <1>8 DEF Restore

\* The rename names a file.
LEMMA NextPathFile == ASSUME Shape, Budget, NEW t \in Threads, Restore(t) PROVE path' \in Files
<1>1. Shape' /\ Budget' BY ShapeRestore
<1>2. Inside' \subseteq Threads BY DEF Inside, Busy
<1>3. Cardinality(Inside') \in Nat
  BY <1>2, BackupAssumption, FS_Subset, FS_CardinalityType
<1>4. path' \in Nat \ {0} /\ used'.call \in Nat BY <1>1 DEF Shape
<1>5. used'.call <= MaxCalls /\ path' + Cardinality(Inside') <= 1 + used'.call
  BY <1>1 DEF Budget
<1>6. MaxCalls \in Nat BY BackupAssumption
<1> QED BY <1>3, <1>4, <1>5, <1>6, CountedFile DEF Files

\* Every step keeps the state well formed.
LEMMA ShapeNext == ASSUME Shape, Budget, [Next]_vars PROVE Shape' /\ Budget'
<1> USE DEF store, process, restoring, calls, history
<1>0. Cardinality(Inside) \in Nat BY InsideFinite
<1>1. CASE Tick
  <2>1. now' \in 1..MaxTime BY <1>1, BackupAssumption DEF Tick, Shape
  <2> QED BY <1>1, <2>1 DEF Tick, Shape, Budget, Inside, Busy
<1>2. CASE Crash
  <2>1. used' \in [{"write", "call", "fault"} -> Nat] /\ used'.call = used.call
    BY <1>2, UseCount, BackupAssumption DEF Crash
  <2>2. Inside' = {} BY <1>2 DEF Crash, Inside, Busy, Renaming
  <2>3. Cardinality(Inside') = 0 BY <2>2, FS_EmptySet
  <2>4. pc' \in [Threads -> Labels] /\ loc' \in [Threads -> CallRecord]
    BY <1>2, Blanks DEF Crash, Labels
  <2> QED BY <1>0, <1>2, <2>1, <2>3, <2>4 DEF Crash, Shape, Budget
<1>3. CASE UNCHANGED vars BY <1>3 DEF vars, Shape, Budget, Inside, Busy
<1>4. CASE Finished BY <1>3, <1>4 DEF Finished
<1> QED BY <1>1, <1>2, <1>3, <1>4, ShapeOperate, ShapeSync, ShapeRestore DEF Next

-----------------------------------------------------------------------------
(* What the database holds.                                                *)

\* The steps that leave the database and the process alone.
Background == /\ UNCHANGED <<path, main, wal, conn, bloom, key, latest>>
              /\ upsets \subseteq upsets'

\* All other steps are those of a client, a kill and the rename.
LEMMA Foreground ==
  ASSUME [Next]_vars
  PROVE  \/ Background
         \/ Crash
         \/ \E t \in Threads : Operate(t) \/ (Move(t) /\ temp # Nothing)
<1> USE DEF store, process, restoring, calls, history
<1>1. CASE Tick \/ Finished \/ UNCHANGED vars
  BY <1>1 DEF Tick, Finished, vars, Background
<1>2. ASSUME NEW t \in Threads, Sync(t) PROVE Background
  BY <1>2 DEF Sync, CreateLocalSnapshot, EncryptSnapshotFile, Upload, UploadFails,
              ListCloudBackups, DeleteObject, UnlinkEnvelope, Background
<1>3. ASSUME NEW t \in Threads, Restore(t), ~(Move(t) /\ temp # Nothing) PROVE Background
  BY <1>3 DEF Restore, Download, DownloadFails, Request, Unpack, CheckAndCopy, CheckFails, Move,
              CleanUp, Background
<1> QED BY <1>1, <1>2, <1>3 DEF Next

\* A commit through a connection on the database shows what it commits and no more.
LEMMA CommitSeen ==
  ASSUME NEW t \in Threads, NEW rows, Commit(t, rows), conn[t] = path
  PROVE  /\ path' = path /\ main' = main
         /\ \A k \in Keys \cap DOMAIN rows : wal'[k] = rows[k]
         /\ \A k \in Keys \ DOMAIN rows : Seen(path)'[k] = Seen(path)[k]
         /\ \A k \in Keys : Seen(path)'[k] = IF wal'[k] # NoRow THEN wal'[k] ELSE main[path][k]
<1>1. path' = path /\ main' = main BY DEF Commit
<1>2. PICK log \in {wal} \cup IF Replayed(path) THEN {NoRows} ELSE {} :
        wal' = [k \in Keys |-> IF k \in DOMAIN rows THEN rows[k] ELSE log[k]]
  BY DEF Commit
<1>3. \A k \in Keys : Seen(path)'[k] = IF wal'[k] # NoRow THEN wal'[k] ELSE main[path][k]
  BY <1>1 DEF Seen
<1>4. ASSUME NEW k \in Keys, k \notin DOMAIN rows PROVE Seen(path)'[k] = Seen(path)[k]
  <2>1. wal'[k] = log[k] BY <1>2, <1>4
  <2>2. CASE log = wal BY <1>3, <2>1, <2>2 DEF Seen
  <2>3. CASE log = NoRows /\ Replayed(path)
    BY <1>3, <2>1, <2>3 DEF Seen, NoRows, Replayed
  <2> QED BY <1>2, <2>2, <2>3
<1> QED BY <1>1, <1>2, <1>3, <1>4

\* A rotation through a connection on the database keeps every row's number.
LEMMA RotationKeepsRows ==
  ASSUME Shape, NEW t \in Threads, RotateKey(t), conn[t] = path, path \in Files
  PROVE  \A k \in Keys : /\ Seen(path)'[k].num = Seen(path)[k].num
                         /\ Seen(path)'[k] = NoRow <=> Seen(path)[k] = NoRow
<1> DEFINE seen == Seen(path)
           mine == Present(seen) \ ForeignRows(seen)
           rows == [k \in mine |-> [seen[k] EXCEPT !.key = key + 1]]
<1>1. seen \in Rows BY SeenRows
<1>2. key' = key + 1 /\ key \in Nat /\ Commit(t, rows) BY DEF RotateKey, Shape
<1>3. DOMAIN rows = mine /\ mine \subseteq Keys
      /\ \A k \in mine : rows[k] = [seen[k] EXCEPT !.key = key + 1]
  BY DEF Present
<1> HIDE DEF rows
<1>4. /\ \A k \in mine : wal'[k] = [seen[k] EXCEPT !.key = key + 1]
      /\ \A k \in Keys : Seen(path)'[k] = IF wal'[k] # NoRow THEN wal'[k] ELSE main[path][k]
      /\ \A k \in Keys \ mine : Seen(path)'[k] = seen[k]
  <2> HIDE DEF mine
  <2> QED BY <1>2, <1>3, CommitSeen
<1>5. ASSUME NEW k \in Keys, k \in mine
      PROVE  Seen(path)'[k].num = seen[k].num /\ Seen(path)'[k] # NoRow /\ seen[k] # NoRow
  <2>1. seen[k] \in RowRecord BY <1>1 DEF Rows
  <2>2. [seen[k] EXCEPT !.key = key + 1].num = seen[k].num
        /\ [seen[k] EXCEPT !.key = key + 1].key = key + 1
    BY <2>1 DEF RowRecord
  <2>3. key + 1 # 0 /\ NoRow.key = 0 BY <1>2 DEF NoRow
  <2>4. [seen[k] EXCEPT !.key = key + 1] # NoRow BY <2>2, <2>3
  <2> QED BY <1>4, <1>5, <2>2, <2>4 DEF Present
<1>6. ASSUME NEW k \in Keys, k \notin mine PROVE Seen(path)'[k] = seen[k]
  BY <1>4, <1>6
<1> QED BY <1>5, <1>6

\* A document that is written is what its file's connections see of it.
LEMMA WriteSeen ==
  ASSUME Shape, NEW t \in Threads, NEW k \in Keys, KvSet(t, k), path \in Files,
         conn[t] = path
  PROVE  /\ Seen(path)'[k] = [num |-> used'.write, key |-> key]
         /\ Seen(path)'[k] # NoRow /\ Seen(path)'[k].num = latest'[k]
         /\ \A x \in Keys \ {k} : Seen(path)'[x] = Seen(path)[x] /\ latest'[x] = latest[x]
<1> DEFINE rows == [x \in {k} |-> [num |-> used'.write, key |-> key]]
<1>1. Commit(t, rows) BY DEF KvSet
<1>2. DOMAIN rows = {k} /\ rows[k] = [num |-> used'.write, key |-> key] OBVIOUS
<1> HIDE DEF rows
<1>3. used'.write = used.write + 1 /\ used.write \in Nat BY DEF KvSet, Use, Shape
<1>4. [num |-> used'.write, key |-> key].num # NoRow.num BY <1>3 DEF NoRow
<1>5. /\ wal'[k] = [num |-> used'.write, key |-> key]
      /\ Seen(path)'[k] = IF wal'[k] # NoRow THEN wal'[k] ELSE main[path][k]
      /\ \A x \in Keys \ {k} : Seen(path)'[x] = Seen(path)[x]
  BY <1>1, <1>2, CommitSeen
<1>6. Seen(path)'[k] = [num |-> used'.write, key |-> key] /\ Seen(path)'[k] # NoRow
  BY <1>4, <1>5
<1>8. latest'[k] = used'.write /\ \A x \in Keys \ {k} : latest'[x] = latest[x]
  BY DEF KvSet, Shape
<1> QED BY <1>5, <1>6, <1>8

\* A checkpoint through a connection on the database does not show.
LEMMA CheckpointUnseen ==
  ASSUME Shape, NEW t \in Threads, Checkpoint(t), path \in Files,
         conn[t] = path \/ wal = NoRows
  PROVE  path' = path /\ \A k \in Keys : Seen(path)'[k] = Seen(path)[k]
<1>1. path' = path BY DEF Checkpoint
<1>2. CASE main' = [main EXCEPT ![conn[t]] = Seen(conn[t])] /\ wal' = NoRows
  <2>1. \A k \in Keys : Seen(path)'[k] = main'[path][k] BY <1>1, <1>2 DEF Seen, NoRows
  <2>2. CASE conn[t] = path BY <1>1, <1>2, <2>1, <2>2 DEF Shape
  <2>3. CASE conn[t] # path /\ wal = NoRows
    <3>1. main'[path] = main[path] BY <1>2, <2>3 DEF Shape
    <3>2. \A k \in Keys : Seen(path)[k] = main[path][k] BY <2>3 DEF Seen, NoRows
    <3> QED BY <1>1, <2>1, <3>1, <3>2
  <2> QED BY <2>2, <2>3
<1>3. ASSUME NEW K \in SUBSET Keys, wal' = wal,
             main' = [main EXCEPT ![conn[t]] =
                       [k \in Keys |-> IF k \in K THEN Seen(conn[t])[k] ELSE @[k]]]
      PROVE  \A k \in Keys : Seen(path)'[k] = Seen(path)[k]
  <2>1. \A k \in Keys : Seen(path)'[k] = IF wal[k] # NoRow THEN wal[k] ELSE main'[path][k]
    BY <1>1, <1>3 DEF Seen
  <2>2. CASE conn[t] = path
    <3>1. main'[path] = [k \in Keys |-> IF k \in K THEN Seen(path)[k] ELSE main[path][k]]
      BY <1>3, <2>2 DEF Shape
    <3> QED BY <2>1, <3>1 DEF Seen
  <2>3. CASE conn[t] # path
    <3>1. main'[path] = main[path] BY <1>3, <2>3 DEF Shape
    <3> QED BY <2>1, <3>1 DEF Seen
  <2> QED BY <2>2, <2>3
<1> QED BY <1>1, <1>2, <1>3 DEF Checkpoint

\* Before the first restore there is one file and it has the last writes.
Kept == "restored" \notin upsets
          => /\ path = 1 /\ \A t \in Threads : conn[t] \in {0, path}
             /\ \A k \in Keys : Seen(path)[k].num = latest[k]

\* Every step keeps the last writes.
LEMMA KeptNext == ASSUME Shape, Budget, Kept, [Next]_vars PROVE Kept'
<1> SUFFICES ASSUME "restored" \notin upsets'
             PROVE  /\ path' = 1 /\ \A t \in Threads : conn'[t] \in {0, path'}
                    /\ \A k \in Keys : Seen(path)'[k].num = latest'[k]
  BY DEF Kept
<1> USE DEF store, process, restoring, calls, history
<1>0. path \in Files BY PathFile
<1>1. CASE Background BY <1>1 DEF Background, Kept, Seen
<1>2. CASE Crash BY <1>2 DEF Crash, Kept, Seen
<1>3. ASSUME NEW t \in Threads, Move(t), temp # Nothing PROVE FALSE BY <1>3 DEF Move
<1>4. ASSUME NEW t \in Threads, Operate(t)
      PROVE  /\ path' = 1 /\ \A s \in Threads : conn'[s] \in {0, path'}
             /\ \A k \in Keys : Seen(path)'[k].num = latest'[k]
  <2>0. "restored" \notin upsets
    BY <1>4 DEF Operate, Connect, KvSet, RotateKey, Checkpoint, Commit
  <2>1. CASE Connect(t) BY <2>0, <2>1 DEF Connect, Kept, Seen, Shape
  <2>2. ASSUME NEW k \in Keys, KvSet(t, k)
        PROVE  /\ path' = 1 /\ \A s \in Threads : conn'[s] \in {0, path'}
               /\ \A x \in Keys : Seen(path)'[x].num = latest'[x]
    <3>1. path' = path /\ conn' = conn /\ conn[t] # 0 BY <2>2 DEF KvSet, Commit
    <3>2. conn[t] = path BY <2>0, <3>1 DEF Kept
    <3> QED BY <1>0, <2>0, <2>2, <3>1, <3>2, WriteSeen DEF Kept
  <2>3. CASE RotateKey(t)
    <3>1. path' = path /\ conn' = conn /\ latest' = latest /\ conn[t] # 0
      BY <2>3 DEF RotateKey, Commit
    <3>2. conn[t] = path BY <2>0, <3>1 DEF Kept
    <3> QED BY <1>0, <2>0, <2>3, <3>1, <3>2, RotationKeepsRows DEF Kept
  <2>4. CASE Checkpoint(t)
    <3>1. conn' = conn /\ latest' = latest /\ conn[t] # 0 BY <2>4 DEF Checkpoint
    <3>2. conn[t] = path BY <2>0, <3>1 DEF Kept
    <3> QED BY <1>0, <2>0, <2>4, <3>1, <3>2, CheckpointUnseen DEF Kept
  <2> QED BY <1>4, <2>1, <2>2, <2>3, <2>4 DEF Operate
<1> QED BY <1>1, <1>2, <1>3, <1>4, Foreground

\* Without a restore the database has the last write of every key, whatever snapshots,
\* rotations, checkpoints, kills and failed restores of cloud_sync.py there were.
THEOREM KeptUntilRestoredAlways == Spec => []KeptUntilRestored
<1>1. Init => Kept
  BY BackupAssumption DEF Init, Kept, Seen, NoRows, NoRow, Files
<1>2. Shape /\ Budget /\ Kept /\ [Next]_vars => Shape' /\ Budget' /\ Kept'
  BY ShapeNext, KeptNext
<1>3. Kept => KeptUntilRestored BY DEF Kept, KeptUntilRestored, Calm
<1> QED BY <1>1, <1>2, <1>3, ShapeInit, PTL DEF Spec

-----------------------------------------------------------------------------
(* A process after a restore.                                              *)

\* A process that saw no rename is on the database, with a filter of its rows.
Settled == "replaced" \notin upsets
             => /\ \A t \in Threads : conn[t] \in {0, path}
                /\ Started => Present(Seen(path)) \subseteq bloom

\* Every step keeps that.
LEMMA SettledNext == ASSUME Shape, Budget, Settled, [Next]_vars PROVE Settled'
<1> SUFFICES ASSUME "replaced" \notin upsets'
             PROVE  /\ \A t \in Threads : conn'[t] \in {0, path'}
                    /\ Started' => Present(Seen(path))' \subseteq bloom'
  BY DEF Settled
<1> USE DEF store, process, restoring, calls, history
<1>0. path \in Files BY PathFile
<1>1. CASE Background BY <1>1 DEF Background, Settled, Seen, Started, Present
<1>2. CASE Crash BY <1>2, BackupAssumption DEF Crash, Started
<1>3. ASSUME NEW t \in Threads, Move(t), temp # Nothing PROVE FALSE BY <1>3 DEF Move
<1>4. ASSUME NEW t \in Threads, Operate(t)
      PROVE  /\ \A s \in Threads : conn'[s] \in {0, path'}
             /\ Started' => Present(Seen(path))' \subseteq bloom'
  <2>0. "replaced" \notin upsets
    BY <1>4 DEF Operate, Connect, KvSet, RotateKey, Checkpoint, Commit
  <2>1. CASE Connect(t)
    <3>1. Seen(path)' = Seen(path) /\ path' = path BY <2>1 DEF Connect, Seen
    <3>2. Present(Seen(path))' = Present(Seen(path)) BY <3>1 DEF Present
    <3>3. Present(Seen(path)) \subseteq bloom'
      BY <2>0, <2>1 DEF Connect, Settled, InitDb
    <3>4. \A s \in Threads : conn'[s] \in {0, path}
      BY <2>0, <2>1 DEF Connect, Settled, Shape
    <3> QED BY <3>1, <3>2, <3>3, <3>4
  <2>2. ASSUME NEW k \in Keys, KvSet(t, k)
        PROVE  /\ \A s \in Threads : conn'[s] \in {0, path'}
               /\ Started' => Present(Seen(path))' \subseteq bloom'
    <3>1. path' = path /\ conn' = conn /\ bloom' = bloom \cup {k} /\ conn[t] # 0
      BY <2>2 DEF KvSet, Commit
    <3>2. Started' <=> Started BY <3>1 DEF Started
    <3>3. conn[t] = path BY <2>0, <3>1 DEF Settled
    <3> QED BY <1>0, <2>0, <2>2, <3>1, <3>2, <3>3, WriteSeen DEF Settled, Present
  <2>3. CASE RotateKey(t)
    <3>1. path' = path /\ conn' = conn /\ bloom' = bloom /\ conn[t] # 0
      BY <2>3 DEF RotateKey, Commit
    <3>2. conn[t] = path BY <2>0, <3>1 DEF Settled
    <3>3. Started' <=> Started BY <3>1 DEF Started
    <3> QED BY <1>0, <2>0, <2>3, <3>1, <3>2, <3>3, RotationKeepsRows DEF Settled, Present
  <2>4. CASE Checkpoint(t)
    <3>1. conn' = conn /\ bloom' = bloom /\ conn[t] # 0 BY <2>4 DEF Checkpoint
    <3>2. conn[t] = path BY <2>0, <3>1 DEF Settled
    <3>3. Started' <=> Started BY <3>1 DEF Started
    <3> QED BY <1>0, <2>0, <2>4, <3>1, <3>2, <3>3, CheckpointUnseen DEF Settled, Present
  <2> QED BY <1>4, <2>1, <2>2, <2>3, <2>4 DEF Operate
<1> QED BY <1>1, <1>2, <1>3, <1>4, Foreground

\* A process that was started after the last restore works on the restored database in
\* all its threads, and the filter that init_db rebuilt denies none of its rows.
THEOREM RestartSeesRestoreAlways == Spec => []RestartSeesRestore
<1>1. Init => Settled BY BackupAssumption DEF Init, Settled, Started
<1>2. Shape /\ Budget /\ Settled /\ [Next]_vars => Shape' /\ Budget' /\ Settled'
  BY ShapeNext, SettledNext
<1>3. Settled => RestartSeesRestore BY DEF Settled, RestartSeesRestore, Calm
<1> QED BY <1>1, <1>2, <1>3, ShapeInit, PTL DEF Spec

-----------------------------------------------------------------------------
(* A restore.                                                              *)

\* Steps that are of no restore leave every restore and its files alone.
LEMMA Bystander ==
  ASSUME Shape, NEW t \in Threads, Sync(t) \/ Operate(t)
  PROVE  /\ pc[t] \notin Restoring /\ pc'[t] \notin Restoring
         /\ \A s \in Threads \ {t} : pc'[s] = pc[s] /\ loc'[s] = loc[s]
         /\ UNCHANGED <<safety, down, temp>> /\ upsets \subseteq upsets'
<1> USE DEF store, process, restoring, calls, history, Restoring
<1>1. CASE Operate(t)
  BY <1>1 DEF Operate, Connect, KvSet, RotateKey, Checkpoint, Commit, Shape
<1>2. ASSUME EndSync(t)
      PROVE  /\ pc'[t] \in {"unlink", "idle"}
             /\ \A s \in Threads \ {t} : pc'[s] = pc[s] /\ loc'[s] = loc[s]
  BY <1>2 DEF EndSync, Return, Goto, Shape
<1>3. ASSUME NEW sealed \in BOOLEAN, CreateLocalSnapshot(t, sealed)
      PROVE  /\ pc[t] \notin Restoring /\ pc'[t] \notin Restoring
             /\ \A s \in Threads \ {t} : pc'[s] = pc[s] /\ loc'[s] = loc[s]
             /\ UNCHANGED <<safety, down, temp>> /\ upsets \subseteq upsets'
  BY <1>3 DEF CreateLocalSnapshot, Goto, Shape
<1>4. CASE EncryptSnapshotFile(t) BY <1>4 DEF EncryptSnapshotFile, Goto, Shape
<1>5. CASE Upload(t) BY <1>5 DEF Upload, Goto, Shape
<1>6. CASE UploadFails(t) BY <1>2, <1>6 DEF UploadFails
<1>7. CASE ListCloudBackups(t) BY <1>2, <1>7 DEF ListCloudBackups, Goto, Shape
<1>8. CASE DeleteObject(t) BY <1>2, <1>8 DEF DeleteObject, Shape
<1>9. CASE UnlinkEnvelope(t) BY <1>9 DEF UnlinkEnvelope, Return, Goto, Shape
<1> QED BY <1>1, <1>3, <1>4, <1>5, <1>6, <1>7, <1>8, <1>9 DEF Sync

\* Restores that never met are one at a time, and each has its own object in hand.
Guarded == "shared temp" \notin upsets
             => /\ \A s, t \in Threads : pc[s] \in Restoring /\ pc[t] \in Restoring => s = t
                /\ \A t \in Threads :
                     /\ pc[t] = "unpack" => down = loc[t].image
                     /\ pc[t] \in {"check", "move"} => temp = Image(loc[t].image.rows, 0)

\* A restore that begins in calm finds no other.
LEMMA RequestGuarded ==
  ASSUME Shape, NEW t \in Threads, NEW got, Request(t, got), "shared temp" \notin upsets'
  PROVE  "shared temp" \notin upsets /\ \A s \in Threads : pc[s] \notin Restoring
BY DEF Request, Busy

\* Every step keeps that.
LEMMA GuardedNext == ASSUME Shape, Guarded, [Next]_vars PROVE Guarded'
<1> SUFFICES ASSUME "shared temp" \notin upsets'
             PROVE  /\ \A s, t \in Threads : pc'[s] \in Restoring /\ pc'[t] \in Restoring
                                               => s = t
                    /\ \A t \in Threads :
                         /\ pc'[t] = "unpack" => down' = loc'[t].image
                         /\ pc'[t] \in {"check", "move"}
                              => temp' = Image(loc'[t].image.rows, 0)
  BY DEF Guarded
<1> DEFINE Goal == /\ \A s, t \in Threads : pc'[s] \in Restoring /\ pc'[t] \in Restoring
                                               => s = t
                   /\ \A t \in Threads :
                         /\ pc'[t] = "unpack" => down' = loc'[t].image
                         /\ pc'[t] \in {"check", "move"}
                              => temp' = Image(loc'[t].image.rows, 0)
<1> USE DEF store, process, restoring, calls, history
<1>1. CASE Tick \/ Finished \/ UNCHANGED vars
  BY <1>1 DEF Tick, Finished, vars, Guarded
<1>2. CASE Crash BY <1>2 DEF Crash, Restoring
<1>3. ASSUME NEW t \in Threads, Sync(t) \/ Operate(t) PROVE Goal
  <2>1. "shared temp" \notin upsets BY <1>3, Bystander
  <2>2. \A s \in Threads : pc'[s] \in Restoring
                             => s # t /\ pc[s] = pc'[s] /\ loc[s] = loc'[s]
    BY <1>3, Bystander
  <2>3. down' = down /\ temp' = temp BY <1>3, Bystander
  <2>4. "unpack" \in Restoring /\ "check" \in Restoring /\ "move" \in Restoring
    BY DEF Restoring
  <2> QED BY <2>1, <2>2, <2>3, <2>4 DEF Guarded
<1>4. ASSUME NEW t \in Threads, Restore(t) PROVE Goal
  <2>1. CASE Download(t)
    <3>1. PICK n \in Objects : /\ Request(t, bucket[n].image) /\ Goto(t, "unpack")
                               /\ loc' = [loc EXCEPT ![t] = [@ EXCEPT !.name = n,
                                                      !.image = bucket[n].image]]
      BY <2>1 DEF Download
    <3>2. \A s \in Threads : pc[s] \notin Restoring BY <3>1, RequestGuarded
    <3>3. \A s \in Threads : pc'[s] = IF s = t THEN "unpack" ELSE pc[s]
      BY <3>1 DEF Goto, Shape
    <3>4. \A s \in Threads : pc'[s] \in Restoring => s = t BY <3>2, <3>3
    <3>5. loc'[t].image = bucket[n].image BY <3>1 DEF Shape, CallRecord
    <3>6. down' = bucket[n].image BY <3>1 DEF Request
    <3> QED BY <3>3, <3>4, <3>5, <3>6 DEF Restoring
  <2>2. CASE DownloadFails(t)
    <3>1. \A s \in Threads : pc[s] \notin Restoring
      BY <2>2, RequestGuarded DEF DownloadFails
    <3>2. \A s \in Threads : pc'[s] = IF s = t THEN "clean" ELSE pc[s]
      BY <2>2 DEF DownloadFails, Goto, Shape
    <3> QED BY <3>1, <3>2 DEF Restoring
  <2>3. ASSUME pc[t] \in Restoring, upsets \subseteq upsets'
        PROVE  /\ "shared temp" \notin upsets
               /\ \A s \in Threads \ {t} : pc[s] \notin Restoring
    BY <2>3 DEF Guarded
  <2>4. CASE Unpack(t)
    <3>1. \A s \in Threads \ {t} : pc[s] \notin Restoring /\ pc'[s] = pc[s]
      BY <2>3, <2>4 DEF Unpack, Goto, Restoring, Shape
    <3>2. pc[t] = "unpack" /\ down = loc[t].image /\ loc' = loc
      BY <2>3, <2>4 DEF Unpack, Guarded, Restoring
    <3>3. \/ pc'[t] = "check" /\ temp' = Image(down.rows, 0)
          \/ pc'[t] = "clean"
      BY <2>4 DEF Unpack, Goto, Shape
    <3> QED BY <3>1, <3>2, <3>3 DEF Restoring
  <2>5. CASE CheckAndCopy(t)
    <3>1. \A s \in Threads \ {t} : pc[s] \notin Restoring /\ pc'[s] = pc[s]
      BY <2>3, <2>5 DEF CheckAndCopy, Goto, Restoring, Shape
    <3>2. temp = Image(loc[t].image.rows, 0) /\ loc' = loc
      BY <2>3, <2>5 DEF CheckAndCopy, Guarded, Restoring
    <3>3. temp # Nothing BY <3>2, Blanks
    <3>4. temp' = temp /\ pc'[t] = "move" BY <2>5, <3>3 DEF CheckAndCopy, Goto, Shape
    <3> QED BY <3>1, <3>2, <3>4 DEF Restoring
  <2>6. CASE Move(t)
    <3>1. \A s \in Threads \ {t} : pc[s] \notin Restoring /\ pc'[s] = pc[s]
      BY <2>3, <2>6 DEF Move, Return, Goto, Restoring, Shape
    <3>2. pc'[t] \in {"clean", "idle"} BY <2>6 DEF Move, Return, Goto, Shape
    <3> QED BY <3>1, <3>2 DEF Restoring
  <2>8. CASE CheckFails(t)
    <3>1. \A s \in Threads \ {t} : pc[s] \notin Restoring /\ pc'[s] = pc[s]
      BY <2>3, <2>8 DEF CheckFails, Goto, Restoring, Shape
    <3>2. pc'[t] = "clean" BY <2>8 DEF CheckFails, Goto, Shape
    <3> QED BY <3>1, <3>2 DEF Restoring
  <2>7. CASE CleanUp(t)
    <3>1. \A s \in Threads \ {t} : pc[s] \notin Restoring /\ pc'[s] = pc[s]
      BY <2>3, <2>7 DEF CleanUp, Return, Goto, Restoring, Shape
    <3>2. pc'[t] = "idle" BY <2>7 DEF CleanUp, Return, Goto, Shape
    <3> QED BY <3>1, <3>2 DEF Restoring
  <2> QED BY <1>4, <2>1, <2>2, <2>4, <2>5, <2>6, <2>7, <2>8 DEF Restore
<1> QED BY <1>1, <1>2, <1>3, <1>4 DEF Next

\* The rename makes the file of the restore the database.
LEMMA MoveInstalls ==
  ASSUME Shape, Budget, Guarded, NEW t \in Threads, Move(t), path' # path,
         "shared temp" \notin upsets', "mixed" \notin upsets'
  PROVE  Seen(path)' = loc[t].image.rows
<1>1. temp # Nothing /\ wal = NoRows /\ wal' = wal /\ path' = path + 1
      /\ main' = [main EXCEPT ![path'] = temp.rows] /\ "shared temp" \notin upsets
  BY DEF Move
<1>2. pc[t] = "move" BY DEF Move
<1>3. temp.rows = loc[t].image.rows
  <2>1. temp = Image(loc[t].image.rows, 0) BY <1>1, <1>2 DEF Guarded
  <2> QED BY <2>1 DEF Image
<1>4. loc[t].image.rows \in Rows BY DEF Shape, CallRecord, ImageRecord
<1>5. path' \in Files
  <2>1. Restore(t) BY DEF Restore
  <2> QED BY <2>1, NextPathFile
<1>6. main'[path'] = temp.rows BY <1>1, <1>5 DEF Shape
<1>7. \A k \in Keys : Seen(path)'[k] = main'[path'][k] BY <1>1 DEF Seen, NoRows
<1>8. Seen(path)' = [k \in Keys |-> Seen(path)'[k]] BY DEF Seen
<1> QED BY <1>3, <1>4, <1>6, <1>7, <1>8 DEF Rows

\* What restore_from_cloud leaves as the database is the object it was asked for, unless two
\* restores used the temporary files at once or the old log was not empty.
THEOREM RestoreInstallsAlways == Spec => RestoreInstalls
<1>1. Init => Guarded BY DEF Init, Guarded, Restoring
<1>2. Shape /\ Budget /\ Guarded /\ [Next]_vars
        => Shape' /\ Budget' /\ Guarded'
  BY ShapeNext, GuardedNext
<1>3. Shape /\ Budget /\ Guarded /\ [Next]_vars
        => [\A t \in Threads : Move(t) /\ path' # path /\ Calm({"shared temp"})'
                                 /\ Calm({"mixed"})'
              => Seen(path)' = loc[t].image.rows]_vars
  BY MoveInstalls DEF Calm
<1> QED BY <1>1, <1>2, <1>3, ShapeInit, PTL DEF Spec, RestoreInstalls

\* The copy of a restore that is about to rename has what the file had.
Copied == Calm({"mixed", "shared temp"})
            => \A t \in Threads : pc[t] = "move"
                 => \A k \in Keys \ since : safety.rows[k] = Seen(path)[k]

\* The steps of clients keep it: what they write is in since.
LEMMA CopiedOperate ==
  ASSUME Shape, Budget, Copied, NEW t \in Threads, Operate(t), Calm({"mixed", "shared temp"})'
  PROVE  Copied'
<1> USE DEF store, process, restoring, calls, history
<1>0. path \in Files BY PathFile
<1>1. Calm({"mixed", "shared temp"})
  <2>1. upsets \subseteq upsets' BY Bystander
  <2> QED BY <2>1 DEF Calm
<1>2. safety' = safety /\ \A s \in Threads : pc'[s] = "move" => pc[s] = "move"
  <2>1. "move" \in Restoring BY DEF Restoring
  <2> QED BY <2>1, Bystander
<1>3. SUFFICES \A k \in Keys \ since' : k \notin since /\ Seen(path)'[k] = Seen(path)[k]
  BY <1>1, <1>2 DEF Copied
<1>4. CASE Connect(t) BY <1>4 DEF Connect, Seen
<1>5. ASSUME NEW x \in Keys, KvSet(t, x)
      PROVE  \A k \in Keys \ since' : k \notin since /\ Seen(path)'[k] = Seen(path)[k]
  <2>1. since' = since \cup {x} BY <1>5 DEF KvSet, Commit
  <2>2. conn[t] = path BY <1>5 DEF KvSet, Stray, Calm
  <2> QED BY <1>0, <1>5, <2>1, <2>2, WriteSeen
<1>6. CASE RotateKey(t)
  <2> DEFINE seen == Seen(conn[t])
             mine == Present(seen) \ ForeignRows(seen)
             rows == [k \in mine |-> [seen[k] EXCEPT !.key = key']]
  <2>1. since' = since \cup mine /\ Commit(t, rows) BY <1>6 DEF RotateKey, Commit
  <2>2. conn[t] = path BY <1>6 DEF RotateKey, Stray, Calm
  <2>3. DOMAIN rows = mine OBVIOUS
  <2> HIDE DEF rows, mine
  <2> QED BY <2>1, <2>2, <2>3, CommitSeen
<1>7. CASE Checkpoint(t)
  <2>1. conn[t] = path \/ wal = NoRows BY <1>7 DEF Checkpoint, Stray, Calm
  <2>2. since' = since BY <1>7 DEF Checkpoint
  <2> QED BY <1>0, <1>7, <2>1, <2>2, CheckpointUnseen
<1> QED BY <1>4, <1>5, <1>6, <1>7 DEF Operate

\* Every step keeps it.
LEMMA CopiedNext == ASSUME Shape, Budget, Guarded, Copied, [Next]_vars PROVE Copied'
<1> SUFFICES ASSUME Calm({"mixed", "shared temp"})' PROVE Copied' BY DEF Copied
<1> USE DEF store, process, restoring, calls, history
<1>0. "move" \in Restoring /\ "check" \in Restoring BY DEF Restoring
<1>1. ASSUME UNCHANGED <<path, main, wal, safety, since>>, upsets \subseteq upsets',
             \A s \in Threads : pc'[s] = "move" => pc[s] = "move"
      PROVE  Copied'
  <2>1. Calm({"mixed", "shared temp"}) BY <1>1 DEF Calm
  <2>2. Seen(path)' = Seen(path) BY <1>1 DEF Seen
  <2> QED BY <1>1, <2>1, <2>2 DEF Copied
<1>2. CASE Tick \/ Finished \/ UNCHANGED vars
  BY <1>1, <1>2 DEF Tick, Finished, vars
<1>3. CASE Crash BY <1>3 DEF Crash, Copied
<1>4. ASSUME NEW t \in Threads, Sync(t) PROVE Copied'
  <2>1. UNCHANGED <<path, main, wal, since>>
    BY <1>4 DEF Sync, CreateLocalSnapshot, EncryptSnapshotFile, Upload, UploadFails,
                ListCloudBackups, DeleteObject, UnlinkEnvelope
  <2> QED BY <1>0, <1>1, <1>4, <2>1, Bystander
<1>5. ASSUME NEW t \in Threads, Restore(t) PROVE Copied'
  <2>1. CASE Download(t)
    BY <1>1, <2>1 DEF Download, Request, Goto, Shape
  <2>2. CASE DownloadFails(t) BY <1>1, <2>2 DEF DownloadFails, Request, Goto, Shape
  <2>3. CASE Unpack(t) BY <1>1, <2>3 DEF Unpack, Goto, Shape
  <2>4. CASE CleanUp(t) BY <1>1, <2>4 DEF CleanUp, Return, Goto, Shape
  <2>5. ASSUME pc[t] \in Restoring, upsets \subseteq upsets'
        PROVE  \A s \in Threads \ {t} : pc[s] # "move"
    BY <1>0, <2>5 DEF Guarded, Calm
  <2>6. CASE CheckAndCopy(t)
    <3>1. /\ safety'.rows = main[path] /\ since' = LogOnly
          /\ UNCHANGED <<path, main, wal>>
      BY <2>6 DEF CheckAndCopy, SafetyCopy, Image
    <3>2. \A k \in Keys \ since' : Seen(path)'[k] = main[path][k]
      BY <3>1 DEF Seen, LogOnly
    <3> QED BY <3>1, <3>2 DEF Copied
  <2>8. CASE CheckFails(t)
    <3>1. \A s \in Threads \ {t} : pc[s] # "move" /\ pc'[s] = pc[s]
      BY <1>0, <2>5, <2>8 DEF CheckFails, Goto, Shape
    <3>2. pc'[t] # "move" BY <2>8 DEF CheckFails, Goto, Shape
    <3> QED BY <3>1, <3>2 DEF Copied
  <2>7. CASE Move(t)
    <3>1. \A s \in Threads \ {t} : pc[s] # "move" /\ pc'[s] = pc[s]
      BY <1>0, <2>5, <2>7 DEF Move, Return, Goto, Shape
    <3>2. pc'[t] # "move" BY <2>7 DEF Move, Return, Goto, Shape
    <3> QED BY <3>1, <3>2 DEF Copied
  <2> QED BY <1>5, <2>1, <2>2, <2>3, <2>4, <2>6, <2>7, <2>8 DEF Restore
<1> QED BY <1>2, <1>3, <1>4, <1>5, CopiedOperate DEF Next

\* When a restore replaces the database, backup_before_restore.db has all that it held, but
\* for the rows that were in the log only at the copy or were written since.
THEOREM SafetyCopyWholeAlways == Spec => SafetyCopyWhole
<1>1. Init => Guarded /\ Copied BY DEF Init, Guarded, Copied, Restoring
<1>2. Shape /\ Budget /\ Guarded /\ Copied /\ [Next]_vars
        => Shape' /\ Budget' /\ Guarded' /\ Copied'
  BY ShapeNext, GuardedNext, CopiedNext
<1>3. Copied => [\A t \in Threads :
                   Move(t) /\ path' # path /\ Calm({"mixed", "shared temp"})
                     => \A k \in Keys \ since : safety.rows[k] = Seen(path)[k]]_vars
  BY DEF Copied, Move
<1> QED BY <1>1, <1>2, <1>3, ShapeInit, PTL DEF Spec, SafetyCopyWhole

-----------------------------------------------------------------------------
(* The key of the rows.                                                    *)

Under(rows, seal) == \A k \in Keys : rows[k] # NoRow => rows[k].key = seal
SealHolds(image) == image.seal > 0 => Under(image.rows, image.seal)
Unexcepted == Calm({"mixed", "turned", "plain", "shared name", "shared temp"})

\* Every envelope holds rows of its own key, and what is about to be sealed, or
\* to become the database out of an envelope, is under the active one.
Keyed == Unexcepted
  => /\ key > 0 /\ Under(Seen(path), key)
     /\ \A n \in Names : SealHolds(local[n]) /\ SealHolds(bucket[n].image)
     /\ SealHolds(down)
     /\ \A t \in Threads :
          /\ pc[t] = "encrypt" => Under(local[loc[t].name].rows, key)
          /\ pc[t] \in {"check", "move"} /\ loc[t].name.enc => Under(temp.rows, key)

\* Rows under a key are those that are not foreign.
LEMMA UnderForeign == ASSUME NEW rows PROVE Under(rows, key) <=> ForeignRows(rows) = {}
BY DEF Under, ForeignRows, Present

\* No rows are under every key.
LEMMA NoRowsUnder == \A seal : Under(NoRows, seal)
BY DEF Under, NoRows

\* The exceptions do not wear off.
LEMMA StillExcepted == ASSUME Shape, [Next]_vars, Unexcepted' PROVE Unexcepted
<1> USE DEF store, process, restoring, calls, history
<1>1. CASE Crash BY <1>1 DEF Crash, Unexcepted, Calm
<1>2. ASSUME NEW t \in Threads, Move(t) PROVE Unexcepted
  BY <1>2 DEF Move, Unexcepted, Calm
<1>3. ASSUME NEW t \in Threads, Operate(t) PROVE Unexcepted
  BY <1>3, Bystander DEF Unexcepted, Calm
<1>4. CASE Background BY <1>4 DEF Background, Unexcepted, Calm
<1> QED BY <1>1, <1>2, <1>3, <1>4, Foreground

\* The steps of clients keep the rows under the active key: a rotation takes them along,
\* unless a snapshot or a restore is on its way.
LEMMA KeyedOperate ==
  ASSUME Shape, Budget, Keyed, NEW t \in Threads, Operate(t), Unexcepted, Unexcepted'
  PROVE  Keyed'
<1> USE DEF store, process, restoring, calls, history
<1>0. path \in Files BY PathFile
<1>1. /\ key > 0 /\ key \in Nat /\ Under(Seen(path), key)
      /\ \A n \in Names : SealHolds(local[n]) /\ SealHolds(bucket[n].image)
      /\ SealHolds(down)
  BY DEF Keyed, Shape
<1>2. UNCHANGED <<pc, loc, local, bucket, down, temp>>
  BY DEF Operate, Connect, KvSet, RotateKey, Checkpoint, Commit
<1>3. /\ \A n \in Names : SealHolds(local[n])' /\ SealHolds(bucket[n].image)'
      /\ SealHolds(down)'
  BY <1>1, <1>2 DEF SealHolds, Under
<1>4. SUFFICES /\ key' > 0 /\ Under(Seen(path), key)'
               /\ \/ key' = key
                  \/ \A s \in Threads : pc[s] \notin {"encrypt", "check", "move"}
  BY <1>2, <1>3 DEF Keyed, Under
<1>5. CASE Connect(t) BY <1>1, <1>5 DEF Connect, Seen, Under
<1>6. ASSUME NEW x \in Keys, KvSet(t, x) PROVE key' = key /\ Under(Seen(path), key)'
  <2>0. conn[t] = path BY <1>6 DEF KvSet, Stray, Unexcepted, Calm
  <2>1. Seen(path)'[x].key = key BY <1>0, <1>6, <2>0, WriteSeen
  <2>2. key' = key BY <1>6 DEF KvSet
  <2> QED BY <1>0, <1>1, <1>6, <2>0, <2>1, <2>2, WriteSeen DEF Under
<1>7. CASE RotateKey(t)
  <2> DEFINE seen == Seen(path)
             mine == Present(seen) \ ForeignRows(seen)
  <2>1. conn[t] = path BY <1>7 DEF RotateKey, Stray, Unexcepted, Calm
  <2>2. \A s \in Threads : pc[s] \notin {"encrypt", "check", "move"}
    BY <1>7 DEF RotateKey, Busy, Unexcepted, Calm
  <2>3. key' = key + 1 BY <1>7 DEF RotateKey
  <2>4. mine = Present(seen) BY <1>1, UnderForeign
  <2>5. /\ \A k \in mine : wal'[k] = [seen[k] EXCEPT !.key = key + 1]
        /\ \A k \in Keys : Seen(path)'[k] = IF wal'[k] # NoRow THEN wal'[k] ELSE main[path][k]
    <3> DEFINE rows == [k \in mine |-> [seen[k] EXCEPT !.key = key + 1]]
    <3>1. Commit(t, rows) BY <1>7, <2>1, <2>3 DEF RotateKey
    <3>2. DOMAIN rows = mine /\ mine \subseteq Keys
          /\ \A k \in mine : rows[k] = [seen[k] EXCEPT !.key = key + 1]
      BY DEF Present
    <3> HIDE DEF rows, mine
    <3> QED BY <2>1, <3>1, <3>2, CommitSeen
  <2>7. ASSUME NEW k \in Keys, Seen(path)'[k] # NoRow PROVE Seen(path)'[k].key = key + 1
    <3>1. seen[k] # NoRow
      BY <1>0, <1>7, <2>1, <2>7, RotationKeepsRows
    <3>2. wal'[k] = [seen[k] EXCEPT !.key = key + 1] BY <2>4, <2>5, <3>1 DEF Present
    <3>3. seen[k] \in RowRecord BY <1>0, SeenRows DEF Rows
    <3>4. wal'[k].key = key + 1 BY <3>2, <3>3 DEF RowRecord
    <3>5. wal'[k] # NoRow BY <1>1, <3>4 DEF NoRow
    <3> QED BY <2>5, <3>4, <3>5
  <2>8. key' > 0 BY <1>1, <2>3
  <2> QED BY <2>2, <2>3, <2>7, <2>8 DEF Under
<1>8. CASE Checkpoint(t)
  <2>1. conn[t] = path \/ wal = NoRows BY <1>8 DEF Checkpoint, Stray, Unexcepted, Calm
  <2>2. key' = key BY <1>8 DEF Checkpoint
  <2>3. \A k \in Keys : Seen(path)'[k] = Seen(path)[k] BY <1>0, <1>8, <2>1, CheckpointUnseen
  <2> QED BY <1>1, <2>2, <2>3 DEF Under
<1>9. CASE \E k \in Keys : KvSet(t, k) BY <1>1, <1>6, <1>9
<1> QED BY <1>5, <1>7, <1>8, <1>9 DEF Operate

\* An empty image breaks no seal.
LEMMA NothingSealed == SealHolds(Nothing) /\ SealHolds(Empty) /\ Nothing.rows = NoRows
BY DEF SealHolds, Nothing, Empty, Image

\* The steps of a synchronisation seal what is under the active key, and upload what is sealed.
LEMMA KeyedSync ==
  ASSUME Shape, Budget, Keyed, NEW t \in Threads, Sync(t), Unexcepted, Unexcepted'
  PROVE  Keyed'
<1> USE DEF store, process, restoring, calls, history
<1>1. /\ key > 0 /\ key \in Nat /\ Under(Seen(path), key)
      /\ \A n \in Names : SealHolds(local[n]) /\ SealHolds(bucket[n].image)
      /\ SealHolds(down)
      /\ \A s \in Threads :
           /\ pc[s] = "encrypt" => Under(local[loc[s].name].rows, key)
           /\ pc[s] \in {"check", "move"} /\ loc[s].name.enc => Under(temp.rows, key)
  BY DEF Keyed, Shape
<1>2. UNCHANGED <<path, main, wal, key, down, temp>>
  BY DEF Sync, CreateLocalSnapshot, EncryptSnapshotFile, Upload, UploadFails,
         ListCloudBackups, DeleteObject, UnlinkEnvelope
<1>3. Under(Seen(path), key)' BY <1>1, <1>2 DEF Under, Seen
<1>4. /\ pc'[t] \notin {"check", "move"}
      /\ \A s \in Threads \ {t} : pc'[s] = pc[s] /\ loc'[s] = loc[s]
  BY Bystander DEF Restoring
<1>5. \A s \in Threads : loc[s].name \in Names BY DEF Shape, CallRecord
<1>6. SUFFICES /\ \A n \in Names : SealHolds(local'[n]) /\ SealHolds(bucket'[n].image)
               /\ \A s \in Threads : pc'[s] = "encrypt"
                    => Under(local'[loc'[s].name].rows, key)
  BY <1>1, <1>2, <1>3, <1>4 DEF Keyed, SealHolds, Under
<1>7. ASSUME NEW sealed \in BOOLEAN, CreateLocalSnapshot(t, sealed)
      PROVE  /\ \A n \in Names : SealHolds(local'[n]) /\ SealHolds(bucket'[n].image)
             /\ \A s \in Threads : pc'[s] = "encrypt"
                    => Under(local'[loc'[s].name].rows, key)
  <2> DEFINE name == [sec |-> now, enc |-> FALSE]
  <2>1. bucket' = bucket /\ local' = [local EXCEPT ![name] = Image(Seen(path), 0)]
    BY <1>7 DEF CreateLocalSnapshot, Backup
  <2>2. loc'[t].name = name BY <1>7 DEF CreateLocalSnapshot, Shape, CallRecord
  <2>3. name \in Names BY DEF Names, Shape
  <2>4. \A n \in Names : local'[n] = IF n = name THEN Image(Seen(path), 0) ELSE local[n]
    BY <2>1, <2>3 DEF Shape
  <2>5. SealHolds(Image(Seen(path), 0)) /\ Image(Seen(path), 0).rows = Seen(path)
    BY DEF SealHolds, Image
  <2>6. \A s \in Threads : pc'[s] = "encrypt" => Under(local'[loc'[s].name].rows, key)
    BY <1>1, <1>4, <1>5, <2>2, <2>3, <2>4, <2>5
  <2> QED BY <1>1, <2>1, <2>4, <2>5, <2>6
<1>8. CASE EncryptSnapshotFile(t)
  <2> DEFINE name == loc[t].name
             sealed == [name EXCEPT !.enc = TRUE]
             image == Image(local[name].rows, key)
  <2>1. pc[t] = "encrypt" /\ bucket' = bucket /\ local' = [local EXCEPT ![sealed] = image]
    BY <1>8 DEF EncryptSnapshotFile
  <2>2. sealed \in Names BY <1>5 DEF Names
  <2>3. \A n \in Names : local'[n] = IF n = sealed THEN image ELSE local[n]
    BY <2>1, <2>2 DEF Shape
  <2>4. SealHolds(image) /\ Under(image.rows, key) BY <1>1, <2>1 DEF SealHolds, Image
  <2>5. pc'[t] = "upload" BY <1>8 DEF EncryptSnapshotFile, Goto, Shape
  <2>6. \A s \in Threads : pc'[s] = "encrypt" => Under(local'[loc'[s].name].rows, key)
    BY <1>1, <1>4, <1>5, <2>3, <2>4, <2>5
  <2> QED BY <1>1, <2>1, <2>3, <2>4, <2>6
<1>9. ASSUME pc'[t] # "encrypt"
      PROVE  local' = local
               => \A s \in Threads : pc'[s] = "encrypt" => Under(local'[loc'[s].name].rows, key)
  BY <1>1, <1>4, <1>9
<1>10. CASE Upload(t)
  <2>1. local' = local /\ pc'[t] = "list" BY <1>10 DEF Upload, Goto, Shape
  <2>2. \A n \in Names : bucket'[n] = bucket[n] \/ bucket'[n].image = local[loc[t].name]
    BY <1>10 DEF Upload, Shape
  <2>3. \A n \in Names : SealHolds(bucket'[n].image) BY <1>1, <1>5, <2>2
  <2> QED BY <1>1, <1>9, <2>1, <2>3
<1>11. ASSUME EndSync(t) PROVE pc'[t] # "encrypt"
  BY <1>11 DEF EndSync, Return, Goto, Shape
<1>12. CASE UploadFails(t)
  <2>1. local' = local /\ bucket' = bucket /\ pc'[t] # "encrypt"
    BY <1>11, <1>12 DEF UploadFails
  <2> QED BY <1>1, <1>9, <2>1
<1>13. CASE ListCloudBackups(t)
  <2>1. local' = local /\ bucket' = bucket /\ pc'[t] # "encrypt"
    BY <1>11, <1>13 DEF ListCloudBackups, Goto, Shape
  <2> QED BY <1>1, <1>9, <2>1
<1>14. CASE DeleteObject(t)
  <2>1. local' = local /\ pc'[t] # "encrypt" BY <1>11, <1>14 DEF DeleteObject
  <2>2. \A n \in Names : bucket'[n] = bucket[n] \/ bucket'[n].image = Nothing
    BY <1>14 DEF DeleteObject, Shape, NoObject
  <2>3. \A n \in Names : SealHolds(bucket'[n].image) BY <1>1, <2>2, NothingSealed
  <2> QED BY <1>1, <1>9, <2>1, <2>3
<1>15. CASE UnlinkEnvelope(t)
  <2>1. bucket' = bucket /\ pc'[t] = "idle" BY <1>15 DEF UnlinkEnvelope, Return, Goto, Shape
  <2>2. \A n \in Names : local'[n] = local[n] \/ local'[n] = Nothing
    BY <1>15 DEF UnlinkEnvelope, Shape
  <2>3. \A n \in Names : SealHolds(local'[n]) BY <1>1, <2>2, NothingSealed
  <2>4. \A s \in Threads : pc'[s] = "encrypt" => Under(local'[loc'[s].name].rows, key)
    BY <1>1, <1>4, <1>5, <2>1, <2>2, NothingSealed, NoRowsUnder
  <2> QED BY <1>1, <2>1, <2>3, <2>4
<1> QED BY <1>7, <1>8, <1>10, <1>12, <1>13, <1>14, <1>15 DEF Sync

\* The steps of a restore: what an envelope opened to is under the active key, and so is what
\* becomes the database.
LEMMA KeyedRestore ==
  ASSUME Shape, Budget, Guarded, Keyed, NEW t \in Threads, Restore(t), Unexcepted, Unexcepted'
  PROVE  Keyed'
<1> USE DEF store, process, restoring, calls, history
<1>1. /\ key > 0 /\ key \in Nat /\ Under(Seen(path), key)
      /\ \A n \in Names : SealHolds(local[n]) /\ SealHolds(bucket[n].image)
      /\ SealHolds(down)
      /\ \A s \in Threads :
           /\ pc[s] = "encrypt" => Under(local[loc[s].name].rows, key)
           /\ pc[s] \in {"check", "move"} /\ loc[s].name.enc => Under(temp.rows, key)
  BY DEF Keyed, Shape
<1>2. UNCHANGED <<wal, key, local, bucket>>
  BY DEF Restore, Download, DownloadFails, Request, Unpack, CheckAndCopy, CheckFails, Move, CleanUp
<1>3. ASSUME UNCHANGED <<path, main>>, SealHolds(down'),
             \A s \in Threads : pc'[s] \in {"encrypt", "check", "move"}
               => /\ pc'[s] = pc[s] \/ (pc'[s] = "move" /\ pc[s] = "check")
                  /\ loc'[s] = loc[s],
             temp' = temp \/ temp'.rows = NoRows
      PROVE  Keyed'
  <2>1. Under(Seen(path), key)' BY <1>1, <1>2, <1>3 DEF Under, Seen
  <2>2. \A s \in Threads : pc'[s] = "encrypt" => Under(local'[loc'[s].name].rows, key)
    BY <1>1, <1>2, <1>3
  <2>3. \A s \in Threads : pc'[s] \in {"check", "move"} /\ loc'[s].name.enc
                             => Under(temp'.rows, key)
    BY <1>1, <1>3, NoRowsUnder
  <2> QED BY <1>1, <1>2, <1>3, <2>1, <2>2, <2>3 DEF Keyed, SealHolds, Under
<1>4. CASE Download(t)
  <2>1. PICK n \in Objects : /\ Request(t, bucket[n].image) /\ Goto(t, "unpack")
                             /\ loc' = [loc EXCEPT ![t] = [@ EXCEPT !.name = n,
                                                    !.image = bucket[n].image]]
    BY <1>4 DEF Download
  <2>2. UNCHANGED <<path, main, temp>> /\ down' = bucket[n].image BY <2>1 DEF Request
  <2>3. SealHolds(down') BY <1>1, <2>2 DEF Objects
  <2>4. \A s \in Threads : pc'[s] \in {"encrypt", "check", "move"}
          => pc'[s] = pc[s] /\ loc'[s] = loc[s]
    BY <2>1 DEF Goto, Shape
  <2> QED BY <1>3, <2>2, <2>3, <2>4
<1>5. CASE DownloadFails(t)
  <2>1. UNCHANGED <<path, main, temp, loc>> /\ down' = Empty
    BY <1>5 DEF DownloadFails, Request
  <2>2. \A s \in Threads : pc'[s] \in {"encrypt", "check", "move"} => pc'[s] = pc[s]
    BY <1>5 DEF DownloadFails, Goto, Shape
  <2> QED BY <1>3, <2>1, <2>2, NothingSealed
<1>6. ASSUME pc[t] \in Restoring
      PROVE  \A s \in Threads \ {t} : pc[s] \notin {"check", "move"}
  BY <1>6 DEF Guarded, Unexcepted, Calm, Restoring
<1>7. CASE Unpack(t)
  <2>1. UNCHANGED <<path, main, loc>> /\ pc[t] = "unpack" BY <1>7 DEF Unpack
  <2>2. CASE down # Nothing /\ (Enveloped(down, loc[t].name) => Opens(down))
    <3>1. temp' = Image(down.rows, 0) /\ down' = Nothing /\ pc'[t] = "check"
      BY <1>7, <2>2 DEF Unpack, Goto, Shape
    <3>2. \A s \in Threads \ {t} : pc'[s] = pc[s] BY <1>7 DEF Unpack, Goto, Shape
    <3>3. loc[t].name.enc => Under(temp'.rows, key)
      BY <1>1, <2>2, <3>1 DEF Enveloped, Opens, SealHolds, Image
    <3>4. \A s \in Threads : pc'[s] \in {"check", "move"} => s = t
      BY <1>6, <2>1, <3>2 DEF Restoring
    <3>5. \A s \in Threads : pc'[s] = "encrypt" => Under(local'[loc'[s].name].rows, key)
      BY <1>1, <1>2, <2>1, <3>1, <3>2
    <3>6. Under(Seen(path), key)' BY <1>1, <1>2, <2>1 DEF Under, Seen
    <3>7. SealHolds(down') BY <3>1, NothingSealed
    <3> QED BY <1>1, <1>2, <2>1, <3>3, <3>4, <3>5, <3>6, <3>7 DEF Keyed, SealHolds, Under
  <2>3. CASE ~(down # Nothing /\ (Enveloped(down, loc[t].name) => Opens(down)))
    <3>1. UNCHANGED <<temp, down>>
          /\ \A s \in Threads : pc'[s] \in {"encrypt", "check", "move"} => pc'[s] = pc[s]
      BY <1>7, <2>3 DEF Unpack, Goto, Shape
    <3> QED BY <1>1, <1>3, <2>1, <3>1
  <2> QED BY <2>2, <2>3
<1>8. CASE CheckAndCopy(t)
  <2>1. UNCHANGED <<path, main, loc, down>> /\ pc[t] = "check"
        /\ (temp' = temp \/ temp' = Empty)
    BY <1>8 DEF CheckAndCopy
  <2>2. \A s \in Threads : pc'[s] = IF s = t THEN "move" ELSE pc[s]
    BY <1>8 DEF CheckAndCopy, Goto, Shape
  <2>3. Empty.rows = NoRows BY DEF Empty, Image
  <2> QED BY <1>1, <1>3, <2>1, <2>2, <2>3
<1>11. CASE CheckFails(t)
  <2>1. UNCHANGED <<path, main, loc, down>> /\ (temp' = temp \/ temp' = Empty)
    BY <1>11 DEF CheckFails
  <2>2. \A s \in Threads : pc'[s] = IF s = t THEN "clean" ELSE pc[s]
    BY <1>11 DEF CheckFails, Goto, Shape
  <2>3. Empty.rows = NoRows BY DEF Empty, Image
  <2> QED BY <1>1, <1>3, <2>1, <2>2, <2>3
<1>9. CASE Move(t)
  <2>1. pc[t] = "move" /\ down' = down BY <1>9 DEF Move
  <2>2. \A s \in Threads \ {t} : pc'[s] = pc[s] /\ loc'[s] = loc[s]
    BY <1>9 DEF Move, Return, Goto, Shape
  <2>3. pc'[t] \in {"clean", "idle"} BY <1>9 DEF Move, Return, Goto, Shape
  <2>4. CASE temp = Nothing
    <3>1. UNCHANGED <<path, main, temp>> BY <1>9, <2>4 DEF Move
    <3> QED BY <1>1, <1>3, <2>1, <2>2, <2>3, <3>1
  <2>5. CASE temp # Nothing
    <3>1. /\ wal = NoRows /\ (loc[t].name.enc \/ ForeignRows(temp.rows) = {})
          /\ path' = path + 1 /\ main' = [main EXCEPT ![path'] = temp.rows]
      BY <1>9, <2>5 DEF Move, Unexcepted, Calm
    <3>2. Under(temp.rows, key) BY <1>1, <2>1, <3>1, UnderForeign
    <3>3. \A s \in Threads : pc'[s] \notin {"check", "move"}
      BY <1>6, <2>1, <2>2, <2>3 DEF Restoring
    <3>4. \A s \in Threads : pc'[s] = "encrypt" => Under(local'[loc'[s].name].rows, key)
      BY <1>1, <1>2, <2>2, <2>3
    <3>5. path' \in Files BY NextPathFile
    <3>6. main'[path'] = temp.rows BY <3>1, <3>5 DEF Shape
    <3>7. \A k \in Keys : Seen(path)'[k] = temp.rows[k]
      <4>1. wal' = NoRows BY <1>2, <3>1
      <4>2. \A k \in Keys : Seen(path)'[k] = main'[path'][k] BY <4>1 DEF Seen, NoRows
      <4> QED BY <3>6, <4>2
    <3>8. Under(Seen(path), key)' BY <1>2, <3>2, <3>7 DEF Under
    <3> QED BY <1>1, <1>2, <2>1, <3>3, <3>4, <3>8 DEF Keyed, SealHolds, Under
  <2> QED BY <2>4, <2>5
<1>10. CASE CleanUp(t)
  <2>1. UNCHANGED <<path, main>> /\ down' = Nothing /\ temp' = Nothing
    BY <1>10 DEF CleanUp
  <2>2. \A s \in Threads : pc'[s] \in {"encrypt", "check", "move"}
          => pc'[s] = pc[s] /\ loc'[s] = loc[s]
    BY <1>10 DEF CleanUp, Return, Goto, Shape
  <2> QED BY <1>3, <2>1, <2>2, NothingSealed
<1> QED BY <1>4, <1>5, <1>7, <1>8, <1>9, <1>10, <1>11 DEF Restore

\* Every step keeps the rows under their keys.
LEMMA KeyedNext == ASSUME Shape, Budget, Guarded, Keyed, [Next]_vars PROVE Keyed'
<1> SUFFICES ASSUME Unexcepted' PROVE Keyed' BY DEF Keyed
<1> USE DEF store, process, restoring, calls, history
<1>1. Unexcepted BY StillExcepted
<1>2. CASE Tick \/ Finished \/ UNCHANGED vars
  <2>1. UNCHANGED <<path, main, wal, key, local, bucket, down, temp, pc, loc>>
    BY <1>2 DEF Tick, Finished, vars
  <2>2. Seen(path)' = Seen(path) BY <2>1 DEF Seen
  <2> QED BY <1>1, <2>1, <2>2 DEF Keyed, Under, SealHolds
<1>3. CASE Crash
  <2>1. /\ UNCHANGED <<path, main, wal, key, local, bucket, down, temp>>
        /\ \A s \in Threads : pc'[s] = "idle"
    BY <1>3 DEF Crash
  <2>2. Seen(path)' = Seen(path) BY <2>1 DEF Seen
  <2> QED BY <1>1, <2>1, <2>2 DEF Keyed, Under, SealHolds
<1> QED BY <1>1, <1>2, <1>3, KeyedOperate, KeyedSync, KeyedRestore DEF Next

\* All rows are under the active key, through snapshots, rotations and restores of envelopes:
\* an envelope opens with the active key only, and its rows are under that key.
THEOREM RowsReadableAlways == Spec => []RowsReadable
<1>1. Init => Guarded /\ Keyed
  <2> SUFFICES ASSUME Init PROVE Guarded /\ Keyed OBVIOUS
  <2>1. Guarded BY DEF Init, Guarded, Restoring
  <2>2. \A k \in Keys : Seen(path)[k] = NoRow
    BY BackupAssumption DEF Init, Seen, NoRows, Files
  <2>3. \A n \in Names : local[n] = Nothing /\ bucket[n].image = Nothing
    BY DEF Init, NoObject
  <2> QED BY <2>1, <2>2, <2>3, NothingSealed DEF Init, Keyed, Under
<1>2. Shape /\ Budget /\ Guarded /\ Keyed /\ [Next]_vars
        => Shape' /\ Budget' /\ Guarded' /\ Keyed'
  BY ShapeNext, GuardedNext, KeyedNext
<1>3. Keyed => RowsReadable BY UnderForeign DEF Keyed, RowsReadable, Unexcepted
<1> QED BY <1>1, <1>2, <1>3, ShapeInit, PTL DEF Spec

-----------------------------------------------------------------------------
(* The names of snapshots.                                                 *)

Syncing == {"encrypt", "upload", "list", "prune", "unlink"}
Plain(n) == [sec |-> n.sec, enc |-> FALSE]

\* The name of a call is its own, and so is what the file has that it names.
OwnName(s, t) == pc[s] \in Syncing /\ pc[t] \in Syncing
                   /\ loc[s].name.sec = loc[t].name.sec => s = t
OwnFile(t) == /\ pc[t] \in Syncing => local[Plain(loc[t].name)] # Nothing
              /\ pc[t] = "encrypt" => loc[t].name = Plain(loc[t].name)
              /\ pc[t] = "unlink" => loc[t].name # Plain(loc[t].name)
              /\ pc[t] \in {"encrypt", "upload"} => local[loc[t].name] = loc[t].image

\* As long as no two calls met in a second, every call has its names for itself: the
\* snapshot of a second is never unlinked, so that a second call of it would have found one.
Owned == "shared name" \notin upsets =>
  (\A s, t \in Threads : OwnName(s, t)) /\ (\A t \in Threads : OwnFile(t))

\* The names of one second.
LEMMA PlainNames ==
  ASSUME NEW n \in Names
  PROVE  /\ Plain(n) \in Names /\ Plain(n).sec = n.sec /\ Plain(Plain(n)) = Plain(n)
         /\ n.enc => n # Plain(n)
         /\ \A m \in Names : m.sec = n.sec <=> Plain(m) = Plain(n)
<1>1. Plain(n) \in Names /\ Plain(n).sec = n.sec BY DEF Plain, Names
<1>2. n.enc => n # Plain(n) BY DEF Plain
<1>3. \A m \in Names : m.sec = n.sec => Plain(m) = Plain(n) BY DEF Plain
<1>4. \A m \in Names : Plain(m).sec = m.sec BY DEF Plain
<1> QED BY <1>1, <1>2, <1>3, <1>4

\* What a step of t has to show: the others keep their names and files.
LEMMA OwnedBut ==
  ASSUME Shape, Owned, NEW t \in Threads, "shared name" \notin upsets,
         \A s \in Threads \ {t} : pc'[s] = pc[s] /\ loc'[s] = loc[s],
         \A s \in Threads \ {t} : pc[s] \in Syncing
            => /\ local'[Plain(loc[s].name)] = local[Plain(loc[s].name)]
               /\ local'[loc[s].name] = local[loc[s].name]
               /\ pc'[t] \in Syncing => loc'[t].name.sec # loc[s].name.sec,
         OwnFile(t)'
  PROVE  Owned'
<1>1. ASSUME NEW r \in Threads, NEW s \in Threads PROVE OwnName(r, s)'
  <2>1. OwnName(r, s) BY DEF Owned
  <2>2. CASE r = t /\ s = t BY <2>2 DEF OwnName
  <2>3. CASE r = t /\ s # t BY <2>3 DEF OwnName
  <2>4. CASE r # t /\ s = t BY <2>4 DEF OwnName
  <2>5. CASE r # t /\ s # t BY <2>1, <2>5 DEF OwnName
  <2> QED BY <2>2, <2>3, <2>4, <2>5
<1>2. ASSUME NEW s \in Threads \ {t} PROVE OwnFile(s)'
  <2>1. OwnFile(s) BY DEF Owned
  <2>2. pc'[s] = pc[s] /\ loc'[s] = loc[s] OBVIOUS
  <2>3. CASE pc[s] \in Syncing
    <3>1. /\ local'[Plain(loc[s].name)] = local[Plain(loc[s].name)]
          /\ local'[loc[s].name] = local[loc[s].name]
      BY <2>3
    <3> QED BY <2>1, <2>2, <3>1 DEF OwnFile
  <2>4. CASE pc[s] \notin Syncing
    <3>1. pc[s] \notin {"encrypt", "upload", "unlink"} BY <2>4 DEF Syncing
    <3> QED BY <2>2, <2>4, <3>1 DEF OwnFile
  <2> QED BY <2>3, <2>4
<1> QED BY <1>1, <1>2 DEF Owned

\* A step of t that writes no snapshot and takes no name.
LEMMA OwnedSame ==
  ASSUME Shape, Owned, NEW t \in Threads, "shared name" \notin upsets, local' = local,
         \A s \in Threads \ {t} : pc'[s] = pc[s] /\ loc'[s] = loc[s],
         \/ pc'[t] \notin Syncing
         \/ /\ pc[t] \in Syncing /\ loc'[t].name = loc[t].name
            /\ \/ pc'[t] \in {"list", "prune"}
               \/ pc'[t] = "unlink" /\ loc[t].name # Plain(loc[t].name)
  PROVE  Owned'
<1>1. ASSUME NEW s \in Threads \ {t}, pc[s] \in Syncing, pc'[t] \in Syncing
      PROVE  loc'[t].name.sec # loc[s].name.sec
  <2>1. pc[t] \in Syncing /\ loc'[t].name = loc[t].name BY <1>1
  <2>2. OwnName(s, t) BY DEF Owned
  <2> QED BY <1>1, <2>1, <2>2 DEF OwnName
<1>2. CASE pc'[t] \notin Syncing
  <2>1. pc'[t] \notin {"encrypt", "upload", "unlink"} BY <1>2 DEF Syncing
  <2>2. OwnFile(t)' BY <1>2, <2>1 DEF OwnFile
  <2> QED BY <1>1, <2>2, OwnedBut
<1>3. CASE /\ pc[t] \in Syncing /\ loc'[t].name = loc[t].name
           /\ \/ pc'[t] \in {"list", "prune"}
              \/ pc'[t] = "unlink" /\ loc[t].name # Plain(loc[t].name)
  <2>1. OwnFile(t) BY DEF Owned
  <2>2. pc'[t] \notin {"encrypt", "upload"} BY <1>3
  <2>3. OwnFile(t)' BY <1>3, <2>1, <2>2 DEF OwnFile
  <2> QED BY <1>1, <2>3, OwnedBut
<1> QED BY <1>2, <1>3

\* A step of t that writes the file of its envelope and keeps its second.
LEMMA OwnedEnvelope ==
  ASSUME Shape, Owned, NEW t \in Threads, "shared name" \notin upsets,
         \A s \in Threads \ {t} : pc'[s] = pc[s] /\ loc'[s] = loc[s],
         pc[t] \in Syncing, NEW n \in Names, n # Plain(n), n.sec = loc[t].name.sec,
         NEW image, local' = [local EXCEPT ![n] = image],
         pc'[t] \in Syncing => loc'[t].name.sec = n.sec,
         local'[Plain(loc[t].name)] = local[Plain(loc[t].name)] => OwnFile(t)'
  PROVE  Owned'
<1>1. \A m \in Names \ {n} : local'[m] = local[m] BY DEF Shape
<1>2. \A s \in Threads : loc[s].name \in Names BY DEF Shape, CallRecord
<1>3. \A s \in Threads : Plain(loc[s].name) \in Names \ {n} BY <1>2, PlainNames
<1>4. ASSUME NEW s \in Threads \ {t}, pc[s] \in Syncing
      PROVE  /\ local'[Plain(loc[s].name)] = local[Plain(loc[s].name)]
             /\ local'[loc[s].name] = local[loc[s].name]
             /\ pc'[t] \in Syncing => loc'[t].name.sec # loc[s].name.sec
  <2>1. OwnName(s, t) BY DEF Owned
  <2>2. loc[s].name.sec # n.sec BY <1>4, <2>1 DEF OwnName
  <2>3. loc[s].name \in Names \ {n} BY <1>2, <2>2
  <2> QED BY <1>1, <1>3, <2>2, <2>3
<1>5. OwnFile(t)' BY <1>1, <1>3
<1> QED BY <1>4, <1>5, OwnedBut

\* A snapshot takes a name that no call of a calm run has.
LEMMA OwnedSnapshot ==
  ASSUME Shape, Budget, Owned, NEW t \in Threads, NEW sealed \in BOOLEAN,
         CreateLocalSnapshot(t, sealed), "shared name" \notin upsets'
  PROVE  Owned'
<1> DEFINE name == [sec |-> now, enc |-> FALSE]
           image == Image(Seen(path), 0)
<1>1. /\ pc[t] = "idle" /\ local[name] = Nothing /\ "shared name" \notin upsets
      /\ local' = [local EXCEPT ![name] = image]
  BY DEF CreateLocalSnapshot, Backup
<1>2. name \in Names BY DEF Names, Shape
<1>3. name.sec = now /\ Plain(name) = name BY DEF Plain
<1>4. loc'[t].name = name /\ loc'[t].image = image
  <2>1. loc \in [Threads -> CallRecord] BY DEF Shape
  <2>2. loc'[t] = [loc[t] EXCEPT !.name = name, !.image = image]
    BY <2>1 DEF CreateLocalSnapshot
  <2> HIDE DEF name, image
  <2> QED BY <2>1, <2>2 DEF CallRecord
<1>5. pc'[t] \in {"encrypt", "upload"} BY DEF CreateLocalSnapshot, Goto, Shape
<1>6. \A s \in Threads \ {t} : pc'[s] = pc[s] /\ loc'[s] = loc[s]
  BY DEF CreateLocalSnapshot, Goto, Shape
<1> HIDE DEF name
<1>7. local'[name] = image /\ \A n \in Names \ {name} : local'[n] = local[n]
  BY <1>1, <1>2 DEF Shape
<1>8. OwnFile(t)'
  <2>1. image # Nothing BY Blanks
  <2>2. pc'[t] # "unlink" BY <1>5
  <2> QED BY <1>3, <1>4, <1>7, <2>1, <2>2 DEF OwnFile
<1>9. ASSUME NEW s \in Threads \ {t}, pc[s] \in Syncing
      PROVE  /\ local'[Plain(loc[s].name)] = local[Plain(loc[s].name)]
             /\ local'[loc[s].name] = local[loc[s].name]
             /\ loc'[t].name.sec # loc[s].name.sec
  <2>1. loc[s].name \in Names BY DEF Shape, CallRecord
  <2>2. OwnFile(s) BY <1>1 DEF Owned
  <2>3. Plain(loc[s].name) # name BY <1>1, <1>9, <2>2 DEF OwnFile
  <2>4. loc[s].name # name BY <1>3, <2>3
  <2>5. loc[s].name.sec # name.sec BY <1>2, <1>3, <2>1, <2>3, PlainNames
  <2>6. Plain(loc[s].name) \in Names BY <2>1, PlainNames
  <2> QED BY <1>4, <1>7, <2>1, <2>3, <2>4, <2>5, <2>6
<1> QED BY <1>1, <1>6, <1>8, <1>9, OwnedBut

\* The steps of a synchronisation use their own names.
LEMMA OwnedSync == ASSUME Shape, Budget, Owned, NEW t \in Threads, Sync(t) PROVE Owned'
<1> USE DEF store, process, restoring, calls, history
<1> SUFFICES ASSUME "shared name" \notin upsets' PROVE Owned' BY DEF Owned
<1>1. "shared name" \notin upsets BY Bystander
<1>2. \A s \in Threads \ {t} : pc'[s] = pc[s] /\ loc'[s] = loc[s] BY Bystander
<1>3. loc[t].name \in Names BY DEF Shape, CallRecord
<1>4. ASSUME EndSync(t), pc[t] \in Syncing, local' = local PROVE Owned'
  <2>1. \/ loc[t].name.enc /\ pc'[t] = "unlink" /\ loc' = loc
        \/ pc'[t] = "idle"
    BY <1>4 DEF EndSync, Return, Goto, Shape
  <2>2. loc[t].name.enc => loc[t].name # Plain(loc[t].name) BY <1>3, PlainNames
  <2>3. "idle" \notin Syncing BY DEF Syncing
  <2> QED BY <1>1, <1>2, <1>4, <2>1, <2>2, <2>3, OwnedSame
<1>5. CASE EncryptSnapshotFile(t)
  <2> DEFINE name == loc[t].name
             sealed == [name EXCEPT !.enc = TRUE]
             image == Image(local[name].rows, key)
  <2>1. /\ pc[t] = "encrypt" /\ pc[t] \in Syncing
        /\ local' = [local EXCEPT ![sealed] = image] /\ pc'[t] = "upload"
    BY <1>5 DEF EncryptSnapshotFile, Goto, Shape, Syncing
  <2>2. sealed \in Names /\ sealed.enc /\ sealed.sec = name.sec BY <1>3 DEF Names
  <2>3. loc'[t].name = sealed /\ loc'[t].image = Image(loc[t].image.rows, key)
    BY <1>5 DEF EncryptSnapshotFile, Shape, CallRecord
  <2>4. OwnFile(t) BY <1>1 DEF Owned
  <2>5. local[name] = loc[t].image BY <2>1, <2>4 DEF OwnFile
  <2> HIDE DEF sealed
  <2>6. sealed # Plain(sealed) /\ Plain(sealed) = Plain(name)
    BY <1>3, <2>2, PlainNames
  <2>7. local'[sealed] = image BY <2>1, <2>2 DEF Shape
  <2>8. local'[Plain(name)] = local[Plain(name)] => OwnFile(t)'
    BY <2>1, <2>3, <2>4, <2>5, <2>6, <2>7 DEF OwnFile
  <2> QED BY <1>1, <1>2, <2>1, <2>2, <2>3, <2>6, <2>8, OwnedEnvelope
<1>6. CASE Upload(t)
  <2>1. local' = local /\ pc[t] = "upload" /\ pc'[t] = "list" BY <1>6 DEF Upload, Goto, Shape
  <2>2. loc'[t].name = loc[t].name BY <1>6 DEF Upload, Shape, CallRecord
  <2>3. pc[t] \in Syncing BY <2>1 DEF Syncing
  <2> QED BY <1>1, <1>2, <2>1, <2>2, <2>3, OwnedSame
<1>7. CASE UploadFails(t) BY <1>4, <1>7 DEF UploadFails, Syncing
<1>8. CASE ListCloudBackups(t)
  <2>1. local' = local /\ pc[t] \in Syncing BY <1>8 DEF ListCloudBackups, Syncing
  <2>2. CASE EndSync(t) BY <1>4, <2>1, <2>2
  <2>3. CASE loc' = [loc EXCEPT ![t].doomed = Surplus] /\ Goto(t, "prune")
    <3>1. pc'[t] = "prune" /\ loc'[t].name = loc[t].name
      BY <2>3 DEF Goto, Shape, CallRecord
    <3> QED BY <1>1, <1>2, <2>1, <3>1, OwnedSame
  <2> QED BY <1>8, <2>2, <2>3 DEF ListCloudBackups
<1>9. CASE DeleteObject(t)
  <2>1. local' = local /\ pc[t] = "prune" /\ pc[t] \in Syncing
    BY <1>9 DEF DeleteObject, Syncing
  <2>2. CASE EndSync(t) BY <1>4, <2>1, <2>2
  <2>3. ASSUME NEW n, loc' = [loc EXCEPT ![t].doomed = @ \ {n}], UNCHANGED pc PROVE Owned'
    <3>1. loc'[t].name = loc[t].name /\ pc'[t] = "prune"
      BY <2>1, <2>3 DEF Shape, CallRecord
    <3> QED BY <1>1, <1>2, <2>1, <3>1, OwnedSame
  <2> QED BY <1>9, <2>2, <2>3 DEF DeleteObject
<1>10. CASE UnlinkEnvelope(t)
  <2>1. /\ pc[t] = "unlink" /\ pc[t] \in Syncing /\ pc'[t] = "idle"
        /\ local' = [local EXCEPT ![loc[t].name] = Nothing]
    BY <1>10 DEF UnlinkEnvelope, Return, Goto, Shape, Syncing
  <2>2. OwnFile(t) BY <1>1 DEF Owned
  <2>3. loc[t].name # Plain(loc[t].name) BY <2>1, <2>2 DEF OwnFile
  <2>4. pc'[t] \notin Syncing BY <2>1 DEF Syncing
  <2>5. OwnFile(t)' BY <2>1, <2>4 DEF OwnFile
  <2> QED BY <1>1, <1>2, <1>3, <2>1, <2>3, <2>4, <2>5, OwnedEnvelope
<1>11. ASSUME NEW sealed \in BOOLEAN, CreateLocalSnapshot(t, sealed) PROVE Owned'
  BY <1>11, OwnedSnapshot
<1> QED BY <1>5, <1>6, <1>7, <1>8, <1>9, <1>10, <1>11 DEF Sync

\* Every step leaves the names to their owners.
LEMMA OwnedNext == ASSUME Shape, Budget, Owned, [Next]_vars PROVE Owned'
<1> USE DEF store, process, restoring, calls, history
<1> SUFFICES ASSUME "shared name" \notin upsets' PROVE Owned' BY DEF Owned
<1>1. ASSUME UNCHANGED <<pc, loc, local>>, "shared name" \notin upsets PROVE Owned'
  <2>1. \A r, s \in Threads : OwnName(r, s)' BY <1>1 DEF Owned, OwnName
  <2>2. \A s \in Threads : OwnFile(s)' BY <1>1 DEF Owned, OwnFile
  <2> QED BY <2>1, <2>2 DEF Owned
<1>2. CASE Tick \/ Finished \/ UNCHANGED vars BY <1>1, <1>2 DEF Tick, Finished, vars
<1>3. CASE Crash
  <2>1. \A s \in Threads : pc'[s] = "idle" BY <1>3 DEF Crash
  <2>2. \A s \in Threads : pc'[s] \notin Syncing BY <2>1 DEF Syncing
  <2> QED BY <2>1, <2>2 DEF Owned, OwnName, OwnFile
<1>4. ASSUME NEW t \in Threads, Operate(t) PROVE Owned'
  <2>1. UNCHANGED <<pc, loc, local>>
    BY <1>4 DEF Operate, Connect, KvSet, RotateKey, Checkpoint, Commit
  <2> QED BY <1>1, <1>4, <2>1, Bystander
<1>5. ASSUME NEW t \in Threads, Restore(t) PROVE Owned'
  <2>1. local' = local /\ "shared name" \notin upsets
    BY <1>5 DEF Restore, Download, DownloadFails, Request, Unpack, CheckAndCopy, CheckFails, Move,
                CleanUp
  <2>2. /\ pc'[t] \notin Syncing
        /\ \A s \in Threads \ {t} : pc'[s] = pc[s] /\ loc'[s] = loc[s]
    BY <1>5 DEF Restore, Download, DownloadFails, Unpack, CheckAndCopy, CheckFails, Move, CleanUp,
                Return, Goto, Syncing, Shape
  <2> QED BY <2>1, <2>2, OwnedSame
<1> QED BY <1>2, <1>3, <1>4, <1>5, OwnedSync DEF Next

\* What put_object sends is the database as it was at one moment of the call, the rows of the
\* log included, unless two calls of one second shared the name of the snapshot.
THEOREM UploadIsSnapshotAlways == Spec => UploadIsSnapshot
<1>1. Init => Owned
  <2> SUFFICES ASSUME Init PROVE Owned OBVIOUS
  <2>1. \A s \in Threads : pc[s] = "idle" BY DEF Init
  <2>2. \A s \in Threads : pc[s] \notin Syncing BY <2>1 DEF Syncing
  <2> QED BY <2>1, <2>2 DEF Owned, OwnName, OwnFile
<1>2. Shape /\ Budget /\ Owned /\ [Next]_vars => Shape' /\ Budget' /\ Owned'
  BY ShapeNext, OwnedNext
<1>3. Shape /\ Owned /\ [Next]_vars
        => [\A t \in Threads : Upload(t) /\ Calm({"mixed", "shared name"})
              => bucket'[loc[t].name].image = loc[t].image]_vars
  <2> SUFFICES ASSUME Shape, Owned, NEW t \in Threads, Upload(t),
                      Calm({"mixed", "shared name"})
               PROVE  bucket'[loc[t].name].image = loc[t].image
    OBVIOUS
  <2>1. OwnFile(t) BY DEF Owned, Calm
  <2>2. local[loc[t].name] = loc[t].image BY <2>1 DEF Upload, OwnFile
  <2>3. loc[t].name \in Names BY DEF Shape, CallRecord
  <2> QED BY <2>2, <2>3 DEF Upload, Shape
<1> QED BY <1>1, <1>2, <1>3, ShapeInit, PTL DEF Spec, UploadIsSnapshot

-----------------------------------------------------------------------------
(***************************************************************************)
(* Pruning. NewestKept is about one deletion; several calls may be pruning *)
(* from listings of different moments. What is inductive is that an object *)
(* some call has yet to delete still has retention_count objects before    *)
(* it: whoever deletes one of those found as many before that one.         *)
(***************************************************************************)
Before(n) == {o \in Objects : ListedBefore(o, n)}
Doomed(t, n) == pc[t] = "prune" /\ n \in loc[t].doomed
Uploading == {"encrypt", "upload"}

RankKept == \A t \in Threads, n \in Names :
              Doomed(t, n) /\ n \in Objects => Cardinality(Before(n)) >= Retention
\* The snapshot of an object is still there, and that of a name yet to delete.
NameUsed == \A n \in Names : n \in Objects \/ (\E t \in Threads : Doomed(t, n))
                               => local[Plain(n)] # Nothing
\* What a call is about to upload is not in the bucket, nor yet to delete.
NameNew == \A t \in Threads, n \in Names :
             pc[t] \in Uploading /\ n.sec = loc[t].name.sec
               => n \notin Objects /\ \A u \in Threads : ~Doomed(u, n)
Ranked == "shared name" \notin upsets => RankKept /\ NameUsed /\ NameNew

\* The bounds are numbers.
LEMMA Bounds == Retention \in Nat /\ MaxTime \in Nat
BY BackupAssumption

\* What counts at least as much as enough is enough.
LEMMA AtLeast ==
  ASSUME NEW c \in Nat, NEW d \in Nat, c >= Retention, c <= d
  PROVE  d >= Retention
BY Bounds

\* An object written now is no blank.
LEMMA Written ==
  ASSUME Shape, NEW image PROVE [image |-> image, at |-> now] # NoObject
<1>1. now # 0 BY Bounds DEF Shape
<1>2. NoObject.at = 0 BY DEF NoObject
<1>3. [image |-> image, at |-> now].at = now OBVIOUS
<1> QED BY <1>1, <1>2, <1>3

\* The names are finitely many.
LEMMA NamesFinite == IsFiniteSet(Names)
<1> DEFINE S == 1..MaxTime
           plain == [i \in S |-> [sec |-> i, enc |-> FALSE]]
           sealed == [i \in S |-> [sec |-> i, enc |-> TRUE]]
           P == {n \in Names : n.enc = FALSE}
           E == {n \in Names : n.enc = TRUE}
<1>1. IsFiniteSet(S) BY FS_Interval, BackupAssumption
<1>2. plain \in Surjection(S, P)
  <2>1. \A i \in S : plain[i] \in P BY DEF Names
  <2>2. \A n \in P : n.sec \in S /\ plain[n.sec] = n BY DEF Names
  <2> QED BY <2>1, <2>2 DEF Surjection
<1>3. sealed \in Surjection(S, E)
  <2>1. \A i \in S : sealed[i] \in E BY DEF Names
  <2>2. \A n \in E : n.sec \in S /\ sealed[n.sec] = n BY DEF Names
  <2> QED BY <2>1, <2>2 DEF Surjection
<1>4. IsFiniteSet(P) BY <1>1, <1>2, FS_Surjection
<1>5. IsFiniteSet(E) BY <1>1, <1>3, FS_Surjection
<1>6. Names = P \cup E BY DEF Names
<1>7. IsFiniteSet(P \cup E) BY <1>4, <1>5, FS_Union
<1> QED BY <1>6, <1>7

\* A set of names is counted, and a part of it counts no more.
LEMMA Counted ==
  ASSUME NEW S \in SUBSET Names, NEW T \in SUBSET S
  PROVE  /\ Cardinality(S) \in Nat /\ Cardinality(T) \in Nat
         /\ Cardinality(T) <= Cardinality(S)
<1>1. IsFiniteSet(S) BY NamesFinite, FS_Subset
<1>2. IsFiniteSet(T) /\ Cardinality(T) <= Cardinality(S) BY <1>1, FS_Subset
<1> QED BY <1>1, <1>2, FS_CardinalityType

\* The listing is a strict order.
LEMMA ListingOrder ==
  ASSUME Shape, NEW a \in Names, NEW b \in Names
  PROVE  /\ ~ListedBefore(a, a)
         /\ ListedBefore(a, b) => bucket[a].at >= bucket[b].at
         /\ \A c \in Names : ListedBefore(a, b) /\ ListedBefore(b, c) => ListedBefore(a, c)
<1> DEFINE Tied(n, o) == o.enc /\ ~n.enc
<1>1. \A n \in Names : bucket[n].at \in Nat /\ n.sec \in Int
  <2>1. \A n \in Names : bucket[n].at \in Nat BY DEF Shape
  <2>2. \A n \in Names : n.sec \in Int BY DEF Names
  <2> QED BY <2>1, <2>2
<1>2. ASSUME NEW n, NEW o
      PROVE  ListedBefore(n, o) <=> \/ bucket[n].at > bucket[o].at
                                    \/ /\ bucket[n].at = bucket[o].at
                                       /\ n.sec < o.sec \/ (n.sec = o.sec /\ Tied(n, o))
  BY ZenonT(60) DEF ListedBefore
<1>3. \A n, o : Tied(n, o) => ~Tied(n, n) /\ \A m : ~Tied(o, m) BY Zenon
<1>4. ~Tied(a, a) BY Zenon
<1> HIDE DEF Tied
<1>5. ~ListedBefore(a, a) BY <1>1, <1>2, <1>4
<1>6. ListedBefore(a, b) => bucket[a].at >= bucket[b].at BY <1>1, <1>2
<1>7. ASSUME NEW c \in Names, ListedBefore(a, b), ListedBefore(b, c) PROVE ListedBefore(a, c)
  BY <1>1, <1>2, <1>3, <1>7
<1> QED BY <1>5, <1>6, <1>7

\* A step that leaves the bucket alone: who prunes has listed it, and who
\* uploads did before or has a name without a snapshot.
LEMMA RankedSame ==
  ASSUME Shape, Ranked, "shared name" \notin upsets, bucket' = bucket,
         \A n \in Names : local[Plain(n)] # Nothing => local'[Plain(n)] # Nothing,
         \A u \in Threads, n \in Names : Doomed(u, n)' => Doomed(u, n) \/ n \in Surplus,
         \A u \in Threads : pc'[u] \in Uploading
           => \/ pc[u] \in Uploading /\ loc'[u].name.sec = loc[u].name.sec
              \/ loc'[u].name \in Names /\ local[Plain(loc'[u].name)] = Nothing
  PROVE  Ranked'
<1>0. RankKept /\ NameUsed /\ NameNew BY DEF Ranked
<1>1. Objects' = Objects /\ \A n : Before(n)' = Before(n)
  BY DEF Objects, Before, ListedBefore
<1>2. \A n \in Surplus : n \in Objects /\ Cardinality(Before(n)) >= Retention
  BY DEF Surplus, Before
<1>3. RankKept' BY <1>0, <1>1, <1>2 DEF RankKept
<1>4. NameUsed'
  <2> SUFFICES ASSUME NEW n \in Names, n \in Objects \/ \E t \in Threads : Doomed(t, n)'
               PROVE  local[Plain(n)] # Nothing
    BY <1>1 DEF NameUsed
  <2>1. n \in Objects \/ \E t \in Threads : Doomed(t, n) BY <1>2
  <2> QED BY <1>0, <2>1 DEF NameUsed
<1>5. NameNew'
  <2> SUFFICES ASSUME NEW t \in Threads, NEW n \in Names, pc'[t] \in Uploading,
                      n.sec = loc'[t].name.sec
               PROVE  n \notin Objects /\ \A u \in Threads : ~Doomed(u, n)'
    BY <1>1 DEF NameNew, Uploading
  <2>1. n \notin Objects /\ \A u \in Threads : ~Doomed(u, n)
    <3>1. CASE pc[t] \in Uploading /\ loc'[t].name.sec = loc[t].name.sec
      BY <1>0, <3>1 DEF NameNew
    <3>2. CASE loc'[t].name \in Names /\ local[Plain(loc'[t].name)] = Nothing
      <4>1. Plain(n) = Plain(loc'[t].name) BY <3>2, PlainNames
      <4> QED BY <1>0, <3>2, <4>1 DEF NameUsed
    <3> QED BY <3>1, <3>2
  <2> QED BY <1>2, <2>1
<1> QED BY <1>3, <1>4, <1>5 DEF Ranked

\* An upload adds an object, which nobody is about to delete.
LEMMA RankedUpload ==
  ASSUME Shape, Owned, Ranked, "shared name" \notin upsets, NEW t \in Threads, Upload(t)
  PROVE  Ranked'
<1> DEFINE name == loc[t].name
<1>0. RankKept /\ NameUsed /\ NameNew BY DEF Ranked
<1>1. name \in Names BY DEF Shape, CallRecord
<1>2. /\ pc[t] = "upload" /\ pc'[t] = "list" /\ local' = local
      /\ bucket' = [bucket EXCEPT ![name] = [image |-> local[name], at |-> now]]
      /\ \A u \in Threads \ {t} : pc'[u] = pc[u] /\ loc'[u] = loc[u]
  BY DEF Upload, Goto, Shape
<1>3. pc[t] \in Uploading /\ pc[t] \in Syncing BY <1>2 DEF Uploading, Syncing
<1> HIDE DEF name
<1>4. name \notin Objects /\ \A u \in Threads : ~Doomed(u, name)
  BY <1>0, <1>1, <1>3 DEF NameNew, name
<1>5. \A n \in Names \ {name} : bucket'[n] = bucket[n] BY <1>2 DEF Shape
<1>6. bucket'[name] # NoObject
  <2>1. bucket'[name] = [image |-> local[name], at |-> now] BY <1>1, <1>2 DEF Shape
  <2> QED BY <2>1, Written
<1>7. Objects' = Objects \cup {name} BY <1>1, <1>5, <1>6 DEF Objects
<1>8. \A u \in Threads, n \in Names : Doomed(u, n)' => Doomed(u, n) /\ n # name
  <2>1. \A n \in Names : ~Doomed(t, n)' BY <1>2 DEF Doomed
  <2> QED BY <1>2, <1>4, <2>1 DEF Doomed
<1>9. RankKept'
  <2> SUFFICES ASSUME NEW u \in Threads, NEW n \in Names, Doomed(u, n)', n \in Objects'
               PROVE  Cardinality(Before(n)') >= Retention
    BY DEF RankKept
  <2>1. Doomed(u, n) /\ n # name /\ n \in Objects BY <1>7, <1>8
  <2>2. Cardinality(Before(n)) >= Retention BY <1>0, <2>1 DEF RankKept
  <2>3. \A o \in Objects : ListedBefore(o, n) => ListedBefore(o, n)'
    BY <1>4, <1>5, <2>1 DEF ListedBefore, Objects
  <2>4. Before(n) \subseteq Before(n)' BY <1>7, <2>3 DEF Before
  <2>5. Before(n)' \subseteq Names BY DEF Before, Objects
  <2>6. PICK after : after = Before(n)' OBVIOUS
  <2>7. /\ Cardinality(Before(n)) \in Nat /\ Cardinality(after) \in Nat
        /\ Cardinality(Before(n)) <= Cardinality(after)
    BY <2>4, <2>5, <2>6, Counted
  <2>8. Cardinality(after) >= Retention BY <2>2, <2>7, AtLeast
  <2> QED BY <2>6, <2>8
<1>10. NameUsed'
  <2>1. local[Plain(name)] # Nothing
    <3>1. OwnFile(t) BY DEF Owned
    <3> QED BY <1>3, <3>1 DEF OwnFile, name
  <2>2. \A n \in Names : n \in Objects' \/ (\E u \in Threads : Doomed(u, n)')
          => n = name \/ n \in Objects \/ \E u \in Threads : Doomed(u, n)
    BY <1>7, <1>8
  <2> QED BY <1>0, <1>2, <2>1, <2>2 DEF NameUsed
<1>11. NameNew'
  <2> SUFFICES ASSUME NEW s \in Threads, NEW n \in Names, pc'[s] \in Uploading,
                      n.sec = loc'[s].name.sec
               PROVE  n \notin Objects' /\ \A u \in Threads : ~Doomed(u, n)'
    BY DEF NameNew, Uploading
  <2>1. s # t BY <1>2 DEF Uploading
  <2>2. pc[s] \in Uploading /\ n.sec = loc[s].name.sec BY <1>2, <2>1
  <2>3. pc[s] \in Syncing BY <2>2 DEF Uploading, Syncing
  <2>4. n # name
    <3>1. OwnName(s, t) BY DEF Owned
    <3> QED BY <1>3, <2>1, <2>2, <2>3, <3>1 DEF OwnName, name
  <2> QED BY <1>0, <1>7, <1>8, <2>2, <2>4 DEF NameNew
<1> QED BY <1>9, <1>10, <1>11 DEF Ranked

\* What a deletion deletes.
LEMMA Deletion ==
  ASSUME Shape, NEW t \in Threads, DeleteObject(t), bucket' # bucket
  PROVE  \E n \in Names :
           /\ Doomed(t, n) /\ bucket' = [bucket EXCEPT ![n] = NoObject]
           /\ \A m : Doomed(t, m)' => Doomed(t, m)
<1>1. PICK n \in loc[t].doomed :
        /\ bucket' = [bucket EXCEPT ![n] = NoObject]
        /\ IF loc[t].doomed = {n} THEN EndSync(t)
           ELSE loc' = [loc EXCEPT ![t].doomed = @ \ {n}] /\ UNCHANGED pc
  BY DEF DeleteObject
<1>2. n \in Names /\ Doomed(t, n) BY DEF Shape, CallRecord, Doomed, DeleteObject
<1>3. CASE EndSync(t)
  <2>1. pc'[t] \in {"unlink", "idle"} BY <1>3 DEF EndSync, Return, Goto, Shape
  <2> QED BY <1>1, <1>2, <2>1 DEF Doomed
<1>4. CASE loc' = [loc EXCEPT ![t].doomed = @ \ {n}] /\ UNCHANGED pc
  <2>1. loc'[t].doomed \subseteq loc[t].doomed BY <1>4 DEF Shape, CallRecord
  <2> QED BY <1>1, <1>2, <1>4, <2>1 DEF Doomed
<1> QED BY <1>1, <1>3, <1>4

\* Whoever deletes an object that is before another to be deleted leaves as
\* many before that one.
LEMMA RankedDelete ==
  ASSUME Shape, Ranked, "shared name" \notin upsets, NEW t \in Threads, DeleteObject(t),
         bucket' # bucket
  PROVE  Ranked'
<1>0. RankKept /\ NameUsed /\ NameNew BY DEF Ranked
<1>1. PICK d \in Names : /\ Doomed(t, d) /\ bucket' = [bucket EXCEPT ![d] = NoObject]
                         /\ \A m : Doomed(t, m)' => Doomed(t, m)
  BY Deletion
<1>2. /\ \A u \in Threads \ {t} : pc'[u] = pc[u] /\ loc'[u] = loc[u]
      /\ local' = local /\ pc[t] = "prune" /\ pc'[t] \in {"prune", "unlink", "idle"}
  BY DEF DeleteObject, EndSync, Return, Goto, Shape
<1>3. \A u \in Threads, n \in Names : Doomed(u, n)' => Doomed(u, n)
  BY <1>1, <1>2 DEF Doomed
<1>4. bucket'[d] = NoObject /\ \A n \in Names \ {d} : bucket'[n] = bucket[n]
  BY <1>1 DEF Shape
<1>5. Objects' = Objects \ {d} BY <1>4 DEF Objects
<1>6. RankKept'
  <2> SUFFICES ASSUME NEW u \in Threads, NEW n \in Names, Doomed(u, n)', n \in Objects'
               PROVE  Cardinality(Before(n)') >= Retention
    BY DEF RankKept
  <2>1. Doomed(u, n) /\ n # d /\ n \in Objects BY <1>3, <1>5
  <2>2. \A o \in Objects \ {d} : ListedBefore(o, n) => ListedBefore(o, n)'
    BY <1>4, <2>1 DEF ListedBefore, Objects
  <2>3. Before(n)' \subseteq Names BY DEF Before, Objects
  <2>4. \E S \in SUBSET Before(n)' : Cardinality(S) >= Retention
    <3>1. CASE d \notin Before(n)
      <4>1. Before(n) \subseteq Before(n)' BY <1>5, <2>2, <3>1 DEF Before
      <4>2. Cardinality(Before(n)) >= Retention BY <1>0, <2>1 DEF RankKept
      <4> QED BY <4>1, <4>2
    <3>2. CASE d \in Before(n)
      <4>1. d \in Objects /\ ListedBefore(d, n) BY <3>2 DEF Before
      <4>2. Cardinality(Before(d)) >= Retention BY <1>0, <1>1, <4>1 DEF RankKept
      <4>3. \A o \in Objects : o \in Names BY DEF Objects
      <4>4. \A o \in Before(d) : o \in Objects \ {d} /\ ListedBefore(o, n)
        BY <4>1, <4>3, ListingOrder DEF Before
      <4>5. Before(d) \subseteq Before(n)' BY <1>5, <2>2, <4>4 DEF Before
      <4> QED BY <4>2, <4>5
    <3> QED BY <3>1, <3>2
  <2>5. PICK after : after = Before(n)' OBVIOUS
  <2>6. PICK S \in SUBSET after : Cardinality(S) >= Retention BY <2>4, <2>5
  <2>7. /\ Cardinality(S) \in Nat /\ Cardinality(after) \in Nat
        /\ Cardinality(S) <= Cardinality(after)
    BY <2>3, <2>5, Counted
  <2>8. Cardinality(after) >= Retention BY <2>6, <2>7, AtLeast
  <2> QED BY <2>5, <2>8
<1>7. NameUsed' BY <1>0, <1>2, <1>3, <1>5 DEF NameUsed
<1>8. NameNew'
  <2>1. \A s \in Threads : pc'[s] \in Uploading
          => pc[s] \in Uploading /\ loc'[s].name = loc[s].name
    BY <1>2 DEF Uploading
  <2> QED BY <1>0, <1>3, <1>5, <2>1 DEF NameNew, Uploading
<1> QED BY <1>6, <1>7, <1>8 DEF Ranked

\* The steps of a synchronisation.
LEMMA RankedSync ==
  ASSUME Shape, Owned, Ranked, NEW t \in Threads, Sync(t) PROVE Ranked'
<1> USE DEF store, process, restoring, calls, history
<1> SUFFICES ASSUME "shared name" \notin upsets' PROVE Ranked' BY DEF Ranked
<1>1. "shared name" \notin upsets BY Bystander
<1>2. \A s \in Threads \ {t} : pc'[s] = pc[s] /\ loc'[s] = loc[s] BY Bystander
<1>3. loc[t].name \in Names BY DEF Shape, CallRecord
<1>4. ASSUME bucket' = bucket,
             \A n \in Names : local[Plain(n)] # Nothing => local'[Plain(n)] # Nothing,
             \A n \in Names : Doomed(t, n)' => Doomed(t, n) \/ n \in Surplus,
             pc'[t] \in Uploading
               => \/ pc[t] \in Uploading /\ loc'[t].name.sec = loc[t].name.sec
                  \/ loc'[t].name \in Names /\ local[Plain(loc'[t].name)] = Nothing
      PROVE  Ranked'
  <2>1. \A u \in Threads, n \in Names : Doomed(u, n)' => Doomed(u, n) \/ n \in Surplus
    BY <1>2, <1>4 DEF Doomed
  <2>2. \A u \in Threads : pc'[u] \in Uploading
          => \/ pc[u] \in Uploading /\ loc'[u].name.sec = loc[u].name.sec
             \/ loc'[u].name \in Names /\ local[Plain(loc'[u].name)] = Nothing
    BY <1>2, <1>4
  <2> QED BY <1>1, <1>4, <2>1, <2>2, RankedSame
<1>5. ASSUME EndSync(t), bucket' = bucket, local' = local PROVE Ranked'
  <2>1. pc'[t] \in {"unlink", "idle"} BY <1>5 DEF EndSync, Return, Goto, Shape
  <2> QED BY <1>4, <1>5, <2>1 DEF Doomed, Uploading
<1>6. ASSUME NEW sealed \in BOOLEAN, CreateLocalSnapshot(t, sealed) PROVE Ranked'
  <2> DEFINE name == [sec |-> now, enc |-> FALSE]
             image == Image(Seen(path), 0)
  <2>1. /\ local[name] = Nothing /\ local' = [local EXCEPT ![name] = image]
        /\ bucket' = bucket /\ pc'[t] \in {"encrypt", "upload"}
    BY <1>6 DEF CreateLocalSnapshot, Backup, Goto, Shape
  <2>2. loc'[t].name = name
    <3>1. loc \in [Threads -> CallRecord] BY DEF Shape
    <3>2. loc'[t] = [loc[t] EXCEPT !.name = name, !.image = image]
      BY <1>6, <3>1 DEF CreateLocalSnapshot
    <3> HIDE DEF name, image
    <3> QED BY <3>1, <3>2 DEF CallRecord
  <2>3. name \in Names /\ Plain(name) = name BY DEF Names, Shape, Plain
  <2>4. image # Nothing BY Blanks
  <2> HIDE DEF name, image
  <2>5. \A n \in Names : local[n] # Nothing => local'[n] # Nothing
    BY <2>1, <2>3, <2>4 DEF Shape
  <2>6. \A n \in Names : local[Plain(n)] # Nothing => local'[Plain(n)] # Nothing
    BY <2>5, PlainNames
  <2> QED BY <1>4, <2>1, <2>2, <2>3, <2>6 DEF Doomed
<1>7. ASSUME NEW n \in Names, n # Plain(n), NEW image, local' = [local EXCEPT ![n] = image]
      PROVE  \A m \in Names : local'[Plain(m)] = local[Plain(m)]
  <2>1. \A m \in Names : Plain(m) \in Names /\ Plain(m) # n BY <1>7, PlainNames
  <2> QED BY <1>7, <2>1 DEF Shape
<1>8. CASE EncryptSnapshotFile(t)
  <2> DEFINE sealed == [loc[t].name EXCEPT !.enc = TRUE]
             image == Image(local[loc[t].name].rows, key)
  <2>1. /\ pc[t] = "encrypt" /\ local' = [local EXCEPT ![sealed] = image]
        /\ pc'[t] = "upload" /\ bucket' = bucket
    BY <1>8 DEF EncryptSnapshotFile, Goto, Shape
  <2>2. sealed \in Names /\ sealed.enc /\ sealed.sec = loc[t].name.sec BY <1>3 DEF Names
  <2>3. loc'[t].name = sealed BY <1>8 DEF EncryptSnapshotFile, Shape, CallRecord
  <2> HIDE DEF sealed, image
  <2>4. sealed # Plain(sealed) BY <2>2, PlainNames
  <2>5. \A m \in Names : local'[Plain(m)] = local[Plain(m)] BY <1>7, <2>1, <2>2, <2>4
  <2> QED BY <1>4, <2>1, <2>2, <2>3, <2>5 DEF Doomed, Uploading
<1>9. CASE Upload(t) BY <1>1, <1>9, RankedUpload
<1>10. CASE UploadFails(t) BY <1>5, <1>10 DEF UploadFails
<1>11. CASE ListCloudBackups(t)
  <2>1. local' = local /\ bucket' = bucket BY <1>11 DEF ListCloudBackups
  <2>2. CASE EndSync(t) BY <1>5, <2>1, <2>2
  <2>3. CASE loc' = [loc EXCEPT ![t].doomed = Surplus] /\ Goto(t, "prune")
    <3>1. pc'[t] = "prune" /\ loc'[t].doomed = Surplus BY <2>3 DEF Goto, Shape, CallRecord
    <3> QED BY <1>4, <2>1, <3>1 DEF Doomed, Uploading
  <2> QED BY <1>11, <2>2, <2>3 DEF ListCloudBackups
<1>12. CASE DeleteObject(t)
  <2>1. CASE bucket' # bucket BY <1>1, <1>12, <2>1, RankedDelete
  <2>2. CASE bucket' = bucket
    <3>1. /\ local' = local /\ pc'[t] \in {"prune", "unlink", "idle"}
          /\ \A n : Doomed(t, n)' => Doomed(t, n)
      <4>1. CASE EndSync(t)
        <5>1. pc'[t] \in {"unlink", "idle"} BY <4>1 DEF EndSync, Return, Goto, Shape
        <5> QED BY <1>12, <5>1 DEF DeleteObject, Doomed
      <4>2. ASSUME NEW n, loc' = [loc EXCEPT ![t].doomed = @ \ {n}], UNCHANGED pc
            PROVE  \A m : Doomed(t, m)' => Doomed(t, m)
        <5>1. loc'[t].doomed \subseteq loc[t].doomed BY <4>2 DEF Shape, CallRecord
        <5> QED BY <4>2, <5>1 DEF Doomed
      <4> QED BY <1>12, <4>1, <4>2 DEF DeleteObject
    <3> QED BY <1>4, <2>2, <3>1 DEF Uploading
  <2> QED BY <2>1, <2>2
<1>13. CASE UnlinkEnvelope(t)
  <2>1. /\ pc[t] = "unlink" /\ pc'[t] = "idle" /\ bucket' = bucket
        /\ local' = [local EXCEPT ![loc[t].name] = Nothing]
    BY <1>13 DEF UnlinkEnvelope, Return, Goto, Shape
  <2>2. OwnFile(t) BY <1>1 DEF Owned
  <2>3. loc[t].name # Plain(loc[t].name) BY <2>1, <2>2 DEF OwnFile
  <2>4. \A m \in Names : local'[Plain(m)] = local[Plain(m)] BY <1>3, <1>7, <2>1, <2>3
  <2> QED BY <1>4, <2>1, <2>4 DEF Doomed, Uploading
<1> QED BY <1>6, <1>8, <1>9, <1>10, <1>11, <1>12, <1>13 DEF Sync

\* Every step of the specification keeps it.
LEMMA RankedNext == ASSUME Shape, Owned, Ranked, [Next]_vars PROVE Ranked'
<1> USE DEF store, process, restoring, calls, history
<1> SUFFICES ASSUME "shared name" \notin upsets' PROVE Ranked' BY DEF Ranked
<1>1. ASSUME UNCHANGED <<pc, loc, local, bucket>>, "shared name" \notin upsets PROVE Ranked'
  BY <1>1, RankedSame DEF Doomed
<1>2. CASE Tick \/ Finished \/ UNCHANGED vars BY <1>1, <1>2 DEF Tick, Finished, vars
<1>3. CASE Crash
  <2>1. \A s \in Threads : pc'[s] = "idle" BY <1>3 DEF Crash
  <2>2. \A s \in Threads : pc'[s] \notin Uploading /\ \A n \in Names : ~Doomed(s, n)'
    BY <2>1 DEF Uploading, Doomed
  <2>3. UNCHANGED <<local, bucket>> /\ "shared name" \notin upsets BY <1>3 DEF Crash
  <2> QED BY <2>2, <2>3, RankedSame
<1>4. ASSUME NEW t \in Threads, Operate(t) PROVE Ranked'
  <2>1. UNCHANGED <<pc, loc, local, bucket>>
    BY <1>4 DEF Operate, Connect, KvSet, RotateKey, Checkpoint, Commit
  <2> QED BY <1>1, <1>4, <2>1, Bystander
<1>5. ASSUME NEW t \in Threads, Restore(t) PROVE Ranked'
  <2>1. UNCHANGED <<local, bucket>> /\ "shared name" \notin upsets
    BY <1>5 DEF Restore, Download, DownloadFails, Request, Unpack, CheckAndCopy, CheckFails, Move,
                CleanUp
  <2>2. /\ pc'[t] \notin Uploading /\ pc'[t] # "prune"
        /\ \A s \in Threads \ {t} : pc'[s] = pc[s] /\ loc'[s] = loc[s]
    BY <1>5 DEF Restore, Download, DownloadFails, Unpack, CheckAndCopy, CheckFails, Move, CleanUp,
                Return, Goto, Uploading, Shape
  <2>3. \A s \in Threads, n \in Names : Doomed(s, n)' => Doomed(s, n) BY <2>2 DEF Doomed
  <2>4. \A s \in Threads : pc'[s] \in Uploading => pc[s] \in Uploading /\ loc'[s] = loc[s]
    BY <2>2
  <2> QED BY <2>1, <2>3, <2>4, RankedSame
<1> QED BY <1>2, <1>3, <1>4, <1>5, RankedSync DEF Next

\* Only pruning deletes an object, one that it has listed as surplus.
LEMMA OnlyPruning ==
  ASSUME Shape, Next, NEW n \in Objects, bucket'[n] = NoObject
  PROVE  \E t \in Threads : Doomed(t, n) /\ bucket' = [bucket EXCEPT ![n] = NoObject]
<1> USE DEF store, process, restoring, calls, history
<1>0. n \in Names /\ bucket[n] # NoObject /\ bucket' # bucket BY DEF Objects
<1>1. ASSUME NEW t \in Threads, Operate(t) \/ Restore(t) PROVE FALSE
  BY <1>0, <1>1 DEF Operate, Connect, KvSet, RotateKey, Checkpoint, Commit, Restore, Download,
               DownloadFails, Request, Unpack, CheckAndCopy, CheckFails, Move, CleanUp
<1>2. CASE Tick \/ Crash \/ Finished BY <1>0, <1>2 DEF Tick, Crash, Finished, vars
<1>3. ASSUME NEW t \in Threads, Upload(t) PROVE FALSE
  <2>1. loc[t].name \in Names BY DEF Shape, CallRecord
  <2>2. bucket' = [bucket EXCEPT ![loc[t].name] = [image |-> local[loc[t].name], at |-> now]]
    BY <1>3 DEF Upload
  <2>3. bucket'[n] = bucket[n] \/ bucket'[n].at = now BY <1>0, <2>1, <2>2 DEF Shape
  <2>4. NoObject.at # now BY DEF NoObject, Shape
  <2> QED BY <1>0, <2>3, <2>4
<1>4. ASSUME NEW t \in Threads, DeleteObject(t)
      PROVE  Doomed(t, n) /\ bucket' = [bucket EXCEPT ![n] = NoObject]
  <2>1. PICK d \in Names : Doomed(t, d) /\ bucket' = [bucket EXCEPT ![d] = NoObject]
    BY <1>0, <1>4, Deletion
  <2>2. d = n BY <1>0, <2>1 DEF Shape
  <2> QED BY <2>1, <2>2
<1>5. ASSUME NEW t \in Threads, Sync(t) PROVE DeleteObject(t)
  BY <1>0, <1>3, <1>5 DEF Sync, CreateLocalSnapshot, EncryptSnapshotFile, UploadFails,
                          ListCloudBackups, UnlinkEnvelope
<1> QED BY <1>1, <1>2, <1>4, <1>5 DEF Next

\* Pruning leaves retention_count objects that are at least as new as the one it deletes,
\* whatever other calls upload and prune meanwhile, from listings of whatever moment, unless
\* two calls of one second shared the name of the snapshot.
THEOREM NewestKeptAlways == Spec => NewestKept
<1>1. Init => Owned /\ Ranked
  <2> SUFFICES ASSUME Init PROVE Owned /\ Ranked OBVIOUS
  <2>1. \A s \in Threads : pc[s] = "idle" BY DEF Init
  <2>2. \A s \in Threads : pc[s] \notin Syncing /\ pc[s] \notin Uploading
    BY <2>1 DEF Syncing, Uploading
  <2>3. \A s \in Threads, n \in Names : ~Doomed(s, n) BY <2>1 DEF Doomed
  <2>4. Objects = {} BY DEF Init, Objects
  <2>5. \A s \in Threads : pc[s] \notin {"encrypt", "upload", "unlink"} BY <2>1
  <2>6. Owned BY <2>2, <2>5 DEF Owned, OwnName, OwnFile
  <2>7. RankKept BY <2>3 DEF RankKept
  <2>8. NameUsed BY <2>3, <2>4 DEF NameUsed
  <2>9. NameNew BY <2>2 DEF NameNew
  <2> QED BY <2>6, <2>7, <2>8, <2>9 DEF Ranked
<1>2. Shape /\ Budget /\ Owned /\ Ranked /\ [Next]_vars
        => Shape' /\ Budget' /\ Owned' /\ Ranked'
  BY ShapeNext, OwnedNext, RankedNext
<1>3. ASSUME Shape, Ranked, Next, NEW n \in Objects, bucket'[n] = NoObject,
             Calm({"shared name"})
      PROVE  Cardinality({o \in Objects' : bucket'[o].at >= bucket[n].at}) >= Retention
  <2> DEFINE kept == {o \in Objects' : bucket'[o].at >= bucket[n].at}
  <2>1. PICK t \in Threads : Doomed(t, n) /\ bucket' = [bucket EXCEPT ![n] = NoObject]
    BY <1>3, OnlyPruning
  <2>2. n \in Names /\ \A o \in Objects : o \in Names BY DEF Objects
  <2>3. RankKept BY <1>3 DEF Calm, Ranked
  <2>4. Cardinality(Before(n)) >= Retention BY <1>3, <2>1, <2>2, <2>3 DEF RankKept
  <2>5. \A o \in Before(n) : o \in Objects /\ o # n /\ bucket[o].at >= bucket[n].at
    BY <1>3, <2>2, ListingOrder DEF Before
  <2>6. \A o \in Objects \ {n} : o \in Objects' /\ bucket'[o] = bucket[o]
    BY <1>3, <2>1, <2>2 DEF Objects, Shape
  <2>7. Before(n) \subseteq kept BY <2>5, <2>6
  <2>8. kept \subseteq Names BY DEF Objects
  <2> HIDE DEF kept, Before
  <2>9. /\ Cardinality(Before(n)) \in Nat /\ Cardinality(kept) \in Nat
        /\ Cardinality(Before(n)) <= Cardinality(kept)
    BY <2>7, <2>8, Counted
  <2>10. Cardinality(kept) >= Retention BY <2>4, <2>9, Bounds
  <2> QED BY <2>10 DEF kept
<1>4. Shape /\ Ranked /\ [Next]_vars
        => [\A n \in Objects : bucket'[n] = NoObject /\ Calm({"shared name"})
              => Cardinality({o \in Objects' : bucket'[o].at >= bucket[n].at}) >= Retention]_vars
  BY <1>3
<1> QED BY <1>1, <1>2, <1>4, ShapeInit, PTL DEF Spec, NewestKept
=============================================================================
