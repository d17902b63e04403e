----------------------------- MODULE KeyMaterial -----------------------------
(***************************************************************************)
(* The key material of src/database.py: where a process gets its key, the  *)
(* three ciphers it keeps, and the two decoders of a row, the one of the   *)
(* reads and the one of the audit (src/integrity.py). Several processes    *)
(* share the database, secret.key and .db.salt: the application and the    *)
(* CLI, which can rotate the key beside it.                                *)
(*                                                                         *)
(* Keys are numbered in the order they are made. The passphrase is one, so *)
(* that a salt stands for the key derived with it. Compression is left out.*)
(***************************************************************************)
EXTENDS Integers

CONSTANTS Procs, Threads,  \* processes and their threads
          Home,            \* Home[t]: the process of t
          Work,            \* Work[t]: what t calls, a subset of Jobs
          Docs,            \* documents
          MaxKeys,         \* bound: keys and salts made
          MaxWrites,       \* bound: documents written
          MaxRestarts      \* bound: processes that end and start again

Jobs == {"write", "set", "passphrase", "rotate"}

\* The CLI, which rotates, has one thread.
ASSUME KeyAssumption ==
  /\ Home \in [Threads -> Procs] /\ Work \in [Threads -> SUBSET Jobs]
  /\ \A t \in Threads, u \in Threads : "rotate" \in Work[t] /\ u # t => Home[u] # Home[t]
  /\ Docs # {} /\ {MaxKeys, MaxWrites, MaxRestarts} \subseteq Nat

VARIABLES file, salt,     \* the key in secret.key, the salt in .db.salt
          env,            \* env[p]: ENCRYPTION_KEY
          aes, fer, cha,  \* _cipher_aesgcm, _cipher_fernet, _cipher_chacha of p
          row, idx,       \* a document's blob, and the key of its index
          pc, mat, doc,   \* next step, key material and document of a call
          blob,           \* the blob it will store
          made, writes, restarts,  \* how much of the bounds is used
          rotated,        \* the key of the last CLI rotation, 0 for none
          deployed,       \* ENCRYPTION_KEY for the processes that start
          given,          \* history: keys that the application passed
          outdated,       \* history: processes that do not know of the rotation
          upsets          \* history: what happened that the properties except

disk == <<file, salt, row, idx>>
ciphers == <<env, aes, fer, cha>>
bounds == <<made, writes, restarts>>
operator == <<rotated, deployed>>
history == <<given, outdated, upsets>>
vars == <<disk, ciphers, pc, mat, doc, blob, bounds, operator, history>>

None == 0
Blank == -1    \* a file that was just created: its key is the hash of nothing
Algorithms == {"GCM", "CHACHA", "FERNET"}
\* How a blob begins: a prefix, "token" (gAAAA or 0x80) or neither ("bare").
\* The last two are of versions without prefixes.
Blob(head, cipher, key) == [head |-> head, cipher |-> cipher, key |-> key]
NoBlob == Blob("none", "none", None)
Prefixed(alg, key) == Blob(alg, alg, key)
\* An unprefixed nonce may begin like a token.
Legacy == {Blob("token", "FERNET", 1), Blob("bare", "GCM", 1), Blob("token", "GCM", 1)}

\* A first start, or an older database with its key file.
Init == /\ \/ file = None /\ made = 0 /\ row = [d \in Docs |-> NoBlob]
           \/ file = 1 /\ made = 1 /\ row \in [Docs -> Legacy \cup {NoBlob}]
        /\ salt = None
        /\ idx = [d \in Docs |-> row[d].key]
        /\ env = [p \in Procs |-> None] /\ aes = env /\ fer = env /\ cha = env
        /\ pc = [t \in Threads |-> "idle"] /\ mat = [t \in Threads |-> None]
        /\ doc = [t \in Threads |-> CHOOSE d \in Docs : TRUE]
        /\ blob = [t \in Threads |-> NoBlob]
        /\ writes = 0 /\ restarts = 0
        /\ rotated = None /\ deployed = None
        /\ given = {} /\ outdated = {} /\ upsets = {}

Goto(t, label) == pc' = [pc EXCEPT ![t] = label]
At(t, label) == pc[t] = label
Installing == {"setAes", "setFernet", "setChacha", "setEnv"}
Changing == Installing \cup {"openSalt", "saveSalt"}
\* A call of another thread of the process is in progress.
Beside(t) == \E u \in Threads \ {t} : Home[u] = Home[t] /\ pc[u] # "idle"
NewKey == made < MaxKeys /\ made' = made + 1

-----------------------------------------------------------------------------
(* A write: _get_ciphers, pack_and_encrypt, the row, its index.            *)

Write(t, d) ==
  /\ At(t, "idle") /\ "write" \in Work[t]
  /\ writes < MaxWrites /\ writes' = writes + 1
  /\ doc' = [doc EXCEPT ![t] = d]
  /\ upsets' = upsets \cup
       IF \E u \in Threads : Home[u] = Home[t] /\ pc[u] \in Changing THEN {"clash"} ELSE {}
  /\ Goto(t, "ciphers")
  /\ UNCHANGED <<disk, ciphers, mat, blob, made, restarts, operator, given, outdated>>

GetCiphers(t) ==
  LET p == Home[t] IN
  /\ At(t, "ciphers")
  /\ Goto(t, CASE aes[p] # None /\ fer[p] # None -> "pack"
               [] env[p] # None \/ file # None -> "material"
               [] OTHER -> "create")
  /\ UNCHANGED <<disk, ciphers, mat, doc, blob, bounds, operator, history>>

\* The part of _get_raw_key_material that reads a key.
Material(p) == IF env[p] # None THEN env[p] ELSE file
\* It makes one as _get_ciphers does, if ciphers were set without a key.
Lacks(t, label) == At(t, label) /\ Material(Home[t]) = None

\* write_text opens the file, which empties it, and then writes.
CreateKey(t) ==
  /\ \/ At(t, "create") /\ Goto(t, "save")
     \/ Lacks(t, "chachaMaterial") /\ Goto(t, "saveChacha")
     \/ Lacks(t, "index") /\ Goto(t, "saveIndex")
  /\ NewKey
  /\ mat' = [mat EXCEPT ![t] = made']
  /\ upsets' = upsets \cup IF file # None THEN {"raced"} ELSE {}
  /\ file' = Blank
  /\ UNCHANGED <<salt, row, idx, ciphers, doc, blob, writes, restarts, operator, given, outdated>>
\* Variant: an error is ignored, as it is for the salt.
KeepInMemory(t) == /\ At(t, "save")
                   /\ Goto(t, "fernet")
                   /\ UNCHANGED <<disk, ciphers, mat, doc, blob, bounds, operator, history>>
SaveKey(t) == /\ \/ At(t, "save") /\ Goto(t, "material")
                 \/ At(t, "saveChacha") /\ Goto(t, "chacha")
                 \/ At(t, "saveIndex") /\ Goto(t, "index")
              /\ file' = mat[t]
              /\ UNCHANGED <<salt, row, idx, ciphers, mat, doc, blob, bounds, operator, history>>

\* The file is empty between the two steps.
Emptied == {"save", "saveChacha", "saveIndex"}
Early(p) == IF Material(p) = Blank /\ \E u \in Threads : pc[u] \in Emptied THEN {"raced"} ELSE {}
ReadMaterial(t) ==
  /\ pc[t] \in {"material", "chachaMaterial"} /\ Material(Home[t]) # None
  /\ mat' = [mat EXCEPT ![t] = Material(Home[t])]
  /\ upsets' = upsets \cup Early(Home[t])
  /\ Goto(t, IF At(t, "material") THEN "fernet" ELSE "chacha")
  /\ UNCHANGED <<disk, ciphers, doc, blob, bounds, operator, given, outdated>>

\* The ciphers are assigned one after the other, by _get_ciphers ...
Assign(t, from, to) ==
  /\ At(t, from) /\ Goto(t, to)
  /\ mat' = IF to \in {"pack", "idle"} THEN [mat EXCEPT ![t] = None] ELSE mat
  /\ UNCHANGED <<disk, doc, blob, bounds, operator, history>>
Put(cipher, t) == [cipher EXCEPT ![Home[t]] = mat[t]]
InitCiphers(t) ==
  \/ Assign(t, "fernet", "aes") /\ fer' = Put(fer, t) /\ UNCHANGED <<env, aes, cha>>
  \/ Assign(t, "aes", "chacha") /\ aes' = Put(aes, t) /\ UNCHANGED <<env, fer, cha>>
  \/ Assign(t, "chacha", "pack") /\ cha' = Put(cha, t) /\ UNCHANGED <<env, aes, fer>>
\* Variant: ChaCha20 is forgotten.
AssignTwo(t) ==
  \/ Assign(t, "setAes", "setFernet") /\ aes' = Put(aes, t) /\ UNCHANGED <<env, fer, cha>>
  \/ Assign(t, "setFernet", "setEnv") /\ fer' = Put(fer, t) /\ UNCHANGED <<env, aes, cha>>
  \/ Assign(t, "setEnv", "idle") /\ env' = Put(env, t) /\ UNCHANGED <<aes, fer, cha>>
\* ... and by set_cipher_key.
SetCiphers(t) ==
  \/ Assign(t, "setAes", "setFernet") /\ aes' = Put(aes, t) /\ UNCHANGED <<env, fer, cha>>
  \/ Assign(t, "setFernet", "setChacha") /\ fer' = Put(fer, t) /\ UNCHANGED <<env, aes, cha>>
  \/ Assign(t, "setChacha", "setEnv") /\ cha' = Put(cha, t) /\ UNCHANGED <<env, aes, fer>>
  \/ Assign(t, "setEnv", "idle") /\ env' = Put(env, t) /\ UNCHANGED <<aes, fer, cha>>

Cipher(p, alg) == CASE alg = "GCM" -> aes[p] [] alg = "FERNET" -> fer[p] [] OTHER -> cha[p]

\* pack_and_encrypt; ENCRYPTION_ALGORITHM may have changed since the last call.
Pack(t, alg) ==
  /\ At(t, "pack")
  /\ IF Cipher(Home[t], alg) = None
     THEN Goto(t, "chachaMaterial") /\ UNCHANGED blob
     ELSE /\ blob' = [blob EXCEPT ![t] = Prefixed(alg, Cipher(Home[t], alg))]
          /\ Goto(t, "upsert")
  /\ UNCHANGED <<disk, ciphers, mat, doc, bounds, operator, history>>

Unaware(t) == IF Home[t] \in outdated THEN {"beside"} ELSE {}
Upsert(t) ==
  /\ At(t, "upsert")
  /\ row' = [row EXCEPT ![doc[t]] = blob[t]]
  /\ upsets' = upsets \cup Unaware(t) \cup
       IF \E u \in Threads : Home[u] # Home[t] /\ At(u, "index") /\ doc[u] = doc[t]
       THEN {"crossed"} ELSE {}
  /\ Goto(t, "index")
  /\ UNCHANGED <<file, salt, idx, ciphers, mat, doc, blob, bounds, operator, given, outdated>>
\* Variant: the key of the index always comes from the file.
FileKey(p) == file
IndexKey(p) == Material(p)
Index(t) ==
  /\ At(t, "index") /\ Material(Home[t]) # None
  /\ idx' = [idx EXCEPT ![doc[t]] = IndexKey(Home[t])]
  /\ upsets' = upsets \cup Unaware(t) \cup Early(Home[t])
  /\ blob' = [blob EXCEPT ![t] = NoBlob]
  /\ Goto(t, "idle")
  /\ UNCHANGED <<file, salt, row, ciphers, mat, doc, bounds, operator, given, outdated>>

-----------------------------------------------------------------------------
(* set_cipher_key, set_cipher_passphrase and the rotation of the CLI.      *)

Clash(t) == {"set"} \cup IF Beside(t) THEN {"clash"} ELSE {}

SetCipherKey(t) == /\ At(t, "idle") /\ "set" \in Work[t] /\ NewKey
                   /\ mat' = [mat EXCEPT ![t] = made']
                   /\ given' = given \cup {made'}
                   /\ upsets' = upsets \cup Clash(t)
                   /\ Goto(t, "setAes")
                   /\ UNCHANGED <<disk, ciphers, doc, blob, writes, restarts, operator, outdated>>

\* get_or_create_db_salt: a salt that is too short is replaced.
SetPassphrase(t) ==
  /\ At(t, "idle") /\ "passphrase" \in Work[t]
  /\ upsets' = upsets \cup Clash(t)
  /\ IF salt > 0 THEN mat' = [mat EXCEPT ![t] = salt] /\ Goto(t, "setAes")
                  ELSE Goto(t, "openSalt") /\ UNCHANGED mat
  /\ UNCHANGED <<disk, ciphers, doc, blob, bounds, operator, given, outdated>>
\* Like the key file; an error is ignored.
OpenSalt(t) ==
  /\ At(t, "openSalt") /\ NewKey
  /\ mat' = [mat EXCEPT ![t] = made']
  /\ \/ /\ salt' = Blank /\ Goto(t, "saveSalt")
        /\ upsets' = upsets \cup IF salt > 0 \/ \E u \in Threads : At(u, "saveSalt")
                                 THEN {"raced"} ELSE {}
     \/ /\ UNCHANGED salt /\ Goto(t, "setAes")
        /\ upsets' = upsets \cup {"unsaved"}
  /\ UNCHANGED <<file, row, idx, ciphers, doc, blob, writes, restarts, operator, given, outdated>>
SaveSalt(t) ==
  /\ At(t, "saveSalt")
  /\ \/ salt' = mat[t] /\ UNCHANGED upsets
     \/ UNCHANGED salt /\ upsets' = upsets \cup {"unsaved"}
  /\ Goto(t, "setAes")
  /\ UNCHANGED <<file, row, idx, ciphers, mat, doc, blob, bounds, operator, given, outdated>>

\* The key that the operator knows to be in force.
KeyInForce == IF rotated # None THEN rotated ELSE file

\* Variant: only the default algorithm is tried.
RotationOpensGcm(b, old) == b.key = old /\ b.cipher = "GCM"
\* The cipher a rotation tries is chosen by the beginning of the blob; what it
\* does not open is skipped.
RotationOpens(b, old) == /\ b.key = old
                         /\ b.head = "token" => b.cipher = "FERNET"
\* cmd_rotate_key: the rows in one step (KeyRotation has its statements), then
\* set_cipher_key. secret.key stays as it is.
RotateKey(t, alg) ==
  LET opened == {d \in Docs : row[d] # NoBlob /\ RotationOpens(row[d], KeyInForce)}
  IN /\ At(t, "idle") /\ "rotate" \in Work[t] /\ NewKey
     /\ KeyInForce > 0
     /\ row' = [d \in Docs |-> IF d \in opened THEN Prefixed(alg, made') ELSE row[d]]
     /\ idx' = [d \in Docs |-> IF d \in opened THEN made' ELSE idx[d]]
     /\ rotated' = made' /\ given' = given \cup {made'}
     /\ outdated' = Procs \ {Home[t]}
     /\ mat' = [mat EXCEPT ![t] = made']
     /\ Goto(t, "setAes")
     /\ UNCHANGED <<file, salt, ciphers, doc, blob, writes, restarts, deployed, upsets>>

\* The operator puts the printed key into the environment.
Deploy == /\ deployed # rotated /\ deployed' = rotated
          /\ UNCHANGED <<disk, ciphers, pc, mat, doc, blob, bounds, rotated, history>>

\* The process ends, anywhere, and starts again.
Restart(p) ==
  LET its == {t \in Threads : Home[t] = p}
      Reset(f, v) == [t \in Threads |-> IF t \in its THEN v ELSE f[t]]
  IN /\ restarts < MaxRestarts /\ restarts' = restarts + 1
     /\ env' = [env EXCEPT ![p] = deployed]
     /\ aes' = [aes EXCEPT ![p] = None] /\ fer' = [fer EXCEPT ![p] = None]
     /\ cha' = [cha EXCEPT ![p] = None]
     /\ pc' = Reset(pc, "idle") /\ mat' = Reset(mat, None) /\ blob' = Reset(blob, NoBlob)
     /\ outdated' = IF deployed = rotated THEN outdated \ {p} ELSE outdated \cup {p}
     /\ upsets' = upsets \cup IF \E t \in its : At(t, "index") THEN {"cut"} ELSE {}
     /\ UNCHANGED <<disk, doc, made, writes, operator, given>>

Call(t) == \/ \E d \in Docs : Write(t, d)
           \/ GetCiphers(t) \/ CreateKey(t) \/ SaveKey(t) \/ ReadMaterial(t) \/ InitCiphers(t)
           \/ \E alg \in Algorithms : Pack(t, alg)
           \/ Upsert(t) \/ Index(t)
           \/ SetCipherKey(t) \/ SetPassphrase(t) \/ OpenSalt(t) \/ SaveSalt(t) \/ SetCiphers(t)
           \/ \E alg \in Algorithms : RotateKey(t, alg)

\* The bounds are used up.
Finished == /\ \A t \in Threads : \/ pc[t] \in {"idle", "create", "openSalt"}
                                 \/ Lacks(t, "chachaMaterial") \/ Lacks(t, "index")
            /\ UNCHANGED vars

Next == (\E t \in Threads : Call(t)) \/ Deploy \/ (\E p \in Procs : Restart(p)) \/ Finished

Spec == Init /\ [][Next]_vars

-----------------------------------------------------------------------------
(* The two decoders.                                                       *)

OpenedBy(key, alg, b) == b.cipher = alg /\ b.key = key

\* Variant: what begins like a token is one.
DecryptPrefixed(p, b, alg) ==
  \/ b.head \in Algorithms /\ OpenedBy(Cipher(p, b.head), b.head, b)
  \/ b.head = "token" /\ OpenedBy(fer[p], "FERNET", b)
  \/ /\ b.head = "bare"
     /\ IF alg = "FERNET" THEN OpenedBy(fer[p], "FERNET", b) ELSE OpenedBy(aes[p], "GCM", b)
\* decrypt_and_unpack of a read: by prefix, else as a token, else by the
\* algorithm in force.
Decrypt(p, b, alg) ==
  \/ b.head \in Algorithms /\ OpenedBy(Cipher(p, b.head), b.head, b)
  \/ b.head = "token" /\ OpenedBy(fer[p], "FERNET", b)
  \/ /\ b.head \in {"token", "bare"}
     /\ IF alg = "FERNET" THEN OpenedBy(fer[p], "FERNET", b) ELSE OpenedBy(aes[p], "GCM", b)

\* Variant: the audit goes by the prefix of each row.
AuditByHead(p, alg) ==
  \A d \in Docs : row[d] = NoBlob \/ OpenedBy(aes[p], row[d].cipher, row[d])
\* verify_database_integrity: every row with the cipher of the algorithm in
\* force, whatever its prefix.
AuditClean(p, alg) ==
  \A d \in Docs : row[d] = NoBlob \/ OpenedBy(Cipher(p, alg), alg, row[d])

-----------------------------------------------------------------------------
Calm(exceptions) == upsets \cap exceptions = {}
\* No thread of p is assigning ciphers.
Settled(p) == \A t \in Threads : Home[t] = p =>
                pc[t] \notin Installing \cup {"fernet", "aes", "chacha"}

\* A row is never under a key that exists in memory only: it is in secret.key,
\* follows from the salt file, or the application or operator has it, at every
\* moment at which a process may end. Excepted are first starts that race for
\* a file, and a salt that could not be saved.
RowKeysKept ==
  Calm({"raced", "unsaved"})
    => \A d \in Docs : row[d].key \in {None, file, salt} \cup given

\* The ciphers of a process and its ENCRYPTION_KEY are one key, unless
\* set_cipher_key overlapped another call.
CiphersAgree ==
  \A p \in Procs : Settled(p) /\ Calm({"raced", "clash"}) =>
    /\ aes[p] = fer[p] /\ fer[p] = cha[p]
    /\ aes[p] # None => env[p] \in {None, aes[p]}

\* Through starts of several processes and rotations by the CLI all rows are
\* under the key in force, which every process that starts after Deploy gets.
\* Excepted: a process that was not restarted writes after the rotation; raced
\* starts; keys that the application sets; and an unprefixed AES-GCM row whose
\* nonce begins like a Fernet token, which a rotation leaves behind.
RowsUnderKeyInForce ==
  Calm({"raced", "set", "beside"})
    => \A d \in Docs : row[d].key \in {None, KeyInForce} \/ row[d] = Blob("token", "GCM", 1)

\* A row under the key of the process is readable, whatever algorithms it and
\* the process use, but for unprefixed AES-GCM rows while the algorithm is Fernet:
\* decrypt_and_unpack tries those with the Fernet cipher only.
ReadsOpen ==
  Calm({"raced", "clash"}) =>
    \A p \in Procs, d \in Docs, alg \in Algorithms :
      Settled(p) /\ aes[p] # None /\ row[d].key = aes[p]
        => \/ Decrypt(p, row[d], alg)
           \/ alg = "FERNET" /\ row[d] \in Legacy /\ row[d].cipher = "GCM"

\* What the audit calls clean, kv_get can read.
AuditSound ==
  \A p \in Procs, alg \in Algorithms :
    Settled(p) /\ aes[p] # None /\ AuditClean(p, alg)
      => \A d \in Docs : row[d] = NoBlob \/ Decrypt(p, row[d], alg)

\* The index of a document is under the key of its row, so that kv_find with
\* that key finds it. Excepted are writes that a change of key or another process
\* overlapped or that a kill cut short.
IndexUnderRowKey ==
  Calm({"raced", "clash", "crossed", "beside", "cut"}) =>
    \A d \in Docs : \/ \E t \in Threads : At(t, "index") /\ doc[t] = d
                    \/ idx[d] = row[d].key
=============================================================================
