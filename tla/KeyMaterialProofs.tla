-------------------------- MODULE KeyMaterialProofs --------------------------
(***************************************************************************)
(* Theorems about KeyMaterial, for every number of processes, threads,     *)
(* keys, writes and restarts. RowKeysKept is proved for every place that   *)
(* holds a key, not only for rows: what a process uses follows from the    *)
(* disk or was given, and while a thread writes secret.key nobody uses the *)
(* key of the empty file (Kept). CiphersAgree is proved from how far each  *)
(* process is with its assignments (Assigned), and with it that a row and  *)
(* its index get the key of the process that writes them (Written), which  *)
(* is the key in force where the process knows of the rotation (InForce).  *)
(***************************************************************************)
EXTENDS KeyMaterial, TLAPS

Steps == {"idle", "ciphers", "create", "save", "saveChacha", "saveIndex", "material",
          "chachaMaterial", "fernet", "aes", "chacha", "pack", "upsert", "index",
          "openSalt", "saveSalt"} \cup Installing
Blobs == {NoBlob} \cup Legacy \cup {Prefixed(alg, key) : alg \in Algorithms, key \in Int}

\* Steps at which a thread holds a key that no file has yet.
Fresh == Emptied \cup {"saveSalt"}

Typed == /\ env \in [Procs -> Nat] /\ aes \in [Procs -> Int] /\ fer \in [Procs -> Int]
         /\ cha \in [Procs -> Int]
         /\ row \in [Docs -> Blobs] /\ blob \in [Threads -> Blobs]
         /\ pc \in [Threads -> Steps] /\ mat \in [Threads -> Int]
         /\ file \in Int /\ salt \in Int /\ salt >= Blank /\ made \in Nat
         /\ rotated \in Nat /\ deployed \in Nat /\ given \subseteq Nat \ {0}
         \* Keys that are made are numbered from 1.
         /\ \A t \in Threads : pc[t] \in Fresh \cup Installing => mat[t] > 0

Saving(t) == pc[t] \in Emptied
\* The keys that exist elsewhere than in memory; while secret.key is being written, the key
\* of the empty file is not among them.
Safe == {None} \cup given \cup ({salt} \ {Blank})
               \cup (IF \E t \in Threads : Saving(t) THEN {} ELSE {file})

\* One saver of each file, which found none; every key in use is safe.
Kept ==
  Calm({"raced", "unsaved"}) =>
    /\ \A t \in Threads : /\ Saving(t) => file = Blank
                          /\ At(t, "saveSalt") => salt = Blank
                          /\ \A u \in Threads \ {t} : /\ ~(Saving(t) /\ Saving(u))
                                                      /\ ~(At(t, "saveSalt") /\ At(u, "saveSalt"))
    /\ {rotated, deployed} \subseteq Safe
    /\ \A p \in Procs : {env[p], aes[p], fer[p], cha[p]} \subseteq Safe
    /\ \A d \in Docs : row[d].key \in Safe
    /\ \A t \in Threads : /\ blob[t].key \in Safe
                          /\ pc[t] \notin Fresh => mat[t] \in Safe

\* A key has its number.
LEMMA BlobKeys ==
  /\ NoBlob \in Blobs /\ NoBlob.key = None
  /\ \A b \in Blobs : b.key \in Int
  /\ \A alg \in Algorithms, key \in Int : Prefixed(alg, key) \in Blobs /\ Prefixed(alg, key).key = key
<1>1. NoBlob \in Blobs /\ NoBlob.key = None BY DEF Blobs, NoBlob, Blob, None
<1>2. \A alg \in Algorithms, key \in Int : Prefixed(alg, key) \in Blobs /\ Prefixed(alg, key).key = key
  <2> SUFFICES ASSUME NEW alg \in Algorithms, NEW key \in Int
               PROVE  Prefixed(alg, key) \in Blobs /\ Prefixed(alg, key).key = key
    OBVIOUS
  <2>1. Prefixed(alg, key) \in Blobs BY DEF Blobs
  <2>2. Prefixed(alg, key).key = key BY DEF Prefixed, Blob
  <2> QED BY <2>1, <2>2
<1>3. \A b \in Legacy : b.key \in Int BY DEF Legacy, Blob
<1>4. ASSUME NEW b \in Blobs PROVE b.key \in Int
  BY <1>1, <1>2, <1>3 DEF Blobs, None
<1> QED BY <1>1, <1>2, <1>4

\* The first state.
LEMMA TypedInit == Init => Typed
<1> SUFFICES ASSUME Init PROVE Typed OBVIOUS
<1>1. row \in [Docs -> Blobs]
  <2>1. CASE row = [d \in Docs |-> NoBlob] BY <2>1, BlobKeys
  <2>2. CASE row \in [Docs -> Legacy \cup {NoBlob}]
    <3>1. Legacy \cup {NoBlob} \subseteq Blobs BY DEF Blobs
    <3> QED BY <2>2, <3>1
  <2> QED BY <2>1, <2>2 DEF Init
<1>2. blob \in [Threads -> Blobs] BY BlobKeys DEF Init
<1>3. file \in Int /\ salt \in Int /\ salt >= Blank /\ made \in Nat BY DEF Init, None, Blank
<1>4. pc \in [Threads -> Steps] /\ \A t \in Threads : pc[t] = "idle" BY DEF Init, Steps
<1>5. /\ env \in [Procs -> Nat] /\ aes \in [Procs -> Int] /\ fer \in [Procs -> Int]
      /\ cha \in [Procs -> Int] /\ mat \in [Threads -> Int]
      /\ rotated \in Nat /\ deployed \in Nat /\ given \subseteq Nat \ {0}
  BY DEF Init, None
<1> QED BY <1>1, <1>2, <1>3, <1>4, <1>5 DEF Typed, Installing, Fresh, Emptied

\* Only t moves, and holds this key material.
Moves(t, label, key) ==
  /\ pc' = [pc EXCEPT ![t] = label] /\ mat' = [mat EXCEPT ![t] = key]

\* A thread moves on.
LEMMA TypedMoves ==
  ASSUME Typed, NEW t \in Threads, NEW label \in Steps, NEW key \in Int, Moves(t, label, key),
         label \in Fresh \cup Installing => key > 0
  PROVE  /\ pc' \in [Threads -> Steps] /\ mat' \in [Threads -> Int]
         /\ \A u \in Threads : pc'[u] \in Fresh \cup Installing => mat'[u] > 0
BY DEF Typed, Moves

\* Every action keeps the types.
LEMMA TypedNext == ASSUME Typed, [Next]_vars PROVE Typed'
<1> USE DEF disk, ciphers, bounds, operator, history, Fresh, Emptied
<1>1. ASSUME NEW t \in Threads, NEW label \in Steps, NEW key \in Int, Moves(t, label, key),
             label \in Fresh \cup Installing => key > 0,
             UNCHANGED <<row, blob, rotated, deployed>>, env' \in [Procs -> Nat],
             aes' \in [Procs -> Int], fer' \in [Procs -> Int], cha' \in [Procs -> Int],
             file' \in Int, salt' \in Int, salt' >= Blank, made' \in Nat, given' \subseteq Nat \ {0}
      PROVE  Typed'
  BY <1>1, TypedMoves DEF Typed
<1>2. \A t \in Threads : mat[t] \in Int /\ mat = [mat EXCEPT ![t] = mat[t]] BY DEF Typed
<1>3. ASSUME NEW t \in Threads, NEW d \in Docs, Write(t, d) PROVE Typed'
  <2>1. Moves(t, "ciphers", mat[t]) BY <1>2, <1>3 DEF Write, Goto, Moves
  <2> QED BY <1>1, <1>2, <1>3, <2>1 DEF Write, Typed, Steps, Installing
<1>4. ASSUME NEW t \in Threads, GetCiphers(t) PROVE Typed'
  <2>1. \E label \in {"pack", "material", "create"} : Moves(t, label, mat[t])
    <3>1. \E label \in {"pack", "material", "create"} : Goto(t, label)
      <4>1. CASE aes[Home[t]] # None /\ fer[Home[t]] # None BY <1>4, <4>1 DEF GetCiphers
      <4>2. CASE ~(aes[Home[t]] # None /\ fer[Home[t]] # None)
                 /\ (env[Home[t]] # None \/ file # None)
        BY <1>4, <4>2 DEF GetCiphers
      <4>3. CASE ~(aes[Home[t]] # None /\ fer[Home[t]] # None)
                 /\ ~(env[Home[t]] # None \/ file # None)
        BY <1>4, <4>3 DEF GetCiphers
      <4> QED BY <4>1, <4>2, <4>3
    <3> QED BY <1>2, <1>4, <3>1 DEF GetCiphers, Goto, Moves
  <2> QED BY <1>1, <1>2, <1>4, <2>1 DEF GetCiphers, Typed, Steps, Installing
<1>5. ASSUME NEW t \in Threads, CreateKey(t) PROVE Typed'
  <2>1. made' \in Nat /\ made' > 0 /\ \E label \in Emptied : Moves(t, label, made')
    BY <1>5 DEF CreateKey, NewKey, Goto, Moves, Typed
  <2>2. PICK label \in Emptied : Moves(t, label, made') BY <2>1
  <2>3. label \in Steps BY DEF Steps
  <2>4. /\ UNCHANGED <<row, blob, rotated, deployed, env, aes, fer, cha, salt, given>>
        /\ file' = Blank
    BY <1>5 DEF CreateKey
  <2>5. Blank \in Int BY DEF Blank
  <2> QED BY <1>1, <2>1, <2>2, <2>3, <2>4, <2>5 DEF Typed
<1>6. ASSUME NEW t \in Threads, SaveKey(t) PROVE Typed'
  <2>1. \E label \in {"material", "chacha", "index"} : Moves(t, label, mat[t])
    BY <1>2, <1>6 DEF SaveKey, Goto, Moves
  <2> QED BY <1>1, <1>2, <1>6, <2>1 DEF SaveKey, Typed, Steps, Installing
<1>7. ASSUME NEW t \in Threads, ReadMaterial(t) PROVE Typed'
  <2>1. Material(Home[t]) \in Int BY KeyAssumption DEF Material, Typed
  <2>2. \E label \in {"fernet", "chacha"} : Moves(t, label, Material(Home[t]))
    BY <1>7 DEF ReadMaterial, Goto, Moves
  <2> QED BY <1>1, <1>7, <2>1, <2>2 DEF ReadMaterial, Typed, Steps, Installing
<1>8. ASSUME NEW t \in Threads, NEW from, NEW to \in Steps, Assign(t, from, to),
             from \in Installing \/ to \notin Installing, to \notin Fresh,
             env' \in [Procs -> Nat],
             aes' \in [Procs -> Int], fer' \in [Procs -> Int], cha' \in [Procs -> Int]
      PROVE  Typed'
  <2>1. Moves(t, to, IF to \in {"pack", "idle"} THEN None ELSE mat[t])
    BY <1>2, <1>8 DEF Assign, Goto, Moves
  <2>2. to \in Installing => mat[t] > 0 /\ to \notin {"pack", "idle"}
    BY <1>8 DEF Assign, At, Typed, Installing
  <2>3. /\ UNCHANGED <<row, blob, rotated, deployed, file, salt, made, given>>
        /\ file \in Int /\ salt \in Int /\ salt >= Blank /\ made \in Nat /\ given \subseteq Nat \ {0}
    BY <1>8 DEF Assign, Typed
  <2>4. CASE to \in {"pack", "idle"}
    BY <1>1, <1>8, <2>1, <2>3, <2>4 DEF None, Installing
  <2>5. CASE to \notin {"pack", "idle"}
    BY <1>1, <1>2, <1>8, <2>1, <2>2, <2>3, <2>5
  <2> QED BY <2>4, <2>5
<1>9. ASSUME NEW t \in Threads, InitCiphers(t) PROVE Typed'
  <2>1. \A cipher \in [Procs -> Int] : Put(cipher, t) \in [Procs -> Int] BY <1>2 DEF Put
  <2> QED BY <1>8, <1>9, <2>1 DEF InitCiphers, Typed, Steps, Installing
<1>10. ASSUME NEW t \in Threads, SetCiphers(t) PROVE Typed'
  <2>1. \A cipher \in [Procs -> Int] : Put(cipher, t) \in [Procs -> Int] BY <1>2 DEF Put
  <2>2. At(t, "setEnv") => Put(env, t) \in [Procs -> Nat]
    <3> SUFFICES ASSUME At(t, "setEnv") PROVE Put(env, t) \in [Procs -> Nat] OBVIOUS
    <3>1. mat[t] \in Int /\ mat[t] > 0 BY DEF At, Typed, Installing
    <3>2. mat[t] \in Nat BY <3>1
    <3> QED BY <3>2 DEF Put, Typed
  <2>3. CASE Assign(t, "setAes", "setFernet") /\ aes' = Put(aes, t) /\ UNCHANGED <<env, fer, cha>>
    BY <1>8, <2>1, <2>3 DEF Typed, Steps, Installing
  <2>4. CASE Assign(t, "setFernet", "setChacha") /\ fer' = Put(fer, t) /\ UNCHANGED <<env, aes, cha>>
    BY <1>8, <2>1, <2>4 DEF Typed, Steps, Installing
  <2>5. CASE Assign(t, "setChacha", "setEnv") /\ cha' = Put(cha, t) /\ UNCHANGED <<env, aes, fer>>
    BY <1>8, <2>1, <2>5 DEF Typed, Steps, Installing
  <2>6. CASE Assign(t, "setEnv", "idle") /\ env' = Put(env, t) /\ UNCHANGED <<aes, fer, cha>>
    BY <1>8, <2>2, <2>6 DEF Typed, Steps, Installing, Assign
  <2> QED BY <1>10, <2>3, <2>4, <2>5, <2>6 DEF SetCiphers

<1>11. ASSUME NEW t \in Threads, NEW alg \in Algorithms, Pack(t, alg) PROVE Typed'
  <2>1. Cipher(Home[t], alg) \in Int BY KeyAssumption DEF Cipher, Typed
  <2>2. blob' \in [Threads -> Blobs] BY <1>11, <2>1, BlobKeys DEF Pack, Typed
  <2>3. /\ pc' \in [Threads -> Steps] /\ mat' = mat
        /\ \A u \in Threads : pc'[u] \in Fresh \cup Installing => mat'[u] > 0
    BY <1>11 DEF Pack, Goto, Typed, Steps, Installing
  <2> QED BY <1>11, <2>2, <2>3 DEF Pack, Typed
<1>12. ASSUME NEW t \in Threads, Upsert(t) PROVE Typed'
  <2>1. Moves(t, "index", mat[t]) BY <1>2, <1>12 DEF Upsert, Goto, Moves
  <2>2. row' \in [Docs -> Blobs] BY <1>12 DEF Upsert, Typed
  <2>3. /\ pc' \in [Threads -> Steps] /\ mat' \in [Threads -> Int]
        /\ \A u \in Threads : pc'[u] \in Fresh \cup Installing => mat'[u] > 0
    BY <1>2, <2>1, TypedMoves DEF Steps, Installing
  <2> QED BY <1>12, <2>2, <2>3 DEF Upsert, Typed
<1>13. ASSUME NEW t \in Threads, Index(t) PROVE Typed'
  <2>1. Moves(t, "idle", mat[t]) BY <1>2, <1>13 DEF Index, Goto, Moves
  <2>2. blob' \in [Threads -> Blobs] BY <1>13, BlobKeys DEF Index, Typed
  <2>3. /\ pc' \in [Threads -> Steps] /\ mat' \in [Threads -> Int]
        /\ \A u \in Threads : pc'[u] \in Fresh \cup Installing => mat'[u] > 0
    BY <1>2, <2>1, TypedMoves DEF Steps, Installing
  <2> QED BY <1>13, <2>2, <2>3 DEF Index, Typed
<1>14. ASSUME NEW t \in Threads, SetCipherKey(t) PROVE Typed'
  <2>1. Moves(t, "setAes", made') /\ made' \in Nat /\ made' > 0
    BY <1>14 DEF SetCipherKey, NewKey, Goto, Moves, Typed
  <2>2. given' \subseteq Nat \ {0}
    <3>1. given \subseteq Nat \ {0} BY DEF Typed
    <3>2. given' = given \cup {made'} BY <1>14 DEF SetCipherKey
    <3> QED BY <2>1, <3>1, <3>2
  <2>3. UNCHANGED <<row, blob, rotated, deployed, env, aes, fer, cha, file, salt>>
    BY <1>14 DEF SetCipherKey
  <2>4. "setAes" \in Steps /\ made' \in Int BY <2>1 DEF Steps, Installing
  <2> QED BY <1>1, <2>1, <2>2, <2>3, <2>4 DEF Typed
<1>15. ASSUME NEW t \in Threads, SetPassphrase(t) PROVE Typed'
  <2>1. \/ salt > 0 /\ Moves(t, "setAes", salt)
        \/ Moves(t, "openSalt", mat[t])
    BY <1>2, <1>15 DEF SetPassphrase, Goto, Moves
  <2>2. CASE salt > 0 /\ Moves(t, "setAes", salt)
    BY <1>1, <1>15, <2>2 DEF SetPassphrase, Typed, Steps, Installing
  <2>3. CASE Moves(t, "openSalt", mat[t])
    BY <1>1, <1>2, <1>15, <2>3 DEF SetPassphrase, Typed, Steps, Installing
  <2> QED BY <2>1, <2>2, <2>3
<1>16. ASSUME NEW t \in Threads, OpenSalt(t) PROVE Typed'
  <2>1. made' \in Nat /\ made' > 0 /\ salt' \in Int /\ salt' >= Blank
        /\ \E label \in {"saveSalt", "setAes"} : Moves(t, label, made')
    BY <1>16 DEF OpenSalt, NewKey, Goto, Moves, Typed, Blank
  <2>2. UNCHANGED <<row, blob, rotated, deployed, env, aes, fer, cha, file, given>>
    BY <1>16 DEF OpenSalt
  <2>3. made' \in Int /\ {"saveSalt", "setAes"} \subseteq Steps BY <2>1 DEF Steps, Installing
  <2> QED BY <1>1, <2>1, <2>2, <2>3 DEF Typed
<1>17. ASSUME NEW t \in Threads, SaveSalt(t) PROVE Typed'
  <2>1. Moves(t, "setAes", mat[t]) /\ mat[t] > 0 /\ salt' \in Int /\ salt' >= Blank
    BY <1>2, <1>17 DEF SaveSalt, Goto, Moves, At, Typed, Blank
  <2> QED BY <1>1, <1>2, <1>17, <2>1 DEF SaveSalt, Typed, Steps, Installing
<1>18. ASSUME NEW t \in Threads, NEW alg \in Algorithms, RotateKey(t, alg) PROVE Typed'
  <2>1. Moves(t, "setAes", made') /\ made' \in Nat /\ made' > 0
    BY <1>18 DEF RotateKey, NewKey, Goto, Moves, Typed
  <2>2. /\ pc' \in [Threads -> Steps] /\ mat' \in [Threads -> Int]
        /\ \A u \in Threads : pc'[u] \in Fresh \cup Installing => mat'[u] > 0
    BY <2>1, TypedMoves DEF Steps, Installing
  <2>3. row' \in [Docs -> Blobs]
    <3>1. Prefixed(alg, made') \in Blobs BY <2>1, BlobKeys
    <3> QED BY <1>18, <3>1 DEF RotateKey, Typed
  <2>4. rotated' \in Nat /\ given' \subseteq Nat \ {0} BY <1>18, <2>1 DEF RotateKey, Typed
  <2>5. UNCHANGED <<env, aes, fer, cha, blob, file, salt, deployed>>
    BY <1>18 DEF RotateKey
  <2> QED BY <2>1, <2>2, <2>3, <2>4, <2>5 DEF Typed
<1>19. CASE Deploy BY <1>19 DEF Deploy, Typed
<1>20. ASSUME NEW p \in Procs, Restart(p) PROVE Typed'
  <2>1. /\ env' \in [Procs -> Nat] /\ aes' \in [Procs -> Int] /\ fer' \in [Procs -> Int]
        /\ cha' \in [Procs -> Int]
        /\ UNCHANGED <<row, file, salt, made, rotated, deployed, given>>
    BY <1>20 DEF Restart, Typed, None
  <2>2. /\ pc' = [t \in Threads |-> IF t \in {u \in Threads : Home[u] = p} THEN "idle" ELSE pc[t]]
        /\ mat' = [t \in Threads |-> IF t \in {u \in Threads : Home[u] = p} THEN None ELSE mat[t]]
        /\ blob' = [t \in Threads |-> IF t \in {u \in Threads : Home[u] = p} THEN NoBlob ELSE blob[t]]
    BY <1>20 DEF Restart
  <2>3. blob' \in [Threads -> Blobs] BY <2>2, BlobKeys DEF Typed
  <2>4. /\ pc' \in [Threads -> Steps] /\ mat' \in [Threads -> Int]
        /\ \A u \in Threads : pc'[u] \in Fresh \cup Installing => mat'[u] > 0
    BY <2>2 DEF Typed, Steps, None, Installing
  <2> QED BY <2>1, <2>3, <2>4 DEF Typed
<1>21. CASE UNCHANGED vars \/ Finished BY <1>21 DEF Finished, vars, Typed
<1> QED BY <1>3, <1>4, <1>5, <1>6, <1>7, <1>9, <1>10, <1>11, <1>12, <1>13, <1>14, <1>15, <1>16,
           <1>17, <1>18, <1>19, <1>20, <1>21
        DEF Next, Call


\* Both files stay as they are, and nobody begins or ends writing secret.key.
LEMMA KeptMoves ==
  ASSUME Typed, Kept, Calm({"raced", "unsaved"}), NEW t \in Threads, NEW label, NEW key,
         Moves(t, label, key), {pc[t], label} \cap Fresh = {},
         UNCHANGED <<file, salt>>, given \subseteq given',
         key \in Safe',
         {rotated', deployed'} \subseteq Safe',
         \A p \in Procs : {env'[p], aes'[p], fer'[p], cha'[p]} \subseteq Safe',
         \A d \in Docs : row'[d].key \in Safe',
         \A u \in Threads : blob'[u].key \in Safe'
  PROVE  Kept'
<1>1. \A u \in Threads \ {t} : pc'[u] = pc[u] /\ mat'[u] = mat[u] BY DEF Moves, Typed
<1>2. pc'[t] = label /\ mat'[t] = key BY DEF Moves, Typed
<1>3. \A u \in Threads : /\ Saving(u)' <=> Saving(u)
                         /\ At(u, "saveSalt")' <=> At(u, "saveSalt")
  BY <1>1, <1>2 DEF Saving, Fresh, Emptied, At
<1>4. Safe \subseteq Safe' BY <1>3 DEF Safe
<1>5. ASSUME NEW u \in Threads, pc'[u] \notin Fresh PROVE mat'[u] \in Safe'
  BY <1>1, <1>2, <1>4, <1>5 DEF Kept
<1>6. \A u \in Threads : /\ Saving(u)' => file' = Blank
                         /\ At(u, "saveSalt")' => salt' = Blank
                         /\ \A v \in Threads \ {u} :
                              /\ ~(Saving(u)' /\ Saving(v)')
                              /\ ~(At(u, "saveSalt")' /\ At(v, "saveSalt")')
  BY <1>3 DEF Kept
<1> QED BY <1>5, <1>6 DEF Kept

\* What safe keys are, when the files stay as they are.
LEMMA SafeGrows ==
  ASSUME Typed, NEW t \in Threads, NEW label, NEW key, Moves(t, label, key),
         {pc[t], label} \cap Fresh = {},
         UNCHANGED <<file, salt>>, given \subseteq given'
  PROVE  Safe \subseteq Safe' /\ given' \subseteq Safe'
<1>1. \A u \in Threads : Saving(u)' <=> Saving(u) BY DEF Moves, Typed, Saving, Fresh, Emptied, At
<1> QED BY <1>1 DEF Safe

\* Every action keeps Kept.
LEMMA KeptNext == ASSUME Typed, Kept, Typed', [Next]_vars PROVE Kept'
<1> USE DEF disk, ciphers, bounds, operator, history, Fresh, Emptied
<1> SUFFICES ASSUME Calm({"raced", "unsaved"})' PROVE Kept' BY DEF Kept
<1>0. \A t \in Threads : mat[t] \in Int /\ mat = [mat EXCEPT ![t] = mat[t]] BY DEF Typed
<1>1. ASSUME upsets \subseteq upsets' PROVE Calm({"raced", "unsaved"}) BY <1>1 DEF Calm
\* A step of t that changes no key but its own mat.
<1>2. ASSUME upsets \subseteq upsets', NEW t \in Threads, NEW label, NEW key,
             Moves(t, label, key),
             {pc[t], label} \cap Fresh = {},
             UNCHANGED <<file, salt, given, rotated, deployed>>,
             key \in Safe,
             Calm({"raced", "unsaved"}) =>
               /\ \A p \in Procs : {env'[p], aes'[p], fer'[p], cha'[p]} \subseteq Safe
               /\ \A d \in Docs : row'[d].key \in Safe
               /\ \A u \in Threads : blob'[u].key \in Safe
      PROVE  Kept'
  <2>1. Calm({"raced", "unsaved"}) BY <1>1, <1>2
  <2>2. Safe \subseteq Safe' BY <1>2, SafeGrows
  <2>3. {rotated', deployed'} \subseteq Safe' BY <1>2, <2>1, <2>2 DEF Kept
  <2>4. \A p \in Procs : {env'[p], aes'[p], fer'[p], cha'[p]} \subseteq Safe'
    BY <1>2, <2>1, <2>2
  <2>5. /\ \A d \in Docs : row'[d].key \in Safe'
        /\ \A u \in Threads : blob'[u].key \in Safe'
    BY <1>2, <2>1, <2>2
  <2> QED BY <1>2, <2>1, <2>2, <2>3, <2>4, <2>5, KeptMoves
<1>3. ASSUME Calm({"raced", "unsaved"}), UNCHANGED <<env, aes, fer, cha, row, blob>>
      PROVE  /\ \A p \in Procs : {env'[p], aes'[p], fer'[p], cha'[p]} \subseteq Safe
             /\ \A d \in Docs : row'[d].key \in Safe
             /\ \A u \in Threads : blob'[u].key \in Safe
  BY <1>3 DEF Kept
<1>4. ASSUME Calm({"raced", "unsaved"}), NEW t \in Threads, pc[t] \notin Fresh
      PROVE  mat[t] \in Safe
  BY <1>4 DEF Kept
<1>5. ASSUME NEW t \in Threads, NEW d \in Docs, Write(t, d) PROVE Kept'
  <2>1. /\ upsets \subseteq upsets' /\ Moves(t, "ciphers", mat[t]) /\ pc[t] = "idle"
        /\ UNCHANGED <<file, salt, given, rotated, deployed, env, aes, fer, cha, row, blob>>
    BY <1>0, <1>5 DEF Write, Goto, At, Moves
  <2> QED BY <1>1, <1>2, <1>3, <1>4, <2>1
<1>6. ASSUME NEW t \in Threads, GetCiphers(t) PROVE Kept'
  <2>1. /\ upsets \subseteq upsets' /\ pc[t] = "ciphers"
        /\ UNCHANGED <<file, salt, given, rotated, deployed, env, aes, fer, cha, row, blob>>
    BY <1>6 DEF GetCiphers, At
  <2>2. \E label \in {"pack", "material", "create"} : Goto(t, label)
    <3>1. CASE aes[Home[t]] # None /\ fer[Home[t]] # None BY <1>6, <3>1 DEF GetCiphers
    <3>2. CASE ~(aes[Home[t]] # None /\ fer[Home[t]] # None)
               /\ (env[Home[t]] # None \/ file # None)
      BY <1>6, <3>2 DEF GetCiphers
    <3>3. CASE ~(aes[Home[t]] # None /\ fer[Home[t]] # None)
               /\ ~(env[Home[t]] # None \/ file # None)
      BY <1>6, <3>3 DEF GetCiphers
    <3> QED BY <3>1, <3>2, <3>3
  <2>3. PICK label \in {"pack", "material", "create"} : Moves(t, label, mat[t])
    BY <1>0, <1>6, <2>2 DEF GetCiphers, Goto, Moves
  <2> QED BY <1>1, <1>2, <1>3, <1>4, <2>1, <2>3
<1>7. ASSUME NEW t \in Threads, CreateKey(t) PROVE Kept'
  <2>1. /\ upsets \subseteq upsets' /\ pc[t] # "saveSalt" /\ file = None /\ file' = Blank
        /\ \E label \in Emptied : pc' = [pc EXCEPT ![t] = label]
        /\ mat' = [mat EXCEPT ![t] = made']
        /\ UNCHANGED <<salt, given, rotated, deployed, env, aes, fer, cha, row, blob>>
    BY <1>7 DEF CreateKey, Lacks, Goto, At, Calm
  <2>2. Calm({"raced", "unsaved"}) BY <1>1, <2>1
  <2>3. \A u \in Threads : ~Saving(u) BY <2>1, <2>2 DEF Kept, Blank, None
  <2>4. \A u \in Threads : /\ Saving(u)' <=> u = t
                           /\ At(u, "saveSalt")' <=> At(u, "saveSalt")
                           /\ u # t => mat'[u] = mat[u] /\ pc'[u] = pc[u]
    BY <2>1, <2>3 DEF Saving, Emptied, At, Typed
  <2>5. Safe \subseteq Safe' BY <2>1, <2>3 DEF Safe
  <2>6. /\ {rotated', deployed'} \subseteq Safe'
        /\ \A p \in Procs : {env'[p], aes'[p], fer'[p], cha'[p]} \subseteq Safe'
        /\ \A d \in Docs : row'[d].key \in Safe'
        /\ \A u \in Threads : blob'[u].key \in Safe'
    BY <2>1, <2>2, <2>5 DEF Kept
  <2>7. \A u \in Threads : pc'[u] \notin Fresh => mat'[u] \in Safe'
    BY <2>2, <2>4, <2>5 DEF Kept, Saving, Emptied, At
  <2>8. \A u \in Threads : /\ Saving(u)' => file' = Blank
                           /\ At(u, "saveSalt")' => salt' = Blank
                           /\ \A v \in Threads \ {u} :
                                /\ ~(Saving(u)' /\ Saving(v)')
                                /\ ~(At(u, "saveSalt")' /\ At(v, "saveSalt")')
    BY <2>1, <2>2, <2>4 DEF Kept
  <2> QED BY <2>6, <2>7, <2>8 DEF Kept
<1>8. ASSUME NEW t \in Threads, SaveKey(t) PROVE Kept'
  <2>1. /\ upsets \subseteq upsets' /\ Saving(t) /\ file' = mat[t] /\ mat' = mat
        /\ \E label \in {"material", "chacha", "index"} : pc' = [pc EXCEPT ![t] = label]
        /\ UNCHANGED <<salt, given, rotated, deployed, env, aes, fer, cha, row, blob>>
    BY <1>8 DEF SaveKey, Goto, At, Saving, Emptied
  <2>2. Calm({"raced", "unsaved"}) BY <1>1, <2>1
  <2>3. \A u \in Threads : /\ ~Saving(u)'
                           /\ At(u, "saveSalt")' <=> At(u, "saveSalt")
                           /\ u # t => pc'[u] = pc[u]
    BY <2>1, <2>2 DEF Kept, Saving, Emptied, At, Typed
  <2>4. Safe \subseteq Safe' /\ mat[t] \in Safe' BY <2>1, <2>3 DEF Safe
  <2>5. /\ {rotated', deployed'} \subseteq Safe'
        /\ \A p \in Procs : {env'[p], aes'[p], fer'[p], cha'[p]} \subseteq Safe'
        /\ \A d \in Docs : row'[d].key \in Safe'
        /\ \A u \in Threads : blob'[u].key \in Safe'
    BY <2>1, <2>2, <2>4 DEF Kept
  <2>6. \A u \in Threads : pc'[u] \notin Fresh => mat'[u] \in Safe'
    BY <2>1, <2>2, <2>3, <2>4 DEF Kept
  <2>7. \A u \in Threads : /\ At(u, "saveSalt")' => salt' = Blank
                           /\ \A v \in Threads \ {u} :
                                ~(At(u, "saveSalt")' /\ At(v, "saveSalt")')
    BY <2>1, <2>2, <2>3 DEF Kept
  <2> QED BY <2>3, <2>5, <2>6, <2>7 DEF Kept
<1>9. ASSUME NEW t \in Threads, ReadMaterial(t) PROVE Kept'
  <2>1. /\ upsets \subseteq upsets' /\ pc[t] \in {"material", "chachaMaterial"}
        /\ UNCHANGED <<file, salt, given, rotated, deployed, env, aes, fer, cha, row, blob>>
        /\ Early(Home[t]) = {}
    BY <1>9 DEF ReadMaterial, Early, Calm
  <2>2. PICK label \in {"fernet", "chacha"} : Moves(t, label, Material(Home[t]))
    BY <1>9 DEF ReadMaterial, Goto, Moves
  <2>3. Calm({"raced", "unsaved"}) BY <1>1, <2>1
  <2>4. env[Home[t]] \in Safe BY <2>3, KeyAssumption DEF Kept
  <2>5. Material(Home[t]) \in Safe
    <3>1. CASE env[Home[t]] # None BY <2>4, <3>1 DEF Material
    <3>2. CASE env[Home[t]] = None
      <4>1. Material(Home[t]) = file BY <3>2 DEF Material
      <4>2. \A u \in Threads : ~Saving(u)
        BY <2>1, <2>3, <4>1 DEF Early, Kept, Saving, Emptied
      <4> QED BY <4>1, <4>2 DEF Safe
    <3> QED BY <3>1, <3>2
  <2> QED BY <1>2, <1>3, <2>1, <2>2, <2>3, <2>5
\* A cipher or the environment of the process of t is its mat.
<1>10. ASSUME NEW t \in Threads, NEW from, NEW to, Assign(t, from, to),
              {from, to} \cap Fresh = {},
              \A p \in Procs : /\ env'[p] \in {env[p], mat[t]} /\ aes'[p] \in {aes[p], mat[t]}
                               /\ fer'[p] \in {fer[p], mat[t]} /\ cha'[p] \in {cha[p], mat[t]}
       PROVE  Kept'
  <2>1. /\ upsets \subseteq upsets' /\ pc[t] = from
        /\ UNCHANGED <<file, salt, given, rotated, deployed, row, blob>>
    BY <1>10 DEF Assign, At
  <2>2. PICK key \in {None, mat[t]} : Moves(t, to, key)
    BY <1>0, <1>10 DEF Assign, Goto, Moves
  <2>3. Calm({"raced", "unsaved"}) BY <1>1, <2>1
  <2>4. mat[t] \in Safe /\ None \in Safe BY <1>4, <1>10, <2>1, <2>3 DEF Safe
  <2>5. \A p \in Procs : {env'[p], aes'[p], fer'[p], cha'[p]} \subseteq Safe
    BY <1>10, <2>3, <2>4 DEF Kept
  <2>6. /\ \A d \in Docs : row'[d].key \in Safe
        /\ \A u \in Threads : blob'[u].key \in Safe
    BY <2>1, <2>3 DEF Kept
  <2> QED BY <1>2, <1>10, <2>1, <2>2, <2>4, <2>5, <2>6
<1>11. ASSUME NEW t \in Threads, InitCiphers(t) \/ SetCiphers(t) PROVE Kept'
  <2>1. \A cipher \in [Procs -> Int] : \A p \in Procs : Put(cipher, t)[p] \in {cipher[p], mat[t]}
    BY DEF Put
  <2>2. env \in [Procs -> Int] BY DEF Typed
  <2> QED BY <1>10, <1>11, <2>1, <2>2 DEF InitCiphers, SetCiphers, Typed
<1>12. ASSUME NEW t \in Threads, NEW alg \in Algorithms, Pack(t, alg) PROVE Kept'
  <2>1. /\ upsets \subseteq upsets' /\ pc[t] = "pack"
        /\ UNCHANGED <<file, salt, given, rotated, deployed, env, aes, fer, cha, row>>
    BY <1>12 DEF Pack, At
  <2>2. PICK label \in {"chachaMaterial", "upsert"} : Moves(t, label, mat[t])
    BY <1>0, <1>12 DEF Pack, Goto, Moves
  <2>3. Calm({"raced", "unsaved"}) BY <1>1, <2>1
  <2>4. Cipher(Home[t], alg) \in Safe /\ Cipher(Home[t], alg) \in Int
    BY <2>3, KeyAssumption DEF Kept, Cipher, Typed
  <2>5. \A u \in Threads : blob'[u].key \in Safe
    <3>1. CASE blob' = blob BY <2>3, <3>1 DEF Kept
    <3>2. CASE blob' = [blob EXCEPT ![t] = Prefixed(alg, Cipher(Home[t], alg))]
      <4>1. Prefixed(alg, Cipher(Home[t], alg)).key \in Safe BY <2>4, BlobKeys
      <4> QED BY <2>3, <3>2, <4>1 DEF Kept, Typed
    <3> QED BY <1>12, <3>1, <3>2 DEF Pack
  <2>6. mat[t] \in Safe BY <1>4, <2>1, <2>3
  <2> QED BY <1>2, <1>3, <2>1, <2>2, <2>3, <2>5, <2>6 DEF Kept
<1>13. ASSUME NEW t \in Threads, Upsert(t) PROVE Kept'
  <2>1. /\ upsets \subseteq upsets' /\ pc[t] = "upsert" /\ Moves(t, "index", mat[t])
        /\ row' = [row EXCEPT ![doc[t]] = blob[t]]
        /\ UNCHANGED <<file, salt, given, rotated, deployed, env, aes, fer, cha, blob>>
    BY <1>0, <1>13 DEF Upsert, Goto, At, Moves
  <2>2. Calm({"raced", "unsaved"}) BY <1>1, <2>1
  <2>3. \A d \in Docs : row'[d].key \in Safe BY <2>1, <2>2 DEF Kept, Typed
  <2>4. mat[t] \in Safe BY <1>4, <2>1, <2>2
  <2> QED BY <1>2, <2>1, <2>2, <2>3, <2>4 DEF Kept
<1>14. ASSUME NEW t \in Threads, Index(t) PROVE Kept'
  <2>1. /\ upsets \subseteq upsets' /\ pc[t] = "index" /\ Moves(t, "idle", mat[t])
        /\ blob' = [blob EXCEPT ![t] = NoBlob]
        /\ UNCHANGED <<file, salt, given, rotated, deployed, env, aes, fer, cha, row>>
    BY <1>0, <1>14 DEF Index, Goto, At, Moves
  <2>2. Calm({"raced", "unsaved"}) BY <1>1, <2>1
  <2>3. NoBlob.key \in Safe BY BlobKeys DEF Safe
  <2>4. \A u \in Threads : blob'[u].key \in Safe BY <2>1, <2>2, <2>3 DEF Kept, Typed
  <2>5. mat[t] \in Safe BY <1>4, <2>1, <2>2
  <2> QED BY <1>2, <2>1, <2>2, <2>4, <2>5 DEF Kept
<1>15. ASSUME NEW t \in Threads, SetCipherKey(t) PROVE Kept'
  <2>1. /\ upsets \subseteq upsets' /\ pc[t] = "idle" /\ Moves(t, "setAes", made')
        /\ given' = given \cup {made'}
        /\ UNCHANGED <<file, salt, rotated, deployed, env, aes, fer, cha, row, blob>>
    BY <1>15 DEF SetCipherKey, Goto, At, Moves
  <2>2. Calm({"raced", "unsaved"}) BY <1>1, <2>1
  <2>3. Safe \subseteq Safe' /\ made' \in Safe' BY <2>1, SafeGrows
  <2> QED BY <2>1, <2>2, <2>3, KeptMoves DEF Kept
<1>16. ASSUME NEW t \in Threads, SetPassphrase(t) PROVE Kept'
  <2>1. /\ upsets \subseteq upsets' /\ pc[t] = "idle"
        /\ UNCHANGED <<file, salt, given, rotated, deployed, env, aes, fer, cha, row, blob>>
        /\ \/ salt > 0 /\ Moves(t, "setAes", salt)
           \/ Moves(t, "openSalt", mat[t])
    BY <1>0, <1>16 DEF SetPassphrase, Goto, At, Moves
  <2>2. CASE salt > 0 /\ Moves(t, "setAes", salt)
    <3>1. salt \in Safe BY <2>2 DEF Safe, Blank, Typed
    <3> QED BY <1>2, <1>3, <2>1, <2>2, <3>1
  <2>3. CASE Moves(t, "openSalt", mat[t])
    <3>1. mat[t] \in Safe BY <1>1, <1>4, <2>1
    <3> QED BY <1>2, <1>3, <2>1, <2>3, <3>1
  <2> QED BY <2>1, <2>2, <2>3
<1>17. ASSUME NEW t \in Threads, OpenSalt(t) PROVE Kept'
  <2>1. /\ upsets \subseteq upsets' /\ pc[t] = "openSalt" /\ salt' = Blank
        /\ pc' = [pc EXCEPT ![t] = "saveSalt"] /\ mat' = [mat EXCEPT ![t] = made']
        /\ ~(salt > 0) /\ \A u \in Threads : ~At(u, "saveSalt")
        /\ UNCHANGED <<file, given, rotated, deployed, env, aes, fer, cha, row, blob>>
    BY <1>17 DEF OpenSalt, Goto, At, Calm
  <2>2. Calm({"raced", "unsaved"}) BY <1>1, <2>1
  <2>3. \A u \in Threads : /\ Saving(u)' <=> Saving(u)
                           /\ At(u, "saveSalt")' <=> u = t
                           /\ u # t => mat'[u] = mat[u] /\ pc'[u] = pc[u]
    BY <2>1 DEF Saving, Emptied, At, Typed
  <2>4. salt \in {Blank, None}
    BY <2>1 DEF Typed, Blank, None
  <2>5. Safe \subseteq Safe'
    <3>1. file' = file BY <2>1
    <3> QED BY <2>1, <2>3, <2>4, <3>1 DEF Safe
  <2>6. /\ {rotated', deployed'} \subseteq Safe'
        /\ \A p \in Procs : {env'[p], aes'[p], fer'[p], cha'[p]} \subseteq Safe'
        /\ \A d \in Docs : row'[d].key \in Safe'
        /\ \A u \in Threads : blob'[u].key \in Safe'
    BY <2>1, <2>2, <2>5 DEF Kept
  <2>7. \A u \in Threads : pc'[u] \notin Fresh => mat'[u] \in Safe'
    BY <2>2, <2>3, <2>5 DEF Kept, Saving, Emptied, At
  <2>8. \A u \in Threads : /\ Saving(u)' => file' = Blank
                           /\ At(u, "saveSalt")' => salt' = Blank
                           /\ \A v \in Threads \ {u} :
                                /\ ~(Saving(u)' /\ Saving(v)')
                                /\ ~(At(u, "saveSalt")' /\ At(v, "saveSalt")')
    BY <2>1, <2>2, <2>3 DEF Kept
  <2> QED BY <2>6, <2>7, <2>8 DEF Kept
<1>18. ASSUME NEW t \in Threads, SaveSalt(t) PROVE Kept'
  <2>1. /\ upsets \subseteq upsets' /\ At(t, "saveSalt") /\ salt' = mat[t] /\ mat' = mat
        /\ pc' = [pc EXCEPT ![t] = "setAes"]
        /\ UNCHANGED <<file, given, rotated, deployed, env, aes, fer, cha, row, blob>>
    BY <1>18 DEF SaveSalt, Goto, At, Calm
  <2>2. Calm({"raced", "unsaved"}) BY <1>1, <2>1
  <2>3. \A u \in Threads : /\ Saving(u)' <=> Saving(u)
                           /\ ~At(u, "saveSalt")'
                           /\ u # t => pc'[u] = pc[u]
    BY <2>1, <2>2 DEF Kept, Saving, Emptied, At, Typed
  <2>4. salt = Blank /\ mat[t] > 0 BY <2>1, <2>2 DEF Kept, At, Typed
  <2>5. Safe \subseteq Safe' /\ mat[t] \in Safe'
    <3>1. file' = file BY <2>1
    <3>2. mat[t] # Blank BY <1>0, <2>4 DEF Blank
    <3> QED BY <2>1, <2>3, <2>4, <3>1, <3>2 DEF Safe
  <2>6. /\ {rotated', deployed'} \subseteq Safe'
        /\ \A p \in Procs : {env'[p], aes'[p], fer'[p], cha'[p]} \subseteq Safe'
        /\ \A d \in Docs : row'[d].key \in Safe'
        /\ \A u \in Threads : blob'[u].key \in Safe'
    BY <2>1, <2>2, <2>5 DEF Kept
  <2>7. \A u \in Threads : pc'[u] \notin Fresh => mat'[u] \in Safe'
    BY <2>1, <2>2, <2>3, <2>5 DEF Kept
  <2>8. \A u \in Threads : /\ Saving(u)' => file' = Blank
                           /\ \A v \in Threads \ {u} : ~(Saving(u)' /\ Saving(v)')
    BY <2>1, <2>2, <2>3 DEF Kept
  <2> QED BY <2>3, <2>6, <2>7, <2>8 DEF Kept
<1>19. ASSUME NEW t \in Threads, NEW alg \in Algorithms, RotateKey(t, alg) PROVE Kept'
  <2> DEFINE opened == {d \in Docs : row[d] # NoBlob /\ RotationOpens(row[d], KeyInForce)}
  <2>1. /\ upsets \subseteq upsets' /\ pc[t] = "idle" /\ Moves(t, "setAes", made')
        /\ given' = given \cup {made'} /\ rotated' = made'
        /\ row' = [d \in Docs |-> IF d \in opened THEN Prefixed(alg, made') ELSE row[d]]
        /\ UNCHANGED <<file, salt, deployed, env, aes, fer, cha, blob>>
    BY <1>19 DEF RotateKey, Goto, At, Moves
  <2>2. Calm({"raced", "unsaved"}) BY <1>1, <2>1
  <2>3. Safe \subseteq Safe' /\ made' \in Safe' BY <2>1, SafeGrows
  <2>4. Prefixed(alg, made').key = made' BY BlobKeys DEF Typed
  <2>5. \A d \in Docs : row'[d].key \in Safe'
    <3> SUFFICES ASSUME NEW d \in Docs PROVE row'[d].key \in Safe' OBVIOUS
    <3> HIDE DEF opened
    <3>1. CASE d \in opened BY <2>1, <2>3, <2>4, <3>1
    <3>2. CASE d \notin opened BY <2>1, <2>2, <2>3, <3>2 DEF Kept
    <3> QED BY <3>1, <3>2
  <2>6. {rotated', deployed'} \subseteq Safe' BY <2>1, <2>2, <2>3 DEF Kept
  <2>7. \A p \in Procs : {env'[p], aes'[p], fer'[p], cha'[p]} \subseteq Safe'
    BY <2>1, <2>2, <2>3 DEF Kept
  <2>8. \A u \in Threads : blob'[u].key \in Safe' BY <2>1, <2>2, <2>3 DEF Kept
  <2>9. {pc[t], "setAes"} \cap Fresh = {} /\ given \subseteq given' BY <2>1
  <2> QED
    <3> HIDE DEF opened
    <3> QED BY <2>1, <2>2, <2>3, <2>5, <2>6, <2>7, <2>8, <2>9, KeptMoves
\* Nothing that Kept is about, but perhaps deployed.
<1>20. ASSUME deployed' \in {rotated, deployed},
              UNCHANGED <<env, aes, fer, cha, row, blob, pc, mat, file, salt, rotated, given, upsets>>
       PROVE  Kept'
  BY <1>20 DEF Kept, Safe, Saving, Emptied, At, Calm
<1>21. CASE Deploy BY <1>20, <1>21 DEF Deploy
<1>22. ASSUME NEW p \in Procs, Restart(p) PROVE Kept'
  <2>1. /\ upsets \subseteq upsets'
        /\ env' = [env EXCEPT ![p] = deployed]
        /\ aes' = [aes EXCEPT ![p] = None] /\ fer' = [fer EXCEPT ![p] = None]
        /\ cha' = [cha EXCEPT ![p] = None]
        /\ UNCHANGED <<file, salt, row, given, rotated, deployed>>
    BY <1>22 DEF Restart
  <2>2. \A t \in Threads :
          \/ Home[t] = p /\ pc'[t] = "idle" /\ mat'[t] = None /\ blob'[t] = NoBlob
          \/ pc'[t] = pc[t] /\ mat'[t] = mat[t] /\ blob'[t] = blob[t]
    BY <1>22 DEF Restart
  <2>3. Calm({"raced", "unsaved"}) BY <1>1, <2>1
  <2>4. \A t \in Threads : /\ Saving(t)' => Saving(t)
                           /\ At(t, "saveSalt")' => At(t, "saveSalt")
    BY <2>2 DEF Saving, Emptied, At
  <2>5. Safe \subseteq Safe' /\ None \in Safe' BY <2>1, <2>4 DEF Safe
  <2>6. \A q \in Procs : {env'[q], aes'[q], fer'[q], cha'[q]} \subseteq Safe'
    BY <2>1, <2>3, <2>5 DEF Kept, Typed
  <2>7. {rotated', deployed'} \subseteq Safe' /\ \A d \in Docs : row'[d].key \in Safe'
    BY <2>1, <2>3, <2>5 DEF Kept
  <2>8. \A t \in Threads : /\ blob'[t].key \in Safe'
                           /\ pc'[t] \notin Fresh => mat'[t] \in Safe'
    BY <2>2, <2>3, <2>5, BlobKeys DEF Kept
  <2>9. \A t \in Threads : /\ Saving(t)' => file' = Blank
                           /\ At(t, "saveSalt")' => salt' = Blank
                           /\ \A u \in Threads \ {t} :
                                /\ ~(Saving(t)' /\ Saving(u)')
                                /\ ~(At(t, "saveSalt")' /\ At(u, "saveSalt")')
    BY <2>1, <2>3, <2>4 DEF Kept
  <2> QED BY <2>6, <2>7, <2>8, <2>9 DEF Kept
<1>23. CASE UNCHANGED vars \/ Finished BY <1>20, <1>23 DEF Finished, vars
<1> QED BY <1>5, <1>6, <1>7, <1>8, <1>9, <1>11, <1>12, <1>13, <1>14, <1>15, <1>16, <1>17, <1>18,
           <1>19, <1>21, <1>22, <1>23 DEF Next, Call

\* The first state has one key, of the file or none.
LEMMA KeptInit == Init => Kept
<1> SUFFICES ASSUME Init PROVE Kept OBVIOUS
<1>1. \A t \in Threads : pc[t] = "idle" /\ mat[t] = None /\ blob[t] = NoBlob BY DEF Init
<1>2. \A p \in Procs : env[p] = None /\ aes[p] = None /\ fer[p] = None /\ cha[p] = None
  BY DEF Init
<1>3. {None, file} \subseteq Safe BY <1>1 DEF Safe, Saving, Emptied, At
<1>4. \A d \in Docs : row[d].key \in Safe
  <2>1. CASE row = [d \in Docs |-> NoBlob] BY <1>3, <2>1, BlobKeys
  <2>2. CASE file = 1 /\ row \in [Docs -> Legacy \cup {NoBlob}]
    <3>1. \A b \in Legacy : b.key = 1 BY DEF Legacy, Blob
    <3> QED BY <1>3, <2>2, <3>1, BlobKeys
  <2> QED BY <2>1, <2>2 DEF Init
<1>5. rotated = None /\ deployed = None BY DEF Init
<1> QED BY <1>1, <1>2, <1>3, <1>4, <1>5, BlobKeys DEF Kept, Saving, Emptied, At

\* What the next theorem is proved from.
LEMMA KeptAlways == Spec => [](Typed /\ Kept)
<1>1. Init => Typed /\ Kept BY TypedInit, KeptInit
<1>2. Typed /\ Kept /\ [Next]_vars => (Typed /\ Kept)' BY TypedNext, KeptNext
<1> QED BY <1>1, <1>2, PTL DEF Spec

\* RowKeysKept holds always: _get_raw_key_material saves a key before a row is encrypted with
\* it, so that no end of a process leaves rows that nothing can open.
THEOREM RowKeysKeptAlways == Spec => []RowKeysKept
<1>1. Kept => RowKeysKept BY DEF Kept, RowKeysKept, Safe
<1> QED BY <1>1, KeptAlways, PTL

-----------------------------------------------------------------------------
(* The ciphers of a process.                                               *)

\* The key that _get_raw_key_material would give p is fixed: nobody is writing secret.key.
Known(p) == env[p] # None \/ (file # None /\ \A t \in Threads : ~Saving(t))

\* Where t is in its call, and what that says of the ciphers of its process.
Place(t) ==
  /\ pc[t] \in {"fernet", "aes", "chacha"} => Known(Home[t]) /\ mat[t] = Material(Home[t])
  /\ pc[t] \in {"material", "upsert", "index"} => env[Home[t]] # None \/ file # None
  /\ pc[t] \notin {"saveChacha", "saveIndex"}
  /\ At(t, "aes") => fer[Home[t]] # None
  /\ pc[t] \in {"chacha", "pack", "chachaMaterial"} => aes[Home[t]] # None /\ fer[Home[t]] # None
  /\ pc[t] \in {"setFernet", "setChacha", "setEnv"} => aes[Home[t]] = mat[t]
  /\ pc[t] \in {"setChacha", "setEnv"} => fer[Home[t]] = mat[t]
  /\ At(t, "setEnv") => cha[Home[t]] = mat[t]
\* A call that changes the key is alone in its process, and a saver alone with the file.
Apart(t) ==
  /\ pc[t] \in Changing => \A u \in Threads \ {t} : Home[u] = Home[t] => At(u, "idle")
  /\ Saving(t) => file = Blank /\ \A u \in Threads \ {t} : ~Saving(u)
Quiet(p) == \A t \in Threads : Home[t] = p => pc[t] \notin Installing
\* Unless its key is being changed, a process has ciphers of one key, assigned in this order.
Lazy(p) ==
  Quiet(p) =>
    /\ {aes[p], fer[p], cha[p]} \subseteq {None, Material(p)}
    /\ fer[p] # None => Known(p)
    /\ aes[p] # None => fer[p] # None
    /\ cha[p] # None => aes[p] # None
    /\ fer[p] # None /\ aes[p] = None => \E t \in Threads : Home[t] = p /\ At(t, "aes")
    /\ aes[p] # None /\ cha[p] = None => \E t \in Threads : Home[t] = p /\ At(t, "chacha")

Assigned == Calm({"raced", "clash"}) => /\ \A t \in Threads : Place(t) /\ Apart(t)
                                        /\ \A p \in Procs : Lazy(p)


\* A thread stays where it is, and so do the ciphers and the key of its process.
LEMMA PlaceStays ==
  ASSUME NEW u \in Threads, NEW p, p = Home[u], Place(u), pc'[u] = pc[u], mat'[u] = mat[u],
         env'[p] = env[p], aes'[p] = aes[p], fer'[p] = fer[p], cha'[p] = cha[p],
         Known(p) => Known(p)' /\ Material(p)' = Material(p),
         file # None => file' # None
  PROVE  Place(u)'
BY DEF Place, At

\* A process keeps its ciphers and its key, and the threads that will assign more.
LEMMA LazyStays ==
  ASSUME NEW p \in Procs, Lazy(p), Quiet(p)' => Quiet(p),
         aes'[p] = aes[p], fer'[p] = fer[p], cha'[p] = cha[p],
         Known(p) => Known(p)' /\ Material(p)' = Material(p),
         \A u \in Threads : Home[u] = p /\ pc[u] \in {"aes", "chacha"} => pc'[u] = pc[u]
  PROVE  Lazy(p)'
<1> SUFFICES ASSUME Quiet(p)' PROVE Lazy(p)' BY DEF Lazy
<1>1. CASE fer[p] = None
  <2>1. aes[p] = None /\ cha[p] = None BY <1>1 DEF Lazy
  <2> QED BY <1>1, <2>1 DEF Lazy
<1>2. CASE fer[p] # None BY <1>2 DEF Lazy, At
<1> QED BY <1>1, <1>2

\* t moves and nobody's ciphers change.
LEMMA AssignedMoves ==
  ASSUME Typed, Assigned, Calm({"raced", "clash"}), NEW t \in Threads, NEW label, NEW key,
         Moves(t, label, key), pc[t] \notin {"aes", "chacha"} \cup Installing,
         UNCHANGED <<env, aes, fer, cha>>,
         file # None => file' # None,
         \A p \in Procs : Known(p) => Known(p)' /\ Material(p)' = Material(p),
         \A u \in Threads : Saving(u)' => file' = Blank /\ \A v \in Threads \ {u} : ~Saving(v)',
         label \in {"fernet", "chacha"} => Known(Home[t])' /\ key = Material(Home[t])',
         label \in {"material", "upsert", "index"} => env[Home[t]] # None \/ file' # None,
         label \in {"chacha", "pack", "chachaMaterial"} => aes[Home[t]] # None /\ fer[Home[t]] # None,
         label \notin {"saveChacha", "saveIndex", "aes", "setFernet", "setChacha", "setEnv"},
         label \in Changing => \A u \in Threads \ {t} : Home[u] = Home[t] => At(u, "idle"),
         label # "idle" => \A u \in Threads \ {t} : Home[u] = Home[t] => pc[u] \notin Changing
  PROVE  Assigned'
<1>1. \A u \in Threads \ {t} : pc'[u] = pc[u] /\ mat'[u] = mat[u] BY DEF Moves, Typed
<1>2. pc'[t] = label /\ mat'[t] = key BY DEF Moves, Typed
<1>3. \A u \in Threads : Home[u] \in Procs BY KeyAssumption
<1>4. ASSUME NEW u \in Threads PROVE Place(u)'
  <2>1. CASE u = t BY <1>2, <2>1 DEF Place, At
  <2>2. CASE u # t
    <3>1. Place(u) BY DEF Assigned
    <3> QED BY <1>1, <1>3, <2>2, <3>1, PlaceStays
  <2> QED BY <2>1, <2>2
<1>5. ASSUME NEW u \in Threads PROVE Apart(u)'
  <2>1. ASSUME pc'[u] \in Changing, NEW v \in Threads \ {u}, Home[v] = Home[u]
        PROVE  pc'[v] = "idle"
    <3>1. CASE u = t BY <1>1, <1>2, <2>1, <3>1 DEF At
    <3>2. CASE v = t BY <1>1, <1>2, <2>1, <3>2
    <3>3. CASE u # t /\ v # t
      <4>1. Apart(u) BY DEF Assigned
      <4> QED BY <1>1, <2>1, <3>3, <4>1 DEF Apart, At
    <3> QED BY <3>1, <3>2, <3>3
  <2> QED BY <2>1 DEF Apart, At
<1>6. ASSUME NEW p \in Procs PROVE Lazy(p)'
  <2>1. Quiet(p)' => Quiet(p) BY <1>1 DEF Quiet
  <2>2. Lazy(p) BY DEF Assigned
  <2> QED BY <1>1, <2>1, <2>2, LazyStays
<1> QED BY <1>4, <1>5, <1>6 DEF Assigned

\* Neither does secret.key.
LEMMA AssignedPlain ==
  ASSUME Typed, Assigned, Calm({"raced", "clash"}), NEW t \in Threads, NEW label, NEW key,
         Moves(t, label, key), pc[t] \notin Emptied \cup {"aes", "chacha"} \cup Installing,
         UNCHANGED <<file, env, aes, fer, cha>>,
         label \in {"fernet", "chacha"} => Known(Home[t]) /\ key = Material(Home[t]),
         label \in {"material", "upsert", "index"} => env[Home[t]] # None \/ file # None,
         label \in {"chacha", "pack", "chachaMaterial"} => aes[Home[t]] # None /\ fer[Home[t]] # None,
         label \notin Emptied \cup {"aes", "setFernet", "setChacha", "setEnv"},
         label \in Changing => \A u \in Threads \ {t} : Home[u] = Home[t] => At(u, "idle"),
         label # "idle" => \A u \in Threads \ {t} : Home[u] = Home[t] => pc[u] \notin Changing
  PROVE  Assigned'
<1>1. \A u \in Threads : Saving(u)' <=> Saving(u) BY DEF Moves, Typed, Saving, Emptied, At
<1>2. \A p : (Known(p)' <=> Known(p)) /\ Material(p)' = Material(p) BY <1>1 DEF Known, Material
<1>3. \A u \in Threads : Saving(u)' => file' = Blank /\ \A v \in Threads \ {u} : ~Saving(v)'
  BY <1>1 DEF Assigned, Apart
<1> QED BY <1>2, <1>3, AssignedMoves DEF Emptied


\* _get_raw_key_material makes no key.
LEMMA HasKey ==
  ASSUME Assigned, Calm({"raced", "clash"}), NEW t \in Threads
  PROVE  /\ pc[t] \notin {"saveChacha", "saveIndex"}
         /\ ~Lacks(t, "chachaMaterial") /\ ~Lacks(t, "index")
         /\ pc[t] \in {"pack", "chachaMaterial"} => Known(Home[t])
<1>1. Place(t) /\ Home[t] \in Procs BY KeyAssumption DEF Assigned
<1>2. \A p : Known(p) => Material(p) # None BY DEF Known, Material
<1>3. ASSUME pc[t] \in {"pack", "chachaMaterial"} PROVE Known(Home[t])
  <2>1. Quiet(Home[t])
    <3>1. ASSUME NEW u \in Threads, Home[u] = Home[t] PROVE pc[u] \notin Changing
      BY <1>3, <3>1 DEF Assigned, Apart, At, Changing, Installing
    <3> QED BY <3>1 DEF Quiet, Changing
  <2> QED BY <1>1, <1>3, <2>1 DEF Assigned, Lazy, Place
<1>4. At(t, "index") => Material(Home[t]) # None BY <1>1 DEF Place, Material, At
<1> QED BY <1>1, <1>2, <1>3, <1>4 DEF Place, Lacks, At

\* Every action keeps Assigned.
LEMMA AssignedNext == ASSUME Typed, Assigned, Typed', [Next]_vars PROVE Assigned'
<1> USE DEF disk, ciphers, bounds, operator, history, Fresh, Emptied
<1> SUFFICES ASSUME Calm({"raced", "clash"})' PROVE Assigned' BY DEF Assigned
<1>1. ASSUME upsets \subseteq upsets' PROVE Calm({"raced", "clash"}) BY <1>1 DEF Calm
<1>2. /\ \A t \in Threads : mat[t] \in Int /\ mat = [mat EXCEPT ![t] = mat[t]]
      /\ \A t \in Threads : Home[t] \in Procs
  BY KeyAssumption DEF Typed
\* Who is not idle is not beside a change of the key.
<1>3. ASSUME Calm({"raced", "clash"}), NEW t \in Threads, pc[t] # "idle",
             NEW u \in Threads \ {t}, Home[u] = Home[t]
      PROVE  pc[u] \notin Changing
  BY <1>3 DEF Assigned, Apart, At
<1>4. ASSUME NEW t \in Threads, NEW d \in Docs, Write(t, d) PROVE Assigned'
  <2>1. /\ upsets \subseteq upsets' /\ Moves(t, "ciphers", mat[t]) /\ pc[t] = "idle"
        /\ UNCHANGED <<file, env, aes, fer, cha>>
        /\ ~\E u \in Threads : Home[u] = Home[t] /\ pc[u] \in Changing
    BY <1>2, <1>4 DEF Write, Goto, At, Moves, Calm
  <2> QED BY <1>1, <2>1, AssignedPlain DEF Changing, Installing
<1>5. ASSUME NEW t \in Threads, GetCiphers(t) PROVE Assigned'
  <2>1. /\ upsets \subseteq upsets' /\ pc[t] = "ciphers"
        /\ UNCHANGED <<file, env, aes, fer, cha>>
    BY <1>5 DEF GetCiphers, At
  <2>2. \E label \in {"pack", "material", "create"} :
          /\ Goto(t, label)
          /\ label = "pack" => aes[Home[t]] # None /\ fer[Home[t]] # None
          /\ label = "material" => env[Home[t]] # None \/ file # None
    <3>1. CASE aes[Home[t]] # None /\ fer[Home[t]] # None BY <1>5, <3>1 DEF GetCiphers
    <3>2. CASE ~(aes[Home[t]] # None /\ fer[Home[t]] # None)
               /\ (env[Home[t]] # None \/ file # None)
      BY <1>5, <3>2 DEF GetCiphers
    <3>3. CASE ~(aes[Home[t]] # None /\ fer[Home[t]] # None)
               /\ ~(env[Home[t]] # None \/ file # None)
      BY <1>5, <3>3 DEF GetCiphers
    <3> QED BY <3>1, <3>2, <3>3
  <2>3. PICK label \in {"pack", "material", "create"} :
          /\ Moves(t, label, mat[t])
          /\ label = "pack" => aes[Home[t]] # None /\ fer[Home[t]] # None
          /\ label = "material" => env[Home[t]] # None \/ file # None
    BY <1>2, <1>5, <2>2 DEF GetCiphers, Goto, Moves
  <2> QED BY <1>1, <1>3, <2>1, <2>3, AssignedPlain DEF Changing, Installing
\* secret.key is emptied or written: nobody uses it yet.
<1>6. ASSUME NEW t \in Threads, CreateKey(t) \/ SaveKey(t) PROVE Assigned'
  <2>1. /\ upsets \subseteq upsets' /\ UNCHANGED <<env, aes, fer, cha>>
        /\ \/ pc[t] = "create" /\ file = None /\ file' = Blank /\ Moves(t, "save", made')
           \/ pc[t] = "save" /\ file' = mat[t] /\ Moves(t, "material", mat[t])
    <3>1. upsets \subseteq upsets' /\ UNCHANGED <<env, aes, fer, cha>>
      BY <1>6 DEF CreateKey, SaveKey
    <3>2. /\ ~Lacks(t, "chachaMaterial") /\ ~Lacks(t, "index")
          /\ ~At(t, "saveChacha") /\ ~At(t, "saveIndex")
      BY <1>1, <3>1, HasKey DEF At
    <3>3. CASE CreateKey(t)
      BY <1>2, <3>1, <3>2, <3>3 DEF CreateKey, Goto, At, Moves, Calm
    <3>4. CASE SaveKey(t)
      BY <1>2, <3>1, <3>2, <3>4 DEF SaveKey, Goto, At, Moves, Saving
    <3> QED BY <1>6, <3>1, <3>3, <3>4
  <2>2. Calm({"raced", "clash"}) BY <1>1, <2>1
  <2>3. /\ \A u \in Threads \ {t} : ~Saving(u)
        /\ pc[t] \in {"create", "save"}
        /\ file' # None
    <3>1. CASE pc[t] = "create" /\ file = None /\ file' = Blank
      BY <2>2, <3>1 DEF Assigned, Apart, Blank, None
    <3>2. CASE pc[t] = "save" /\ file' = mat[t]
      <4>1. Saving(t) /\ mat[t] > 0 BY <3>2 DEF Saving, Typed
      <4>2. Apart(t) BY <2>2 DEF Assigned
      <4> QED BY <1>2, <3>2, <4>1, <4>2 DEF Apart, None
    <3> QED BY <2>1, <3>1, <3>2
  <2>4. \A q \in Procs : Known(q) => env[q] # None BY <2>1 DEF Known, Saving
  <2>5. \A q \in Procs : Known(q) => Known(q)' /\ Material(q)' = Material(q)
    BY <2>1, <2>4 DEF Known, Material
  <2>6. \A u \in Threads \ {t} : ~Saving(u)' BY <2>1, <2>3 DEF Moves, Saving, Emptied, At, Typed
  <2>7. CASE file' = Blank /\ Moves(t, "save", made')
    BY <1>3, <2>1, <2>2, <2>3, <2>5, <2>6, <2>7, AssignedMoves DEF Changing, Installing
  <2>8. CASE Moves(t, "material", mat[t])
    <3>1. ~Saving(t)' BY <2>8 DEF Moves, Saving, Emptied, At, Typed
    <3> QED BY <1>3, <2>1, <2>2, <2>3, <2>5, <2>6, <2>8, <3>1, AssignedMoves
            DEF Changing, Installing
  <2> QED BY <2>1, <2>7, <2>8
<1>7. ASSUME NEW t \in Threads, ReadMaterial(t) PROVE Assigned'
  <2>1. /\ upsets \subseteq upsets' /\ pc[t] \in {"material", "chachaMaterial"}
        /\ UNCHANGED <<file, env, aes, fer, cha>>
        /\ Early(Home[t]) = {}
    BY <1>7 DEF ReadMaterial, Early, Calm, At
  <2>2. PICK label \in {"fernet", "chacha"} :
          /\ Moves(t, label, Material(Home[t]))
          /\ label = "chacha" => pc[t] = "chachaMaterial"
    BY <1>7 DEF ReadMaterial, Goto, Moves, At
  <2>3. Calm({"raced", "clash"}) /\ Place(t) BY <1>1, <2>1 DEF Assigned
  <2>4. Known(Home[t])
    <3>1. CASE pc[t] = "chachaMaterial"
      <4>1. Quiet(Home[t])
        BY <1>3, <2>1, <2>3 DEF Quiet, Changing, Installing
      <4> QED BY <1>2, <2>3, <3>1, <4>1 DEF Assigned, Lazy, Place
    <3>2. CASE pc[t] = "material" /\ env[Home[t]] = None
      <4>1. Material(Home[t]) = file /\ file # None BY <2>3, <3>2 DEF Material, Place, At
      <4>2. \A u \in Threads : ~Saving(u)
        BY <2>1, <2>3, <4>1 DEF Early, Assigned, Apart, Saving, Emptied
      <4> QED BY <4>1, <4>2 DEF Known
    <3> QED BY <2>1, <3>1, <3>2 DEF Known
  <2>5. label = "chacha" => aes[Home[t]] # None /\ fer[Home[t]] # None
    BY <2>2, <2>3 DEF Place
  <2> QED BY <1>3, <2>1, <2>2, <2>3, <2>4, <2>5, AssignedPlain DEF Changing, Installing
<1>8. ASSUME NEW t \in Threads, NEW alg \in Algorithms, Pack(t, alg) PROVE Assigned'
  <2>1. /\ upsets \subseteq upsets' /\ pc[t] = "pack"
        /\ UNCHANGED <<file, env, aes, fer, cha>>
    BY <1>8 DEF Pack, At
  <2>2. PICK label \in {"chachaMaterial", "upsert"} : Moves(t, label, mat[t])
    BY <1>2, <1>8 DEF Pack, Goto, Moves
  <2>3. Calm({"raced", "clash"}) /\ Place(t) BY <1>1, <2>1 DEF Assigned
  <2>4. env[Home[t]] # None \/ file # None BY <2>1, <2>3, HasKey DEF Known
  <2> QED BY <1>3, <2>1, <2>2, <2>3, <2>4, AssignedPlain DEF Changing, Installing, Place
<1>9. ASSUME NEW t \in Threads, Upsert(t) \/ Index(t) PROVE Assigned'
  <2>1. /\ upsets \subseteq upsets' /\ pc[t] \in {"upsert", "index"}
        /\ UNCHANGED <<file, env, aes, fer, cha>>
    BY <1>9 DEF Upsert, Index, At
  <2>2. PICK label \in {"index", "idle"} : Moves(t, label, mat[t])
    BY <1>2, <1>9 DEF Upsert, Index, Goto, Moves
  <2>3. env[Home[t]] # None \/ file # None BY <1>1, <2>1 DEF Assigned, Place
  <2> QED BY <1>1, <1>3, <2>1, <2>2, <2>3, AssignedPlain DEF Changing, Installing
\* A change of the key begins beside idle threads only.
<1>10. ASSUME NEW t \in Threads,
              \/ SetCipherKey(t) \/ SetPassphrase(t) \/ \E alg \in Algorithms : RotateKey(t, alg)
       PROVE  Assigned'
  <2>1. /\ upsets \subseteq upsets' /\ pc[t] = "idle" /\ UNCHANGED <<file, env, aes, fer, cha>>
    BY <1>10 DEF SetCipherKey, SetPassphrase, RotateKey, At
  <2>2. PICK label \in {"setAes", "openSalt"} : \E key : Moves(t, label, key)
    BY <1>2, <1>10 DEF SetCipherKey, SetPassphrase, RotateKey, Goto, Moves
  <2>3. \A u \in Threads \ {t} : Home[u] = Home[t] => At(u, "idle")
    <3>1. CASE "rotate" \in Work[t] BY <3>1, KeyAssumption
    <3>2. CASE SetCipherKey(t) \/ SetPassphrase(t)
      <4>1. ~Beside(t) BY <3>2 DEF SetCipherKey, SetPassphrase, Clash, Calm
      <4> QED BY <4>1 DEF Beside, At
    <3> QED BY <1>10, <3>1, <3>2 DEF RotateKey
  <2> QED BY <1>1, <2>1, <2>2, <2>3, AssignedPlain DEF Changing, Installing, At
<1>11. ASSUME NEW t \in Threads, OpenSalt(t) \/ SaveSalt(t) PROVE Assigned'
  <2>1. /\ upsets \subseteq upsets' /\ pc[t] \in {"openSalt", "saveSalt"}
        /\ UNCHANGED <<file, env, aes, fer, cha>>
    BY <1>11 DEF OpenSalt, SaveSalt, At
  <2>2. PICK label \in {"setAes", "saveSalt"} : \E key : Moves(t, label, key)
    BY <1>2, <1>11 DEF OpenSalt, SaveSalt, Goto, Moves
  <2>3. Calm({"raced", "clash"}) /\ Apart(t) BY <1>1, <2>1 DEF Assigned
  <2>4. \A u \in Threads \ {t} : Home[u] = Home[t] => At(u, "idle")
    BY <2>1, <2>3 DEF Apart, Changing
  <2> QED BY <1>3, <2>1, <2>2, <2>3, <2>4, AssignedPlain DEF Changing, Installing, At
\* An assignment of t reaches its own process only.
<1>12. ASSUME NEW t \in Threads, NEW p, p = Home[t], upsets \subseteq upsets', UNCHANGED file,
              NEW label, NEW key, Moves(t, label, key),
              {pc[t], label} \cap (Fresh \cup {"openSalt"}) = {},
              pc[t] # "idle", pc[t] \in Changing \/ label \notin Changing,
              \A q \in Procs \ {p} : /\ env'[q] = env[q] /\ aes'[q] = aes[q]
                                     /\ fer'[q] = fer[q] /\ cha'[q] = cha[q],
              \A u \in Threads : Home[u] = p => Place(u)',
              Lazy(p)'
       PROVE  Assigned'
  <2>1. /\ \A u \in Threads \ {t} : pc'[u] = pc[u] /\ mat'[u] = mat[u]
        /\ pc'[t] = label
    BY <1>12 DEF Moves, Typed
  <2>2. Calm({"raced", "clash"}) BY <1>1, <1>12
  <2>3. \A u \in Threads : Saving(u)' <=> Saving(u) BY <1>12, <2>1 DEF Saving, Emptied, At
  <2>4. \A q \in Procs \ {p} : (Known(q)' <=> Known(q)) /\ Material(q)' = Material(q)
    BY <1>12, <2>3 DEF Known, Material
  <2>5. \A u \in Threads : Home[u] # p => Place(u)'
    <3> SUFFICES ASSUME NEW u \in Threads, Home[u] # p PROVE Place(u)' OBVIOUS
    <3>1. u # t /\ Home[u] \in Procs \ {p} BY <1>2, <1>12
    <3>2. Place(u) BY <2>2 DEF Assigned
    <3>3. pc'[u] = pc[u] /\ mat'[u] = mat[u] BY <2>1, <3>1
    <3>4. /\ env'[Home[u]] = env[Home[u]] /\ aes'[Home[u]] = aes[Home[u]]
          /\ fer'[Home[u]] = fer[Home[u]] /\ cha'[Home[u]] = cha[Home[u]]
      BY <1>12, <3>1
    <3>5. Known(Home[u]) => Known(Home[u])' /\ Material(Home[u])' = Material(Home[u])
      BY <2>4, <3>1
    <3> QED BY <1>12, <3>2, <3>3, <3>4, <3>5, PlaceStays
  <2>6. \A u \in Threads : Apart(u)'
    <3>1. ASSUME NEW u \in Threads, pc'[u] \in Changing, NEW v \in Threads \ {u}, Home[v] = Home[u]
          PROVE  pc'[v] = "idle"
      <4>1. Apart(u) /\ Apart(t) BY <2>2 DEF Assigned
      <4>2. CASE u = t BY <1>12, <2>1, <3>1, <4>1, <4>2 DEF Apart, At
      <4>3. CASE u # t BY <1>12, <2>1, <3>1, <4>1, <4>3 DEF Apart, At
      <4> QED BY <4>2, <4>3
    <3>2. \A u \in Threads : Apart(u) BY <2>2 DEF Assigned
    <3> QED BY <1>12, <2>3, <3>1, <3>2 DEF Apart, At
  <2>7. \A q \in Procs \ {p} : Lazy(q)'
    <3> SUFFICES ASSUME NEW q \in Procs \ {p} PROVE Lazy(q)' OBVIOUS
    <3>1. Lazy(q) BY <2>2 DEF Assigned
    <3>2. \A u \in Threads : Home[u] = q => pc'[u] = pc[u] BY <1>12, <2>1
    <3>3. Quiet(q)' => Quiet(q) BY <3>2 DEF Quiet
    <3> QED BY <1>12, <2>4, <3>1, <3>2, <3>3, LazyStays
  <2> QED BY <1>12, <2>5, <2>6, <2>7 DEF Assigned
<1>13. ASSUME NEW t \in Threads, InitCiphers(t) PROVE Assigned'
  <2> DEFINE p == Home[t]
  <2>1. /\ p \in Procs /\ upsets \subseteq upsets' /\ UNCHANGED <<file, env>>
        /\ pc[t] \in {"fernet", "aes", "chacha"}
    BY <1>2, <1>13 DEF InitCiphers, Assign, At
  <2>2. Calm({"raced", "clash"}) /\ Place(t) BY <1>1, <2>1 DEF Assigned
  <2>3. Known(p) /\ mat[t] = Material(p) /\ mat[t] # None
    BY <2>1, <2>2 DEF Place, Known, Material
  <2>4. \A u \in Threads : Home[u] = p => pc[u] \notin Changing
    BY <1>3, <2>1, <2>2 DEF Changing, Installing
  <2>5. Lazy(p) /\ Quiet(p)
    BY <2>1, <2>2, <2>4 DEF Assigned, Quiet, Changing
  <2>6. PICK label \in {"aes", "chacha", "pack"}, key \in {None, mat[t]} :
          /\ Moves(t, label, key)
          /\ label # "pack" => key = mat[t]
    BY <1>2, <1>13 DEF InitCiphers, Assign, Goto, Moves
  <2>7. /\ \A u \in Threads \ {t} : pc'[u] = pc[u] /\ mat'[u] = mat[u]
        /\ pc'[t] = label /\ mat'[t] = key
    BY <2>6 DEF Moves, Typed
  <2>8. Known(p)' /\ Material(p)' = Material(p)
    <3>1. \A u \in Threads : Saving(u)' => Saving(u) BY <2>7 DEF Saving, Emptied, At
    <3> QED BY <2>1, <2>3, <3>1 DEF Known, Material
  <2>9. /\ fer'[p] \in {fer[p], mat[t]} /\ aes'[p] \in {aes[p], mat[t]}
        /\ cha'[p] \in {cha[p], mat[t]}
        /\ \A q \in Procs \ {p} : fer'[q] = fer[q] /\ aes'[q] = aes[q] /\ cha'[q] = cha[q]
        /\ label = "aes" => fer'[p] = mat[t] /\ aes'[p] = aes[p] /\ cha'[p] = cha[p]
        /\ label = "chacha" => aes'[p] = mat[t] /\ fer'[p] = fer[p] /\ cha'[p] = cha[p]
                               /\ pc[t] = "aes"
        /\ label = "pack" => cha'[p] = mat[t] /\ aes'[p] = aes[p] /\ fer'[p] = fer[p]
                             /\ pc[t] = "chacha"
    <3>1. \A cipher \in [Procs -> Int] :
            /\ Put(cipher, t)[p] = mat[t]
            /\ \A q \in Procs \ {p} : Put(cipher, t)[q] = cipher[q]
      BY <2>1 DEF Put
    <3>2. fer \in [Procs -> Int] /\ aes \in [Procs -> Int] /\ cha \in [Procs -> Int]
      BY DEF Typed
    <3>3. CASE Assign(t, "fernet", "aes") /\ fer' = Put(fer, t) /\ UNCHANGED <<env, aes, cha>>
      <4>1. label = "aes" BY <2>7, <3>3 DEF Assign, Goto, Typed
      <4> QED BY <3>1, <3>2, <3>3, <4>1
    <3>4. CASE Assign(t, "aes", "chacha") /\ aes' = Put(aes, t) /\ UNCHANGED <<env, fer, cha>>
      <4>1. label = "chacha" /\ pc[t] = "aes" BY <2>7, <3>4 DEF Assign, Goto, At, Typed
      <4> QED BY <3>1, <3>2, <3>4, <4>1
    <3>5. CASE Assign(t, "chacha", "pack") /\ cha' = Put(cha, t) /\ UNCHANGED <<env, aes, fer>>
      <4>1. label = "pack" /\ pc[t] = "chacha" BY <2>7, <3>5 DEF Assign, Goto, At, Typed
      <4> QED BY <3>1, <3>2, <3>5, <4>1
    <3> QED BY <1>13, <3>3, <3>4, <3>5 DEF InitCiphers
  <2>10. ASSUME NEW u \in Threads, Home[u] = p PROVE Place(u)'
    <3>1. CASE u = t
      <4>1. label \in {"chacha", "pack"} => aes'[p] # None /\ fer'[p] # None
        BY <2>2, <2>3, <2>9 DEF Place, At
      <4> QED BY <2>3, <2>6, <2>7, <2>8, <2>9, <3>1, <4>1 DEF Place, At
    <3>2. CASE u # t
      <4>1. Place(u) BY <2>2 DEF Assigned
      <4>2. pc[u] \notin Installing BY <2>4, <2>10 DEF Changing
      <4> QED BY <2>1, <2>3, <2>7, <2>8, <2>9, <2>10, <3>2, <4>1, <4>2 DEF Place, At, Installing
    <3> QED BY <3>1, <3>2
  <2>11. Lazy(p)'
    <3>1. {aes'[p], fer'[p], cha'[p]} \subseteq {None, Material(p)'}
      BY <2>3, <2>5, <2>8, <2>9 DEF Lazy
    <3>2. /\ aes'[p] # None => fer'[p] # None
          /\ cha'[p] # None => aes'[p] # None
      BY <2>2, <2>3, <2>5, <2>9 DEF Lazy, Place, At
    <3>3. fer'[p] # None /\ aes'[p] = None => \E u \in Threads : Home[u] = p /\ At(u, "aes")'
      <4>1. CASE label = "aes" BY <2>7, <4>1 DEF At
      <4>2. CASE label # "aes" BY <2>2, <2>3, <2>6, <2>9, <4>2 DEF Place
      <4> QED BY <4>1, <4>2
    <3>4. aes'[p] # None /\ cha'[p] = None => \E u \in Threads : Home[u] = p /\ At(u, "chacha")'
      <4>1. CASE label = "chacha" BY <2>7, <4>1 DEF At
      <4>2. CASE label = "pack" BY <2>3, <2>9, <4>2
      <4>3. CASE label = "aes"
        <5> SUFFICES ASSUME aes'[p] # None, cha'[p] = None
                     PROVE  \E u \in Threads : Home[u] = p /\ At(u, "chacha")'
          OBVIOUS
        <5>1. PICK u \in Threads : Home[u] = p /\ At(u, "chacha")
          BY <2>5, <2>9, <4>3 DEF Lazy
        <5>2. CASE u # t BY <2>7, <5>1, <5>2 DEF At
        <5>3. CASE u = t
          <6>1. aes[p] # None /\ fer[p] # None /\ pc[t] = "chacha"
            BY <2>2, <5>1, <5>3 DEF Place, At
          <6>2. pc[t] = "fernet"
            BY <1>13, <2>7, <4>3 DEF InitCiphers, Assign, Goto, At, Typed
          <6> QED BY <6>1, <6>2
        <5> QED BY <5>2, <5>3
      <4> QED BY <2>6, <4>1, <4>2, <4>3
    <3> QED BY <2>8, <3>1, <3>2, <3>3, <3>4 DEF Lazy
  <2>12. {pc[t], label} \cap {"save", "openSalt", "saveSalt"} = {} /\ pc[t] # "idle"
         /\ label \notin Changing
    BY <2>1, <2>6 DEF Changing, Installing
  <2> QED BY <1>12, <2>1, <2>6, <2>9, <2>10, <2>11, <2>12
<1>14. ASSUME NEW t \in Threads, SetCiphers(t) PROVE Assigned'
  <2> DEFINE p == Home[t]
  <2>1. /\ p \in Procs /\ upsets \subseteq upsets' /\ UNCHANGED file
        /\ pc[t] \in Installing
    BY <1>2, <1>14 DEF SetCiphers, Assign, At, Installing
  <2>2. Calm({"raced", "clash"}) /\ Place(t) /\ Apart(t) BY <1>1, <2>1 DEF Assigned
  <2>3. mat[t] > 0 /\ mat[t] \in Int BY <2>1 DEF Typed
  <2>4. \A u \in Threads \ {t} : Home[u] = p => pc[u] = "idle"
    BY <2>1, <2>2 DEF Apart, Changing, At
  <2>5. PICK label \in {"setFernet", "setChacha", "setEnv", "idle"}, key \in {None, mat[t]} :
          /\ Moves(t, label, key)
          /\ label # "idle" => key = mat[t]
    BY <1>2, <1>14 DEF SetCiphers, Assign, Goto, Moves
  <2>6. /\ \A u \in Threads \ {t} : pc'[u] = pc[u] /\ mat'[u] = mat[u]
        /\ pc'[t] = label /\ mat'[t] = key
    BY <2>5 DEF Moves, Typed
  <2>7. /\ \A q \in Procs \ {p} : /\ env'[q] = env[q] /\ aes'[q] = aes[q]
                                  /\ fer'[q] = fer[q] /\ cha'[q] = cha[q]
        /\ label = "setFernet" => aes'[p] = mat[t]
        /\ label = "setChacha" => /\ fer'[p] = mat[t] /\ aes'[p] = aes[p]
                                  /\ pc[t] = "setFernet"
        /\ label = "setEnv" => /\ cha'[p] = mat[t] /\ aes'[p] = aes[p] /\ fer'[p] = fer[p]
                               /\ pc[t] = "setChacha"
        /\ label = "idle" => /\ env'[p] = mat[t] /\ aes'[p] = aes[p] /\ fer'[p] = fer[p]
                             /\ cha'[p] = cha[p] /\ pc[t] = "setEnv"
    <3>1. \A cipher \in [Procs -> Int] :
            /\ Put(cipher, t)[p] = mat[t]
            /\ \A q \in Procs \ {p} : Put(cipher, t)[q] = cipher[q]
      BY <2>1 DEF Put
    <3>2. /\ fer \in [Procs -> Int] /\ aes \in [Procs -> Int] /\ cha \in [Procs -> Int]
          /\ env \in [Procs -> Int]
      BY DEF Typed
    <3>3. CASE Assign(t, "setAes", "setFernet") /\ aes' = Put(aes, t) /\ UNCHANGED <<env, fer, cha>>
      <4>1. label = "setFernet" BY <2>6, <3>3 DEF Assign, Goto, Typed
      <4> QED BY <3>1, <3>2, <3>3, <4>1
    <3>4. CASE Assign(t, "setFernet", "setChacha") /\ fer' = Put(fer, t) /\ UNCHANGED <<env, aes, cha>>
      <4>1. label = "setChacha" /\ pc[t] = "setFernet" BY <2>6, <3>4 DEF Assign, Goto, At, Typed
      <4> QED BY <3>1, <3>2, <3>4, <4>1
    <3>5. CASE Assign(t, "setChacha", "setEnv") /\ cha' = Put(cha, t) /\ UNCHANGED <<env, aes, fer>>
      <4>1. label = "setEnv" /\ pc[t] = "setChacha" BY <2>6, <3>5 DEF Assign, Goto, At, Typed
      <4> QED BY <3>1, <3>2, <3>5, <4>1
    <3>6. CASE Assign(t, "setEnv", "idle") /\ env' = Put(env, t) /\ UNCHANGED <<aes, fer, cha>>
      <4>1. label = "idle" /\ pc[t] = "setEnv" BY <2>6, <3>6 DEF Assign, Goto, At, Typed
      <4> QED BY <3>1, <3>2, <3>6, <4>1
    <3> QED BY <1>14, <3>3, <3>4, <3>5, <3>6 DEF SetCiphers
  <2>8. ASSUME NEW u \in Threads, Home[u] = p PROVE Place(u)'
    <3>1. CASE u = t BY <2>2, <2>5, <2>6, <2>7, <3>1 DEF Place, At
    <3>2. CASE u # t BY <2>4, <2>6, <2>8, <3>2 DEF Place, At
    <3> QED BY <3>1, <3>2
  <2>9. Lazy(p)'
    <3>1. CASE label # "idle"
      <4>1. ~Quiet(p)' BY <2>5, <2>6, <3>1 DEF Quiet, Installing
      <4> QED BY <4>1 DEF Lazy
    <3>2. CASE label = "idle"
      <4>1. /\ env'[p] = mat[t] /\ aes'[p] = mat[t] /\ fer'[p] = mat[t] /\ cha'[p] = mat[t]
            /\ mat[t] # None
        BY <2>2, <2>3, <2>7, <3>2 DEF Place, At, None
      <4> QED BY <4>1 DEF Lazy, Known, Material
    <3> QED BY <3>1, <3>2
  <2>10. {pc[t], label} \cap {"save", "openSalt", "saveSalt"} = {} /\ pc[t] # "idle"
         /\ pc[t] \in Changing
    BY <2>1, <2>5 DEF Changing, Installing
  <2> QED BY <1>12, <2>1, <2>5, <2>7, <2>8, <2>9, <2>10
<1>15. ASSUME NEW p \in Procs, Restart(p) PROVE Assigned'
  <2>1. /\ upsets \subseteq upsets' /\ UNCHANGED file
        /\ \A q \in Procs \ {p} : /\ env'[q] = env[q] /\ aes'[q] = aes[q]
                                  /\ fer'[q] = fer[q] /\ cha'[q] = cha[q]
        /\ aes'[p] = None /\ fer'[p] = None /\ cha'[p] = None
    BY <1>15 DEF Restart, Typed
  <2>2. \A t \in Threads : IF Home[t] = p THEN pc'[t] = "idle"
                                          ELSE pc'[t] = pc[t] /\ mat'[t] = mat[t]
    BY <1>15 DEF Restart
  <2>3. Calm({"raced", "clash"}) BY <1>1, <2>1
  <2>4. \A t \in Threads : Saving(t)' => Saving(t) BY <2>2 DEF Saving, Emptied, At
  <2>5. \A q \in Procs \ {p} : Known(q) => Known(q)' /\ Material(q)' = Material(q)
    BY <2>1, <2>4 DEF Known, Material
  <2>6. ASSUME NEW t \in Threads PROVE Place(t)' /\ Apart(t)'
    <3>1. Place(t) /\ Apart(t) BY <2>3 DEF Assigned
    <3>2. Apart(t)'
      BY <2>1, <2>2, <2>4, <3>1 DEF Apart, At, Saving, Emptied, Changing, Installing
    <3>3. CASE Home[t] = p
      <4>1. pc'[t] = "idle" BY <2>2, <3>3
      <4> QED BY <3>2, <4>1 DEF Place, At
    <3>4. CASE Home[t] # p
      <4>1. Home[t] \in Procs \ {p} BY <1>2, <3>4
      <4>2. pc'[t] = pc[t] /\ mat'[t] = mat[t] BY <2>2, <3>4
      <4>3. Known(Home[t]) => Known(Home[t])' /\ Material(Home[t])' = Material(Home[t])
        BY <2>5, <4>1
      <4>4. Place(t)' BY <2>1, <3>1, <4>1, <4>2, <4>3, PlaceStays
      <4> QED BY <3>2, <4>4
    <3> QED BY <3>2, <3>3, <3>4 
  <2>7. ASSUME NEW q \in Procs PROVE Lazy(q)'
    <3>1. CASE q = p BY <2>1, <3>1 DEF Lazy
    <3>2. CASE q # p
      <4>1. Lazy(q) BY <2>3 DEF Assigned
      <4>2. \A u \in Threads : Home[u] = q => pc'[u] = pc[u] BY <2>2, <3>2
      <4>3. Quiet(q)' => Quiet(q) BY <4>2 DEF Quiet
      <4> QED BY <2>1, <2>5, <3>2, <4>1, <4>2, <4>3, LazyStays
    <3> QED BY <3>1, <3>2
  <2> QED BY <2>6, <2>7 DEF Assigned
<1>16. CASE UNCHANGED <<file, env, aes, fer, cha, pc, mat, upsets>>
  BY <1>16 DEF Assigned, Calm, Place, Apart, Lazy, Quiet, Known, Material, Saving, Emptied, At
<1>17. CASE Deploy \/ Finished \/ UNCHANGED vars BY <1>16, <1>17 DEF Deploy, Finished, vars
<1> QED BY <1>4, <1>5, <1>6, <1>7, <1>8, <1>9, <1>10, <1>11, <1>13, <1>14, <1>15, <1>17
        DEF Next, Call

\* The first state has no ciphers.
LEMMA AssignedInit == Init => Assigned
<1> SUFFICES ASSUME Init PROVE Assigned OBVIOUS
<1>1. /\ \A t \in Threads : pc[t] = "idle"
      /\ \A p \in Procs : aes[p] = None /\ fer[p] = None /\ cha[p] = None
  BY DEF Init
<1>2. \A t \in Threads : Place(t) /\ Apart(t)
  BY <1>1 DEF Place, Apart, Saving, Emptied, At, Changing, Installing
<1>3. \A p \in Procs : Lazy(p) BY <1>1 DEF Lazy
<1> QED BY <1>2, <1>3 DEF Assigned

\* What the next theorems are proved from.
LEMMA AssignedAlways == Spec => [](Typed /\ Assigned)
<1>1. Init => Typed /\ Assigned BY TypedInit, AssignedInit
<1>2. Typed /\ Assigned /\ [Next]_vars => (Typed /\ Assigned)' BY TypedNext, AssignedNext
<1> QED BY <1>1, <1>2, PTL DEF Spec

\* When all who assign are done, all three ciphers are there.
LEMMA AgreeFromAssigned == Typed /\ Assigned => CiphersAgree
<1> SUFFICES ASSUME Typed, Assigned, NEW p \in Procs, Settled(p), Calm({"raced", "clash"})
             PROVE  /\ aes[p] = fer[p] /\ fer[p] = cha[p]
                    /\ aes[p] # None => env[p] \in {None, aes[p]}
  BY DEF CiphersAgree
<1>1. Lazy(p) BY DEF Assigned
<1>2. Quiet(p) BY DEF Settled, Quiet
<1>3. /\ fer[p] # None => aes[p] # None
      /\ aes[p] # None => cha[p] # None
  BY <1>1, <1>2 DEF Lazy, Settled, At
<1> QED BY <1>1, <1>2, <1>3 DEF Lazy, Material


\* CiphersAgree holds always: neither _get_ciphers nor set_cipher_key leaves a process with
\* ciphers of two keys, or with a key other than its ENCRYPTION_KEY.
THEOREM CiphersAgreeAlways == Spec => []CiphersAgree
BY AssignedAlways, AgreeFromAssigned, PTL

\* ReadsOpen holds always: decrypt_and_unpack opens every row that is under the key of the
\* process, prefixed or not and whatever the algorithm is set to, but for unprefixed AES-GCM
\* rows while it is Fernet. Excepted are raced first starts and overlapped set_cipher_key.
THEOREM ReadsOpenAlways == Spec => []ReadsOpen
<1>1. ASSUME Typed, CiphersAgree PROVE ReadsOpen
  <2> SUFFICES ASSUME Calm({"raced", "clash"}), NEW p \in Procs, NEW d \in Docs,
                      NEW alg \in Algorithms, Settled(p), aes[p] # None, row[d].key = aes[p]
               PROVE  \/ Decrypt(p, row[d], alg)
                      \/ alg = "FERNET" /\ row[d] \in Legacy /\ row[d].cipher = "GCM"
    BY DEF ReadsOpen
  <2>1. fer[p] = aes[p] /\ cha[p] = aes[p] BY <1>1 DEF CiphersAgree
  <2>2. row[d] # NoBlob BY BlobKeys
  <2>3. CASE row[d] \in Legacy BY <2>1, <2>3 DEF Decrypt, OpenedBy, Legacy, Blob
  <2>4. ASSUME NEW head \in Algorithms, NEW key \in Int, row[d] = Prefixed(head, key)
        PROVE  Decrypt(p, row[d], alg)
    BY <2>1, <2>4 DEF Decrypt, OpenedBy, Cipher, Prefixed, Blob, Algorithms
  <2> QED BY <1>1, <2>2, <2>3, <2>4 DEF Typed, Blobs
<1> QED BY <1>1, AssignedAlways, CiphersAgreeAlways, PTL

\* AuditSound holds always: what verify_database_integrity calls clean, kv_get can read.
THEOREM AuditSoundAlways == Spec => []AuditSound
<1>1. ASSUME Typed PROVE AuditSound
  <2> SUFFICES ASSUME NEW p \in Procs, NEW alg \in Algorithms, AuditClean(p, alg),
                      NEW d \in Docs, row[d] # NoBlob
               PROVE  Decrypt(p, row[d], alg)
    BY DEF AuditSound
  <2>1. row[d].cipher = alg /\ row[d].key = Cipher(p, alg) BY DEF AuditClean, OpenedBy
  <2>2. CASE row[d] \in Legacy
    BY <2>1, <2>2 DEF Decrypt, OpenedBy, Cipher, Legacy, Blob, Algorithms
  <2>3. ASSUME NEW head \in Algorithms, NEW key \in Int, row[d] = Prefixed(head, key)
        PROVE  Decrypt(p, row[d], alg)
    BY <2>1, <2>3 DEF Decrypt, OpenedBy, Prefixed, Blob
  <2> QED BY <1>1, <2>2, <2>3 DEF Typed, Blobs
<1> QED BY <1>1, AssignedAlways, PTL

-----------------------------------------------------------------------------
(* The key of a row and of its index.                                      *)

\* What t is about to store is under the key of its process.
Ready(t) == At(t, "upsert") => Known(Home[t]) /\ blob[t].key = Material(Home[t])
\* The key of the row that t will index is that of its process, unless the CLI rotated it.
Indexed(t) == At(t, "index") /\ Home[t] \notin outdated
                => Known(Home[t]) /\ row[doc[t]].key = Material(Home[t])
Written == /\ Calm({"raced", "clash"}) => \A t \in Threads : Ready(t)
           /\ Calm({"raced", "clash", "crossed", "beside"}) => \A t \in Threads : Indexed(t)

\* Only the application sets keys beside other calls.
Blamed == /\ "clash" \in upsets => "set" \in upsets
          /\ \A t \in Threads : pc[t] \in Changing =>
               "set" \in upsets \/ ("rotate" \in Work[t] /\ pc[t] \in Installing)
\* A process that knows of the last rotation has its key.
Forced(p) == p \notin outdated =>
               /\ Quiet(p) => env[p] = rotated
               /\ \A t \in Threads : Home[t] = p /\ pc[t] \in Installing => mat[t] = rotated
\* A first start changes the key in force when there are no rows.
Current(d) == \/ row[d].key = None
              \/ row[d].key = KeyInForce /\ (rotated # None \/ \A t \in Threads : ~Saving(t))
              \/ row[d] = Blob("token", "GCM", 1)
InForce == Calm({"raced", "set", "beside"}) => /\ \A p \in Procs : Forced(p)
                                               /\ \A d \in Docs : Current(d)

\* The invariant of the last theorems.
KInv == /\ Typed /\ Assigned /\ doc \in [Threads -> Docs] /\ idx = [d \in Docs |-> idx[d]]
        /\ Written /\ Blamed /\ InForce /\ IndexUnderRowKey


\* A thread always has a document.
LEMMA DocNext == ASSUME doc \in [Threads -> Docs], [Next]_vars PROVE doc' \in [Threads -> Docs]
<1> USE DEF disk, ciphers, bounds, operator, history, Fresh, Emptied
<1>1. ASSUME NEW t \in Threads, Call(t) PROVE doc' \in [Threads -> Docs]
  <2>1. CASE \E d \in Docs : Write(t, d) BY <2>1 DEF Write
  <2>2. CASE GetCiphers(t) \/ CreateKey(t) \/ SaveKey(t) \/ ReadMaterial(t)
    BY <2>2 DEF GetCiphers, CreateKey, SaveKey, ReadMaterial
  <2>3. CASE InitCiphers(t) \/ SetCiphers(t) BY <2>3 DEF InitCiphers, SetCiphers, Assign
  <2>4. CASE (\E alg \in Algorithms : Pack(t, alg)) \/ Upsert(t) \/ Index(t)
    BY <2>4 DEF Pack, Upsert, Index
  <2>5. CASE SetCipherKey(t) \/ SetPassphrase(t) \/ OpenSalt(t) \/ SaveSalt(t)
    BY <2>5 DEF SetCipherKey, SetPassphrase, OpenSalt, SaveSalt
  <2>6. CASE \E alg \in Algorithms : RotateKey(t, alg) BY <2>6 DEF RotateKey
  <2> QED BY <1>1, <2>1, <2>2, <2>3, <2>4, <2>5, <2>6 DEF Call
<1>2. CASE Deploy \/ (\E p \in Procs : Restart(p)) BY <1>2 DEF Deploy, Restart
<1>3. CASE Finished \/ UNCHANGED vars BY <1>3 DEF Finished, vars
<1> QED BY <1>1, <1>2, <1>3 DEF Next

\* What the steps of t have in common that change neither rows nor ENCRYPTION_KEY.
Plain(t, label) ==
  /\ pc' = [pc EXCEPT ![t] = label] /\ pc[t] \notin {"upsert"} \cup Installing
  /\ \A u \in Threads \ {t} : mat'[u] = mat[u] /\ blob'[u] = blob[u] /\ doc'[u] = doc[u]
  /\ UNCHANGED <<env, row, rotated, outdated>> /\ upsets \subseteq upsets'
  /\ file' = file \/ CreateKey(t) \/ SaveKey(t)
  /\ idx' = idx \/ Index(t)
  /\ label \in Emptied => CreateKey(t)
  /\ label = "upsert" => \E alg \in Algorithms : Pack(t, alg)
  /\ At(t, "index") => Index(t) \/ Lacks(t, "index")
  /\ label = "index" => At(t, "saveIndex")
  /\ label \in Changing => "set" \in upsets' \/ pc[t] \in {"openSalt", "saveSalt"}
  /\ "clash" \in upsets' => \/ "clash" \in upsets \/ "set" \in upsets'
                            \/ \E u \in Threads \ {t} : Home[u] = Home[t] /\ pc[u] \in Changing

\* Every step is plain or one of these.
LEMMA Frame ==
  ASSUME Typed, doc \in [Threads -> Docs], [Next]_vars
  PROVE  \/ \E t \in Threads : \/ \E label \in Steps : Plain(t, label)
                               \/ Upsert(t) \/ SetCiphers(t)
                               \/ \E alg \in Algorithms : RotateKey(t, alg)
         \/ \E p \in Procs : Restart(p)
         \/ UNCHANGED <<disk, env, pc, mat, doc, blob, rotated, outdated, upsets>>
<1> USE DEF disk, ciphers, bounds, operator, history, Fresh, Emptied
<1>1. ASSUME NEW t \in Threads, NEW d \in Docs, Write(t, d) PROVE Plain(t, "ciphers")
  BY <1>1 DEF Write, Plain, Goto, At, Changing, Installing
<1>2. ASSUME NEW t \in Threads, GetCiphers(t) PROVE \E label \in Steps : Plain(t, label)
  <2>1. PICK label \in {"pack", "material", "create"} : Goto(t, label)
    <3>1. CASE aes[Home[t]] # None /\ fer[Home[t]] # None BY <1>2, <3>1 DEF GetCiphers
    <3>2. CASE ~(aes[Home[t]] # None /\ fer[Home[t]] # None)
               /\ (env[Home[t]] # None \/ file # None)
      BY <1>2, <3>2 DEF GetCiphers
    <3>3. CASE ~(aes[Home[t]] # None /\ fer[Home[t]] # None)
               /\ ~(env[Home[t]] # None \/ file # None)
      BY <1>2, <3>3 DEF GetCiphers
    <3> QED BY <3>1, <3>2, <3>3
  <2>2. Plain(t, label) BY <1>2, <2>1 DEF GetCiphers, Plain, Goto, At, Changing, Installing
  <2> QED BY <2>2 DEF Steps
<1>3. ASSUME NEW t \in Threads, CreateKey(t) PROVE \E label \in Emptied : Plain(t, label)
  <2>1. PICK label \in Emptied : Goto(t, label) /\ pc[t] \notin {"upsert"} \cup Installing
    BY <1>3 DEF CreateKey, Lacks, At, Installing
  <2>2. Plain(t, label)
    BY <1>3, <2>1 DEF CreateKey, Plain, Lacks, Goto, At, Changing, Installing, Typed
  <2> QED BY <2>2
<1>4. ASSUME NEW t \in Threads, SaveKey(t)
      PROVE  \E label \in {"material", "chacha", "index"} : Plain(t, label)
  <2>1. PICK label \in {"material", "chacha", "index"} :
          Goto(t, label) /\ pc[t] \in Emptied /\ (label = "index" => At(t, "saveIndex"))
    BY <1>4 DEF SaveKey, At
  <2>2. Plain(t, label)
    BY <1>4, <2>1 DEF SaveKey, Plain, Goto, At, Changing, Installing
  <2> QED BY <2>2
<1>5. ASSUME NEW t \in Threads, ReadMaterial(t) PROVE \E label \in {"fernet", "chacha"} : Plain(t, label)
  BY <1>5 DEF ReadMaterial, Plain, Early, Goto, At, Changing, Installing, Typed
<1>6. ASSUME NEW t \in Threads, InitCiphers(t)
      PROVE  \E label \in {"aes", "chacha", "pack"} : Plain(t, label)
  BY <1>6 DEF InitCiphers, Assign, Plain, Goto, At, Changing, Installing, Typed
<1>7. ASSUME NEW t \in Threads, NEW alg \in Algorithms, Pack(t, alg)
      PROVE  \E label \in {"chachaMaterial", "upsert"} : Plain(t, label)
  <2>1. PICK label \in {"chachaMaterial", "upsert"} : Goto(t, label) BY <1>7 DEF Pack
  <2>2. \A u \in Threads \ {t} : blob'[u] = blob[u] BY <1>7 DEF Pack, Typed
  <2> QED BY <1>7, <2>1, <2>2 DEF Pack, Plain, Goto, At, Changing, Installing
<1>8. ASSUME NEW t \in Threads, Index(t) PROVE Plain(t, "idle")
  BY <1>8 DEF Index, Plain, Unaware, Early, Goto, At, Changing, Installing, Typed
<1>9. ASSUME NEW t \in Threads, SetCipherKey(t) PROVE Plain(t, "setAes")
  BY <1>9 DEF SetCipherKey, Clash, Plain, Goto, At, Installing, Typed
<1>10. ASSUME NEW t \in Threads, SetPassphrase(t)
       PROVE  \E label \in {"setAes", "openSalt"} : Plain(t, label)
  BY <1>10 DEF SetPassphrase, Clash, Plain, Goto, At, Installing, Typed
<1>11. ASSUME NEW t \in Threads, OpenSalt(t)
       PROVE  \E label \in {"setAes", "saveSalt"} : Plain(t, label)
  BY <1>11 DEF OpenSalt, Plain, Goto, At, Installing, Typed
<1>12. ASSUME NEW t \in Threads, SaveSalt(t) PROVE Plain(t, "setAes")
  BY <1>12 DEF SaveSalt, Plain, Goto, At, Installing
<1>13. ASSUME NEW t \in Threads, Call(t)
       PROVE  \/ \E label \in Steps : Plain(t, label)
              \/ Upsert(t) \/ SetCiphers(t)
              \/ \E alg \in Algorithms : RotateKey(t, alg)
  BY <1>1, <1>2, <1>3, <1>4, <1>5, <1>6, <1>7, <1>8, <1>9, <1>10, <1>11, <1>12, <1>13
     DEF Call, Steps, Installing
<1>14. CASE Deploy BY <1>14 DEF Deploy
<1>15. CASE Finished \/ UNCHANGED vars BY <1>15 DEF Finished, vars
<1> QED BY <1>13, <1>14, <1>15 DEF Next


\* The key of a process stays while its ENCRYPTION_KEY does.
LEMMA KnownStays ==
  ASSUME Typed, Assigned, Calm({"raced", "clash"}), "raced" \notin upsets',
         NEW t \in Threads, NEW label, Plain(t, label),
         NEW p \in Procs, Known(p)
  PROVE  Known(p)' /\ Material(p)' = Material(p)
<1>1. env'[p] = env[p] BY DEF Plain
<1>2. \A u \in Threads \ {t} : Saving(u)' <=> Saving(u) BY DEF Plain, Saving, Emptied, At, Typed
<1>3. CASE CreateKey(t) \/ SaveKey(t)
  <2>1. file = None \/ Saving(t) BY <1>3 DEF CreateKey, SaveKey, Saving, Emptied, At
  <2>2. env[p] # None BY <2>1 DEF Known
  <2> QED BY <1>1, <2>2 DEF Known, Material
<1>4. CASE file' = file /\ ~CreateKey(t)
  <2>1. ~Saving(t)' BY <1>4 DEF Plain, Saving, Emptied, At, Typed
  <2> QED BY <1>1, <1>2, <1>4, <2>1 DEF Known, Material
<1> QED BY <1>3, <1>4 DEF Plain

\* Every action keeps Written.
LEMMA WrittenNext ==
  ASSUME Typed, doc \in [Threads -> Docs], Assigned, Written, [Next]_vars PROVE Written'
<1> SUFFICES ASSUME Calm({"raced", "clash"})'
             PROVE  /\ \A t \in Threads : Ready(t)'
                    /\ Calm({"raced", "clash", "crossed", "beside"})'
                         => \A t \in Threads : Indexed(t)'
  BY DEF Written, Calm
<1>1. \A t \in Threads : Home[t] \in Procs BY KeyAssumption
\* A thread that stays where it is.
<1>2. ASSUME upsets \subseteq upsets', NEW u \in Threads, pc'[u] = pc[u], blob'[u] = blob[u],
             doc'[u] = doc[u],
             Known(Home[u]) => Known(Home[u])' /\ Material(Home[u])' = Material(Home[u])
      PROVE  /\ Ready(u)'
             /\ Calm({"raced", "clash", "crossed", "beside"})'
                /\ (At(u, "index") => row'[doc[u]] = row[doc[u]]
                                      /\ (Home[u] \in outdated => Home[u] \in outdated'))
                  => Indexed(u)'
  <2>1. /\ Calm({"raced", "clash"})
        /\ Calm({"raced", "clash", "crossed", "beside"})'
             => Calm({"raced", "clash", "crossed", "beside"})
    BY <1>2 DEF Calm
  <2> QED BY <1>2, <2>1 DEF Written, Ready, Indexed, At
<1>3. ASSUME NEW t \in Threads, NEW label \in Steps, Plain(t, label)
      PROVE  \A u \in Threads :
               Ready(u)' /\ (Calm({"raced", "clash", "crossed", "beside"})' => Indexed(u)')
  <2>1. upsets \subseteq upsets' /\ "raced" \notin upsets' BY <1>3 DEF Plain, Calm
  <2>2. Calm({"raced", "clash"}) BY <2>1 DEF Calm
  <2>3. pc'[t] = label /\ label # "index" BY <1>3, <2>2, HasKey DEF Plain, Typed, At
  <2>4. Ready(t)'
    <3>1. CASE label = "upsert"
      <4>1. PICK alg \in Algorithms : Pack(t, alg) BY <1>3, <3>1 DEF Plain
      <4>2. At(t, "pack") /\ Cipher(Home[t], alg) # None
            /\ blob' = [blob EXCEPT ![t] = Prefixed(alg, Cipher(Home[t], alg))]
        BY <2>3, <3>1, <4>1 DEF Pack, Goto, Typed
      <4>3. Quiet(Home[t]) /\ Lazy(Home[t])
        BY <1>1, <2>2, <4>2 DEF Assigned, Apart, Quiet, At, Changing, Installing
      <4>4. Known(Home[t]) /\ Cipher(Home[t], alg) = Material(Home[t])
        BY <4>2, <4>3 DEF Lazy, Cipher
      <4>5. Prefixed(alg, Cipher(Home[t], alg)).key = Cipher(Home[t], alg) BY DEF Prefixed, Blob
      <4>6. blob'[t].key = Cipher(Home[t], alg) BY <4>2, <4>5 DEF Typed
      <4>7. Known(Home[t])' /\ Material(Home[t])' = Material(Home[t])
        BY <1>1, <1>3, <2>1, <2>2, <4>4, KnownStays
      <4> QED BY <4>4, <4>6, <4>7 DEF Ready
    <3>2. CASE label # "upsert" BY <2>3, <3>2 DEF Ready, At
    <3> QED BY <3>1, <3>2
  <2>5. Indexed(t)' BY <2>3 DEF Indexed, At
  <2>6. ASSUME NEW u \in Threads \ {t}
        PROVE  Ready(u)' /\ (Calm({"raced", "clash", "crossed", "beside"})' => Indexed(u)')
    <3>1. /\ pc'[u] = pc[u] /\ blob'[u] = blob[u] /\ doc'[u] = doc[u]
          /\ row' = row /\ outdated' = outdated
      BY <1>3, <2>6 DEF Plain, Typed
    <3>2. Known(Home[u]) => Known(Home[u])' /\ Material(Home[u])' = Material(Home[u])
      BY <1>1, <1>3, <2>1, <2>2, KnownStays
    <3> QED BY <1>2, <2>1, <3>1, <3>2
  <2> QED BY <2>4, <2>5, <2>6
<1>4. ASSUME NEW t \in Threads, Upsert(t)
      PROVE  \A u \in Threads :
               Ready(u)' /\ (Calm({"raced", "clash", "crossed", "beside"})' => Indexed(u)')
  <2>1. /\ upsets \subseteq upsets' /\ pc[t] = "upsert" /\ pc' = [pc EXCEPT ![t] = "index"]
        /\ row' = [row EXCEPT ![doc[t]] = blob[t]]
        /\ UNCHANGED <<file, env, doc, blob, outdated>>
    BY <1>4 DEF Upsert, Goto, At, disk, ciphers
  <2>2. Calm({"raced", "clash"}) BY <2>1 DEF Calm
  <2>3. pc'[t] = "index" /\ \A u \in Threads \ {t} : pc'[u] = pc[u] BY <2>1 DEF Typed
  <2>4. \A p : (Known(p)' <=> Known(p)) /\ Material(p)' = Material(p)
    <3>1. \A u \in Threads : Saving(u)' <=> Saving(u) BY <2>1, <2>3 DEF Saving, Emptied, At
    <3> QED BY <2>1, <3>1 DEF Known, Material
  <2>5. Ready(t) BY <2>2 DEF Written
  <2>6. row'[doc[t]] = blob[t] BY <2>1 DEF Typed
  <2>7. Ready(t)' /\ Indexed(t)'
    BY <2>1, <2>3, <2>4, <2>5, <2>6 DEF Ready, Indexed, At
  <2>8. ASSUME NEW u \in Threads \ {t}
        PROVE  Ready(u)' /\ (Calm({"raced", "clash", "crossed", "beside"})' => Indexed(u)')
    <3>1. CASE At(u, "index") /\ doc[u] = doc[t]
      <4>1. Ready(u)' BY <2>3, <3>1 DEF Ready, At
      <4>2. ASSUME Calm({"raced", "clash", "crossed", "beside"})' PROVE Home[u] = Home[t]
        BY <1>4, <3>1, <4>2 DEF Upsert, Calm
      <4>3. Home[u] = Home[t] => Indexed(u)'
        BY <2>1, <2>3, <2>4, <2>5, <2>6, <3>1 DEF Ready, Indexed, At
      <4> QED BY <4>1, <4>2, <4>3
    <3>2. CASE ~(At(u, "index") /\ doc[u] = doc[t])
      BY <1>2, <2>1, <2>3, <2>4, <3>2 DEF Typed
    <3> QED BY <3>1, <3>2
  <2> QED BY <2>7, <2>8
\* A rotation leaves all other processes outdated, and is the only call of its own.
<1>5. ASSUME NEW t \in Threads, NEW alg \in Algorithms, RotateKey(t, alg)
      PROVE  \A u \in Threads :
               Ready(u)' /\ (Calm({"raced", "clash", "crossed", "beside"})' => Indexed(u)')
  <2>1. /\ upsets \subseteq upsets' /\ pc' = [pc EXCEPT ![t] = "setAes"] /\ pc[t] = "idle"
        /\ UNCHANGED <<file, env, doc, blob>> /\ outdated' = Procs \ {Home[t]}
        /\ "rotate" \in Work[t]
    BY <1>5 DEF RotateKey, Goto, At, ciphers
  <2>2. pc'[t] = "setAes" /\ \A u \in Threads \ {t} : pc'[u] = pc[u] BY <2>1 DEF Typed
  <2>3. \A p : (Known(p)' <=> Known(p)) /\ Material(p)' = Material(p)
    <3>1. \A u \in Threads : Saving(u)' <=> Saving(u) BY <2>1, <2>2 DEF Saving, Emptied, At
    <3> QED BY <2>1, <3>1 DEF Known, Material
  <2>4. Ready(t)' /\ Indexed(t)' BY <2>2 DEF Ready, Indexed, At
  <2>5. \A u \in Threads \ {t} : Home[u] \in outdated' BY <1>1, <2>1, KeyAssumption
  <2>6. ASSUME NEW u \in Threads \ {t} PROVE Ready(u)' /\ Indexed(u)'
    <3>1. Ready(u)' BY <1>2, <2>1, <2>2, <2>3
    <3>2. Indexed(u)' BY <2>5 DEF Indexed
    <3> QED BY <3>1, <3>2
  <2> QED BY <2>4, <2>6
<1>6. ASSUME NEW t \in Threads, SetCiphers(t)
      PROVE  \A u \in Threads :
               Ready(u)' /\ (Calm({"raced", "clash", "crossed", "beside"})' => Indexed(u)')
  <2>1. /\ upsets \subseteq upsets' /\ UNCHANGED <<file, row, doc, blob, outdated>>
        /\ pc[t] \in Installing
        /\ \E label \in {"setFernet", "setChacha", "setEnv", "idle"} : pc' = [pc EXCEPT ![t] = label]
    <3>1. /\ UNCHANGED <<disk, doc, blob, history>> /\ pc[t] \in Installing
          /\ \E label \in {"setFernet", "setChacha", "setEnv", "idle"} : Goto(t, label)
      BY <1>6 DEF SetCiphers, Assign, At, Installing
    <3> QED BY <3>1 DEF disk, history, Goto
  <2>2. Calm({"raced", "clash"}) BY <2>1 DEF Calm
  <2>3. \A p \in Procs \ {Home[t]} : env'[p] = env[p]
    BY <1>6 DEF SetCiphers, Put, Typed
  <2>4. /\ pc'[t] \in {"setFernet", "setChacha", "setEnv", "idle"}
        /\ \A u \in Threads \ {t} : pc'[u] = pc[u]
    BY <2>1 DEF Typed
  <2>5. \A p \in Procs \ {Home[t]} : (Known(p)' <=> Known(p)) /\ Material(p)' = Material(p)
    <3>1. \A u \in Threads : Saving(u)' <=> Saving(u) BY <2>1, <2>4 DEF Saving, Emptied, At, Installing
    <3> QED BY <2>1, <2>3, <3>1 DEF Known, Material
  <2>6. Ready(t)' /\ Indexed(t)' BY <2>4 DEF Ready, Indexed, At
  <2>7. ASSUME NEW u \in Threads \ {t}
        PROVE  Ready(u)' /\ (Calm({"raced", "clash", "crossed", "beside"})' => Indexed(u)')
    <3>1. CASE Home[u] = Home[t]
      <4>1. Apart(t) BY <2>2 DEF Assigned
      <4>2. pc'[u] = "idle" BY <2>1, <2>4, <3>1, <4>1 DEF Apart, At, Changing
      <4> QED BY <4>2 DEF Ready, Indexed, At
    <3>2. CASE Home[u] # Home[t]
      <4>1. Home[u] \in Procs \ {Home[t]} BY <1>1, <3>2
      <4> QED BY <1>2, <2>1, <2>4, <2>5, <4>1
    <3> QED BY <3>1, <3>2
  <2> QED BY <2>6, <2>7
<1>7. ASSUME NEW p \in Procs, Restart(p)
      PROVE  \A u \in Threads :
               Ready(u)' /\ (Calm({"raced", "clash", "crossed", "beside"})' => Indexed(u)')
  <2>1. /\ upsets \subseteq upsets' /\ UNCHANGED <<file, row, doc>>
        /\ \A q \in Procs \ {p} : env'[q] = env[q]
        /\ \A q \in Procs \ {p} : q \in outdated => q \in outdated'
    BY <1>7 DEF Restart, Typed, disk
  <2>2. \A t \in Threads : IF Home[t] = p THEN pc'[t] = "idle"
                                          ELSE pc'[t] = pc[t] /\ blob'[t] = blob[t]
    BY <1>7 DEF Restart
  <2>3. \A q \in Procs \ {p} : Known(q) => Known(q)' /\ Material(q)' = Material(q)
    <3>1. \A t \in Threads : Saving(t)' => Saving(t) BY <2>2 DEF Saving, Emptied, At
    <3> QED BY <2>1, <3>1 DEF Known, Material
  <2>4. ASSUME NEW u \in Threads
        PROVE  Ready(u)' /\ (Calm({"raced", "clash", "crossed", "beside"})' => Indexed(u)')
    <3>1. CASE Home[u] = p
      <4>1. pc'[u] = "idle" BY <2>2, <3>1
      <4> QED BY <4>1 DEF Ready, Indexed, At
    <3>2. CASE Home[u] # p
      <4>1. Home[u] \in Procs \ {p} BY <1>1, <3>2
      <4>2. pc'[u] = pc[u] /\ blob'[u] = blob[u] BY <2>2, <3>2
      <4> QED BY <1>2, <2>1, <2>3, <4>1, <4>2
    <3> QED BY <3>1, <3>2
  <2> QED BY <2>4
<1>8. ASSUME UNCHANGED <<disk, env, pc, mat, doc, blob, rotated, outdated, upsets>>
      PROVE  \A u \in Threads :
               Ready(u)' /\ (Calm({"raced", "clash", "crossed", "beside"})' => Indexed(u)')
  BY <1>8 DEF disk, Written, Calm, Ready, Indexed, Known, Material, Saving, Emptied, At
<1> QED BY <1>3, <1>4, <1>5, <1>6, <1>7, <1>8, Frame


\* Every action keeps indexes under the keys of their rows.
LEMMA IndexNext ==
  ASSUME Typed, doc \in [Threads -> Docs], idx = [d \in Docs |-> idx[d]], Assigned,
         Written, IndexUnderRowKey, [Next]_vars
  PROVE  IndexUnderRowKey' /\ idx' = [d \in Docs |-> idx'[d]]
<1>1. ASSUME upsets \subseteq upsets',
             \A d \in Docs : idx'[d] = idx[d] /\ row'[d] = row[d],
             \A u \in Threads : At(u, "index") => At(u, "index")' /\ doc'[u] = doc[u]
      PROVE  IndexUnderRowKey'
  BY <1>1 DEF IndexUnderRowKey, Calm
<1>2. ASSUME NEW t \in Threads, NEW label \in Steps, Plain(t, label)
      PROVE  IndexUnderRowKey' /\ idx' = [d \in Docs |-> idx'[d]]
  <2>1. /\ upsets \subseteq upsets' /\ row' = row
        /\ \A u \in Threads \ {t} : At(u, "index") => At(u, "index")' /\ doc'[u] = doc[u]
    BY <1>2 DEF Plain, At, Typed
  <2>2. CASE Index(t)
    <3>1. /\ idx' = [idx EXCEPT ![doc[t]] = Material(Home[t])] /\ At(t, "index")
          /\ upsets' = upsets \cup Unaware(t) \cup Early(Home[t]) /\ doc[t] \in Docs
      BY <2>2 DEF Index, IndexKey
    <3>2. IndexUnderRowKey'
      <4> SUFFICES ASSUME Calm({"raced", "clash", "crossed", "beside", "cut"})', NEW d \in Docs
                   PROVE  \/ \E u \in Threads : At(u, "index")' /\ doc'[u] = d
                          \/ idx'[d] = row'[d].key
        BY DEF IndexUnderRowKey
      <4>1. CASE d = doc[t]
        <5>1. Home[t] \notin outdated BY <3>1 DEF Unaware, Calm
        <5>2. Indexed(t) BY <2>1 DEF Written, Calm
        <5> QED BY <2>1, <3>1, <4>1, <5>1, <5>2 DEF Indexed
      <4>2. CASE d # doc[t]
        <5>1. \/ \E u \in Threads : At(u, "index") /\ doc[u] = d
              \/ idx[d] = row[d].key
          BY <2>1 DEF IndexUnderRowKey, Calm
        <5> QED BY <2>1, <3>1, <4>2, <5>1
      <4> QED BY <4>1, <4>2
    <3> QED BY <3>1, <3>2
  <2>3. CASE idx' = idx /\ ~Index(t)
    <3>1. CASE Calm({"raced", "clash"})
      <4>1. ~At(t, "index") BY <1>2, <2>3, <3>1, HasKey DEF Plain
      <4> QED BY <1>1, <2>1, <2>3, <4>1
    <3>2. CASE ~Calm({"raced", "clash"}) BY <2>1, <2>3, <3>2 DEF IndexUnderRowKey, Calm
    <3> QED BY <3>1, <3>2
  <2> QED BY <1>2, <2>2, <2>3 DEF Plain
<1>3. ASSUME NEW t \in Threads, Upsert(t)
      PROVE  IndexUnderRowKey' /\ idx' = [d \in Docs |-> idx'[d]]
  <2>1. /\ upsets \subseteq upsets' /\ pc' = [pc EXCEPT ![t] = "index"]
        /\ row' = [row EXCEPT ![doc[t]] = blob[t]] /\ UNCHANGED <<idx, doc>>
    BY <1>3 DEF Upsert, Goto
  <2>2. At(t, "index")' /\ \A u \in Threads : At(u, "index") => At(u, "index")'
    BY <2>1 DEF At, Typed
  <2>3. \A d \in Docs : d = doc[t] \/ row'[d] = row[d] BY <2>1 DEF Typed
  <2> QED BY <2>1, <2>2, <2>3 DEF IndexUnderRowKey, Calm
<1>4. ASSUME NEW t \in Threads, NEW alg \in Algorithms, RotateKey(t, alg)
      PROVE  IndexUnderRowKey' /\ idx' = [d \in Docs |-> idx'[d]]
  <2> DEFINE opened == {d \in Docs : row[d] # NoBlob /\ RotationOpens(row[d], KeyInForce)}
  <2>1. /\ upsets \subseteq upsets' /\ pc' = [pc EXCEPT ![t] = "setAes"] /\ pc[t] = "idle"
        /\ row' = [d \in Docs |-> IF d \in opened THEN Prefixed(alg, made') ELSE row[d]]
        /\ idx' = [d \in Docs |-> IF d \in opened THEN made' ELSE idx[d]]
        /\ doc' = doc
    BY <1>4 DEF RotateKey, Goto, At
  <2>2. \A u \in Threads : At(u, "index") => At(u, "index")' BY <2>1 DEF At, Typed
  <2>3. Prefixed(alg, made').key = made' BY DEF Prefixed, Blob
  <2> HIDE DEF opened
  <2>4. ASSUME NEW d \in Docs
        PROVE  \/ row'[d] = row[d] /\ idx'[d] = idx[d]
               \/ idx'[d] = row'[d].key
    <3>1. CASE d \in opened BY <2>1, <2>3, <3>1
    <3>2. CASE d \notin opened BY <2>1, <3>2
    <3> QED BY <3>1, <3>2
  <2> QED BY <2>1, <2>2, <2>4 DEF IndexUnderRowKey, Calm
<1>5. ASSUME NEW t \in Threads, SetCiphers(t) PROVE IndexUnderRowKey' /\ idx' = idx
  <2>1. /\ UNCHANGED <<disk, doc, history>> /\ pc[t] \in Installing
        /\ \E label \in {"setFernet", "setChacha", "setEnv", "idle"} : Goto(t, label)
    BY <1>5 DEF SetCiphers, Assign, At, Installing
  <2>2. \A u \in Threads : At(u, "index") => At(u, "index")'
    BY <2>1 DEF Goto, At, Typed, Installing
  <2> QED BY <1>1, <2>1, <2>2 DEF disk, history
<1>6. ASSUME NEW p \in Procs, Restart(p) PROVE IndexUnderRowKey' /\ idx' = idx
  <2>1. /\ UNCHANGED <<row, idx, doc>> /\ upsets \subseteq upsets'
        /\ "cut" \notin upsets' => \A t \in Threads : Home[t] = p => ~At(t, "index")
    BY <1>6 DEF Restart, disk
  <2>2. \A t \in Threads : Home[t] = p \/ pc'[t] = pc[t] BY <1>6 DEF Restart
  <2>3. CASE "cut" \in upsets' BY <2>1, <2>3 DEF IndexUnderRowKey, Calm
  <2>4. CASE "cut" \notin upsets'
    BY <1>1, <2>1, <2>2, <2>4 DEF At
  <2> QED BY <2>1, <2>3, <2>4
<1>7. ASSUME UNCHANGED <<disk, env, pc, mat, doc, blob, rotated, outdated, upsets>>
      PROVE  IndexUnderRowKey' /\ idx' = idx
  BY <1>7 DEF disk, IndexUnderRowKey, Calm, At
<1> QED BY <1>2, <1>3, <1>4, <1>5, <1>6, <1>7, Frame

\* Every action keeps Blamed.
LEMMA BlamedNext ==
  ASSUME Typed, doc \in [Threads -> Docs], Blamed, [Next]_vars PROVE Blamed'
<1>1. ASSUME NEW t \in Threads, NEW label \in Steps, Plain(t, label) PROVE Blamed'
  <2>1. /\ upsets \subseteq upsets' /\ pc'[t] = label
        /\ \A u \in Threads \ {t} : pc'[u] = pc[u]
    BY <1>1 DEF Plain, Typed
  <2>2. "clash" \in upsets' => "set" \in upsets'
    <3> SUFFICES ASSUME NEW u \in Threads \ {t}, Home[u] = Home[t], pc[u] \in Changing
                 PROVE  "set" \in upsets
      BY <1>1, <2>1 DEF Plain, Blamed
    <3> QED BY KeyAssumption DEF Blamed
  <2>3. label \in Changing => "set" \in upsets'
    BY <1>1, <2>1 DEF Plain, Blamed, Changing, Installing
  <2> QED BY <2>1, <2>2, <2>3 DEF Blamed
<1>2. ASSUME NEW t \in Threads, NEW label, Goto(t, label), upsets \subseteq upsets',
             "clash" \in upsets' => "clash" \in upsets,
             label \in Changing => label \in Installing
                                   /\ (pc[t] \in Changing \/ "rotate" \in Work[t])
      PROVE  Blamed'
  BY <1>2 DEF Goto, Blamed, Typed
<1>3. ASSUME NEW t \in Threads, Upsert(t) PROVE Blamed'
  BY <1>2, <1>3 DEF Upsert, Unaware, Changing, Installing
<1>4. ASSUME NEW t \in Threads, SetCiphers(t) PROVE Blamed'
  <2>1. /\ UNCHANGED history /\ pc[t] \in Changing
        /\ \E label \in {"setFernet", "setChacha", "setEnv", "idle"} : Goto(t, label)
    BY <1>4 DEF SetCiphers, Assign, At, Installing, Changing
  <2> QED BY <1>2, <2>1 DEF history, Changing, Installing
<1>5. ASSUME NEW t \in Threads, NEW alg \in Algorithms, RotateKey(t, alg) PROVE Blamed'
  BY <1>2, <1>5 DEF RotateKey, Changing, Installing
<1>6. ASSUME NEW p \in Procs, Restart(p) PROVE Blamed'
  BY <1>6 DEF Restart, Blamed, Changing, Installing
<1>7. ASSUME UNCHANGED <<disk, env, pc, mat, doc, blob, rotated, outdated, upsets>> PROVE Blamed'
  BY <1>7 DEF Blamed
<1> QED BY <1>1, <1>3, <1>4, <1>5, <1>6, <1>7, Frame

\* Every action keeps InForce.
LEMMA InForceNext ==
  ASSUME Typed, doc \in [Threads -> Docs], Assigned, Written, Blamed, Blamed', InForce,
         [Next]_vars
  PROVE  InForce'
<1> SUFFICES ASSUME Calm({"raced", "set", "beside"})'
             PROVE  (\A p \in Procs : Forced(p)') /\ (\A d \in Docs : Current(d)')
  BY DEF InForce
<1>1. ASSUME upsets \subseteq upsets'
      PROVE  /\ Calm({"raced", "clash"}) /\ "raced" \notin upsets'
             /\ \A p \in Procs : Forced(p)
             /\ \A d \in Docs : Current(d)
             /\ \A t \in Threads : pc[t] \in Changing => pc[t] \in Installing
             /\ "set" \notin upsets'
  BY <1>1 DEF InForce, Blamed, Calm
\* Neither rows nor the key in force.
<1>2. ASSUME UNCHANGED <<row, rotated, file>>, \A t \in Threads : Saving(t)' => Saving(t),
             NEW d \in Docs, Current(d)
      PROVE  Current(d)'
  BY <1>2 DEF Current, KeyInForce
<1>3. ASSUME NEW t \in Threads, NEW label \in Steps, Plain(t, label)
      PROVE  (\A p \in Procs : Forced(p)') /\ (\A d \in Docs : Current(d)')
  <2>1. /\ upsets \subseteq upsets' /\ pc'[t] = label
        /\ \A u \in Threads \ {t} : pc'[u] = pc[u] /\ mat'[u] = mat[u]
        /\ UNCHANGED <<env, row, rotated, outdated>> /\ pc[t] \notin Installing
    BY <1>3 DEF Plain, Typed
  <2>2. label \notin Installing /\ pc[t] \notin Changing
    BY <1>1, <1>3, <2>1 DEF Plain, Changing
  <2>3. ASSUME NEW p \in Procs PROVE Forced(p)'
    <3>1. Quiet(p)' => Quiet(p) BY <2>1 DEF Quiet
    <3>2. Forced(p) BY <1>1, <2>1
    <3> QED BY <2>1, <2>2, <3>1, <3>2 DEF Forced
  <2>4. ASSUME NEW d \in Docs PROVE Current(d)'
    <3>1. Current(d) BY <1>1, <2>1
    <3>2. CASE CreateKey(t)
      <4>1. file = None BY <1>1, <2>1, <3>2 DEF CreateKey, Calm
      <4> QED BY <2>1, <3>1, <4>1 DEF Current, KeyInForce
    <3>3. CASE SaveKey(t)
      <4>1. Saving(t) BY <3>3 DEF SaveKey, Saving, Emptied, At
      <4> QED BY <2>1, <3>1, <4>1 DEF Current, KeyInForce
    <3>4. CASE file' = file /\ ~CreateKey(t)
      <4>1. \A u \in Threads : Saving(u)' => Saving(u)
        BY <1>3, <2>1, <3>4 DEF Plain, Saving, Emptied, At
      <4> QED BY <1>2, <2>1, <3>1, <3>4, <4>1
    <3> QED BY <1>3, <3>2, <3>3, <3>4 DEF Plain
  <2> QED BY <2>3, <2>4
<1>4. ASSUME NEW t \in Threads, Upsert(t)
      PROVE  (\A p \in Procs : Forced(p)') /\ (\A d \in Docs : Current(d)')
  <2>1. /\ (upsets \cup Unaware(t)) \subseteq upsets' /\ pc[t] = "upsert"
        /\ pc' = [pc EXCEPT ![t] = "index"]
        /\ row' = [row EXCEPT ![doc[t]] = blob[t]]
        /\ UNCHANGED <<file, env, mat, rotated, outdated>>
    BY <1>4 DEF Upsert, Goto, At, disk, ciphers, operator
  <2>2. pc'[t] = "index" /\ \A u \in Threads \ {t} : pc'[u] = pc[u] BY <2>1 DEF Typed
  <2>3. upsets \subseteq upsets' BY <2>1
  <2>4. \A u \in Threads : Saving(u)' <=> Saving(u) BY <2>1, <2>2 DEF Saving, Emptied, At
  <2>5. ASSUME NEW p \in Procs PROVE Forced(p)'
    <3>1. Quiet(p)' => Quiet(p) BY <2>1, <2>2 DEF Quiet, Installing
    <3>2. Forced(p) BY <1>1, <2>3
    <3> QED BY <2>1, <2>2, <3>1, <3>2 DEF Forced, Installing
  <2>6. blob[t].key = KeyInForce /\ (rotated # None \/ \A u \in Threads : ~Saving(u))
    <3>1. Home[t] \notin outdated /\ Home[t] \in Procs
      BY <2>1, KeyAssumption DEF Unaware, Calm
    <3>2. Ready(t) /\ Calm({"raced", "clash"}) BY <1>1, <2>3 DEF Written
    <3>3. Quiet(Home[t])
      BY <2>1, <3>2 DEF Assigned, Apart, Quiet, At, Changing, Installing
    <3>4. env[Home[t]] = rotated BY <1>1, <2>3, <3>1, <3>3 DEF Forced
    <3> QED BY <2>1, <3>2, <3>4 DEF Ready, At, Known, Material, KeyInForce
  <2>7. ASSUME NEW d \in Docs PROVE Current(d)'
    <3>1. Current(d) BY <1>1, <2>3
    <3>2. CASE d = doc[t]
      <4>1. row'[d] = blob[t] BY <2>1, <3>2 DEF Typed
      <4> QED BY <2>1, <2>4, <2>6, <4>1 DEF Current, KeyInForce
    <3>3. CASE d # doc[t]
      <4>1. row'[d] = row[d] BY <2>1, <3>3 DEF Typed
      <4> QED BY <2>1, <2>4, <3>1, <4>1 DEF Current, KeyInForce
    <3> QED BY <3>2, <3>3
  <2> QED BY <2>5, <2>7
<1>5. ASSUME NEW t \in Threads, NEW alg \in Algorithms, RotateKey(t, alg)
      PROVE  (\A p \in Procs : Forced(p)') /\ (\A d \in Docs : Current(d)')
  <2> DEFINE opened == {d \in Docs : row[d] # NoBlob /\ RotationOpens(row[d], KeyInForce)}
  <2>1. /\ upsets \subseteq upsets' /\ Moves(t, "setAes", made')
        /\ row' = [d \in Docs |-> IF d \in opened THEN Prefixed(alg, made') ELSE row[d]]
        /\ rotated' = made' /\ outdated' = Procs \ {Home[t]} /\ "rotate" \in Work[t]
    BY <1>5 DEF RotateKey, Goto, Moves
  <2>2. made' # None BY <1>5 DEF RotateKey, NewKey, Typed, None
  <2>3. ASSUME NEW p \in Procs PROVE Forced(p)'
    <3>1. CASE p # Home[t] BY <2>1, <3>1 DEF Forced
    <3>2. CASE p = Home[t]
      <4>1. \A u \in Threads : Home[u] = p => u = t BY <2>1, <3>2, KeyAssumption
      <4>2. pc'[t] = "setAes" /\ mat'[t] = made' BY <2>1 DEF Moves, Typed
      <4>3. ~Quiet(p)' BY <3>2, <4>2 DEF Quiet, Installing
      <4> QED BY <2>1, <4>1, <4>2, <4>3 DEF Forced
    <3> QED BY <3>1, <3>2
  <2>4. ASSUME NEW d \in Docs PROVE Current(d)'
    <3>1. CASE d \in opened
      <4>1. Prefixed(alg, made').key = made' BY DEF Prefixed, Blob
      <4>2. row'[d].key = made'
        <5> HIDE DEF opened
        <5> QED BY <2>1, <3>1, <4>1
      <4> QED BY <2>1, <2>2, <4>2 DEF Current, KeyInForce
    <3>2. CASE d \notin opened
      <4>1. row'[d] = row[d]
        <5> HIDE DEF opened
        <5> QED BY <2>1, <3>2
      <4>2. row[d].key = None \/ row[d].key = KeyInForce \/ row[d] = Blob("token", "GCM", 1)
        BY <1>1, <2>1 DEF Current
      <4>3. row[d] = NoBlob \/ ~RotationOpens(row[d], KeyInForce) BY <3>2
      <4>4. CASE row[d] = NoBlob BY <4>1, <4>4, BlobKeys DEF Current
      <4>5. CASE row[d].key = KeyInForce /\ row[d] # NoBlob
        <5>1. row[d].head = "token" /\ row[d].cipher # "FERNET"
          BY <4>3, <4>5 DEF RotationOpens
        <5>2. row[d] \in Blobs BY DEF Typed
        <5>3. \A head \in Algorithms, key \in Int : Prefixed(head, key).head # "token"
          BY DEF Prefixed, Blob, Algorithms
        <5>4. row[d] \in Legacy BY <4>5, <5>1, <5>2, <5>3 DEF Blobs
        <5>5. row[d] = Blob("token", "GCM", 1) BY <5>1, <5>4 DEF Legacy, Blob
        <5> QED BY <4>1, <5>5 DEF Current
      <4> QED BY <4>1, <4>2, <4>4, <4>5 DEF Current
    <3> QED BY <3>1, <3>2
  <2> QED BY <2>3, <2>4
<1>6. ASSUME NEW t \in Threads, SetCiphers(t)
      PROVE  (\A p \in Procs : Forced(p)') /\ (\A d \in Docs : Current(d)')
  <2>1. /\ UNCHANGED <<file, row, rotated, outdated, upsets>>
        /\ pc[t] \in Installing
    <3>1. UNCHANGED <<disk, operator, history>> /\ pc[t] \in Installing
      BY <1>6 DEF SetCiphers, Assign, At, Installing
    <3> QED BY <3>1 DEF disk, operator, history
  <2>2. PICK label \in {"setFernet", "setChacha", "setEnv", "idle"} :
          /\ Goto(t, label)
          /\ label # "idle" => mat' = mat /\ env' = env
          /\ label = "idle" => env' = [env EXCEPT ![Home[t]] = mat[t]]
                               /\ \A u \in Threads \ {t} : mat'[u] = mat[u]
    BY <1>6 DEF SetCiphers, Assign, Put, Typed
  <2>3. pc'[t] = label /\ \A u \in Threads \ {t} : pc'[u] = pc[u]
    BY <2>2 DEF Goto, Typed
  <2>4. Home[t] \in Procs BY KeyAssumption
  <2>5. ASSUME NEW p \in Procs PROVE Forced(p)'
    <3>1. Forced(p) /\ Apart(t) BY <1>1, <2>1 DEF Assigned
    <3>2. CASE p # Home[t]
      <4>1. Quiet(p)' => Quiet(p) BY <2>3, <3>2 DEF Quiet
      <4>2. env'[p] = env[p] BY <2>2, <3>2 DEF Typed
      <4> QED BY <2>1, <2>2, <2>3, <3>1, <3>2, <4>1, <4>2 DEF Forced
    <3>3. CASE p = Home[t] /\ label # "idle"
      <4>1. ~Quiet(p)' BY <2>2, <2>3, <3>3 DEF Quiet, Installing
      <4> QED BY <2>1, <2>2, <2>3, <3>1, <3>3, <4>1 DEF Forced
    <3>4. CASE p = Home[t] /\ label = "idle"
      <4>1. \A u \in Threads : Home[u] = p => pc'[u] = "idle"
        BY <2>1, <2>3, <3>1, <3>4 DEF Apart, At, Changing
      <4>2. env'[p] = mat[t] BY <2>2, <2>4, <3>4 DEF Typed
      <4> QED BY <2>1, <3>1, <3>4, <4>1, <4>2 DEF Forced, Installing
    <3> QED BY <3>2, <3>3, <3>4
  <2>6. ASSUME NEW d \in Docs PROVE Current(d)'
    <3>1. \A u \in Threads : Saving(u)' => Saving(u) BY <2>2, <2>3 DEF Saving, Emptied, At
    <3> QED BY <1>1, <1>2, <2>1, <3>1
  <2> QED BY <2>5, <2>6
<1>7. ASSUME NEW p \in Procs, Restart(p)
      PROVE  (\A q \in Procs : Forced(q)') /\ (\A d \in Docs : Current(d)')
  <2>1. /\ upsets \subseteq upsets' /\ UNCHANGED <<file, row, rotated>>
        /\ env'[p] = deployed /\ \A q \in Procs \ {p} : env'[q] = env[q]
        /\ p \notin outdated' => deployed = rotated
        /\ \A q \in Procs \ {p} : q \notin outdated' => q \notin outdated
    BY <1>7 DEF Restart, Typed, disk, operator
  <2>2. \A t \in Threads : IF Home[t] = p THEN pc'[t] = "idle"
                                          ELSE pc'[t] = pc[t] /\ mat'[t] = mat[t]
    BY <1>7 DEF Restart
  <2>3. ASSUME NEW q \in Procs PROVE Forced(q)'
    <3>1. Forced(q) BY <1>1, <2>1
    <3>2. CASE q = p BY <2>1, <2>2, <3>2 DEF Forced, Installing
    <3>3. CASE q # p
      <4>1. Quiet(q)' => Quiet(q) BY <2>2, <3>3 DEF Quiet
      <4> QED BY <2>1, <2>2, <3>1, <3>3, <4>1 DEF Forced
    <3> QED BY <3>2, <3>3
  <2>4. \A t \in Threads : Saving(t)' => Saving(t) BY <2>2 DEF Saving, Emptied, At
  <2> QED BY <1>1, <1>2, <2>1, <2>3, <2>4
<1>8. ASSUME UNCHANGED <<disk, env, pc, mat, doc, blob, rotated, outdated, upsets>>
      PROVE  (\A p \in Procs : Forced(p)') /\ (\A d \in Docs : Current(d)')
  BY <1>1, <1>8 DEF disk, Forced, Quiet, Current, KeyInForce, Saving, Emptied, At
<1> QED BY <1>3, <1>4, <1>5, <1>6, <1>7, <1>8, Frame

\* In the first state there is no rotation, and rows only with a key file.
LEMMA WrittenInit ==
  Init => /\ doc \in [Threads -> Docs] /\ idx = [d \in Docs |-> idx[d]]
          /\ Written /\ Blamed /\ InForce /\ IndexUnderRowKey
<1> SUFFICES ASSUME Init
             PROVE  /\ doc \in [Threads -> Docs] /\ idx = [d \in Docs |-> idx[d]]
                    /\ Written /\ Blamed /\ InForce /\ IndexUnderRowKey
  OBVIOUS
<1>1. /\ \A t \in Threads : pc[t] = "idle"
      /\ \A p \in Procs : env[p] = None
      /\ rotated = None /\ upsets = {}
      /\ idx = [d \in Docs |-> row[d].key]
  BY DEF Init
<1>2. doc \in [Threads -> Docs] BY KeyAssumption DEF Init
<1>3. Written BY <1>1 DEF Written, Ready, Indexed, At
<1>4. Blamed BY <1>1 DEF Blamed, Changing, Installing
<1>5. \A p \in Procs : Forced(p) BY <1>1 DEF Forced, Installing
<1>6. ASSUME NEW d \in Docs PROVE Current(d)
  <2>1. CASE row = [e \in Docs |-> NoBlob] BY <2>1, BlobKeys DEF Current
  <2>2. CASE file = 1 /\ row \in [Docs -> Legacy \cup {NoBlob}]
    <3>1. \A b \in Legacy : b.key = 1 BY DEF Legacy, Blob
    <3>2. \A t \in Threads : ~Saving(t) BY <1>1 DEF Saving, Emptied, At
    <3> QED BY <1>1, <2>2, <3>1, <3>2, BlobKeys DEF Current, KeyInForce
  <2> QED BY <2>1, <2>2 DEF Init
<1> QED BY <1>1, <1>2, <1>3, <1>4, <1>5, <1>6 DEF InForce, IndexUnderRowKey

\* What the last theorems are proved from.
LEMMA WrittenAlways == Spec => []KInv
<1>1. Init => KInv BY TypedInit, AssignedInit, WrittenInit DEF KInv
<1>2. ASSUME KInv, [Next]_vars PROVE KInv'
  <2> USE DEF KInv
  <2>1. Typed' BY <1>2, TypedNext
  <2>2. Assigned' BY <1>2, <2>1, AssignedNext
  <2>3. doc' \in [Threads -> Docs] BY <1>2, DocNext
  <2>4. Written' BY <1>2, WrittenNext
  <2>5. Blamed' BY <1>2, BlamedNext
  <2>6. InForce' BY <1>2, <2>5, InForceNext
  <2>7. IndexUnderRowKey' /\ idx' = [d \in Docs |-> idx'[d]] BY <1>2, IndexNext
  <2> QED BY <2>1, <2>2, <2>3, <2>4, <2>5, <2>6, <2>7
<1> QED BY <1>1, <1>2, PTL DEF Spec

\* RowsUnderKeyInForce holds always: after a rotation of the CLI nothing that kv_set or the
\* start of a process does brings a row back under another key.
THEOREM RowsUnderKeyInForceAlways == Spec => []RowsUnderKeyInForce
<1>1. KInv => RowsUnderKeyInForce BY DEF KInv, InForce, Current, RowsUnderKeyInForce
<1> QED BY <1>1, WrittenAlways, PTL

\* IndexUnderRowKey holds always: kv_set reads the key for the row and the one for its index
\* at two moments, and it is the same key.
THEOREM IndexUnderRowKeyAlways == Spec => []IndexUnderRowKey
<1>1. KInv => IndexUnderRowKey BY DEF KInv
<1> QED BY <1>1, WrittenAlways, PTL

=============================================================================
