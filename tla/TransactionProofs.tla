-------------------------- MODULE TransactionProofs --------------------------
(***************************************************************************)
(* Theorems about Transaction, for every number of keys, threads, calls    *)
(* and statements that raise.                                              *)
(***************************************************************************)
EXTENDS Transaction, TLAPS

\* A commit is open, and its current phase has keys to handle.
Well == /\ TypeOK
        /\ writes \in Numbers
        /\ \A t \in Threads : pc[t] # 0 => tx[t].active /\ todo[t] \subseteq KeysOf(tx[t], pc[t])

\* There are seven phases.
LEMMA SevenPhases == /\ Len(Phases) = 7
                     /\ Phases[1] = "check" /\ Phases[2] = "deleteIndex"
                     /\ Phases[3] = "deleteRow" /\ Phases[4] = "upsert"
                     /\ Phases[5] = "index" /\ Phases[6] = "l1Delete" /\ Phases[7] = "l1Put"
BY DEF Phases

\* A set of phases has a first one.
LEMMA FirstPhase ==
  ASSUME NEW S \in SUBSET (1..7), S # {}
  PROVE  Min(S) \in S /\ \A j \in S : Min(S) <= j
<1>1. \E i \in S : \A j \in S : i <= j
  <2>1. PICK n \in S : TRUE OBVIOUS
  <2>2. CASE 1 \in S BY <2>2
  <2>3. CASE 1 \notin S /\ 2 \in S BY <2>3
  <2>4. CASE {1, 2} \cap S = {} /\ 3 \in S BY <2>4
  <2>5. CASE {1, 2, 3} \cap S = {} /\ 4 \in S BY <2>5
  <2>6. CASE {1, 2, 3, 4} \cap S = {} /\ 5 \in S BY <2>6
  <2>7. CASE {1, 2, 3, 4, 5} \cap S = {} /\ 6 \in S BY <2>7
  <2>8. CASE {1, 2, 3, 4, 5, 6} \cap S = {} /\ 7 \in S BY <2>8
  <2> QED BY <2>1, <2>2, <2>3, <2>4, <2>5, <2>6, <2>7, <2>8
<1> QED BY <1>1 DEF Min

\* Which keys a phase handles.
LEMMA PhaseKeys ==
  ASSUME NEW x
  PROVE  /\ KeysOf(x, 1) = {k \in Staged(x) : x.reads[k].ver > 0}
         /\ KeysOf(x, 2) = x.deletes /\ KeysOf(x, 3) = x.deletes /\ KeysOf(x, 6) = x.deletes
         /\ KeysOf(x, 4) = Written(x) /\ KeysOf(x, 5) = Written(x) /\ KeysOf(x, 7) = Written(x)
BY SevenPhases DEF KeysOf

\* Where a commit goes from phase i on: to the next that has keys, or to its end.
LEMMA EnterGoes ==
  ASSUME Well, NEW t \in Threads, NEW i \in 1..8, Enter(t, tx[t], i)
  PROVE  \/ /\ pc' = [pc EXCEPT ![t] = 0] /\ todo' = [todo EXCEPT ![t] = {}]
            /\ tx' = [tx EXCEPT ![t].active = FALSE]
            /\ \A j \in i..7 : KeysOf(tx[t], j) = {}
         \/ /\ tx' = tx
            /\ \E m \in i..7 : /\ pc' = [pc EXCEPT ![t] = m]
                               /\ todo' = [todo EXCEPT ![t] = KeysOf(tx[t], m)]
                               /\ KeysOf(tx[t], m) # {}
                               /\ \A j \in i..7 : j < m => KeysOf(tx[t], j) = {}
<1> DEFINE ahead == {j \in i..7 : KeysOf(tx[t], j) # {}}
<1>1. CASE ahead = {} BY <1>1, SevenPhases DEF Enter, Rest
<1>2. CASE ahead # {}
  <2>1. ahead \in SUBSET (1..7) OBVIOUS
  <2>2. Min(ahead) \in ahead /\ \A j \in ahead : Min(ahead) <= j BY <1>2, <2>1, FirstPhase
  <2>3. /\ pc' = [pc EXCEPT ![t] = Min(ahead)]
        /\ todo' = [todo EXCEPT ![t] = KeysOf(tx[t], Min(ahead))]
        /\ tx' = tx
    BY <1>2, SevenPhases DEF Enter
  <2>4. Min(ahead) \in i..7 /\ KeysOf(tx[t], Min(ahead)) # {} BY <2>2
  <2>5. \A j \in i..7 : j < Min(ahead) => KeysOf(tx[t], j) = {}
    <3> SUFFICES ASSUME NEW j \in i..7, j < Min(ahead), j \in ahead PROVE FALSE OBVIOUS
    <3>1. Min(ahead) <= j BY <2>2
    <3> QED BY <2>4, <3>1
  <2> QED BY <2>3, <2>4, <2>5
<1> QED BY <1>1, <1>2

\* The commit of t has handled k in phase i.
Done(t, k, i) == pc[t] > i \/ (pc[t] = i /\ k \notin todo[t])
\* Of the keys of t's commit, the phases have handled those that they had, and k in this one.
Progress(t, k) ==
  /\ pc'[t] \in pc[t]..7 /\ todo'[t] \subseteq KeysOf(tx[t], pc'[t]) /\ todo'[t] # {}
  /\ tx'[t] = tx[t]
  /\ \A i \in 1..7 : \A y \in KeysOf(tx[t], i) :
       Done(t, y, i)' <=> Done(t, y, i) \/ (y = k /\ i = pc[t])
\* It ends: all of them have been handled.
End(t, k) ==
  /\ pc'[t] = 0 /\ todo'[t] = {} /\ tx'[t] = [tx[t] EXCEPT !.active = FALSE]
  /\ \A i \in 1..7 : \A y \in KeysOf(tx[t], i) : Done(t, y, i) \/ (y = k /\ i = pc[t])
Others(t) == \A u \in Threads \ {t} : pc'[u] = pc[u] /\ todo'[u] = todo[u] /\ tx'[u] = tx[u]

\* What a handled key does to the commit.
LEMMA AdvanceGoes ==
  ASSUME Well, NEW t \in Threads, pc[t] # 0, NEW k \in todo[t], Advance(t, k)
  PROVE  Others(t) /\ (Progress(t, k) \/ End(t, k))
<1>0. pc[t] \in 1..7 /\ pc \in [Threads -> 0..7] /\ todo[t] \subseteq KeysOf(tx[t], pc[t])
  BY SevenPhases DEF Well, TypeOK
<1>1. CASE todo[t] # {k}
  BY <1>0, <1>1 DEF Advance, Others, Progress, Done, Well, TypeOK
<1>2. CASE todo[t] = {k}
  <2>1. Enter(t, tx[t], pc[t] + 1) BY <1>2 DEF Advance
  <2>2. pc[t] + 1 \in 1..8 BY <1>0
  <2>3. CASE /\ pc' = [pc EXCEPT ![t] = 0] /\ todo' = [todo EXCEPT ![t] = {}]
             /\ tx' = [tx EXCEPT ![t].active = FALSE]
             /\ \A j \in (pc[t] + 1)..7 : KeysOf(tx[t], j) = {}
    <3>1. Others(t) BY <2>3 DEF Others, Well, TypeOK
    <3>2. pc'[t] = 0 /\ todo'[t] = {} /\ tx'[t] = [tx[t] EXCEPT !.active = FALSE]
      BY <2>3 DEF Well, TypeOK
    <3>3. ASSUME NEW i \in 1..7, NEW y \in KeysOf(tx[t], i)
          PROVE  Done(t, y, i) \/ (y = k /\ i = pc[t])
      <4>1. i <= pc[t] BY <1>0, <2>3, <3>3
      <4> QED BY <1>0, <1>2, <4>1 DEF Done
    <3> QED BY <3>1, <3>2, <3>3 DEF End
  <2>4. ASSUME NEW m \in (pc[t] + 1)..7, tx' = tx, pc' = [pc EXCEPT ![t] = m],
               todo' = [todo EXCEPT ![t] = KeysOf(tx[t], m)], KeysOf(tx[t], m) # {},
               \A j \in (pc[t] + 1)..7 : j < m => KeysOf(tx[t], j) = {}
        PROVE  Others(t) /\ Progress(t, k)
    <3>1. Others(t) BY <2>4 DEF Others, Well, TypeOK
    <3>2. pc'[t] = m /\ todo'[t] = KeysOf(tx[t], m) /\ tx'[t] = tx[t]
      BY <2>4 DEF Well, TypeOK
    <3>3. ASSUME NEW i \in 1..7, NEW y \in KeysOf(tx[t], i)
          PROVE  Done(t, y, i)' <=> Done(t, y, i) \/ (y = k /\ i = pc[t])
      <4>1. CASE i <= pc[t] BY <1>0, <1>2, <2>4, <3>2, <4>1 DEF Done
      <4>2. CASE i > pc[t]
        <5>1. i >= m BY <1>0, <2>4, <3>3, <4>2
        <5> QED BY <1>0, <2>4, <3>2, <3>3, <4>2, <5>1 DEF Done
      <4> QED BY <1>0, <4>1, <4>2
    <3> QED BY <1>0, <2>4, <3>1, <3>2, <3>3 DEF Progress
  <2>5. CASE \E m \in (pc[t] + 1)..7 :
               /\ tx' = tx /\ pc' = [pc EXCEPT ![t] = m]
               /\ todo' = [todo EXCEPT ![t] = KeysOf(tx[t], m)] /\ KeysOf(tx[t], m) # {}
               /\ \A j \in (pc[t] + 1)..7 : j < m => KeysOf(tx[t], j) = {}
    BY <2>4, <2>5
  <2> QED BY <2>1, <2>2, <2>3, <2>5, EnterGoes
<1> QED BY <1>1, <1>2

\* Where commit begins.
LEMMA CommitGoes ==
  ASSUME Well, NEW t \in Threads, Commit(t)
  PROVE  /\ Others(t)
         /\ \/ /\ pc'[t] = 0 /\ todo'[t] = {} /\ tx'[t] = [tx[t] EXCEPT !.active = FALSE]
               /\ Staged(tx[t]) = {}
            \/ /\ pc'[t] \in 1..7 /\ todo'[t] \subseteq KeysOf(tx[t], pc'[t]) /\ todo'[t] # {}
               /\ tx'[t] = tx[t]
               /\ \A i \in 1..7 : \A y \in KeysOf(tx[t], i) : ~Done(t, y, i)'
<1>1. Enter(t, tx[t], 1) BY DEF Commit
<1>2. CASE /\ pc' = [pc EXCEPT ![t] = 0] /\ todo' = [todo EXCEPT ![t] = {}]
           /\ tx' = [tx EXCEPT ![t].active = FALSE]
           /\ \A j \in 1..7 : KeysOf(tx[t], j) = {}
  <2>1. Others(t) BY <1>2 DEF Others, Well, TypeOK
  <2>2. pc'[t] = 0 /\ todo'[t] = {} /\ tx'[t] = [tx[t] EXCEPT !.active = FALSE]
    BY <1>2 DEF Well, TypeOK
  <2>3. Staged(tx[t]) = {} BY <1>2, PhaseKeys DEF Staged
  <2> QED BY <2>1, <2>2, <2>3
<1>3. ASSUME NEW m \in 1..7, tx' = tx, pc' = [pc EXCEPT ![t] = m],
             todo' = [todo EXCEPT ![t] = KeysOf(tx[t], m)], KeysOf(tx[t], m) # {},
             \A j \in 1..7 : j < m => KeysOf(tx[t], j) = {}
      PROVE  /\ Others(t)
             /\ pc'[t] \in 1..7 /\ todo'[t] \subseteq KeysOf(tx[t], pc'[t]) /\ todo'[t] # {}
             /\ tx'[t] = tx[t]
             /\ \A i \in 1..7 : \A y \in KeysOf(tx[t], i) : ~Done(t, y, i)'
  <2>1. Others(t) BY <1>3 DEF Others, Well, TypeOK
  <2>2. pc'[t] = m /\ todo'[t] = KeysOf(tx[t], m) BY <1>3 DEF Well, TypeOK
  <2> QED BY <1>3, <2>1, <2>2 DEF Done
<1>4. \/ /\ pc' = [pc EXCEPT ![t] = 0] /\ todo' = [todo EXCEPT ![t] = {}]
         /\ tx' = [tx EXCEPT ![t].active = FALSE]
         /\ \A j \in 1..7 : KeysOf(tx[t], j) = {}
      \/ /\ tx' = tx
         /\ \E m \in 1..7 : /\ pc' = [pc EXCEPT ![t] = m]
                            /\ todo' = [todo EXCEPT ![t] = KeysOf(tx[t], m)]
                            /\ KeysOf(tx[t], m) # {}
                            /\ \A j \in 1..7 : j < m => KeysOf(tx[t], j) = {}
  <2>1. 1 \in 1..8 OBVIOUS
  <2> QED BY ONLY Well, <1>1, <2>1, EnterGoes
<1> QED BY <1>2, <1>3, <1>4

\* A new transaction is well formed.
LEMMA FreshTx == /\ Fresh \in Tx /\ [Fresh EXCEPT !.active = FALSE] \in Tx
                 /\ Staged(Fresh) = {} /\ Staged([Fresh EXCEPT !.active = FALSE]) = {}
                 /\ Written(Fresh) = {} /\ Written([Fresh EXCEPT !.active = FALSE]) = {}
                 /\ Fresh.deletes = {} /\ [Fresh EXCEPT !.active = FALSE].deletes = {}
<1>1. 0 \in Numbers BY TransactionAssumption DEF Numbers
<1>2. Fresh \in Tx BY <1>1 DEF Fresh, Tx, Absent, Doc
<1>3. [Fresh EXCEPT !.active = FALSE] \in Tx BY <1>2 DEF Tx
<1> QED BY <1>2, <1>3 DEF Fresh, Written, Staged

\* The parts of Well that are about one transaction.
WellTx(t) == /\ tx[t] \in Tx /\ pc[t] \in 0..7 /\ todo[t] \subseteq Keys
             /\ Written(tx[t]) \cap tx[t].deletes = {}
             /\ todo[t] \subseteq Staged(tx[t]) /\ (todo[t] # {} <=> pc[t] # 0)
             /\ pc[t] # 0 => tx[t].active /\ todo[t] \subseteq KeysOf(tx[t], pc[t])
WellStore == /\ row \in [Keys -> Doc] /\ idx \in [Keys -> Numbers]
             /\ bloom \subseteq Keys /\ l1 \in [Keys -> Numbers]
             /\ writes \in Numbers
             /\ crossed \subseteq Keys /\ raced \in [Threads -> SUBSET Keys]
             /\ rejected \subseteq Numbers /\ torn \subseteq Numbers
WellArrays == /\ tx = [u \in Threads |-> tx[u]] /\ pc = [u \in Threads |-> pc[u]]
              /\ todo = [u \in Threads |-> todo[u]]

\* They make it up.
LEMMA WellParts == Well <=> WellStore /\ WellArrays /\ \A t \in Threads : WellTx(t)
<1>1. Well => WellStore /\ WellArrays /\ \A t \in Threads : WellTx(t)
  BY SevenPhases DEF Well, TypeOK, WellStore, WellArrays, WellTx
<1>2. WellStore /\ WellArrays /\ (\A t \in Threads : WellTx(t)) => Well
  BY SevenPhases DEF Well, TypeOK, WellStore, WellArrays, WellTx
<1> QED BY <1>1, <1>2

\* A step of t leaves the other transactions as they are.
LEMMA WellStep ==
  ASSUME Well, NEW t \in Threads, Others(t), WellStore', WellArrays', WellTx(t)'
  PROVE  Well'
<1>1. ASSUME NEW u \in Threads PROVE WellTx(u)'
  <2>1. CASE u = t BY <2>1
  <2>2. CASE u # t
    <3>1. WellTx(u) BY WellParts
    <3> QED BY <2>2, <3>1 DEF WellTx, Others
  <2> QED BY <2>1, <2>2
<1> QED BY <1>1, SevenPhases DEF Well, TypeOK, WellStore, WellArrays, WellTx

\* A step that handles a key of a commit.
LEMMA WellAdvance ==
  ASSUME Well, NEW t \in Threads, pc[t] # 0, NEW k \in todo[t], Advance(t, k), WellStore'
  PROVE  Well'
<1>0. WellTx(t) BY WellParts
<1>1. WellArrays' BY DEF Advance, Enter, Rest, WellArrays, Well, TypeOK
<1>2. Others(t) /\ (Progress(t, k) \/ End(t, k)) BY AdvanceGoes
<1>3. CASE Progress(t, k)
  <2>1. /\ pc'[t] \in 1..7 /\ todo'[t] \subseteq KeysOf(tx[t], pc'[t]) /\ todo'[t] # {}
        /\ tx'[t] = tx[t]
    BY <1>0, <1>3 DEF Progress, WellTx
  <2>2. KeysOf(tx[t], pc'[t]) \subseteq Staged(tx[t]) BY DEF KeysOf, Staged
  <2>3. Staged(tx[t]) \subseteq Keys BY <1>0 DEF Staged, Written, WellTx, Tx
  <2>4. tx[t].active BY <1>0 DEF WellTx
  <2>5. WellTx(t)' BY <1>0, <2>1, <2>2, <2>3, <2>4 DEF WellTx
  <2> QED BY <1>1, <1>2, <2>5, WellStep
<1>4. CASE End(t, k)
  <2>1. tx'[t] = [tx[t] EXCEPT !.active = FALSE] /\ pc'[t] = 0 /\ todo'[t] = {}
    BY <1>4 DEF End
  <2>2. tx'[t] \in Tx /\ tx'[t].writes = tx[t].writes /\ tx'[t].deletes = tx[t].deletes
    BY <1>0, <2>1 DEF WellTx, Tx
  <2>3. WellTx(t)' BY <1>0, <2>1, <2>2 DEF WellTx, Written
  <2> QED BY <1>1, <1>2, <2>3, WellStep
<1> QED BY <1>2, <1>3, <1>4

\* Every step keeps the state well formed.
LEMMA WellNext == ASSUME Well, [Next]_vars PROVE Well'
<1> USE DEF store, bounds, history
<1>0. WellStore /\ WellArrays /\ \A t \in Threads : WellTx(t) BY WellParts
<1>1. ASSUME NEW t \in Threads, Begin(t) PROVE Well'
  <2>1. Others(t) /\ WellArrays' /\ WellStore' /\ tx'[t] = Fresh
        /\ pc'[t] = 0 /\ todo' = todo
    BY <1>0, <1>1 DEF Begin, Charge, Others, WellArrays, WellStore
  <2>2. todo[t] = {} BY <1>0, <1>1 DEF Begin, WellTx
  <2>3. WellTx(t)' BY <2>1, <2>2, FreshTx DEF WellTx
  <2> QED BY <2>1, <2>3, WellStep
<1>2. ASSUME NEW t \in Threads, NEW k \in Keys, TxSet(t, k) PROVE Well'
  <2>1. writes' \in Numbers /\ writes' = writes + 1
    BY <1>0, <1>2, TransactionAssumption DEF TxSet, WellStore, Numbers
  <2>2. Others(t) /\ WellArrays' /\ WellStore'
        /\ pc'[t] = 0 /\ todo' = todo
    BY <1>0, <1>2, <2>1 DEF TxSet, Open, Others, WellArrays, WellStore
  <2>3. tx'[t] = [tx[t] EXCEPT !.writes = [@ EXCEPT ![k] = writes'], !.deletes = @ \ {k}]
    BY <1>0, <1>2, <2>1 DEF TxSet, WellArrays, WellTx, Tx
  <2>4. /\ tx'[t].writes = [tx[t].writes EXCEPT ![k] = writes']
        /\ tx'[t].deletes = tx[t].deletes \ {k}
        /\ tx'[t] \in Tx
    <3>1. tx[t] \in Tx BY <1>0 DEF WellTx
    <3>2. [tx[t].writes EXCEPT ![k] = writes'] \in [Keys -> Numbers]
      BY <2>1, <3>1 DEF Tx
    <3> QED BY <2>3, <3>1, <3>2 DEF Tx
  <2>5. todo[t] = {} BY <1>0, <1>2 DEF TxSet, Open, WellTx
  <2>6. Written(tx'[t]) \cap tx'[t].deletes = {} BY <1>0, <2>4 DEF WellTx, Written, Tx
  <2>7. WellTx(t)' BY <2>2, <2>4, <2>5, <2>6 DEF WellTx
  <2> QED BY <2>2, <2>7, WellStep
<1>3. ASSUME NEW t \in Threads, NEW k \in Keys, TxDelete(t, k) PROVE Well'
  <2>1. Others(t) /\ WellArrays' /\ WellStore' /\ pc'[t] = 0 /\ todo' = todo
    BY <1>0, <1>3 DEF TxDelete, Charge, Open, Others, WellArrays, WellStore
  <2>2. tx'[t] = [tx[t] EXCEPT !.writes = [@ EXCEPT ![k] = 0], !.deletes = @ \cup {k}]
    BY <1>0, <1>3 DEF TxDelete, WellArrays, WellTx, Tx
  <2>3. 0 \in Numbers BY TransactionAssumption DEF Numbers
  <2>4. /\ tx'[t].writes = [tx[t].writes EXCEPT ![k] = 0]
        /\ tx'[t].deletes = tx[t].deletes \cup {k}
        /\ tx'[t] \in Tx
    <3>1. tx[t] \in Tx BY <1>0 DEF WellTx
    <3>2. [tx[t].writes EXCEPT ![k] = 0] \in [Keys -> Numbers] BY <2>3, <3>1 DEF Tx
    <3>3. tx[t].deletes \cup {k} \in SUBSET Keys BY <3>1 DEF Tx
    <3>4. tx'[t] = [tx[t] EXCEPT !.writes = [tx[t].writes EXCEPT ![k] = 0],
                                 !.deletes = tx[t].deletes \cup {k}]
      BY <2>2
    <3> HIDE <2>2
    <3> QED BY <3>1, <3>2, <3>3, <3>4 DEF Tx
  <2>5. todo[t] = {} BY <1>0, <1>3 DEF TxDelete, Open, WellTx
  <2>6. Written(tx'[t]) \cap tx'[t].deletes = {} BY <1>0, <2>4 DEF WellTx, Written, Tx
  <2>7. WellTx(t)' BY <2>1, <2>4, <2>5, <2>6 DEF WellTx
  <2> QED BY <2>1, <2>7, WellStep
<1>4. ASSUME NEW t \in Threads, NEW k \in Keys, TxGet(t, k) PROVE Well'
  <2>1. Others(t) /\ WellArrays' /\ WellStore' /\ pc'[t] = 0 /\ todo' = todo
    BY <1>0, <1>4 DEF TxGet, Charge, Open, Others, WellArrays, WellStore
  <2>2. /\ tx'[t].writes = tx[t].writes /\ tx'[t].deletes = tx[t].deletes /\ tx'[t] \in Tx
    <3>1. tx[t] \in Tx /\ row[k] \in Doc /\ tx = [u \in Threads |-> tx[u]]
      BY <1>0 DEF WellArrays, WellTx, WellStore
    <3>2. CASE tx' = tx BY <3>1, <3>2
    <3>3. CASE tx' = [tx EXCEPT ![t].reads[k] = row[k]]
      <4>1. tx'[t] = [tx[t] EXCEPT !.reads = [tx[t].reads EXCEPT ![k] = row[k]]]
        BY <3>1, <3>3
      <4> QED BY <3>1, <4>1 DEF Tx
    <3> QED BY <1>4, <3>2, <3>3 DEF TxGet
  <2>3. todo[t] = {} BY <1>0, <1>4 DEF TxGet, Open, WellTx
  <2>4. Written(tx'[t]) \cap tx'[t].deletes = {} BY <1>0, <2>2 DEF WellTx, Written
  <2>5. WellTx(t)' BY <2>1, <2>2, <2>3, <2>4 DEF WellTx
  <2> QED BY <2>1, <2>5, WellStep
<1>5. ASSUME NEW t \in Threads, Commit(t) PROVE Well'
  <2>1. Staged(tx[t]) \subseteq Keys BY <1>0 DEF Staged, Written, WellTx, Tx
  <2>2. WellStore' BY <1>0, <1>5, <2>1 DEF Commit, Charge, WellStore
  <2>3. WellArrays' BY <1>0, <1>5 DEF Commit, Enter, Rest, WellArrays
  <2>4. tx[t].active BY <1>5 DEF Commit, Open
  <2>5. CASE /\ pc'[t] = 0 /\ todo'[t] = {} /\ tx'[t] = [tx[t] EXCEPT !.active = FALSE]
    <3>1. tx'[t] \in Tx /\ tx'[t].writes = tx[t].writes /\ tx'[t].deletes = tx[t].deletes
      BY <1>0, <2>5 DEF WellTx, Tx
    <3>2. WellTx(t)' BY <1>0, <2>5, <3>1 DEF WellTx, Written
    <3> QED BY <1>5, <2>2, <2>3, <3>2, CommitGoes, WellStep
  <2>6. CASE /\ pc'[t] \in 1..7 /\ todo'[t] \subseteq KeysOf(tx[t], pc'[t]) /\ todo'[t] # {}
             /\ tx'[t] = tx[t]
    <3>1. KeysOf(tx[t], pc'[t]) \subseteq Staged(tx[t]) BY DEF KeysOf, Staged
    <3>2. WellTx(t)' BY <1>0, <2>1, <2>4, <2>6, <3>1 DEF WellTx
    <3> QED BY <1>5, <2>2, <2>3, <3>2, CommitGoes, WellStep
  <2> QED BY <1>5, <2>5, <2>6, CommitGoes
<1>6. ASSUME NEW t \in Threads, Rest(t), WellStore',
             tx' = tx \/ tx' = [tx EXCEPT ![t] = [Fresh EXCEPT !.active = FALSE]]
      PROVE  Well'
  <2>1. Others(t) /\ WellArrays' /\ pc'[t] = 0 /\ todo'[t] = {}
    BY <1>0, <1>6 DEF Rest, Others, WellArrays
  <2>2. tx'[t] = tx[t] \/ tx'[t] = [Fresh EXCEPT !.active = FALSE]
    BY <1>0, <1>6 DEF WellArrays
  <2>3. tx'[t] \in Tx /\ Written(tx'[t]) \cap tx'[t].deletes = {}
    BY <1>0, <2>2, FreshTx DEF WellTx
  <2>4. WellTx(t)' BY <2>1, <2>3 DEF WellTx
  <2> QED BY <1>6, <2>1, <2>4, WellStep
<1>7. ASSUME NEW t \in Threads, Fail(t) PROVE Well'
  <2>1. Staged(tx[t]) \subseteq Keys /\ Docs(tx[t]) \subseteq Numbers
    BY <1>0 DEF Staged, Written, Docs, WellTx, Tx
  <2>2. WellStore' BY <1>0, <1>7, <2>1 DEF Fail, WellStore
  <2> QED BY <1>6, <1>7, <2>2 DEF Fail
<1>8. ASSUME NEW t \in Threads, NEW k \in Keys, CommitStep(t, k) PROVE Well'
  <2>1. CASE Check(t, k)
    <3>1. Docs(tx[t]) \subseteq Numbers BY <1>0 DEF Written, Docs, WellTx, Tx
    <3>2. WellStore' BY <1>0, <2>1, <3>1 DEF Check, WellStore
    <3>3. CASE row[k].ver = tx[t].reads[k].ver
      BY <2>1, <3>2, <3>3, WellAdvance DEF Check, At
    <3>4. CASE row[k].ver # tx[t].reads[k].ver
      BY <1>6, <2>1, <3>2, <3>4 DEF Check
    <3> QED BY <3>3, <3>4
  <2>2. ASSUME NEW phase, At(t, phase, k), Advance(t, k), WellStore' PROVE Well'
    BY <2>2, WellAdvance DEF At
  <2>3. 0 \in Numbers /\ tx[t].writes[k] \in Numbers
    BY <1>0, TransactionAssumption DEF Numbers, WellTx, Tx
  <2>4. \A u \in Threads : raced[u] \cup {k} \in SUBSET Keys /\ raced[u] \in SUBSET Keys
    BY <1>0 DEF WellStore
  <2>5. CASE DeleteIndex(t, k)
    <3>1. WellStore' BY <1>0, <2>3, <2>5 DEF DeleteIndex, WellStore
    <3> QED BY <2>2, <2>5, <3>1 DEF DeleteIndex
  <2>6. CASE DeleteRow(t, k)
    <3>1. Absent \in Doc BY <2>3 DEF Absent, Doc
    <3>2. row' \in [Keys -> Doc] BY <1>0, <2>6, <3>1 DEF DeleteRow, WellStore
    <3>3. WellStore' BY <1>0, <2>4, <2>6, <3>2 DEF DeleteRow, Races, WellStore
    <3> QED BY <2>2, <2>6, <3>3 DEF DeleteRow
  <2>7. CASE Upsert(t, k)
    <3>1. [num |-> tx[t].writes[k], ver |-> row[k].ver + 1] \in Doc
      BY <1>0, <2>3 DEF Doc, WellStore
    <3>2. row' \in [Keys -> Doc] BY <1>0, <2>7, <3>1 DEF Upsert, WellStore
    <3>3. WellStore' BY <1>0, <2>4, <2>7, <3>2 DEF Upsert, Races, WellStore
    <3> QED BY <2>2, <2>7, <3>3 DEF Upsert
  <2>8. CASE Index(t, k)
    <3>1. WellStore' BY <1>0, <2>3, <2>8 DEF Index, WellStore
    <3> QED BY <2>2, <2>8, <3>1 DEF Index
  <2>9. CASE L1Delete(t, k)
    <3>1. WellStore' BY <1>0, <2>3, <2>9 DEF L1Delete, WellStore
    <3> QED BY <2>2, <2>9, <3>1 DEF L1Delete
  <2>10. CASE L1Put(t, k)
    <3>1. WellStore' BY <1>0, <2>3, <2>10 DEF L1Put, WellStore
    <3> QED BY <2>2, <2>10, <3>1 DEF L1Put
  <2> QED BY <1>8, <2>1, <2>5, <2>6, <2>7, <2>8, <2>9, <2>10 DEF CommitStep
<1>9. ASSUME NEW k \in Keys, Evict(k) PROVE Well'
  <2>1. 0 \in Numbers BY TransactionAssumption DEF Numbers
  <2>2. WellStore' BY <1>0, <1>9, <2>1 DEF Evict, WellStore
  <2>3. UNCHANGED <<tx, pc, todo>> BY <1>9 DEF Evict
  <2> QED BY <1>0, <2>2, <2>3, SevenPhases DEF Well, TypeOK, WellStore
<1>10. CASE UNCHANGED vars BY <1>10 DEF vars, Well, TypeOK
<1>11. CASE Finished BY <1>10, <1>11 DEF Finished
<1> QED BY <1>1, <1>2, <1>3, <1>4, <1>5, <1>7, <1>8, <1>9, <1>10, <1>11 DEF Next

\* The first state is well formed.
LEMMA WellInit == Init => Well
<1>1. 0 \in Numbers /\ Absent \in Doc BY TransactionAssumption DEF Numbers, Absent, Doc
<1> QED BY <1>1, FreshTx, SevenPhases DEF Init, Well, TypeOK

\* TypeOK: a transaction stages a key as a write or as a delete, and commit handles what it
\* staged.
THEOREM TypeCorrect == Spec => []TypeOK
<1>1. Well => TypeOK BY DEF Well
<1> QED BY <1>1, WellInit, WellNext, PTL DEF Spec

-----------------------------------------------------------------------------
(* Rollback.                                                               *)

Holds(k, n) == n \in {row[k].num, idx[k], l1[k]}
StagedDoc(t, n) == n # 0 /\ \E k \in Keys : tx[t].writes[k] = n
NotYet(t) == tx[t].active /\ pc[t] \in {0, 1}

\* Documents are numbered once, so that one belongs to one transaction; until its
\* transaction writes, nothing shows it, unless an earlier commit of it raised.
Rollback ==
  /\ \A k \in Keys, n \in Nat : Holds(k, n) => n <= writes /\ n \notin rejected \ torn
  /\ \A n \in rejected : n # 0 /\ n <= writes
  /\ \A t \in Threads, n \in Nat :
       StagedDoc(t, n) => /\ n <= writes /\ n \notin rejected
                          /\ \A u \in Threads \ {t} : ~StagedDoc(u, n)
                          /\ NotYet(t) => \A k \in Keys : Holds(k, n) => n \in torn

\* Steps that neither show nor stage a document, or hide one.
LEMMA RollbackQuiet ==
  ASSUME Well, Rollback, UNCHANGED <<rejected, torn, writes>>,
         \A k \in Keys, n \in Nat : Holds(k, n)' => Holds(k, n) \/ n = 0,
         \A t \in Threads, n \in Nat :
           StagedDoc(t, n)' => StagedDoc(t, n) /\ (NotYet(t)' => NotYet(t))
  PROVE  Rollback'
<1>1. 0 \notin rejected /\ 0 <= writes
  BY TransactionAssumption DEF Rollback, Well, Numbers
<1>2. \A t \in Threads, n \in Nat : StagedDoc(t, n) => n # 0 BY DEF StagedDoc
<1>3. ASSUME NEW k \in Keys, NEW n \in Nat, Holds(k, n)'
      PROVE  n <= writes /\ n \notin rejected \ torn
  BY <1>1, <1>3 DEF Rollback
<1>4. ASSUME NEW t \in Threads, NEW n \in Nat, StagedDoc(t, n)'
      PROVE  /\ n <= writes /\ n \notin rejected
             /\ \A u \in Threads \ {t} : ~StagedDoc(u, n)'
             /\ NotYet(t)' => \A k \in Keys : Holds(k, n)' => n \in torn
  <2>1. StagedDoc(t, n) /\ n # 0 BY <1>2, <1>4
  <2> QED BY <1>4, <2>1 DEF Rollback
<1> QED BY <1>3, <1>4 DEF Rollback

\* Steps of a commit that write.
LEMMA RollbackPut ==
  ASSUME Well, Rollback, NEW t \in Threads, pc[t] \in 2..7, NEW k \in todo[t], Advance(t, k),
         UNCHANGED <<rejected, torn, writes>>,
         \A j \in Keys, n \in Nat : Holds(j, n)' => \/ Holds(j, n) \/ n = 0
                                                   \/ n = tx[t].writes[j]
  PROVE  Rollback'
<1>1. Others(t) /\ (Progress(t, k) \/ End(t, k)) BY AdvanceGoes
<1>2. tx[t] \in Tx /\ writes \in Nat BY TransactionAssumption DEF Well, TypeOK, Numbers
<1>3. tx'[t].writes = tx[t].writes /\ ~NotYet(t)'
  <2>1. CASE Progress(t, k) BY <2>1 DEF Progress, NotYet
  <2>2. CASE End(t, k) BY <1>2, <2>2 DEF End, NotYet, Tx
  <2> QED BY <1>1, <2>1, <2>2
<1>4. \A u \in Threads, n \in Nat : StagedDoc(u, n)' <=> StagedDoc(u, n)
  BY <1>1, <1>3 DEF StagedDoc, Others
<1>5. \A u \in Threads : NotYet(u)' => u # t /\ NotYet(u) BY <1>1, <1>3 DEF NotYet, Others
<1>6. ASSUME NEW j \in Keys, NEW n \in Nat, Holds(j, n)', ~Holds(j, n)
      PROVE  n = 0 \/ StagedDoc(t, n)
  BY <1>6 DEF StagedDoc
<1>7. 0 \notin rejected BY DEF Rollback
<1>8. ASSUME NEW j \in Keys, NEW n \in Nat, Holds(j, n)'
      PROVE  n <= writes /\ n \notin rejected \ torn
  BY <1>2, <1>6, <1>7, <1>8 DEF Rollback
<1>9. ASSUME NEW u \in Threads, NEW n \in Nat, StagedDoc(u, n)'
      PROVE  /\ n <= writes /\ n \notin rejected
             /\ \A v \in Threads \ {u} : ~StagedDoc(v, n)'
             /\ NotYet(u)' => \A j \in Keys : Holds(j, n)' => n \in torn
  <2>1. StagedDoc(u, n) BY <1>4, <1>9
  <2>2. /\ n <= writes /\ n \notin rejected
        /\ \A v \in Threads \ {u} : ~StagedDoc(v, n)'
    BY <1>4, <2>1 DEF Rollback
  <2>3. ASSUME NotYet(u)', NEW j \in Keys, Holds(j, n)' PROVE n \in torn
    <3>1. u # t /\ NotYet(u) BY <1>5, <2>3
    <3>2. ~StagedDoc(t, n) BY <2>1, <3>1 DEF Rollback
    <3>3. n # 0 BY <2>1 DEF StagedDoc
    <3>4. Holds(j, n) BY <1>6, <2>3, <3>2, <3>3
    <3> QED BY <2>1, <3>1, <3>4 DEF Rollback
  <2> QED BY <2>2, <2>3
<1> QED BY <1>7, <1>8, <1>9 DEF Rollback

\* Every step keeps it.
LEMMA RollbackNext == ASSUME Well, Rollback, [Next]_vars PROVE Rollback'
<1> USE DEF store, bounds, history
<1>0. /\ writes \in Nat /\ \A t \in Threads : WellTx(t)
      /\ row \in [Keys -> Doc] /\ idx \in [Keys -> Numbers] /\ l1 \in [Keys -> Numbers]
      /\ WellArrays
  BY WellParts, TransactionAssumption DEF WellStore, Numbers
<1>1. ASSUME UNCHANGED <<row, idx, l1, rejected, torn, writes>>,
             NEW t \in Threads, Others(t),
             \A n \in Nat : StagedDoc(t, n)' => StagedDoc(t, n) /\ (NotYet(t)' => NotYet(t))
      PROVE  Rollback'
  <2>1. \A k \in Keys, n \in Nat : Holds(k, n)' => Holds(k, n) BY <1>1 DEF Holds
  <2>2. \A u \in Threads \ {t} : \A n \in Nat :
           (StagedDoc(u, n)' <=> StagedDoc(u, n)) /\ (NotYet(u)' <=> NotYet(u))
    BY <1>1 DEF StagedDoc, NotYet, Others
  <2> QED BY <1>1, <2>1, <2>2, RollbackQuiet
<1>2. ASSUME NEW t \in Threads, Begin(t) PROVE Rollback'
  <2>1. Others(t) /\ UNCHANGED <<row, idx, l1, rejected, torn, writes>>
        /\ tx'[t] = Fresh
    BY <1>0, <1>2 DEF Begin, Charge, Others, WellArrays
  <2>2. \A n \in Nat : ~StagedDoc(t, n)' BY <2>1 DEF StagedDoc, Fresh
  <2> QED BY <1>1, <2>1, <2>2
<1>3. ASSUME NEW t \in Threads, NEW k \in Keys, TxSet(t, k) PROVE Rollback'
  <2>1. /\ Others(t) /\ UNCHANGED <<row, idx, l1, rejected, torn>> /\ writes' = writes + 1
        /\ tx'[t].writes = [tx[t].writes EXCEPT ![k] = writes']
        /\ tx'[t].active = tx[t].active /\ pc' = pc
    BY <1>0, <1>3 DEF TxSet, Others, WellArrays, WellTx, Tx
  <2>2. tx[t].writes \in [Keys -> Numbers] BY <1>0 DEF WellTx, Tx
  <2>3. \A n \in Nat : StagedDoc(t, n)' => n = writes' \/ StagedDoc(t, n)
    BY <2>1, <2>2 DEF StagedDoc
  <2>4. \A u \in Threads : \A n \in Nat : u # t => (StagedDoc(u, n)' <=> StagedDoc(u, n))
    BY <2>1 DEF StagedDoc, Others
  <2>5. \A u \in Threads : NotYet(u)' <=> NotYet(u) BY <2>1 DEF NotYet, Others
  <2>6. \A j \in Keys, n \in Nat : Holds(j, n)' <=> Holds(j, n) BY <2>1 DEF Holds
  <2>7. /\ writes' \notin rejected /\ \A j \in Keys : ~Holds(j, writes')
        /\ \A u \in Threads : ~StagedDoc(u, writes')
    BY <1>0, <2>1 DEF Rollback
  <2>8. ASSUME NEW u \in Threads, NEW n \in Nat, StagedDoc(u, n)'
        PROVE  /\ n <= writes' /\ n \notin rejected'
               /\ \A v \in Threads \ {u} : ~StagedDoc(v, n)'
               /\ NotYet(u)' => \A j \in Keys : Holds(j, n)' => n \in torn'
    <3>1. CASE n = writes'
      <4>1. u = t BY <2>4, <2>7, <2>8, <3>1
      <4> QED BY <1>0, <2>1, <2>4, <2>6, <2>7, <3>1, <4>1
    <3>2. CASE n # writes'
      <4>1. StagedDoc(u, n) BY <2>3, <2>4, <2>8, <3>2
      <4>2. \A v \in Threads \ {u} : ~StagedDoc(v, n)'
        BY <2>3, <2>4, <3>2, <4>1 DEF Rollback
      <4>3. n <= writes /\ n \notin rejected BY <4>1 DEF Rollback
      <4>4. NotYet(u)' => \A j \in Keys : Holds(j, n)' => n \in torn'
        BY <2>1, <2>5, <2>6, <4>1 DEF Rollback
      <4> QED BY <1>0, <2>1, <4>2, <4>3, <4>4
    <3> QED BY <3>1, <3>2
  <2>9. ASSUME NEW j \in Keys, NEW n \in Nat, Holds(j, n)'
        PROVE  n <= writes' /\ n \notin rejected' \ torn'
    <3>1. n <= writes /\ n \notin rejected \ torn BY <2>6, <2>9 DEF Rollback
    <3> QED BY <1>0, <2>1, <3>1
  <2>10. ASSUME NEW n \in rejected' PROVE n # 0 /\ n <= writes'
    <3>1. n \in Nat BY <2>1, <2>10, TransactionAssumption DEF Well, TypeOK, Numbers
    <3>2. n # 0 /\ n <= writes BY <2>1, <2>10 DEF Rollback
    <3> QED BY <1>0, <2>1, <3>1, <3>2
  <2> QED BY <2>8, <2>9, <2>10 DEF Rollback
<1>4. ASSUME NEW t \in Threads, NEW k \in Keys, TxDelete(t, k) PROVE Rollback'
  <2>1. /\ Others(t) /\ UNCHANGED <<row, idx, l1, rejected, torn, writes>>
        /\ tx'[t].writes = [tx[t].writes EXCEPT ![k] = 0]
        /\ tx'[t].active = tx[t].active /\ pc' = pc
    BY <1>0, <1>4 DEF TxDelete, Charge, Others, WellArrays, WellTx, Tx
  <2>2. tx[t].writes \in [Keys -> Numbers] BY <1>0 DEF WellTx, Tx
  <2>3. \A n \in Nat : StagedDoc(t, n)' => StagedDoc(t, n) BY <2>1, <2>2 DEF StagedDoc
  <2> QED BY <1>1, <2>1, <2>3 DEF NotYet
<1>5. ASSUME NEW t \in Threads, NEW k \in Keys, TxGet(t, k) PROVE Rollback'
  <2>1. /\ Others(t) /\ UNCHANGED <<row, idx, l1, rejected, torn, writes>>
        /\ tx'[t].writes = tx[t].writes /\ tx'[t].active = tx[t].active /\ pc' = pc
    BY <1>0, <1>5 DEF TxGet, Charge, Others, WellArrays, WellTx, Tx
  <2> QED BY <1>1, <2>1 DEF StagedDoc, NotYet
<1>6. ASSUME NEW t \in Threads, Commit(t) PROVE Rollback'
  <2>1. Others(t) /\ UNCHANGED <<row, idx, l1, rejected, torn, writes>> /\ NotYet(t)
    BY <1>6, CommitGoes DEF Commit, Charge, Open, NotYet
  <2>2. tx'[t].writes = tx[t].writes BY <1>0, <1>6, CommitGoes DEF WellTx, Tx
  <2> QED BY <1>1, <2>1, <2>2 DEF StagedDoc
<1>7. ASSUME NEW t \in Threads, Fail(t) PROVE Rollback'
  <2>1. /\ Others(t) /\ UNCHANGED <<row, idx, l1, rejected, writes, tx>>
        /\ torn' = torn \cup Docs(tx[t])
    BY <1>0, <1>7 DEF Fail, Rest, Others, WellArrays
  <2>2. \A n \in Nat : StagedDoc(t, n) => n \in Docs(tx[t])
    BY DEF StagedDoc, Docs, Written
  <2>3. /\ \A j \in Keys, n \in Nat : Holds(j, n)' <=> Holds(j, n)
        /\ \A u \in Threads, n \in Nat : StagedDoc(u, n)' <=> StagedDoc(u, n)
    BY <2>1 DEF Holds, StagedDoc
  <2>4. \A u \in Threads \ {t} : NotYet(u)' <=> NotYet(u) BY <2>1 DEF NotYet, Others
  <2>5. \A n \in torn : n \in torn' BY <2>1
  <2> QED BY <2>1, <2>2, <2>3, <2>4, <2>5 DEF Rollback
<1>8. ASSUME NEW t \in Threads, NEW k \in Keys, Check(t, k) PROVE Rollback'
  <2>0. pc[t] = 1 /\ k \in todo[t] /\ NotYet(t)
    BY <1>0, <1>8, SevenPhases DEF Check, At, NotYet, WellTx
  <2>1. CASE row[k].ver = tx[t].reads[k].ver
    <3>1. /\ Others(t) /\ (Progress(t, k) \/ End(t, k))
          /\ UNCHANGED <<row, idx, l1, rejected, torn, writes>>
      BY <1>8, <2>0, <2>1, AdvanceGoes DEF Check
    <3>2. tx'[t].writes = tx[t].writes BY <1>0, <3>1 DEF Progress, End, WellTx, Tx
    <3> QED BY <1>1, <2>0, <3>1, <3>2 DEF StagedDoc
  <2>2. CASE row[k].ver # tx[t].reads[k].ver
    <3>1. /\ Others(t) /\ UNCHANGED <<row, idx, l1, torn, writes>>
          /\ rejected' = rejected \cup Docs(tx[t])
          /\ tx'[t] = [Fresh EXCEPT !.active = FALSE]
      BY <1>0, <1>8, <2>2 DEF Check, Rest, Others, WellArrays
    <3>2. \A n \in Nat : n \in Docs(tx[t]) <=> StagedDoc(t, n)
      BY DEF StagedDoc, Docs, Written
    <3>3. Docs(tx[t]) \subseteq Nat
      BY <1>0, TransactionAssumption DEF Docs, Written, WellTx, Tx, Numbers
    <3>4. \A j \in Keys, n \in Nat : Holds(j, n)' <=> Holds(j, n) BY <3>1 DEF Holds
    <3>5. \A n \in Nat : ~StagedDoc(t, n)' BY <3>1 DEF StagedDoc, Fresh
    <3>6. \A u \in Threads \ {t} : \A n \in Nat : /\ StagedDoc(u, n)' <=> StagedDoc(u, n)
                                                  /\ NotYet(u)' <=> NotYet(u)
      BY <3>1 DEF StagedDoc, NotYet, Others
    <3>7. \A n \in Docs(tx[t]) : n # 0 /\ n <= writes BY <3>2, <3>3 DEF Rollback, StagedDoc
    <3>8. ASSUME NEW j \in Keys, NEW n \in Nat, Holds(j, n)'
          PROVE  n <= writes /\ n \notin rejected' \ torn
      BY <2>0, <3>1, <3>2, <3>4, <3>8 DEF Rollback
    <3>9. ASSUME NEW u \in Threads, NEW n \in Nat, StagedDoc(u, n)'
          PROVE  /\ n <= writes /\ n \notin rejected'
                 /\ \A v \in Threads \ {u} : ~StagedDoc(v, n)'
                 /\ NotYet(u)' => \A j \in Keys : Holds(j, n)' => n \in torn
      <4>1. u # t /\ StagedDoc(u, n) BY <3>5, <3>6, <3>9
      <4>2. ~StagedDoc(t, n) BY <4>1 DEF Rollback
      <4>3. n \notin rejected' BY <3>1, <3>2, <4>1, <4>2 DEF Rollback
      <4>4. \A v \in Threads \ {u} : ~StagedDoc(v, n)'
        BY <3>5, <3>6, <4>1 DEF Rollback
      <4> QED BY <3>4, <3>6, <4>1, <4>3, <4>4 DEF Rollback
    <3>10. \A n \in rejected' : n # 0 /\ n <= writes BY <3>1, <3>7 DEF Rollback
    <3> QED BY <3>1, <3>8, <3>9, <3>10 DEF Rollback
  <2> QED BY <2>1, <2>2
<1>9. ASSUME NEW t \in Threads, NEW k \in Keys,
             \/ DeleteIndex(t, k) \/ DeleteRow(t, k) \/ Upsert(t, k) \/ Index(t, k)
             \/ L1Delete(t, k) \/ L1Put(t, k)
      PROVE  Rollback'
  <2>1. pc[t] \in 2..7 /\ k \in todo[t] /\ Advance(t, k)
        /\ UNCHANGED <<rejected, torn, writes>>
    BY <1>0, <1>9, SevenPhases DEF DeleteIndex, DeleteRow, Upsert, Index, L1Delete, L1Put,
                                   At, WellTx
  <2>2. \A j \in Keys : row'[j].num \in {row[j].num, 0, tx[t].writes[j]}
    BY <1>0, <1>9 DEF DeleteIndex, DeleteRow, Upsert, Index, L1Delete, L1Put, Absent
  <2>3. \A j \in Keys : idx'[j] \in {idx[j], 0, tx[t].writes[j]}
    BY <1>0, <1>9 DEF DeleteIndex, DeleteRow, Upsert, Index, L1Delete, L1Put
  <2>4. \A j \in Keys : l1'[j] \in {l1[j], 0, tx[t].writes[j]}
    BY <1>0, <1>9 DEF DeleteIndex, DeleteRow, Upsert, Index, L1Delete, L1Put
  <2>5. \A j \in Keys, n \in Nat : Holds(j, n)' => \/ Holds(j, n) \/ n = 0
                                                  \/ n = tx[t].writes[j]
    BY <2>2, <2>3, <2>4 DEF Holds
  <2> QED BY <2>1, <2>5, RollbackPut
<1>10. ASSUME NEW k \in Keys, Evict(k) PROVE Rollback'
  <2>1. /\ UNCHANGED <<rejected, torn, writes, tx, pc, row, idx>>
        /\ \A j \in Keys : l1'[j] \in {l1[j], 0}
    BY <1>0, <1>10 DEF Evict
  <2>2. \A j \in Keys, n \in Nat : Holds(j, n)' => Holds(j, n) \/ n = 0
    BY <2>1 DEF Holds
  <2> QED BY <2>1, <2>2, RollbackQuiet DEF StagedDoc, NotYet
<1>11. CASE UNCHANGED vars \/ Finished
  <2>1. UNCHANGED vars BY <1>11 DEF Finished
  <2> QED BY <2>1, RollbackQuiet DEF vars, Holds, StagedDoc, NotYet
<1> QED BY <1>2, <1>3, <1>4, <1>5, <1>6, <1>7, <1>8, <1>9, <1>10, <1>11
        DEF Next, CommitStep

\* A transaction that commit() rolls back on a conflict leaves nothing behind, in rows, index
\* or L1, unless an earlier commit of it raised halfway.
THEOREM RejectedLeavesNothingAlways == Spec => []RejectedLeavesNothing
<1>1. Init => Rollback
  <2> SUFFICES ASSUME Init PROVE Rollback OBVIOUS
  <2>1. \A k \in Keys, n \in Nat : Holds(k, n) => n = 0 BY DEF Init, Holds, Absent
  <2>2. \A t \in Threads, n \in Nat : ~StagedDoc(t, n) BY DEF Init, StagedDoc, Fresh
  <2> QED BY <2>1, <2>2 DEF Init, Rollback
<1>2. Well /\ Rollback /\ [Next]_vars => Well' /\ Rollback' BY WellNext, RollbackNext
<1>3. Well /\ Rollback => RejectedLeavesNothing
  <2> SUFFICES ASSUME Well, Rollback, NEW k \in Keys
               PROVE  {row[k].num, idx[k], l1[k]} \cap (rejected \ torn) = {}
    BY DEF RejectedLeavesNothing
  <2>1. {row[k].num, idx[k], l1[k]} \subseteq Nat
    BY TransactionAssumption DEF Well, TypeOK, Doc, Numbers
  <2> QED BY <2>1 DEF Rollback, Holds
<1> QED BY <1>1, <1>2, <1>3, WellInit, PTL DEF Spec

-----------------------------------------------------------------------------
(* What a commit has done to the keys that it stages, phase by phase.      *)

Agreed(k) == /\ idx[k] = row[k].num /\ l1[k] \in {0, row[k].num}
             /\ row[k].num # 0 => k \in bloom
Busy(t, k) == pc[t] # 0 /\ k \in Staged(tx[t])
WrittenSoFar(t, k) ==
  /\ Done(t, k, 4) => row[k].num = tx[t].writes[k]
  /\ Done(t, k, 5) => idx[k] = tx[t].writes[k]
  /\ Done(t, k, 7) => l1[k] \in {0, tx[t].writes[k]} /\ k \in bloom
DeletedSoFar(t, k) == /\ Done(t, k, 2) => idx[k] = 0
                      /\ Done(t, k, 3) => row[k].num = 0
                      /\ Done(t, k, 6) => l1[k] = 0
SoFar(t, k) == /\ pc[t] = 1 => Agreed(k)
               /\ k \in Written(tx[t]) => WrittenSoFar(t, k)
               /\ k \in tx[t].deletes => DeletedSoFar(t, k)

\* A key that two commits have not handled at once is either settled, or in the hands of
\* one commit, which has done to it what its phases so far do.
Agreement ==
  \A k \in Keys \ crossed :
    /\ (\A t \in Threads : ~Busy(t, k)) => Agreed(k)
    /\ \A t \in Threads :
         Busy(t, k) => SoFar(t, k) /\ \A u \in Threads \ {t} : ~Busy(u, k)

\* A key that a step of t leaves alone, and that t has not in hand before or after it.
LEMMA AgreementElsewhere ==
  ASSUME Well, Agreement, NEW t \in Threads, Others(t), NEW k \in Keys \ crossed,
         ~Busy(t, k), ~Busy(t, k)',
         row'[k] = row[k], idx'[k] = idx[k], l1'[k] \in {0, l1[k]}, k \in bloom => k \in bloom'
  PROVE  /\ (\A u \in Threads : ~Busy(u, k)') => Agreed(k)'
         /\ \A u \in Threads :
              Busy(u, k)' => SoFar(u, k)' /\ \A v \in Threads \ {u} : ~Busy(v, k)'
<1>1. \A u \in Threads : Busy(u, k)' <=> Busy(u, k) BY DEF Busy, Others
<1>2. Agreed(k) => Agreed(k)' BY DEF Agreed
<1>3. ASSUME NEW u \in Threads, Busy(u, k) PROVE SoFar(u, k)'
  <2>1. u # t /\ SoFar(u, k) BY <1>3 DEF Agreement
  <2>2. pc'[u] = pc[u] /\ tx'[u] = tx[u] /\ todo'[u] = todo[u] BY <2>1 DEF Others
  <2>3. /\ \A i \in 1..7 : Done(u, k, i)' <=> Done(u, k, i)
        /\ k \in Written(tx'[u]) <=> k \in Written(tx[u])
    BY <2>2 DEF Done, Written
  <2>4. k \in Written(tx'[u]) => WrittenSoFar(u, k)'
    BY <2>1, <2>2, <2>3 DEF SoFar, WrittenSoFar
  <2>5. k \in tx'[u].deletes => DeletedSoFar(u, k)'
    BY <2>1, <2>2, <2>3 DEF SoFar, DeletedSoFar
  <2> QED BY <1>2, <2>1, <2>2, <2>4, <2>5 DEF SoFar
<1> QED BY <1>1, <1>2, <1>3 DEF Agreement


\* A step that handles k in a phase of t's commit, with what the phases do to k.
LEMMA AgreementHandled ==
  ASSUME Well, Agreement, NEW t \in Threads, pc[t] # 0, NEW k \in todo[t], Advance(t, k),
         crossed' = crossed, bloom \subseteq bloom',
         \A j \in Keys \ {k} : row'[j] = row[j] /\ idx'[j] = idx[j] /\ l1'[j] = l1[j],
         pc[t] \notin {3, 4} => row'[k] = row[k],
         pc[t] \notin {2, 5} => idx'[k] = idx[k],
         pc[t] \notin {6, 7} => l1'[k] = l1[k],
         pc[t] = 2 => idx'[k] = 0, pc[t] = 3 => row'[k].num = 0,
         pc[t] = 4 => row'[k].num = tx[t].writes[k],
         pc[t] = 5 => idx'[k] = tx[t].writes[k],
         pc[t] = 6 => l1'[k] = 0,
         pc[t] = 7 => l1'[k] = tx[t].writes[k] /\ k \in bloom'
  PROVE  Agreement'
<1>0. WellTx(t) /\ pc[t] \in 1..7 BY WellParts DEF WellTx
<1>1. Others(t) /\ (Progress(t, k) \/ End(t, k)) BY AdvanceGoes
<1>2. /\ tx'[t].writes = tx[t].writes /\ tx'[t].deletes = tx[t].deletes
      /\ pc'[t] # 0 => tx'[t] = tx[t]
  BY <1>0, <1>1 DEF Progress, End, WellTx, Tx
<1>3. Written(tx'[t]) = Written(tx[t]) /\ Staged(tx'[t]) = Staged(tx[t])
  BY <1>2 DEF Written, Staged
<1>4. /\ k \in Written(tx[t]) => pc[t] \in {1, 4, 5, 7}
      /\ k \in tx[t].deletes => pc[t] \in {1, 2, 3, 6}
  BY <1>0, PhaseKeys DEF WellTx
<1>5. ASSUME NEW j \in Keys \ crossed, ~Busy(t, j)
      PROVE  /\ (\A u \in Threads : ~Busy(u, j)') => Agreed(j)'
             /\ \A u \in Threads :
                  Busy(u, j)' => SoFar(u, j)' /\ \A v \in Threads \ {u} : ~Busy(v, j)'
  <2>1. j \notin Staged(tx[t]) BY <1>0, <1>5 DEF Busy
  <2>2. j # k BY <1>0, <2>1 DEF WellTx
  <2>3. ~Busy(t, j)' BY <1>3, <2>1 DEF Busy
  <2> QED BY <1>1, <1>5, <2>2, <2>3, AgreementElsewhere
<1>6. ASSUME NEW j \in Keys \ crossed, Busy(t, j)
      PROVE  /\ (\A u \in Threads : ~Busy(u, j)') => Agreed(j)'
             /\ \A u \in Threads :
                  Busy(u, j)' => SoFar(u, j)' /\ \A v \in Threads \ {u} : ~Busy(v, j)'
  <2>1. SoFar(t, j) /\ \A u \in Threads \ {t} : ~Busy(u, j) BY <1>6 DEF Agreement
  <2>2. \A u \in Threads \ {t} : ~Busy(u, j)' BY <1>1, <2>1 DEF Busy, Others
  <2>3. ASSUME j \in Written(tx[t])
        PROVE  /\ Done(t, j, 4) \/ (j = k /\ pc[t] = 4) => row'[j].num = tx[t].writes[j]
               /\ Done(t, j, 5) \/ (j = k /\ pc[t] = 5) => idx'[j] = tx[t].writes[j]
               /\ Done(t, j, 7) \/ (j = k /\ pc[t] = 7)
                    => l1'[j] \in {0, tx[t].writes[j]} /\ j \in bloom'
    BY <1>4, <2>1, <2>3 DEF SoFar, WrittenSoFar
  <2>4. ASSUME j \in tx[t].deletes
        PROVE  /\ Done(t, j, 2) \/ (j = k /\ pc[t] = 2) => idx'[j] = 0
               /\ Done(t, j, 3) \/ (j = k /\ pc[t] = 3) => row'[j].num = 0
               /\ Done(t, j, 6) \/ (j = k /\ pc[t] = 6) => l1'[j] = 0
    BY <1>4, <2>1, <2>4 DEF SoFar, DeletedSoFar
  <2>5. /\ j \in Written(tx[t]) => j \in KeysOf(tx[t], 4) /\ j \in KeysOf(tx[t], 5)
                                   /\ j \in KeysOf(tx[t], 7)
        /\ j \in tx[t].deletes => j \in KeysOf(tx[t], 2) /\ j \in KeysOf(tx[t], 3)
                                  /\ j \in KeysOf(tx[t], 6)
    BY PhaseKeys
  <2>6. CASE Progress(t, k)
    <3>1. /\ pc'[t] \in pc[t]..7 /\ tx'[t] = tx[t]
          /\ \A i \in 1..7 : \A y \in KeysOf(tx[t], i) :
               Done(t, y, i)' <=> Done(t, y, i) \/ (y = k /\ i = pc[t])
      BY <2>6 DEF Progress
    <3>2. pc'[t] = 1 => Agreed(j)'
      <4> SUFFICES ASSUME pc'[t] = 1 PROVE Agreed(j)' OBVIOUS
      <4>1. pc[t] = 1 BY <1>0, <3>1
      <4>2. row'[j] = row[j] /\ idx'[j] = idx[j] /\ l1'[j] = l1[j] BY <4>1
      <4> QED BY <2>1, <4>1, <4>2 DEF Agreed, SoFar
    <3>3. j \in Written(tx[t]) => WrittenSoFar(t, j)'
      BY <2>3, <2>5, <3>1 DEF WrittenSoFar
    <3>4. j \in tx[t].deletes => DeletedSoFar(t, j)'
      BY <2>4, <2>5, <3>1 DEF DeletedSoFar
    <3>5. SoFar(t, j)' BY <1>3, <3>1, <3>2, <3>3, <3>4 DEF SoFar
    <3>6. Busy(t, j)' BY <1>0, <1>3, <1>6, <3>1 DEF Busy
    <3> QED BY <2>2, <3>5, <3>6
  <2>7. CASE End(t, k)
    <3>1. /\ pc'[t] = 0
          /\ \A i \in 1..7 : \A y \in KeysOf(tx[t], i) : Done(t, y, i) \/ (y = k /\ i = pc[t])
      BY <2>7 DEF End
    <3>2. ~Busy(t, j)' BY <3>1 DEF Busy
    <3>3. CASE j \in Written(tx[t])
      <4>1. row'[j].num = tx[t].writes[j] /\ idx'[j] = tx[t].writes[j]
            /\ l1'[j] \in {0, tx[t].writes[j]} /\ j \in bloom'
        BY <2>3, <2>5, <3>1, <3>3
      <4> QED BY <2>2, <3>2, <4>1 DEF Agreed
    <3>4. CASE j \in tx[t].deletes
      <4>1. row'[j].num = 0 /\ idx'[j] = 0 /\ l1'[j] = 0
        BY <2>4, <2>5, <3>1, <3>4
      <4> QED BY <2>2, <3>2, <4>1 DEF Agreed
    <3> QED BY <1>6, <3>3, <3>4 DEF Busy, Staged
  <2> QED BY <1>1, <2>6, <2>7
<1> QED BY <1>5, <1>6 DEF Agreement

\* Every step keeps it.
LEMMA AgreementNext == ASSUME Well, Agreement, [Next]_vars PROVE Agreement'
<1> USE DEF store, bounds, history
<1>0. WellStore /\ WellArrays /\ \A t \in Threads : WellTx(t) BY WellParts
<1>1. ASSUME NEW t \in Threads, Others(t), crossed \subseteq crossed',
             \A j \in Keys \ crossed' : ~Busy(t, j) /\ ~Busy(t, j)',
             \A j \in Keys : /\ row'[j] = row[j] /\ idx'[j] = idx[j]
                             /\ l1'[j] \in {0, l1[j]} /\ (j \in bloom => j \in bloom')
      PROVE  Agreement'
  <2> SUFFICES ASSUME NEW j \in Keys \ crossed'
               PROVE  /\ (\A u \in Threads : ~Busy(u, j)') => Agreed(j)'
                      /\ \A u \in Threads :
                           Busy(u, j)' => SoFar(u, j)' /\ \A v \in Threads \ {u} : ~Busy(v, j)'
    BY DEF Agreement
  <2>1. j \in Keys \ crossed BY <1>1
  <2> QED BY <1>1, <2>1, AgreementElsewhere
<1>2. ASSUME NEW t \in Threads, pc[t] = 0, pc'[t] = 0, Others(t),
             UNCHANGED <<row, idx, l1, bloom, crossed>>
      PROVE  Agreement'
  <2>1. \A j \in Keys : ~Busy(t, j) /\ ~Busy(t, j)' BY <1>2 DEF Busy
  <2>2. \A j \in Keys : /\ row'[j] = row[j] /\ idx'[j] = idx[j]
                        /\ l1'[j] \in {0, l1[j]} /\ (j \in bloom => j \in bloom')
    BY <1>2
  <2> QED BY <1>1, <1>2, <2>1, <2>2
<1>3. ASSUME NEW t \in Threads, Begin(t) PROVE Agreement'
  BY <1>0, <1>2, <1>3 DEF Begin, Others, WellArrays
<1>4. ASSUME NEW t \in Threads, NEW k \in Keys, TxSet(t, k) \/ TxDelete(t, k) \/ TxGet(t, k)
      PROVE  Agreement'
  BY <1>0, <1>2, <1>4 DEF TxSet, TxDelete, TxGet, Open, Others, WellArrays
<1>5. ASSUME NEW t \in Threads, Commit(t) PROVE Agreement'
  <2>1. /\ pc[t] = 0 /\ UNCHANGED <<row, idx, l1, bloom>>
        /\ crossed' = crossed \cup {k \in Staged(tx[t]) :
                                      \E u \in Threads \ {t} : Busy(u, k)}
    BY <1>5 DEF Commit, Open, Busy
  <2>2. CASE pc'[t] = 0 /\ Staged(tx[t]) = {}
    <3>1. crossed' = crossed BY <2>1, <2>2
    <3> QED BY <1>2, <1>5, <2>1, <2>2, <3>1, CommitGoes
  <2>3. CASE /\ pc'[t] \in 1..7 /\ tx'[t] = tx[t]
             /\ \A i \in 1..7 : \A y \in KeysOf(tx[t], i) : ~Done(t, y, i)'
    <3>1. Others(t) BY <1>5, CommitGoes
    <3>2. SUFFICES ASSUME NEW j \in Keys \ crossed'
                   PROVE  /\ (\A u \in Threads : ~Busy(u, j)') => Agreed(j)'
                          /\ \A u \in Threads : Busy(u, j)' =>
                               SoFar(u, j)' /\ \A v \in Threads \ {u} : ~Busy(v, j)'
      BY DEF Agreement
    <3>3. j \in Keys \ crossed /\ ~Busy(t, j) BY <2>1 DEF Busy
    <3>4. CASE j \notin Staged(tx[t])
      <4>1. ~Busy(t, j)' BY <2>3, <3>4 DEF Busy
      <4> QED BY <2>1, <3>1, <3>3, <4>1, AgreementElsewhere
    <3>5. CASE j \in Staged(tx[t])
      <4>1. \A u \in Threads \ {t} : ~Busy(u, j) BY <2>1, <3>2, <3>5
      <4>2. \A u \in Threads \ {t} : ~Busy(u, j)' BY <3>1, <4>1 DEF Busy, Others
      <4>3. Agreed(j) BY <3>3, <4>1 DEF Agreement
      <4>4. Agreed(j)' BY <2>1, <4>3 DEF Agreed
      <4>5. j \in Written(tx'[t]) => WrittenSoFar(t, j)'
        BY <2>3, PhaseKeys DEF WrittenSoFar
      <4>6. j \in tx'[t].deletes => DeletedSoFar(t, j)'
        BY <2>3, PhaseKeys DEF DeletedSoFar
      <4>7. SoFar(t, j)' BY <4>4, <4>5, <4>6 DEF SoFar
      <4> QED BY <4>2, <4>4, <4>7
    <3> QED BY <3>4, <3>5
  <2> QED BY <1>5, <2>2, <2>3, CommitGoes
<1>6. ASSUME NEW t \in Threads, Fail(t) PROVE Agreement'
  <2>1. /\ Others(t) /\ UNCHANGED <<row, idx, l1, bloom>> /\ pc'[t] = 0
        /\ crossed' = crossed \cup Staged(tx[t])
    BY <1>0, <1>6 DEF Fail, Rest, Others, WellArrays
  <2>2. \A j \in Keys \ crossed' : ~Busy(t, j) /\ ~Busy(t, j)' BY <2>1 DEF Busy
  <2>3. \A j \in Keys : /\ row'[j] = row[j] /\ idx'[j] = idx[j]
                        /\ l1'[j] \in {0, l1[j]} /\ (j \in bloom => j \in bloom')
    BY <2>1
  <2> QED BY <1>1, <2>1, <2>2, <2>3
<1>7. ASSUME NEW t \in Threads, NEW k \in Keys, Check(t, k) PROVE Agreement'
  <2>1. /\ pc[t] = 1 /\ k \in todo[t] /\ UNCHANGED <<row, idx, l1, bloom, crossed>>
    BY <1>0, <1>7, SevenPhases DEF Check, At, WellTx
  <2>2. CASE row[k].ver = tx[t].reads[k].ver
    BY <1>7, <2>1, <2>2, AgreementHandled DEF Check
  <2>3. CASE row[k].ver # tx[t].reads[k].ver
    <3>1. Others(t) /\ pc'[t] = 0 /\ tx'[t] = [Fresh EXCEPT !.active = FALSE]
      BY <1>0, <1>7, <2>3 DEF Check, Rest, Others, WellArrays
    <3> SUFFICES ASSUME NEW j \in Keys \ crossed
                 PROVE  /\ (\A u \in Threads : ~Busy(u, j)') => Agreed(j)'
                        /\ \A u \in Threads : Busy(u, j)' =>
                             SoFar(u, j)' /\ \A v \in Threads \ {u} : ~Busy(v, j)'
      BY <2>1 DEF Agreement
    <3>2. ~Busy(t, j)' BY <3>1 DEF Busy
    <3>3. CASE Busy(t, j)
      <4>1. Agreed(j) /\ \A u \in Threads \ {t} : ~Busy(u, j)
        BY <2>1, <3>3 DEF Agreement, SoFar
      <4>2. \A u \in Threads : ~Busy(u, j)' BY <3>1, <3>2, <4>1 DEF Busy, Others
      <4> QED BY <2>1, <4>1, <4>2 DEF Agreed
    <3>4. CASE ~Busy(t, j)
      BY <2>1, <3>1, <3>2, <3>4, AgreementElsewhere
    <3> QED BY <3>3, <3>4
  <2> QED BY <2>2, <2>3
<1>8. ASSUME NEW t \in Threads, NEW k \in Keys, DeleteIndex(t, k) PROVE Agreement'
  <2>1. pc[t] = 2 BY <1>0, <1>8, SevenPhases DEF DeleteIndex, At, WellTx
  <2> QED BY <1>0, <1>8, <2>1, AgreementHandled DEF DeleteIndex, At, WellStore
<1>9. ASSUME NEW t \in Threads, NEW k \in Keys, DeleteRow(t, k) PROVE Agreement'
  <2>1. pc[t] = 3 BY <1>0, <1>9, SevenPhases DEF DeleteRow, At, WellTx
  <2> QED BY <1>0, <1>9, <2>1, AgreementHandled DEF DeleteRow, At, WellStore, Absent
<1>10. ASSUME NEW t \in Threads, NEW k \in Keys, Upsert(t, k) PROVE Agreement'
  <2>1. pc[t] = 4 BY <1>0, <1>10, SevenPhases DEF Upsert, At, WellTx
  <2>2. row'[k].num = tx[t].writes[k] /\ \A j \in Keys \ {k} : row'[j] = row[j]
    BY <1>0, <1>10 DEF Upsert, WellStore
  <2> QED BY <1>10, <2>1, <2>2, AgreementHandled DEF Upsert, At
<1>11. ASSUME NEW t \in Threads, NEW k \in Keys, Index(t, k) PROVE Agreement'
  <2>1. pc[t] = 5 BY <1>0, <1>11, SevenPhases DEF Index, At, WellTx
  <2> QED BY <1>0, <1>11, <2>1, AgreementHandled DEF Index, At, WellStore
<1>12. ASSUME NEW t \in Threads, NEW k \in Keys, L1Delete(t, k) PROVE Agreement'
  <2>1. pc[t] = 6 BY <1>0, <1>12, SevenPhases DEF L1Delete, At, WellTx
  <2> QED BY <1>0, <1>12, <2>1, AgreementHandled DEF L1Delete, At, WellStore
<1>13. ASSUME NEW t \in Threads, NEW k \in Keys, L1Put(t, k) PROVE Agreement'
  <2>1. pc[t] = 7 BY <1>0, <1>13, SevenPhases DEF L1Put, At, WellTx
  <2> QED BY <1>0, <1>13, <2>1, AgreementHandled DEF L1Put, At, WellStore
<1>14. ASSUME UNCHANGED <<row, idx, bloom, tx, pc, todo, crossed>>,
              \A j \in Keys : l1'[j] \in {0, l1[j]}
       PROVE  Agreement'
  <2>1. \A t \in Threads, j \in Keys : Busy(t, j)' <=> Busy(t, j) BY <1>14 DEF Busy
  <2>2. \A j \in Keys : Agreed(j) => Agreed(j)' BY <1>14 DEF Agreed
  <2>3. \A t \in Threads, j \in Keys : SoFar(t, j) => SoFar(t, j)'
    BY <1>14, <2>2 DEF SoFar, WrittenSoFar, DeletedSoFar, Done
  <2> QED BY <1>14, <2>1, <2>2, <2>3 DEF Agreement
<1>15. ASSUME NEW k \in Keys, Evict(k) PROVE Agreement'
  BY <1>0, <1>14, <1>15 DEF Evict, WellStore
<1>16. CASE UNCHANGED vars \/ Finished
  <2>1. UNCHANGED vars BY <1>16 DEF Finished
  <2> QED BY <1>14, <2>1 DEF vars
<1> QED BY <1>3, <1>4, <1>5, <1>6, <1>7, <1>8, <1>9, <1>10, <1>11, <1>12, <1>13, <1>15, <1>16
        DEF Next, CommitStep

\* Between the commits on a key its row, index entry, filter bit and L1 entry agree, unless
\* two commits on it overlapped or one raised halfway.
THEOREM CommittedAgreeAlways == Spec => []CommittedAgree
<1>1. Init => Agreement
  <2> SUFFICES ASSUME Init PROVE Agreement OBVIOUS
  <2>1. \A k \in Keys : Agreed(k) BY DEF Init, Agreed, Absent
  <2>2. \A t \in Threads, k \in Keys : ~Busy(t, k) BY DEF Init, Busy
  <2> QED BY <2>1, <2>2 DEF Agreement
<1>2. Well /\ Agreement /\ [Next]_vars => Well' /\ Agreement' BY WellNext, AgreementNext
<1>3. Agreement => CommittedAgree BY DEF Agreement, CommittedAgree, Agreed, Busy
<1> QED BY <1>1, <1>2, <1>3, WellInit, PTL DEF Spec


-----------------------------------------------------------------------------
(* What a transaction has read and a later change of the row.              *)

\* t has compared the version of k, if it has one to compare, and has yet to change the row.
Compared(t, k) == /\ pc[t] # 0 /\ k \in Staged(tx[t]) /\ Done(t, k, 1)
                  /\ k \in tx[t].deletes => ~Done(t, k, 3)
                  /\ k \in Written(tx[t]) => ~Done(t, k, 4)

\* A version that was compared still stands, unless the race was recorded.
Unmoved == \A t \in Threads, k \in Keys :
             Compared(t, k) /\ tx[t].reads[k].ver > 0 /\ k \notin raced[t]
               => row[k].ver = tx[t].reads[k].ver
\* Versions of a key that is never deleted go up: a version names a document.
Rising == /\ \A t \in Threads : tx[t].deletes \subseteq Deletable
          /\ \A t \in Threads, k \in Keys \ Deletable :
               tx[t].reads[k].ver > 0
                 => \/ row[k].ver > tx[t].reads[k].ver
                    \/ row[k] = tx[t].reads[k]

\* Compared is the window in which the model records a race.
LEMMA ComparedIsWindow ==
  ASSUME Well, NEW t \in Threads, NEW k \in Keys, Compared(t, k)
  PROVE  InWindow(t, k)
<1>1. /\ pc[t] \in 1..7 /\ todo[t] \subseteq KeysOf(tx[t], pc[t])
      /\ Written(tx[t]) \cap tx[t].deletes = {}
      /\ k \in Written(tx[t]) \/ k \in tx[t].deletes
  BY WellParts DEF WellTx, Compared, Staged
<1>2. pc[t] \in 1..4 BY <1>1 DEF Compared, Done
<1>3. CASE pc[t] = 1 BY <1>1, <1>3, SevenPhases DEF Compared, Done, InWindow
<1>4. CASE pc[t] = 2 BY <1>1, <1>4, SevenPhases DEF Compared, Done, InWindow
<1>5. CASE pc[t] = 3 BY <1>1, <1>5, SevenPhases DEF Compared, Done, InWindow
<1>6. CASE pc[t] = 4 BY <1>1, <1>6, SevenPhases DEF Compared, Done, InWindow
<1> QED BY <1>2, <1>3, <1>4, <1>5, <1>6

\* A step that handles a key compares at most that key, in phase 1, and closes the window of
\* the key whose row it changes.
LEMMA ComparedAdvance ==
  ASSUME Well, NEW t \in Threads, pc[t] # 0, NEW k \in todo[t], Advance(t, k),
         NEW j \in Keys, tx[t].reads[j].ver > 0, Compared(t, j)'
  PROVE  /\ Compared(t, j) \/ (j = k /\ pc[t] = 1)
         /\ pc[t] \in {3, 4} => j # k
         /\ tx'[t] = tx[t]
<1>0. WellTx(t) /\ pc[t] \in 1..7 BY WellParts DEF WellTx
<1>1. Progress(t, k) BY AdvanceGoes DEF End, Compared
<1>2. /\ tx'[t] = tx[t]
      /\ \A i \in 1..7 : \A y \in KeysOf(tx[t], i) :
           Done(t, y, i)' <=> Done(t, y, i) \/ (y = k /\ i = pc[t])
  BY <1>1 DEF Progress
<1>3. /\ j \in Staged(tx[t]) => j \in KeysOf(tx[t], 1)
      /\ j \in tx[t].deletes <=> j \in KeysOf(tx[t], 3)
      /\ j \in Written(tx[t]) <=> j \in KeysOf(tx[t], 4)
  BY PhaseKeys
<1>4. j \in Staged(tx[t]) /\ (j \in Written(tx[t]) \/ j \in tx[t].deletes)
      /\ Written(tx[t]) = Written(tx'[t])
  BY <1>2 DEF Compared, Staged
<1>5. Done(t, j, 1) \/ (j = k /\ pc[t] = 1) BY <1>2, <1>3, <1>4 DEF Compared
<1>6. j \in tx[t].deletes => ~Done(t, j, 3) /\ ~(j = k /\ pc[t] = 3)
  BY <1>2, <1>3 DEF Compared
<1>7. j \in Written(tx[t]) => ~Done(t, j, 4) /\ ~(j = k /\ pc[t] = 4)
  BY <1>2, <1>3, <1>4 DEF Compared
<1>8. pc[t] \in {3, 4} => j # k
  BY <1>0, <1>3, <1>6, <1>7 DEF WellTx
<1> QED BY <1>0, <1>2, <1>4, <1>5, <1>6, <1>7, <1>8 DEF Compared

\* A step of t that leaves the rows alone, and compares nothing that it does not find equal.
LEMMA UnmovedQuiet ==
  ASSUME Well, Unmoved, Rising, NEW t \in Threads, Others(t), row' = row,
         \A u \in Threads \ {t} : raced'[u] = raced[u],
         tx'[t].deletes \subseteq Deletable,
         \A k \in Keys : \/ tx'[t].reads[k] \in {tx[t].reads[k], row[k]}
                         \/ tx'[t].reads[k].ver = 0,
         \A k \in Keys : Compared(t, k)' /\ tx'[t].reads[k].ver > 0 /\ k \notin raced'[t]
                           => row[k].ver = tx'[t].reads[k].ver
  PROVE  Unmoved' /\ Rising'
<1>1. ASSUME NEW u \in Threads, NEW k \in Keys,
             Compared(u, k)', tx'[u].reads[k].ver > 0, k \notin raced'[u]
      PROVE  row'[k].ver = tx'[u].reads[k].ver
  <2>1. CASE u = t BY <1>1, <2>1
  <2>2. CASE u # t
    <3>1. Compared(u, k) BY <1>1, <2>2 DEF Compared, Done, Others, Staged, Written
    <3> QED BY <1>1, <2>2, <3>1 DEF Unmoved, Others
  <2> QED BY <2>1, <2>2
<1>2. \A u \in Threads : tx'[u].deletes \subseteq Deletable BY DEF Rising, Others
<1>3. ASSUME NEW u \in Threads, NEW k \in Keys \ Deletable, tx'[u].reads[k].ver > 0
      PROVE  row'[k].ver > tx'[u].reads[k].ver \/ row'[k] = tx'[u].reads[k]
  BY <1>3 DEF Rising, Others
<1> QED BY <1>1, <1>2, <1>3 DEF Unmoved, Rising


\* A step of t's commit that changes the row of k: other commits in the window record it.
LEMMA UnmovedChange ==
  ASSUME Well, Unmoved, Rising, NEW t \in Threads, pc[t] \in {3, 4}, NEW k \in todo[t],
         Advance(t, k), Races(t, k), \A j \in Keys \ {k} : row'[j] = row[j],
         k \notin Deletable => row'[k].ver = row[k].ver + 1
  PROVE  Unmoved' /\ Rising'
<1>0. WellTx(t) /\ \A u \in Threads : tx[u] \in Tx
      /\ row \in [Keys -> Doc] /\ raced \in [Threads -> SUBSET Keys]
  BY WellParts DEF WellTx, WellStore
<1>1. Others(t) /\ (Progress(t, k) \/ End(t, k)) BY AdvanceGoes
<1>2. tx'[t].reads = tx[t].reads /\ tx'[t].deletes = tx[t].deletes
  BY <1>0, <1>1 DEF Progress, End, WellTx, Tx
<1>3. ASSUME NEW u \in Threads, NEW j \in Keys,
             Compared(u, j)', tx'[u].reads[j].ver > 0, j \notin raced'[u]
      PROVE  row'[j].ver = tx'[u].reads[j].ver
  <2>0. raced[u] \subseteq raced'[u] BY DEF Races
  <2>1. CASE u = t
    <3>1. Compared(t, j) /\ j # k BY <1>2, <1>3, <2>1, ComparedAdvance
    <3> QED BY <1>2, <1>3, <2>0, <2>1, <3>1 DEF Unmoved
  <2>2. CASE u # t
    <3>1. Compared(u, j) /\ tx'[u] = tx[u]
      BY <1>1, <1>3, <2>2 DEF Compared, Done, Others, Staged, Written
    <3>2. j # k
      <4>1. j = k => InWindow(u, k) BY <3>1, ComparedIsWindow
      <4> QED BY <1>3, <2>2, <4>1 DEF Races
    <3> QED BY <1>3, <2>0, <3>1, <3>2 DEF Unmoved
  <2> QED BY <2>1, <2>2
<1>4. \A u \in Threads : tx'[u].reads = tx[u].reads /\ tx'[u].deletes = tx[u].deletes
  BY <1>1, <1>2 DEF Others
<1>5. ASSUME NEW u \in Threads, NEW j \in Keys \ Deletable, tx[u].reads[j].ver > 0
      PROVE  row'[j].ver > tx[u].reads[j].ver \/ row'[j] = tx[u].reads[j]
  <2>1. row[j].ver > tx[u].reads[j].ver \/ row[j] = tx[u].reads[j] BY <1>5 DEF Rising
  <2>2. CASE j # k BY <2>1, <2>2
  <2>3. CASE j = k
    <3>1. row[j].ver \in Nat /\ tx[u].reads[j].ver \in Nat BY <1>0 DEF Doc, Tx
    <3>2. row[j].ver >= tx[u].reads[j].ver BY <2>1, <3>1
    <3>3. row'[j].ver = row[j].ver + 1 BY <2>3
    <3> QED BY <3>1, <3>2, <3>3
  <2> QED BY <2>2, <2>3
<1> QED BY <1>3, <1>4, <1>5 DEF Unmoved, Rising

\* Every step keeps both.
LEMMA UnmovedNext ==
  ASSUME Well, Unmoved, Rising, [Next]_vars
  PROVE  Unmoved' /\ Rising'
<1> USE DEF store, bounds, history
<1>0. WellStore /\ WellArrays /\ \A t \in Threads : WellTx(t) BY WellParts
<1>1. ASSUME NEW t \in Threads, Others(t), row' = row, raced' = raced, pc'[t] = 0,
             tx'[t].deletes \subseteq Deletable,
             \A k \in Keys : \/ tx'[t].reads[k] \in {tx[t].reads[k], row[k]}
                             \/ tx'[t].reads[k].ver = 0
      PROVE  Unmoved' /\ Rising'
  <2>1. \A k \in Keys : ~Compared(t, k)' BY <1>1 DEF Compared
  <2> QED BY <1>1, <2>1, UnmovedQuiet
<1>2. ASSUME NEW t \in Threads, Begin(t) PROVE Unmoved' /\ Rising'
  <2>1. /\ Others(t) /\ row' = row /\ pc'[t] = 0 /\ tx'[t] = Fresh
        /\ \A u \in Threads \ {t} : raced'[u] = raced[u]
    BY <1>0, <1>2 DEF Begin, Others, WellArrays, WellStore
  <2>2. tx'[t].deletes = {} /\ \A k \in Keys : tx'[t].reads[k].ver = 0
    BY <2>1 DEF Fresh, Absent
  <2>3. \A k \in Keys : ~Compared(t, k)' BY <2>1 DEF Compared
  <2> QED BY <2>1, <2>2, <2>3, UnmovedQuiet
<1>3. ASSUME NEW t \in Threads, NEW k \in Keys, TxSet(t, k) PROVE Unmoved' /\ Rising'
  <2>1. /\ Others(t) /\ row' = row /\ raced' = raced /\ pc'[t] = 0
        /\ tx'[t].reads = tx[t].reads /\ tx'[t].deletes = tx[t].deletes \ {k}
    BY <1>0, <1>3 DEF TxSet, Open, Others, WellArrays, WellTx, Tx
  <2> QED BY <1>1, <2>1 DEF Rising
<1>4. ASSUME NEW t \in Threads, NEW k \in Keys, TxDelete(t, k) PROVE Unmoved' /\ Rising'
  <2>1. /\ Others(t) /\ row' = row /\ raced' = raced /\ pc'[t] = 0 /\ k \in Deletable
        /\ tx'[t].reads = tx[t].reads /\ tx'[t].deletes = tx[t].deletes \cup {k}
    BY <1>0, <1>4 DEF TxDelete, Open, Others, WellArrays, WellTx, Tx
  <2> QED BY <1>1, <2>1 DEF Rising
<1>5. ASSUME NEW t \in Threads, NEW k \in Keys, TxGet(t, k) PROVE Unmoved' /\ Rising'
  <2>1. /\ Others(t) /\ row' = row /\ raced' = raced /\ pc'[t] = 0
        /\ tx'[t].deletes = tx[t].deletes
        /\ tx'[t].reads \in {tx[t].reads, [tx[t].reads EXCEPT ![k] = row[k]]}
    BY <1>0, <1>5 DEF TxGet, Open, Others, WellArrays, WellTx, Tx
  <2>2. tx[t].reads \in [Keys -> Doc] BY <1>0 DEF WellTx, Tx
  <2>3. \A j \in Keys : tx'[t].reads[j] \in {tx[t].reads[j], row[j]} BY <2>1, <2>2
  <2> QED BY <1>1, <2>1, <2>3 DEF Rising
<1>6. ASSUME NEW t \in Threads, Commit(t) PROVE Unmoved' /\ Rising'
  <2>1. Others(t) /\ row' = row /\ \A u \in Threads \ {t} : raced'[u] = raced[u]
    BY <1>0, <1>6, CommitGoes DEF Commit, WellStore
  <2>2. tx'[t].reads = tx[t].reads /\ tx'[t].deletes = tx[t].deletes
    BY <1>0, <1>6, CommitGoes DEF WellTx, Tx
  <2>3. ASSUME NEW k \in Keys, Compared(t, k)', tx'[t].reads[k].ver > 0 PROVE FALSE
    <3>1. /\ tx'[t] = tx[t]
          /\ \A i \in 1..7 : \A y \in KeysOf(tx[t], i) : ~Done(t, y, i)'
      BY <1>6, <2>3, CommitGoes DEF Compared
    <3>2. k \in KeysOf(tx[t], 1) BY <2>3, <3>1, PhaseKeys DEF Compared, Staged, Written
    <3> QED BY <2>3, <3>1, <3>2 DEF Compared
  <2> QED BY <2>1, <2>2, <2>3, UnmovedQuiet DEF Rising
<1>7. ASSUME NEW t \in Threads, Fail(t) PROVE Unmoved' /\ Rising'
  <2>1. Others(t) /\ row' = row /\ raced' = raced /\ pc'[t] = 0 /\ tx' = tx
    BY <1>0, <1>7 DEF Fail, Rest, Others, WellArrays
  <2> QED BY <1>1, <2>1 DEF Rising
<1>8. ASSUME NEW t \in Threads, NEW k \in Keys, pc[t] # 0, k \in todo[t], Advance(t, k),
             row' = row, raced' = raced, pc[t] = 1 => row[k].ver = tx[t].reads[k].ver
      PROVE  Unmoved' /\ Rising'
  <2>1. Others(t) /\ (Progress(t, k) \/ End(t, k)) BY <1>8, AdvanceGoes
  <2>2. tx'[t].reads = tx[t].reads /\ tx'[t].deletes = tx[t].deletes
    BY <1>0, <2>1 DEF Progress, End, WellTx, Tx
  <2>3. ASSUME NEW j \in Keys, Compared(t, j)', tx'[t].reads[j].ver > 0, j \notin raced'[t]
        PROVE  row[j].ver = tx'[t].reads[j].ver
    <3>1. Compared(t, j) \/ (j = k /\ pc[t] = 1) BY <1>8, <2>2, <2>3, ComparedAdvance
    <3> QED BY <1>8, <2>2, <2>3, <3>1 DEF Unmoved
  <2> QED BY <1>8, <2>1, <2>2, <2>3, UnmovedQuiet DEF Rising
<1>9. ASSUME NEW t \in Threads, NEW k \in Keys, Check(t, k) PROVE Unmoved' /\ Rising'
  <2>1. CASE row[k].ver = tx[t].reads[k].ver
    BY <1>8, <1>9, <2>1 DEF Check, At
  <2>2. CASE row[k].ver # tx[t].reads[k].ver
    <3>1. /\ Others(t) /\ row' = row /\ raced' = raced /\ pc'[t] = 0
          /\ tx'[t] = [Fresh EXCEPT !.active = FALSE]
      BY <1>0, <1>9, <2>2 DEF Check, Rest, Others, WellArrays
    <3>2. tx'[t].deletes = {} /\ \A j \in Keys : tx'[t].reads[j].ver = 0
      BY <3>1 DEF Fresh, Absent
    <3> QED BY <1>1, <3>1, <3>2
  <2> QED BY <2>1, <2>2
<1>10. ASSUME NEW t \in Threads, NEW k \in Keys, DeleteRow(t, k) PROVE Unmoved' /\ Rising'
  <2>1. pc[t] = 3 BY <1>0, <1>10, SevenPhases DEF DeleteRow, At, WellTx
  <2>2. k \in Deletable BY <1>0, <1>10, <2>1, PhaseKeys DEF DeleteRow, At, WellTx, Rising
  <2> QED BY <1>0, <1>10, <2>1, <2>2, UnmovedChange DEF DeleteRow, At, WellStore
<1>11. ASSUME NEW t \in Threads, NEW k \in Keys, Upsert(t, k) PROVE Unmoved' /\ Rising'
  <2>1. pc[t] = 4 BY <1>0, <1>11, SevenPhases DEF Upsert, At, WellTx
  <2>2. row'[k].ver = row[k].ver + 1 /\ \A j \in Keys \ {k} : row'[j] = row[j]
    BY <1>0, <1>11 DEF Upsert, WellStore
  <2> QED BY <1>11, <2>1, <2>2, UnmovedChange DEF Upsert, At
<1>12. ASSUME NEW t \in Threads, NEW k \in Keys,
              DeleteIndex(t, k) \/ Index(t, k) \/ L1Delete(t, k) \/ L1Put(t, k)
       PROVE  Unmoved' /\ Rising'
  <2>1. pc[t] # 1 BY <1>12, SevenPhases DEF DeleteIndex, Index, L1Delete, L1Put, At
  <2> QED BY <1>8, <1>12, <2>1 DEF DeleteIndex, Index, L1Delete, L1Put, At
<1>13. CASE UNCHANGED <<row, tx, pc, todo, raced>>
  <2>1. \A t \in Threads, k \in Keys : Compared(t, k)' <=> Compared(t, k)
    BY <1>13 DEF Compared, Done
  <2> QED BY <1>13, <2>1 DEF Unmoved, Rising
<1>14. ASSUME NEW k \in Keys, Evict(k) PROVE Unmoved' /\ Rising' BY <1>13, <1>14 DEF Evict
<1>15. CASE UNCHANGED vars \/ Finished BY <1>13, <1>15 DEF Finished, vars
<1> QED BY <1>2, <1>3, <1>4, <1>5, <1>6, <1>7, <1>9, <1>10, <1>11, <1>12, <1>14, <1>15
        DEF Next, CommitStep

\* A document that a transaction has read is replaced or deleted by it only while it is still
\* the document of its first read, unless it changed between the comparison and the write.
THEOREM StaleChangesRejectedAlways == Spec => StaleChangesRejected
<1> DEFINE Unchanged(t, k) ==
             Changes(t, k) /\ tx[t].reads[k].ver > 0 /\ k \notin raced[t]
               => /\ row[k].ver = tx[t].reads[k].ver
                  /\ k \notin Deletable => row[k] = tx[t].reads[k]
<1>1. Init => Unmoved /\ Rising
  BY DEF Init, Unmoved, Rising, Compared, Fresh, Absent
<1>2. Well /\ Unmoved /\ Rising /\ [Next]_vars => Well' /\ Unmoved' /\ Rising'
  BY WellNext, UnmovedNext
<1>3. ASSUME Well, Unmoved, Rising, NEW t \in Threads, NEW k \in Keys PROVE Unchanged(t, k)
  <2> SUFFICES ASSUME Changes(t, k), tx[t].reads[k].ver > 0, k \notin raced[t]
               PROVE  /\ row[k].ver = tx[t].reads[k].ver
                      /\ k \notin Deletable => row[k] = tx[t].reads[k]
    OBVIOUS
  <2>0. WellTx(t) BY <1>3, WellParts
  <2>1. (pc[t] = 3 \/ pc[t] = 4) /\ k \in todo[t]
    BY <2>0, SevenPhases DEF Changes, At, WellTx
  <2>2. Compared(t, k) BY <2>0, <2>1, PhaseKeys DEF Compared, Done, WellTx
  <2>3. row[k].ver = tx[t].reads[k].ver BY <1>3, <2>2 DEF Unmoved
  <2>4. row[k].ver \in Nat BY <1>3, WellParts DEF WellStore, Doc
  <2> QED BY <1>3, <2>3, <2>4 DEF Rising
<1>4. Well /\ Unmoved /\ Rising
        => [\A t \in Threads, k \in Keys : Unchanged(t, k)]_vars
  BY <1>3
<1> QED BY <1>1, <1>2, <1>4, WellInit, PTL DEF Spec, StaleChangesRejected

=============================================================================
