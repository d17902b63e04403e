--------------------------- MODULE SecureJsonProofs ---------------------------
(***************************************************************************)
(* Theorems about SecureJson, for every number of threads, saves, loads,   *)
(* deletes, kills and failing statements. None of the three properties is  *)
(* inductive: while no call collided, one call at a time changes anything  *)
(* (Alone), and its next step says how far L1, row, .tmp and file are      *)
(* (TmpHeld, FileHeld, PlacesHeld).                                        *)
(***************************************************************************)
EXTENDS SecureJson, TLAPS

Entry == [num : Nat, ttl : Ttls]
Labels == {"idle", "loadL2", "loadFile", "fill", "saveL2", "unlink", "open", "write",
           "replace", "deleteL2", "kvUnlink", "kvUnlinkTmp", "kvL1", "unlinkTarget"}

Typed == /\ l1 \in Entry /\ row \in Entry /\ file \in Int /\ tmp \in Int
         /\ pc \in [Threads -> Labels] /\ arg \in [Threads -> Entry]
         /\ opened \in [Threads -> {"none", "tmp", "file", "gone"}]
         /\ saves \in Nat /\ last \in Nat

\* Documents are numbered from 1 by the saves; a save has one.
Numbered == /\ l1 = Nothing \/ l1.num > 0
            /\ row = Nothing \/ row.num > 0
            /\ row.num <= saves /\ file <= saves /\ tmp <= saves
            /\ \A t \in Threads :
                 /\ arg[t].num <= saves
                 /\ pc[t] \in {"saveL2", "open", "write", "replace"} => arg[t].num > 0

\* Who changes something is the only caller.
Alone == ~collided => \A t \in Threads, u \in Threads : Changing(t) /\ u # t => pc[u] = "idle"

\* The .tmp follows its one writer, and the file never shows a part of it.
TmpHeld == ~collided => /\ file >= 0
                        /\ \A t \in Threads :
                             /\ pc[t] = "write" <=> opened[t] # "none"
                             /\ pc[t] = "write" => tmp = Empty /\ opened[t] = "tmp"
                             /\ pc[t] = "replace" => tmp = arg[t].num

\* The file is that of the row but in the steps of a save or delete after its row.
FileOf(r) == IF r.ttl = "none" THEN r.num ELSE Gone
DeleteSteps == {"kvUnlink", "kvUnlinkTmp", "kvL1", "unlinkTarget"}
AfterRow == {"unlink", "open", "write", "replace"} \cup DeleteSteps
FileHeld ==
  ~collided /\ ~cut /\ ~stray =>
    /\ (\A t \in Threads : pc[t] \notin AfterRow) => file = FileOf(row)
    /\ \A t \in Threads : /\ pc[t] = "unlink" => row.ttl # "none" \/ row = Nothing
                          /\ pc[t] \in DeleteSteps => row = Nothing
                          /\ pc[t] \in {"open", "write", "replace"}
                               => row = arg[t] /\ row.ttl = "none"

\* L1, the row and what a load has in hand are the last document, but before the row of a
\* save or delete is written.
PlacesHeld ==
  ~collided /\ ~cut /\ ~stray /\ ~refilled =>
    /\ (\A t \in Threads : pc[t] \notin {"saveL2", "deleteL2"}) => row.num = last
    /\ l1 # Nothing => l1.num = last
    /\ \A t \in Threads : /\ pc[t] = "saveL2" => last = arg[t].num /\ row.num < last
                          /\ pc[t] = "deleteL2" => last = 0
                          /\ pc[t] = "loadFile" => row = Nothing
                          /\ pc[t] = "fill" => arg[t].num = last

SInv == Typed /\ Numbered /\ Alone /\ TmpHeld /\ FileHeld /\ PlacesHeld

\* Only t moves.
Moves(t, label) == /\ pc'[t] = label
                   /\ \A u \in Threads \ {t} : pc'[u] = pc[u] /\ arg'[u] = arg[u]

\* The same files are open, though perhaps without a name.
SameOpen == /\ opened' \in [Threads -> {"none", "tmp", "file", "gone"}]
            /\ \A u \in Threads : opened'[u] = "none" <=> opened[u] = "none"

\* Unlinking opens and closes nothing.
LEMMA OpenKept ==
  ASSUME Typed, NEW names \in SUBSET {"tmp", "file"}, opened' = Unnamed(names)
  PROVE  SameOpen
BY DEF Typed, Unnamed, SameOpen

\* The first state.
LEMMA SInvInit == Init => SInv
<1> SUFFICES ASSUME Init PROVE SInv OBVIOUS
<1>1. Typed BY DEF Init, Typed, Entry, Ttls, Labels, Nothing, Gone
<1>2. Numbered BY DEF Init, Numbered, Nothing, Gone
<1>3. Alone BY DEF Init, Alone
<1>4. TmpHeld BY DEF Init, TmpHeld, Gone
<1>5. FileHeld BY DEF Init, FileHeld, FileOf, AfterRow, DeleteSteps, Nothing, Gone
<1>6. PlacesHeld BY DEF Init, PlacesHeld, Nothing
<1> QED BY <1>1, <1>2, <1>3, <1>4, <1>5, <1>6 DEF SInv

\* Every action keeps SInv.
LEMMA SInvNext == ASSUME SInv, [Next]_vars PROVE SInv'
<1> USE DEF places, bounds, history
<1>0. Typed /\ Numbered /\ Alone /\ TmpHeld /\ FileHeld /\ PlacesHeld BY DEF SInv
<1>1. ASSUME NEW t \in Threads, LoadHit(t) PROVE SInv'
  <2>1. /\ pc' = pc /\ arg' = arg /\ opened' = opened
        /\ UNCHANGED <<l1, row, file, tmp, saves, last, cut, stray, refilled>>
        /\ ~collided' => ~collided
    BY <1>1 DEF LoadHit, LoadStarts
  <2>2. Typed' BY <1>0, <2>1 DEF Typed
  <2>3. Numbered' BY <1>0, <2>1 DEF Numbered
  <2>4. Alone' BY <1>0, <2>1 DEF Alone, Changing, Loading
  <2>5. TmpHeld' BY <1>0, <2>1 DEF TmpHeld
  <2>6. FileHeld' BY <1>0, <2>1 DEF FileHeld
  <2>7. PlacesHeld' BY <1>0, <2>1 DEF PlacesHeld
  <2> QED BY <2>2, <2>3, <2>4, <2>5, <2>6, <2>7 DEF SInv
<1>2. ASSUME NEW t \in Threads, LoadMiss(t) PROVE SInv'
  <2>1. /\ Moves(t, "loadL2") /\ arg' = arg /\ pc[t] = "idle" /\ opened' = opened
        /\ UNCHANGED <<l1, row, file, tmp, saves, last, cut, stray, refilled>>
        /\ ~collided' => ~collided /\ \A u \in Threads : ~Changing(u)
    BY <1>0, <1>2 DEF LoadMiss, LoadStarts, Goto, Moves, Typed
  <2>2. Typed'
    BY <1>0, <1>2 DEF LoadMiss, LoadStarts, Goto, Typed, Labels
  <2>3. Numbered' BY <1>0, <2>1 DEF Numbered, Moves
  <2>4. Alone' BY <1>0, <2>1 DEF Alone, Changing, Loading, Moves
  <2>5. TmpHeld' BY <1>0, <2>1 DEF TmpHeld, Moves
  <2>6. FileHeld' BY <1>0, <2>1 DEF FileHeld, AfterRow, DeleteSteps, Moves
  <2>7. PlacesHeld' BY <1>0, <2>1 DEF PlacesHeld, Moves
  <2> QED BY <2>2, <2>3, <2>4, <2>5, <2>6, <2>7 DEF SInv
<1>3. ASSUME NEW t \in Threads, LoadL2(t) PROVE SInv'
  <2>1. /\ Moves(t, IF row = Nothing THEN "loadFile" ELSE "fill") /\ arg'[t] = row
        /\ opened' = opened /\ pc[t] = "loadL2"
        /\ UNCHANGED <<l1, row, file, tmp, saves, last, collided, cut, stray, refilled>>
    BY <1>0, <1>3 DEF LoadL2, Goto, Moves, Typed
  <2>2. Typed'
    BY <1>0, <1>3 DEF LoadL2, Goto, Typed, Labels
  <2>3. Numbered' BY <1>0, <2>1 DEF Numbered, Moves
  <2>4. Alone' BY <1>0, <2>1 DEF Alone, Changing, Loading, Moves
  <2>5. TmpHeld' BY <1>0, <2>1 DEF TmpHeld, Moves
  <2>6. FileHeld' BY <1>0, <2>1 DEF FileHeld, AfterRow, DeleteSteps, Moves
  <2>7. PlacesHeld' BY <1>0, <2>1 DEF Alone, Changing, Loading, PlacesHeld, Moves
  <2> QED BY <2>2, <2>3, <2>4, <2>5, <2>6, <2>7 DEF SInv
<1>4. ASSUME NEW t \in Threads, LoadFile(t) PROVE SInv'
  <2>1. /\ pc[t] = "loadFile" /\ opened' = opened
        /\ \/ file > 0 /\ Moves(t, "fill") /\ arg'[t] = [num |-> file, ttl |-> "none"]
           \/ ~(file > 0) /\ Moves(t, "idle") /\ arg' = arg
        /\ UNCHANGED <<l1, row, file, tmp, saves, last, collided, cut, stray, refilled>>
    BY <1>0, <1>4 DEF LoadFile, Goto, Moves, Typed
  <2>2. Typed'
    <3>1. file > 0 => [num |-> file, ttl |-> "none"] \in Entry
      BY <1>0 DEF Typed, Entry, Ttls
    <3>2. pc' \in [Threads -> Labels] /\ arg' \in [Threads -> Entry]
      BY <1>0, <1>4, <3>1 DEF LoadFile, Goto, Typed, Labels
    <3> QED BY <1>0, <2>1, <3>2 DEF Typed
  <2>3. Numbered' BY <1>0, <2>1 DEF Numbered, Moves
  <2>4. Alone' BY <1>0, <2>1 DEF Alone, Changing, Loading, Moves
  <2>5. TmpHeld' BY <1>0, <2>1 DEF TmpHeld, Moves
  <2>6. FileHeld' BY <1>0, <2>1 DEF FileHeld, AfterRow, DeleteSteps, Moves
  <2>7. PlacesHeld'
    BY <1>0, <2>1
       DEF Alone, Changing, Loading, FileHeld, FileOf, AfterRow, DeleteSteps, PlacesHeld, Moves, Gone
  <2> QED BY <2>2, <2>3, <2>4, <2>5, <2>6, <2>7 DEF SInv
<1>5. ASSUME NEW t \in Threads, Fill(t) PROVE SInv'
  <2>1. /\ Moves(t, "idle") /\ arg' = arg /\ opened' = opened /\ pc[t] = "fill"
        /\ l1' = [num |-> arg[t].num, ttl |-> "none"]
        /\ UNCHANGED <<row, file, tmp, saves, last, collided, cut, stray, refilled>>
    BY <1>0, <1>5 DEF Fill, Goto, Moves, Typed
  <2>2. Typed'
    BY <1>0, <1>5 DEF Fill, Goto, Typed, Entry, Ttls, Labels
  <2>3. Numbered'
    <3>1. arg[t].num \in Nat BY <1>0 DEF Typed, Entry
    <3>2. l1' = Nothing \/ l1'.num > 0
      <4>1. CASE arg[t].num = 0 BY <2>1, <4>1 DEF Nothing
      <4>2. CASE arg[t].num > 0 BY <2>1, <4>2
      <4> QED BY <3>1, <4>1, <4>2
    <3> QED BY <1>0, <2>1, <3>2 DEF Numbered, Moves
  <2>4. Alone' BY <1>0, <2>1 DEF Alone, Changing, Loading, Moves
  <2>5. TmpHeld' BY <1>0, <2>1 DEF TmpHeld, Moves
  <2>6. FileHeld' BY <1>0, <2>1 DEF FileHeld, AfterRow, DeleteSteps, Moves
  <2>7. PlacesHeld' BY <1>0, <2>1 DEF PlacesHeld, Moves
  <2> QED BY <2>2, <2>3, <2>4, <2>5, <2>6, <2>7 DEF SInv
<1>6. ASSUME NEW t \in Threads, NEW ttl \in Ttls, SaveL1(t, ttl) PROVE SInv'
  <2>1. /\ Moves(t, "saveL2") /\ opened' = opened /\ pc[t] = "idle"
        /\ l1' = [num |-> saves + 1, ttl |-> ttl] /\ arg'[t] = l1'
        /\ saves' = saves + 1 /\ last' = saves + 1
        /\ UNCHANGED <<row, file, tmp, cut, stray, refilled>>
        /\ ~collided' => ~collided /\ \A u \in Threads \ {t} : pc[u] = "idle"
    BY <1>0, <1>6 DEF SaveL1, Collides, Goto, Moves, Typed
  <2>2. Typed'
    BY <1>0, <1>6 DEF SaveL1, Goto, Typed, Entry, Ttls, Labels
  <2>3. Numbered' BY <1>0, <2>1 DEF Typed, Numbered, Moves, Entry
  <2>4. Alone' BY <1>0, <2>1 DEF Alone, Changing, Moves
  <2>5. TmpHeld' BY <1>0, <2>1 DEF TmpHeld, Moves
  <2>6. FileHeld' BY <1>0, <2>1 DEF FileHeld, AfterRow, DeleteSteps, Moves
  <2>7. PlacesHeld' BY <1>0, <2>1 DEF Typed, Numbered, PlacesHeld, Moves
  <2> QED BY <2>2, <2>3, <2>4, <2>5, <2>6, <2>7 DEF SInv
<1>7. ASSUME NEW t \in Threads, SaveL2(t) PROVE SInv'
  <2>1. /\ pc[t] = "saveL2" /\ arg' = arg /\ opened' = opened /\ row' = arg[t]
        /\ Moves(t, IF arg[t].ttl # "none" THEN "unlink" ELSE "open")
        /\ UNCHANGED <<l1, file, tmp, saves, last, collided, cut, stray, refilled>>
    BY <1>0, <1>7 DEF SaveL2, AfterL2, Goto, Moves, Typed
  <2>2. Typed'
    BY <1>0, <1>7 DEF SaveL2, AfterL2, Goto, Typed, Labels
  <2>3. Numbered' BY <1>0, <2>1 DEF Numbered, Moves
  <2>4. Alone' BY <1>0, <2>1 DEF Alone, Changing, Loading, Moves
  <2>5. TmpHeld' BY <1>0, <2>1 DEF TmpHeld, Moves
  <2>6. FileHeld' BY <1>0, <2>1 DEF Alone, Changing, Loading, FileHeld, AfterRow, DeleteSteps, Moves
  <2>7. PlacesHeld' BY <1>0, <2>1 DEF Alone, Changing, Loading, PlacesHeld, Moves
  <2> QED BY <2>2, <2>3, <2>4, <2>5, <2>6, <2>7 DEF SInv
<1>8. ASSUME NEW t \in Threads, SaveL2Fails(t) PROVE SInv'
  <2>1. /\ pc[t] = "saveL2" /\ arg' = arg /\ opened' = opened /\ cut'
        /\ Moves(t, IF arg[t].ttl # "none" THEN "unlink" ELSE "open")
        /\ UNCHANGED <<l1, row, file, tmp, saves, last, collided, stray, refilled>>
    BY <1>0, <1>8 DEF SaveL2Fails, Raises, AfterL2, Goto, Moves, Typed
  <2>2. Typed'
    BY <1>0, <1>8 DEF SaveL2Fails, Raises, AfterL2, Goto, Typed, Labels
  <2>3. Numbered' BY <1>0, <2>1 DEF Numbered, Moves
  <2>4. Alone' BY <1>0, <2>1 DEF Alone, Changing, Loading, Moves
  <2>5. TmpHeld' BY <1>0, <2>1 DEF TmpHeld, Moves
  <2>6. FileHeld' BY <1>0, <2>1 DEF FileHeld
  <2>7. PlacesHeld' BY <1>0, <2>1 DEF PlacesHeld
  <2> QED BY <2>2, <2>3, <2>4, <2>5, <2>6, <2>7 DEF SInv
<1>9. ASSUME NEW t \in Threads, Unlink(t) PROVE SInv'
  <2>1. /\ pc[t] = "unlink" /\ arg' = arg /\ SameOpen /\ file' = Gone /\ Moves(t, "idle")
        /\ pc' = [pc EXCEPT ![t] = "idle"]
        /\ UNCHANGED <<l1, row, tmp, saves, last, collided, cut, stray, refilled>>
    BY <1>0, <1>9, OpenKept DEF Unlink, RemoveFile, Goto, Moves, Typed
  <2>2. Typed'
    BY <1>0, <2>1 DEF SameOpen, Typed, Labels, Gone
  <2>3. Numbered' BY <1>0, <2>1 DEF Typed, Numbered, Moves, Gone
  <2>4. Alone' BY <1>0, <2>1 DEF Alone, Changing, Loading, Moves
  <2>5. TmpHeld' BY <1>0, <2>1 DEF SameOpen, Alone, Changing, Loading, TmpHeld, Moves, Gone
  <2>6. FileHeld'
    BY <1>0, <2>1 DEF Alone, Changing, Loading, FileHeld, FileOf, AfterRow, DeleteSteps, Moves,
                      Nothing, Gone
  <2>7. PlacesHeld' BY <1>0, <2>1 DEF PlacesHeld, Moves
  <2> QED BY <2>2, <2>3, <2>4, <2>5, <2>6, <2>7 DEF SInv
<1>10. ASSUME NEW t \in Threads, Open(t) PROVE SInv'
  <2>1. /\ pc[t] = "open" /\ arg' = arg /\ opened' = [opened EXCEPT ![t] = "tmp"]
        /\ Moves(t, "write") /\ tmp' = Empty
        /\ UNCHANGED <<l1, row, file, saves, last, collided, cut, stray, refilled>>
    BY <1>0, <1>10 DEF Open, Goto, Moves, Typed
  <2>2. Typed'
    BY <1>0, <1>10 DEF Open, Goto, Typed, Labels, Empty
  <2>3. Numbered' BY <1>0, <2>1 DEF Typed, Numbered, Moves, Empty
  <2>4. Alone' BY <1>0, <2>1 DEF Alone, Changing, Loading, Moves
  <2>5. TmpHeld' BY <1>0, <2>1 DEF Typed, Alone, Changing, Loading, TmpHeld, Moves
  <2>6. FileHeld' BY <1>0, <2>1 DEF FileHeld, AfterRow, DeleteSteps, Moves
  <2>7. PlacesHeld' BY <1>0, <2>1 DEF PlacesHeld, Moves
  <2> QED BY <2>2, <2>3, <2>4, <2>5, <2>6, <2>7 DEF SInv
<1>11. ASSUME NEW t \in Threads, Write(t) PROVE SInv'
  <2>1. /\ pc[t] = "write" /\ arg' = arg /\ opened' = [opened EXCEPT ![t] = "none"]
        /\ Moves(t, "replace")
        /\ tmp' \in {tmp, arg[t].num, Torn} /\ file' \in {file, arg[t].num, Torn}
        /\ opened[t] = "tmp" /\ tmp = Empty => tmp' = arg[t].num /\ file' = file
        /\ UNCHANGED <<l1, row, saves, last, collided, cut, stray, refilled>>
    BY <1>0, <1>11 DEF Write, Goto, Moves, Typed
  <2>2. Typed'
    BY <1>0, <1>11 DEF Write, Goto, Typed, Entry, Ttls, Labels, Torn
  <2>3. Numbered' BY <1>0, <2>1 DEF Typed, Numbered, Moves, Torn
  <2>4. Alone' BY <1>0, <2>1 DEF Alone, Changing, Loading, Moves
  <2>5. TmpHeld' BY <1>0, <2>1 DEF Typed, Alone, Changing, Loading, TmpHeld, Moves
  <2>6. FileHeld' BY <1>0, <2>1 DEF FileHeld, AfterRow, DeleteSteps, Moves
  <2>7. PlacesHeld' BY <1>0, <2>1 DEF PlacesHeld, Moves
  <2> QED BY <2>2, <2>3, <2>4, <2>5, <2>6, <2>7 DEF SInv
<1>12. ASSUME NEW t \in Threads, Replace(t) PROVE SInv'
  <2>1. /\ pc[t] = "replace" /\ arg' = arg /\ Moves(t, "idle")
        /\ \/ tmp = Gone /\ UNCHANGED <<file, tmp, opened>>
           \/ tmp # Gone /\ file' = tmp /\ tmp' = Gone
        /\ opened' \in [Threads -> {"none", "tmp", "file", "gone"}]
        /\ \A u \in Threads : opened[u] = "none" <=> opened'[u] = "none"
        /\ UNCHANGED <<l1, row, saves, last, collided, cut, stray, refilled>>
    BY <1>0, <1>12 DEF Replace, Goto, Moves, Typed
  <2>2. Typed'
    BY <1>0, <1>12 DEF Replace, Goto, Typed, Labels, Gone
  <2>3. Numbered' BY <1>0, <2>1 DEF Typed, Numbered, Moves, Gone
  <2>4. Alone' BY <1>0, <2>1 DEF Alone, Changing, Loading, Moves
  <2>5. TmpHeld' BY <1>0, <2>1 DEF Typed, Numbered, Alone, Changing, Loading, TmpHeld, Moves
  <2>6. FileHeld' BY <1>0, <2>1 DEF Numbered, TmpHeld, FileHeld, FileOf, AfterRow, DeleteSteps, Moves, Gone
  <2>7. PlacesHeld' BY <1>0, <2>1 DEF PlacesHeld, Moves
  <2> QED BY <2>2, <2>3, <2>4, <2>5, <2>6, <2>7 DEF SInv
<1>13. ASSUME NEW t \in Threads, DeleteL1(t) PROVE SInv'
  <2>1. /\ Moves(t, "deleteL2") /\ opened' = opened /\ pc[t] = "idle" /\ arg' = arg
        /\ l1' = Nothing /\ last' = 0
        /\ UNCHANGED <<row, file, tmp, saves, cut, stray, refilled>>
        /\ ~collided' => ~collided /\ \A u \in Threads \ {t} : pc[u] = "idle"
    BY <1>0, <1>13 DEF DeleteL1, Collides, Goto, Moves, Typed
  <2>2. Typed'
    BY <1>0, <1>13 DEF DeleteL1, Goto, Typed, Entry, Ttls, Labels, Nothing
  <2>3. Numbered' BY <1>0, <2>1 DEF Numbered, Moves
  <2>4. Alone' BY <1>0, <2>1 DEF Alone, Changing, Moves
  <2>5. TmpHeld' BY <1>0, <2>1 DEF TmpHeld, Moves
  <2>6. FileHeld' BY <1>0, <2>1 DEF FileHeld, AfterRow, DeleteSteps, Moves
  <2>7. PlacesHeld' BY <1>0, <2>1 DEF PlacesHeld, Moves
  <2> QED BY <2>2, <2>3, <2>4, <2>5, <2>6, <2>7 DEF SInv
<1>14. ASSUME NEW t \in Threads, DeleteL2(t) PROVE SInv'
  <2>1. /\ Moves(t, "kvUnlink") /\ opened' = opened /\ pc[t] = "deleteL2" /\ arg'[t] = row
        /\ row' = Nothing
        /\ UNCHANGED <<l1, file, tmp, saves, last, collided, cut, stray, refilled>>
    BY <1>0, <1>14 DEF DeleteL2, Goto, Moves, Typed
  <2>2. Typed'
    BY <1>0, <1>14 DEF DeleteL2, Goto, Typed, Entry, Ttls, Labels, Nothing
  <2>3. Numbered' BY <1>0, <2>1 DEF Typed, Numbered, Moves, Nothing
  <2>4. Alone' BY <1>0, <2>1 DEF Alone, Changing, Loading, Moves
  <2>5. TmpHeld' BY <1>0, <2>1 DEF TmpHeld, Moves
  <2>6. FileHeld'
    BY <1>0, <2>1 DEF Alone, Changing, Loading, FileHeld, AfterRow, DeleteSteps, Moves, Nothing
  <2>7. PlacesHeld' BY <1>0, <2>1 DEF Alone, Changing, Loading, PlacesHeld, Moves, Nothing
  <2> QED BY <2>2, <2>3, <2>4, <2>5, <2>6, <2>7 DEF SInv
<1>19. ASSUME NEW t \in Threads, KvUnlink(t) \/ KvUnlinkTmp(t) \/ KvL1(t) PROVE SInv'
  <2>1. /\ pc[t] \in DeleteSteps /\ arg' = arg /\ SameOpen
        /\ pc'[t] \in DeleteSteps /\ Moves(t, pc'[t]) /\ pc' = [pc EXCEPT ![t] = pc'[t]]
        /\ file' \in {file, Gone} /\ tmp' \in {tmp, Gone} /\ l1' \in {l1, Nothing}
        /\ UNCHANGED <<row, saves, last, collided, cut, stray, refilled>>
    <3>1. CASE KvUnlink(t)
      BY <1>0, <3>1, OpenKept DEF KvUnlink, RemoveFile, SameOpen, Goto, Moves, Typed, DeleteSteps
    <3>2. CASE KvUnlinkTmp(t)
      BY <1>0, <3>2, OpenKept DEF KvUnlinkTmp, SameOpen, Goto, Moves, Typed, DeleteSteps
    <3>3. CASE KvL1(t)
      BY <1>0, <3>3 DEF KvL1, SameOpen, Goto, Moves, Typed, DeleteSteps
    <3> QED BY <1>19, <3>1, <3>2, <3>3
  <2>2. Typed'
    BY <1>0, <2>1 DEF SameOpen, Typed, Entry, Ttls, Labels, DeleteSteps, Nothing, Gone
  <2>3. Numbered' BY <1>0, <2>1 DEF Typed, Numbered, Moves, DeleteSteps, Nothing, Gone
  <2>4. Alone' BY <1>0, <2>1 DEF Alone, Changing, Loading, Moves, DeleteSteps
  <2>5. TmpHeld'
    BY <1>0, <2>1 DEF SameOpen, Alone, Changing, Loading, TmpHeld, Moves, DeleteSteps, Gone
  <2>6. FileHeld' BY <1>0, <2>1 DEF FileHeld, AfterRow, DeleteSteps, Moves
  <2>7. PlacesHeld' BY <1>0, <2>1 DEF PlacesHeld, Moves, DeleteSteps
  <2> QED BY <2>2, <2>3, <2>4, <2>5, <2>6, <2>7 DEF SInv
<1>20. ASSUME NEW t \in Threads, UnlinkTarget(t) PROVE SInv'
  <2>1. /\ pc[t] = "unlinkTarget" /\ arg' = arg /\ SameOpen /\ Moves(t, "idle")
        /\ pc' = [pc EXCEPT ![t] = "idle"]
        /\ file' \in {file, Gone} /\ (~stray' => ~stray /\ file' = Gone)
        /\ UNCHANGED <<l1, row, tmp, saves, last, collided, cut, refilled>>
    BY <1>0, <1>20, OpenKept DEF UnlinkTarget, RemoveFile, SameOpen, Goto, Moves, Typed
  <2>2. Typed'
    BY <1>0, <2>1 DEF SameOpen, Typed, Labels, Gone
  <2>3. Numbered' BY <1>0, <2>1 DEF Typed, Numbered, Moves, Gone
  <2>4. Alone' BY <1>0, <2>1 DEF Alone, Changing, Loading, Moves
  <2>5. TmpHeld' BY <1>0, <2>1 DEF SameOpen, Alone, Changing, Loading, TmpHeld, Moves, Gone
  <2>6. FileHeld'
    BY <1>0, <2>1 DEF Alone, Changing, Loading, FileHeld, FileOf, AfterRow, DeleteSteps, Moves,
                      Nothing, Gone
  <2>7. PlacesHeld' BY <1>0, <2>1 DEF PlacesHeld, Moves
  <2> QED BY <2>2, <2>3, <2>4, <2>5, <2>6, <2>7 DEF SInv
<1>21. ASSUME NEW t \in Threads, Fail(t) PROVE SInv'
  <2>1. /\ Changing(t) /\ cut' /\ arg' = arg /\ opened' = [opened EXCEPT ![t] = "none"]
        /\ pc'[t] \in {"kvL1", "idle"} /\ Moves(t, pc'[t]) /\ pc' = [pc EXCEPT ![t] = pc'[t]]
        /\ UNCHANGED <<l1, row, file, tmp, saves, last, collided>>
    BY <1>0, <1>21 DEF Fail, Raises, Goto, Moves, Typed, Changing, Loading
  <2>2. Typed' BY <1>0, <2>1 DEF Typed, Labels
  <2>3. Numbered' BY <1>0, <2>1 DEF Numbered, Moves
  <2>4. Alone' BY <1>0, <2>1 DEF Alone, Changing, Loading, Moves
  <2>5. TmpHeld' BY <1>0, <2>1 DEF Typed, Alone, TmpHeld, Moves
  <2>6. FileHeld' /\ PlacesHeld' BY <2>1 DEF FileHeld, PlacesHeld
  <2> QED BY <2>2, <2>3, <2>4, <2>5, <2>6 DEF SInv
<1>22. ASSUME NEW t \in Threads, LoadExpired(t) PROVE SInv'
  <2>1. /\ pc[t] = "loadL2" /\ Moves(t, "loadFile") /\ pc' = [pc EXCEPT ![t] = "loadFile"]
        /\ arg' = [arg EXCEPT ![t] = Nothing] /\ SameOpen /\ l1' = Nothing /\ RowEnds
        /\ (UNCHANGED <<file, tmp>> \/ (file' = Gone /\ tmp' = Gone))
    <3>5. pc[t] = "loadL2" /\ l1' = Nothing /\ RowEnds
      BY <1>22, Zenon DEF LoadExpired
    <3>6. pc' = [pc EXCEPT ![t] = "loadFile"] /\ arg' = [arg EXCEPT ![t] = Nothing]
      BY <1>22, Zenon DEF LoadExpired, Goto
    <3>1. /\ pc[t] = "loadL2" /\ pc' = [pc EXCEPT ![t] = "loadFile"]
          /\ arg' = [arg EXCEPT ![t] = Nothing] /\ l1' = Nothing /\ RowEnds
      BY <3>5, <3>6
    <3>2. Moves(t, "loadFile") BY <1>0, <3>1 DEF Moves, Typed
    <3>3. \/ UNCHANGED <<file, tmp, opened>>
          \/ file' = Gone /\ tmp' = Gone /\ opened' = Unnamed({"tmp", "file"})
      BY <1>22, Zenon DEF LoadExpired
    <3>4. SameOpen
      <4>1. CASE opened' = opened BY <1>0, <4>1 DEF SameOpen, Typed
      <4>2. CASE opened' = Unnamed({"tmp", "file"}) BY <1>0, <4>2, OpenKept
      <4> QED BY <3>3, <4>1, <4>2
    <3>7. UNCHANGED <<file, tmp>> \/ (file' = Gone /\ tmp' = Gone) BY <3>3
    <3> QED BY <3>1, <3>2, <3>4, <3>7
  <2>2. /\ row' = Nothing /\ row.ttl = "timed"
        /\ UNCHANGED <<saves, collided, cut, stray>>
    BY <2>1 DEF RowEnds
  <2>3. Typed'
    <3>1. Nothing \in Entry /\ Gone \in Int BY DEF Entry, Ttls, Nothing, Gone
    <3>2. pc' \in [Threads -> Labels] /\ arg' \in [Threads -> Entry]
      BY <1>0, <2>1, <3>1 DEF Typed, Labels
    <3>3. last' \in Nat
      <4>1. last' = (IF last = row.num THEN 0 ELSE last) BY <2>1 DEF RowEnds
      <4> QED BY <1>0, <4>1 DEF Typed
    <3> QED BY <1>0, <2>1, <2>2, <3>1, <3>2, <3>3 DEF SameOpen, Typed
  <2>4. Numbered' BY <1>0, <2>1, <2>2 DEF Typed, Numbered, Moves, Nothing, Gone
  <2>5. Alone' BY <1>0, <2>1, <2>2 DEF Alone, Changing, Loading, Moves
  <2>6. ~collided => \A u \in Threads : ~Changing(u)
    BY <1>0, <2>1 DEF Alone, Changing, Loading
  <2>7. TmpHeld' BY <1>0, <2>1, <2>2, <2>6 DEF SameOpen, Changing, Loading, TmpHeld, Moves, Gone
  <2>8. FileHeld'
    BY <1>0, <2>1, <2>2, <2>6 DEF Changing, Loading, FileHeld, FileOf, AfterRow, DeleteSteps,
                                  Moves, Nothing, Gone
  <2>9. ~collided /\ ~cut /\ ~stray /\ ~refilled => row.num = last
    BY <1>0, <2>6 DEF PlacesHeld, Changing, Loading
  <2>10. ~refilled' => ~refilled /\ \A u \in Threads : pc[u] = "fill" => arg[u].num # row.num
    BY <2>1 DEF RowEnds
  <2>11. last = row.num => last' = 0 BY <2>1 DEF RowEnds
  <2>12. PlacesHeld'
    BY <1>0, <2>1, <2>2, <2>6, <2>9, <2>10, <2>11 DEF PlacesHeld, Changing, Loading, Moves,
                                                      Nothing
  <2> QED BY <2>3, <2>4, <2>5, <2>7, <2>8, <2>12 DEF SInv
<1>15. CASE Evict
  <2>1. UNCHANGED <<row, file, tmp, pc, arg, opened, saves, last, collided, cut, stray, refilled>>
        /\ l1' = Nothing
    BY <1>15 DEF Evict
  <2>2. Typed' BY <1>0, <2>1 DEF Typed, Entry, Ttls, Nothing
  <2>3. Numbered' /\ Alone' /\ TmpHeld' /\ FileHeld' /\ PlacesHeld'
    BY <1>0, <2>1 DEF Numbered, Alone, Changing, Loading, TmpHeld, FileHeld, PlacesHeld
  <2> QED BY <2>2, <2>3 DEF SInv
<1>16. CASE Expire
  <2>1. /\ UNCHANGED <<file, tmp, pc, arg, opened, saves, collided, cut, stray>>
        /\ row.ttl = "timed" /\ row' = Nothing /\ l1' = (IF l1 = row THEN Nothing ELSE l1)
        /\ last' = (IF last = row.num THEN 0 ELSE last)
        /\ ~refilled' => /\ ~refilled /\ l1'.num # row.num
                         /\ \A t \in Threads : pc[t] = "fill" => arg[t].num # row.num
    BY <1>16 DEF Expire, RowEnds
  <2>2. Typed' BY <1>0, <2>1 DEF Typed, Entry, Ttls, Nothing
  <2>7. l1' = Nothing \/ l1' = l1 BY <2>1
  <2>8. row'.num = 0 /\ saves \in Nat BY <1>0, <2>1 DEF Typed, Nothing
  <2>3. Numbered' BY <1>0, <2>1, <2>7, <2>8 DEF Numbered
  <2>4. Alone' /\ TmpHeld' BY <1>0, <2>1 DEF Alone, Changing, Loading, TmpHeld
  <2>5. FileHeld' BY <1>0, <2>1 DEF FileHeld, FileOf, Nothing, Gone
  <2>6. ASSUME ~collided', ~cut', ~stray', ~refilled'
        PROVE  /\ (\A t \in Threads : pc'[t] \notin {"saveL2", "deleteL2"}) => row'.num = last'
               /\ l1' # Nothing => l1'.num = last'
               /\ \A t \in Threads : /\ pc'[t] = "saveL2" => last' = arg'[t].num /\ row'.num < last'
                                     /\ pc'[t] = "deleteL2" => last' = 0
                                     /\ pc'[t] = "loadFile" => row' = Nothing
                                     /\ pc'[t] = "fill" => arg'[t].num = last'
    <3>0. ~collided /\ ~cut /\ ~stray /\ ~refilled BY <2>1, <2>6
    <3>1. last \in Nat /\ row.num \in Nat BY <1>0 DEF Typed, Entry
    <3>2. (\A t \in Threads : pc'[t] \notin {"saveL2", "deleteL2"}) => row'.num = last'
      BY <1>0, <2>1, <2>8, <3>0 DEF PlacesHeld
    <3>3. l1' # Nothing => l1'.num = last'
      BY <1>0, <2>1, <2>6, <2>7, <3>0 DEF PlacesHeld
    <3>4. ASSUME NEW t \in Threads, pc[t] = "saveL2"
          PROVE  last' = arg[t].num /\ row'.num < last'
      <4>1. last = arg[t].num /\ row.num < last BY <1>0, <3>0, <3>4 DEF PlacesHeld
      <4> QED BY <2>1, <2>8, <3>1, <4>1
    <3>5. ASSUME NEW t \in Threads, pc[t] = "deleteL2" PROVE last' = 0
      BY <1>0, <2>1, <3>0, <3>5 DEF PlacesHeld
    <3>6. ASSUME NEW t \in Threads, pc[t] = "fill" PROVE arg[t].num = last'
      BY <1>0, <2>1, <2>6, <3>0, <3>6 DEF PlacesHeld
    <3> QED BY <2>1, <3>2, <3>3, <3>4, <3>5, <3>6
  <2> QED BY <2>2, <2>3, <2>4, <2>5, <2>6 DEF SInv, PlacesHeld
<1>17. CASE Crash
  <2>1. /\ UNCHANGED <<row, file, tmp, saves, last, refilled, collided, stray>>
        /\ l1' = Nothing /\ pc' = [t \in Threads |-> "idle"]
        /\ arg' = [t \in Threads |-> Nothing] /\ opened' = [t \in Threads |-> "none"]
        /\ ~cut' => ~cut /\ \A t \in Threads : ~Changing(t)
    BY <1>17 DEF Crash
  <2>2. Typed' BY <1>0, <2>1 DEF Typed, Entry, Ttls, Nothing, Labels
  <2>3. Numbered' BY <1>0, <2>1 DEF Typed, Numbered, Nothing
  <2>4. Alone' BY <2>1 DEF Alone
  <2>5. TmpHeld' BY <1>0, <2>1 DEF TmpHeld
  <2>6. FileHeld' BY <1>0, <2>1 DEF FileHeld, AfterRow, DeleteSteps, Changing, Loading
  <2>7. PlacesHeld' BY <1>0, <2>1 DEF PlacesHeld, Changing, Loading
  <2> QED BY <2>2, <2>3, <2>4, <2>5, <2>6, <2>7 DEF SInv
<1>18. CASE UNCHANGED vars
  BY <1>0, <1>18 DEF vars, SInv, Typed, Numbered, Alone, Changing, Loading, TmpHeld, FileHeld,
                     PlacesHeld
<1> QED BY <1>1, <1>2, <1>3, <1>4, <1>5, <1>6, <1>7, <1>8, <1>9, <1>10, <1>11, <1>12, <1>13,
           <1>14, <1>15, <1>16, <1>17, <1>18, <1>19, <1>20, <1>21, <1>22
        DEF Next, Load, Save, Delete, Finished

\* The file is a whole document at every moment, unless two savers shared the .tmp.
THEOREM FileWholeAlways == Spec => []FileWhole
<1>1. SInv => FileWhole BY DEF SInv, TmpHeld, FileWhole, Empty, Torn
<1>2. SInv /\ [Next]_vars => SInv' BY SInvNext
<1> QED BY <1>1, <1>2, SInvInit, PTL DEF Spec

\* Between calls the file is the permanent document that SQLite has, and there is none for a
\* document with a ttl, a deleted or an expired one.
THEOREM FileFollowsRowAlways == Spec => []FileFollowsRow
<1>1. SInv => FileFollowsRow
  BY DEF SInv, FileHeld, FileOf, AfterRow, DeleteSteps, Changing, Loading, FileFollowsRow
<1>2. SInv /\ [Next]_vars => SInv' BY SInvNext
<1> QED BY <1>1, <1>2, SInvInit, PTL DEF Spec

\* One caller at a time, a load returns the last document saved, or the default after a
\* delete or the end of its ttl, whichever of the three places answers.
THEOREM LoadSeesLastSaveAlways == Spec => LoadSeesLastSave
<1> DEFINE Sees(t, n) == Returned(t, n) /\ ~collided' /\ ~cut /\ ~stray /\ ~refilled => n = last
<1>1. ASSUME SInv, NEW t \in Threads, NEW n \in 0..MaxSaves PROVE Sees(t, n)
  <2> SUFFICES ASSUME Returned(t, n), ~collided', ~cut, ~stray, ~refilled PROVE n = last OBVIOUS
  <2> USE DEF places, bounds, history
  <2>0. Typed /\ Alone /\ FileHeld /\ PlacesHeld BY <1>1 DEF SInv
  <2>1. CASE LoadHit(t) /\ n = l1.num
    BY <2>0, <2>1 DEF LoadHit, LoadStarts, PlacesHeld
  <2>2. CASE Fill(t) /\ n = arg[t].num
    BY <2>0, <2>2 DEF Fill, PlacesHeld
  <2>3. CASE LoadFile(t) /\ pc'[t] = "idle" /\ n = 0
    <3>1. pc[t] = "loadFile" /\ ~collided BY <2>3 DEF LoadFile
    <3>2. row = Nothing BY <2>0, <3>1 DEF PlacesHeld
    <3>3. \A u \in Threads : pc[u] \notin {"saveL2", "deleteL2"}
      BY <2>0, <3>1 DEF Alone, Changing, Loading
    <3> QED BY <2>0, <2>3, <3>1, <3>2, <3>3 DEF PlacesHeld, Nothing
  <2> QED BY <2>1, <2>2, <2>3 DEF Returned
<1>2. SInv => [\A t \in Threads, n \in 0..MaxSaves : Sees(t, n)]_vars BY <1>1
<1>3. SInv /\ [Next]_vars => SInv' BY SInvNext
<1> QED BY <1>2, <1>3, SInvInit, PTL DEF Spec, LoadSeesLastSave
=============================================================================
