----------------------------- MODULE Transaction -----------------------------
(***************************************************************************)
(* src/transaction.py: a transaction stages writes and deletes in RAM,     *)
(* remembers the version of each document when it first read it, and at    *)
(* commit compares those versions, then runs its statements. There is no   *)
(* BEGIN: every row of every executemany commits by itself, the checks     *)
(* included, so two commits interleave anywhere and a statement that       *)
(* raises leaves the earlier ones behind.                                  *)
(*                                                                         *)
(* A document is represented by its number in the order of the writes.     *)
(***************************************************************************)
EXTENDS Integers, Sequences, FiniteSets, FiniteSetsExt

CONSTANTS Keys,       \* document keys
          Threads,    \* threads, each in one transaction at a time
          Deletable,  \* keys that transactions may delete
          MaxWrites,  \* bound: documents staged
          MaxCalls,   \* bound: gets, deletes and transactions per thread
          MaxFaults   \* bound: statements that raise

ASSUME TransactionAssumption ==
  /\ Deletable \subseteq Keys
  /\ MaxWrites \in Nat /\ MaxCalls \in Nat /\ MaxFaults \in Nat

VARIABLES row,       \* table kv_store: number and version of a document
          idx,       \* table blind_indexes: number of the document indexed
          bloom,     \* keys in the filter
          l1,        \* the L1 cache: number of the document, or 0
          tx,        \* tx[t]: the transaction object of t
          pc,        \* pc[t]: 0, or the position in Phases of t's commit
          todo,      \* todo[t]: keys the current phase has yet to handle
          writes, calls, faults,  \* how much of the bounds is used
          crossed,   \* history: keys that two commits handled at once
          raced,     \* history: raced[t]: keys changed between check and write
          rejected,  \* history: documents of transactions that were rolled back
          torn       \* history: documents of commits that raised halfway

store == <<row, idx, bloom, l1>>
bounds == <<writes, calls, faults>>
history == <<crossed, raced, rejected, torn>>
vars == <<store, tx, pc, todo, bounds, history>>

Absent == [num |-> 0, ver |-> 0]
Fresh == [active |-> TRUE, writes |-> [k \in Keys |-> 0], deletes |-> {},
          reads |-> [k \in Keys |-> Absent]]
Written(x) == {k \in Keys : x.writes[k] # 0}
Staged(x) == Written(x) \cup x.deletes
Docs(x) == {x.writes[k] : k \in Written(x)}

\* Variant: the versions are compared after the rows are written.
PhasesCheckLate == <<"deleteIndex", "deleteRow", "upsert", "check", "index", "l1Delete", "l1Put">>

\* What commit does, in this order, and the keys each phase handles.
Phases == <<"check", "deleteIndex", "deleteRow", "upsert", "index", "l1Delete", "l1Put">>
\* Variant: a delete does not compare versions.
KeysOfWritten(x, i) ==
  CASE Phases[i] = "check" -> {k \in Written(x) : x.reads[k].ver > 0}
    [] Phases[i] \in {"deleteIndex", "deleteRow", "l1Delete"} -> x.deletes
    [] OTHER -> Written(x)

KeysOf(x, i) ==
  CASE Phases[i] = "check" -> {k \in Staged(x) : x.reads[k].ver > 0}
    [] Phases[i] \in {"deleteIndex", "deleteRow", "l1Delete"} -> x.deletes
    [] OTHER -> Written(x)

Init == /\ row = [k \in Keys |-> Absent] /\ idx = [k \in Keys |-> 0]
        /\ bloom = {} /\ l1 = [k \in Keys |-> 0]
        /\ tx = [t \in Threads |-> Fresh]
        /\ pc = [t \in Threads |-> 0] /\ todo = [t \in Threads |-> {}]
        /\ writes = 0 /\ calls = [t \in Threads |-> 0] /\ faults = 0
        /\ crossed = {} /\ raced = [t \in Threads |-> {}]
        /\ rejected = {} /\ torn = {}

-----------------------------------------------------------------------------
(* The calls that only stage.                                              *)

Charge(t) == /\ calls[t] < MaxCalls
             /\ calls' = [calls EXCEPT ![t] = @ + 1]
             /\ UNCHANGED <<writes, faults>>
Open(t) == pc[t] = 0 /\ tx[t].active

\* A closed transaction is replaced by a new one, or an open one abandoned.
Begin(t) == /\ pc[t] = 0 /\ tx[t] # Fresh /\ Charge(t)
            /\ tx' = [tx EXCEPT ![t] = Fresh]
            /\ raced' = [raced EXCEPT ![t] = {}]
            /\ UNCHANGED <<store, pc, todo, crossed, rejected, torn>>

TxSet(t, k) == /\ Open(t) /\ writes < MaxWrites
               /\ writes' = writes + 1
               /\ tx' = [tx EXCEPT ![t].writes[k] = writes + 1,
                                   ![t].deletes = @ \ {k}]
               /\ UNCHANGED <<store, pc, todo, calls, faults, history>>

TxDelete(t, k) == /\ Open(t) /\ Charge(t) /\ k \in Deletable
                  /\ tx' = [tx EXCEPT ![t].writes[k] = 0, ![t].deletes = @ \cup {k}]
                  /\ UNCHANGED <<store, pc, todo, history>>

\* Only a read that is not answered from the staged changes reaches SQLite;
\* it goes by the filter, and records the version of a document it finds if
\* it is the first that does.
TxGet(t, k) ==
  /\ Open(t) /\ Charge(t) /\ k \notin Staged(tx[t])
  /\ tx' = IF tx[t].reads[k].ver = 0 /\ k \in bloom
           THEN [tx EXCEPT ![t].reads[k] = row[k]] ELSE tx
  /\ UNCHANGED <<store, pc, todo, history>>

-----------------------------------------------------------------------------
(* commit.                                                                 *)

Rest(t) == pc' = [pc EXCEPT ![t] = 0] /\ todo' = [todo EXCEPT ![t] = {}]

\* The next phase from position i on that has keys to handle, or the end.
Enter(t, x, i) ==
  LET ahead == {j \in i..Len(Phases) : KeysOf(x, j) # {}}
  IN IF ahead = {} THEN Rest(t) /\ tx' = [tx EXCEPT ![t].active = FALSE]
     ELSE /\ pc' = [pc EXCEPT ![t] = Min(ahead)]
          /\ todo' = [todo EXCEPT ![t] = KeysOf(x, Min(ahead))]
          /\ UNCHANGED tx

\* k is handled in this phase.
Advance(t, k) ==
  IF todo[t] # {k} THEN /\ todo' = [todo EXCEPT ![t] = @ \ {k}]
                        /\ UNCHANGED <<pc, tx>>
  ELSE Enter(t, tx[t], pc[t] + 1)

At(t, phase, k) == pc[t] # 0 /\ Phases[pc[t]] = phase /\ k \in todo[t]

\* t has compared the version of k and has yet to write or delete its row.
InWindow(t, k) ==
  /\ pc[t] # 0 /\ k \in Staged(tx[t])
  /\ \/ Phases[pc[t]] = "check" /\ k \notin todo[t]
     \/ Phases[pc[t]] = "deleteIndex"
     \/ Phases[pc[t]] = "deleteRow" /\ (k \in todo[t] \/ k \in Written(tx[t]))
     \/ Phases[pc[t]] = "upsert" /\ k \in todo[t]
Races(t, k) == raced' = [u \in Threads |-> IF u # t /\ InWindow(u, k)
                                           THEN raced[u] \cup {k} ELSE raced[u]]

Commit(t) == /\ Open(t) /\ Charge(t)
             /\ Enter(t, tx[t], 1)
             /\ crossed' = crossed \cup
                  {k \in Staged(tx[t]) :
                     \E u \in Threads \ {t} : pc[u] # 0 /\ k \in Staged(tx[u])}
             /\ raced' = [raced EXCEPT ![t] = {}]
             /\ UNCHANGED <<store, rejected, torn>>

\* The version of a document the transaction read and changes has moved on:
\* rollback and ConcurrentModificationError.
Check(t, k) ==
  /\ At(t, "check", k)
  /\ IF row[k].ver = tx[t].reads[k].ver
     THEN Advance(t, k) /\ UNCHANGED rejected
     ELSE /\ tx' = [tx EXCEPT ![t] = [Fresh EXCEPT !.active = FALSE]]
          /\ rejected' = rejected \cup Docs(tx[t])
          /\ Rest(t)
  /\ UNCHANGED <<store, bounds, crossed, raced, torn>>

DeleteIndex(t, k) == /\ At(t, "deleteIndex", k) /\ Advance(t, k)
                     /\ idx' = [idx EXCEPT ![k] = 0]
                     /\ UNCHANGED <<row, bloom, l1, bounds, history>>

DeleteRow(t, k) == /\ At(t, "deleteRow", k) /\ Advance(t, k)
                   /\ row' = [row EXCEPT ![k] = Absent]
                   /\ Races(t, k)
                   /\ UNCHANGED <<idx, bloom, l1, bounds, crossed, rejected, torn>>

Upsert(t, k) == /\ At(t, "upsert", k) /\ Advance(t, k)
                /\ row' = [row EXCEPT ![k] = [num |-> tx[t].writes[k], ver |-> @.ver + 1]]
                /\ Races(t, k)
                /\ UNCHANGED <<idx, bloom, l1, bounds, crossed, rejected, torn>>

\* _update_blind_indexes: DELETE and INSERT of one key.
Index(t, k) == /\ At(t, "index", k) /\ Advance(t, k)
               /\ idx' = [idx EXCEPT ![k] = tx[t].writes[k]]
               /\ UNCHANGED <<row, bloom, l1, bounds, history>>

L1Delete(t, k) == /\ At(t, "l1Delete", k) /\ Advance(t, k)
                  /\ l1' = [l1 EXCEPT ![k] = 0]
                  /\ UNCHANGED <<row, idx, bloom, bounds, history>>

\* Variant: the filter is not told.
L1PutOnly(t, k) == /\ At(t, "l1Put", k) /\ Advance(t, k)
                   /\ l1' = [l1 EXCEPT ![k] = tx[t].writes[k]]
                   /\ UNCHANGED <<row, idx, bloom, bounds, history>>
L1Put(t, k) == /\ At(t, "l1Put", k) /\ Advance(t, k)
               /\ l1' = [l1 EXCEPT ![k] = tx[t].writes[k]]
               /\ bloom' = bloom \cup {k}
               /\ UNCHANGED <<row, idx, bounds, history>>

\* A statement raises: commit ends there. Nothing is undone, the transaction
\* stays open, and commit can be called again.
Fail(t) == /\ pc[t] \in 1..5 /\ faults < MaxFaults
           /\ faults' = faults + 1
           /\ torn' = torn \cup Docs(tx[t])
           /\ crossed' = crossed \cup Staged(tx[t])
           /\ Rest(t)
           /\ UNCHANGED <<store, tx, writes, calls, raced, rejected>>

\* L1 loses an entry to its capacity or to its TTL.
Evict(k) == /\ l1[k] # 0
            /\ l1' = [l1 EXCEPT ![k] = 0]
            /\ UNCHANGED <<row, idx, bloom, tx, pc, todo, bounds, history>>

CommitStep(t, k) == \/ Check(t, k) \/ DeleteIndex(t, k) \/ DeleteRow(t, k)
                    \/ Upsert(t, k) \/ Index(t, k) \/ L1Delete(t, k) \/ L1Put(t, k)

\* All threads have used up their calls.
Finished == /\ \A t \in Threads : pc[t] = 0
            /\ UNCHANGED vars

Next == \/ \E t \in Threads : Begin(t) \/ Commit(t) \/ Fail(t)
        \/ \E t \in Threads, k \in Keys : \/ TxSet(t, k) \/ TxDelete(t, k)
                                          \/ TxGet(t, k) \/ CommitStep(t, k)
        \/ \E k \in Keys : Evict(k)
        \/ Finished

Spec == Init /\ [][Next]_vars

-----------------------------------------------------------------------------
Numbers == 0..MaxWrites
Doc == [num : Numbers, ver : Nat]
Tx == [active : BOOLEAN, writes : [Keys -> Numbers], deletes : SUBSET Keys,
       reads : [Keys -> Doc]]

\* A transaction stages a key as a write or as a delete, never as both, and a
\* commit only has keys to handle that it staged.
TypeOK == /\ row \in [Keys -> Doc] /\ idx \in [Keys -> Numbers]
          /\ bloom \subseteq Keys /\ l1 \in [Keys -> Numbers]
          /\ tx \in [Threads -> Tx]
          /\ pc \in [Threads -> 0..Len(Phases)] /\ todo \in [Threads -> SUBSET Keys]
          /\ \A t \in Threads : /\ Written(tx[t]) \cap tx[t].deletes = {}
                                /\ todo[t] \subseteq Staged(tx[t])
                                /\ todo[t] # {} <=> pc[t] # 0
          /\ crossed \subseteq Keys /\ raced \in [Threads -> SUBSET Keys]
          /\ rejected \subseteq Numbers /\ torn \subseteq Numbers

\* t writes or deletes the row of k in this step.
Changes(t, k) == /\ At(t, "upsert", k) \/ At(t, "deleteRow", k)
                 /\ k \notin todo'[t] \/ pc'[t] # pc[t]
                 /\ row'[k] # row[k]

\* A document that a transaction has read is replaced or deleted by it only
\* while it is still the document of its first read, however many commits of
\* other threads came between; what changes between the comparison and the
\* write (raced) is not noticed. A document that is deleted and created again
\* has version 1 again, so the document itself is named where nobody deletes.
StaleChangesRejected ==
  [][\A t \in Threads, k \in Keys :
       Changes(t, k) /\ tx[t].reads[k].ver > 0 /\ k \notin raced[t]
         => /\ row[k].ver = tx[t].reads[k].ver
            /\ k \notin Deletable => row[k] = tx[t].reads[k]]_vars

\* A transaction that is rolled back on a conflict leaves nothing behind, in
\* rows, index or L1, whichever of its keys is in conflict and in whatever
\* order they are compared; unless an earlier commit of it raised halfway.
RejectedLeavesNothing ==
  \A k \in Keys : {row[k].num, idx[k], l1[k]} \cap (rejected \ torn) = {}

\* Between commits row, index, filter and L1 agree on every key, unless two
\* commits on it overlapped or one raised: then the last to write the row need
\* not be the last to write the index or L1.
CommittedAgree ==
  \A k \in Keys \ crossed :
    (\A t \in Threads : pc[t] # 0 => k \notin Staged(tx[t]))
      => /\ idx[k] = row[k].num /\ l1[k] \in {0, row[k].num}
         /\ row[k].num # 0 => k \in bloom

\* "automatic rollback on failure" (transaction.py:5) of the "Single atomic SQL
\* transaction" (transaction.py:109): no row shows a commit that raised.
RaisedCommitsLeaveNothing == \A k \in Keys : row[k].num \notin torn
=============================================================================
