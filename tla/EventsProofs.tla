---------------------------- MODULE EventsProofs ----------------------------
(***************************************************************************)
(* Theorems about Events, for any callers, keys, listeners and workload:   *)
(* a listener that keeps a copy of the store from its events is right.     *)
(***************************************************************************)
EXTENDS Events, TLAPS

\* A listener that copies every document subscribed to all changes.
CopyKept == \E i \in DOMAIN First["change"] :
              /\ Kind[First["change"][i]] = "mirror"
              /\ Pattern[First["change"][i]] = Keys

-----------------------------------------------------------------------------
(* The inductive invariant.                                                *)

Document == [num : Nat, exp : Nat]
CallRecord == [name : {"none", "store", "purge"}, num : Nat, at : Nat]
Events == [type : Types, key : Keys, num : Nat, of : Nat]

TypeOK ==
  /\ row \in [Keys -> Document] /\ now \in Nat /\ mirror \in [Keys -> Nat]
  /\ listeners \in [Types \cup {"change"} -> SUBSET Listeners]
  /\ todo \in [Threads -> SUBSET Keys] /\ op \in [Threads -> CallRecord]
  /\ news \in [Threads -> SUBSET Events]
  /\ event \in [Threads -> Events \cup {NoEvent}] /\ matched \in [Threads -> SUBSET Nat]
  /\ calls \in Nat /\ overlapped \subseteq Keys

\* A call finishes its statements before it dispatches, a purge announces
\* nothing before its DELETE, and a dispatch lasts while callbacks are left.
Phases == \A t \in Threads :
            /\ todo[t] # {} => event[t] = NoEvent
            /\ op[t].name = "purge" => todo[t] # {} /\ news[t] = {}
            /\ event[t] = NoEvent <=> matched[t] = {}

\* Only a listener that is called once calls off.
CopyListens == \A i \in DOMAIN First["change"] :
                 Kind[First["change"][i]] = "mirror"
                   => First["change"][i] \in listeners["change"]

\* What t has to tell about k is true of the row, and a row that a purge is
\* about to delete has expired.
Truthful(t, k) ==
  /\ \A e \in news[t] : e.key = k => /\ k \notin todo[t] /\ e.num = row[k].num
                                     /\ e.type = "expire" => row[k] = NoRow
  /\ event[t] # NoEvent /\ event[t].key = k => event[t].num = row[k].num
  /\ op[t].name = "purge" /\ k \in todo[t] => row[k].exp > 0 /\ row[k].exp <= op[t].at

\* t has yet to tell the copy about k.
Owes(t, k) == \/ \E e \in news[t] : e.key = k
              \/ /\ event[t] # NoEvent /\ event[t].key = k
                 /\ \E i \in matched[t] : Kind[Asked(event[t])[i]] = "mirror"

\* One call at a time is about k, and it owes the copy, if there is one,
\* whatever the copy lacks.
Followed(k) ==
  /\ \A t, u \in Threads : k \in Using(t) /\ k \in Using(u) => t = u
  /\ \A t \in Threads : Truthful(t, k)
  /\ CopyKept => mirror[k] = row[k].num \/ \E t \in Threads : Owes(t, k)

EInv == /\ TypeOK /\ Phases /\ CopyListens
        /\ \A k \in Keys \ overlapped : Followed(k)

-----------------------------------------------------------------------------
(* One thread moves.                                                       *)

Others(t) == \A u \in Threads \ {t} :
               /\ todo'[u] = todo[u] /\ op'[u] = op[u] /\ news'[u] = news[u]
               /\ event'[u] = event[u] /\ matched'[u] = matched[u]

\* A call that leaves the keys of the others alone, tells the truth and owes
\* the copy what it lacks keeps a key followed.
LEMMA KeyMove ==
  ASSUME NEW t \in Threads, NEW k \in Keys, Followed(k), Others(t),
         (\E u \in Threads \ {t} : k \in Using(u)) =>
            k \notin Using(t)' /\ row'[k] = row[k] /\ mirror'[k] = mirror[k],
         Truthful(t, k)',
         CopyKept /\ (mirror[k] = row[k].num \/ Owes(t, k))
           => mirror'[k] = row'[k].num \/ Owes(t, k)'
  PROVE  Followed(k)'
<1>1. \A u \in Threads \ {t} : Using(u)' = Using(u) /\ (Owes(u, k)' <=> Owes(u, k))
  BY DEF Others, Using, Owes
<1>2. \A u \in Threads : Owes(u, k) => k \in Using(u)
  BY DEF Owes, Using
<1>3. CASE \E u \in Threads \ {t} : k \in Using(u)
  <2>1. row'[k] = row[k] /\ mirror'[k] = mirror[k] /\ k \notin Using(t)'
    BY <1>3
  <2>2. k \notin Using(t) BY <1>3 DEF Followed
  <2>3. \A v, u \in Threads : k \in Using(v)' /\ k \in Using(u)' => v = u
    BY <1>1, <2>1 DEF Followed
  <2>4. \A u \in Threads : Truthful(u, k)'
    BY <2>1 DEF Followed, Truthful, Others
  <2>5. CopyKept => mirror'[k] = row'[k].num \/ \E u \in Threads : Owes(u, k)'
    BY <1>1, <1>2, <2>1, <2>2 DEF Followed
  <2> QED BY <2>3, <2>4, <2>5 DEF Followed
<1>4. CASE ~\E u \in Threads \ {t} : k \in Using(u)
  <2>1. \A v, u \in Threads : k \in Using(v)' /\ k \in Using(u)' => v = u
    BY <1>1, <1>4
  <2>2. ASSUME NEW u \in Threads \ {t} PROVE Truthful(u, k)'
    <3>1. k \notin Using(u) BY <1>4
    <3> QED BY <3>1 DEF Truthful, Using, Others
  <2>3. CopyKept => mirror'[k] = row'[k].num \/ \E u \in Threads : Owes(u, k)'
    BY <1>2, <1>4 DEF Followed
  <2> QED BY <2>1, <2>2, <2>3 DEF Followed
<1> QED BY <1>3, <1>4

\* An event is never NoEvent.
LEMMA EventIsOne == ASSUME NEW e \in Events PROVE e # NoEvent
BY DEF Events, NoEvent, Types

\* The phases are kept when one thread moves and keeps its own.
LEMMA PhaseMove ==
  ASSUME NEW t \in Threads, Phases, Others(t),
         todo'[t] # {} => event'[t] = NoEvent,
         op'[t].name = "purge" => todo'[t] # {} /\ news'[t] = {},
         event'[t] = NoEvent <=> matched'[t] = {}
  PROVE  Phases'
BY DEF Phases, Others

\* A store has its keys to itself, or they are overlapped.
LEMMA StoreKeeps ==
  ASSUME EventsAssumption, EInv, NEW t \in Threads, NEW keys \in SUBSET Keys,
         NEW exp \in Nat, Store(t, keys, exp)
  PROVE  EInv'
<1> USE DEF EInv
<1>1. TypeOK'
  BY DEF TypeOK, Store, Count, Begin, Overlap, Quiet, dispatching, CallRecord
<1>2. Others(t) BY DEF TypeOK, Store, Begin, Quiet, dispatching, Others
<1>3. /\ todo'[t] = keys /\ op'[t].name = "store" /\ news'[t] = {} /\ event'[t] = NoEvent
      /\ event[t] = NoEvent /\ news[t] = {} /\ matched' = matched
  BY DEF TypeOK, Store, Begin, Idle, Quiet, dispatching
<1>4. Phases' BY <1>2, <1>3, PhaseMove DEF Phases
<1>5. CopyListens' BY DEF CopyListens, Store, Quiet
<1>6. ASSUME NEW k \in Keys \ overlapped' PROVE Followed(k)'
  <2>1. k \notin overlapped /\ (k \in keys => \A u \in Threads \ {t} : k \notin Using(u))
    BY DEF Store, Overlap
  <2>2. Using(t)' = keys BY <1>3 DEF Using
  <2>3. row' = row /\ mirror' = mirror BY DEF Store, Quiet
  <2>4. Truthful(t, k)' BY <1>3 DEF Truthful
  <2>5. ~Owes(t, k) BY <1>3 DEF Owes
  <2> QED BY <1>2, <2>1, <2>2, <2>3, <2>4, <2>5, KeyMove
<1> QED BY <1>1, <1>4, <1>5, <1>6

\* A row is stored, and the call owes the event.
LEMMA StoreRowKeeps ==
  ASSUME EventsAssumption, EInv, NEW t \in Threads, StoreRow(t)
  PROVE  EInv'
<1> USE DEF EInv
<1>1. PICK j \in todo[t] :
        /\ row' = [row EXCEPT ![j] = [num |-> op[t].num, exp |-> op[t].at]]
        /\ todo' = [todo EXCEPT ![t] = @ \ {j}]
        /\ news' = [news EXCEPT ![t] = @ \cup {Event("write", j, op[t].num, op[t].num)}]
  BY DEF StoreRow
<1> DEFINE new == Event("write", j, op[t].num, op[t].num)
<1>2. /\ j \in Keys /\ op[t] \in CallRecord /\ event[t] = NoEvent /\ event' = event
      /\ matched' = matched /\ op' = op /\ op[t].name = "store"
  BY <1>1 DEF TypeOK, StoreRow, Quiet, dispatching, Phases
<1>3. new \in Events /\ new.key = j /\ new.num = op[t].num /\ new.type = "write"
  BY <1>2 DEF Event, Events, CallRecord, Types
<1>4. todo'[t] = todo[t] \ {j} /\ news'[t] = news[t] \cup {new}
  BY <1>1 DEF TypeOK
<1>5. [num |-> op[t].num, exp |-> op[t].at] \in Document BY <1>2 DEF CallRecord, Document
<1>6. TypeOK'
  <2>1. row' \in [Keys -> Document] BY <1>1, <1>5 DEF TypeOK
  <2>2. todo' \in [Threads -> SUBSET Keys] BY <1>1 DEF TypeOK
  <2>3. news' \in [Threads -> SUBSET Events] BY <1>1, <1>3 DEF TypeOK
  <2> QED BY <2>1, <2>2, <2>3 DEF TypeOK, StoreRow, Quiet, dispatching
<1>7. Others(t) BY <1>1, <1>2 DEF TypeOK, Others
<1>8. Phases' BY <1>2, <1>7, PhaseMove DEF Phases
<1>9. CopyListens' BY DEF CopyListens, StoreRow, Quiet
<1>10. ASSUME NEW k \in Keys \ overlapped' PROVE Followed(k)'
  <2>1. k \notin overlapped /\ mirror' = mirror BY DEF StoreRow, Quiet
  <2>2. Followed(k) BY <2>1
  <2>3. Using(t)' \subseteq Using(t) BY <1>2, <1>3, <1>4 DEF Using
  <2>4. j \in Using(t) BY <1>1 DEF Using
  <2>5. row'[k] = IF k = j THEN [num |-> op[t].num, exp |-> op[t].at] ELSE row[k]
    BY <1>1 DEF TypeOK
  <2>6. k = j => \A e \in news[t] : e.key # k BY <1>1, <2>2 DEF Followed, Truthful
  <2>7. Truthful(t, k)'
    BY <1>2, <1>3, <1>4, <2>2, <2>5, <2>6 DEF Followed, Truthful
  <2>8. (\E u \in Threads \ {t} : k \in Using(u)) => k \notin Using(t) /\ k # j
    BY <2>2, <2>4 DEF Followed
  <2>9. mirror[k] = row[k].num \/ Owes(t, k) => mirror'[k] = row'[k].num \/ Owes(t, k)'
    BY <1>2, <1>3, <1>4, <2>1, <2>5 DEF Owes
  <2> QED BY <1>7, <2>1, <2>2, <2>3, <2>5, <2>7, <2>8, <2>9, KeyMove
<1> QED BY <1>6, <1>8, <1>9, <1>10

\* A call that raises gives up its keys.
LEMMA StoreFailsKeeps ==
  ASSUME EventsAssumption, EInv, NEW t \in Threads, StoreFails(t)
  PROVE  EInv'
<1> USE DEF EInv
<1>1. NoCall \in CallRecord BY DEF NoCall, CallRecord
<1>2. Using(t) \subseteq Keys
  BY DEF TypeOK, Using, Events, NoEvent
<1>3. TypeOK'
  BY <1>1, <1>2 DEF TypeOK, StoreFails, Quiet, dispatching
<1>4. Others(t) BY DEF TypeOK, StoreFails, Quiet, dispatching, Others
<1>5. /\ todo'[t] = {} /\ news'[t] = {} /\ op'[t] = NoCall
      /\ event' = event /\ matched' = matched
  BY DEF TypeOK, StoreFails, Quiet, dispatching
<1>6. Phases' BY <1>4, <1>5, PhaseMove DEF Phases, NoCall
<1>7. CopyListens' BY DEF CopyListens, StoreFails, Quiet
<1>8. ASSUME NEW k \in Keys \ overlapped' PROVE Followed(k)'
  <2>1. k \notin overlapped /\ k \notin Using(t) /\ row' = row /\ mirror' = mirror
    BY DEF StoreFails, Quiet
  <2>2. Using(t)' \subseteq Using(t) BY <1>5 DEF Using
  <2>3. Truthful(t, k)' BY <1>5, <2>1 DEF Truthful, Followed, NoCall
  <2>4. ~Owes(t, k) BY <2>1 DEF Owes, Using
  <2> QED BY <1>4, <2>1, <2>2, <2>3, <2>4, KeyMove
<1> QED BY <1>3, <1>6, <1>7, <1>8

\* A delete that found a row owes the event; one that found none leaves the row.
LEMMA DeleteKeeps ==
  ASSUME EventsAssumption, EInv, NEW t \in Threads, NEW j \in Keys, Delete(t, j)
  PROVE  EInv'
<1> USE DEF EInv
<1> DEFINE new == Event("delete", j, 0, calls')
<1>1. calls' \in Nat BY DEF TypeOK, Delete, Count
<1>2. new \in Events /\ new.key = j /\ new.num = 0 /\ new.type = "delete"
  BY <1>1 DEF Event, Events, Types
<1>3. NoRow \in Document /\ NoRow.num = 0 BY DEF NoRow, Document
<1>4. /\ todo[t] = {} /\ news[t] = {} /\ event[t] = NoEvent /\ todo' = todo /\ op' = op
      /\ event' = event /\ matched' = matched /\ mirror' = mirror
  BY DEF Delete, Idle, Quiet, dispatching
<1>5. /\ news' = [news EXCEPT ![t] = {e \in {new} : Told(j)}]
      /\ news'[t] = {e \in {new} : Told(j)}
  BY DEF Delete, TypeOK
<1>6. TypeOK'
  <2>1. row' \in [Keys -> Document] BY <1>3 DEF Delete, TypeOK
  <2>2. news' \in [Threads -> SUBSET Events] BY <1>2, <1>5 DEF TypeOK
  <2> QED BY <1>1, <2>1, <2>2 DEF TypeOK, Delete, Overlap, Quiet, dispatching
<1>7. Others(t) BY <1>4, <1>5 DEF TypeOK, Others
<1>8. op[t].name # "purge" BY <1>4 DEF Phases
<1>9. Phases' BY <1>4, <1>7, <1>8, PhaseMove DEF Phases
<1>10. CopyListens' BY DEF CopyListens, Delete, Quiet
<1>11. ASSUME NEW k \in Keys \ overlapped' PROVE Followed(k)'
  <2>1. k \notin overlapped /\ (k = j => \A u \in Threads \ {t} : k \notin Using(u))
    BY DEF Delete, Overlap
  <2>2. Followed(k) BY <2>1
  <2>3. Using(t)' \subseteq {j} BY <1>2, <1>4, <1>5 DEF Using
  <2>4. row'[k] = IF k = j THEN NoRow ELSE row[k] BY DEF Delete, TypeOK
  <2>5. Truthful(t, k)' BY <1>2, <1>3, <1>4, <1>5, <1>8, <2>4 DEF Truthful
  <2>6. ~Owes(t, k) BY <1>4 DEF Owes
  <2>7. mirror[k] = row[k].num => mirror'[k] = row'[k].num \/ Owes(t, k)'
    <3>1. CASE k = j /\ Told(j)
      <4>1. new \in news'[t] /\ new.key = k BY <1>2, <1>5, <3>1
      <4> QED BY <4>1 DEF Owes
    <3>2. CASE k = j /\ ~Told(j) BY <1>4, <2>4, <3>2 DEF Told
    <3>3. CASE k # j BY <1>4, <2>4, <3>3
    <3> QED BY <3>1, <3>2, <3>3
  <2> QED BY <1>4, <1>7, <2>1, <2>2, <2>3, <2>4, <2>5, <2>6, <2>7, KeyMove
<1> QED BY <1>6, <1>9, <1>10, <1>11

\* A purge selects rows that have expired.
LEMMA PurgeSelectKeeps ==
  ASSUME EventsAssumption, EInv, NEW t \in Threads, PurgeSelect(t)
  PROVE  EInv'
<1> USE DEF EInv
<1>1. Expired(now) \subseteq Keys BY DEF Expired
<1>2. TypeOK'
  BY <1>1 DEF TypeOK, PurgeSelect, Count, Begin, Overlap, Quiet, dispatching, CallRecord
<1>3. Others(t) BY DEF TypeOK, PurgeSelect, Begin, Quiet, dispatching, Others
<1>4. /\ todo'[t] = Expired(now) /\ op'[t].name = "purge" /\ op'[t].at = now
      /\ news'[t] = {} /\ event'[t] = NoEvent /\ todo'[t] # {}
      /\ event[t] = NoEvent /\ news[t] = {} /\ matched' = matched
  BY DEF TypeOK, PurgeSelect, Begin, Idle, Quiet, dispatching
<1>5. Phases' BY <1>3, <1>4, PhaseMove DEF Phases
<1>6. CopyListens' BY DEF CopyListens, PurgeSelect, Quiet
<1>7. ASSUME NEW k \in Keys \ overlapped' PROVE Followed(k)'
  <2>1. k \notin overlapped
        /\ (k \in Expired(now) => \A u \in Threads \ {t} : k \notin Using(u))
    BY DEF PurgeSelect, Overlap
  <2>2. Using(t)' = Expired(now) BY <1>4 DEF Using
  <2>3. row' = row /\ mirror' = mirror BY DEF PurgeSelect, Quiet
  <2>4. Truthful(t, k)' BY <1>4, <2>3 DEF Truthful, Expired
  <2>5. ~Owes(t, k) BY <1>4 DEF Owes
  <2> QED BY <1>3, <2>1, <2>2, <2>3, <2>4, <2>5, KeyMove
<1> QED BY <1>2, <1>5, <1>6, <1>7

\* A purge deletes what has expired, and owes an event for all it selected.
LEMMA PurgeRowsKeeps ==
  ASSUME EventsAssumption, EInv, NEW t \in Threads, PurgeRows(t)
  PROVE  EInv'
<1> USE DEF EInv
<1> DEFINE gone(k) == Event("expire", k, 0, op[t].num)
<1>1. op[t] \in CallRecord /\ op[t].name = "purge" /\ todo[t] \subseteq Keys
  BY DEF TypeOK, PurgeRows
<1>2. /\ news[t] = {} /\ event[t] = NoEvent /\ event' = event /\ matched' = matched
      /\ mirror' = mirror
  BY <1>1 DEF Phases, PurgeRows, Quiet, dispatching
<1>3. \A k \in Keys : gone(k) \in Events /\ gone(k).key = k /\ gone(k).num = 0
  BY <1>1 DEF Event, Events, Types, CallRecord
<1>4. /\ todo'[t] = {} /\ op'[t] = NoCall /\ NoCall.name = "none"
      /\ news'[t] = {gone(k) : k \in todo[t]}
  BY DEF TypeOK, PurgeRows, NoCall
<1>5. NoRow \in Document /\ NoRow.num = 0 /\ NoCall \in CallRecord
  BY DEF NoRow, Document, NoCall, CallRecord
<1>6. TypeOK'
  <2>1. row' \in [Keys -> Document] BY <1>5 DEF PurgeRows, TypeOK
  <2>2. news'[t] \subseteq Events BY <1>1, <1>3, <1>4
  <2>3. news' \in [Threads -> SUBSET Events] BY <2>2 DEF TypeOK, PurgeRows
  <2> QED BY <1>5, <2>1, <2>3 DEF TypeOK, PurgeRows, Quiet, dispatching, Swept, Expired
<1>7. Others(t) BY <1>2 DEF TypeOK, Others, PurgeRows
<1>8. Phases' BY <1>2, <1>4, <1>7, PhaseMove DEF Phases
<1>9. CopyListens' BY DEF CopyListens, PurgeRows, Quiet
<1>10. ASSUME NEW k \in Keys \ overlapped' PROVE Followed(k)'
  <2>1. k \notin overlapped /\ (k \in Swept(t) => k \in todo[t]) BY DEF PurgeRows
  <2>2. Followed(k) BY <2>1
  <2>3. k \in todo[t] => k \in Swept(t)
    BY <1>1, <2>2 DEF Followed, Truthful, Swept, Expired
  <2>4. Using(t)' \subseteq Using(t) BY <1>1, <1>2, <1>3, <1>4 DEF Using
  <2>5. k \in todo[t] => k \in Using(t) BY DEF Using
  <2>6. row'[k] = IF k \in todo[t] THEN NoRow ELSE row[k] BY <2>1, <2>3 DEF PurgeRows
  <2>7. \A e \in news'[t] : e.key = k => e.num = 0 /\ k \in todo[t]
    BY <1>1, <1>3, <1>4
  <2>8. Truthful(t, k)' BY <1>2, <1>4, <1>5, <2>6, <2>7 DEF Truthful
  <2>9. (\E u \in Threads \ {t} : k \in Using(u)) => k \notin Using(t)
    BY <2>2 DEF Followed
  <2>10. ~Owes(t, k) BY <1>2 DEF Owes
  <2>11. k \in todo[t] => Owes(t, k)'
    <3>1. k \in todo[t] => gone(k) \in news'[t] /\ gone(k).key = k BY <1>3, <1>4
    <3> QED BY <3>1 DEF Owes
  <2> QED BY <1>2, <1>7, <2>2, <2>4, <2>5, <2>6, <2>8, <2>9, <2>10, <2>11, KeyMove
<1> QED BY <1>6, <1>8, <1>9, <1>10

\* The elements of the second of two sequences come after those of the first.
LEMMA SecondHalf ==
  ASSUME NEW S, NEW s \in Seq(S), NEW u \in Seq(S), NEW i \in 1 .. Len(u)
  PROVE  /\ Len(s) + i \in DOMAIN (s \o u) /\ (s \o u)[Len(s) + i] = u[i]
         /\ ~(Len(s) + i <= Len(s))
<1>1. Len(s) \in Nat /\ Len(u) \in Nat /\ Len(s \o u) = Len(s) + Len(u) OBVIOUS
<1>2. s \o u \in Seq(S) OBVIOUS
<1>3. Len(s) + i \in 1 .. Len(s \o u) BY <1>1
<1>4. (s \o u)[Len(s) + i] = u[i] BY <1>1, <1>3
<1> QED BY <1>1, <1>2, <1>3, <1>4

\* emit finds a listener that copies every document, whatever the event.
LEMMA CopyFound ==
  ASSUME EventsAssumption, CopyListens, CopyKept, NEW e \in Events
  PROVE  \E i \in Matching(e) : Kind[Asked(e)[i]] = "mirror"
<1>1. PICK i \in DOMAIN First["change"] :
        Kind[First["change"][i]] = "mirror" /\ Pattern[First["change"][i]] = Keys
  BY DEF CopyKept
<1>2. First[e.type] \in Seq(Listeners) /\ First["change"] \in Seq(Listeners)
  BY DEF EventsAssumption, Events
<1>3. i \in 1 .. Len(First["change"]) /\ Len(First[e.type]) \in Nat BY <1>1, <1>2
<1> DEFINE p == Len(First[e.type]) + i
<1>4. p \in DOMAIN Asked(e) /\ Asked(e)[p] = First["change"][i] /\ ~(p <= Len(First[e.type]))
  BY <1>2, <1>3, SecondHalf DEF Asked
<1>5. e.key \in Pattern[Asked(e)[p]] BY <1>1, <1>4 DEF Events
<1>6. Asked(e)[p] \in listeners["change"] BY <1>1, <1>4 DEF CopyListens
<1>7. p \in Matching(e) BY <1>4, <1>5, <1>6 DEF Matching
<1> QED BY <1>1, <1>4, <1>7

\* Who emits an event still owes it to the listeners it has collected.
LEMMA EmitKeeps ==
  ASSUME EventsAssumption, EInv, NEW t \in Threads, Emit(t)
  PROVE  EInv'
<1> USE DEF EInv
<1>1. PICK e \in news[t] :
        /\ news' = [news EXCEPT ![t] = @ \ {e}]
        /\ event' = [event EXCEPT ![t] = IF Matching(e) = {} THEN NoEvent ELSE e]
        /\ matched' = [matched EXCEPT ![t] = Matching(e)]
  BY DEF Emit
<1>2. /\ e \in Events /\ e # NoEvent /\ event[t] = NoEvent /\ todo[t] = {} /\ todo' = todo
      /\ row' = row /\ mirror' = mirror /\ op' = [op EXCEPT ![t] = NoCall]
      /\ overlapped' = overlapped
  BY <1>1, EventIsOne DEF TypeOK, Emit
<1>3. Matching(e) \subseteq Nat
  <2>1. First[e.type] \in Seq(Listeners) /\ First["change"] \in Seq(Listeners)
    BY <1>2 DEF EventsAssumption, Events
  <2>2. DOMAIN Asked(e) \subseteq Nat BY <2>1 DEF Asked
  <2> QED BY <2>2 DEF Matching
<1>4. /\ news'[t] = news[t] \ {e} /\ matched'[t] = Matching(e) /\ op'[t] = NoCall
      /\ event'[t] = IF Matching(e) = {} THEN NoEvent ELSE e
  BY <1>1, <1>2 DEF TypeOK
<1>5. NoCall \in CallRecord /\ NoCall.name = "none" BY DEF NoCall, CallRecord
<1>6. TypeOK' BY <1>1, <1>2, <1>3, <1>5 DEF TypeOK, Emit
<1>7. Others(t) BY <1>1, <1>2 DEF TypeOK, Others
<1>8. Phases' BY <1>2, <1>4, <1>5, <1>7, PhaseMove DEF Phases
<1>9. CopyListens' BY DEF CopyListens, Emit
<1>10. ASSUME NEW k \in Keys \ overlapped' PROVE Followed(k)'
  <2>1. Followed(k) BY <1>2
  <2>2. Using(t)' \subseteq Using(t) BY <1>1, <1>2, <1>4 DEF Using
  <2>3. (\E u \in Threads \ {t} : k \in Using(u)) => k \notin Using(t)
    BY <2>1 DEF Followed
  <2>4. Truthful(t, k)' BY <1>1, <1>2, <1>4, <1>5, <2>1 DEF Followed, Truthful
  <2>5. CopyKept /\ Owes(t, k) => Owes(t, k)'
    <3>1. SUFFICES ASSUME CopyKept, NEW d \in news[t], d.key = k PROVE Owes(t, k)'
      BY <1>2 DEF Owes
    <3>2. CASE d # e BY <1>4, <3>1, <3>2 DEF Owes
    <3>3. CASE d = e
      <4>1. PICK i \in Matching(e) : Kind[Asked(e)[i]] = "mirror" BY <1>2, <3>1, CopyFound
      <4>2. event'[t] = e /\ i \in matched'[t] BY <1>4, <4>1
      <4> QED BY <1>2, <3>1, <3>3, <4>1, <4>2 DEF Owes, Asked
    <3> QED BY <3>2, <3>3
  <2> QED BY <1>2, <1>7, <2>1, <2>2, <2>3, <2>4, <2>5, KeyMove
<1> QED BY <1>6, <1>8, <1>9, <1>10

\* The copy hears the event in hand; no other listener changes it.
LEMMA InvokeKeeps ==
  ASSUME EventsAssumption, EInv, NEW t \in Threads, Invoke(t)
  PROVE  EInv'
<1> USE DEF EInv
<1> DEFINE e == event[t]
<1>1. PICK i \in matched[t] :
        /\ matched' = [matched EXCEPT ![t] = matched[t] \ {i}]
        /\ event' = [event EXCEPT ![t] = IF matched[t] \ {i} = {} THEN NoEvent ELSE e]
        /\ mirror' = IF Kind[Asked(e)[i]] # "mirror" THEN mirror
                     ELSE [mirror EXCEPT ![e.key] = e.num]
        /\ listeners' = IF Kind[Asked(e)[i]] = "once" THEN Off(Asked(e)[i]) ELSE listeners
  BY DEF Invoke, Isolated
<1>2. /\ e \in Events /\ e # NoEvent /\ todo[t] = {} /\ op[t].name # "purge"
      /\ row' = row /\ todo' = todo /\ op' = op /\ news' = news /\ overlapped' = overlapped
  BY <1>1 DEF TypeOK, Phases, Invoke, calling
<1>3. e.key \in Keys /\ e.num \in Nat BY <1>2 DEF Events
<1>4. /\ matched'[t] = matched[t] \ {i}
      /\ event'[t] = IF matched[t] \ {i} = {} THEN NoEvent ELSE e
  BY <1>1 DEF TypeOK
<1>5. TypeOK'
  <2>1. mirror' \in [Keys -> Nat] BY <1>1, <1>3 DEF TypeOK
  <2>2. listeners' \in [Types \cup {"change"} -> SUBSET Listeners]
    BY <1>1 DEF TypeOK, Off, Unlisted
  <2>3. matched' \in [Threads -> SUBSET Nat] BY <1>1 DEF TypeOK
  <2>4. event' \in [Threads -> Events \cup {NoEvent}] BY <1>1, <1>2 DEF TypeOK
  <2> QED BY <1>2, <2>1, <2>2, <2>3, <2>4 DEF TypeOK, Invoke, calling
<1>6. Others(t) BY <1>1, <1>2 DEF TypeOK, Others
<1>7. Phases' BY <1>2, <1>4, <1>6, PhaseMove DEF Phases
<1>8. CopyListens'
  <2>1. SUFFICES ASSUME NEW j \in DOMAIN First["change"],
                        Kind[First["change"][j]] = "mirror"
                 PROVE  First["change"][j] \in listeners'["change"]
    BY DEF CopyListens
  <2>2. First["change"][j] \in listeners["change"] BY <2>1 DEF CopyListens
  <2>3. "change" \in DOMAIN listeners BY DEF TypeOK
  <2> QED BY <1>1, <2>1, <2>2, <2>3 DEF Off, Unlisted
<1>9. ASSUME NEW k \in Keys \ overlapped' PROVE Followed(k)'
  <2>1. Followed(k) BY <1>2
  <2>2. Using(t)' \subseteq Using(t) BY <1>2, <1>4 DEF Using
  <2>3. (\E u \in Threads \ {t} : k \in Using(u)) => k \notin Using(t)
    BY <2>1 DEF Followed
  <2>4. e.key = k => k \in Using(t) /\ e.num = row[k].num
    BY <1>2, <2>1 DEF Using, Followed, Truthful
  <2>5. mirror'[k] = IF Kind[Asked(e)[i]] = "mirror" /\ e.key = k THEN e.num ELSE mirror[k]
    BY <1>1 DEF TypeOK
  <2>6. Truthful(t, k)' BY <1>2, <1>4, <2>1 DEF Followed, Truthful
  <2>7. mirror[k] = row[k].num => mirror'[k] = row'[k].num BY <1>2, <2>4, <2>5
  <2>8. Owes(t, k) => mirror'[k] = row'[k].num \/ Owes(t, k)'
    <3>1. CASE \E d \in news[t] : d.key = k BY <1>2, <3>1 DEF Owes
    <3>2. ASSUME e.key = k, NEW p \in matched[t], Kind[Asked(e)[p]] = "mirror"
          PROVE  mirror'[k] = row'[k].num \/ Owes(t, k)'
      <4>1. CASE p = i BY <1>2, <2>4, <2>5, <3>2, <4>1
      <4>2. CASE p # i
        <5>1. p \in matched'[t] /\ event'[t] = e BY <1>4, <4>2
        <5> QED BY <1>2, <3>2, <5>1 DEF Owes, Asked
      <4> QED BY <4>1, <4>2
    <3> QED BY <3>1, <3>2 DEF Owes
  <2> QED BY <1>2, <1>6, <2>1, <2>2, <2>3, <2>4, <2>5, <2>6, <2>7, <2>8, KeyMove
<1> QED BY <1>5, <1>7, <1>8, <1>9

\* The clock and the coroutines touch nothing that the invariant mentions.
LEMMA AsideKeeps ==
  ASSUME EventsAssumption, EInv, Tick \/ RunTask \/ UNCHANGED vars
  PROVE  EInv'
<1>1. /\ row' = row /\ listeners' = listeners /\ todo' = todo /\ op' = op /\ news' = news
      /\ event' = event /\ matched' = matched /\ calls' = calls /\ mirror' = mirror
      /\ overlapped' = overlapped
  BY DEF Tick, RunTask, vars, calling, dispatching, history
<1>2. now' \in Nat
  BY DEF EInv, TypeOK, Tick, RunTask, vars, calling, dispatching, history
<1>3. TypeOK' BY <1>1, <1>2 DEF EInv, TypeOK
<1>4. Phases' BY <1>1 DEF EInv, Phases
<1>5. CopyListens' BY <1>1 DEF EInv, CopyListens
<1>6. ASSUME NEW k \in Keys \ overlapped' PROVE Followed(k)'
  <2>1. Followed(k) BY <1>1 DEF EInv
  <2> QED BY <1>1, <2>1 DEF Followed, Truthful, Owes, Using
<1> QED BY <1>3, <1>4, <1>5, <1>6 DEF EInv

-----------------------------------------------------------------------------
(* The theorems.                                                           *)

\* The invariant holds at first ...
LEMMA EventsInit == ASSUME EventsAssumption, Init PROVE EInv
<1>1. NoRow \in Document /\ NoCall \in CallRecord /\ NoRow.num = 0 /\ NoCall.name = "none"
  BY DEF NoRow, NoCall, Document, CallRecord
<1>2. listeners \in [Types \cup {"change"} -> SUBSET Listeners]
  <2>1. ASSUME NEW e \in Types \cup {"change"}
        PROVE  {First[e][i] : i \in DOMAIN First[e]} \subseteq Listeners
    <3>1. First[e] \in Seq(Listeners) BY DEF EventsAssumption
    <3> QED BY <3>1
  <2>2. DOMAIN First = Types \cup {"change"} BY DEF EventsAssumption
  <2> QED BY <2>1, <2>2 DEF Init
<1>3. TypeOK BY <1>1, <1>2 DEF Init, TypeOK, EventsAssumption
<1>4. Phases BY <1>1 DEF Init, Phases
<1>5. CopyListens
  <2>1. "change" \in DOMAIN First BY DEF EventsAssumption
  <2> QED BY <2>1 DEF Init, CopyListens
<1>6. ASSUME NEW k \in Keys PROVE Followed(k)
  BY <1>1 DEF Init, Followed, Truthful, Using
<1> QED BY <1>3, <1>4, <1>5, <1>6 DEF EInv

\* ... and every step keeps it.
LEMMA EventsNext == ASSUME EventsAssumption, EInv, [Next]_vars PROVE EInv'
<1>1. ASSUME NEW t \in Threads, Call(t) PROVE EInv'
  <2>1. ASSUME NEW keys \in SUBSET Keys, NEW exp \in {0, now + 1}, Store(t, keys, exp)
        PROVE  EInv'
    <3>1. exp \in Nat BY DEF EInv, TypeOK
    <3> QED BY <2>1, <3>1, StoreKeeps
  <2> QED BY <1>1, <2>1, DeleteKeeps, PurgeSelectKeeps DEF Call
<1>2. ASSUME NEW t \in Threads, Step(t) \/ StoreFails(t) PROVE EInv'
  BY <1>2, StoreRowKeeps, PurgeRowsKeeps, EmitKeeps, InvokeKeeps, StoreFailsKeeps DEF Step
<1>3. CASE Tick \/ RunTask \/ Finished \/ UNCHANGED vars
  BY <1>3, AsideKeeps DEF Finished
<1> QED BY <1>1, <1>2, <1>3 DEF Next

\* In every state, calls that have a key to themselves tell the truth about it, and
\* owe the copy whatever it lacks.
THEOREM EventsInvariant == ASSUME EventsAssumption PROVE Spec => []EInv
<1>1. Init => EInv BY EventsInit
<1>2. EInv /\ [Next]_vars => EInv' BY EventsNext
<1> QED BY <1>1, <1>2, PTL DEF Spec

\* A listener of every change that stores what the events say has, for every
\* document whose calls neither overlapped nor raised and are over, exactly
\* what the store has, however the calls and dispatches of others interleave
\* and whatever the listeners beside it do.
THEOREM CopyAgreesAlways ==
  ASSUME EventsAssumption, CopyKept PROVE Spec => []MirrorAgrees
<1>1. EInv => MirrorAgrees
  <2>1. SUFFICES ASSUME EInv, NEW k \in Keys \ overlapped,
                        \A t \in Threads : k \notin Using(t)
                 PROVE  mirror[k] = row[k].num
    BY DEF MirrorAgrees
  <2>2. \A t \in Threads : ~Owes(t, k) BY <2>1 DEF Owes, Using
  <2> QED BY <2>1, <2>2 DEF EInv, Followed
<1> QED BY <1>1, EventsInvariant, PTL

\* When an expire event goes out the document is gone, unless another call
\* used it beside the purge.
THEOREM ExpireMeansGoneAlways ==
  ASSUME EventsAssumption PROVE Spec => ExpireMeansGone
<1>1. ASSUME EInv, NEW t \in Threads, Emit(t), event'[t].type = "expire",
             event'[t].key \notin overlapped
      PROVE  row[event'[t].key] = NoRow
  <2>1. PICK e \in news[t] :
          event' = [event EXCEPT ![t] = IF Matching(e) = {} THEN NoEvent ELSE e]
    BY <1>1 DEF Emit
  <2>2. event'[t] = IF Matching(e) = {} THEN NoEvent ELSE e BY <1>1, <2>1 DEF EInv, TypeOK
  <2>3. event'[t] = e BY <1>1, <2>2 DEF NoEvent
  <2>4. e.key \in Keys BY <1>1 DEF EInv, TypeOK, Events
  <2> QED BY <1>1, <2>3, <2>4 DEF EInv, Followed, Truthful
<1>2. EInv /\ [Next]_vars
        => [\A t \in Threads : Emit(t) /\ event'[t].type = "expire"
                                 /\ event'[t].key \notin overlapped
              => row[event'[t].key] = NoRow]_vars
  BY <1>1
<1> QED BY <1>2, EventsInvariant, PTL DEF Spec, ExpireMeansGone
=============================================================================
