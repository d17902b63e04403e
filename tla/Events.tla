------------------------------- MODULE Events -------------------------------
(***************************************************************************)
(* src/events.py and the calls of src/database.py that emit: a call        *)
(* changes its rows first and emits afterwards, outside any lock. emit     *)
(* collects the matching listeners under the lock of the dispatcher and    *)
(* runs them in the thread of the caller; a coroutine gets a thread or a   *)
(* task of its own.                                                        *)
(*                                                                         *)
(* A document is the number of the call that wrote it. The same pattern of *)
(* rows and emits is in WriteBehind's flush and Transaction's commit.      *)
(***************************************************************************)
EXTENDS Integers, Sequences

CONSTANTS Keys,        \* document keys
          Threads,     \* callers of the store
          Work,        \* Work[t]: the calls that t makes
          Listeners,   \* callbacks
          Kind,        \* Kind[l]: "mirror", "raising", "coroutine" or "once"
          Pattern,     \* Pattern[l]: the keys that l's pattern matches
          First,       \* First[e]: the listeners of e, in the order they subscribed
          MaxCalls,    \* bound: calls
          MaxTime,     \* bound: seconds
          MaxFaults    \* bound: statements that raise

Types == {"write", "delete", "expire"}

ASSUME EventsAssumption ==
  /\ Work \in [Threads -> SUBSET {"store", "delete", "purge"}]
  /\ Kind \in [Listeners -> {"mirror", "raising", "coroutine", "once"}]
  /\ Pattern \in [Listeners -> SUBSET Keys]
  /\ First \in [Types \cup {"change"} -> Seq(Listeners)]
  /\ MaxCalls \in Nat /\ MaxTime \in Nat /\ MaxFaults \in Nat

VARIABLES row,        \* row[k]: the document, and its expires_at; 0: never
          now,        \* the clock
          listeners,  \* _listeners: those of an event that have not called off
          todo,       \* todo[t]: keys whose statement t still has to run
          op,         \* op[t]: the call of t
          news,       \* news[t]: events t still has to emit
          event, matched,  \* event[t], matched[t]: the event that t dispatches
                           \* and whom it still has to call, as positions in Asked
          tasks,      \* coroutines that run
          calls, faults,  \* how much of the bounds is used
          mirror,     \* history: mirror[k]: what a mirror listener has heard of k
          awaited,    \* history: pairs of a listener and an event it has to hear
          overlapped  \* history: keys that two calls used at once, whose call
                      \* raised, or whose row was stored, with its time over,
                      \* between the two statements of a purge

calling == <<todo, op, news>>
dispatching == <<event, matched, tasks>>
history == <<mirror, awaited, overlapped>>
vars == <<row, now, listeners, calling, dispatching, calls, faults, history>>

NoRow == [num |-> 0, exp |-> 0]
NoCall == [name |-> "none", num |-> 0, at |-> 0]
NoEvent == [type |-> "none", key |-> CHOOSE k \in Keys : TRUE, num |-> 0, of |-> 0]

Init == /\ row = [k \in Keys |-> NoRow] /\ now = 1
        /\ listeners = [e \in DOMAIN First |-> {First[e][i] : i \in DOMAIN First[e]}]
        /\ todo = [t \in Threads |-> {}] /\ op = [t \in Threads |-> NoCall]
        /\ news = [t \in Threads |-> {}]
        /\ event = [t \in Threads |-> NoEvent] /\ matched = [t \in Threads |-> {}]
        /\ tasks = {}
        /\ calls = 0 /\ faults = 0
        /\ mirror = [k \in Keys |-> 0] /\ awaited = {}
        /\ overlapped = {}

-----------------------------------------------------------------------------
(* The calls.                                                              *)

Idle(t) == todo[t] = {} /\ news[t] = {} /\ event[t] = NoEvent
Count == calls < MaxCalls /\ calls' = calls + 1
\* The keys a call of t is about, until its events are out.
Using(t) == todo[t] \cup {e.key : e \in news[t]}
            \cup IF event[t] = NoEvent THEN {} ELSE {event[t].key}
Overlap(t, keys) == overlapped' = overlapped \cup
                      (keys \cap UNION {Using(u) : u \in Threads \ {t}})
Begin(t, name, at) == op' = [op EXCEPT ![t] = [name |-> name, num |-> calls', at |-> at]]
\* An event carries a document and, here, the call that emits it.
Event(type, k, num, of) == [type |-> type, key |-> k, num |-> num, of |-> of]
Quiet == <<now, listeners, dispatching, mirror, awaited>>

\* kv_set of one key, kv_mset of several.
Store(t, keys, exp) ==   /\ Idle(t) /\ Count
                         /\ Begin(t, "store", exp)
                         /\ todo' = [todo EXCEPT ![t] = keys]
                         /\ Overlap(t, keys)
                         /\ UNCHANGED <<row, news, faults, Quiet>>
StoreRow(t) ==
  /\ op[t].name = "store"
  /\ \E k \in todo[t] :
       /\ row' = [row EXCEPT ![k] = [num |-> op[t].num, exp |-> op[t].at]]
       /\ todo' = [todo EXCEPT ![t] = @ \ {k}]
       /\ news' = [news EXCEPT ![t] = @ \cup {Event("write", k, op[t].num, op[t].num)}]
  /\ UNCHANGED <<op, calls, faults, overlapped, Quiet>>
\* A statement raises: what is stored stays, and nothing is emitted.
StoreFails(t) == /\ op[t].name = "store"
                 /\ faults < MaxFaults /\ faults' = faults + 1
                 /\ overlapped' = overlapped \cup Using(t)
                 /\ todo' = [todo EXCEPT ![t] = {}] /\ news' = [news EXCEPT ![t] = {}]
                 /\ op' = [op EXCEPT ![t] = NoCall]
                 /\ UNCHANGED <<row, calls, Quiet>>

Expired(at) == {k \in Keys : row[k].exp > 0 /\ row[k].exp <= at}
\* Variant: a document that has expired goes without a word.
ToldOfFresh(k) == row[k] # NoRow /\ k \notin Expired(now)
\* The DELETE has found a row.
Told(k) == row[k] # NoRow
\* kv_delete, also called by a read that finds the document expired.
Delete(t, k) == /\ Idle(t) /\ Count
                /\ row' = [row EXCEPT ![k] = NoRow]
                /\ news' = [news EXCEPT ![t] = {e \in {Event("delete", k, 0, calls')} : Told(k)}]
                /\ Overlap(t, {k})
                /\ UNCHANGED <<todo, op, faults, Quiet>>

\* purge_expired_records: a SELECT ...
PurgeSelect(t) == /\ Idle(t) /\ Count
                  /\ Expired(now) # {}
                  /\ Begin(t, "purge", now)
                  /\ todo' = [todo EXCEPT ![t] = Expired(now)]
                  /\ Overlap(t, Expired(now))
                  /\ UNCHANGED <<row, news, faults, Quiet>>
\* Variant: the two statements do not agree on the last second.
SweptBefore(t) == Expired(op[t].at - 1)
Swept(t) == Expired(op[t].at)
\* ... a DELETE for the same time, and events for what the SELECT returned.
PurgeRows(t) ==
  /\ op[t].name = "purge"
  /\ row' = [k \in Keys |-> IF k \in Swept(t) THEN NoRow ELSE row[k]]
  /\ news' = [news EXCEPT ![t] = {Event("expire", k, 0, op[t].num) : k \in todo[t]}]
  /\ todo' = [todo EXCEPT ![t] = {}]
  /\ op' = [op EXCEPT ![t] = NoCall]
  /\ overlapped' = overlapped \cup (Swept(t) \ todo[t])
  /\ UNCHANGED <<calls, faults, Quiet>>

Tick == /\ now < MaxTime /\ now' = now + 1
        /\ UNCHANGED <<row, listeners, calling, dispatching, calls, faults, history>>

-----------------------------------------------------------------------------
(* The dispatcher.                                                         *)

\* Those of the type, then those of "change". Nobody subscribes during a run.
Asked(e) == First[e.type] \o First["change"]
Matching(e) ==
  {i \in DOMAIN Asked(e) :
     /\ e.key \in Pattern[Asked(e)[i]]
     /\ Asked(e)[i] \in listeners[IF i <= Len(First[e.type]) THEN e.type ELSE "change"]}
Awaiting(l, e) == <<l, e.of, e.key>>

\* emit: the listeners are collected under the lock, and run after it.
Emit(t) ==
  /\ event[t] = NoEvent /\ todo[t] = {}
  /\ \E e \in news[t] :
       LET found == Matching(e)
       IN /\ news' = [news EXCEPT ![t] = @ \ {e}]
          /\ event' = [event EXCEPT ![t] = IF found = {} THEN NoEvent ELSE e]
          /\ matched' = [matched EXCEPT ![t] = found]
          /\ awaited' = awaited \cup {Awaiting(Asked(e)[i], e) : i \in found}
  /\ op' = [op EXCEPT ![t] = NoCall]
  /\ UNCHANGED <<row, now, listeners, todo, tasks, calls, faults, mirror, overlapped>>

Unlisted(l, e) == listeners[e] \ {l}
\* off, for every event the listener was registered for.
Off(l) == [e \in DOMAIN listeners |-> Unlisted(l, e)]

\* Variant: an exception ends the dispatch.
AfterRaise(rest) == {}
\* _invoke_callback prints it.
Isolated(rest) == rest

\* _invoke_callback, for the first that is left.
Invoke(t) == \E i \in matched[t] :
  /\ \A j \in matched[t] : i <= j
  /\ LET e == event[t]
         l == Asked(e)[i]
         rest == IF Kind[l] = "raising" THEN Isolated(matched[t] \ {i})
                 ELSE matched[t] \ {i}
     IN /\ matched' = [matched EXCEPT ![t] = rest]
        /\ event' = [event EXCEPT ![t] = IF rest = {} THEN NoEvent ELSE e]
        /\ mirror' = IF Kind[l] # "mirror" THEN mirror
                     ELSE [mirror EXCEPT ![e.key] = e.num]
        /\ listeners' = IF Kind[l] = "once" THEN Off(l) ELSE listeners
        /\ IF Kind[l] = "coroutine"
           THEN tasks' = tasks \cup {Awaiting(l, e)} /\ UNCHANGED awaited
           ELSE awaited' = awaited \ {Awaiting(l, e)} /\ UNCHANGED tasks
  /\ UNCHANGED <<row, now, calling, calls, faults, overlapped>>

\* Coroutines run in any order.
RunTask == \E task \in tasks :
             /\ tasks' = tasks \ {task} /\ awaited' = awaited \ {task}
             /\ UNCHANGED <<row, now, listeners, calling, event, matched, calls, faults, mirror,
                            overlapped>>

Call(t) ==
  \/ \E keys \in (SUBSET Keys) \ {{}}, exp \in {0, now + 1} :
       "store" \in Work[t] /\ Store(t, keys, exp)
  \/ \E k \in Keys : "delete" \in Work[t] /\ Delete(t, k)
  \/ "purge" \in Work[t] /\ PurgeSelect(t)
Step(t) == StoreRow(t) \/ PurgeRows(t) \/ Emit(t) \/ Invoke(t)

\* The calls are used up.
Finished == /\ \A t \in Threads : Idle(t)
            /\ UNCHANGED vars

Next == \/ \E t \in Threads : Call(t) \/ Step(t) \/ StoreFails(t)
        \/ Tick \/ RunTask \/ Finished

\* Threads and tasks that are in progress go on.
Spec == /\ Init /\ [][Next]_vars
        /\ \A t \in Threads : WF_vars(Step(t))
        /\ WF_vars(RunTask)

-----------------------------------------------------------------------------
\* A listener that keeps a copy of the store from the events has the store's
\* documents, wherever calls on a key did not overlap or raise (see overlapped): every change
\* is announced, after it is there, by one event, and in order.
MirrorAgrees ==
  \A k \in Keys \ overlapped :
    (\A t \in Threads : k \notin Using(t)) => mirror[k] = row[k].num

\* An expire event means that the document is gone, unless another call used
\* the key beside the purge.
ExpireMeansGone ==
  [][\A t \in Threads : Emit(t) /\ event'[t].type = "expire" /\ event'[t].key \notin overlapped
       => row[event'[t].key] = NoRow]_vars

\* Every listener that matched hears the event in the end, also those after
\* one that raises, and the coroutines.
EveryChangeHeard == []<>(awaited = {})
=============================================================================
