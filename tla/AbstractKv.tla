----------------------------- MODULE AbstractKv -----------------------------
(***************************************************************************)
(* What the key-value API of src/database.py promises its callers: a       *)
(* versioned map with expiring documents in which every call takes effect  *)
(* at ONE moment between its invocation and its return. A batch write is   *)
(* one effect ("a single atomic SQL transaction"), a conditional write     *)
(* succeeds only on the version it names, and a document leaves the map    *)
(* without being deleted only after it has expired.                        *)
(*                                                                         *)
(* A get finds a document only if its key is public. A store makes its key *)
(* public at the latest when it returns, and public it stays until the     *)
(* process ends: so a get sees every put and create that returned before   *)
(* it began, and what updates make of those documents. It may miss a       *)
(* document whose first store has not returned, although another call, a   *)
(* create that fails for instance, has seen it already. A call that raises *)
(* may have had its effect or not, and may leave its key out of public.    *)
(***************************************************************************)
EXTENDS Integers

CONSTANTS Keys,      \* document keys
          Values,    \* document payloads
          Threads,   \* callers
          NoDoc      \* absence of a document

VARIABLES store,     \* store[k]: the document of k, or NoDoc
          public,    \* the keys that reads may find
          now,       \* wall clock, in seconds
          call,      \* call[t]: the call t is in, or NoCall
          res,       \* res[t]: what the last read or conditional write returned
          faults     \* exceptions that callers got, or the start of a process

vars == <<store, public, now, call, res, faults>>

NoCall == [op |-> "none"]

NoRes == [key |-> NoDoc, val |-> NoDoc, ver |-> 0]

Doc == [val : Values, ver : Nat \ {0}, exp : Nat]

Requests == [op : {"put", "get", "getv", "create", "update", "delete"},
             keys : (SUBSET Keys) \ {{}}, val : Values \cup {NoDoc},
             exp : Nat, ver : Nat, done : BOOLEAN]

Present(k) == store[k] # NoDoc
Expired(d) == d # NoDoc /\ d.exp > 0 /\ d.exp <= now

Init == /\ store = [k \in Keys |-> NoDoc]
        /\ public = {}
        /\ now \in Nat
        /\ call = [t \in Threads |-> NoCall]
        /\ res = [t \in Threads |-> NoRes]
        /\ faults = 0

Invoke(t) ==
  /\ call[t] = NoCall
  /\ call' = [call EXCEPT ![t] = call'[t]]
  /\ call'[t] \in Requests /\ ~call'[t].done
  /\ UNCHANGED <<store, public, now, res, faults>>

\* The document a write leaves: a fresh one starts at version 1.
Written(k, c) == [val |-> c.val, exp |-> c.exp,
                  ver |-> IF Present(k) THEN store[k].ver + 1 ELSE 1]

Missed(k) == [key |-> k, val |-> NoDoc, ver |-> 0]

\* The one moment; the call may still have work to do. Reads, deletes and
\* rejected writes may return with it.
Effect(t) ==
  LET c == call[t]
      Take(s, r) == /\ store' = s
                    /\ res' = [res EXCEPT ![t] = r]
                    /\ \/ call' = [call EXCEPT ![t].done = TRUE]
                       \/ /\ c.op = "delete" \/ s = store
                          /\ call' = [call EXCEPT ![t] = NoCall]
      Put(K) == [k \in Keys |-> IF k \in K THEN Written(k, c) ELSE store[k]]
      Got(k) == IF k \in public /\ Present(k) /\ ~Expired(store[k])
                THEN [key |-> k, val |-> store[k].val,
                      ver |-> IF c.op = "getv" THEN store[k].ver ELSE 0]
                ELSE Missed(k)
  IN /\ c # NoCall /\ ~c.done
     /\ UNCHANGED <<public, now, faults>>
     /\ \/ c.op = "put" /\ Take(Put(c.keys), res[t])
        \/ c.op \in {"get", "getv"} /\ \E k \in c.keys : Take(store, Got(k))
        \/ c.op = "delete"
             /\ Take([k \in Keys |-> IF k \in c.keys THEN NoDoc ELSE store[k]], res[t])
        \/ c.op \in {"create", "update"} /\ \E k \in c.keys :
             LET ok == IF c.op = "create" THEN ~Present(k)
                       ELSE Present(k) /\ store[k].ver = c.ver
             IN Take(IF ok THEN Put({k}) ELSE store,
                     IF ok THEN [key |-> k, val |-> c.val, ver |-> c.ver + 1]
                     ELSE NoRes)

Stores(t) == call[t].op \in {"put", "create"}

\* A store may make its keys public before it changes them.
Publish(t) == /\ call[t] # NoCall /\ Stores(t)
              /\ public' = public \cup call[t].keys
              /\ UNCHANGED <<store, now, call, res, faults>>

Return(t) == /\ call[t] # NoCall /\ call[t].done
             /\ call' = [call EXCEPT ![t] = NoCall]
             /\ public' = IF Stores(t) THEN public \cup call[t].keys ELSE public
             /\ UNCHANGED <<store, now, res, faults>>

\* The caller gets an exception, before or after the effect, and in the second
\* case does not learn the version it has written.
Raise(t) == /\ call[t] # NoCall
            /\ faults' = faults + 1
            /\ call' = [call EXCEPT ![t] = NoCall]
            /\ \/ UNCHANGED res
               \/ call[t].done /\ res' = [res EXCEPT ![t] = NoRes]
            /\ UNCHANGED <<store, public, now>>

\* Expired documents may disappear at any time; live ones may not.
Evict == /\ \E E \in SUBSET {k \in Keys : Expired(store[k])} :
              store' = [k \in Keys |-> IF k \in E THEN NoDoc ELSE store[k]]
         /\ UNCHANGED <<public, now, call, res, faults>>

Tick == now' = now + 1 /\ UNCHANGED <<store, public, call, res, faults>>

\* A crash loses the callers, never a document. A restart makes every unexpired
\* document public, unless its SELECT raises.
Crash == /\ call' = [t \in Threads |-> NoCall]
         /\ res' = [t \in Threads |-> NoRes]
         /\ \/ /\ public' = {k \in Keys : Present(k) /\ ~Expired(store[k])}
               /\ UNCHANGED faults
            \/ public' = {} /\ faults' = faults + 1
         /\ UNCHANGED <<store, now>>

Next == \/ \E t \in Threads : \/ Invoke(t) \/ Publish(t) \/ Effect(t)
                               \/ Return(t) \/ Raise(t)
        \/ Evict \/ Tick \/ Crash

Spec == Init /\ [][Next]_vars
=============================================================================
