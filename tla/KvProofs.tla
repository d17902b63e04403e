------------------------------ MODULE KvProofs ------------------------------
(***************************************************************************)
(* Theorems about KvStore, for every set of keys, values and threads and   *)
(* every workload that KvAssumption admits.                                *)
(***************************************************************************)
EXTENDS KvProperties, TLAPS

(***************************************************************************)
(* Shape alone is not inductive: a write stores loc[t].val and a delete    *)
(* works on loc[t].key, so the proof needs to know which calls can stand   *)
(* at which statement and what their locals hold there.                    *)
(***************************************************************************)
KeyOps == {"set", "create", "update", "get", "getv", "delete"}

AtLabel(p, op) ==
  /\ p = "idle" => op = "none"
  /\ p \in {"lookup", "select"} => op \in Reads
  /\ p = "upsert" => op \in {"set", "mset"}
  /\ p = "insert" => op = "create"
  /\ p = "update" => op = "update"
  /\ p \in {"clearIndex", "insertIndex"} => op \in WriteOps
  /\ p = "bloomAdd" => op \in {"set", "create", "mset"} \cup Rebuilds
  /\ p \in {"deleteIndex", "deleteRow"} => op \in Reads \cup {"delete"}
  /\ p \in {"purgeSelect", "purgeIndex", "purgeRows"} => op = "purge"
  /\ p \in {"rebuildSelect", "rebuildClear"} => op \in Rebuilds

\* p and c are the label and the locals of one thread.
CallOK(p, c) ==
  /\ AtLabel(p, c.op)
  /\ c.op \in WriteOps => c.val \in Values
  /\ c.op \in KeyOps => c.key \in Keys /\ c.keys = {c.key} /\ c.todo = {c.key}
  /\ c.op = "mset" => c.key \in Keys /\ c.todo # {} /\ c.todo \subseteq c.keys

CallsOK == \A t \in Threads : CallOK(pc[t], loc[t])
TInv == Shape /\ CallsOK

-----------------------------------------------------------------------------
(* How a step moves one thread.                                            *)

\* Thread t goes to label p with locals c; the other threads stay.
MovesTo(t, p, c) == /\ pc' = [pc EXCEPT ![t] = p]
                    /\ loc' = [loc EXCEPT ![t] = c]
Moves(t) == \E p \in Labels, c \in CallRecord : CallOK(p, c) /\ MovesTo(t, p, c)

PcLocOK == /\ pc' \in [Threads -> Labels]
           /\ loc' \in [Threads -> CallRecord]
           /\ CallsOK'

\* A step that moves one thread to a fitting label and locals keeps the types.
LEMMA MovesOK == ASSUME TInv, NEW t \in Threads, Moves(t) PROVE PcLocOK
<1>1. PICK p \in Labels, c \in CallRecord : CallOK(p, c) /\ MovesTo(t, p, c)
  BY DEF Moves
<1>2. pc' \in [Threads -> Labels] /\ loc' \in [Threads -> CallRecord]
  BY <1>1 DEF MovesTo, TInv, Shape
<1>3. ASSUME NEW u \in Threads PROVE CallOK(pc'[u], loc'[u])
  <2>1. CASE u = t BY <1>1, <2>1 DEF MovesTo, TInv, Shape
  <2>2. CASE u # t
    <3>1. pc'[u] = pc[u] /\ loc'[u] = loc[u]
      BY <1>1, <2>2 DEF MovesTo, TInv, Shape
    <3> QED BY <3>1 DEF TInv, CallsOK
  <2> QED BY <2>1, <2>2
<1>4. CallsOK'
  BY <1>3 DEF CallsOK
<1> QED BY <1>2, <1>4 DEF PcLocOK

\* The locals of a call are a record of the expected shape.
LEMMA LocType ==
  ASSUME Shape, NEW t \in Threads
  PROVE  /\ loc[t] \in CallRecord
         /\ loc[t].op \in {"none"} \cup AllOps
         /\ loc[t].keys \in SUBSET Keys /\ loc[t].todo \in SUBSET Keys
         /\ loc[t].key \in Keys \cup {NoDoc}
         /\ loc[t].val \in Values \cup {NoDoc}
         /\ loc[t].exp \in Nat /\ loc[t].ver \in Nat
  BY DEF Shape, CallRecord

\* The locals of the call t is in, as its label tells.
LEMMA CallFacts ==
  ASSUME TInv, NEW t \in Threads
  PROVE  /\ CallOK(pc[t], loc[t])
         /\ pc[t] \in Labels
  BY DEF TInv, CallsOK, Shape

\* So are those of an idle thread.
LEMMA NoCallTyped == NoCall \in CallRecord
  BY DEF CallRecord, NoCall

\* Returning from a call is such a move.
LEMMA ReturnMoves ==
  ASSUME TInv, NEW t \in Threads, Return(t) PROVE Moves(t)
<1>1. CallOK("idle", NoCall)
  BY DEF CallOK, AtLabel, NoCall, WriteOps, KeyOps
<1>2. MovesTo(t, "idle", NoCall) BY DEF Return, Goto, MovesTo
<1> QED BY <1>1, <1>2, NoCallTyped DEF Moves, Labels

\* So is going to another label with the same locals.
LEMMA StayMoves ==
  ASSUME TInv, NEW t \in Threads, NEW p \in Labels, Goto(t, p), UNCHANGED loc,
         CallOK(p, loc[t])
  PROVE  Moves(t)
<1>1. loc' = [loc EXCEPT ![t] = loc[t]] BY DEF TInv, Shape
<1>2. loc[t] \in CallRecord BY LocType DEF TInv
<1> QED BY <1>1, <1>2 DEF Moves, MovesTo, Goto

\* A record with another work list; the key is the one just worked on.
LEMMA StepMoves ==
  ASSUME TInv, NEW t \in Threads, NEW k \in Keys,
         loc[t].op \in KeyOps => k = loc[t].key, NEW here \in Labels, NEW next \in Labels, Step(t, k, here, next),
         loc[t].op \in WriteOps \cup Rebuilds,
         AtLabel(here, loc[t].op), next # "idle" => AtLabel(next, loc[t].op)
  PROVE  Moves(t)
<1> DEFINE rest == loc[t].todo \ {k}
           p == IF rest # {} THEN here ELSE next
           c == [loc[t] EXCEPT !.key = k,
                               !.todo = IF rest # {} THEN rest ELSE loc[t].keys]
<1>1. CASE rest = {} /\ next = "idle"
  BY <1>1, ReturnMoves DEF Step
<1>2. CASE ~(rest = {} /\ next = "idle")
  <2>2. c \in CallRecord BY LocType DEF TInv, CallRecord
  <2>3. /\ c.op = loc[t].op /\ c.key = k /\ c.val = loc[t].val
        /\ c.keys = loc[t].keys
        /\ c.todo = IF rest # {} THEN rest ELSE loc[t].keys
    BY LocType DEF TInv, CallRecord
  <2>4. CallOK(pc[t], loc[t]) BY CallFacts
  <2>5. CallOK(p, c)
    <3>1. AtLabel(p, c.op) BY <1>2, <2>3
    <3>2. c.op \in WriteOps => c.val \in Values BY <2>3, <2>4 DEF CallOK
    <3>3. c.op \in KeyOps => c.key \in Keys /\ c.keys = {c.key} /\ c.todo = {c.key}
      BY <2>3, <2>4 DEF CallOK
    <3>4. c.op = "mset" => c.key \in Keys /\ c.todo # {} /\ c.todo \subseteq c.keys
      BY <2>3, <2>4 DEF CallOK
    <3> HIDE DEF c, p
    <3> QED BY <3>1, <3>2, <3>3, <3>4 DEF CallOK
  <2>6. MovesTo(t, p, c)
    BY <1>2 DEF Step, Goto, MovesTo, TInv, Shape, CallRecord
  <2> HIDE DEF c
  <2> QED BY <2>2, <2>5, <2>6 DEF Moves
<1> QED BY <1>1, <1>2

-----------------------------------------------------------------------------
(* Starting a call.                                                        *)

\* The four conjuncts of Shape a step owes beside pc and loc.
LEMMA TypeFromParts ==
  ASSUME TInv, PcLocOK, row' \in [Keys -> Row \cup {NoDoc}],
         idx' \in [Keys -> Values \cup {NoDoc}], bloom' \subseteq Keys,
         now' \in Nat, left' \in [Threads -> Nat],
         res' \in [Threads -> [key : Keys \cup {NoDoc},
                               val : Values \cup {NoDoc}, ver : Nat]]
  PROVE  TInv'
  BY DEF TInv, Shape, PcLocOK

\* Entering a call keeps TInv.
LEMMA CallKeepsTInv ==
  ASSUME TInv, NEW t \in Threads, NEW p \in Labels, NEW c \in CallRecord,
         Call(t, p, c), CallOK(p, c), left' \in [Threads -> Nat]
  PROVE  TInv'
<1>1. PcLocOK BY MovesOK DEF Call, Goto, Moves, MovesTo
<1> QED BY <1>1, TypeFromParts DEF Call, TInv, Shape

\* Entering a client call keeps TInv.
LEMMA ClientCallKeepsTInv ==
  ASSUME TInv, NEW t \in Threads, NEW op \in AllOps \ Rebuilds, NEW p \in Labels,
         NEW K \in SUBSET Keys, NEW v \in Values \cup {NoDoc},
         NEW e \in Nat, NEW n \in Nat, AtLabel(p, op),
         op \in WriteOps => v \in Values,
         op \in KeyOps => \E x \in Keys : K = {x},
         ClientCall(t, op, p, K, v, e, n)
  PROVE  TInv'
<1>1. PICK k \in K : Call(t, p, [op |-> op, keys |-> K, todo |-> K, key |-> k,
                                 val |-> v, exp |-> e, ver |-> n])
  BY DEF ClientCall
<1> DEFINE c == [op |-> op, keys |-> K, todo |-> K, key |-> k, val |-> v,
                 exp |-> e, ver |-> n]
<1>2. c \in CallRecord BY DEF CallRecord
<1>3. CallOK(p, c) BY DEF CallOK
<1>4. left' \in [Threads -> Nat] BY DEF ClientCall, TInv, Shape
<1> HIDE DEF c
<1> QED BY <1>1, <1>2, <1>3, <1>4, CallKeepsTInv DEF c

\* The expiry computed from a ttl is a time.
LEMMA ExpiresAtType ==
  ASSUME Shape, NEW ttl \in Nat PROVE ExpiresAt(ttl) \in Nat
  BY DEF ExpiresAt, Shape

\* Every call begins with locals that fit its first statement.
LEMMA BeginKeepsTInv ==
  ASSUME KvAssumption, TInv, NEW t \in Threads, Begin(t)
  PROVE  TInv'
<1> USE DEF AllOps, WriteOps, Reads, Rebuilds, KeyOps, Labels, AtLabel
<1>0. Shape BY DEF TInv
<1>1. CASE KvSet(t)
  <2>1. PICK k \in Keys, v \in Values : \E ttl \in Ttls[k] :
             ClientCall(t, "set", "upsert", {k}, v, ExpiresAt(ttl), 0)
    BY <1>1 DEF KvSet
  <2>2. PICK ttl \in Ttls[k] :
             ClientCall(t, "set", "upsert", {k}, v, ExpiresAt(ttl), 0)
    BY <2>1
  <2>3. ttl \in Nat BY DEF KvAssumption
  <2> QED BY <1>0, <2>2, <2>3, ExpiresAtType, ClientCallKeepsTInv
<1>2. CASE KvMset(t)
  <2> DEFINE K == Work[t]["mset"]
  <2>0. K \in SUBSET Keys BY DEF KvAssumption
  <2>1. PICK v \in Values, ttl \in UNION {Ttls[k] : k \in K} :
             ClientCall(t, "mset", "bloomAdd", K, v, ExpiresAt(ttl), 0)
    BY <1>2 DEF KvMset
  <2>2. ttl \in Nat BY <2>0 DEF KvAssumption
  <2> HIDE DEF K
  <2> QED BY <1>0, <2>0, <2>1, <2>2, ExpiresAtType, ClientCallKeepsTInv
<1>3. CASE KvSetVersioned(t)
  <2>1. PICK k \in Keys, v \in Values : \E ttl \in Ttls[k] :
          \/ ClientCall(t, "create", "insert", {k}, v, ExpiresAt(ttl), 0)
          \/ ClientCall(t, "update", "update", {k}, v, ExpiresAt(ttl), res[t].ver)
    BY <1>3 DEF KvSetVersioned
  <2>2. PICK ttl \in Ttls[k] :
          \/ ClientCall(t, "create", "insert", {k}, v, ExpiresAt(ttl), 0)
          \/ ClientCall(t, "update", "update", {k}, v, ExpiresAt(ttl), res[t].ver)
    BY <2>1
  <2>3. ttl \in Nat /\ res[t].ver \in Nat BY <1>0 DEF KvAssumption, Shape
  <2> QED BY <1>0, <2>2, <2>3, ExpiresAtType, ClientCallKeepsTInv
<1>4. CASE KvGet(t) \/ KvGetVersioned(t)
  <2>1. PICK k \in Keys, op \in Reads : ClientCall(t, op, "lookup", {k}, NoDoc, 0, 0)
    BY <1>4 DEF KvGet, KvGetVersioned, Read
  <2> QED BY <2>1, ClientCallKeepsTInv
<1>5. CASE KvDelete(t)
  <2>1. PICK k \in Keys : ClientCall(t, "delete", "deleteIndex", {k}, NoDoc, 0, 0)
    BY <1>5 DEF KvDelete
  <2> QED BY <2>1, ClientCallKeepsTInv
<1>6. CASE Purge(t)
  <2> DEFINE c == [NoCall EXCEPT !.op = "purge", !.exp = now]
  <2>1. c \in CallRecord BY <1>0 DEF NoCall, CallRecord, Shape
  <2>2. CallOK("purgeSelect", c) BY DEF NoCall, CallOK
  <2>3. Call(t, "purgeSelect", c) /\ left' = left BY <1>6 DEF Purge
  <2> HIDE DEF c
  <2> QED BY <1>0, <2>1, <2>2, <2>3, CallKeepsTInv DEF Shape
<1>7. CASE DbMaintenance(t)
  <2> DEFINE c == [NoCall EXCEPT !.op = "maint"]
  <2>1. c \in CallRecord BY DEF NoCall, CallRecord
  <2>2. CallOK("rebuildSelect", c) BY DEF NoCall, CallOK
  <2>3. Call(t, "rebuildSelect", c) BY <1>7 DEF DbMaintenance
  <2>4. left' \in [Threads -> Nat] BY <1>0, <1>7 DEF DbMaintenance, Shape
  <2> HIDE DEF c
  <2> QED BY <2>1, <2>2, <2>3, <2>4, CallKeepsTInv
<1> QED BY <1>1, <1>2, <1>3, <1>4, <1>5, <1>6, <1>7 DEF Begin
-----------------------------------------------------------------------------
(* Statements.                                                             *)

\* A written row is a row, with a version of at least 1.
LEMMA BumpedType ==
  ASSUME TInv, NEW t \in Threads, NEW k \in Keys, loc[t].val \in Values
  PROVE  Bumped(k, loc[t]) \in Row
<1>1. loc[t].exp \in Nat BY LocType DEF TInv
<1>2. CASE row[k] = NoDoc BY <1>1, <1>2 DEF Bumped, Row
<1>3. CASE row[k] # NoDoc
  <2>1. row[k] \in Row BY <1>3 DEF TInv, Shape
  <2> QED BY <1>1, <1>3, <2>1 DEF Bumped, Row
<1> QED BY <1>2, <1>3

\* A field of the index holds a value of the indexed field or nothing.
LEMMA FieldType ==
  ASSUME NEW v \in Values \cup {NoDoc} PROVE Field(v) \in Values \cup {NoDoc}
  BY DEF Field

\* The filter lookup and the SELECT of a read keep TInv.
LEMMA ReadsKeepTInv ==
  ASSUME KvAssumption, TInv, NEW t \in Threads, Lookup(t) \/ Select(t)
  PROVE  TInv'
<1> USE DEF Labels, Reads, AtLabel
<1>0. Shape /\ CallOK(pc[t], loc[t]) BY CallFacts DEF TInv
<1>1. pc[t] \in {"lookup", "select"} /\ loc[t].op \in Reads
  BY <1>0 DEF Lookup, Select, CallOK
<1>2. loc[t].key \in Keys BY <1>0, <1>1 DEF CallOK, KeyOps
<1> DEFINE Res == [key : Keys \cup {NoDoc}, val : Values \cup {NoDoc}, ver : Nat]
<1>3. CASE Lookup(t)
  <2>1. Moves(t)
    <3>1. CASE loc[t].key \in bloom
      <4>1. CallOK("select", loc[t]) BY <1>0, <1>1 DEF CallOK
      <4> QED BY <1>3, <3>1, <4>1, StayMoves DEF Lookup
    <3>2. CASE loc[t].key \notin bloom BY <1>3, <3>2, ReturnMoves DEF Lookup
    <3> QED BY <3>1, <3>2
  <2>2. res' \in [Threads -> Res]
    <3> DEFINE miss == [NoRes EXCEPT !.key = loc[t].key]
    <3>1. miss \in Res BY <1>2 DEF NoRes
    <3>2. res' = res \/ res' = [res EXCEPT ![t] = miss] BY <1>3 DEF Lookup, Yield
    <3>3. res \in [Threads -> Res] BY <1>0 DEF Shape
    <3> HIDE DEF Res, miss
    <3> QED BY <3>1, <3>2, <3>3
  <2> QED BY <1>0, <1>3, <2>1, <2>2, MovesOK, TypeFromParts DEF Lookup, Shape
<1>4. CASE Select(t)
  <2>1. Moves(t)
    <3>1. CASE Dead(row[loc[t].key], now)
      <4>1. CallOK("deleteIndex", loc[t]) BY <1>0, <1>1 DEF CallOK
      <4> QED BY <1>4, <3>1, <4>1, StayMoves DEF Select
    <3>2. CASE ~Dead(row[loc[t].key], now) BY <1>4, <3>2, ReturnMoves DEF Select
    <3> QED BY <3>1, <3>2
  <2>2. res' \in [Threads -> Res]
    <3> DEFINE r == row[loc[t].key]
    <3>1. CASE Live(r, now)
      <4>1. r \in Row BY <1>0, <1>2, <3>1 DEF Live, Shape
      <4>2. r.val \in Values /\ r.ver \in Nat BY <4>1 DEF Row
      <4>3. [key |-> loc[t].key, val |-> r.val,
             ver |-> IF loc[t].op = "getv" THEN r.ver ELSE 0] \in Res
        BY <1>2, <4>2
      <4>4. res' = [res EXCEPT ![t] =
                      [key |-> loc[t].key, val |-> r.val,
                       ver |-> IF loc[t].op = "getv" THEN r.ver ELSE 0]]
        BY <1>4, <3>1 DEF Select, Yield
      <4>5. res \in [Threads -> Res] BY <1>0 DEF Shape
      <4> HIDE DEF Res
      <4> QED BY <4>3, <4>4, <4>5
    <3>2. CASE ~Live(r, now)
      <4> DEFINE miss == [key |-> loc[t].key, val |-> NoDoc, ver |-> 0]
      <4>1. miss \in Res BY <1>2
      <4>2. [NoRes EXCEPT !.key = loc[t].key] = miss BY DEF NoRes
      <4>3. res' = [res EXCEPT ![t] = [NoRes EXCEPT !.key = loc[t].key]]
        BY <1>4, <3>2 DEF Select, Yield
      <4>4. res \in [Threads -> Res] BY <1>0 DEF Shape
      <4> HIDE DEF Res, miss
      <4> QED BY <4>1, <4>2, <4>3, <4>4
    <3> QED BY <3>1, <3>2
  <2> QED BY <1>0, <1>4, <2>1, <2>2, MovesOK, TypeFromParts DEF Select, Shape
<1> QED BY <1>3, <1>4

\* The upsert keeps TInv.
LEMMA UpsertKeepsTInv ==
  ASSUME TInv, NEW t \in Threads, Upsert(t) PROVE TInv'
<1>0. Shape /\ CallOK(pc[t], loc[t]) BY CallFacts DEF TInv
<1>1. loc[t].op \in {"set", "mset"} /\ loc[t].val \in Values
  BY <1>0 DEF Upsert, CallOK, AtLabel, WriteOps
<1>2. PICK k \in loc[t].todo : /\ row' = [row EXCEPT ![k] = Bumped(k, loc[t])]
                               /\ Step(t, k, "upsert", "clearIndex")
  BY DEF Upsert
<1>3. k \in Keys BY LocType DEF TInv
<1>4. Bumped(k, loc[t]) \in Row BY <1>1, <1>3, BumpedType
<1>5. row' \in [Keys -> Row \cup {NoDoc}] BY <1>0, <1>2, <1>4 DEF Shape
<1>6. Moves(t)
  <2>1. loc[t].op \in KeyOps => k = loc[t].key BY <1>0, <1>2 DEF CallOK
  <2>2. "upsert" \in Labels /\ "clearIndex" \in Labels BY DEF Labels
  <2>3. /\ AtLabel("upsert", loc[t].op) /\ AtLabel("clearIndex", loc[t].op)
        /\ loc[t].op \in WriteOps \cup Rebuilds
    BY <1>1 DEF AtLabel, WriteOps
  <2>4. Step(t, k, "upsert", "clearIndex") BY <1>2
  <2> QED BY <1>3, <2>1, <2>2, <2>3, <2>4, StepMoves
<1> QED BY <1>0, <1>5, <1>6, MovesOK, TypeFromParts DEF Upsert, Shape

\* The INSERT and the conditional UPDATE keep TInv.
LEMMA VersionedKeepsTInv ==
  ASSUME TInv, NEW t \in Threads, Insert(t) \/ Update(t) PROVE TInv'
<1>0. Shape /\ CallOK(pc[t], loc[t]) BY CallFacts DEF TInv
<1>1. PICK p \in {"insert", "update"}, ok \in BOOLEAN : Versioned(t, p, ok)
  BY DEF Insert, Update, Versioned
<1> DEFINE k == loc[t].key
<1>2. /\ loc[t].op \in {"create", "update"} /\ loc[t].val \in Values
      /\ loc[t].key \in Keys /\ loc[t].ver \in Nat
  BY <1>0, <1>1, LocType DEF Versioned, CallOK, AtLabel, WriteOps, KeyOps
<1>3. Bumped(k, loc[t]) \in Row BY <1>2, BumpedType
<1>4. row' \in [Keys -> Row \cup {NoDoc}] BY <1>0, <1>1, <1>3 DEF Versioned, Shape
<1>5. Moves(t)
  <2>1. CallOK("clearIndex", loc[t]) BY <1>0, <1>2 DEF CallOK, AtLabel, WriteOps
  <2> QED BY <1>1, <2>1, StayMoves, ReturnMoves DEF Versioned, Labels
<1>6. res' \in [Threads -> [key : Keys \cup {NoDoc}, val : Values \cup {NoDoc},
                            ver : Nat]]
  <2>1. NoRes \in [key : Keys \cup {NoDoc}, val : Values \cup {NoDoc}, ver : Nat]
    BY DEF NoRes
  <2>2. [key |-> k, val |-> loc[t].val, ver |-> loc[t].ver + 1]
          \in [key : Keys \cup {NoDoc}, val : Values \cup {NoDoc}, ver : Nat]
    BY <1>2
  <2> QED BY <1>0, <1>1, <2>1, <2>2 DEF Versioned, Yield, Shape
<1> QED BY <1>0, <1>1, <1>4, <1>5, <1>6, MovesOK, TypeFromParts DEF Versioned, Shape

\* The index statements keep TInv.
LEMMA IndexKeepsTInv ==
  ASSUME TInv, NEW t \in Threads, ClearIndex(t) \/ InsertIndex(t) PROVE TInv'
<1>0. Shape /\ CallOK(pc[t], loc[t]) BY CallFacts DEF TInv
<1>1. /\ pc[t] \in {"clearIndex", "insertIndex"}
      /\ loc[t].op \in WriteOps /\ loc[t].val \in Values
  BY <1>0 DEF ClearIndex, InsertIndex, CallOK, AtLabel
<1>2. /\ AfterIndex(loc[t].op) \in Labels
      /\ AfterIndex(loc[t].op) # "idle" => AtLabel(AfterIndex(loc[t].op), loc[t].op)
      /\ AtLabel("clearIndex", loc[t].op)
  BY <1>1 DEF AfterIndex, AtLabel, Labels, WriteOps
<1>3. CASE ClearIndex(t)
  <2>1. PICK k \in loc[t].todo :
          /\ idx' = [idx EXCEPT ![k] = NoDoc]
          /\ IF Field(loc[t].val) = NoDoc
             THEN Step(t, k, "clearIndex", AfterIndex(loc[t].op))
             ELSE Goto(t, "insertIndex") /\ loc' = [loc EXCEPT ![t].key = k]
    BY <1>3 DEF ClearIndex
  <2>2. k \in Keys BY LocType DEF TInv
  <2>5. loc[t].op \in KeyOps => k = loc[t].key BY <1>0 DEF CallOK
  <2>3. Moves(t)
    <3>1. CASE Field(loc[t].val) = NoDoc
      BY <1>1, <1>2, <2>1, <2>2, <2>5, <3>1, StepMoves DEF Labels
    <3>2. CASE Field(loc[t].val) # NoDoc
      <4> DEFINE c == [loc[t] EXCEPT !.key = k]
      <4>1. c \in CallRecord BY <2>2, LocType DEF TInv, CallRecord
      <4>2. /\ c.op = loc[t].op /\ c.key = k /\ c.val = loc[t].val
            /\ c.keys = loc[t].keys /\ c.todo = loc[t].todo
        BY LocType DEF TInv, CallRecord
      <4> HIDE DEF c
      <4>4. CallOK("insertIndex", c)
        BY <1>0, <1>1, <2>2, <2>5, <4>2 DEF CallOK, AtLabel
      <4>5. MovesTo(t, "insertIndex", c)
        BY <2>1, <3>2, <1>0 DEF MovesTo, Goto, Shape, c
      <4> QED BY <4>1, <4>4, <4>5 DEF Moves, Labels
    <3> QED BY <3>1, <3>2
  <2>4. idx' \in [Keys -> Values \cup {NoDoc}] BY <1>0, <2>1 DEF Shape
  <2> QED BY <1>0, <1>3, <2>3, <2>4, MovesOK, TypeFromParts DEF ClearIndex, Shape
<1>4. CASE InsertIndex(t)
  <2>1. loc[t].key \in Keys BY <1>0, <1>1 DEF CallOK, WriteOps, KeyOps
  <2>2. Moves(t)
    BY <1>1, <1>2, <1>4, <2>1, StepMoves DEF InsertIndex, Labels
  <2>3. idx' \in [Keys -> Values \cup {NoDoc}]
    BY <1>0, <1>1, <1>4, FieldType DEF InsertIndex, Shape
  <2> QED BY <1>0, <1>4, <2>2, <2>3, MovesOK, TypeFromParts DEF InsertIndex, Shape
<1> QED BY <1>3, <1>4
\* bloom.add keeps TInv.
LEMMA FilterKeepsTInv ==
  ASSUME TInv, NEW t \in Threads, BloomAdd(t) \/ RebuildSelect(t) \/ RebuildClear(t)
  PROVE  TInv'
<1>0. Shape /\ CallOK(pc[t], loc[t]) BY CallFacts DEF TInv
<1>1. CASE BloomAdd(t)
  <2> DEFINE next == IF loc[t].op = "mset" THEN "upsert" ELSE "idle"
  <2>1. loc[t].op \in {"set", "create", "mset"} \cup Rebuilds
    BY <1>0, <1>1 DEF BloomAdd, CallOK, AtLabel
  <2>2. PICK k \in loc[t].todo : bloom' = bloom \cup {k} /\ Step(t, k, "bloomAdd", next)
    BY <1>1 DEF BloomAdd
  <2>3. k \in Keys BY LocType DEF TInv
  <2>4. loc[t].op \in KeyOps => k = loc[t].key BY <1>0 DEF CallOK
  <2>5. /\ next \in Labels
        /\ next # "idle" => AtLabel(next, loc[t].op)
        /\ AtLabel("bloomAdd", loc[t].op)
    BY <2>1 DEF AtLabel, Labels
  <2>6. loc[t].op \in WriteOps \cup Rebuilds BY <2>1 DEF WriteOps
  <2> HIDE DEF next
  <2>7. Moves(t) BY <2>2, <2>3, <2>4, <2>5, <2>6, StepMoves DEF Labels
  <2>8. bloom' \subseteq Keys BY <1>0, <2>2, <2>3 DEF Shape
  <2> QED BY <1>0, <1>1, <2>7, <2>8, MovesOK, TypeFromParts DEF BloomAdd, Shape
<1>2. CASE RebuildSelect(t)
  <2> DEFINE c == [loc[t] EXCEPT !.todo = LiveKeys(now)]
  <2>1. loc[t].op \in Rebuilds BY <1>0, <1>2 DEF RebuildSelect, CallOK, AtLabel
  <2>2. LiveKeys(now) \in SUBSET Keys BY DEF LiveKeys
  <2>3. c \in CallRecord /\ c.op = loc[t].op BY <2>2, LocType DEF TInv, CallRecord
  <2> HIDE DEF c
  <2>4. CallOK("rebuildClear", c)
    BY <2>1, <2>3 DEF CallOK, AtLabel, Rebuilds, WriteOps, KeyOps
  <2>5. MovesTo(t, "rebuildClear", c)
    BY <1>0, <1>2 DEF RebuildSelect, Goto, MovesTo, Shape, c
  <2>6. Moves(t) BY <2>3, <2>4, <2>5 DEF Moves, Labels
  <2> QED BY <1>0, <1>2, <2>6, MovesOK, TypeFromParts DEF RebuildSelect, Shape
<1>3. CASE RebuildClear(t)
  <2>1. CallOK("bloomAdd", loc[t])
    BY <1>0, <1>3 DEF RebuildClear, CallOK, AtLabel
  <2>2. Moves(t) BY <1>3, <2>1, StayMoves, ReturnMoves DEF RebuildClear, Labels
  <2> QED BY <1>0, <1>3, <2>2, MovesOK, TypeFromParts DEF RebuildClear, Shape
<1> QED BY <1>1, <1>2, <1>3

\* The two DELETEs of kv_delete keep TInv.
LEMMA DeleteKeepsTInv ==
  ASSUME TInv, NEW t \in Threads, DeleteIndex(t) \/ DeleteRow(t) PROVE TInv'
<1>0. Shape /\ CallOK(pc[t], loc[t]) BY CallFacts DEF TInv
<1>1. CASE DeleteIndex(t)
  <2>1. CallOK("deleteRow", loc[t]) BY <1>0, <1>1 DEF DeleteIndex, CallOK, AtLabel
  <2>2. Moves(t) BY <1>1, <2>1, StayMoves DEF DeleteIndex, Labels
  <2>3. idx' \in [Keys -> Values \cup {NoDoc}] BY <1>0, <1>1 DEF DeleteIndex, Shape
  <2> QED BY <1>0, <1>1, <2>2, <2>3, MovesOK, TypeFromParts DEF DeleteIndex, Shape
<1>2. CASE DeleteRow(t)
  <2>1. Moves(t) BY <1>2, ReturnMoves DEF DeleteRow
  <2>2. row' \in [Keys -> Row \cup {NoDoc}] BY <1>0, <1>2 DEF DeleteRow, Shape
  <2> QED BY <1>0, <1>2, <2>1, <2>2, MovesOK, TypeFromParts DEF DeleteRow, Shape
<1> QED BY <1>1, <1>2

\* The statements of a purge and of a rebuild keep TInv.
LEMMA PurgeKeepsTInv ==
  ASSUME TInv, NEW t \in Threads, PurgeSelect(t) \/ PurgeIndex(t) \/ PurgeRows(t)
  PROVE  TInv'
<1>0. Shape /\ CallOK(pc[t], loc[t]) BY CallFacts DEF TInv
<1>1. loc[t].op = "purge"
  BY <1>0 DEF PurgeSelect, PurgeIndex, PurgeRows, CallOK, AtLabel
<1>2. CASE PurgeSelect(t)
  <2> DEFINE K == DeadKeys(loc[t].exp)
             c == [loc[t] EXCEPT !.keys = K, !.todo = K]
  <2>1. K \in SUBSET Keys BY DEF DeadKeys
  <2>2. c \in CallRecord /\ c.op = "purge" BY <1>1, <2>1, LocType DEF TInv, CallRecord
  <2> HIDE DEF c
  <2>3. CallOK("purgeIndex", c) BY <2>2 DEF CallOK, AtLabel, WriteOps, KeyOps
  <2>4. CASE K = {} BY <1>2, <2>4, ReturnMoves, <1>0, MovesOK, TypeFromParts
                    DEF PurgeSelect, Shape
  <2>5. CASE K # {}
    <3>1. MovesTo(t, "purgeIndex", c)
      BY <1>0, <1>2, <2>5 DEF PurgeSelect, Goto, MovesTo, Shape, CallRecord, c
    <3>2. Moves(t) BY <2>2, <2>3, <3>1 DEF Moves, Labels
    <3> QED BY <1>0, <1>2, <3>2, MovesOK, TypeFromParts DEF PurgeSelect, Shape
  <2> QED BY <2>4, <2>5
<1>3. CASE PurgeIndex(t)
  <2>1. CallOK("purgeRows", loc[t]) BY <1>0, <1>1 DEF CallOK, AtLabel
  <2>2. Moves(t) BY <1>3, <2>1, StayMoves DEF PurgeIndex, Labels
  <2>3. idx' \in [Keys -> Values \cup {NoDoc}] BY <1>0, <1>3 DEF PurgeIndex, Shape
  <2> QED BY <1>0, <1>3, <2>2, <2>3, MovesOK, TypeFromParts DEF PurgeIndex, Shape
<1>4. CASE PurgeRows(t)
  <2>1. CallOK("rebuildSelect", loc[t]) BY <1>0, <1>1 DEF CallOK, AtLabel, Rebuilds
  <2>2. Moves(t) BY <1>4, <2>1, StayMoves DEF PurgeRows, Labels
  <2>3. row' \in [Keys -> Row \cup {NoDoc}] BY <1>0, <1>4 DEF PurgeRows, Shape
  <2> QED BY <1>0, <1>4, <2>2, <2>3, MovesOK, TypeFromParts DEF PurgeRows, Shape
<1> QED BY <1>2, <1>3, <1>4

\* A statement that raises ends its call; only the index entry of the key at hand
\* may have gone.
LEMMA FailKeepsTInv ==
  ASSUME TInv, NEW t \in Threads, Fail(t) PROVE TInv'
<1>0. Shape BY DEF TInv
<1>1. Moves(t) BY ReturnMoves DEF Fail
<1>2. idx' \in [Keys -> Values \cup {NoDoc}]
  <2>1. CASE idx' = idx BY <1>0, <2>1 DEF Shape
  <2>2. CASE \E k \in loc[t].todo : idx' = [idx EXCEPT ![k] = NoDoc]
    BY <1>0, <2>2 DEF Shape
  <2> QED BY <2>1, <2>2 DEF Fail
<1>3. res' \in [Threads -> [key : Keys \cup {NoDoc}, val : Values \cup {NoDoc}, ver : Nat]]
  <2>1. NoRes \in [key : Keys \cup {NoDoc}, val : Values \cup {NoDoc}, ver : Nat]
    BY DEF NoRes
  <2>2. res' = res \/ res' = [res EXCEPT ![t] = NoRes] BY DEF Fail, Yield
  <2> QED BY <1>0, <2>1, <2>2 DEF Shape
<1> QED BY <1>0, <1>1, <1>2, <1>3, MovesOK, TypeFromParts DEF Fail, Shape

-----------------------------------------------------------------------------
\* In every reachable state the variables keep their types and each call's
\* locals fit the statement it stands at, for any number of keys and threads.
THEOREM Typing == ASSUME KvAssumption PROVE Spec => []TInv
<1>1. Init => TInv
  BY DEF Init, TInv, Shape, CallsOK, CallOK, AtLabel, Labels, NoCall, NoRes,
         CallRecord, WriteOps, KeyOps, KvAssumption
<1>2. TInv /\ [Next]_vars => TInv'
  <2> SUFFICES ASSUME TInv, [Next]_vars PROVE TInv'
    OBVIOUS
  <2>1. CASE \E t \in Threads : Begin(t) BY <2>1, BeginKeepsTInv
  <2>2. CASE \E t \in Threads : ThreadStep(t)
    BY <2>2, ReadsKeepTInv, UpsertKeepsTInv, VersionedKeepsTInv, IndexKeepsTInv,
       FilterKeepsTInv, DeleteKeepsTInv, PurgeKeepsTInv DEF ThreadStep
  <2>3. CASE Tick BY <2>3 DEF Tick, TInv, Shape, CallsOK
  <2>4. CASE Crash
    BY <2>4 DEF Crash, TInv, Shape, CallsOK, CallOK, AtLabel, Labels, NoCall,
                NoRes, CallRecord, WriteOps, KeyOps, LiveKeys
  <2>5. CASE UNCHANGED vars BY <2>5 DEF vars, TInv, Shape, CallsOK
  <2>6. CASE \E t \in Threads : Fail(t) BY <2>6, FailKeepsTInv
  <2> QED BY <2>1, <2>2, <2>3, <2>4, <2>5, <2>6 DEF Next, Finished
<1> QED BY <1>1, <1>2, PTL DEF Spec

\* Every variable keeps its shape (the TypeOK of the runs).
THEOREM TypeCorrect == ASSUME KvAssumption PROVE Spec => []TypeOK
<1> DEFINE History == faults \in Nat /\ raised \subseteq Keys
<1>1. Init => History BY DEF Init
<1>2. TInv /\ History /\ [Next]_vars => History'
  <2> SUFFICES ASSUME TInv, History, [Next]_vars PROVE History' OBVIOUS
  <2> USE DEF history
  <2>0. \A t \in Threads : loc[t].keys \subseteq Keys BY LocType DEF TInv
  <2>1. ASSUME NEW t \in Threads, Begin(t) PROVE History'
    BY <2>1 DEF Begin, KvSet, KvMset, KvSetVersioned, KvGet, KvGetVersioned, Read, KvDelete,
                Purge, DbMaintenance, ClientCall, Call
  <2>2. ASSUME NEW t \in Threads, ThreadStep(t) PROVE faults' = faults /\ raised' \subseteq raised
    BY <2>2 DEF ThreadStep, Lookup, Select, Upsert, Insert, Update, Versioned, ClearIndex,
                InsertIndex, BloomAdd, DeleteIndex, DeleteRow, PurgeSelect, PurgeIndex,
                PurgeRows, RebuildSelect, RebuildClear
  <2>3. ASSUME NEW t \in Threads, Fail(t) PROVE History' BY <2>0, <2>3 DEF Fail
  <2>4. CASE Crash BY <2>4 DEF Crash, LiveKeys
  <2>5. CASE Tick \/ UNCHANGED vars BY <2>5 DEF Tick, vars
  <2> QED BY <2>1, <2>2, <2>3, <2>4, <2>5 DEF Next, Finished
<1>3. TInv /\ History => TypeOK BY DEF TInv, TypeOK
<1> QED BY <1>1, <1>2, <1>3, Typing, PTL DEF Spec
-----------------------------------------------------------------------------
(***************************************************************************)
(* The Bloom filter.  Without rebuilds the filter only grows, so the       *)
(* inductive invariant says of each call which keys it has already added,  *)
(* and, where documents expire, that no versioned update can bring an      *)
(* expired row back.                                                       *)
(***************************************************************************)
NoRebuild == \A t \in Threads : Work[t]["purge"] = {} /\ Work[t]["maint"] = {}
NoTtl == \A k \in Keys : Ttls[k] \subseteq {0}
NoUpdates == \A t \in Threads : Work[t]["update"] = {}

AddingBy(k, p, c) == /\ c.op \in {"set", "create"} /\ c.key = k
                     /\ p \in {"clearIndex", "insertIndex", "bloomAdd"}

\* What a call at label p with locals c owes the filter B.
Fits(p, c, B) ==
  /\ c.op \notin Rebuilds
  /\ NoTtl => c.exp = 0
  /\ NoUpdates => c.op # "update"
  /\ p = "select" => c.key \in B
  /\ c.op = "mset" =>
       /\ p = "bloomAdd" => c.keys \ c.todo \subseteq B
       /\ p \in {"upsert", "clearIndex", "insertIndex"} => c.keys \subseteq B

RowsKeep == NoTtl => \A k \in Keys : row[k] # NoDoc => row[k].exp = 0
FInv == /\ \A t \in Threads : Fits(pc[t], loc[t], bloom)
        /\ RowsKeep
        /\ FilterCoversLiveRows

\* One thread moves and the filter does not shrink: every live row afterwards
\* is in the filter, or excused, or about to be added by t, or was somebody
\* else's before.
LEMMA FilterStepRaised ==
  ASSUME TInv, FInv, NEW t \in Threads, NEW p \in Labels, NEW c \in CallRecord,
         MovesTo(t, p, c), Fits(p, c, bloom'), bloom \subseteq bloom', now' = now,
         RowsKeep',
         \A k \in Keys : Live(row'[k], now) =>
            \/ k \in bloom' \cup raised' \/ AddingBy(k, p, c)
            \/ /\ Live(row[k], now) /\ ~AddingBy(k, pc[t], loc[t])
               /\ k \in raised => k \in raised'
  PROVE  FInv'
<1>1. pc'[t] = p /\ loc'[t] = c BY DEF MovesTo, TInv, Shape
<1>2. \A u \in Threads : u # t => pc'[u] = pc[u] /\ loc'[u] = loc[u]
  BY DEF MovesTo, TInv, Shape
<1>3. ASSUME NEW u \in Threads PROVE Fits(pc'[u], loc'[u], bloom')
  <2>1. CASE u = t BY <1>1, <2>1
  <2>2. CASE u # t
    <3>1. Fits(pc[u], loc[u], bloom) BY DEF FInv
    <3> QED BY <1>2, <2>2, <3>1 DEF Fits
  <2> QED BY <2>1, <2>2
<1>4. ASSUME NEW k \in Keys, Live(row'[k], now') PROVE k \in bloom' \cup raised' \/ Adding(k)'
  <2>1. CASE k \in bloom' \cup raised' BY <2>1
  <2>2. CASE AddingBy(k, p, c) BY <1>1, <2>2 DEF Adding, AddingBy
  <2>3. CASE Live(row[k], now) /\ ~AddingBy(k, pc[t], loc[t]) /\ (k \in raised => k \in raised')
    <3>1. k \in bloom \cup raised \/ Adding(k) BY <2>3 DEF FInv, FilterCoversLiveRows
    <3>2. CASE k \in bloom \cup raised BY <2>3, <3>2
    <3>3. CASE Adding(k)
      <4>1. PICK u \in Threads : AddingBy(k, pc[u], loc[u])
        BY <3>3 DEF Adding, AddingBy
      <4>2. u # t BY <2>3, <4>1
      <4> QED BY <1>2, <4>1, <4>2 DEF Adding, AddingBy
    <3> QED BY <3>1, <3>2, <3>3
  <2> QED BY <1>4, <2>1, <2>2, <2>3
<1>5. FilterCoversLiveRows' BY <1>4 DEF FilterCoversLiveRows
<1> QED BY <1>3, <1>5 DEF FInv

\* The same when no key becomes or ceases to be excused.
LEMMA FilterStep ==
  ASSUME TInv, FInv, NEW t \in Threads, NEW p \in Labels, NEW c \in CallRecord,
         MovesTo(t, p, c), Fits(p, c, bloom'), bloom \subseteq bloom', now' = now,
         raised' = raised, RowsKeep',
         \A k \in Keys : Live(row'[k], now) =>
            \/ k \in bloom' \/ AddingBy(k, p, c)
            \/ Live(row[k], now) /\ ~AddingBy(k, pc[t], loc[t])
  PROVE  FInv'
<1>1. \A k \in Keys : Live(row'[k], now) =>
         \/ k \in bloom' \cup raised' \/ AddingBy(k, p, c)
         \/ /\ Live(row[k], now) /\ ~AddingBy(k, pc[t], loc[t])
            /\ k \in raised => k \in raised'
  OBVIOUS
<1> QED BY <1>1, FilterStepRaised, ZenonT(60)

\* The same when the rows stay and t was not about to add a key.
LEMMA FilterStepSameRows ==
  ASSUME TInv, FInv, NEW t \in Threads, NEW p \in Labels, NEW c \in CallRecord,
         MovesTo(t, p, c), Fits(p, c, bloom), UNCHANGED <<row, bloom, now, raised>>,
         pc[t] \notin {"clearIndex", "insertIndex", "bloomAdd"}
  PROVE  FInv'
<1>1. RowsKeep' BY DEF FInv, RowsKeep
<1>2. \A k \in Keys : ~AddingBy(k, pc[t], loc[t]) BY DEF AddingBy
<1> QED BY <1>1, <1>2, FilterStep, ZenonT(60)

\* An idle thread owes the filter nothing.
LEMMA NoCallFits == ASSUME NEW B PROVE Fits("idle", NoCall, B)
  BY DEF Fits, NoCall, Rebuilds

\* Entering a call changes no row and no filter entry.
LEMMA BeginKeepsFInv ==
  ASSUME KvAssumption, NoRebuild, TInv, FInv, NEW t \in Threads, Begin(t)
  PROVE  FInv'
<1> USE DEF Rebuilds
<1>0. Shape BY DEF TInv
<1>a. pc[t] = "idle" /\ UNCHANGED <<row, bloom, now, raised>>
  BY DEF history, Begin, KvSet, KvMset, KvSetVersioned, KvGet, KvGetVersioned, Read,
         KvDelete, Purge, DbMaintenance, ClientCall, Call
<1>b. ASSUME NEW op \in AllOps \ Rebuilds, NEW p \in Labels, NEW K \in SUBSET Keys,
             NEW v \in Values \cup {NoDoc}, NEW e \in Nat, NEW n \in Nat,
             NoTtl => e = 0, op = "mset" => p = "bloomAdd", p # "select",
             ClientCall(t, op, p, K, v, e, n)
      PROVE  FInv'
  <2>1. PICK k \in K : Call(t, p, [op |-> op, keys |-> K, todo |-> K, key |-> k,
                                   val |-> v, exp |-> e, ver |-> n])
    BY <1>b DEF ClientCall
  <2> DEFINE c == [op |-> op, keys |-> K, todo |-> K, key |-> k, val |-> v,
                   exp |-> e, ver |-> n]
  <2>2. c \in CallRecord BY DEF CallRecord
  <2>3. NoUpdates => op # "update"
    BY <1>b DEF NoUpdates, ClientCall
  <2>4. Fits(p, c, bloom) BY <1>b, <2>3 DEF Fits
  <2>5. MovesTo(t, p, c) BY <2>1 DEF Call, Goto, MovesTo
  <2> HIDE DEF c
  <2> QED BY <1>a, <2>2, <2>4, <2>5, FilterStepSameRows
<1>c. ASSUME NEW ttl \in Nat, NoTtl => ttl = 0
      PROVE  ExpiresAt(ttl) \in Nat /\ (NoTtl => ExpiresAt(ttl) = 0)
  BY <1>0, <1>c DEF ExpiresAt, Shape
<1>1. CASE KvSet(t)
  <2>1. PICK k \in Keys, v \in Values : \E ttl \in Ttls[k] :
             ClientCall(t, "set", "upsert", {k}, v, ExpiresAt(ttl), 0)
    BY <1>1 DEF KvSet
  <2>2. PICK ttl \in Ttls[k] :
             ClientCall(t, "set", "upsert", {k}, v, ExpiresAt(ttl), 0)
    BY <2>1
  <2>3. ttl \in Nat /\ (NoTtl => ttl = 0) BY DEF KvAssumption, NoTtl
  <2> QED BY <1>b, <1>c, <2>2, <2>3 DEF AllOps, WriteOps, Labels
<1>2. CASE KvMset(t)
  <2> DEFINE K == Work[t]["mset"]
  <2>0. K \in SUBSET Keys BY DEF KvAssumption, AllOps, WriteOps
  <2>1. PICK v \in Values, ttl \in UNION {Ttls[k] : k \in K} :
             ClientCall(t, "mset", "bloomAdd", K, v, ExpiresAt(ttl), 0)
    BY <1>2 DEF KvMset
  <2>2. ttl \in Nat /\ (NoTtl => ttl = 0) BY <2>0 DEF KvAssumption, NoTtl
  <2> HIDE DEF K
  <2> QED BY <1>b, <1>c, <2>0, <2>1, <2>2 DEF AllOps, WriteOps, Labels
<1>3. CASE KvSetVersioned(t)
  <2>1. PICK k \in Keys, v \in Values : \E ttl \in Ttls[k] :
          \/ ClientCall(t, "create", "insert", {k}, v, ExpiresAt(ttl), 0)
          \/ ClientCall(t, "update", "update", {k}, v, ExpiresAt(ttl), res[t].ver)
    BY <1>3 DEF KvSetVersioned
  <2>2. PICK ttl \in Ttls[k] :
          \/ ClientCall(t, "create", "insert", {k}, v, ExpiresAt(ttl), 0)
          \/ ClientCall(t, "update", "update", {k}, v, ExpiresAt(ttl), res[t].ver)
    BY <2>1
  <2>3. ttl \in Nat /\ (NoTtl => ttl = 0) BY DEF KvAssumption, NoTtl
  <2>4. res[t].ver \in Nat BY <1>0 DEF Shape
  <2> QED BY <1>b, <1>c, <2>2, <2>3, <2>4 DEF AllOps, WriteOps, Labels
<1>4. CASE KvGet(t) \/ KvGetVersioned(t)
  <2>1. PICK k \in Keys : \/ ClientCall(t, "get", "lookup", {k}, NoDoc, 0, 0)
                          \/ ClientCall(t, "getv", "lookup", {k}, NoDoc, 0, 0)
    BY <1>4 DEF KvGet, KvGetVersioned, Read
  <2> QED BY <1>b, <2>1 DEF AllOps, Reads, Labels
<1>5. CASE KvDelete(t)
  <2>1. PICK k \in Keys : ClientCall(t, "delete", "deleteIndex", {k}, NoDoc, 0, 0)
    BY <1>5 DEF KvDelete
  <2> QED BY <1>b, <2>1 DEF AllOps, Labels
<1>6. CASE Purge(t) \/ DbMaintenance(t)
  BY <1>6 DEF NoRebuild, Purge, DbMaintenance
<1> QED BY <1>1, <1>2, <1>3, <1>4, <1>5, <1>6 DEF Begin
\* Steps that leave the rows, the clock and the filter alone and end or keep
\* a call that has nothing left to add.
LEMMA ReturnKeepsFInv ==
  ASSUME TInv, FInv, NEW t \in Threads, Return(t), UNCHANGED <<row, bloom, now, raised>>,
         pc[t] \notin {"clearIndex", "insertIndex", "bloomAdd"}
  PROVE  FInv'
<1>1. MovesTo(t, "idle", NoCall) BY DEF Return, Goto, MovesTo
<1> QED BY <1>1, NoCallTyped, NoCallFits, FilterStepSameRows DEF Labels

\* A step that leaves rows and filter alone keeps the filter invariant.
LEMMA StayKeepsFInv ==
  ASSUME TInv, FInv, NEW t \in Threads, NEW p \in Labels, Goto(t, p), UNCHANGED loc,
         UNCHANGED <<row, bloom, now, raised>>,
         p \in {"deleteIndex", "deleteRow"} \/ (p = "select" /\ loc[t].key \in bloom),
         pc[t] \notin {"clearIndex", "insertIndex", "bloomAdd"}
  PROVE  FInv'
<1>1. MovesTo(t, p, loc[t]) BY DEF Goto, MovesTo, TInv, Shape
<1>2. Fits(p, loc[t], bloom) BY DEF FInv, Fits
<1>3. loc[t] \in CallRecord BY LocType DEF TInv
<1> QED BY <1>1, <1>2, <1>3, FilterStepSameRows

\* Where Step leads, written as one move.
LEMMA StepTarget ==
  ASSUME TInv, NEW t \in Threads, NEW k \in Keys, NEW here \in Labels,
         NEW next \in Labels, Step(t, k, here, next)
  PROVE  \/ /\ loc[t].todo \ {k} = {} /\ next = "idle"
            /\ MovesTo(t, "idle", NoCall)
         \/ \E c \in CallRecord :
              /\ c.op = loc[t].op /\ c.key = k /\ c.val = loc[t].val
              /\ c.keys = loc[t].keys /\ c.exp = loc[t].exp
              /\ \/ /\ loc[t].todo \ {k} # {} /\ c.todo = loc[t].todo \ {k}
                    /\ MovesTo(t, here, c)
                 \/ /\ loc[t].todo \ {k} = {} /\ c.todo = loc[t].keys
                    /\ next # "idle" /\ MovesTo(t, next, c)
<1> DEFINE rest == loc[t].todo \ {k}
           c == [loc[t] EXCEPT !.key = k,
                               !.todo = IF rest # {} THEN rest ELSE loc[t].keys]
<1>1. CASE rest = {} /\ next = "idle"
  BY <1>1 DEF Step, Return, Goto, MovesTo
<1>2. CASE ~(rest = {} /\ next = "idle")
  <2>1. c \in CallRecord BY LocType DEF TInv, CallRecord
  <2>2. /\ c.op = loc[t].op /\ c.key = k /\ c.val = loc[t].val
        /\ c.keys = loc[t].keys /\ c.exp = loc[t].exp
        /\ c.todo = IF rest # {} THEN rest ELSE loc[t].keys
    BY LocType DEF TInv, CallRecord
  <2>3. MovesTo(t, IF rest # {} THEN here ELSE next, c)
    BY <1>2 DEF Step, Goto, MovesTo, TInv, Shape, CallRecord
  <2> HIDE DEF c
  <2> QED BY <1>2, <2>1, <2>2, <2>3
<1> QED BY <1>1, <1>2

\* Where t stands after it has consumed k: its call is over, goes on with the
\* rest of the work list, or takes up the next statement.
Consumes(t, k, here, next) ==
  \/ /\ loc[t].todo \ {k} = {} /\ next = "idle"
     /\ MovesTo(t, "idle", NoCall)
  \/ \E c \in CallRecord :
       /\ c.op = loc[t].op /\ c.key = k /\ c.val = loc[t].val
       /\ c.keys = loc[t].keys /\ c.exp = loc[t].exp
       /\ \/ /\ loc[t].todo \ {k} # {} /\ c.todo = loc[t].todo \ {k}
             /\ MovesTo(t, here, c)
          \/ /\ loc[t].todo \ {k} = {} /\ c.todo = loc[t].keys
             /\ next # "idle" /\ MovesTo(t, next, c)

\* StepTarget, with its conclusion named.
LEMMA StepConsumes ==
  ASSUME TInv, NEW t \in Threads, NEW k \in Keys, NEW here \in Labels,
         NEW next \in Labels, Step(t, k, here, next)
  PROVE  Consumes(t, k, here, next)
BY StepTarget DEF Consumes

\* A row that was upserted is in the filter or about to be added.
LEMMA UpsertKeepsFInv ==
  ASSUME TInv, FInv, NEW t \in Threads, Upsert(t) PROVE FInv'
<1>0. /\ Shape /\ CallOK(pc[t], loc[t]) /\ Fits(pc[t], loc[t], bloom)
      /\ pc[t] = "upsert" /\ UNCHANGED <<bloom, now>>
  BY CallFacts DEF TInv, FInv, Upsert
<1>1. loc[t].op \in {"set", "mset"} BY <1>0 DEF CallOK, AtLabel
<1>2. PICK k \in loc[t].todo : /\ row' = [row EXCEPT ![k] = Bumped(k, loc[t])]
                               /\ raised' = raised \ {k}
                               /\ Step(t, k, "upsert", "clearIndex")
  BY DEF Upsert
<1>3. k \in Keys BY LocType DEF TInv
<1>4. \A x \in Keys : row'[x] = IF x = k THEN Bumped(k, loc[t]) ELSE row[x]
  BY <1>0, <1>2 DEF Shape
<1>5. NoTtl => loc[t].exp = 0 BY <1>0 DEF Fits
<1>6. RowsKeep' BY <1>4, <1>5 DEF FInv, RowsKeep, Bumped
<1>7. \A x \in Keys : ~AddingBy(x, pc[t], loc[t]) BY <1>0 DEF AddingBy
<1>8. PICK p \in {"upsert", "clearIndex"}, c \in CallRecord :
        /\ MovesTo(t, p, c)
        /\ c.op = loc[t].op /\ c.key = k /\ c.keys = loc[t].keys /\ c.exp = loc[t].exp
        /\ p = "upsert" => loc[t].todo \ {k} # {}
  <2>1. "clearIndex" # "idle" OBVIOUS
  <2>2. "upsert" \in Labels /\ "clearIndex" \in Labels BY DEF Labels
  <2> QED BY <1>2, <1>3, <2>1, <2>2, StepTarget, ZenonT(60)
<1>9. CASE loc[t].op = "set"
  <2>1. k = loc[t].key /\ loc[t].todo = {k} BY <1>0, <1>9 DEF CallOK, KeyOps
  <2>2. p = "clearIndex" BY <1>8, <2>1
  <2>3. AddingBy(k, p, c) BY <1>8, <1>9, <2>2 DEF AddingBy
  <2>4. Fits(p, c, bloom') BY <1>0, <1>8, <1>9, <2>2 DEF Fits
  <2> QED BY <1>0, <1>2, <1>4, <1>6, <1>7, <1>8, <2>3, <2>4, FilterStepRaised DEF Labels
<1>10. CASE loc[t].op = "mset"
  <2>1. loc[t].keys \subseteq bloom BY <1>0, <1>10 DEF Fits
  <2>2. k \in bloom' BY <1>0, <1>10, <2>1 DEF CallOK
  <2>3. Fits(p, c, bloom') BY <1>0, <1>8, <1>10, <2>1 DEF Fits
  <2> QED BY <1>0, <1>2, <1>4, <1>6, <1>7, <1>8, <2>2, <2>3, FilterStepRaised DEF Labels
<1> QED BY <1>1, <1>9, <1>10

\* A created row is about to be added; an updated one cannot have expired.
LEMMA VersionedKeepsFInv ==
  ASSUME NoTtl \/ NoUpdates, TInv, FInv, NEW t \in Threads, Insert(t) \/ Update(t)
  PROVE  FInv'
<1>0. Shape /\ CallOK(pc[t], loc[t]) /\ Fits(pc[t], loc[t], bloom)
  BY CallFacts DEF TInv, FInv
<1> DEFINE k == loc[t].key
<1>1. PICK lab \in {"insert", "update"}, ok \in BOOLEAN :
        /\ Versioned(t, lab, ok)
        /\ lab = "update" /\ ok => row[k] # NoDoc
  BY DEF Insert, Update, Versioned
<1>2. /\ pc[t] = lab /\ UNCHANGED <<bloom, now>> /\ k \in Keys
      /\ lab = "insert" => loc[t].op = "create"
      /\ lab = "update" => loc[t].op = "update"
  BY <1>0, <1>1 DEF Versioned, CallOK, AtLabel, KeyOps
<1>3. CASE ~ok
  BY <1>1, <1>2, <1>3, ReturnKeepsFInv DEF Versioned
<1>4. CASE ok
  <2>1. row' = [row EXCEPT ![k] = Bumped(k, loc[t])] /\ Goto(t, "clearIndex")
        /\ UNCHANGED loc /\ raised' = raised \ (IF lab = "insert" THEN {k} ELSE {})
    BY <1>1, <1>4 DEF Versioned
  <2>2. \A x \in Keys : row'[x] = IF x = k THEN Bumped(k, loc[t]) ELSE row[x]
    BY <1>0, <2>1 DEF Shape
  <2>3. RowsKeep' BY <1>0, <2>2 DEF FInv, RowsKeep, Bumped, Fits
  <2>4. MovesTo(t, "clearIndex", loc[t]) BY <1>0, <2>1 DEF Goto, MovesTo, Shape
  <2>5. Fits("clearIndex", loc[t], bloom') BY <1>0, <1>2 DEF Fits
  <2>6. AddingBy(k, "clearIndex", loc[t]) \/ raised' = raised
    BY <1>2, <2>1 DEF AddingBy
  <2>7. raised' = raised \/ raised' = raised \ {k} BY <2>1
  <2>8. \A x \in Keys : ~AddingBy(x, pc[t], loc[t]) BY <1>2 DEF AddingBy
  <2>9. AddingBy(k, "clearIndex", loc[t]) \/ Live(row[k], now)
    <3>1. CASE lab = "insert" BY <1>2, <3>1 DEF AddingBy
    <3>2. CASE lab = "update"
      <4>1. NoTtl BY <1>0, <1>2, <3>2 DEF Fits
      <4>2. row[k].exp = 0 BY <1>1, <1>2, <1>4, <3>2, <4>1 DEF FInv, RowsKeep
      <4> QED BY <1>1, <1>4, <3>2, <4>2 DEF Live
    <3> QED BY <3>1, <3>2
  <2>10. \A x \in Keys : Live(row'[x], now) =>
           \/ AddingBy(x, "clearIndex", loc[t])
           \/ /\ Live(row[x], now) /\ ~AddingBy(x, pc[t], loc[t])
              /\ x \in raised => x \in raised'
    BY <2>2, <2>8, <2>9, <2>6, <2>7
  <2> QED BY <1>0, <1>2, <2>3, <2>4, <2>5, <2>10, LocType, FilterStepRaised DEF Labels
<1> QED BY <1>3, <1>4
\* From the first index statement to the bloom.add the call keeps its key.
LEMMA IndexKeepsFInv ==
  ASSUME TInv, FInv, NEW t \in Threads, ClearIndex(t) \/ InsertIndex(t) PROVE FInv'
<1>0. /\ Shape /\ CallOK(pc[t], loc[t]) /\ Fits(pc[t], loc[t], bloom)
      /\ pc[t] \in {"clearIndex", "insertIndex"}
      /\ UNCHANGED <<row, bloom, now, raised>>
  BY CallFacts DEF TInv, FInv, ClearIndex, InsertIndex, history
<1>1. loc[t].op \in WriteOps BY <1>0 DEF CallOK, AtLabel
<1>2. RowsKeep' BY <1>0 DEF FInv, RowsKeep
<1> DEFINE next == AfterIndex(loc[t].op)
<1>3. next \in {"bloomAdd", "idle"} /\ next \in Labels BY DEF AfterIndex, Labels
<1>4. loc[t].op \in {"set", "create"} => next = "bloomAdd" BY DEF AfterIndex
<1>5. PICK k \in Keys :
        /\ loc[t].op \in KeyOps => k = loc[t].key
        /\ \/ Step(t, k, "clearIndex", next)
           \/ MovesTo(t, "insertIndex", [loc[t] EXCEPT !.key = k])
  <2>1. CASE ClearIndex(t)
    <3>1. PICK k \in loc[t].todo :
            IF Field(loc[t].val) = NoDoc THEN Step(t, k, "clearIndex", next)
            ELSE Goto(t, "insertIndex") /\ loc' = [loc EXCEPT ![t].key = k]
      BY <2>1 DEF ClearIndex
    <3>2. k \in Keys BY LocType DEF TInv
    <3>3. loc[t].op \in KeyOps => k = loc[t].key BY <1>0 DEF CallOK
    <3> HIDE DEF next
    <3> QED BY <1>0, <3>1, <3>2, <3>3 DEF Goto, MovesTo, Shape
  <2>2. CASE InsertIndex(t)
    <3>1. loc[t].key \in Keys BY <1>0, <1>1 DEF CallOK, WriteOps, KeyOps
    <3> QED BY <2>2, <3>1 DEF InsertIndex
  <2> QED BY <2>1, <2>2
<1> HIDE DEF next
<1>6. CASE MovesTo(t, "idle", NoCall) /\ next = "idle"
  <2>1. \A x \in Keys : ~AddingBy(x, pc[t], loc[t]) BY <1>4, <1>6 DEF AddingBy
  <2>2. "idle" \in Labels BY DEF Labels
  <2> QED BY <1>0, <1>2, <1>6, <2>1, <2>2, NoCallTyped, NoCallFits, FilterStep, ZenonT(60)
<1>7. CASE \E c \in CallRecord, p \in {"clearIndex", "insertIndex", "bloomAdd"} :
             /\ MovesTo(t, p, c) /\ c.op = loc[t].op /\ c.key = k /\ c.exp = loc[t].exp
             /\ c.keys = loc[t].keys
             /\ p = "bloomAdd" => next = "bloomAdd"
  <2>1. PICK c \in CallRecord, p \in {"clearIndex", "insertIndex", "bloomAdd"} :
             /\ MovesTo(t, p, c) /\ c.op = loc[t].op /\ c.key = k /\ c.exp = loc[t].exp
             /\ c.keys = loc[t].keys
             /\ p = "bloomAdd" => next = "bloomAdd"
    BY <1>7
  <2>2. p = "bloomAdd" => c.op # "mset" BY <2>1 DEF next, AfterIndex
  <2>3. Fits(p, c, bloom') BY <1>0, <2>1, <2>2 DEF Fits
  <2>4. \A x \in Keys : AddingBy(x, pc[t], loc[t]) => AddingBy(x, p, c)
    BY <1>5, <2>1 DEF AddingBy, KeyOps
  <2>5. p \in Labels BY DEF Labels
  <2>6. \A x \in Keys : Live(row'[x], now) =>
           \/ x \in bloom' \/ AddingBy(x, p, c)
           \/ Live(row[x], now) /\ ~AddingBy(x, pc[t], loc[t])
    BY <1>0, <2>4
  <2>7. bloom \subseteq bloom' /\ now' = now /\ raised' = raised BY <1>0
  <2> QED BY <1>2, <2>1, <2>3, <2>5, <2>6, <2>7, FilterStep, ZenonT(60)
<1>8. CASE Step(t, k, "clearIndex", next)
  <2>1. "clearIndex" \in Labels BY DEF Labels
  <2>2. \/ /\ next = "idle" /\ MovesTo(t, "idle", NoCall)
        \/ \E c \in CallRecord :
             /\ c.op = loc[t].op /\ c.key = k /\ c.exp = loc[t].exp
             /\ c.keys = loc[t].keys
             /\ \/ MovesTo(t, "clearIndex", c)
                \/ next # "idle" /\ MovesTo(t, next, c)
    BY <1>3, <1>8, <2>1, StepTarget
  <2>3. CASE next = "idle" /\ MovesTo(t, "idle", NoCall) BY <1>6, <2>3
  <2>4. CASE \E c \in CallRecord :
               /\ c.op = loc[t].op /\ c.key = k /\ c.exp = loc[t].exp
               /\ c.keys = loc[t].keys
               /\ \/ MovesTo(t, "clearIndex", c)
                  \/ next # "idle" /\ MovesTo(t, next, c)
    BY <1>3, <1>7, <2>4
  <2> QED BY <2>2, <2>3, <2>4
<1>9. CASE MovesTo(t, "insertIndex", [loc[t] EXCEPT !.key = k])
  <2>1. [loc[t] EXCEPT !.key = k] \in CallRecord BY LocType DEF TInv, CallRecord
  <2>2. /\ [loc[t] EXCEPT !.key = k].op = loc[t].op
        /\ [loc[t] EXCEPT !.key = k].key = k
        /\ [loc[t] EXCEPT !.key = k].exp = loc[t].exp
        /\ [loc[t] EXCEPT !.key = k].keys = loc[t].keys
    BY LocType DEF TInv, CallRecord
  <2> QED BY <1>7, <1>9, <2>1, <2>2
<1> QED BY <1>5, <1>8, <1>9

\* The key that a thread was adding is in the filter now.
LEMMA BloomAddKeepsFInv ==
  ASSUME TInv, FInv, NEW t \in Threads, BloomAdd(t) PROVE FInv'
<1>0. /\ Shape /\ CallOK(pc[t], loc[t]) /\ Fits(pc[t], loc[t], bloom)
      /\ pc[t] = "bloomAdd" /\ UNCHANGED <<row, now, raised>>
  BY CallFacts DEF TInv, FInv, BloomAdd, history
<1>1. loc[t].op \in {"set", "create", "mset"} BY <1>0 DEF CallOK, AtLabel, Fits
<1>2. RowsKeep' BY <1>0 DEF FInv, RowsKeep
<1> DEFINE next == IF loc[t].op = "mset" THEN "upsert" ELSE "idle"
<1>3. PICK k \in loc[t].todo : bloom' = bloom \cup {k} /\ Step(t, k, "bloomAdd", next)
  BY DEF BloomAdd
<1>4. k \in Keys BY LocType DEF TInv
<1>5. \A x \in Keys : AddingBy(x, pc[t], loc[t]) => x \in bloom'
  BY <1>0, <1>3 DEF AddingBy, CallOK, KeyOps
<1>6. \A x \in Keys : Live(row'[x], now) =>
         x \in bloom' \/ (Live(row[x], now) /\ ~AddingBy(x, pc[t], loc[t]))
  BY <1>0, <1>5
<1>7. "bloomAdd" \in Labels /\ "idle" \in Labels /\ next \in Labels BY DEF Labels
<1>8. CASE MovesTo(t, "idle", NoCall)
  BY <1>0, <1>2, <1>3, <1>6, <1>7, <1>8, NoCallTyped, NoCallFits, FilterStep
<1>9. CASE \E c \in CallRecord :
             /\ c.op = loc[t].op /\ c.keys = loc[t].keys /\ c.exp = loc[t].exp
             /\ \/ c.todo = loc[t].todo \ {k} /\ MovesTo(t, "bloomAdd", c)
                \/ /\ loc[t].todo \ {k} = {} /\ next # "idle"
                   /\ MovesTo(t, next, c)
  <2>1. PICK c \in CallRecord :
             /\ c.op = loc[t].op /\ c.keys = loc[t].keys /\ c.exp = loc[t].exp
             /\ \/ c.todo = loc[t].todo \ {k} /\ MovesTo(t, "bloomAdd", c)
                \/ /\ loc[t].todo \ {k} = {} /\ next # "idle"
                   /\ MovesTo(t, next, c)
    BY <1>9
  <2>2. loc[t].op = "mset" => loc[t].keys \ loc[t].todo \subseteq bloom
    BY <1>0 DEF Fits
  <2>3. CASE c.todo = loc[t].todo \ {k} /\ MovesTo(t, "bloomAdd", c)
    <3>1. Fits("bloomAdd", c, bloom') BY <1>0, <1>3, <2>1, <2>2, <2>3 DEF Fits
    <3> QED BY <1>0, <1>2, <1>3, <1>6, <1>7, <2>3, <3>1, FilterStep
  <2>4. CASE loc[t].todo \ {k} = {} /\ next # "idle" /\ MovesTo(t, next, c)
    <3>1. next = "upsert" BY <2>4
    <3>2. Fits("upsert", c, bloom') BY <1>0, <1>3, <2>1, <2>2, <2>4 DEF Fits
    <3> HIDE DEF next
    <3> QED BY <1>0, <1>2, <1>3, <1>6, <1>7, <2>4, <3>1, <3>2, FilterStep
  <2> QED BY <2>1, <2>3, <2>4
<1> HIDE DEF next
<1> QED BY <1>3, <1>4, <1>7, <1>8, <1>9, StepTarget

\* Reads change neither rows nor filter.
LEMMA ReadsKeepFInv ==
  ASSUME TInv, FInv, NEW t \in Threads, Lookup(t) \/ Select(t) PROVE FInv'
<1>1. CASE Lookup(t)
  <2>1. CASE loc[t].key \in bloom BY <1>1, <2>1, StayKeepsFInv DEF history, Lookup, Labels
  <2>2. CASE loc[t].key \notin bloom BY <1>1, <2>2, ReturnKeepsFInv DEF history, Lookup
  <2> QED BY <2>1, <2>2
<1>2. CASE Select(t)
  <2>1. CASE Dead(row[loc[t].key], now)
    BY <1>2, <2>1, StayKeepsFInv DEF history, Select, Labels
  <2>2. CASE ~Dead(row[loc[t].key], now) BY <1>2, <2>2, ReturnKeepsFInv DEF history, Select
  <2> QED BY <2>1, <2>2
<1> QED BY <1>1, <1>2

\* Deleting a row asks nothing of the filter.
LEMMA DeleteKeepsFInv ==
  ASSUME TInv, FInv, NEW t \in Threads, DeleteIndex(t) \/ DeleteRow(t) PROVE FInv'
<1>1. CASE DeleteIndex(t) BY <1>1, StayKeepsFInv DEF history, DeleteIndex, Labels
<1>2. CASE DeleteRow(t)
  <2>1. \A x \in Keys : row'[x] = row[x] \/ row'[x] = NoDoc
    BY <1>2 DEF DeleteRow, TInv, Shape
  <2>2. RowsKeep' BY <2>1 DEF FInv, RowsKeep
  <2>3. pc[t] = "deleteRow" /\ UNCHANGED <<bloom, now, raised>>
    BY <1>2 DEF DeleteRow, history
  <2>4. \A x \in Keys : Live(row'[x], now) =>
           Live(row[x], now) /\ ~AddingBy(x, pc[t], loc[t])
    BY <2>1, <2>3 DEF Live, AddingBy
  <2>5. MovesTo(t, "idle", NoCall) BY <1>2 DEF DeleteRow, Return, Goto, MovesTo
  <2>6. "idle" \in Labels BY DEF Labels
  <2> QED BY <2>2, <2>3, <2>4, <2>5, <2>6, NoCallTyped, NoCallFits, FilterStep, ZenonT(60)
<1> QED BY <1>1, <1>2

\* A store that raises after its row is excused; what else raises changes nothing
\* here.
LEMMA FailKeepsFInv ==
  ASSUME TInv, FInv, NEW t \in Threads, Fail(t) PROVE FInv'
<1>0. CallOK(pc[t], loc[t]) /\ UNCHANGED <<row, bloom, now>> BY CallFacts DEF Fail
<1>1. RowsKeep' BY <1>0 DEF FInv, RowsKeep
<1>2. MovesTo(t, "idle", NoCall) BY DEF Fail, Return, Goto, MovesTo
<1>3. raised \subseteq raised' BY DEF Fail
<1>4. \A k \in Keys : AddingBy(k, pc[t], loc[t]) => k \in raised'
  BY <1>0 DEF AddingBy, Fail, CallOK, KeyOps
<1>5. \A k \in Keys : Live(row'[k], now) =>
         \/ k \in bloom' \cup raised' \/ AddingBy(k, "idle", NoCall)
         \/ /\ Live(row[k], now) /\ ~AddingBy(k, pc[t], loc[t])
            /\ k \in raised => k \in raised'
  BY <1>0, <1>3, <1>4
<1>6. "idle" \in Labels /\ bloom \subseteq bloom' /\ now' = now BY <1>0 DEF Labels
<1> QED BY <1>1, <1>2, <1>5, <1>6, NoCallTyped, NoCallFits, FilterStepRaised, ZenonT(60)

\* Every step keeps what FilterSound rests on.
THEOREM FilterInvariant ==
  ASSUME KvAssumption, NoRebuild, NoTtl \/ NoUpdates
  PROVE  Spec => []FInv
<1>1. Init => FInv
  BY DEF Init, FInv, Fits, NoCall, Rebuilds, RowsKeep, FilterCoversLiveRows, Live
<1>2. TInv /\ FInv /\ [Next]_vars => FInv'
  <2> SUFFICES ASSUME TInv, FInv, [Next]_vars PROVE FInv'
    OBVIOUS
  <2>1. CASE \E t \in Threads : Begin(t) BY <2>1, BeginKeepsFInv
  <2>2. CASE \E t \in Threads : ThreadStep(t)
    <3>1. PICK t \in Threads : ThreadStep(t) BY <2>2
    <3>2. CallOK(pc[t], loc[t]) /\ loc[t].op \notin Rebuilds
      BY CallFacts DEF FInv, Fits
    <3>3. ~(PurgeSelect(t) \/ PurgeIndex(t) \/ PurgeRows(t) \/ RebuildSelect(t)
            \/ RebuildClear(t))
      BY <3>2 DEF PurgeSelect, PurgeIndex, PurgeRows, RebuildSelect, RebuildClear,
                  CallOK, AtLabel, Rebuilds
    <3> QED BY <3>1, <3>3, ReadsKeepFInv, UpsertKeepsFInv, VersionedKeepsFInv,
               IndexKeepsFInv, BloomAddKeepsFInv, DeleteKeepsFInv DEF ThreadStep
  <2>3. CASE Tick
    <3>1. \A k \in Keys : Live(row[k], now + 1) => Live(row[k], now)
      <4> TAKE k \in Keys
      <4>1. CASE row[k] = NoDoc BY <4>1 DEF Live
      <4>2. CASE row[k] # NoDoc
        <5>1. row[k].exp \in Nat /\ now \in Nat BY <4>2 DEF TInv, Shape, Row
        <5> QED BY <5>1 DEF Live
      <4> QED BY <4>1, <4>2
    <3>2. FilterCoversLiveRows'
      BY <2>3, <3>1 DEF Tick, history, FInv, FilterCoversLiveRows, Adding
    <3> QED BY <2>3, <3>2 DEF Tick, FInv, Fits, RowsKeep
  <2>4. CASE Crash
    <3>1. \A t \in Threads : Fits(pc'[t], loc'[t], bloom')
      BY <2>4, NoCallFits DEF Crash
    <3>2. FilterCoversLiveRows'
      BY <2>4 DEF Crash, FilterCoversLiveRows, LiveKeys, Live
    <3> QED BY <2>4, <3>1, <3>2 DEF Crash, FInv, RowsKeep
  <2>5. CASE UNCHANGED vars
    BY <2>5 DEF vars, history, FInv, Fits, RowsKeep, FilterCoversLiveRows, Adding, Live
  <2>6. CASE \E t \in Threads : Fail(t) BY <2>6, FailKeepsFInv
  <2> QED BY <2>1, <2>2, <2>3, <2>4, <2>5, <2>6 DEF Next, Finished
<1> QED BY <1>1, <1>2, Typing, PTL DEF Spec

\* Without rebuilds beside the writers, and without versioned updates of
\* documents that can expire, a read is never answered "not found" from memory
\* for a live document, except while a store of it is between its row and its
\* bloom.add, or after one raised there, or after a restart whose rebuild raised:
\* the FilterCoversLiveRows of the runs, for any number of keys and threads and
\* with statements that raise, crashes and restarts.
THEOREM FilterSound ==
  ASSUME KvAssumption, NoRebuild, NoTtl \/ NoUpdates
  PROVE  Spec => []FilterCoversLiveRows
<1>1. FInv => FilterCoversLiveRows BY DEF FInv
<1>2. Spec => []FInv BY FilterInvariant
<1> QED BY <1>1, <1>2, PTL
-----------------------------------------------------------------------------
(***************************************************************************)
(* Live documents.  The purge decides by a clock value it read earlier;    *)
(* the argument needs only that this value is never ahead of the clock.    *)
(***************************************************************************)
PurgesLookBack == \A t \in Threads : loc[t].op = "purge" => loc[t].exp <= now

\* A statement never turns a call into another one.
LEMMA StepsKeepCall ==
  ASSUME TInv, NEW t \in Threads, ThreadStep(t)
  PROVE  /\ now' = now
         /\ \A u \in Threads : \/ loc'[u].op = "none"
                               \/ loc'[u].op = loc[u].op /\ loc'[u].exp = loc[u].exp
<1> DEFINE Same(c) == c.op = loc[t].op /\ c.exp = loc[t].exp
<1>0. Shape /\ loc[t] \in CallRecord BY LocType DEF TInv
<1>1. now' = now
  BY DEF ThreadStep, Lookup, Select, Upsert, Insert, Update, Versioned, ClearIndex,
         InsertIndex, BloomAdd, DeleteIndex, DeleteRow, PurgeSelect, PurgeIndex,
         PurgeRows, RebuildSelect, RebuildClear
<1>2. ASSUME NEW k \in Keys, NEW here \in Labels, NEW next \in Labels,
             Step(t, k, here, next)
      PROVE  \/ loc' = [loc EXCEPT ![t] = NoCall]
             \/ \E c \in CallRecord : Same(c) /\ loc' = [loc EXCEPT ![t] = c]
  BY <1>2, StepTarget DEF TInv, MovesTo
<1>3. \/ loc' = loc \/ loc' = [loc EXCEPT ![t] = NoCall]
      \/ \E c \in CallRecord : Same(c) /\ loc' = [loc EXCEPT ![t] = c]
  <2>1. CASE Upsert(t) \/ ClearIndex(t) \/ InsertIndex(t) \/ BloomAdd(t)
    <3>1. \/ \E k \in Keys, here \in Labels, next \in Labels : Step(t, k, here, next)
          \/ \E k \in Keys : loc' = [loc EXCEPT ![t].key = k]
      <4>1. CASE Upsert(t)
        BY <1>0, <4>1, LocType DEF Upsert, Labels
      <4>2. AfterIndex(loc[t].op) \in Labels BY DEF AfterIndex, Labels
      <4>3. CASE ClearIndex(t)
        BY <1>0, <4>2, <4>3, LocType DEF ClearIndex, Labels
      <4>4. CASE InsertIndex(t)
        <5>1. CallOK(pc[t], loc[t]) BY CallFacts
        <5>2. loc[t].key \in Keys
          BY <4>4, <5>1 DEF InsertIndex, CallOK, AtLabel, WriteOps, KeyOps
        <5> QED BY <4>2, <4>4, <5>2 DEF InsertIndex, Labels
      <4>5. CASE BloomAdd(t)
        BY <1>0, <4>5, LocType DEF BloomAdd, Labels
      <4> QED BY <2>1, <4>1, <4>3, <4>4, <4>5
    <3>2. CASE \E k \in Keys : loc' = [loc EXCEPT ![t].key = k]
      <4>1. PICK k \in Keys : loc' = [loc EXCEPT ![t].key = k] BY <3>2
      <4>2. [loc[t] EXCEPT !.key = k] \in CallRecord /\ Same([loc[t] EXCEPT !.key = k])
        BY <1>0 DEF CallRecord
      <4> QED BY <1>0, <4>1, <4>2 DEF Shape
    <3> QED BY <1>2, <3>1, <3>2
  <2>2. CASE PurgeSelect(t) \/ RebuildSelect(t)
    <3> DEFINE K == DeadKeys(loc[t].exp)
               L == LiveKeys(now)
               c == [loc[t] EXCEPT !.keys = K, !.todo = K]
               d == [loc[t] EXCEPT !.todo = L]
    <3>1. K \in SUBSET Keys /\ L \in SUBSET Keys BY DEF DeadKeys, LiveKeys
    <3>2. c \in CallRecord /\ Same(c) /\ d \in CallRecord /\ Same(d)
      BY <1>0, <3>1 DEF CallRecord
    <3>3. loc' = [loc EXCEPT ![t] = c] \/ loc' = [loc EXCEPT ![t] = d]
          \/ loc' = [loc EXCEPT ![t] = NoCall]
      BY <1>0, <2>2 DEF PurgeSelect, RebuildSelect, Return, Shape, CallRecord
    <3> HIDE DEF c, d
    <3> QED BY <3>2, <3>3
  <2>3. CASE ~(\/ Upsert(t) \/ ClearIndex(t) \/ InsertIndex(t) \/ BloomAdd(t)
               \/ PurgeSelect(t) \/ RebuildSelect(t))
    BY <2>3 DEF ThreadStep, Lookup, Select, Insert, Update, Versioned, DeleteIndex,
                DeleteRow, PurgeIndex, PurgeRows, RebuildClear, Return
  <2> QED BY <2>1, <2>2, <2>3
<1>4. \A u \in Threads : \/ loc'[u].op = "none"
                         \/ loc'[u].op = loc[u].op /\ loc'[u].exp = loc[u].exp
  BY <1>0, <1>3 DEF NoCall, Shape
<1> QED BY <1>1, <1>4

\* The moment a purge compares with never lies in the future.
LEMMA PurgesLookBackKept ==
  ASSUME TInv, PurgesLookBack, [Next]_vars PROVE PurgesLookBack'
<1>0. now \in Nat /\ \A t \in Threads : loc[t].exp \in Nat
  BY LocType DEF TInv, Shape
<1>1. CASE \E t \in Threads : Begin(t)
  <2>1. PICK t \in Threads : Begin(t) BY <1>1
  <2>2. ASSUME NEW p, NEW c, Call(t, p, c), c.op = "purge" => c.exp = now
        PROVE  PurgesLookBack'
    <3>1. \A u \in Threads : loc'[u] = IF u = t THEN c ELSE loc[u]
      BY <2>2 DEF Call, TInv, Shape
    <3>2. now' = now BY <2>2 DEF Call
    <3> QED BY <1>0, <2>2, <3>1, <3>2 DEF PurgesLookBack
  <2>3. CASE Purge(t)
    <3> DEFINE c == [NoCall EXCEPT !.op = "purge", !.exp = now]
    <3>1. c.exp = now BY DEF NoCall
    <3>2. Call(t, "purgeSelect", c) BY <2>3 DEF Purge
    <3> HIDE DEF c
    <3> QED BY <2>2, <3>1, <3>2
  <2>4. CASE DbMaintenance(t)
    <3> DEFINE c == [NoCall EXCEPT !.op = "maint"]
    <3>1. c.op # "purge" BY DEF NoCall
    <3>2. Call(t, "rebuildSelect", c) BY <2>4 DEF DbMaintenance
    <3> HIDE DEF c
    <3> QED BY <2>2, <3>1, <3>2
  <2>5. ASSUME NEW op \in AllOps \ {"purge"}, NEW p, NEW K, NEW v, NEW e, NEW n,
               ClientCall(t, op, p, K, v, e, n)
        PROVE  PurgesLookBack'
    <3>1. PICK k \in K : Call(t, p, [op |-> op, keys |-> K, todo |-> K, key |-> k,
                                     val |-> v, exp |-> e, ver |-> n])
      BY <2>5 DEF ClientCall
    <3> DEFINE c == [op |-> op, keys |-> K, todo |-> K, key |-> k, val |-> v,
                     exp |-> e, ver |-> n]
    <3>2. c.op # "purge" OBVIOUS
    <3> HIDE DEF c
    <3> QED BY <2>2, <3>1, <3>2 DEF c
  <2>6. CASE ~Purge(t) /\ ~DbMaintenance(t)
    <3> USE DEF AllOps, WriteOps, Reads, Rebuilds
    <3>1. CASE KvSet(t) BY <2>5, <3>1 DEF KvSet
    <3>2. CASE KvMset(t) BY <2>5, <3>2 DEF KvMset
    <3>3. CASE KvSetVersioned(t) BY <2>5, <3>3 DEF KvSetVersioned
    <3>4. CASE KvGet(t) BY <2>5, <3>4 DEF KvGet, Read
    <3>5. CASE KvGetVersioned(t) BY <2>5, <3>5 DEF KvGetVersioned, Read
    <3>6. CASE KvDelete(t) BY <2>5, <3>6 DEF KvDelete
    <3> QED BY <2>1, <2>6, <3>1, <3>2, <3>3, <3>4, <3>5, <3>6 DEF Begin
  <2> QED BY <2>3, <2>4, <2>6
<1>2. CASE \E t \in Threads : ThreadStep(t)
  BY <1>2, StepsKeepCall DEF PurgesLookBack
<1>3. CASE Tick BY <1>0, <1>3 DEF Tick, PurgesLookBack
<1>4. CASE Crash BY <1>4 DEF Crash, PurgesLookBack, NoCall
<1>5. CASE UNCHANGED vars BY <1>5 DEF vars, PurgesLookBack
<1>6. CASE \E t \in Threads : Fail(t)
  BY <1>0, <1>6 DEF Fail, Return, NoCall, PurgesLookBack, TInv, Shape
<1> QED BY <1>1, <1>2, <1>3, <1>4, <1>5, <1>6 DEF Next, Finished

\* What each statement does to one row.
LEMMA RowEffects ==
  ASSUME KvAssumption, TInv, NEW k \in Keys, [Next]_vars
  PROVE  \/ row'[k] = row[k]
         \/ \E t \in Threads : /\ row'[k] = Bumped(k, loc[t]) /\ row'[k] \in Row
                               /\ loc[t].op \in WriteOps /\ k \in loc[t].keys
         \/ /\ row'[k] = NoDoc
            /\ \E t \in Threads : pc[t] = "deleteRow" /\ loc[t].key = k
         \/ /\ row'[k] = NoDoc
            /\ \E t \in Threads : loc[t].op = "purge" /\ Dead(row[k], loc[t].exp)
<1>0. Shape BY DEF TInv
<1>1. CASE row' = row BY <1>1
<1>2. CASE \E t \in Threads : Upsert(t)
  <2>1. PICK t \in Threads : Upsert(t) BY <1>2
  <2>2. PICK x \in loc[t].todo : row' = [row EXCEPT ![x] = Bumped(x, loc[t])]
    BY <2>1 DEF Upsert
  <2>3. CallOK(pc[t], loc[t]) /\ x \in Keys BY CallFacts, LocType DEF TInv
  <2>4. /\ loc[t].op \in WriteOps /\ loc[t].val \in Values
        /\ loc[t].todo \subseteq loc[t].keys
    BY <2>1, <2>3 DEF Upsert, CallOK, AtLabel, WriteOps, KeyOps
  <2>5. Bumped(x, loc[t]) \in Row BY <2>3, <2>4, BumpedType
  <2> QED BY <1>0, <2>2, <2>4, <2>5 DEF Shape
<1>3. CASE \E t \in Threads : Insert(t) \/ Update(t)
  <2>1. PICK t \in Threads : Insert(t) \/ Update(t) BY <1>3
  <2>2. CallOK(pc[t], loc[t]) BY CallFacts
  <2>3. /\ loc[t].val \in Values /\ loc[t].key \in Keys
        /\ loc[t].op \in WriteOps /\ loc[t].key \in loc[t].keys
        /\ row' = row \/ row' = [row EXCEPT ![loc[t].key] = Bumped(loc[t].key, loc[t])]
    BY <2>1, <2>2 DEF Insert, Update, Versioned, CallOK, AtLabel, WriteOps, KeyOps
  <2>4. Bumped(loc[t].key, loc[t]) \in Row BY <2>3, BumpedType
  <2> QED BY <1>0, <2>3, <2>4 DEF Shape
<1>4. CASE \E t \in Threads : DeleteRow(t)
  BY <1>0, <1>4 DEF DeleteRow, Shape
<1>5. CASE \E t \in Threads : PurgeRows(t)
  <2>1. PICK t \in Threads : PurgeRows(t) BY <1>5
  <2>2. CallOK(pc[t], loc[t]) BY CallFacts
  <2>3. loc[t].op = "purge" BY <2>1, <2>2 DEF PurgeRows, CallOK, AtLabel
  <2> QED BY <1>0, <2>1, <2>3 DEF PurgeRows, DeadKeys
<1>6. ASSUME NEW t \in Threads, Begin(t) PROVE row' = row
  BY <1>6 DEF Begin, KvSet, KvMset, KvSetVersioned, KvGet, KvGetVersioned, Read,
              KvDelete, Purge, DbMaintenance, ClientCall, Call
<1>7. ASSUME NEW t \in Threads, ThreadStep(t)
      PROVE  \/ row' = row \/ Upsert(t) \/ Insert(t) \/ Update(t) \/ DeleteRow(t)
             \/ PurgeRows(t)
  BY <1>7 DEF ThreadStep, Lookup, Select, ClearIndex, InsertIndex, BloomAdd,
              DeleteIndex, PurgeSelect, PurgeIndex, RebuildSelect, RebuildClear
<1>8. CASE Tick \/ Crash \/ UNCHANGED vars BY <1>1, <1>8 DEF Tick, Crash, vars
<1>9. CASE \E t \in Threads : Fail(t) BY <1>1, <1>9 DEF Fail
<1> QED BY <1>1, <1>2, <1>3, <1>4, <1>5, <1>6, <1>7, <1>8, <1>9 DEF Next, Finished

\* A live document only disappears through the DELETE of a kv_delete of its
\* key: the purge never takes one, however its statements interleave with the
\* writes that refresh documents (the OnlyDeletesRemoveLiveRows of the runs).
THEOREM PurgeSparesLiveRows ==
  ASSUME KvAssumption PROVE Spec => OnlyDeletesRemoveLiveRows
<1> DEFINE A == \A k \in Keys : Live(row[k], now) /\ row'[k] = NoDoc
                   => \E t \in Threads : pc[t] = "deleteRow" /\ loc[t].key = k
<1>1. Init => PurgesLookBack BY DEF Init, PurgesLookBack, NoCall
<1>2. TInv /\ PurgesLookBack /\ [Next]_vars => A
  <2> SUFFICES ASSUME TInv, PurgesLookBack, [Next]_vars, NEW k \in Keys,
                      Live(row[k], now), row'[k] = NoDoc
               PROVE  \E t \in Threads : pc[t] = "deleteRow" /\ loc[t].key = k
    OBVIOUS
  <2>1. row[k] # NoDoc BY DEF Live
  <2>2. row'[k] \notin Row BY DEF KvAssumption
  <2>3. \A t \in Threads : loc[t].op = "purge" => ~Dead(row[k], loc[t].exp)
    <3> SUFFICES ASSUME NEW t \in Threads, loc[t].op = "purge"
                 PROVE  ~Dead(row[k], loc[t].exp)
      OBVIOUS
    <3>1. row[k].exp \in Nat BY <2>1 DEF TInv, Shape, Row
    <3>2. loc[t].exp \in Nat /\ now \in Nat BY LocType DEF TInv, Shape
    <3>3. loc[t].exp <= now BY DEF PurgesLookBack
    <3> QED BY <3>1, <3>2, <3>3 DEF Live, Dead
  <2> QED BY <2>1, <2>2, <2>3, RowEffects
<1>3. TInv /\ PurgesLookBack /\ [Next]_vars => PurgesLookBack'
  BY PurgesLookBackKept
<1>4. TInv /\ PurgesLookBack /\ [Next]_vars => [A]_vars BY <1>2
<1> HIDE DEF A
<1>5. Spec => [][A]_vars BY <1>1, <1>3, <1>4, Typing, PTL DEF Spec
<1> QED BY <1>5 DEF OnlyDeletesRemoveLiveRows, A

-----------------------------------------------------------------------------
(***************************************************************************)
(* Lost updates.  What a caller knows of a key that is never removed stays *)
(* a lower bound of the row's version, and at equal versions it knows the  *)
(* very document.                                                          *)
(***************************************************************************)
\* r is what a caller knows, R the rows.
Known(r, R) ==
  r.ver > 0 /\ r.key \in Keys /\ NeverRemoved(r.key)
    => /\ R[r.key] # NoDoc /\ R[r.key].ver >= r.ver
       /\ R[r.key].ver = r.ver => R[r.key].val = r.val

\* What the call at label p with locals c does to keys that are never removed.
Sparing(p, c, r) ==
  /\ c.op \in WriteOps => \A k \in c.keys : NeverRemoved(k) => c.exp = 0
  /\ p \in {"deleteIndex", "deleteRow"} => ~NeverRemoved(c.key)
  /\ c.op = "create" => c.ver = 0
  /\ p = "update" => c.key = r.key /\ c.ver = r.ver /\ r.ver > 0

Lasting == \A k \in Keys : NeverRemoved(k) /\ row[k] # NoDoc => row[k].exp = 0
LInv == /\ Lasting
        /\ \A t \in Threads : Known(res[t], row) /\ Sparing(pc[t], loc[t], res[t])

\* A row that is never removed stays or gets its next version.
LEMMA RowsLast ==
  ASSUME KvAssumption, TInv, LInv, [Next]_vars
  PROVE  /\ Lasting'
         /\ \A k \in Keys : NeverRemoved(k) =>
              \/ row'[k] = row[k]
              \/ row'[k] # NoDoc /\ (row[k] # NoDoc => row'[k].ver = row[k].ver + 1)
<1> SUFFICES ASSUME NEW k \in Keys, NeverRemoved(k)
             PROVE  \/ row'[k] = row[k]
                    \/ /\ row'[k] # NoDoc /\ row'[k].exp = 0
                       /\ row[k] # NoDoc => row'[k].ver = row[k].ver + 1
  BY DEF Lasting, LInv, NeverRemoved
<1>1. ASSUME NEW t \in Threads, row'[k] = Bumped(k, loc[t]), row'[k] \in Row,
             loc[t].op \in WriteOps, k \in loc[t].keys
      PROVE  /\ row'[k] # NoDoc /\ row'[k].exp = 0
             /\ row[k] # NoDoc => row'[k].ver = row[k].ver + 1
  <2>1. loc[t].exp = 0 BY <1>1 DEF LInv, Sparing
  <2> QED BY <1>1, <2>1 DEF Bumped, KvAssumption
<1>2. ~\E t \in Threads : pc[t] = "deleteRow" /\ loc[t].key = k
  BY DEF LInv, Sparing
<1>3. ~\E t \in Threads : loc[t].op = "purge" /\ Dead(row[k], loc[t].exp)
  BY DEF LInv, Lasting, Dead
<1> QED BY <1>1, <1>2, <1>3, RowEffects

\* What was known stays known.
LEMMA KnownLasts ==
  ASSUME TInv, TInv', NEW r, r.ver \in Nat, Known(r, row),
         \A k \in Keys : NeverRemoved(k) =>
            \/ row'[k] = row[k]
            \/ row'[k] # NoDoc /\ (row[k] # NoDoc => row'[k].ver = row[k].ver + 1)
  PROVE  Known(r, row')
<1> SUFFICES ASSUME r.ver > 0, r.key \in Keys, NeverRemoved(r.key)
             PROVE  /\ row'[r.key] # NoDoc /\ row'[r.key].ver >= r.ver
                    /\ row'[r.key].ver = r.ver => row'[r.key].val = r.val
  BY DEF Known
<1>1. /\ row[r.key] # NoDoc /\ row[r.key].ver >= r.ver
      /\ row[r.key].ver = r.ver => row[r.key].val = r.val
  BY DEF Known
<1>2. row[r.key].ver \in Nat BY <1>1 DEF TInv, Shape, Row
<1> QED BY <1>1, <1>2

\* How a statement changes its thread.
LEMMA StepShape ==
  ASSUME TInv, NEW t \in Threads, ThreadStep(t)
  PROVE  /\ \A u \in Threads \ {t} : /\ pc'[u] = pc[u] /\ loc'[u] = loc[u]
                                     /\ res'[u] = res[u]
         /\ loc'[t].op \in WriteOps =>
              /\ loc'[t].op = loc[t].op /\ loc'[t].keys = loc[t].keys
              /\ loc'[t].exp = loc[t].exp /\ loc'[t].ver = loc[t].ver
         /\ pc'[t] # "update"
         /\ pc'[t] \in {"deleteIndex", "deleteRow"} =>
              /\ loc'[t] = loc[t]
              /\ \/ pc[t] = "deleteIndex"
                 \/ loc[t].key \in Keys /\ Dead(row[loc[t].key], now)
<1>0. /\ Shape /\ loc[t] \in CallRecord /\ CallOK(pc[t], loc[t])
      /\ NoCall.op \notin WriteOps
  BY LocType, CallFacts DEF TInv, NoCall, WriteOps
<1> DEFINE Same(c) == /\ c.op = loc[t].op /\ c.keys = loc[t].keys
                      /\ c.exp = loc[t].exp /\ c.ver = loc[t].ver
           Q(p, c) == /\ c.op \in WriteOps => Same(c)
                      /\ p \notin {"update", "deleteIndex", "deleteRow"}
<1>s. ASSUME NEW k, NEW here, NEW next, Step(t, k, here, next),
             here \notin {"update", "deleteIndex", "deleteRow"},
             next \notin {"update", "deleteIndex", "deleteRow"}
      PROVE  \E p, c : Q(p, c) /\ MovesTo(t, p, c)
  <2> DEFINE more == loc[t].todo \ {k} # {}
             c == [loc[t] EXCEPT !.key = k,
                                 !.todo = IF more THEN loc[t].todo \ {k} ELSE loc[t].keys]
             p == IF more THEN here ELSE next
  <2>1. CASE Return(t) BY <1>0, <2>1 DEF Return, Goto, MovesTo
  <2>2. CASE ~Return(t)
    <3>1. MovesTo(t, p, c)
      BY <1>0, <1>s, <2>2 DEF Step, Goto, MovesTo, Shape, CallRecord
    <3>2. Same(c) BY <1>0 DEF CallRecord
    <3>3. p \notin {"update", "deleteIndex", "deleteRow"} BY <1>s
    <3> HIDE DEF c, p
    <3> QED BY <3>1, <3>2, <3>3
  <2> QED BY <2>1, <2>2
<1>r. ASSUME Return(t) PROVE \E p, c : Q(p, c) /\ MovesTo(t, p, c)
  BY <1>0, <1>r DEF Return, Goto, MovesTo
<1>g. ASSUME NEW p, Goto(t, p), UNCHANGED loc PROVE MovesTo(t, p, loc[t])
  BY <1>0, <1>g DEF Goto, MovesTo, Shape
<1> HIDE DEF Q
<1>1. \/ \E p, c : Q(p, c) /\ MovesTo(t, p, c)
      \/ \E p \in {"deleteIndex", "deleteRow"} :
           /\ MovesTo(t, p, loc[t])
           /\ \/ pc[t] = "deleteIndex"
              \/ loc[t].key \in Keys /\ Dead(row[loc[t].key], now)
  <2>q. \A p \in Labels \ {"update", "deleteIndex", "deleteRow"} : Q(p, loc[t])
    BY DEF Q
  <2>1. CASE Lookup(t) \/ Insert(t) \/ Update(t) \/ PurgeIndex(t) \/ PurgeRows(t)
             \/ RebuildClear(t) \/ DeleteRow(t)
    <3>1. Return(t) \/ \E p \in Labels \ {"update", "deleteIndex", "deleteRow"} :
                          Goto(t, p) /\ UNCHANGED loc
      BY <2>1 DEF Lookup, Insert, Update, Versioned, PurgeIndex, PurgeRows,
                  RebuildClear, DeleteRow, Labels
    <3> QED BY <1>r, <1>g, <2>q, <3>1
  <2>2. CASE Select(t)
    <3>1. loc[t].key \in Keys
      BY <1>0, <2>2 DEF Select, CallOK, AtLabel, KeyOps, Reads
    <3> QED BY <1>r, <1>g, <2>2, <3>1 DEF Select
  <2>3. CASE DeleteIndex(t)
    <3>1. pc[t] = "deleteIndex" /\ MovesTo(t, "deleteRow", loc[t])
      BY <1>g, <2>3 DEF DeleteIndex
    <3> QED BY <3>1
  <2>4. CASE Upsert(t) BY <1>s, <2>4 DEF Upsert
  <2>5. CASE BloomAdd(t) BY <1>s, <2>5 DEF BloomAdd
  <2>6. CASE InsertIndex(t) BY <1>s, <2>6 DEF InsertIndex, AfterIndex
  <2>7. CASE ClearIndex(t)
    <3>1. PICK k \in loc[t].todo :
            IF Field(loc[t].val) = NoDoc
            THEN Step(t, k, "clearIndex", AfterIndex(loc[t].op))
            ELSE Goto(t, "insertIndex") /\ loc' = [loc EXCEPT ![t].key = k]
      BY <2>7 DEF ClearIndex
    <3>2. CASE Field(loc[t].val) = NoDoc BY <1>s, <3>1, <3>2 DEF AfterIndex
    <3>3. CASE Field(loc[t].val) # NoDoc
      <4> DEFINE c == [loc[t] EXCEPT !.key = k]
      <4>1. Same(c) BY <1>0 DEF CallRecord
      <4>2. MovesTo(t, "insertIndex", c)
        BY <1>0, <3>1, <3>3 DEF Goto, MovesTo, Shape
      <4> HIDE DEF c, Same
      <4>3. Q("insertIndex", c) BY <4>1 DEF Q
      <4> QED BY <4>2, <4>3
    <3> QED BY <3>2, <3>3
  <2>8. CASE PurgeSelect(t) \/ RebuildSelect(t)
    <3>1. loc[t].op \in Rebuilds
      BY <1>0, <2>8 DEF PurgeSelect, RebuildSelect, CallOK, AtLabel, Rebuilds
    <3>2. Return(t) \/ \E p \in {"purgeIndex", "rebuildClear"} : \E c :
                         MovesTo(t, p, c) /\ c.op = loc[t].op
      <4> DEFINE K == DeadKeys(loc[t].exp)
                 c == [loc[t] EXCEPT !.keys = K, !.todo = K]
                 d == [loc[t] EXCEPT !.todo = LiveKeys(now)]
      <4>1. c.op = loc[t].op /\ d.op = loc[t].op BY <1>0 DEF CallRecord
      <4>2. CASE PurgeSelect(t)
        <5>1. Return(t) \/ MovesTo(t, "purgeIndex", c)
          BY <1>0, <4>2 DEF PurgeSelect, Goto, MovesTo, Shape
        <5> QED BY <4>1, <5>1
      <4>3. CASE RebuildSelect(t)
        <5>1. MovesTo(t, "rebuildClear", d)
          BY <1>0, <4>3 DEF RebuildSelect, Goto, MovesTo, Shape
        <5> QED BY <4>1, <5>1
      <4> QED BY <2>8, <4>2, <4>3
    <3>3. ASSUME NEW p \in {"purgeIndex", "rebuildClear"}, NEW c,
                 MovesTo(t, p, c), c.op = loc[t].op
          PROVE  Q(p, c) /\ MovesTo(t, p, c)
      BY <3>1, <3>3 DEF Q, Rebuilds, WriteOps
    <3> QED BY <1>r, <3>2, <3>3
  <2> QED BY <2>1, <2>2, <2>3, <2>4, <2>5, <2>6, <2>7, <2>8 DEF ThreadStep
<1>2. \A u \in Threads \ {t} : res'[u] = res[u]
  BY <1>0 DEF ThreadStep, Lookup, Select, Upsert, Insert, Update, Versioned,
              ClearIndex, InsertIndex, BloomAdd, DeleteIndex, DeleteRow, PurgeSelect,
              PurgeIndex, PurgeRows, RebuildSelect, RebuildClear, Yield, Shape
<1>3. \A p, c : MovesTo(t, p, c) =>
        /\ pc'[t] = p /\ loc'[t] = c
        /\ \A u \in Threads \ {t} : pc'[u] = pc[u] /\ loc'[u] = loc[u]
  BY <1>0 DEF MovesTo, Shape
<1> QED BY <1>1, <1>2, <1>3 DEF Q

\* A versioned read learns the document and version of the row, a versioned
\* write those it stores.
LEMMA Learns ==
  ASSUME KvAssumption, TInv, TInv', LInv, NEW t \in Threads, ThreadStep(t),
         Known(res[t], row')
  PROVE  Known(res'[t], row')
<1>0. Shape /\ CallOK(pc[t], loc[t]) BY CallFacts DEF TInv
<1>1. CASE Lookup(t)
  <2>1. res' = res \/ res'[t].ver = 0
    BY <1>0, <1>1 DEF Lookup, Yield, NoRes, Shape
  <2> QED BY <2>1 DEF Known
<1>2. CASE Select(t)
  <2> DEFINE k == loc[t].key
  <2>1. row' = row BY <1>2 DEF Select
  <2>2. \/ res'[t].ver = 0
        \/ /\ Live(row[k], now) /\ res'[t].key = k
           /\ res'[t].val = row[k].val /\ res'[t].ver = row[k].ver
    BY <1>0, <1>2 DEF Select, Yield, NoRes, Shape
  <2>3. CASE Live(row[k], now) /\ res'[t].key = k
             /\ res'[t].val = row[k].val /\ res'[t].ver = row[k].ver
    <3>1. SUFFICES ASSUME k \in Keys PROVE Known(res'[t], row')
      BY <2>3 DEF Known
    <3>2. row[k] # NoDoc BY <2>3 DEF Live
    <3>3. row[k].ver \in Nat BY <1>0, <3>1, <3>2 DEF Shape, Row
    <3> QED BY <2>1, <2>3, <3>2, <3>3 DEF Known
  <2> QED BY <2>2, <2>3 DEF Known
<1>3. CASE Insert(t) \/ Update(t)
  <2> DEFINE k == loc[t].key
  <2>1. PICK p \in {"insert", "update"}, ok \in BOOLEAN :
          /\ Versioned(t, p, ok)
          /\ ok => IF p = "insert" THEN row[k] = NoDoc
                   ELSE row[k] # NoDoc /\ row[k].ver = loc[t].ver
    BY <1>3 DEF Insert, Update, Versioned
  <2>2. /\ k \in Keys /\ loc[t].ver \in Nat /\ pc[t] = p
        /\ p = "insert" => loc[t].op = "create"
    BY <1>0, <2>1, LocType DEF Versioned, CallOK, AtLabel, KeyOps
  <2>3. CASE ~ok
    BY <1>0, <2>1, <2>3 DEF Versioned, Yield, NoRes, Shape, Known
  <2>4. CASE ok
    <3>1. /\ row'[k] = Bumped(k, loc[t])
          /\ res'[t] = [key |-> k, val |-> loc[t].val, ver |-> loc[t].ver + 1]
      BY <1>0, <2>1, <2>2, <2>4 DEF Versioned, Yield, Shape
    <3>2. row'[k].val = loc[t].val /\ row'[k].ver = loc[t].ver + 1
      <4>1. p = "insert" => loc[t].ver = 0 BY <2>2 DEF LInv, Sparing
      <4> QED BY <2>1, <2>2, <2>4, <3>1, <4>1 DEF Bumped
    <3>3. row'[k] # NoDoc
      <4>1. loc[t].val \in Values
        BY <1>0, <2>1 DEF Versioned, CallOK, AtLabel, WriteOps
      <4>2. Bumped(k, loc[t]) \in Row BY <2>2, <4>1, BumpedType
      <4> QED BY <3>1, <4>2 DEF KvAssumption
    <3> QED BY <2>2, <3>1, <3>2, <3>3 DEF Known
  <2> QED BY <2>3, <2>4
<1>4. CASE ~(Lookup(t) \/ Select(t) \/ Insert(t) \/ Update(t))
  <2>1. res' = res
    BY <1>4 DEF ThreadStep, Upsert, ClearIndex, InsertIndex, BloomAdd, DeleteIndex,
            DeleteRow, PurgeSelect, PurgeIndex, PurgeRows, RebuildSelect, RebuildClear
  <2> QED BY <2>1
<1> QED BY <1>1, <1>2, <1>3, <1>4

\* A call starts with what its caller knows, and a key that is never removed
\* is written without expiry.
LEMMA BeginSpares ==
  ASSUME KvAssumption, TInv, LInv, NEW t \in Threads, Begin(t)
  PROVE  /\ UNCHANGED <<row, res>>
         /\ Sparing(pc'[t], loc'[t], res[t])
         /\ \A u \in Threads \ {t} : pc'[u] = pc[u] /\ loc'[u] = loc[u]
<1>0. Shape BY DEF TInv
<1>1. ASSUME NEW op, NEW p, NEW K, NEW v, NEW e, NEW n,
             ClientCall(t, op, p, K, v, e, n),
             op \in WriteOps => \A k \in K : NeverRemoved(k) => e = 0,
             p \in {"deleteIndex", "deleteRow"} => \A k \in K : ~NeverRemoved(k),
             op = "create" => n = 0,
             p = "update" => K = {res[t].key} /\ n = res[t].ver /\ res[t].ver > 0
      PROVE  /\ UNCHANGED <<row, res>>
             /\ Sparing(pc'[t], loc'[t], res[t])
             /\ \A u \in Threads \ {t} : pc'[u] = pc[u] /\ loc'[u] = loc[u]
  <2>1. PICK k \in K : Call(t, p, [op |-> op, keys |-> K, todo |-> K, key |-> k,
                                   val |-> v, exp |-> e, ver |-> n])
    BY <1>1 DEF ClientCall
  <2> DEFINE c == [op |-> op, keys |-> K, todo |-> K, key |-> k, val |-> v,
                   exp |-> e, ver |-> n]
  <2>2. c.op = op /\ c.keys = K /\ c.key = k /\ c.exp = e /\ c.ver = n OBVIOUS
  <2> HIDE DEF c
  <2>3. /\ UNCHANGED <<row, res>> /\ pc'[t] = p /\ loc'[t] = c
        /\ \A u \in Threads \ {t} : pc'[u] = pc[u] /\ loc'[u] = loc[u]
    BY <1>0, <2>1 DEF Call, Goto, Shape, c
  <2>4. Sparing(p, c, res[t]) BY <1>1, <2>1, <2>2 DEF Sparing
  <2> QED BY <2>3, <2>4
<1>2. ASSUME NEW p \in {"purgeSelect", "rebuildSelect"}, NEW c, Call(t, p, c),
             c.op \in Rebuilds
      PROVE  /\ UNCHANGED <<row, res>>
             /\ Sparing(pc'[t], loc'[t], res[t])
             /\ \A u \in Threads \ {t} : pc'[u] = pc[u] /\ loc'[u] = loc[u]
  <2>1. /\ UNCHANGED <<row, res>> /\ pc'[t] = p /\ loc'[t] = c
        /\ \A u \in Threads \ {t} : pc'[u] = pc[u] /\ loc'[u] = loc[u]
    BY <1>0, <1>2 DEF Call, Goto, Shape
  <2>2. Sparing(p, c, res[t]) BY <1>2 DEF Sparing, Rebuilds, WriteOps
  <2> QED BY <2>1, <2>2
<1>e. ExpiresAt(0) = 0 BY DEF ExpiresAt
<1>3. CASE KvSet(t)
  <2>0. PICK k \in Keys, v \in Values : \E ttl \in Ttls[k] :
             ClientCall(t, "set", "upsert", {k}, v, ExpiresAt(ttl), 0)
    BY <1>3 DEF KvSet
  <2>1. PICK ttl \in Ttls[k] :
             ClientCall(t, "set", "upsert", {k}, v, ExpiresAt(ttl), 0)
    BY <2>0
  <2>2. NeverRemoved(k) => ExpiresAt(ttl) = 0 BY <1>e, <2>1 DEF NeverRemoved
  <2> QED BY <1>1, <2>1, <2>2
<1>4. CASE KvMset(t)
  <2> DEFINE K == Work[t]["mset"]
  <2>1. PICK v \in Values, ttl \in UNION {Ttls[k] : k \in K} :
             ClientCall(t, "mset", "bloomAdd", K, v, ExpiresAt(ttl), 0)
    BY <1>4 DEF KvMset
  <2>2. \A k \in K : NeverRemoved(k) => ExpiresAt(ttl) = 0
    <3> SUFFICES ASSUME NEW k \in K, NeverRemoved(k) PROVE ExpiresAt(ttl) = 0
      OBVIOUS
    <3>1. \A j \in K : Ttls[j] \subseteq {0} BY DEF NeverRemoved
    <3>2. ttl = 0 BY <2>1, <3>1
    <3> QED BY <1>e, <3>2
  <2> HIDE DEF K
  <2> QED BY <1>1, <2>1, <2>2
<1>5. CASE KvSetVersioned(t)
  <2>0. PICK k \in Keys, v \in Values : \E ttl \in Ttls[k] :
          \/ ClientCall(t, "create", "insert", {k}, v, ExpiresAt(ttl), 0)
          \/ /\ res[t].key = k /\ res[t].ver > 0
             /\ ClientCall(t, "update", "update", {k}, v, ExpiresAt(ttl), res[t].ver)
    BY <1>5 DEF KvSetVersioned
  <2>1. PICK ttl \in Ttls[k] :
          \/ ClientCall(t, "create", "insert", {k}, v, ExpiresAt(ttl), 0)
          \/ /\ res[t].key = k /\ res[t].ver > 0
             /\ ClientCall(t, "update", "update", {k}, v, ExpiresAt(ttl), res[t].ver)
    BY <2>0
  <2>2. NeverRemoved(k) => ExpiresAt(ttl) = 0 BY <1>e, <2>1 DEF NeverRemoved
  <2> QED BY <1>1, <2>1, <2>2
<1>6. CASE KvGet(t) \/ KvGetVersioned(t)
  <2>1. PICK k \in Keys, op \in Reads : ClientCall(t, op, "lookup", {k}, NoDoc, 0, 0)
    BY <1>6 DEF KvGet, KvGetVersioned, Read, Reads
  <2>2. op \notin WriteOps /\ op # "create" BY <2>1 DEF Reads, WriteOps
  <2> QED BY <1>1, <2>1, <2>2
<1>7. CASE KvDelete(t)
  <2>1. PICK k \in Keys : ClientCall(t, "delete", "deleteIndex", {k}, NoDoc, 0, 0)
    BY <1>7 DEF KvDelete
  <2>2. ~NeverRemoved(k) BY <2>1 DEF ClientCall, NeverRemoved
  <2>3. "delete" \notin WriteOps BY DEF WriteOps
  <2> QED BY <1>1, <2>1, <2>2, <2>3
<1>8. CASE Purge(t) \/ DbMaintenance(t)
  <2> DEFINE c == [NoCall EXCEPT !.op = "purge", !.exp = now]
             d == [NoCall EXCEPT !.op = "maint"]
  <2>1. c.op \in Rebuilds /\ d.op \in Rebuilds BY DEF NoCall, Rebuilds
  <2>2. Call(t, "purgeSelect", c) \/ Call(t, "rebuildSelect", d)
    BY <1>8 DEF Purge, DbMaintenance
  <2> HIDE DEF c, d
  <2> QED BY <1>2, <2>1, <2>2
<1> QED BY <1>3, <1>4, <1>5, <1>6, <1>7, <1>8 DEF Begin

\* Every step keeps what the callers know.
LEMMA LInvNext ==
  ASSUME KvAssumption, TInv, TInv', LInv, [Next]_vars PROVE LInv'
<1>0. Shape BY DEF TInv
<1>1. /\ Lasting'
      /\ \A k \in Keys : NeverRemoved(k) =>
           \/ row'[k] = row[k]
           \/ row'[k] # NoDoc /\ (row[k] # NoDoc => row'[k].ver = row[k].ver + 1)
  BY RowsLast
<1>2. \A u \in Threads : Known(res[u], row')
  <2> TAKE u \in Threads
  <2>1. res[u].ver \in Nat /\ Known(res[u], row) BY <1>0 DEF Shape, LInv
  <2> QED BY <1>1, <2>1, KnownLasts
<1>3. ASSUME NEW t \in Threads, Begin(t) PROVE LInv'
  BY <1>1, <1>2, <1>3, BeginSpares DEF LInv
<1>4. ASSUME NEW t \in Threads, ThreadStep(t) PROVE LInv'
  <2>1. Known(res'[t], row') BY <1>2, <1>4, Learns
  <2>2. Sparing(pc'[t], loc'[t], res'[t])
    <3>1. Sparing(pc[t], loc[t], res[t]) BY DEF LInv
    <3>2. pc'[t] \in {"deleteIndex", "deleteRow"} => ~NeverRemoved(loc'[t].key)
      <4> SUFFICES ASSUME pc'[t] \in {"deleteIndex", "deleteRow"}
                   PROVE  ~NeverRemoved(loc'[t].key)
        OBVIOUS
      <4>1. /\ loc'[t] = loc[t]
            /\ \/ pc[t] = "deleteIndex"
               \/ loc[t].key \in Keys /\ Dead(row[loc[t].key], now)
        BY <1>4, StepShape
      <4> QED BY <3>1, <4>1 DEF Sparing, LInv, Lasting, Dead
    <3>3. loc'[t].op \in WriteOps =>
            /\ loc'[t].op = loc[t].op /\ loc'[t].keys = loc[t].keys
            /\ loc'[t].exp = loc[t].exp /\ loc'[t].ver = loc[t].ver
      BY <1>4, StepShape
    <3>4. pc'[t] # "update" BY <1>4, StepShape
    <3>5. "create" \in WriteOps BY DEF WriteOps
    <3> QED BY <3>1, <3>2, <3>3, <3>4, <3>5 DEF Sparing
  <2>3. \A u \in Threads \ {t} : /\ pc'[u] = pc[u] /\ loc'[u] = loc[u]
                                 /\ res'[u] = res[u]
    BY <1>4, StepShape
  <2> QED BY <1>1, <1>2, <2>1, <2>2, <2>3 DEF LInv
<1>5. CASE Tick \/ UNCHANGED vars
  <2>1. UNCHANGED <<row, pc, loc, res>> BY <1>5 DEF Tick, vars
  <2> QED BY <1>1, <1>2, <2>1 DEF LInv
<1>6. CASE Crash
  <2>1. \A u \in Threads : pc'[u] = "idle" /\ loc'[u] = NoCall /\ res'[u] = NoRes
    BY <1>6 DEF Crash
  <2>2. \A u \in Threads : Known(res'[u], row') BY <2>1 DEF Known, NoRes
  <2>3. Sparing("idle", NoCall, NoRes) BY DEF Sparing, NoCall, WriteOps
  <2> QED BY <1>1, <2>1, <2>2, <2>3 DEF LInv
<1>7. ASSUME NEW t \in Threads, Fail(t) PROVE LInv'
  <2>1. pc'[t] = "idle" /\ loc'[t] = NoCall /\ res'[t] \in {res[t], NoRes}
    BY <1>0, <1>7 DEF Fail, Return, Goto, Yield, Shape
  <2>2. \A u \in Threads \ {t} : /\ pc'[u] = pc[u] /\ loc'[u] = loc[u]
                                 /\ res'[u] = res[u]
    BY <1>0, <1>7 DEF Fail, Return, Goto, Yield, Shape
  <2>3. Known(NoRes, row') BY DEF Known, NoRes
  <2>4. Sparing("idle", NoCall, res'[t]) BY DEF Sparing, NoCall, WriteOps
  <2> QED BY <1>1, <1>2, <2>1, <2>2, <2>3, <2>4 DEF LInv
<1> QED BY <1>3, <1>4, <1>5, <1>6, <1>7 DEF Next, Finished

\* Of any number of read-modify-write cycles on a key that is never removed, a
\* versioned update only ever overwrites the document its caller read: the
\* NoLostUpdate of the runs.
THEOREM NoUpdateLost ==
  ASSUME KvAssumption PROVE Spec => NoLostUpdate
<1> DEFINE A == \A t \in Threads :
                  LET k == loc[t].key
                  IN Updates(t) /\ NeverRemoved(k)
                       => row[k].val = res[t].val /\ row[k].ver = res[t].ver
<1>1. Init => LInv
  BY DEF Init, LInv, Lasting, Known, Sparing, NoRes, NoCall, WriteOps
<1>2. KvAssumption /\ TInv /\ LInv /\ [Next]_vars => A
  <2> SUFFICES ASSUME TInv, LInv, [Next]_vars, NEW t \in Threads, Updates(t),
                      NeverRemoved(loc[t].key)
               PROVE  /\ row[loc[t].key].val = res[t].val
                      /\ row[loc[t].key].ver = res[t].ver
    OBVIOUS
  <2>0. Shape /\ pc[t] = "update" /\ pc'[t] = "clearIndex" BY DEF TInv, Updates
  <2>1. ThreadStep(t)
    <3>1. ASSUME NEW u \in Threads, Begin(u) PROVE u = t /\ pc[t] = "idle"
      <4>1. \E p, c : Call(u, p, c)
        BY <3>1 DEF Begin, KvSet, KvMset, KvSetVersioned, KvGet, KvGetVersioned, Read,
                    KvDelete, Purge, DbMaintenance, ClientCall
      <4> QED BY <2>0, <4>1 DEF Call, Goto, Shape
    <3>2. ASSUME NEW u \in Threads, ThreadStep(u) PROVE u = t
      BY <2>0, <3>2, StepShape
    <3>3. ~(Tick \/ Crash \/ UNCHANGED vars) BY <2>0 DEF Tick, Crash, vars
    <3>4. ~\E u \in Threads : Fail(u) BY <2>0 DEF Fail, Return, Goto, Shape
    <3> QED BY <2>0, <3>1, <3>2, <3>3, <3>4 DEF Next, Finished
  <2>2. Update(t)
    BY <2>0, <2>1 DEF ThreadStep, Lookup, Select, Upsert, Insert, Versioned,
            ClearIndex, InsertIndex, BloomAdd, DeleteIndex, DeleteRow, PurgeSelect,
            PurgeIndex, PurgeRows, RebuildSelect, RebuildClear
  <2>3. row[loc[t].key].ver = loc[t].ver /\ row[loc[t].key] # NoDoc
    BY <2>0, <2>2 DEF Update, Versioned, Return, Goto, Shape
  <2>4. loc[t].key = res[t].key /\ loc[t].ver = res[t].ver /\ res[t].ver > 0
    BY <2>0 DEF LInv, Sparing
  <2>5. loc[t].key \in Keys BY <2>0, CallFacts DEF CallOK, AtLabel, KeyOps
  <2> QED BY <2>3, <2>4, <2>5 DEF LInv, Known
<1>3. TInv /\ TInv' /\ LInv /\ [Next]_vars => LInv' BY LInvNext
<1>4. TInv /\ LInv /\ [Next]_vars => [A]_vars BY <1>2
<1> HIDE DEF A
<1>5. Spec => []TInv BY Typing
<1>6. Spec => [][A]_vars BY <1>1, <1>3, <1>4, <1>5, PTL DEF Spec
<1> QED BY <1>6 DEF NoLostUpdate, A

-----------------------------------------------------------------------------
(***************************************************************************)
(* The blind index.  A live row of a key with one writer has its index     *)
(* entry, or the writer has yet to bring it, or a delete that has taken    *)
(* the entry is about to take the row, or one of the two raised there. A   *)
(* crash in between would leave row and entry apart, so the process is not *)
(* killed here.                                                            *)
(***************************************************************************)
\* Thread at label p with locals c has written row k but not its index entry.
IndexDue(p, c, k) == /\ c.op \in WriteOps /\ k \in c.keys
                     /\ \/ p = "upsert" /\ k \notin c.todo
                        \/ p \in {"clearIndex", "insertIndex"} /\ k \in c.todo
RowGoing(p, c, k) == p = "deleteRow" /\ c.key = k

Mine(t, p, c) == /\ c.op \in WriteOps => \A k \in c.keys : Writes(t, k)
                 /\ p = "insertIndex" => c.key \in c.todo

IndexFits(k) ==
  /\ \A t \in Threads : IndexDue(pc[t], loc[t], k) /\ row[k] # NoDoc
                          => row[k].val = loc[t].val
  /\ Live(row[k], now) => \/ idx[k] = Field(row[k].val) \/ k \in raised
                          \/ \E t \in Threads : \/ IndexDue(pc[t], loc[t], k)
                                                \/ RowGoing(pc[t], loc[t], k)

XInv == /\ \A t \in Threads : Mine(t, pc[t], loc[t])
        /\ \A k \in Keys : OneWriter(k) => IndexFits(k)

\* One thread moves: what it owes the index of each key afterwards.
Owes(t, p, c, k) ==
  /\ IndexDue(p, c, k) /\ row'[k] # NoDoc => row'[k].val = c.val
  /\ row'[k] \notin {row[k], NoDoc} => Writes(t, k)
  /\ Live(row'[k], now) =>
       \/ idx'[k] = Field(row'[k].val) \/ IndexDue(p, c, k) \/ RowGoing(p, c, k)
       \/ k \in raised'
       \/ /\ row'[k] = row[k] /\ idx'[k] = idx[k] /\ (k \in raised => k \in raised')
          /\ ~IndexDue(pc[t], loc[t], k) /\ ~RowGoing(pc[t], loc[t], k)

\* A move that pays what it owes keeps the invariant.
LEMMA IndexMove ==
  ASSUME TInv, XInv, NEW t \in Threads, NEW p, NEW c, MovesTo(t, p, c),
         now' = now, Mine(t, p, c), \A k \in Keys : OneWriter(k) => Owes(t, p, c, k)
  PROVE  XInv'
<1>1. pc'[t] = p /\ loc'[t] = c BY DEF MovesTo, TInv, Shape
<1>2. \A u \in Threads \ {t} : pc'[u] = pc[u] /\ loc'[u] = loc[u]
  BY DEF MovesTo, TInv, Shape
<1>3. \A u \in Threads : Mine(u, pc'[u], loc'[u]) BY <1>1, <1>2 DEF XInv
<1>4. ASSUME NEW k \in Keys, OneWriter(k) PROVE IndexFits(k)'
  <2>0. Owes(t, p, c, k) /\ IndexFits(k) BY <1>4 DEF XInv
  <2>1. ASSUME NEW u \in Threads, IndexDue(pc'[u], loc'[u], k), row'[k] # NoDoc
        PROVE  row'[k].val = loc'[u].val
    <3>1. CASE u = t BY <1>1, <2>0, <2>1, <3>1 DEF Owes
    <3>2. CASE u # t
      <4>1. IndexDue(pc[u], loc[u], k) /\ loc'[u] = loc[u] BY <1>2, <2>1, <3>2
      <4>2. Writes(u, k) BY <4>1 DEF IndexDue, XInv, Mine
      <4>3. row'[k] = row[k] BY <1>4, <2>0, <2>1, <3>2, <4>2 DEF Owes, OneWriter
      <4> QED BY <2>0, <2>1, <4>1, <4>3 DEF IndexFits
    <3> QED BY <3>1, <3>2
  <2>2. ASSUME Live(row'[k], now)
        PROVE  \/ idx'[k] = Field(row'[k].val) \/ k \in raised'
               \/ \E u \in Threads : \/ IndexDue(pc'[u], loc'[u], k)
                                     \/ RowGoing(pc'[u], loc'[u], k)
    <3>1. CASE IndexDue(p, c, k) \/ RowGoing(p, c, k) BY <1>1, <3>1
    <3>2. CASE /\ row'[k] = row[k] /\ idx'[k] = idx[k] /\ (k \in raised => k \in raised')
               /\ ~IndexDue(pc[t], loc[t], k) /\ ~RowGoing(pc[t], loc[t], k)
      <4>1. CASE idx[k] = Field(row[k].val) \/ k \in raised BY <3>2, <4>1
      <4>2. CASE ~(idx[k] = Field(row[k].val) \/ k \in raised)
        <5>1. PICK u \in Threads : \/ IndexDue(pc[u], loc[u], k)
                                   \/ RowGoing(pc[u], loc[u], k)
          BY <2>0, <2>2, <3>2, <4>2 DEF IndexFits
        <5>2. pc'[u] = pc[u] /\ loc'[u] = loc[u] BY <1>2, <3>2, <5>1
        <5> QED BY <5>1, <5>2
      <4> QED BY <4>1, <4>2
    <3> QED BY <2>0, <2>2, <3>1, <3>2 DEF Owes
  <2> QED BY <2>1, <2>2 DEF IndexFits
<1> QED BY <1>3, <1>4 DEF XInv

\* A call begins before it has written anything.
LEMMA BeginKeepsIndex ==
  ASSUME KvAssumption, TInv, XInv, NEW t \in Threads, Begin(t) PROVE XInv'
<1>0. Shape BY DEF TInv
<1> DEFINE Good(p, c) == Mine(t, p, c) /\ \A k : ~IndexDue(p, c, k)
<1>1. PICK p, c : Call(t, p, c) /\ Good(p, c)
  <2>1. ASSUME NEW op \in AllOps, NEW p \in Labels, NEW K, NEW v, NEW e, NEW n,
               p \notin {"clearIndex", "insertIndex"}, ClientCall(t, op, p, K, v, e, n)
        PROVE  \E q, c : Call(t, q, c) /\ Good(q, c)
    <3>1. PICK k \in K : Call(t, p, [op |-> op, keys |-> K, todo |-> K, key |-> k,
                                     val |-> v, exp |-> e, ver |-> n])
      BY <2>1 DEF ClientCall
    <3> DEFINE c == [op |-> op, keys |-> K, todo |-> K, key |-> k, val |-> v,
                     exp |-> e, ver |-> n]
    <3>2. c.op = op /\ c.keys = K /\ c.todo = K OBVIOUS
    <3> HIDE DEF c
    <3>3. K \subseteq Work[t][op] BY <2>1 DEF ClientCall
    <3>4. Good(p, c) BY <2>1, <3>2, <3>3 DEF Mine, IndexDue, Writes
    <3> QED BY <3>1, <3>4 DEF c
  <2>2. ASSUME NEW p \in {"purgeSelect", "rebuildSelect"}, NEW c, Call(t, p, c),
               c.op \in Rebuilds
        PROVE  \E q, d : Call(t, q, d) /\ Good(q, d)
    BY <2>2 DEF Mine, IndexDue, WriteOps, Rebuilds
  <2> HIDE DEF Good
  <2> USE DEF AllOps, WriteOps, Reads, Rebuilds, Labels
  <2>3. CASE KvSet(t) BY <2>1, <2>3 DEF KvSet
  <2>4. CASE KvMset(t) BY <2>1, <2>4 DEF KvMset
  <2>5. CASE KvSetVersioned(t) BY <2>1, <2>5 DEF KvSetVersioned
  <2>6. CASE KvGet(t) \/ KvGetVersioned(t)
    BY <2>1, <2>6 DEF KvGet, KvGetVersioned, Read
  <2>7. CASE KvDelete(t) BY <2>1, <2>7 DEF KvDelete
  <2>8. CASE Purge(t) \/ DbMaintenance(t)
    <3> DEFINE c == [NoCall EXCEPT !.op = "purge", !.exp = now]
               d == [NoCall EXCEPT !.op = "maint"]
    <3>1. c.op \in Rebuilds /\ d.op \in Rebuilds BY DEF NoCall
    <3>2. Call(t, "purgeSelect", c) \/ Call(t, "rebuildSelect", d)
      BY <2>8 DEF Purge, DbMaintenance
    <3> HIDE DEF c, d
    <3> QED BY <2>2, <3>1, <3>2
  <2> QED BY <2>3, <2>4, <2>5, <2>6, <2>7, <2>8 DEF Begin
<1>2. pc[t] = "idle" /\ MovesTo(t, p, c) /\ UNCHANGED <<row, idx, now, raised>>
  BY <1>1 DEF Call, Goto, MovesTo, history
<1>3. \A k \in Keys : Owes(t, p, c, k)
  BY <1>1, <1>2 DEF Owes, IndexDue, RowGoing
<1> QED BY <1>1, <1>2, <1>3, IndexMove

\* A move that neither is nor becomes part of the writing of an index entry.
LEMMA IndexAside ==
  ASSUME TInv, XInv, NEW t \in Threads, NEW p, NEW c, MovesTo(t, p, c),
         now' = now, raised' = raised,
         pc[t] \notin {"upsert", "clearIndex", "insertIndex"},
         p \notin {"clearIndex", "insertIndex"},
         p = "upsert" => c.keys \subseteq c.todo,
         c.op \in WriteOps => c.op = loc[t].op /\ c.keys = loc[t].keys,
         \A k \in Keys :
           \/ row'[k] = NoDoc
           \/ /\ row'[k] = row[k]
              /\ \/ ~Live(row[k], now) \/ RowGoing(p, c, k)
                 \/ idx'[k] = idx[k] /\ ~RowGoing(pc[t], loc[t], k)
  PROVE  XInv'
<1>1. Mine(t, p, c) BY DEF XInv, Mine
<1>2. \A k \in Keys : ~IndexDue(p, c, k) /\ ~IndexDue(pc[t], loc[t], k)
  BY DEF IndexDue
<1>3. \A k \in Keys : Owes(t, p, c, k) BY <1>2 DEF Owes, Live
<1> QED BY <1>1, <1>3, IndexMove

\* Reads, deletes, purges and the filter leave the entries of live rows alone,
\* but for a delete that goes on to take the row.
LEMMA OthersKeepIndex ==
  ASSUME KvAssumption, TInv, XInv, PurgesLookBack, NEW t \in Threads,
         \/ Lookup(t) \/ Select(t) \/ BloomAdd(t) \/ DeleteIndex(t) \/ DeleteRow(t)
         \/ PurgeSelect(t) \/ PurgeIndex(t) \/ PurgeRows(t) \/ RebuildSelect(t)
         \/ RebuildClear(t)
  PROVE  XInv'
<1>0. Shape /\ CallOK(pc[t], loc[t]) /\ now' = now /\ raised' = raised
  BY CallFacts DEF history, TInv, Lookup, Select, BloomAdd, DeleteIndex, DeleteRow, PurgeSelect,
                   PurgeIndex, PurgeRows, RebuildSelect, RebuildClear
<1>r. Return(t) => MovesTo(t, "idle", NoCall) BY DEF Return, Goto, MovesTo
<1>s. \A p : Goto(t, p) /\ UNCHANGED loc => MovesTo(t, p, loc[t])
  BY <1>0 DEF Goto, MovesTo, Shape
<1>n. NoCall.op \notin WriteOps BY DEF NoCall, WriteOps
<1>1. CASE Lookup(t) \/ Select(t) \/ RebuildClear(t)
  <2>1. /\ pc[t] \in {"lookup", "select", "rebuildClear"} /\ UNCHANGED <<row, idx>>
        /\ \/ MovesTo(t, "idle", NoCall)
           \/ \E p \in {"select", "deleteIndex", "bloomAdd"} : MovesTo(t, p, loc[t])
    BY <1>1, <1>r, <1>s DEF Lookup, Select, RebuildClear
  <2>2. \A k \in Keys : ~RowGoing(pc[t], loc[t], k) BY <2>1 DEF RowGoing
  <2> QED BY <1>0, <1>n, <2>1, <2>2, IndexAside
<1>2. CASE BloomAdd(t)
  <2>0. pc[t] = "bloomAdd" /\ UNCHANGED <<row, idx>> BY <1>2 DEF BloomAdd
  <2> DEFINE next == IF loc[t].op = "mset" THEN "upsert" ELSE "idle"
  <2>1. PICK k \in loc[t].todo : Step(t, k, "bloomAdd", next) BY <1>2 DEF BloomAdd
  <2>2. k \in Keys /\ "bloomAdd" \in Labels /\ next \in Labels
    BY <1>0, LocType DEF Labels
  <2>3. \/ MovesTo(t, "idle", NoCall)
        \/ \E c : /\ c.op = loc[t].op /\ c.keys = loc[t].keys
                  /\ \/ MovesTo(t, "bloomAdd", c)
                     \/ c.todo = loc[t].keys /\ next = "upsert" /\ MovesTo(t, next, c)
    BY <2>1, <2>2, StepTarget
  <2>4. \A j \in Keys : ~RowGoing(pc[t], loc[t], j) BY <2>0 DEF RowGoing
  <2>5. CASE MovesTo(t, "idle", NoCall) BY <1>0, <1>n, <2>0, <2>4, <2>5, IndexAside
  <2>6. CASE ~MovesTo(t, "idle", NoCall)
    <3>1. PICK c : /\ c.op = loc[t].op /\ c.keys = loc[t].keys
                   /\ \/ MovesTo(t, "bloomAdd", c)
                      \/ c.todo = loc[t].keys /\ next = "upsert" /\ MovesTo(t, next, c)
      BY <2>3, <2>6
    <3>2. CASE MovesTo(t, "bloomAdd", c) BY <1>0, <2>0, <2>4, <3>1, <3>2, IndexAside
    <3>3. CASE c.todo = loc[t].keys /\ MovesTo(t, "upsert", c)
      BY <1>0, <2>0, <2>4, <3>1, <3>3, IndexAside
    <3> QED BY <3>1, <3>2, <3>3
  <2> QED BY <2>5, <2>6
<1>3. CASE DeleteIndex(t)
  <2>1. /\ pc[t] = "deleteIndex" /\ row' = row /\ MovesTo(t, "deleteRow", loc[t])
        /\ \A k \in Keys \ {loc[t].key} : idx'[k] = idx[k]
    BY <1>0, <1>3, <1>s DEF DeleteIndex, Shape
  <2>2. \A k \in Keys : /\ RowGoing("deleteRow", loc[t], k) \/ idx'[k] = idx[k]
                        /\ ~RowGoing(pc[t], loc[t], k)
    BY <2>1 DEF RowGoing
  <2> QED BY <1>0, <2>1, <2>2, IndexAside
<1>4. CASE DeleteRow(t)
  <2>1. /\ pc[t] = "deleteRow" /\ MovesTo(t, "idle", NoCall) /\ idx' = idx
        /\ \A k \in Keys : row'[k] = IF k = loc[t].key THEN NoDoc ELSE row[k]
    BY <1>0, <1>4, <1>r DEF DeleteRow, Shape
  <2>2. \A k \in Keys : RowGoing(pc[t], loc[t], k) => k = loc[t].key BY DEF RowGoing
  <2> QED BY <1>0, <1>n, <2>1, <2>2, IndexAside
<1>5. CASE PurgeIndex(t) \/ PurgeRows(t)
  <2>1. /\ pc[t] \in {"purgeIndex", "purgeRows"} /\ loc[t].op = "purge"
        /\ \E p \in {"purgeRows", "rebuildSelect"} : MovesTo(t, p, loc[t])
        /\ \A k \in Keys : \/ row'[k] = NoDoc
                          \/ /\ row'[k] = row[k]
                             /\ idx'[k] = idx[k] \/ Dead(row[k], loc[t].exp)
    BY <1>0, <1>5, <1>s DEF PurgeIndex, PurgeRows, DeadKeys, CallOK, AtLabel
  <2>2. \A k \in Keys : Dead(row[k], loc[t].exp) => ~Live(row[k], now)
    <3> SUFFICES ASSUME NEW k \in Keys, Dead(row[k], loc[t].exp) PROVE ~Live(row[k], now)
      OBVIOUS
    <3>1. row[k].exp \in Nat /\ loc[t].exp \in Nat /\ now \in Nat
      BY <1>0, LocType DEF Shape, Row, Dead
    <3>2. loc[t].exp <= now BY <2>1 DEF PurgesLookBack
    <3> QED BY <3>1, <3>2 DEF Dead, Live
  <2>3. \A k \in Keys : ~RowGoing(pc[t], loc[t], k) BY <2>1 DEF RowGoing
  <2> QED BY <1>0, <2>1, <2>2, <2>3, IndexAside
<1>6. CASE PurgeSelect(t) \/ RebuildSelect(t)
  <2>0. /\ pc[t] \in {"purgeSelect", "rebuildSelect"} /\ UNCHANGED <<row, idx>>
        /\ loc[t].op \notin WriteOps
    BY <1>0, <1>6 DEF PurgeSelect, RebuildSelect, CallOK, AtLabel, Rebuilds, WriteOps
  <2>1. \/ MovesTo(t, "idle", NoCall)
        \/ \E p \in {"purgeIndex", "rebuildClear"} : \E c :
             MovesTo(t, p, c) /\ c.op = loc[t].op
    <3> DEFINE K == DeadKeys(loc[t].exp)
               c == [loc[t] EXCEPT !.keys = K, !.todo = K]
               d == [loc[t] EXCEPT !.todo = LiveKeys(now)]
    <3>1. c.op = loc[t].op /\ d.op = loc[t].op
      BY <1>0 DEF Shape, CallRecord
    <3>2. CASE PurgeSelect(t)
      <4>1. Return(t) \/ MovesTo(t, "purgeIndex", c)
        BY <1>0, <3>2 DEF PurgeSelect, Goto, MovesTo, Shape
      <4> QED BY <1>r, <3>1, <4>1
    <3>3. CASE RebuildSelect(t)
      <4>1. MovesTo(t, "rebuildClear", d)
        BY <1>0, <3>3 DEF RebuildSelect, Goto, MovesTo, Shape
      <4> QED BY <3>1, <4>1
    <3> QED BY <1>6, <3>2, <3>3
  <2>2. \A k \in Keys : ~RowGoing(pc[t], loc[t], k) BY <2>0 DEF RowGoing
  <2> QED BY <1>0, <1>n, <2>0, <2>1, <2>2, IndexAside
<1> QED BY <1>1, <1>2, <1>3, <1>4, <1>5, <1>6

\* A write stores the row first and then owes its entry, which it brings.
LEMMA WritesKeepIndex ==
  ASSUME KvAssumption, TInv, XInv, NEW t \in Threads,
         Upsert(t) \/ Insert(t) \/ Update(t) \/ ClearIndex(t) \/ InsertIndex(t)
  PROVE  XInv'
<1>0. Shape /\ CallOK(pc[t], loc[t]) /\ Mine(t, pc[t], loc[t])
  BY CallFacts DEF TInv, XInv
<1>w. /\ loc[t].op \in WriteOps /\ now' = now /\ loc[t].todo \subseteq loc[t].keys
      /\ \A k \in loc[t].keys : Writes(t, k)
      /\ \A k \in Keys : ~RowGoing(pc[t], loc[t], k)
  BY <1>0 DEF Upsert, Insert, Update, Versioned, ClearIndex, InsertIndex, CallOK,
              AtLabel, WriteOps, KeyOps, Mine, RowGoing
<1>r. Return(t) => MovesTo(t, "idle", NoCall) BY DEF Return, Goto, MovesTo
<1>s. \A p : Goto(t, p) /\ UNCHANGED loc => MovesTo(t, p, loc[t])
  BY <1>0 DEF Goto, MovesTo, Shape
<1>n. NoCall.op \notin WriteOps BY DEF NoCall, WriteOps
<1>d. \A k \in Keys : OneWriter(k) /\ IndexDue(pc[t], loc[t], k) /\ row[k] # NoDoc
                      => row[k].val = loc[t].val
  BY DEF XInv, IndexFits
<1>1. CASE Upsert(t)
  <2>1. PICK x \in loc[t].todo : /\ row' = [row EXCEPT ![x] = Bumped(x, loc[t])]
                                 /\ raised' = raised \ {x}
                                 /\ Step(t, x, "upsert", "clearIndex")
    BY <1>1 DEF Upsert
  <2>2. x \in Keys /\ "upsert" \in Labels /\ "clearIndex" \in Labels
    BY <1>0, LocType DEF Labels
  <2>3. PICK p, c : /\ MovesTo(t, p, c) /\ c.op = loc[t].op /\ c.val = loc[t].val
                    /\ c.keys = loc[t].keys
                    /\ \/ p = "upsert" /\ c.todo = loc[t].todo \ {x}
                       \/ /\ p = "clearIndex" /\ c.todo = loc[t].keys
                          /\ loc[t].todo \ {x} = {}
    <3>1. PICK next \in Labels : next = "clearIndex" /\ Step(t, x, "upsert", next)
      BY <2>1, <2>2
    <3>2. Consumes(t, x, "upsert", next)
      BY <2>2, <3>1, StepConsumes
    <3> QED BY <3>1, <3>2 DEF Consumes
  <2>4. pc[t] = "upsert" /\ idx' = idx BY <1>1 DEF Upsert
  <2>5. \A k \in Keys : row'[k] = IF k = x THEN Bumped(x, loc[t]) ELSE row[k]
    BY <1>0, <2>1 DEF Shape
  <2>6. Bumped(x, loc[t]).val = loc[t].val BY DEF Bumped
  <2>7. \A k \in Keys : IndexDue(p, c, k) <=> k = x \/ IndexDue(pc[t], loc[t], k)
    BY <1>w, <2>3, <2>4 DEF IndexDue
  <2>8. \A k \in Keys : OneWriter(k) => Owes(t, p, c, k)
    BY <1>d, <1>w, <2>1, <2>3, <2>4, <2>5, <2>6, <2>7 DEF Owes
  <2>9. Mine(t, p, c) BY <1>0, <2>3 DEF Mine
  <2> QED BY <1>w, <2>3, <2>8, <2>9, IndexMove
<1>2. CASE Insert(t) \/ Update(t)
  <2> DEFINE x == loc[t].key
  <2>1. /\ pc[t] \in {"insert", "update"} /\ idx' = idx
        /\ loc[t].keys = {x} /\ loc[t].todo = {x}
        /\ \/ /\ row' = [row EXCEPT ![x] = Bumped(x, loc[t])]
              /\ raised' \in {raised, raised \ {x}}
              /\ MovesTo(t, "clearIndex", loc[t])
           \/ row' = row /\ raised' = raised /\ MovesTo(t, "idle", NoCall)
    BY <1>0, <1>2, <1>r, <1>s DEF Insert, Update, Versioned, CallOK, AtLabel, KeyOps
  <2>2. \A k \in Keys : ~IndexDue(pc[t], loc[t], k) BY <2>1 DEF IndexDue
  <2>3. CASE row' = row /\ raised' = raised /\ MovesTo(t, "idle", NoCall)
    BY <1>n, <1>w, <2>1, <2>3, IndexAside
  <2>4. CASE /\ row' = [row EXCEPT ![x] = Bumped(x, loc[t])]
             /\ raised' \in {raised, raised \ {x}}
             /\ MovesTo(t, "clearIndex", loc[t])
    <3>1. \A k \in Keys : /\ row'[k] = IF k = x THEN Bumped(x, loc[t]) ELSE row[k]
                          /\ IndexDue("clearIndex", loc[t], k) <=> k = x
      BY <1>0, <1>w, <2>1, <2>4 DEF IndexDue, Shape
    <3>2. Bumped(x, loc[t]).val = loc[t].val BY DEF Bumped
    <3>3. \A k \in Keys : Owes(t, "clearIndex", loc[t], k)
      BY <1>w, <2>1, <2>2, <2>4, <3>1, <3>2 DEF Owes
    <3>4. Mine(t, "clearIndex", loc[t]) BY <1>0 DEF Mine
    <3> QED BY <1>w, <2>4, <3>3, <3>4, IndexMove
  <2> QED BY <2>1, <2>3, <2>4
<1>3. AfterIndex(loc[t].op) \in {"bloomAdd", "idle"} BY DEF AfterIndex
<1>4. ASSUME NEW x \in loc[t].todo, pc[t] \in {"clearIndex", "insertIndex"}, row' = row,
             raised' = raised,
             idx' = [idx EXCEPT ![x] = Field(loc[t].val)],
             Step(t, x, "clearIndex", AfterIndex(loc[t].op))
      PROVE  XInv'
  <2>1. /\ x \in Keys /\ "clearIndex" \in Labels /\ AfterIndex(loc[t].op) \in Labels
    BY <1>0, <1>3, LocType DEF Labels
  <2>2. PICK p, c : /\ MovesTo(t, p, c)
                    /\ \/ /\ loc[t].todo \ {x} = {} /\ p \in {"bloomAdd", "idle"}
                          /\ c.op \in WriteOps => c.op = loc[t].op /\ c.keys = loc[t].keys
                       \/ /\ p = "clearIndex" /\ c.op = loc[t].op /\ c.val = loc[t].val
                          /\ c.keys = loc[t].keys /\ c.todo = loc[t].todo \ {x}
    <3>1. PICK next \in Labels : next \in {"bloomAdd", "idle"} /\ Step(t, x, "clearIndex", next)
      BY <1>3, <1>4, <2>1
    <3>2. Consumes(t, x, "clearIndex", next)
      BY <2>1, <3>1, StepConsumes
    <3>3. CASE loc[t].todo \ {x} = {} /\ MovesTo(t, "idle", NoCall) BY <1>n, <3>3
    <3>4. CASE \E c \in CallRecord :
                 /\ c.op = loc[t].op /\ c.val = loc[t].val /\ c.keys = loc[t].keys
                 /\ c.todo = loc[t].todo \ {x} /\ MovesTo(t, "clearIndex", c)
      BY <3>4
    <3>5. CASE \E c \in CallRecord : /\ c.op = loc[t].op /\ c.keys = loc[t].keys
                                     /\ loc[t].todo \ {x} = {} /\ MovesTo(t, next, c)
      BY <3>1, <3>5
    <3> QED BY <3>2, <3>3, <3>4, <3>5 DEF Consumes
  <2>3. \A k \in Keys : idx'[k] = IF k = x THEN Field(loc[t].val) ELSE idx[k]
    BY <1>0, <1>4 DEF Shape
  <2>4. \A k \in Keys : IndexDue(pc[t], loc[t], k) <=> k \in loc[t].todo
    BY <1>4, <1>w DEF IndexDue
  <2>5. \A k \in Keys : IndexDue(p, c, k) <=> k \in loc[t].todo \ {x} /\ p = "clearIndex"
    BY <1>w, <2>2 DEF IndexDue
  <2>6. \A k \in loc[t].todo \ {x} : IndexDue(p, c, k) BY <1>0, <2>2, <2>5, LocType
  <2>7. \A k \in Keys : Live(row[k], now) => row[k] # NoDoc BY DEF Live
  <2>8. \A k \in Keys : OneWriter(k) => Owes(t, p, c, k)
    BY <1>4, <1>d, <1>w, <2>2, <2>3, <2>4, <2>5, <2>6, <2>7 DEF Owes
  <2>9. Mine(t, p, c) BY <1>0, <2>2 DEF Mine
  <2> QED BY <1>w, <2>2, <2>8, <2>9, IndexMove
<1>5. CASE ClearIndex(t)
  <2>1. PICK x \in loc[t].todo :
          /\ idx' = [idx EXCEPT ![x] = NoDoc]
          /\ IF Field(loc[t].val) = NoDoc
             THEN Step(t, x, "clearIndex", AfterIndex(loc[t].op))
             ELSE Goto(t, "insertIndex") /\ loc' = [loc EXCEPT ![t].key = x]
    BY <1>5 DEF ClearIndex
  <2>2. pc[t] = "clearIndex" /\ row' = row /\ raised' = raised
    BY <1>5 DEF ClearIndex, history
  <2>3. CASE Field(loc[t].val) = NoDoc BY <1>4, <2>1, <2>2, <2>3
  <2>4. CASE Field(loc[t].val) # NoDoc
    <3> DEFINE c == [loc[t] EXCEPT !.key = x]
    <3>1. /\ c.op = loc[t].op /\ c.val = loc[t].val /\ c.keys = loc[t].keys
          /\ c.todo = loc[t].todo /\ c.key = x
      BY <1>0 DEF Shape, CallRecord
    <3>2. MovesTo(t, "insertIndex", c)
      BY <1>0, <2>1, <2>4 DEF Goto, MovesTo, Shape
    <3> HIDE DEF c
    <3>3. \A k \in Keys : /\ idx'[k] = IF k = x THEN NoDoc ELSE idx[k]
                          /\ IndexDue(pc[t], loc[t], k) <=> k \in loc[t].todo
                          /\ IndexDue("insertIndex", c, k) <=> k \in loc[t].todo
      BY <1>0, <1>w, <2>1, <2>2, <3>1 DEF IndexDue, Shape
    <3>4. \A k \in Keys : OneWriter(k) => Owes(t, "insertIndex", c, k)
      BY <1>d, <1>w, <2>2, <3>1, <3>3 DEF Owes
    <3>5. Mine(t, "insertIndex", c) BY <1>0, <3>1 DEF Mine
    <3> QED BY <1>w, <3>2, <3>4, <3>5, IndexMove
  <2> QED BY <2>3, <2>4
<1>6. CASE InsertIndex(t)
  <2>1. loc[t].key \in loc[t].todo BY <1>0, <1>6 DEF InsertIndex, Mine
  <2> QED BY <1>4, <1>6, <2>1 DEF InsertIndex, history
<1> QED BY <1>1, <1>2, <1>5, <1>6

\* A call that raises leaves no key apart from its entry but those it excuses.
LEMMA FailKeepsIndex ==
  ASSUME KvAssumption, TInv, XInv, NEW t \in Threads, Fail(t) PROVE XInv'
<1>0. /\ Shape /\ CallOK(pc[t], loc[t]) /\ UNCHANGED <<row, now>>
      /\ raised \subseteq raised'
  BY CallFacts DEF TInv, Fail
<1>1. MovesTo(t, "idle", NoCall) BY DEF Fail, Return, Goto, MovesTo
<1>2. Mine(t, "idle", NoCall) /\ \A k \in Keys : ~IndexDue("idle", NoCall, k)
  BY DEF Mine, IndexDue, NoCall, WriteOps
<1>3. \A k \in Keys : IndexDue(pc[t], loc[t], k) => k \in raised'
  BY <1>0 DEF IndexDue, Fail, CallOK, AtLabel, KeyOps
<1>4. \A k \in Keys : RowGoing(pc[t], loc[t], k) => k \in raised'
  BY <1>0 DEF RowGoing, Fail, CallOK, AtLabel, KeyOps, Reads
<1>5. \A k \in Keys : idx'[k] = idx[k] \/ k \in raised'
  <2>1. CASE idx' = idx BY <2>1
  <2>2. CASE pc[t] = "clearIndex" /\ \E x \in loc[t].todo : idx' = [idx EXCEPT ![x] = NoDoc]
    <3>1. PICK x \in loc[t].todo : idx' = [idx EXCEPT ![x] = NoDoc] BY <2>2
    <3>2. x \in loc[t].keys
      BY <1>0, <2>2 DEF CallOK, AtLabel, KeyOps, WriteOps
    <3>3. x \in raised' BY <2>2, <3>2 DEF Fail
    <3>4. \A k \in Keys \ {x} : idx'[k] = idx[k] BY <1>0, <3>1 DEF Shape
    <3> QED BY <3>3, <3>4
  <2> QED BY <2>1, <2>2 DEF Fail
<1>6. \A k \in Keys : Owes(t, "idle", NoCall, k)
  BY <1>0, <1>2, <1>3, <1>4, <1>5 DEF Owes
<1> QED BY <1>0, <1>1, <1>2, <1>6, IndexMove

\* Every step of a process that is not killed keeps the invariant.
LEMMA IndexNext ==
  ASSUME KvAssumption, ~Crashes, TInv, XInv, PurgesLookBack, [Next]_vars PROVE XInv'
<1>1. CASE \E t \in Threads : Begin(t) \/ ThreadStep(t) \/ Fail(t)
  BY <1>1, BeginKeepsIndex, OthersKeepIndex, WritesKeepIndex, FailKeepsIndex DEF ThreadStep
<1>2. CASE Tick
  <2>1. UNCHANGED <<row, idx, pc, loc, raised>> /\ now' = now + 1
    BY <1>2 DEF Tick, history
  <2>2. \A k \in Keys : Live(row[k], now + 1) => Live(row[k], now)
    <3> TAKE k \in Keys
    <3>1. now \in Nat /\ (row[k] # NoDoc => row[k].exp \in Nat) BY DEF TInv, Shape, Row
    <3> QED BY <3>1 DEF Live
  <2>3. \A k \in Keys : OneWriter(k) => IndexFits(k)'
    BY <2>1, <2>2 DEF XInv, IndexFits
  <2> QED BY <2>1, <2>3 DEF XInv
<1>3. CASE UNCHANGED vars BY <1>3 DEF vars, history, XInv, IndexFits
<1> QED BY <1>1, <1>2, <1>3 DEF Next, Finished, Crash

\* Between calls the index shows a live document of a key with one writer under
\* its value and no other, whatever deletes, expiries and purges interleave
\* with the writer and wherever a purge raises, if the process is not killed and
\* no store or delete of the key has raised between its statements since the key
\* was stored (IndexMatchesRow).
THEOREM IndexFollowsRow ==
  ASSUME KvAssumption, ~Crashes PROVE Spec => []IndexMatchesRow
<1>1. Init => XInv
  BY DEF Init, XInv, Mine, IndexFits, IndexDue, Live, NoCall, WriteOps
<1>2. Init => PurgesLookBack BY DEF Init, PurgesLookBack, NoCall
<1>3. TInv /\ XInv => IndexMatchesRow
  <2> SUFFICES ASSUME TInv, XInv, NEW k \in Keys \ raised, OneWriter(k), Settled(k),
                      NEW v \in Values \ Plain, k \in LiveKeys(now)
               PROVE  idx[k] = v <=> Field(row[k].val) = v
    BY DEF IndexMatchesRow, FindByIndex
  <2>1. ASSUME NEW t \in Threads
        PROVE  ~IndexDue(pc[t], loc[t], k) /\ ~RowGoing(pc[t], loc[t], k)
    <3>1. CallOK(pc[t], loc[t]) BY CallFacts
    <3>2. RowGoing(pc[t], loc[t], k) => pc[t] # "idle" /\ k \in loc[t].keys
      BY <3>1 DEF RowGoing, CallOK, AtLabel, Reads, KeyOps
    <3>3. IndexDue(pc[t], loc[t], k) => pc[t] # "idle" /\ k \in loc[t].keys
      BY DEF IndexDue
    <3> QED BY <3>2, <3>3 DEF Settled
  <2> QED BY <2>1 DEF XInv, IndexFits, LiveKeys
<1>4. TInv /\ XInv /\ PurgesLookBack /\ [Next]_vars => XInv' /\ PurgesLookBack'
  BY IndexNext, PurgesLookBackKept
<1> QED BY <1>1, <1>2, <1>3, <1>4, Typing, PTL DEF Spec

-----------------------------------------------------------------------------
(***************************************************************************)
(* Refinement. KvStore implements AbstractKv, for every number of keys,    *)
(* values and threads: each statement of a call is the one effect of the   *)
(* call, its return, or nothing. The workloads are those of kv_calls: no   *)
(* TTL, no rebuild beside the calls, and batches of one key, since a       *)
(* larger batch is many commits.                                           *)
(***************************************************************************)
OneKeyBatches == \A t \in Threads : \A j, k \in Work[t]["mset"] : j = k

\* A batch has one key, and only kv_delete removes.
Simple == \A t \in Threads :
            /\ loc[t].op = "mset" => \A j, k \in loc[t].keys : j = k
            /\ pc[t] \in {"deleteIndex", "deleteRow"} => loc[t].op = "delete"
RInv == TInv /\ FInv /\ Simple

-----------------------------------------------------------------------------
(* The abstract call of a label and locals.                                *)

Done(p, c) == \/ p \in {"clearIndex", "insertIndex"}
              \/ p = "bloomAdd" /\ c.op # "mset"
              \/ p \in {"deleteIndex", "deleteRow"} /\ c.op # "delete"

View(p, c) ==
  IF p = "idle" \/ c.op \in Rebuilds THEN [op |-> "none"]
  ELSE [op |-> IF c.op \in {"set", "mset"} THEN "put" ELSE c.op,
        keys |-> c.keys, val |-> c.val, exp |-> c.exp, ver |-> c.ver,
        done |-> Done(p, c)]

calls == [t \in Threads |-> AbstractCall(t)]

\* A thread is in the abstract call that its label and locals show.
LEMMA Views ==
  /\ calls = [t \in Threads |-> View(pc[t], loc[t])]
  /\ calls' = [t \in Threads |-> View(pc'[t], loc'[t])]
  BY DEF calls, AbstractCall, View, Done, Effected

\* When one thread moves, the calls of the others stay.
LEMMA OneMoves ==
  ASSUME TInv, NEW t \in Threads, NEW p, NEW c, MovesTo(t, p, c)
  PROVE  /\ calls' = [calls EXCEPT ![t] = View(p, c)]
         /\ calls[t] = View(pc[t], loc[t])
<1>1. \A u \in Threads : /\ pc'[u] = IF u = t THEN p ELSE pc[u]
                         /\ loc'[u] = IF u = t THEN c ELSE loc[u]
  BY DEF MovesTo, TInv, Shape
<1> QED BY <1>1, Views

\* A move that shows nothing new.
LEMMA SameView ==
  ASSUME TInv, NEW t \in Threads, NEW p, NEW c, MovesTo(t, p, c),
         View(p, c) = View(pc[t], loc[t])
  PROVE  calls' = calls
<1>1. calls' = [calls EXCEPT ![t] = View(p, c)] /\ calls[t] = View(pc[t], loc[t])
  BY OneMoves
<1>2. calls' = [calls EXCEPT ![t] = calls[t]] BY <1>1
<1> QED BY <1>2 DEF calls

\* What is visible of a call in progress.
LEMMA CallOpen ==
  ASSUME RInv, NEW t \in Threads, pc[t] # "idle", loc[t].op # "none"
  PROVE  /\ calls[t].op = IF loc[t].op \in {"set", "mset"} THEN "put" ELSE loc[t].op
         /\ calls[t].keys = loc[t].keys /\ calls[t].val = loc[t].val
         /\ calls[t].exp = loc[t].exp /\ calls[t].ver = loc[t].ver
         /\ calls[t].done = Done(pc[t], loc[t])
         /\ calls[t] # Abstract!NoCall
<1>1. loc[t].op \notin Rebuilds BY DEF RInv, FInv, Fits
<1>2. calls[t] = [op |-> IF loc[t].op \in {"set", "mset"} THEN "put" ELSE loc[t].op,
                  keys |-> loc[t].keys, val |-> loc[t].val, exp |-> loc[t].exp,
                  ver |-> loc[t].ver, done |-> Done(pc[t], loc[t])]
  BY <1>1, Views DEF View
<1> HIDE DEF Done
<1>3. calls[t].op # "none" BY <1>2
<1>4. Abstract!NoCall.op = "none" BY DEF Abstract!NoCall
<1> QED BY <1>2, <1>3, <1>4

\* Nothing shows of a thread that has returned.
LEMMA ViewIdle == ASSUME NEW c PROVE View("idle", c) = Abstract!NoCall
  BY DEF View, Abstract!NoCall

-----------------------------------------------------------------------------
(* Steps of the abstract store.                                            *)

\* Nothing happens.
LEMMA AbstractStutter ==
  ASSUME calls' = calls, UNCHANGED <<row, bloom, now, res, faults>>
  PROVE  [Abstract!Next]_Abstract!vars
  BY DEF Abstract!vars, calls

\* A call is invoked.
LEMMA AbstractInvoke ==
  ASSUME NEW t \in Threads, NEW c \in Abstract!Requests, ~c.done,
         calls[t] = Abstract!NoCall, calls' = [calls EXCEPT ![t] = c],
         UNCHANGED <<row, bloom, now, res, faults>>
  PROVE  [Abstract!Next]_Abstract!vars
<1>1. calls'[t] = c BY DEF calls
<1>2. Abstract!Invoke(t) BY <1>1 DEF Abstract!Invoke, calls
<1> QED BY <1>2 DEF Abstract!Next

\* A call returns; a store leaves its keys public.
LEMMA AbstractReturn ==
  ASSUME NEW t \in Threads, calls[t] # Abstract!NoCall, calls[t].done,
         calls' = [calls EXCEPT ![t] = Abstract!NoCall],
         bloom' = IF calls[t].op \in {"put", "create"} THEN bloom \cup calls[t].keys
                  ELSE bloom,
         UNCHANGED <<row, now, res, faults>>
  PROVE  [Abstract!Next]_Abstract!vars
<1>1. Abstract!Return(t) BY DEF Abstract!Return, Abstract!Stores, calls
<1> QED BY <1>1 DEF Abstract!Next

\* A batch makes its keys public before it changes them.
LEMMA AbstractPublish ==
  ASSUME NEW t \in Threads, calls[t] # Abstract!NoCall, calls[t].op = "put",
         calls' = calls, bloom' = bloom \cup calls[t].keys,
         UNCHANGED <<row, now, res, faults>>
  PROVE  [Abstract!Next]_Abstract!vars
<1>1. Abstract!Publish(t) BY DEF Abstract!Publish, Abstract!Stores, calls
<1> QED BY <1>1 DEF Abstract!Next

\* A call raises.
LEMMA AbstractRaise ==
  ASSUME NEW t \in Threads, calls[t] # Abstract!NoCall,
         calls' = [calls EXCEPT ![t] = Abstract!NoCall], faults' = faults + 1,
         \/ UNCHANGED res
         \/ calls[t].done /\ res' = [res EXCEPT ![t] = Abstract!NoRes],
         UNCHANGED <<row, bloom, now>>
  PROVE  [Abstract!Next]_Abstract!vars
<1>1. Abstract!Raise(t) BY DEF Abstract!Raise, calls
<1> QED BY <1>1 DEF Abstract!Next

\* A write of one key takes effect.
LEMMA AbstractPut ==
  ASSUME NEW t \in Threads, NEW k \in Keys, calls[t] # Abstract!NoCall,
         ~calls[t].done, calls[t].op = "put", calls[t].keys = {k},
         row \in [Keys -> Row \cup {NoDoc}],
         row' = [row EXCEPT ![k] = Abstract!Written(k, calls[t])],
         calls' = [calls EXCEPT ![t].done = TRUE],
         res \in [Threads -> [key : Keys \cup {NoDoc}, val : Values \cup {NoDoc}, ver : Nat]],
         UNCHANGED <<bloom, now, res, faults>>
  PROVE  [Abstract!Next]_Abstract!vars
<1>1. row' = [j \in Keys |-> IF j \in calls[t].keys
                             THEN Abstract!Written(j, calls[t]) ELSE row[j]]
  OBVIOUS
<1>2. res' = [res EXCEPT ![t] = res[t]] OBVIOUS
<1>3. Abstract!Effect(t) BY <1>1, <1>2 DEF Abstract!Effect, calls
<1> QED BY <1>3 DEF Abstract!Next

\* A conditional write of one key takes effect, or is refused and returns.
LEMMA AbstractVersioned ==
  ASSUME NEW t \in Threads, NEW k \in Keys, NEW ok \in BOOLEAN,
         calls[t] # Abstract!NoCall, ~calls[t].done,
         calls[t].op \in {"create", "update"}, calls[t].keys = {k},
         ok <=> IF calls[t].op = "create" THEN row[k] = NoDoc
                ELSE row[k] # NoDoc /\ row[k].ver = calls[t].ver,
         row \in [Keys -> Row \cup {NoDoc}],
         row' = IF ok THEN [row EXCEPT ![k] = Abstract!Written(k, calls[t])] ELSE row,
         res' = [res EXCEPT ![t] = IF ok THEN [key |-> k, val |-> calls[t].val,
                                               ver |-> calls[t].ver + 1]
                                   ELSE Abstract!NoRes],
         calls' = IF ok THEN [calls EXCEPT ![t].done = TRUE]
                  ELSE [calls EXCEPT ![t] = Abstract!NoCall],
         UNCHANGED <<bloom, now, faults>>
  PROVE  [Abstract!Next]_Abstract!vars
<1>1. ok => row' = [j \in Keys |-> IF j \in {k} THEN Abstract!Written(j, calls[t])
                                   ELSE row[j]]
  OBVIOUS
<1>2. Abstract!Effect(t)
  BY <1>1 DEF Abstract!Effect, Abstract!Present, calls
<1> QED BY <1>2 DEF Abstract!Next

\* A read of one key answers.
LEMMA AbstractRead ==
  ASSUME NEW t \in Threads, NEW k \in Keys, calls[t] # Abstract!NoCall,
         ~calls[t].done, calls[t].op \in {"get", "getv"}, calls[t].keys = {k},
         \/ /\ k \in bloom /\ row[k] # NoDoc /\ ~Abstract!Expired(row[k])
            /\ res' = [res EXCEPT ![t] =
                         [key |-> k, val |-> row[k].val,
                          ver |-> IF calls[t].op = "getv" THEN row[k].ver ELSE 0]]
         \/ /\ row[k] = NoDoc \/ k \notin bloom
            /\ res' = [res EXCEPT ![t] = Abstract!Missed(k)],
         calls' = [calls EXCEPT ![t] = Abstract!NoCall],
         UNCHANGED <<row, bloom, now, faults>>
  PROVE  [Abstract!Next]_Abstract!vars
<1>1. Abstract!Effect(t)
  BY DEF Abstract!Effect, Abstract!Present, calls
<1> QED BY <1>1 DEF Abstract!Next

\* A kv_delete of one key takes effect and returns.
LEMMA AbstractDelete ==
  ASSUME NEW t \in Threads, NEW k \in Keys, calls[t] # Abstract!NoCall,
         ~calls[t].done, calls[t].op = "delete", calls[t].keys = {k},
         row \in [Keys -> Row \cup {NoDoc}], row' = [row EXCEPT ![k] = NoDoc],
         calls' = [calls EXCEPT ![t] = Abstract!NoCall],
         res \in [Threads -> [key : Keys \cup {NoDoc}, val : Values \cup {NoDoc}, ver : Nat]],
         UNCHANGED <<bloom, now, res, faults>>
  PROVE  [Abstract!Next]_Abstract!vars
<1>1. row' = [j \in Keys |-> IF j \in calls[t].keys THEN NoDoc ELSE row[j]]
  OBVIOUS
<1>2. res' = [res EXCEPT ![t] = res[t]] OBVIOUS
<1>3. Abstract!Effect(t) BY <1>1, <1>2 DEF Abstract!Effect, calls
<1> QED BY <1>3 DEF Abstract!Next

-----------------------------------------------------------------------------
(* Steps of the store.                                                     *)

StepOK == Simple' /\ [Abstract!Next]_Abstract!vars

\* Simple is kept by a thread that moves to a simple place.
LEMMA SimpleMoves ==
  ASSUME TInv, Simple, NEW t \in Threads, NEW p, NEW c, MovesTo(t, p, c),
         c.op = "mset" => \A j, k \in c.keys : j = k,
         p \in {"deleteIndex", "deleteRow"} => c.op = "delete"
  PROVE  Simple'
<1>1. \A u \in Threads : /\ pc'[u] = IF u = t THEN p ELSE pc[u]
                         /\ loc'[u] = IF u = t THEN c ELSE loc[u]
  BY DEF MovesTo, TInv, Shape
<1> QED BY <1>1 DEF Simple

\* A thread that returns has no call any more.
LEMMA ReturnView ==
  ASSUME TInv, Simple, NEW t \in Threads, Return(t)
  PROVE  Simple' /\ calls' = [calls EXCEPT ![t] = Abstract!NoCall]
<1>1. MovesTo(t, "idle", NoCall) BY DEF Return, Goto, MovesTo
<1>2. NoCall.op = "none" BY DEF NoCall
<1>3. Simple' BY <1>1, <1>2, SimpleMoves
<1> QED BY <1>1, <1>3, OneMoves, ViewIdle

\* A thread that goes on with the same locals.
LEMMA StayView ==
  ASSUME TInv, Simple, NEW t \in Threads, NEW p, Goto(t, p), UNCHANGED loc,
         p \in {"deleteIndex", "deleteRow"} => loc[t].op = "delete"
  PROVE  Simple' /\ calls' = [calls EXCEPT ![t] = View(p, loc[t])]
<1>1. MovesTo(t, p, loc[t]) BY DEF Goto, MovesTo, TInv, Shape
<1>2. Simple' BY <1>1, SimpleMoves DEF Simple
<1> QED BY <1>1, <1>2, OneMoves

\* The locals of a call on one key.
LEMMA KeyFacts ==
  ASSUME RInv, NEW t \in Threads, loc[t].op \in KeyOps
  PROVE  loc[t].key \in Keys /\ loc[t].keys = {loc[t].key} /\ loc[t].todo = {loc[t].key}
  BY CallFacts DEF RInv, CallOK

\* A stored document does not expire.
LEMMA NothingExpires ==
  ASSUME NoTtl, RInv, NEW k \in Keys, row[k] # NoDoc
  PROVE  /\ Live(row[k], now) /\ ~Dead(row[k], now)
         /\ ~Abstract!Expired(row[k])
<1>1. row[k].exp = 0 BY DEF RInv, FInv, RowsKeep
<1> QED BY <1>1 DEF Live, Dead, Abstract!Expired

\* The filter lookup answers that the key is not public, or lets the SELECT
\* answer.
LEMMA LookupRefines ==
  ASSUME RInv, NEW t \in Threads, Lookup(t) PROVE StepOK
<1> DEFINE k == loc[t].key
<1>1. TInv /\ Simple /\ pc[t] = "lookup" /\ UNCHANGED <<row, bloom, now, faults>>
  BY DEF RInv, Lookup, history
<1>2. loc[t].op \in Reads BY <1>1, CallFacts DEF CallOK, AtLabel
<1>3. k \in Keys /\ loc[t].keys = {k} BY <1>2, KeyFacts DEF Reads, KeyOps
<1>4. calls[t] = View("lookup", loc[t]) BY <1>1, Views
<1>5. CASE k \in bloom
  <2>1. Simple' /\ calls' = [calls EXCEPT ![t] = View("select", loc[t])]
    BY <1>1, <1>5, StayView DEF Lookup
  <2>2. View("select", loc[t]) = View("lookup", loc[t]) BY DEF View, Done
  <2>3. calls' = calls BY <1>4, <2>1, <2>2 DEF calls
  <2>4. res' = res BY <1>5 DEF Lookup
  <2> QED BY <1>1, <2>1, <2>3, <2>4, AbstractStutter DEF StepOK
<1>6. CASE k \notin bloom
  <2>1. Return(t) /\ res' = [res EXCEPT ![t] = [NoRes EXCEPT !.key = k]]
    BY <1>6 DEF Lookup, Yield
  <2>2. [NoRes EXCEPT !.key = k] = Abstract!Missed(k)
    BY DEF NoRes, Abstract!Missed
  <2>3. Simple' /\ calls' = [calls EXCEPT ![t] = Abstract!NoCall]
    BY <1>1, <2>1, ReturnView
  <2>4. /\ calls[t].op \in {"get", "getv"} /\ calls[t].keys = {k} /\ ~calls[t].done
        /\ calls[t] # Abstract!NoCall
    BY <1>1, <1>2, <1>3, CallOpen DEF Done, Reads
  <2> QED BY <1>1, <1>3, <1>6, <2>1, <2>2, <2>3, <2>4, AbstractRead DEF StepOK
<1> QED BY <1>5, <1>6

\* The SELECT of a read answers with the row it finds.
LEMMA SelectRefines ==
  ASSUME NoTtl, RInv, NEW t \in Threads, Select(t) PROVE StepOK
<1> DEFINE k == loc[t].key
<1>1. TInv /\ Simple /\ pc[t] = "select" /\ UNCHANGED <<row, bloom, now, faults>>
  BY DEF RInv, Select, history
<1>2. loc[t].op \in Reads BY <1>1, CallFacts DEF CallOK, AtLabel
<1>3. k \in Keys /\ loc[t].keys = {k} BY <1>2, KeyFacts DEF Reads, KeyOps
<1>4. ~Dead(row[k], now) /\ (Live(row[k], now) <=> row[k] # NoDoc)
  BY <1>3, NothingExpires DEF Dead, Live
<1>5. Return(t) BY <1>4 DEF Select
<1>6. Simple' /\ calls' = [calls EXCEPT ![t] = Abstract!NoCall]
  BY <1>1, <1>5, ReturnView
<1>8. /\ calls[t].op = loc[t].op /\ calls[t].op \in {"get", "getv"}
      /\ calls[t].keys = {k} /\ ~calls[t].done
      /\ calls[t] # Abstract!NoCall
  BY <1>1, <1>2, <1>3, CallOpen DEF Done, Reads
<1>10. CASE row[k] = NoDoc
  <2>1. res' = [res EXCEPT ![t] = [NoRes EXCEPT !.key = k]]
    BY <1>4, <1>10 DEF Select, Yield
  <2>2. [NoRes EXCEPT !.key = k] = Abstract!Missed(k)
    BY DEF NoRes, Abstract!Missed
  <2> QED BY <1>1, <1>3, <1>6, <1>8, <1>10, <2>1, <2>2, AbstractRead DEF StepOK
<1>11. CASE row[k] # NoDoc
  <2>1. res' = [res EXCEPT ![t] =
                  [key |-> k, val |-> row[k].val,
                   ver |-> IF calls[t].op = "getv" THEN row[k].ver ELSE 0]]
    BY <1>4, <1>8, <1>11 DEF Select, Yield
  <2>2. ~Abstract!Expired(row[k]) BY <1>3, <1>11, NothingExpires
  <2>3. k \in bloom BY <1>1 DEF RInv, FInv, Fits
  <2> QED BY <1>1, <1>3, <1>6, <1>8, <1>11, <2>1, <2>2, <2>3, AbstractRead DEF StepOK
<1> QED BY <1>10, <1>11

\* A call that comes to its effect and has work left is done with it.
LEMMA EffectView ==
  ASSUME NEW p \in {"upsert", "insert", "update"}, NEW b, NEW c,
         b.op \notin Rebuilds, c.op = b.op, c.keys = b.keys, c.val = b.val,
         c.exp = b.exp, c.ver = b.ver
  PROVE  View("clearIndex", c) = [View(p, b) EXCEPT !.done = TRUE]
<1> DEFINE op == IF b.op \in {"set", "mset"} THEN "put" ELSE b.op
<1>1. Done("clearIndex", c) = TRUE BY DEF Done
<1>2. Done(p, b) = FALSE BY DEF Done
<1>3. View("clearIndex", c) = [op |-> op, keys |-> b.keys, val |-> b.val,
                               exp |-> b.exp, ver |-> b.ver, done |-> TRUE]
  BY <1>1 DEF View
<1>4. View(p, b) = [op |-> op, keys |-> b.keys, val |-> b.val,
                    exp |-> b.exp, ver |-> b.ver, done |-> FALSE]
  BY <1>2 DEF View
<1> HIDE DEF op
<1> QED BY <1>3, <1>4

\* The document a write leaves is the one the abstract store writes.
LEMMA SameDocument ==
  ASSUME RInv, NEW t \in Threads, NEW k \in Keys,
         calls[t].val = loc[t].val, calls[t].exp = loc[t].exp
  PROVE  Bumped(k, loc[t]) = Abstract!Written(k, calls[t])
  BY DEF Bumped, Abstract!Written, Abstract!Present

\* The upsert is the effect of a set, and of a batch of one key.
LEMMA UpsertRefines ==
  ASSUME RInv, NEW t \in Threads, Upsert(t) PROVE StepOK
<1>1. TInv /\ Simple /\ Shape /\ pc[t] = "upsert" /\ UNCHANGED <<bloom, now, res, faults>>
  BY DEF RInv, TInv, Upsert
<1>2. loc[t].op \in {"set", "mset"} BY <1>1, CallFacts DEF CallOK, AtLabel
<1>3. PICK k \in loc[t].todo : /\ row' = [row EXCEPT ![k] = Bumped(k, loc[t])]
                               /\ Step(t, k, "upsert", "clearIndex")
  BY DEF Upsert
<1>4. loc[t].keys = {k} /\ loc[t].todo = {k} /\ k \in Keys
  <2>1. CASE loc[t].op = "set" BY <1>3, <2>1, KeyFacts DEF KeyOps
  <2>2. CASE loc[t].op = "mset"
    <3>1. loc[t].todo \subseteq loc[t].keys /\ \A i, j \in loc[t].keys : i = j
      BY <1>1, <2>2, CallFacts DEF Simple, CallOK
    <3>2. loc[t].todo \subseteq Keys BY <1>1, LocType
    <3> QED BY <1>3, <3>1, <3>2
  <2> QED BY <1>2, <2>1, <2>2
<1>5. PICK c \in CallRecord :
        /\ c.op = loc[t].op /\ c.val = loc[t].val /\ c.keys = loc[t].keys
        /\ c.exp = loc[t].exp /\ c.ver = loc[t].ver
        /\ MovesTo(t, "clearIndex", c)
  <2> DEFINE c == [loc[t] EXCEPT !.key = k, !.todo = loc[t].keys]
  <2>1. loc[t].todo \ {k} = {} BY <1>4
  <2>2. c \in CallRecord BY <1>1, <1>4, LocType DEF CallRecord
  <2>3. /\ c.op = loc[t].op /\ c.val = loc[t].val /\ c.keys = loc[t].keys
        /\ c.exp = loc[t].exp /\ c.ver = loc[t].ver
    BY <1>1, LocType DEF CallRecord
  <2>4. MovesTo(t, "clearIndex", c)
    BY <1>1, <1>3, <2>1 DEF Step, Goto, MovesTo, Shape, CallRecord
  <2> HIDE DEF c
  <2> QED BY <2>2, <2>3, <2>4
<1>6. Simple' BY <1>1, <1>4, <1>5, SimpleMoves
<1>7. /\ calls[t].op = "put" /\ calls[t].keys = {k} /\ ~calls[t].done
      /\ calls[t] # Abstract!NoCall
      /\ calls[t].val = loc[t].val /\ calls[t].exp = loc[t].exp
  BY <1>1, <1>2, <1>4, CallOpen DEF Done
<1>8. calls' = [calls EXCEPT ![t].done = TRUE]
  <2>1. View("clearIndex", c) = [View("upsert", loc[t]) EXCEPT !.done = TRUE]
    BY <1>2, <1>5, EffectView DEF Rebuilds
  <2>2. /\ calls' = [calls EXCEPT ![t] = View("clearIndex", c)]
        /\ calls[t] = View("upsert", loc[t])
    BY <1>1, <1>5, OneMoves
  <2> QED BY <2>1, <2>2
<1>9. row' = [row EXCEPT ![k] = Abstract!Written(k, calls[t])]
  BY <1>3, <1>4, <1>7, SameDocument
<1> QED BY <1>1, <1>4, <1>6, <1>7, <1>8, <1>9, AbstractPut DEF StepOK, Shape

\* The INSERT and the conditional UPDATE are the effect of a versioned write,
\* or its refusal.
LEMMA VersionedRefines ==
  ASSUME RInv, NEW t \in Threads, Insert(t) \/ Update(t) PROVE StepOK
<1> DEFINE k == loc[t].key
<1>1. PICK p \in {"insert", "update"}, ok \in BOOLEAN :
        /\ Versioned(t, p, ok)
        /\ ok <=> IF p = "insert" THEN row[k] = NoDoc
                  ELSE row[k] # NoDoc /\ row[k].ver = loc[t].ver
  BY DEF Insert, Update, Versioned
<1>2. TInv /\ Simple /\ Shape /\ pc[t] = p /\ UNCHANGED <<bloom, now, faults>>
  BY <1>1 DEF RInv, TInv, Versioned
<1>3. /\ p = "insert" => loc[t].op = "create"
      /\ p = "update" => loc[t].op = "update"
  BY <1>2, CallFacts DEF CallOK, AtLabel
<1>4. k \in Keys /\ loc[t].keys = {k} BY <1>3, KeyFacts DEF KeyOps
<1>5. /\ calls[t].op = loc[t].op /\ calls[t].keys = {k} /\ ~calls[t].done
      /\ calls[t] # Abstract!NoCall /\ calls[t].ver = loc[t].ver
      /\ calls[t].val = loc[t].val /\ calls[t].exp = loc[t].exp
  BY <1>2, <1>3, <1>4, CallOpen DEF Done
<1>6. /\ Simple'
      /\ calls' = IF ok THEN [calls EXCEPT ![t].done = TRUE]
                  ELSE [calls EXCEPT ![t] = Abstract!NoCall]
  <2>1. CASE ok
    <3>1. Goto(t, "clearIndex") /\ UNCHANGED loc BY <1>1, <2>1 DEF Versioned
    <3>2. Simple' /\ calls' = [calls EXCEPT ![t] = View("clearIndex", loc[t])]
      BY <1>2, <3>1, StayView
    <3>3. View("clearIndex", loc[t]) = [View(p, loc[t]) EXCEPT !.done = TRUE]
      BY <1>3, EffectView DEF Rebuilds
    <3>4. calls[t] = View(p, loc[t]) BY <1>2, Views
    <3> QED BY <2>1, <3>2, <3>3, <3>4
  <2>2. CASE ~ok
    <3>1. Return(t) BY <1>1, <2>2 DEF Versioned
    <3> QED BY <1>2, <2>2, <3>1, ReturnView
  <2> QED BY <2>1, <2>2
<1>7. row' = IF ok THEN [row EXCEPT ![k] = Abstract!Written(k, calls[t])] ELSE row
  BY <1>1, <1>4, <1>5, SameDocument DEF Versioned
<1>8. res' = [res EXCEPT ![t] = IF ok THEN [key |-> k, val |-> calls[t].val,
                                            ver |-> calls[t].ver + 1]
                                ELSE Abstract!NoRes]
  BY <1>1, <1>5 DEF Versioned, Yield, NoRes, Abstract!NoRes
<1>9. /\ calls[t].op \in {"create", "update"}
      /\ ok <=> IF calls[t].op = "create" THEN row[k] = NoDoc
                ELSE row[k] # NoDoc /\ row[k].ver = calls[t].ver
  BY <1>1, <1>3, <1>5
<1> HIDE DEF k
<1> QED BY <1>2, <1>4, <1>5, <1>6, <1>7, <1>8, <1>9, AbstractVersioned
        DEF StepOK, Shape

\* The index statements and the bloom.add of a written document come after the
\* effect of its call; the last of them returns.
LEMMA AfterEffectRefines ==
  ASSUME RInv, NEW t \in Threads, ClearIndex(t) \/ InsertIndex(t) PROVE StepOK
<1>1. /\ TInv /\ Simple /\ Shape /\ pc[t] \in {"clearIndex", "insertIndex"}
      /\ UNCHANGED <<row, bloom, now, res, faults>>
  BY DEF RInv, TInv, ClearIndex, InsertIndex, history
<1>2. loc[t].op \in WriteOps BY <1>1, CallFacts DEF CallOK, AtLabel
<1> DEFINE next == AfterIndex(loc[t].op)
<1>3. calls[t].done /\ calls[t] # Abstract!NoCall
  BY <1>1, <1>2, CallOpen DEF Done, WriteOps
<1>4. PICK k \in Keys :
        \/ Step(t, k, "clearIndex", next)
        \/ MovesTo(t, "insertIndex", [loc[t] EXCEPT !.key = k])
  <2>1. CASE ClearIndex(t)
    <3>1. PICK k \in loc[t].todo :
            IF Field(loc[t].val) = NoDoc THEN Step(t, k, "clearIndex", next)
            ELSE Goto(t, "insertIndex") /\ loc' = [loc EXCEPT ![t].key = k]
      BY <2>1 DEF ClearIndex
    <3>2. k \in Keys BY <1>1, LocType
    <3> HIDE DEF next
    <3> QED BY <1>1, <3>1, <3>2 DEF Goto, MovesTo, Shape
  <2>2. CASE InsertIndex(t)
    <3>1. loc[t].key \in Keys
      BY <1>1, <1>2, CallFacts DEF CallOK, WriteOps, KeyOps
    <3> QED BY <2>2, <3>1 DEF InsertIndex
  <2> QED BY <2>1, <2>2
<1>5. next = IF loc[t].op \in {"set", "create"} THEN "bloomAdd" ELSE "idle"
  BY DEF AfterIndex
<1> HIDE DEF next
<1>6. CASE Return(t)
  <2>1. Simple' /\ calls' = [calls EXCEPT ![t] = Abstract!NoCall]
    BY <1>1, <1>6, ReturnView
  <2>2. loc[t].op \in {"mset", "update"}
    <3>1. pc'[t] = "idle" BY <1>1, <1>6 DEF Return, Goto, Shape
    <3>2. ~MovesTo(t, "insertIndex", [loc[t] EXCEPT !.key = k])
      BY <1>1, <3>1 DEF MovesTo, Shape
    <3>3. next = "idle" BY <1>1, <1>4, <3>1, <3>2 DEF Step, Goto, Shape
    <3> QED BY <1>2, <1>5, <3>3 DEF WriteOps
  <2>3. bloom' = IF calls[t].op \in {"put", "create"} THEN bloom \cup calls[t].keys
                 ELSE bloom
    <3>1. CASE loc[t].op = "mset"
      <4>1. loc[t].keys \subseteq bloom BY <1>1, <3>1 DEF RInv, FInv, Fits
      <4>2. calls[t].keys = loc[t].keys BY <1>1, <3>1, CallOpen
      <4> QED BY <1>1, <4>1, <4>2
    <3>2. CASE loc[t].op = "update"
      <4>1. calls[t].op = "update" BY <1>1, <3>2, CallOpen
      <4> QED BY <1>1, <4>1
    <3> QED BY <2>2, <3>1, <3>2
  <2> QED BY <1>1, <1>3, <2>1, <2>3, AbstractReturn DEF StepOK
<1>7. ASSUME NEW p \in {"clearIndex", "insertIndex", "bloomAdd"}, NEW c,
             MovesTo(t, p, c), c.op = loc[t].op, c.val = loc[t].val,
             c.keys = loc[t].keys, c.exp = loc[t].exp, c.ver = loc[t].ver,
             p = "bloomAdd" => loc[t].op \in {"set", "create"}
      PROVE  StepOK
  <2>1. Simple' BY <1>1, <1>7, SimpleMoves DEF Simple
  <2>2. Done(p, c) = TRUE BY <1>7 DEF Done
  <2>3. Done(pc[t], loc[t]) = TRUE BY <1>1 DEF Done
  <2>4. View(p, c) = View(pc[t], loc[t])
    BY <1>1, <1>2, <1>7, <2>2, <2>3 DEF View
  <2>5. calls' = calls BY <1>1, <1>7, <2>4, SameView
  <2> QED BY <1>1, <2>1, <2>5, AbstractStutter DEF StepOK
<1>8. CASE MovesTo(t, "insertIndex", [loc[t] EXCEPT !.key = k])
  <2> DEFINE c == [loc[t] EXCEPT !.key = k]
  <2>1. /\ c.op = loc[t].op /\ c.val = loc[t].val /\ c.keys = loc[t].keys
        /\ c.exp = loc[t].exp /\ c.ver = loc[t].ver
    BY <1>1, LocType DEF CallRecord
  <2> HIDE DEF c
  <2> QED BY <1>7, <1>8, <2>1 DEF c
<1>9. CASE Step(t, k, "clearIndex", next) /\ ~Return(t)
  <2> DEFINE rest == loc[t].todo \ {k}
             c == [loc[t] EXCEPT !.key = k,
                                 !.todo = IF rest # {} THEN rest ELSE loc[t].keys]
             p == IF rest # {} THEN "clearIndex" ELSE next
  <2>1. /\ c.op = loc[t].op /\ c.val = loc[t].val /\ c.keys = loc[t].keys
        /\ c.exp = loc[t].exp /\ c.ver = loc[t].ver
    BY <1>1, LocType DEF CallRecord
  <2>2. p # "idle" /\ MovesTo(t, p, c)
    BY <1>1, <1>9 DEF Step, Goto, MovesTo, Shape, CallRecord
  <2>3. /\ p \in {"clearIndex", "insertIndex", "bloomAdd"}
        /\ p = "bloomAdd" => loc[t].op \in {"set", "create"}
    BY <1>5, <2>2
  <2> HIDE DEF c, p
  <2> QED BY <1>7, <2>1, <2>2, <2>3
<1> QED BY <1>4, <1>6, <1>8, <1>9

\* The bloom.add of a batch makes its key public before its effect, that of a
\* single write is its return.
LEMMA BloomAddRefines ==
  ASSUME RInv, NEW t \in Threads, BloomAdd(t) PROVE StepOK
<1>1. /\ TInv /\ Simple /\ Shape /\ pc[t] = "bloomAdd"
      /\ UNCHANGED <<row, now, res, faults>> /\ loc[t].op \notin Rebuilds
  BY DEF RInv, TInv, BloomAdd, FInv, Fits, history
<1>2. loc[t].op \in {"set", "create", "mset"} BY <1>1, CallFacts DEF CallOK, AtLabel
<1> DEFINE next == IF loc[t].op = "mset" THEN "upsert" ELSE "idle"
<1>3. PICK k \in loc[t].todo : bloom' = bloom \cup {k} /\ Step(t, k, "bloomAdd", next)
  BY DEF BloomAdd
<1>k. k \in Keys BY <1>1, LocType
<1>4. CASE loc[t].op # "mset"
  <2>1. loc[t].todo \ {k} = {} BY <1>2, <1>3, <1>4, KeyFacts DEF KeyOps
  <2>2. Return(t) BY <1>3, <1>4, <2>1 DEF Step
  <2>3. Simple' /\ calls' = [calls EXCEPT ![t] = Abstract!NoCall]
    BY <1>1, <2>2, ReturnView
  <2>4. /\ calls[t].done /\ calls[t] # Abstract!NoCall
        /\ calls[t].op \in {"put", "create"} /\ calls[t].keys = loc[t].keys
    BY <1>1, <1>2, <1>4, CallOpen DEF Done
  <2>5. loc[t].keys = {k} BY <1>2, <1>3, <1>4, KeyFacts DEF KeyOps
  <2> QED BY <1>1, <1>3, <2>3, <2>4, <2>5, AbstractReturn DEF StepOK
<1>5. CASE loc[t].op = "mset"
  <2> DEFINE rest == loc[t].todo \ {k}
             c == [loc[t] EXCEPT !.key = k,
                                 !.todo = IF rest # {} THEN rest ELSE loc[t].keys]
             p == IF rest # {} THEN "bloomAdd" ELSE "upsert"
  <2>1. /\ c.op = loc[t].op /\ c.val = loc[t].val /\ c.keys = loc[t].keys
        /\ c.exp = loc[t].exp /\ c.ver = loc[t].ver
    BY <1>1, LocType DEF CallRecord
  <2>2. MovesTo(t, p, c)
    BY <1>1, <1>3, <1>5 DEF Step, Goto, MovesTo, Shape, CallRecord
  <2>3. p \in {"bloomAdd", "upsert"} OBVIOUS
  <2> HIDE DEF c, p
  <2>4. Simple' BY <1>1, <2>1, <2>2, <2>3, SimpleMoves DEF Simple
  <2>5. Done(p, c) = FALSE /\ Done("bloomAdd", loc[t]) = FALSE
    BY <1>5, <2>1, <2>3 DEF Done
  <2>6. View(p, c) = View("bloomAdd", loc[t])
    BY <1>1, <2>1, <2>3, <2>5 DEF View
  <2>7. calls' = calls BY <1>1, <2>2, <2>6, SameView
  <2>8. loc[t].keys = {k}
    <3>1. loc[t].todo \subseteq loc[t].keys /\ \A i, j \in loc[t].keys : i = j
      BY <1>1, <1>5, CallFacts DEF Simple, CallOK
    <3> QED BY <1>3, <3>1
  <2>9. /\ calls[t] # Abstract!NoCall /\ calls[t].op = "put"
        /\ calls[t].keys = loc[t].keys
    BY <1>1, <1>5, CallOpen
  <2> QED BY <1>1, <1>3, <2>4, <2>7, <2>8, <2>9, AbstractPublish DEF StepOK
<1> QED BY <1>4, <1>5

\* The DELETE of the row is the effect of a kv_delete and its return.
LEMMA DeleteRefines ==
  ASSUME RInv, NEW t \in Threads, DeleteIndex(t) \/ DeleteRow(t) PROVE StepOK
<1> DEFINE k == loc[t].key
<1>1. /\ TInv /\ Simple /\ Shape /\ pc[t] \in {"deleteIndex", "deleteRow"}
      /\ UNCHANGED <<bloom, now, res, faults>>
  BY DEF RInv, TInv, DeleteIndex, DeleteRow, history
<1>2. loc[t].op = "delete" BY <1>1 DEF Simple
<1>3. k \in Keys /\ loc[t].keys = {k} BY <1>2, KeyFacts DEF KeyOps
<1>4. CASE DeleteIndex(t)
  <2>1. pc[t] = "deleteIndex" /\ row' = row BY <1>4 DEF DeleteIndex
  <2>2. Simple' /\ calls' = [calls EXCEPT ![t] = View("deleteRow", loc[t])]
    BY <1>1, <1>2, <1>4, StayView DEF DeleteIndex
  <2>3. Done("deleteRow", loc[t]) = FALSE /\ Done("deleteIndex", loc[t]) = FALSE
    BY <1>2 DEF Done
  <2>4. View("deleteRow", loc[t]) = View(pc[t], loc[t]) BY <2>1, <2>3 DEF View
  <2>5. calls' = calls BY <2>2, <2>4, Views DEF calls
  <2> QED BY <1>1, <2>1, <2>2, <2>5, AbstractStutter DEF StepOK
<1>5. CASE DeleteRow(t)
  <2>1. Return(t) /\ row' = [row EXCEPT ![k] = NoDoc] BY <1>5 DEF DeleteRow
  <2>2. Simple' /\ calls' = [calls EXCEPT ![t] = Abstract!NoCall]
    BY <1>1, <2>1, ReturnView
  <2>3. /\ calls[t].op = "delete" /\ calls[t].keys = {k} /\ ~calls[t].done
        /\ calls[t] # Abstract!NoCall
    BY <1>1, <1>2, <1>3, CallOpen DEF Done
  <2> QED BY <1>1, <1>3, <2>1, <2>2, <2>3, AbstractDelete DEF StepOK, Shape
<1> QED BY <1>4, <1>5

\* Everything a call does before its first statement is its invocation.
LEMMA BeginRefines ==
  ASSUME KvAssumption, NoRebuild, OneKeyBatches, RInv, NEW t \in Threads, Begin(t)
  PROVE  StepOK
<1>0. TInv /\ Simple /\ Shape BY DEF RInv, TInv
<1>1. ASSUME NEW op \in AllOps \ Rebuilds,
             NEW p \in {"lookup", "upsert", "insert", "update", "bloomAdd", "deleteIndex"},
             NEW K \in SUBSET Keys, NEW v \in Values \cup {NoDoc},
             NEW e \in Nat, NEW n \in Nat,
             p = "bloomAdd" => op = "mset", p = "deleteIndex" => op = "delete",
             op = "mset" => \A j, k \in K : j = k,
             ClientCall(t, op, p, K, v, e, n)
      PROVE  StepOK
  <2>1. PICK k \in K : Call(t, p, [op |-> op, keys |-> K, todo |-> K, key |-> k,
                                   val |-> v, exp |-> e, ver |-> n])
    BY <1>1 DEF ClientCall
  <2> DEFINE c == [op |-> op, keys |-> K, todo |-> K, key |-> k, val |-> v,
                   exp |-> e, ver |-> n]
             o == IF op \in {"set", "mset"} THEN "put" ELSE op
             a == [op |-> o, keys |-> K, val |-> v, exp |-> e, ver |-> n, done |-> FALSE]
  <2>2. /\ pc[t] = "idle" /\ MovesTo(t, p, c)
        /\ UNCHANGED <<row, bloom, now, res, faults>> /\ K # {}
    BY <1>1, <2>1 DEF Call, ClientCall, Goto, MovesTo, history
  <2>3. c.op = op /\ c.keys = K OBVIOUS
  <2>4. Done(p, c) = FALSE BY <1>1 DEF Done
  <2>5. View(p, c) = a BY <1>1, <2>4 DEF View
  <2>6. a \in Abstract!Requests /\ ~a.done
    <3>1. o \in {"put", "get", "getv", "create", "update", "delete"}
      BY <1>1 DEF AllOps, WriteOps, Reads, Rebuilds
    <3>2. K \in (SUBSET Keys) \ {{}} BY <2>2
    <3> HIDE DEF o
    <3>3. a \in Abstract!Requests BY <3>1, <3>2 DEF Abstract!Requests
    <3>4. ~a.done OBVIOUS
    <3> QED BY <3>3, <3>4
  <2> HIDE DEF c, a, o
  <2>7. Simple' BY <1>0, <1>1, <2>2, <2>3, SimpleMoves
  <2>8. calls' = [calls EXCEPT ![t] = a] /\ calls[t] = Abstract!NoCall
    BY <1>0, <2>2, <2>5, OneMoves, ViewIdle
  <2> QED BY <2>2, <2>6, <2>7, <2>8, AbstractInvoke DEF StepOK
<1>2. CASE KvSet(t)
  <2>1. PICK k \in Keys, v \in Values : \E ttl \in Ttls[k] :
             ClientCall(t, "set", "upsert", {k}, v, ExpiresAt(ttl), 0)
    BY <1>2 DEF KvSet
  <2>2. PICK ttl \in Ttls[k] :
             ClientCall(t, "set", "upsert", {k}, v, ExpiresAt(ttl), 0)
    BY <2>1
  <2>3. ExpiresAt(ttl) \in Nat BY <1>0, ExpiresAtType DEF KvAssumption
  <2> QED BY <1>1, <2>2, <2>3 DEF AllOps, WriteOps, Rebuilds
<1>3. CASE KvMset(t)
  <2> DEFINE K == Work[t]["mset"]
  <2>0. K \in SUBSET Keys /\ \A j, k \in K : j = k
    BY DEF KvAssumption, AllOps, WriteOps, OneKeyBatches
  <2>1. PICK v \in Values, ttl \in UNION {Ttls[k] : k \in K} :
             ClientCall(t, "mset", "bloomAdd", K, v, ExpiresAt(ttl), 0)
    BY <1>3 DEF KvMset
  <2>2. ttl \in Nat BY <2>0 DEF KvAssumption
  <2>3. ExpiresAt(ttl) \in Nat BY <1>0, <2>2, ExpiresAtType
  <2> HIDE DEF K
  <2> QED BY <1>1, <2>0, <2>1, <2>3 DEF AllOps, WriteOps, Rebuilds
<1>4. CASE KvSetVersioned(t)
  <2>1. PICK k \in Keys, v \in Values : \E ttl \in Ttls[k] :
          \/ ClientCall(t, "create", "insert", {k}, v, ExpiresAt(ttl), 0)
          \/ ClientCall(t, "update", "update", {k}, v, ExpiresAt(ttl), res[t].ver)
    BY <1>4 DEF KvSetVersioned
  <2>2. PICK ttl \in Ttls[k] :
          \/ ClientCall(t, "create", "insert", {k}, v, ExpiresAt(ttl), 0)
          \/ ClientCall(t, "update", "update", {k}, v, ExpiresAt(ttl), res[t].ver)
    BY <2>1
  <2>3. ExpiresAt(ttl) \in Nat BY <1>0, ExpiresAtType DEF KvAssumption
  <2>4. res[t].ver \in Nat BY <1>0 DEF Shape
  <2> QED BY <1>1, <2>2, <2>3, <2>4 DEF AllOps, WriteOps, Rebuilds
<1>5. CASE KvGet(t) \/ KvGetVersioned(t)
  <2>1. PICK k \in Keys, op \in Reads : ClientCall(t, op, "lookup", {k}, NoDoc, 0, 0)
    BY <1>5 DEF KvGet, KvGetVersioned, Read, Reads
  <2> QED BY <1>1, <2>1 DEF AllOps, Reads, Rebuilds
<1>6. CASE KvDelete(t)
  <2>1. PICK k \in Keys : ClientCall(t, "delete", "deleteIndex", {k}, NoDoc, 0, 0)
    BY <1>6 DEF KvDelete
  <2>2. "delete" \in AllOps \ Rebuilds BY DEF AllOps, Rebuilds
  <2> QED BY <1>1, <2>1, <2>2
<1>7. CASE Purge(t) \/ DbMaintenance(t)
  BY <1>7 DEF NoRebuild, Purge, DbMaintenance
<1> QED BY <1>2, <1>3, <1>4, <1>5, <1>6, <1>7 DEF Begin

\* An exception ends a call that had its effect, and then nothing is learnt of
\* it, or that had none.
LEMMA FailRefines ==
  ASSUME RInv, NEW t \in Threads, Fail(t) PROVE StepOK
<1>1. /\ TInv /\ Simple /\ Return(t) /\ pc[t] # "idle" /\ faults' = faults + 1
      /\ UNCHANGED <<row, bloom, now>>
  BY DEF RInv, Fail
<1>2. loc[t].op # "none"
  BY CallFacts DEF RInv, Fail, CallOK, AtLabel, Reads, WriteOps, Rebuilds
<1>3. calls[t] # Abstract!NoCall /\ calls[t].done = Done(pc[t], loc[t])
  BY <1>1, <1>2, CallOpen
<1>4. \/ UNCHANGED res
      \/ calls[t].done /\ res' = [res EXCEPT ![t] = Abstract!NoRes]
  <2>1. NoRes = Abstract!NoRes BY DEF NoRes, Abstract!NoRes
  <2> QED BY <1>3, <2>1 DEF Fail, Yield, Done
<1>5. Simple' /\ calls' = [calls EXCEPT ![t] = Abstract!NoCall]
  BY <1>1, ReturnView
<1> QED BY <1>1, <1>3, <1>4, <1>5, AbstractRaise DEF StepOK

\* The clock ticks, and a crash loses the calls, in both.
LEMMA OthersRefine ==
  ASSUME RInv, Tick \/ Crash \/ UNCHANGED vars PROVE StepOK
<1>0. Shape /\ Simple BY DEF RInv, TInv
<1>1. CASE Tick
  <2>1. UNCHANGED <<row, bloom, pc, loc, res, faults>> /\ now' = now + 1
    BY <1>1 DEF Tick, history
  <2>2. calls' = calls BY <2>1, Views
  <2>3. Abstract!Tick BY <2>1, <2>2 DEF Abstract!Tick, calls
  <2>4. Simple' BY <1>0, <2>1 DEF Simple
  <2> QED BY <2>3, <2>4 DEF StepOK, Abstract!Next
<1>2. CASE Crash
  <2>1. /\ UNCHANGED <<row, now>>
        /\ pc' = [t \in Threads |-> "idle"] /\ loc' = [t \in Threads |-> NoCall]
        /\ res' = [t \in Threads |-> NoRes]
    BY <1>2 DEF Crash
  <2>2. calls' = [t \in Threads |-> Abstract!NoCall] BY <2>1, Views, ViewIdle
  <2>3. NoRes = Abstract!NoRes BY DEF NoRes, Abstract!NoRes
  <2>4. LiveKeys(now) = {k \in Keys : Abstract!Present(k) /\ ~Abstract!Expired(row[k])}
    <3>1. \A k \in Keys : Live(row[k], now) <=> row[k] # NoDoc /\ ~Abstract!Expired(row[k])
      <4> TAKE k \in Keys
      <4>1. CASE row[k] = NoDoc BY <4>1 DEF Live
      <4>2. CASE row[k] # NoDoc
        <5>1. row[k].exp \in Nat /\ now \in Nat BY <1>0, <4>2 DEF Shape, Row
        <5> QED BY <4>2, <5>1 DEF Live, Abstract!Expired
      <4> QED BY <4>1, <4>2
    <3> QED BY <3>1 DEF LiveKeys, Abstract!Present
  <2>5. \/ bloom' = LiveKeys(now) /\ faults' = faults
        \/ bloom' = {} /\ faults' = faults + 1
    BY <1>2 DEF Crash
  <2>6. Abstract!Crash BY <2>1, <2>2, <2>3, <2>4, <2>5 DEF Abstract!Crash, calls
  <2>7. Simple' BY <2>1 DEF Simple, NoCall
  <2> QED BY <2>6, <2>7 DEF StepOK, Abstract!Next
<1>3. CASE UNCHANGED vars
  <2>1. UNCHANGED <<row, bloom, now, res, pc, loc, faults>> BY <1>3 DEF vars, history
  <2>2. calls' = calls BY <2>1, Views
  <2>3. Simple' BY <1>0, <2>1 DEF Simple
  <2> QED BY <2>1, <2>2, <2>3, AbstractStutter DEF StepOK
<1> QED BY <1>1, <1>2, <1>3

\* Every step of the store is a step of the abstract store or shows nothing.
LEMMA NextRefines ==
  ASSUME KvAssumption, NoRebuild, NoTtl, OneKeyBatches, RInv, [Next]_vars
  PROVE  StepOK
<1>1. ASSUME NEW t \in Threads, ThreadStep(t) PROVE StepOK
  <2>1. CallOK(pc[t], loc[t]) /\ loc[t].op \notin Rebuilds
    BY CallFacts DEF RInv, FInv, Fits
  <2>2. ~(PurgeSelect(t) \/ PurgeIndex(t) \/ PurgeRows(t) \/ RebuildSelect(t)
          \/ RebuildClear(t))
    BY <2>1 DEF PurgeSelect, PurgeIndex, PurgeRows, RebuildSelect, RebuildClear,
                CallOK, AtLabel, Rebuilds
  <2> QED BY <1>1, <2>2, LookupRefines, SelectRefines, UpsertRefines,
             VersionedRefines, AfterEffectRefines, BloomAddRefines, DeleteRefines
          DEF ThreadStep
<1> QED BY <1>1, BeginRefines, FailRefines, OthersRefine DEF Next, Finished

\* The statements of any number of kv_set, kv_get, kv_set_versioned, kv_delete
\* and one-key kv_mset calls interleave in any order, with exceptions and
\* crashes at any of them, and every call still takes effect at one moment
\* between its start and its return, but a read finds nothing under a key that
\* no store has made public: the ImplementsAbstractKv of the runs.
THEOREM KvImplementsAbstract ==
  ASSUME KvAssumption, NoRebuild, NoTtl, OneKeyBatches
  PROVE  Spec => ImplementsAbstractKv
<1>1. Init => Simple /\ Abstract!Init
  <2> SUFFICES ASSUME Init PROVE Simple /\ Abstract!Init OBVIOUS
  <2>1. Simple BY DEF Init, Simple, NoCall
  <2>2. calls = [t \in Threads |-> Abstract!NoCall] BY Views, ViewIdle DEF Init
  <2>3. NoRes = Abstract!NoRes BY DEF NoRes, Abstract!NoRes
  <2> QED BY <2>1, <2>2, <2>3 DEF Init, Abstract!Init, calls
<1>2. TInv /\ FInv /\ Simple /\ [Next]_vars => Simple' /\ [Abstract!Next]_Abstract!vars
  BY NextRefines DEF RInv, StepOK
<1>3. Spec => []TInv BY Typing
<1>4. Spec => []FInv BY FilterInvariant
<1>5. Spec => Abstract!Spec BY <1>1, <1>2, <1>3, <1>4, PTL DEF Spec, Abstract!Spec
<1> QED BY <1>5 DEF ImplementsAbstractKv
=============================================================================
