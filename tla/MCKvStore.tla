----------------------------- MODULE MCKvStore -----------------------------
(* Workloads of the KvStore runs. *)
EXTENDS KvProperties, TLC

CONSTANTS k1, k2, v1, v2, a, b, s

\* Work[t][op] from the triples <<t, op, key>> that may happen.
WorkOf(T) == [t \in Threads |-> [op \in AllOps |->
                {k \in Keys : <<t, op, k>> \in T}]]

\* Two symmetric clients: k1 is a versioned counter, k2 is written, read and
\* deleted without versions.
CallsWork == WorkOf({a, b} \X {"create", "update", "getv"} \X {k1}
                    \cup {a, b} \X {"set", "mset", "get", "delete"} \X {k2})
NoTtls == [k \in Keys |-> {0}]
CallsOps == [t \in Threads |-> 2]

\* One writer (a) refreshes a batch of two documents that expire and runs
\* db_maintenance, a reader (b) deletes lazily, the scavenger (s) purges.
TtlWork == WorkOf({a} \X {"mset"} \X {k1, k2} \cup {a} \X {"maint"} \X {k1}
                  \cup {b} \X {"get"} \X {k1} \cup {s} \X {"purge"} \X Keys)
SomeTtls == [k \in Keys |-> IF k = k1 THEN {1} ELSE {}]
TtlOps == [t \in Threads |-> IF t = a THEN 2 ELSE 1]
Clients == Permutations({a, b})
=============================================================================
