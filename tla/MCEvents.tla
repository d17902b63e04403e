------------------------------ MODULE MCEvents ------------------------------
(* Four listeners: one of all changes that raises, then a mirror, a coroutine *)
(* for the writes of m, and one that listens once to writes and deletes of k. *)
EXTENDS Events, TLC

CONSTANTS a, b, k, m, raiser, copy, task, once

KindOf == raiser :> "raising" @@ copy :> "mirror" @@ task :> "coroutine" @@ once :> "once"
PatternOf == raiser :> {k} @@ copy :> Keys @@ task :> {m} @@ once :> {k}
WorkOf == a :> {"store", "delete"} @@ b :> {"delete", "purge"}
FirstOf == "write" :> <<task, once>> @@ "delete" :> <<once>> @@ "expire" :> <<>>
           @@ "change" :> <<raiser, copy>>
=============================================================================
