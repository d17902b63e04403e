--------------------------- MODULE MCKeyMaterial ---------------------------
(* Two threads of the application and the CLI. *)
EXTENDS KeyMaterial, TLC

CONSTANTS app, cli, a, b, c, d

HomeOf == a :> app @@ b :> app @@ c :> cli
WorkOf == a :> {"write"} @@ b :> {"write", "set", "passphrase"} @@ c :> {"write", "rotate"}
=============================================================================
