-------------------------- MODULE MCServerControl --------------------------
(* ServerControl for TLC: two requests, and what each may be for.          *)
EXTENDS ServerControl, TLC

CONSTANTS r1, r2

MCOps == r1 :> {"start", "reinstall", "remove"} @@ r2 :> {"stop", "drop"}
=============================================================================
