----------------------------- MODULE MCLogDrain -----------------------------
(* One call of each kind next to the maintenance goroutine.                *)
EXTENDS LogDrain
CONSTANTS f1, f2, p1, c1
=============================================================================
