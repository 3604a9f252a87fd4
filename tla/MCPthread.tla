----------------------------- MODULE MCPthread -----------------------------
(* Values of the constants of Pthread for TLC.                             *)
EXTENDS Pthread

(* What a call returned has no influence on later calls.                   *)
State == <<lock, once, key_root>>

=============================================================================
