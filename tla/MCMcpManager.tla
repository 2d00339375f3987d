---------------------------- MODULE MCMcpManager ----------------------------
(* One server managed by two coroutines and by close, small enough for TLC. *)
EXTENDS McpManager
=============================================================================
