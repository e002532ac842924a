------------------------------ MODULE MCP2Task ------------------------------
(* Small instances of P2Task for TLC. *)
EXTENDS P2Task
=============================================================================
