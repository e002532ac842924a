----------------------------- MODULE MCP2Entry ------------------------------
(* Small instances of P2Entry for TLC. *)
EXTENDS P2Entry, TLC

CONSTANTS n1, n2, n3, user

\* One element of each type.
ThreeTypes == (n1 :> "TXT") @@ (n2 :> "BIGTXT") @@ (n3 :> "BIN")
=============================================================================
