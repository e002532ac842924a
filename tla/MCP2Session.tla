---------------------------- MODULE MCP2Session ----------------------------
(* Small instances of P2Session for TLC. *)
EXTENDS P2Session, TLC

CONSTANTS c1, c2, c3, c4, user

\* Three clients of a user and one of root.
TwoUsers == [c \in Clients |-> IF c = c4 THEN Root ELSE user]

Symmetry == Permutations({c1, c2, c3}) \cup Permutations(Requests) \cup Permutations(Tokens)
=============================================================================
