--------------------------- MODULE MCAbrtdStartup ---------------------------
(* Small instances of AbrtdStartup for TLC. *)
EXTENDS AbrtdStartup, TLC

Symmetry == Permutations(Daemons)
=============================================================================
