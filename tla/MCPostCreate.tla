---------------------------- MODULE MCPostCreate ----------------------------
(* Small instances of PostCreate for TLC. *)
EXTENDS PostCreate, TLC

CONSTANTS d1, d2, d3, p1, p2

\* Two occurrences of one problem and one of another.
MixedIssues == (d1 :> p1) @@ (d2 :> p1) @@ (d3 :> p2)
\* Occurrences of one problem.
OneIssue == [d \in Dirs |-> p1]

Symmetry == Permutations(Servers)
\* With OneIssue, where directories are interchangeable too.
SymmetryAll == Permutations(Servers) \cup Permutations(Dirs)
=============================================================================
