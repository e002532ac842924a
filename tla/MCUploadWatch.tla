--------------------------- MODULE MCUploadWatch ---------------------------
(* Small instances of UploadWatch for TLC. *)
EXTENDS UploadWatch, TLC

CONSTANTS u1, u2, u3, u4, n1

\* Archives with a problem directory of the same name, and plain dump files.
Mixed == [a \in Archives |-> IF a \in {u1, u2, u3} THEN {n1} ELSE {}]

\* The dump location has a directory with the name and the process id that the
\* worker of u3 would use.
Taken == {<<n1, u3>>}
Empty == {}
=============================================================================
