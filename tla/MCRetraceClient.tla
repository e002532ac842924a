-------------------------- MODULE MCRetraceClient --------------------------
(***************************************************************************)
(* Two clients.  The scenarios pair them on one directory and on two, on a  *)
(* kernel crash, as creator and inquirer, and against servers that lack    *)
(* something.                                                              *)
(***************************************************************************)
EXTENDS RetraceClient, TLC

CONSTANTS c1, c2, d1, d2

Batch == [op |-> "batch", dir |-> d1, core |-> FALSE,
          check |-> TRUE, insecure |-> FALSE, target |-> Nobody]
Create == [Batch EXCEPT !.op = "create"]
Debugging == [Create EXCEPT !.check = FALSE, !.insecure = TRUE]
Second == [Batch EXCEPT !.dir = d2]
OwnCore == [Batch EXCEPT !.core = TRUE]
OnlyCore == [OwnCore EXCEPT !.dir = NoDir]
Query == [Batch EXCEPT !.op = "query", !.dir = NoDir, !.target = c1]
NoTarget == [Query EXCEPT !.target = Nobody]

Good == [cert |-> TRUE, xz |-> TRUE, release |-> TRUE, known |-> TRUE,
         unpacked |-> 2, packed |-> 2, slots |-> 1]

User == [there |-> TRUE, files |-> Retrace, size |-> 2]
Kernel == [there |-> TRUE, files |-> {"vmcore"}, size |-> 2]
Absent == [there |-> FALSE, files |-> {}, size |-> 1]

Both(a, b) == (c1 :> a) @@ (c2 :> b)
TwoDirs(a, b, s, k, l) == [cfg |-> Both(a, b), server |-> s, dirs |-> (d1 :> k) @@ (d2 :> l)]
Scene(a, b, s, k) == TwoDirs(a, b, s, k, Absent)

MCScenarios ==
  {Scene(Batch, Batch, Good, User),
   TwoDirs(Batch, Second, Good, User, Kernel),
   Scene(Batch, Debugging, [Good EXCEPT !.cert = FALSE], Kernel),
   Scene(Create, Query, Good, User),
   Scene(OwnCore, Batch, Good, Kernel),
   Scene(OnlyCore, NoTarget, Good, User)}
  \cup {Scene(Batch, Create, s, User) :
         s \in {[Good EXCEPT !.xz = FALSE], [Good EXCEPT !.release = FALSE],
                [Good EXCEPT !.known = FALSE], [Good EXCEPT !.packed = 1],
                [Good EXCEPT !.unpacked = 1], [Good EXCEPT !.cert = FALSE]}}

MCRemovable == {"coredump", "vmcore"}
=============================================================================
