------------------------------ MODULE WorkPool ------------------------------
(***************************************************************************)
(* What abrt-upload-watch promises to those who upload: a pool of workers  *)
(* with a short line before it.  Jobs are looked at in the order in which  *)
(* they come.  One that finds a free worker begins, one that finds none    *)
(* waits, one that finds no place to wait either is refused; a worker that *)
(* is done takes the first in line with it.  A job may fail to begin.  No  *)
(* job is ever in two places, or in none.                                  *)
(***************************************************************************)
EXTENDS Naturals, Sequences, FiniteSets

CONSTANTS Jobs, Workers, Room

VARIABLES
    offered,    \* jobs nobody looked at yet
    line,       \* jobs that wait for a worker
    working,    \* jobs that have a worker
    done,       \* jobs whose worker is gone
    refused, failed

poolVars == <<offered, line, working, done, refused, failed>>

InLine(s) == {s[i] : i \in DOMAIN s}
Known == InLine(offered) \cup InLine(line) \cup working \cup done \cup refused \cup failed

Free == Cardinality(working) < Workers

Init ==
    /\ offered = <<>> /\ line = <<>>
    /\ working = {} /\ done = {} /\ refused = {} /\ failed = {}

Offer(j) ==
    /\ j \notin Known
    /\ offered' = Append(offered, j)
    /\ UNCHANGED <<line, working, done, refused, failed>>

\* Job j gets a worker beside the ones in W, or fails to.
Begin(j, W) ==
    \/ working' = W \cup {j} /\ UNCHANGED failed
    \/ working' = W /\ failed' = failed \cup {j}

\* The next job is looked at: a worker, a place in the line, or neither.
Look ==
    /\ offered # <<>>
    /\ offered' = Tail(offered)
    /\ \/ /\ Free
          /\ Begin(Head(offered), working)
          /\ UNCHANGED <<line, refused>>
       \/ /\ ~Free /\ Len(line) < Room
          /\ line' = Append(line, Head(offered))
          /\ UNCHANGED <<working, failed, refused>>
       \/ /\ ~Free /\ Len(line) >= Room
          /\ refused' = refused \cup {Head(offered)}
          /\ UNCHANGED <<line, working, failed>>
    /\ UNCHANGED done

\* The worker of job j is done, and the first in line is next.
Done(j) ==
    /\ j \in working
    /\ done' = done \cup {j}
    /\ \/ /\ line = <<>>
          /\ working' = working \ {j}
          /\ UNCHANGED <<line, failed>>
       \/ /\ line # <<>>
          /\ line' = Tail(line)
          /\ Begin(Head(line), working \ {j})
    /\ UNCHANGED <<offered, refused>>

Next == Look \/ \E j \in Jobs : Offer(j) \/ Done(j)

Spec == Init /\ [][Next]_poolVars
=============================================================================
