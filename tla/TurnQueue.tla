----------------------------- MODULE TurnQueue ------------------------------
(***************************************************************************)
(* What abrtd promises the abrt-servers it serialises: a line in which     *)
(* processes wait for one turn.  The turn goes to a process only when no   *)
(* other has it, in the order in which the processes joined; the holder    *)
(* keeps it until it leaves; a process may give up, or be told to give up, *)
(* while it waits; everybody may disappear at once.                        *)
(***************************************************************************)
EXTENDS Naturals, Sequences

CONSTANTS Procs, Nobody

VARIABLES line, turn

InLine == {line[i] : i \in DOMAIN line}

\* The line q without its i-th process.
Dropped(q, i) == [j \in 1..(Len(q) - 1) |-> IF j < i THEN q[j] ELSE q[j + 1]]

Init == line = <<>> /\ turn = Nobody

\* A process that finds nobody in line has the turn at once.
Join(p) ==
    /\ p \notin InLine
    /\ line' = Append(line, p)
    /\ turn' = IF line = <<>> THEN p ELSE turn

\* The holder is done: the next in line has the turn.
Finish ==
    /\ line # <<>>
    /\ turn = Head(line)
    /\ line' = Dropped(line, 1)
    /\ turn' = IF Len(line) > 1 THEN line[2] ELSE Nobody

\* A process gives up before it has the turn.
GiveUp(i) ==
    /\ i \in DOMAIN line
    /\ i > 1
    /\ line' = Dropped(line, i)
    /\ UNCHANGED turn

Collapse ==
    /\ line' = <<>>
    /\ turn' = Nobody

Next ==
    \/ \E p \in Procs : Join(p)
    \/ Finish
    \/ \E i \in DOMAIN line : GiveUp(i)
    \/ Collapse

Spec == Init /\ [][Next]_<<line, turn>>
=============================================================================
