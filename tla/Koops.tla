------------------------------- MODULE Koops -------------------------------
(***************************************************************************)
(* Finding kernel oopses and X server crashes in log lines:                *)
(* koops_extract_oopses_from_lines() of src/lib/kernel.c and               *)
(* process_xorg_bt() of src/plugins/xorg-utils.c.                          *)
(*                                                                         *)
(* A line is a class of lines the code tells apart.  Kernel lines:         *)
(*   "start"  has a suspicious string; so have "brief", of 14 characters,  *)
(*            "mce", of a string the journal watch filters out, "panic",   *)
(*            the end of a fatal MCE, which counts as a call trace, and    *)
(*            "again", which goes on with a call trace by its form;        *)
(*   "trace"  is "Call Trace:", which begins one and does not go on with   *)
(*            one, "frame" does both, "deep" is one of another log level;  *)
(*   "more"   only goes on with one (registers, "<IRQ>", "Code: "), "stub" *)
(*            too but has 7 characters, "dump" is an "Instruction dump:";  *)
(*   "end"    is the end marker, "plain" is none of them.                  *)
(* Lines of the X server:                                                  *)
(*   "head"   is "Backtrace:", "frame" has a number and a colon, "reason"  *)
(*            has an address or a process, "blank" is empty, "other".      *)
(* Both scanners are loops over the lines with a few variables; here they  *)
(* are functions that give these variables after a number of turns, and    *)
(* return the sequence of the ranges <<first line, last line>> that become *)
(* problems.                                                               *)
(***************************************************************************)
EXTENDS Naturals, Sequences, FiniteSets, FiniteSetsExt

CONSTANTS LookAhead,    \* lines after a start in which the end marker counts
          TooLong,      \* an oops with more lines is cancelled
          OneLine,      \* an oops has this many lines to show a call trace
          MaxFrames     \* the frames of an X backtrace, one more ends it

ASSUME KoopsAssumption ==
  /\ {LookAhead, TooLong, OneLine, MaxFrames} \subseteq Nat \ {0}
  /\ 1 < OneLine /\ OneLine < TooLong

KernelLines == {"start", "brief", "mce", "panic", "again", "trace", "frame", "deep",
                "more", "stub", "dump", "end", "plain"}
XorgLines == {"head", "frame", "reason", "blank", "other"}

suspicious_line(l) == l \in {"start", "brief", "mce", "panic", "again"}
\* What a call trace begins with, and what it goes on with.
Begins(l) == l \in {"trace", "panic", "frame", "deep"}
Continues(l) == l \in {"frame", "deep", "more", "stub", "dump", "again"}
Level(l) == IF l = "deep" THEN 1 ELSE 0

\* Short oopses are dropped: one or two short lines are not enough.
TooShort(lines, a, b) == b <= a + 1 /\ \A j \in a..b : lines[j] \in {"brief", "stub"}
record_oops(lines, found, a, b) ==
  IF TooShort(lines, a, b) THEN found ELSE Append(found, <<a, b>>)

\* The end marker near a start, which the scan jumps to.
Markers(lines, i) ==
  {k \in (i + 1)..Min({Len(lines), i + LookAhead}) : lines[k] = "end"}

\* A call trace goes on with lines of its kind, not too short and of the same
\* log level, until an instruction dump, which still belongs to it, or the end
\* marker, or a line that could start another oops.
Breaks(line, level, prev) == ~Continues(line) \/ line = "stub" \/ level # prev
Over(line, level, prev) ==
  Breaks(line, level, prev) \/ line \in {"dump", "end"} \/ suspicious_line(line)
Inclusive(line, level, prev) == ~Breaks(line, level, prev) /\ line = "dump"

(***************************************************************************)
(* The loop: i is the line, st the first line of the oops or 0, bt whether *)
(* its call trace was seen, prev the log level of the line before.  The    *)
(* line that ends an oops is consumed with it, even if it starts another.  *)
(***************************************************************************)
Ranges == Seq(Nat \X Nat)
OopsStates ==
  {s \in [i : Nat \ {0}, st : Nat, bt : BOOLEAN, prev : 0..1, found : Ranges] : s.st = 0 => ~s.bt}
NoOops == [i |-> 1, st |-> 0, bt |-> FALSE, prev |-> 0, found |-> <<>>]

AfterNoCancel(i, st, bt) ==
  IF st # 0 /\ ~bt /\ i - st > OneLine THEN "one_line" ELSE "go_on"
AfterLine(i, st, bt) ==
  IF st # 0 /\ i - st > TooLong THEN "cancel"
  ELSE IF st # 0 /\ ~bt /\ i - st > OneLine THEN "one_line" ELSE "go_on"

oops_line(lines, s) ==
  LET starts == s.st = 0 /\ suspicious_line(lines[s.i])
      ends   == IF starts THEN Markers(lines, s.i) ELSE {}
      at     == IF ends = {} THEN s.i ELSE Min(ends)
      first  == IF starts THEN s.i ELSE s.st
      inside == s.bt \/ ends # {}
      level  == Level(lines[at])
      over   == first # 0 /\ inside /\ Over(lines[s.i], level, s.prev)
      last   == IF Inclusive(lines[s.i], level, s.prev) THEN at ELSE at - 1
      enters == first # 0 /\ ~inside /\ Begins(lines[s.i])
      st2    == IF over THEN 0 ELSE first
      bt2    == ~over /\ (inside \/ enters)
      after  == AfterLine(at + 1, st2, bt2)
  IN  [i     |-> at + 1,
       st    |-> IF after = "go_on" THEN st2 ELSE 0,
       bt    |-> after = "go_on" /\ bt2,
       prev  |-> level,
       found |-> IF over THEN record_oops(lines, s.found, first, last)
                 ELSE IF after = "one_line" THEN record_oops(lines, s.found, st2, st2)
                 ELSE s.found]

oops_step(lines, s) == IF s.i > Len(lines) THEN s ELSE oops_line(lines, s)

\* The variables after k turns; no scan needs more turns than there are lines.
oops_loop(lines) ==
  LET turn == [s \in OopsStates |-> oops_step(lines, s)]
      loop[k \in Nat] == IF k = 0 THEN NoOops ELSE turn[loop[k - 1]]
  IN  loop

koops_extract_oopses_from_lines(lines) ==
  LET s == oops_loop(lines)[Len(lines)]
  IN  IF s.st = 0 THEN s.found
      ELSE record_oops(lines, s.found, s.st, IF s.bt THEN Len(lines) ELSE s.st)

(***************************************************************************)
(* process_xorg_bt() reads on after a "Backtrace:" line, h: k frames so    *)
(* far.  The line that ends a backtrace is consumed; one without a frame   *)
(* is not a crash.                                                         *)
(***************************************************************************)
XorgStates == [i : Nat \ {0}, h : Nat, k : Nat, found : Ranges]
NoXorgBt == [i |-> 1, h |-> 0, k |-> 0, found |-> <<>>]

xorg_crash(s, frames, end) ==
  IF frames > 0 THEN Append(s.found, <<s.h, end>>) ELSE s.found

xorg_line(lines, s) ==
  LET line == lines[s.i] IN
  CASE s.h = 0 /\ line # "head" -> [s EXCEPT !.i = @ + 1]
    [] s.h = 0 /\ line = "head" -> [s EXCEPT !.i = @ + 1, !.h = s.i, !.k = 0]
    [] s.h # 0 /\ line = "blank" -> [s EXCEPT !.i = @ + 1]
    [] s.h # 0 /\ line = "frame" /\ s.k < MaxFrames -> [s EXCEPT !.i = @ + 1, !.k = @ + 1]
    [] OTHER -> [i |-> s.i + 1, h |-> 0, k |-> 0,
                 found |-> xorg_crash(s, IF line = "frame" THEN s.k + 1 ELSE s.k, s.i)]

xorg_step(lines, s) == IF s.i > Len(lines) THEN s ELSE xorg_line(lines, s)

xorg_loop(lines) ==
  LET turn == [s \in XorgStates |-> xorg_step(lines, s)]
      loop[k \in Nat] == IF k = 0 THEN NoXorgBt ELSE turn[loop[k - 1]]
  IN  loop

process_xorg_bt(lines) ==
  LET s == xorg_loop(lines)[Len(lines)]
  IN  IF s.h = 0 THEN s.found ELSE xorg_crash(s, s.k, Len(lines))

(***************************************************************************)
(* What the scanners promise, whatever the lines are.                      *)
(***************************************************************************)
Covered(found) == UNION {found[k][1]..found[k][2] : k \in 1..Len(found)}

(* Oopses come in the order of the log and do not overlap; each starts at  *)
(* a suspicious line and reaches neither past its end marker nor past the  *)
(* limit that cancels long ones.                                           *)
KoopsSound(lines, found) ==
  /\ \A k \in 1..Len(found) :
       /\ found[k][1] <= found[k][2]
       /\ suspicious_line(lines[found[k][1]])
       /\ found[k][2] - found[k][1] <= Max({TooLong, LookAhead})
       /\ \A j \in found[k][1]..found[k][2] : lines[j] # "end" \/ j - found[k][1] > LookAhead
  /\ \A k \in 1..(Len(found) - 1) : found[k][2] < found[k + 1][1]

(* A suspicious line is not passed over in silence: it belongs to an oops, *)
(* or is a short one, or it is the line that ended the oops before it, or  *)
(* it is among the lines in which an earlier one waits for a call trace,   *)
(* or its own call trace went on until the oops was cancelled.             *)
KoopsComplete(lines, found) ==
  \A j \in 1..Len(lines) :
    suspicious_line(lines[j]) /\ j \notin Covered(found) =>
      \/ lines[j] = "brief"
      \/ \E k \in 1..Len(found) : found[k][2] = j - 1
      \/ \E c \in Max({1, j - OneLine})..(j - 1) : suspicious_line(lines[c])
      \/ /\ j + TooLong <= Len(lines)
         /\ \A m \in (j + OneLine + 1)..(j + TooLong) : Continues(lines[m])

(* Every backtrace of the X server with a frame is found, unless its head  *)
(* is the line that ended the backtrace before: one with frames, which was *)
(* found, or one of which only empty lines were read so far.               *)
XorgComplete(lines, found) ==
  \A j \in 1..(Len(lines) - 1) :
    lines[j] = "head" /\ lines[j + 1] = "frame" =>
      \/ \E k \in 1..Len(found) : found[k][1] = j
      \/ \E k \in 1..Len(found) : found[k][2] = j
      \/ \E h \in 1..(j - 1) :
           /\ lines[h] = "head" /\ \A k \in 1..Len(found) : found[k][2] # h
           /\ \A m \in (h + 1)..(j - 1) : lines[m] = "blank"
=============================================================================
