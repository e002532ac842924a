--------------------------- MODULE MCJournalWatch ---------------------------
(***************************************************************************)
(* Small journals: every sequence of up to three kernel lines, of up to    *)
(* four of eight kinds and of up to five of the commonest ones, and of up  *)
(* to five lines of the X server, for one reading, and growing journals    *)
(* with restarts for the watches.                                          *)
(***************************************************************************)
EXTENDS JournalWatch, SequencesExt

CONSTANTS a, b

Once == [follow |-> FALSE, tail |-> FALSE, throttle |-> FALSE]
Follow == [follow |-> TRUE, tail |-> FALSE, throttle |-> FALSE]
FromTail == [Follow EXCEPT !.tail = TRUE]
Slowly == [Follow EXCEPT !.throttle = TRUE]

Start(k, o, l) == [kind |-> k, opt |-> o, log |-> l]

Eight == {"start", "brief", "panic", "frame", "deep", "more", "dump", "end"}
Common == {"start", "frame", "more", "end", "plain"}

MCStarts ==
  {Start("oops", Once, l) : l \in BoundedSeq(KernelLines \ {"mce"}, 3) \cup BoundedSeq(Eight, 4)
                                     \cup BoundedSeq(Common, 5)}
  \cup {Start("xorg", Once, l) : l \in BoundedSeq(XorgLines, 5)}
  \cup {Start("oops", Once, <<"plain", "plain", "plain", "plain", "plain", "start">>)}
  \cup {Start("core", Once, <<a>>)}
  \cup {Start("core", Follow, <<a>>), Start("core", FromTail, <<b>>)}
  \cup {Start("oops", Follow, <<"plain", "start">>), Start("oops", FromTail, <<"plain">>),
         Start("oops", Slowly, <<"start", "end", "start", "end", "start", "end">>)}
  \cup {Start("xorg", Slowly, <<>>)}

MCNewLines ==
  [k \in Kinds |-> CASE k = "core" -> {a, b, "ignored"}
                     [] k = "oops" -> {"start", "mce"}
                     [] k = "xorg" -> {"head", "frame"}]
=============================================================================
