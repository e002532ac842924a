---------------------------- MODULE JournalWatch ----------------------------
(***************************************************************************)
(* The programs that follow the systemd journal and make problems of what  *)
(* they find: abrt-dump-journal-core, abrt-dump-journal-oops and           *)
(* abrt-dump-journal-xorg, on the wrapper of abrt-journal.c.               *)
(*                                                                         *)
(* A behaviour is about one of them, its kind.  The journal is what its    *)
(* filter lets through; it grows while the program runs or is down, and    *)
(* old entries are removed from it.  The program is stopped with SIGTERM,  *)
(* killed and started again; it finds its place by the cursor in its state *)
(* file.  An entry of the core watch is the executable that crashed, or    *)
(* "ignored" for what abrt_journal_core_retrieve_information() turns away. *)
(***************************************************************************)
EXTENDS Koops, Integers

CONSTANTS Exes,          \* executables
          Starts,        \* the kinds, options and first journals to look at
          NewLines,      \* what is appended to the journal, per kind
          MaxLog,        \* bound: entries of the journal
          MaxGrow,       \* bound: entries of a journal that grows
          MaxVacuum,     \* bound: entries removed from the journal
          MaxRuns,       \* bound: how often the program is started
          MaxTime,       \* bound: the clock
          MaxRead,       \* ABRT_JOURNAL_MAX_READ_LINES
          MaxDumped,     \* ABRT_OOPS_MAX_DUMPED_COUNT
          Throttle,      \* -t INT of the core watch
          QueueSize,     \* oq_size
          NoExe

ASSUME WatchAssumption ==
  /\ {MaxRead, MaxDumped, QueueSize, MaxRuns} \subseteq Nat \ {0}
  /\ {MaxLog, MaxGrow, MaxVacuum, MaxTime, Throttle} \subseteq Nat /\ MaxGrow <= MaxLog
  /\ NoExe \notin Exes /\ "ignored" \notin Exes
Kinds == {"core", "oops", "xorg"}
Options == [follow : BOOLEAN, tail : BOOLEAN, throttle : BOOLEAN]
\* What a journal holds, as the filter of each watch lets it through.
LinesOf == [core |-> Exes \cup {"ignored"}, oops |-> KernelLines, xorg |-> XorgLines]

ASSUME LinesAssumption ==
  /\ Exes \cap (KernelLines \cup XorgLines) = {}
  /\ \A s \in Starts : /\ s.kind \in Kinds /\ s.opt \in Options
                       /\ s.log \in Seq(LinesOf[s.kind]) /\ Len(s.log) <= MaxLog
  /\ \A k \in Kinds : NewLines[k] \subseteq LinesOf[k]

VARIABLES
  kind, opt,   \* the program and its options
  log, oldest, \* the entries of the journal, and the first that is left
  changed,     \* the journal's descriptor is readable
  pos,         \* where sd_journal is: an entry, or a place that was sought
  state,       \* the cursor in the state file, 0: no file or an empty one
  pc,          \* where the program is
  told,        \* s_loop_terminated
  stopped,     \* watch->state is ABRT_JOURNAL_WATCH_STOPPED
  woke,        \* g_abrt_..._sleep_woke_up_on_signal > 0
  lines, base, \* the lines of an extraction and the entry before the first
  found,       \* the problems found in them that are not saved yet
  countdown,   \* of abrt_oops_create_dump_dirs()
  head, queue, \* s_queue: the next slot, and the slots
  runs,        \* how often the program was started
  reports,     \* how many problems each entry has become
  last,        \* when an executable last became a problem in this run
  examined,    \* entries that went through an extraction
  excused,     \* entries given up for a reason the code states
  skipped,     \* entries passed by main() before the watch began
  reread,      \* entries a restart looks at a second time
  unclean      \* the program was killed or has lost its state file

journal == <<log, oldest>>
ghosts == <<reports, last, examined, excused, skipped, reread, unclean>>
throttling == <<head, queue>>
work == <<lines, base, found, countdown>>
flags == <<told, stopped, woke>>
vars == <<kind, opt, journal, changed, pos, state, pc, flags, work, throttling, runs, ghosts>>

At(n) == [n |-> n, sought |-> FALSE]
Sought(n) == [n |-> n, sought |-> TRUE]
Slots == 0..(QueueSize - 1)
EmptySlot == [exe |-> NoExe, stamp |-> 0]

Init ==
  /\ \E s \in Starts : kind = s.kind /\ opt = s.opt /\ log = s.log
  /\ oldest = 1 /\ changed = FALSE
  /\ pos = Sought(1)
  /\ state = 0
  /\ pc = "down"
  /\ told = FALSE /\ stopped = FALSE /\ woke = FALSE
  /\ lines = <<>> /\ base = 0 /\ found = <<>> /\ countdown = 0
  /\ head = -1 /\ queue = [i \in Slots |-> EmptySlot]
  /\ runs = 0
  /\ reports = [i \in 1..MaxLog |-> 0]
  /\ last = [e \in Exes |-> 0]
  /\ examined = {} /\ excused = {} /\ skipped = {} /\ reread = {}
  /\ unclean = FALSE

(***************************************************************************)
(* sd_journal, as abrt-journal.c uses it.                                  *)
(***************************************************************************)
\* sd_journal_next(): the entry it would move to.
NextEntry(p) == Max({oldest, IF p.sought THEN p.n ELSE p.n + 1})
HasNext(p) == NextEntry(p) <= Len(log)
abrt_journal_next(p) == IF HasNext(p) THEN At(NextEntry(p)) ELSE p
\* The place of abrt_journal_seek_tail() is the last entry.
abrt_journal_seek_tail == At(Len(log))
\* A cursor exists only for an entry.
HasCursor(p) == ~p.sought /\ p.n >= 1

Suspicious(l) == IF kind = "oops" THEN l \in {"start", "brief", "panic", "again"} ELSE l = "head"

(***************************************************************************)
(* main(): where to begin.  The core watch restores the position unless -e *)
(* is given and moves on once more; the others restore it always and look  *)
(* at the entry again, which a signal may have kept them from handling.    *)
(***************************************************************************)
Restored == IF state # 0 THEN Sought(state) ELSE Sought(1)
PlaceNextAlways ==
  IF opt.tail /\ state = 0 THEN abrt_journal_seek_tail ELSE abrt_journal_next(Restored)
PlaceNextNever ==
  IF opt.tail /\ (kind = "core" \/ state = 0) THEN abrt_journal_seek_tail ELSE Restored
Place ==
  IF kind = "core"
  THEN IF opt.tail THEN abrt_journal_seek_tail ELSE abrt_journal_next(Restored)
  ELSE IF state # 0 THEN Restored
  ELSE IF opt.tail THEN abrt_journal_seek_tail ELSE Sought(1)

start(once) ==
  /\ pc = "down" /\ runs < (IF once THEN 1 ELSE MaxRuns)
  /\ opt.follow # once
  /\ runs' = runs + 1
  /\ changed' = FALSE
  /\ told' = FALSE /\ stopped' = FALSE /\ woke' = FALSE
  /\ head' = -1 /\ queue' = [i \in Slots |-> EmptySlot]
  /\ last' = [e \in Exes |-> 0]

start_watch ==
  /\ start(FALSE)
  /\ pos' = Place
  /\ pc' = "check"
  /\ skipped' = skipped \cup
                  {i \in oldest..Len(log) :
                     /\ ~Place.sought /\ i <= Place.n
                     /\ state # 0 /\ ~opt.tail => i > state}
  /\ reread' = reread \cup (IF state # 0 /\ Place.sought THEN {state} ELSE {})
  /\ UNCHANGED <<kind, opt, journal, state, work, reports, examined, excused,
                 unclean>>

\* Without -f the journal is read once from the beginning.
start_once ==
  /\ start(TRUE)
  /\ pos' = abrt_journal_next(Sought(1))
  /\ pc' = IF ~HasNext(Sought(1)) THEN "exit" ELSE IF kind = "core" THEN "crash" ELSE "collect"
  /\ UNCHANGED <<kind, opt, journal, state, work, reports, examined, excused,
                 skipped, reread, unclean>>

(***************************************************************************)
(* abrt_journal_watch_run_sync()                                           *)
(***************************************************************************)
\* The flag is looked at here; from here to ppoll() a signal is only noted.
CheckFlagOnly ==
  /\ pc = "check"
  /\ pc' = IF told THEN "leave" ELSE "next"
  /\ UNCHANGED <<kind, opt, journal, changed, pos, state, flags, work,
                 throttling, runs, ghosts>>
check_loop ==
  /\ pc = "check"
  /\ pc' = IF told \/ stopped THEN "leave" ELSE "next"
  /\ UNCHANGED <<kind, opt, journal, changed, pos, state, flags, work,
                 throttling, runs, ghosts>>

iterate ==
  /\ pc = "next"
  /\ pos' = abrt_journal_next(pos)
  /\ pc' = IF HasNext(pos) THEN "callback" ELSE "wait"
  /\ UNCHANGED <<kind, opt, journal, changed, state, flags, work, throttling,
                 runs, ghosts>>

\* ppoll() returns when the journal has changed.
PollStaleJournal ==
  /\ pc = "wait" /\ changed /\ told
  /\ changed' = FALSE
  /\ pc' = "check"
  /\ UNCHANGED <<kind, opt, journal, pos, state, flags, work, throttling, runs,
                 ghosts>>
poll_journal ==
  /\ pc = "wait" /\ changed
  /\ changed' = FALSE
  /\ pc' = "check"
  /\ UNCHANGED <<kind, opt, journal, pos, state, flags, work, throttling, runs,
                 ghosts>>

\* The callback; abrt_journal_watch_notify_strings() looks for a string.
abrt_journal_watch_notify_strings ==
  /\ pc = "callback"
  /\ pc' = IF kind = "core" THEN "crash"
           ELSE IF Suspicious(log[pos.n]) THEN "settle" ELSE "check"
  /\ UNCHANGED <<kind, opt, journal, changed, pos, state, flags, work,
                 throttling, runs, ghosts>>

(***************************************************************************)
(* abrt_journal_watch_cores()                                              *)
(***************************************************************************)
Filled == {i \in Slots : queue[i].exe # NoExe}
SlotOf(e) == {i \in Filled : queue[i].exe = e}

abrt_journal_get_last_occurrence(e) ==
  IF SlotOf(e) = {} THEN 0 ELSE queue[CHOOSE i \in SlotOf(e) : TRUE].stamp

\* An executable that is there keeps its slot, a new one takes the next.
abrt_journal_update_occurrence(e, now) ==
  IF SlotOf(e) # {}
  THEN /\ queue' = [i \in Slots |-> IF i \in SlotOf(e) THEN [exe |-> e, stamp |-> now] ELSE queue[i]]
       /\ head' = head
  ELSE LET h == Max({head, 0})
       IN  /\ queue' = [queue EXCEPT ![h] = [exe |-> e, stamp |-> now]]
           /\ head' = (h + 1) % QueueSize

RepeatedUnsigned(e, now) ==
  LET at == abrt_journal_get_last_occurrence(e)
  IN  now >= at /\ now - at < Throttle
Repeated(e, now) ==
  LET at == abrt_journal_get_last_occurrence(e)
  IN  now < at \/ now - at < Throttle

Saves == IF opt.follow THEN "truncate" ELSE "exit"

ignore_crash(e) ==
  /\ IF e = "ignored" THEN UNCHANGED excused ELSE excused' = excused \cup {pos.n}
  /\ UNCHANGED <<throttling, reports, last>>

save_crash(e, now) ==
  /\ reports' = [reports EXCEPT ![pos.n] = @ + 1]
  /\ last' = [last EXCEPT ![e] = now]
  /\ IF opt.follow THEN abrt_journal_update_occurrence(e, now) ELSE UNCHANGED throttling
  /\ UNCHANGED excused

\* now is time(), which may also have been set back.
abrt_journal_watch_cores ==
  /\ pc = "crash"
  /\ \E now \in Throttle..MaxTime :
       LET e == log[pos.n] IN
       IF e = "ignored" \/ (opt.follow /\ Repeated(e, now))
       THEN ignore_crash(e)
       ELSE save_crash(e, now) \/ ignore_crash(e)
  /\ pc' = Saves
  /\ UNCHANGED <<kind, opt, journal, changed, pos, state, flags, work, runs,
                 examined, skipped, reread, unclean>>

(***************************************************************************)
(* abrt_journal_watch_extract_kernel_oops() and ..._xorg_crashes()         *)
(***************************************************************************)
\* The second in which systemd takes in the other lines is over.
settle ==
  /\ pc = "settle"
  /\ pc' = "collect"
  /\ UNCHANGED <<kind, opt, journal, changed, pos, state, flags, work,
                 throttling, runs, ghosts>>

Extract(s) == IF kind = "oops" THEN koops_extract_oopses_from_lines(s)
              ELSE process_xorg_bt(s)

LastRead == IF kind = "oops" THEN Min({Len(log), pos.n + MaxRead - 1}) ELSE Len(log)

collect ==
  /\ pc = "collect"
  /\ lines' = SubSeq(log, pos.n, LastRead)
  /\ base' = pos.n - 1
  /\ found' = Extract(lines')
  /\ countdown' = MaxDumped
  /\ pos' = At(LastRead)
  /\ woke' = FALSE
  /\ pc' = "process"
  /\ examined' = examined \cup {i \in pos.n..LastRead :
                                 \A k \in 1..Len(found') : i # base' + found'[k][1]}
  /\ UNCHANGED <<kind, opt, journal, changed, state, told, stopped, throttling,
                 runs, reports, last, excused, skipped, reread, unclean>>

Entries(range) == {base + i : i \in range[1]..range[2]}
Given(list) == UNION {Entries(list[k]) : k \in 1..Len(list)}

\* The oops list is cut by the countdown, a failed directory counts in it;
\* a crash of the X server whose directory fails is passed over.
Limited == kind = "oops" /\ countdown = 0

create_dump_dir ==
  /\ pc = "process" /\ found # <<>> /\ ~Limited /\ ~woke
  /\ \E saved \in BOOLEAN :
       /\ reports' = [reports EXCEPT ![base + Head(found)[1]] = @ + (IF saved THEN 1 ELSE 0)]
       /\ found' = IF saved \/ kind = "xorg" THEN Tail(found) ELSE found
       /\ excused' = excused \cup (IF saved \/ kind = "oops" THEN {} ELSE Entries(Head(found)))
       /\ pc' = IF opt.throttle /\ (kind = "xorg" \/ (saved /\ countdown > 1))
                THEN "pause" ELSE "process"
  /\ countdown' = countdown - (IF kind = "oops" THEN 1 ELSE 0)
  /\ UNCHANGED <<kind, opt, journal, changed, pos, state, flags, lines, base,
                 throttling, runs, last, examined, skipped, reread, unclean>>

\* The rest of the list is dropped; after too many oopses there is a delay.
TooMany == kind = "oops" /\ opt.throttle /\ Len(Extract(lines)) > MaxDumped

end_of_list ==
  /\ pc = "process" /\ (found = <<>> \/ Limited \/ woke)
  /\ excused' = excused \cup Given(found)
  /\ found' = <<>>
  /\ pc' = IF TooMany /\ ~woke THEN "delay" ELSE "finish"
  /\ UNCHANGED <<kind, opt, journal, changed, pos, state, flags, lines, base,
                 countdown, throttling, runs, reports, last, examined, skipped,
                 reread, unclean>>

\* The pause of a second after a directory and the delay after a list.
pause ==
  /\ pc \in {"pause", "delay"}
  /\ pc' = IF pc = "pause" THEN "process" ELSE "finish"
  /\ UNCHANGED <<kind, opt, journal, changed, pos, state, flags, work,
                 throttling, runs, ghosts>>

\* The oops watch goes to the end of the journal, past what came meanwhile.
finish_extraction ==
  /\ pc = "finish"
  /\ pos' = IF kind = "oops" /\ opt.follow THEN abrt_journal_seek_tail ELSE pos
  /\ excused' = excused \cup ((pos.n + 1)..pos'.n)
  /\ stopped' = (stopped \/ woke)
  /\ pc' = Saves
  /\ UNCHANGED <<kind, opt, journal, changed, state, told, woke, work,
                 throttling, runs, reports, last, examined, skipped, reread,
                 unclean>>

(***************************************************************************)
(* abrt_journal_save_current_position(): open() empties the file.          *)
(***************************************************************************)
truncate_state ==
  /\ pc \in {"truncate", "leave"}
  /\ IF HasCursor(pos)
     THEN /\ state' = 0
          /\ pc' = IF pc = "leave" THEN "last_write" ELSE "write"
     ELSE /\ UNCHANGED state
          /\ pc' = IF pc = "leave" THEN "exit" ELSE "check"
  /\ UNCHANGED <<kind, opt, journal, changed, pos, flags, work, throttling,
                 runs, ghosts>>

write_state ==
  /\ pc \in {"write", "last_write"}
  /\ state' = pos.n
  /\ pc' = IF pc = "write" THEN "check" ELSE "exit"
  /\ UNCHANGED <<kind, opt, journal, changed, pos, flags, work, throttling,
                 runs, ghosts>>

exit ==
  /\ pc = "exit"
  /\ pc' = "down"
  /\ UNCHANGED <<kind, opt, journal, changed, pos, state, flags, work,
                 throttling, runs, ghosts>>

(***************************************************************************)
(* What happens to the program.                                            *)
(***************************************************************************)
\* SIGTERM: the sleeps take it, ppoll() is woken by it, and elsewhere the
\* handler notes it.
term ==
  /\ opt.follow /\ pc \notin {"down", "exit", "leave", "last_write"}
  /\ ~told /\ ~stopped /\ ~woke
  /\ \/ /\ pc = "settle"
        /\ stopped' = TRUE /\ pc' = "check"
        /\ UNCHANGED <<told, woke>>
     \/ /\ pc \in {"pause", "delay"}
        /\ woke' = TRUE /\ pc' = IF pc = "pause" THEN "process" ELSE "finish"
        /\ UNCHANGED <<told, stopped>>
     \/ /\ pc \notin {"settle", "pause", "delay"}
        /\ told' = TRUE
        /\ pc' = IF pc = "wait" THEN "check" ELSE pc
        /\ UNCHANGED <<stopped, woke>>
  /\ UNCHANGED <<kind, opt, journal, changed, pos, state, work, throttling,
                 runs, ghosts>>

kill ==
  /\ opt.follow /\ pc # "down"
  /\ pc' = "down"
  /\ unclean' = TRUE
  /\ UNCHANGED <<kind, opt, journal, changed, pos, state, flags, work,
                 throttling, runs, reports, last, examined, excused, skipped,
                 reread>>

\* A journal that nobody reads any more is not looked at further.
Observed == opt.follow /\ (pc # "down" \/ runs < MaxRuns)

append(l) ==
  /\ Observed /\ Len(log) < MaxGrow
  /\ log' = Append(log, l)
  /\ changed' = TRUE
  /\ UNCHANGED <<kind, opt, oldest, pos, state, pc, flags, work, throttling,
                 runs, ghosts>>

vacuum ==
  /\ Observed /\ oldest <= Min({Len(log), MaxVacuum})
  /\ pc \notin {"callback", "crash", "settle", "collect"}
  /\ oldest' = oldest + 1
  /\ excused' = excused \cup {oldest}
  /\ changed' = TRUE
  /\ UNCHANGED <<kind, opt, log, pos, state, pc, flags, work, throttling, runs,
                 reports, last, examined, skipped, reread, unclean>>

Step ==
  \/ check_loop \/ iterate \/ poll_journal
  \/ abrt_journal_watch_notify_strings \/ abrt_journal_watch_cores
  \/ settle \/ collect \/ create_dump_dir \/ end_of_list \/ pause
  \/ finish_extraction
  \/ truncate_state \/ write_state \/ exit

Next ==
  \/ start_watch \/ start_once \/ Step
  \/ term \/ kill \/ vacuum
  \/ \E l \in NewLines[kind] : append(l)

Spec == Init /\ [][Next]_vars

\* A program that can go on does; sleeps end.
FairSpec == Spec /\ WF_vars(Step)

(***************************************************************************)
(* Properties                                                              *)
(***************************************************************************)
Notable(i) == i \in 1..Len(log) /\ (log[i] \in Exes \/ Suspicious(log[i]))
Settled(i) == reports[i] > 0 \/ i \in examined \cup excused
\* main() has begun behind the entry: with -e, and the core watch always begins
\* behind one, the last one seen or else the first of the journal.
PassedOver(i) == i \in skipped /\ (opt.tail \/ kind = "core")

(* The position in the state file never runs ahead of the work: all that   *)
(* is before it was handled, given up for a reason the code states, or     *)
(* passed over by main() itself; the core watch has handled the entry of   *)
(* the position too, the others look at that entry again.  A restart, also *)
(* after SIGTERM in the second before an extraction, loses nothing more.   *)
PositionNotAhead ==
  state # 0 =>
    \A i \in 1..Len(log) :
      Notable(i) /\ (i < state \/ (i = state /\ kind = "core")) =>
        Settled(i) \/ PassedOver(i)

(* An entry becomes a problem once, over any number of clean restarts;     *)
(* only the oops and X watches repeat the entry they stopped at.           *)
ReportedOnce ==
  opt.follow /\ ~unclean =>
    \A i \in 1..Len(log) : reports[i] > 1 => kind # "core" /\ i \in reread

(* What the scans find in the lines a watch has collected is sound and     *)
(* complete, in the sense of KoopsSound, KoopsComplete and XorgComplete:   *)
(* no exit of the loops swallows, splits or invents an oops or a crash of  *)
(* the X server.                                                           *)
CrashesFound ==
  /\ kind = "oops" /\ pc = "process" /\ countdown = MaxDumped =>
       KoopsSound(lines, found) /\ KoopsComplete(lines, found)
  /\ kind = "xorg" /\ pc = "process" => XorgComplete(lines, process_xorg_bt(lines))

(* A crash of an executable becomes a problem only when the last one is at *)
(* least the limit ago, also when the clock goes back, unless others have  *)
(* taken all slots of the queue.                                           *)
Forgotten(e) == SlotOf(e) = {} /\ Filled = Slots
ThrottleKept ==
  [][\A e \in Exes :
       opt.follow /\ last[e] # 0 /\ last'[e] \notin {0, last[e]} =>
         last'[e] - last[e] >= Throttle \/ Forgotten(e)]_vars

(* A watch that stays up comes to every entry of the journal, but for the  *)
(* ones that main() passes over: without a saved position the core watch   *)
(* never reads the first entry, although its usage text has it read the    *)
(* entire journal; and no watch but that one skips any unless told with -e.*)
EntriesSettled ==
  \A i \in 1..MaxGrow :
    (i <= Len(log) /\ pc # "down" /\ opt.follow) ~>
      (Settled(i) \/ PassedOver(i) \/ ~Notable(i) \/ pc = "down")

(* A watch that is told to stop stops: always when the signal ended one of *)
(* its sleeps, else unless the signal came between the look at the flag    *)
(* and ppoll() and the journal has not changed since.                      *)
TermEnds ==
  /\ stopped \/ woke ~> pc = "down"
  /\ told ~> pc = "down" \/ (pc = "wait" /\ ~changed)
=============================================================================
