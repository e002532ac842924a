------------------------------ MODULE CoreHook ------------------------------
(***************************************************************************)
(* abrt-hook-ccpp, which the kernel starts for every process that dumps    *)
(* core, with the memory image on its standard input.  Several run at the  *)
(* same time and share the last-ccpp marker of check_recent_crash_file()   *)
(* and the dump location; each has a problem directory and, when           *)
(* MakeCompatCore is on, a core file in the directory of the dead process. *)
(*                                                                         *)
(* The image is the sequence <<1, ..., n>>: what a core file holds is the  *)
(* sequence of the positions written to it.  What the hook collects of     *)
(* /proc is one step.  A directory takes as many blocks as cfg.size says,  *)
(* and fewer for those who look at it before its hook has filled it.       *)
(***************************************************************************)
EXTENDS Naturals, Sequences, FiniteSets

CONSTANTS
    Hooks, NoHook,
    Window,         \* seconds in which a crash is a repeated one
    Configs,        \* the settings: records, see cfg
    PipeSize,       \* F_GETPIPE_SZ
    SizeMax,        \* of size_t
    Mega,           \* 1024 * 1024
    CapSize,        \* blocks that trim_problem_dirs() leaves
    TrimTurns,      \* the most directories that it goes for
    MaxTime         \* bound of the clock

ASSUME HooksAssumption == IsFiniteSet(Hooks) /\ NoHook \notin Hooks
ASSUME SizesAssumption ==
    /\ {Window, PipeSize, SizeMax, Mega, CapSize, TrimTurns} \subseteq Nat \ {0}
    /\ MaxTime \in Nat
ASSUME ConfigsAssumption ==
    \A c \in Configs :
        /\ c.exe \in [Hooks -> Seq(Nat \ {0}) \ {<<>>}]
        /\ c.size \in [Hooks -> Nat]
        /\ c.images \subseteq Nat
        /\ {c.maxReports, c.maxCore, c.ulimit} \subseteq Nat

VARIABLES
    cfg,            \* what does not change: the settings and limits, and of the crashes
                    \* exe (the name of the program, its letters), size (of the directory),
                    \* image sizes, whether the marker is usable and what goes wrong
    pc,             \* where the hook is
    why,            \* why it did not save a directory
    marker,         \* last-ccpp: its text, its time, and whether it is torn, history:
                    \* "half" while the end of a longer text follows the name, "mixed"
                    \* when a hook wrote it while another was not through with it
    stat,           \* when the hook looked at the marker
    passed,         \* when it last touched the marker, history; and
    looked,         \* who had touched it when the hook looked, history
    misled,         \* hooks that took a torn text for their name, history
    image,          \* size of the image
    taken,          \* bytes spliced from standard input
    found,          \* the file in the way of the user core: "none", "old", "foreign"
    ufile,          \* that file now: found, "empty", "core" or "unlinked"
    ufd,            \* user_core_fd >= 0
    user, core,     \* contents of the user core and of the coredump item
    cp,             \* the temporary pipe is open
    flags,          \* what dump_two_core_files() returned
    broken,         \* a write or splice failed, history
    dir,            \* "none", "new", "saved", "gone"
    lock,           \* who has the directory of a hook locked
    backtrace,      \* the core_backtrace item: "none", "some"
    announced,      \* hooks whose directory abrtd was told
    turns,          \* how many more directories the hook goes for
    victim,         \* the one that it is about to delete
    beaten,         \* hooks that ran out of turns since all was last seen to fit, history
    now

markerVars == <<marker, stat, passed, looked, misled>>
userVars == <<found, ufile, ufd, user>>
copyVars == <<image, taken, core, cp, flags, broken>>
dirVars == <<dir, lock, backtrace, announced>>
trimVars == <<turns, victim, beaten>>
vars == <<cfg, pc, why, markerVars, userVars, copyVars, dirVars, trimVars, now>>

Positions(from, to) == [i \in 1 .. to - from |-> from + i]
Minimum(a, b) == IF a < b THEN a ELSE b
Goto(h, l) == pc' = [pc EXCEPT ![h] = l]

\* The limit of the ABRT core: the smaller of the two settings that is not 0, in
\* bytes; 0 is no limit.
abrt_limit ==
    LET r == cfg.maxReports
        c == cfg.maxCore
        l == IF r # 0 /\ (c = 0 \/ r < c) THEN r ELSE c
        bytes == (Mega * l) % (SizeMax + 1)
    IN  IF l # 0 /\ bytes > l THEN bytes ELSE SizeMax

\* The file cannot be opened, or a later check of it fails.
OpenFaults == {"none", "open", "check"}

\* A file that is there must be a regular one of the user with one link, and must
\* not be there at all for a suid program.
MayOpen(f, suid) == f = "none" \/ (f = "old" /\ ~suid)

\* The file is truncated only after the checks; one that was just created stays,
\* empty, when they fail.
open_user_core(h, f, suid, fault) ==
    LET opened == fault = "none" /\ MayOpen(f, suid)
        left == IF f = "none" /\ fault = "check" THEN "empty" ELSE f
    IN  /\ ufd' = [ufd EXCEPT ![h] = opened]
        /\ ufile' = [ufile EXCEPT ![h] = IF opened THEN "core" ELSE left]

\* MakeCompatCore is on and the process may dump core.
WantsUserCore == cfg.compat /\ cfg.ulimit # 0

start(h) ==
    /\ pc[h] = "start" /\ h \in cfg.hooks
    /\ \E f \in {"none", "old", "foreign"}, suid \in BOOLEAN, fault \in OpenFaults, n \in cfg.images :
        /\ found' = [found EXCEPT ![h] = f]
        /\ image' = [image EXCEPT ![h] = n]
        /\ IF WantsUserCore THEN open_user_core(h, f, suid, fault)
           ELSE f = "none" /\ ~suid /\ fault = "none"
                /\ ufile' = [ufile EXCEPT ![h] = f] /\ UNCHANGED ufd
    /\ Goto(h, "exe")
    /\ UNCHANGED <<cfg, why, markerVars, user, taken, core, cp, flags, broken, dirVars, trimVars, now>>
-----------------------------------------------------------------------------
\* Effects of the ways out.  create_user_core() copies the image up to the limit
\* of the process; a splice may fail on the way.
create_user_core(h) ==
    LET all == Minimum(image[h], cfg.ulimit) IN
    \/ /\ ~ufd[h]
       /\ UNCHANGED <<user, ufd, broken>>
    \/ /\ ufd[h]
       /\ \E n \in 0 .. all :
            /\ user' = [user EXCEPT ![h] = Positions(0, n)]
            /\ broken' = IF n = all THEN broken ELSE broken \cup {h}
       /\ ufd' = [ufd EXCEPT ![h] = FALSE]

\* cleanup_and_exit: the directory and the user core, if still open, go.
cleanup_and_exit(h) ==
    /\ dir' = [dir EXCEPT ![h] = IF @ = "new" THEN "gone" ELSE @]
    /\ lock' = [lock EXCEPT ![h] = IF @ = h THEN NoHook ELSE @]
    /\ ufile' = [ufile EXCEPT ![h] = IF ufd[h] THEN "unlinked" ELSE @]
    /\ ufd' = [ufd EXCEPT ![h] = FALSE]

\* Of the reasons that lie outside the hook the configuration says which happen.
Leave(h, reason) ==
    /\ reason \in cfg.reasons \cup {"repeated", "abrtd_is_not_running"}
    /\ Goto(h, "end")
    /\ why' = [why EXCEPT ![h] = reason]

\* main() returns create_user_core().
ReturnUserCore(h, reason) ==
    /\ create_user_core(h)
    /\ Leave(h, reason)
    /\ UNCHANGED <<ufile, dir, lock>>

\* main() ends there and then; an open user core stays as it is.
JustExit(h, reason) ==
    /\ Leave(h, reason)
    /\ UNCHANGED <<user, ufd, broken, ufile, dir, lock>>

CleanUp(h, reason) ==
    /\ cleanup_and_exit(h)
    /\ Leave(h, reason)
    /\ UNCHANGED <<user, broken>>

\* The core of another ABRT program goes to a file that is no directory; after an
\* error the hook ends without cleaning up.
dump_abrt_process(h) == CleanUp(h, "abrt_program") \/ JustExit(h, "abrt_program")

\* The image of the program, if it is wanted, cannot be saved.
save_crashing_binary(h) == cfg.binary /\ CleanUp(h, "binary_not_saved")

\* signal_is_fatal() does not know the signal.
signal_is_not_fatal(h) == ReturnUserCore(h, "unsupported_signal")

low_free_space(h) == cfg.maxReports > 0 /\ ReturnUserCore(h, "low_free_space")

\* The executable: it may be unreadable, ignored (is_path_ignored) or the hook.
look_at_executable(h) ==
    /\ pc[h] = "exe"
    /\ \/ ReturnUserCore(h, "no_executable")
       \/ JustExit(h, "ignored_path")
       \/ JustExit(h, "the_hook_itself")
       \/ Goto(h, "stat") /\ UNCHANGED <<why, user, ufd, broken, ufile, dir, lock>>
    /\ UNCHANGED <<cfg, markerVars, found, image, taken, core, cp, flags, backtrace, announced, trimVars, now>>
-----------------------------------------------------------------------------
\* check_recent_crash_file().  Mutant: the difference has a sign.
RecentSigned == marker.text # <<>> /\ (now < marker.mtime \/ now - marker.mtime < Window)

\* The difference is unsigned: a time in the future is not recent.
Recent == marker.text # <<>> /\ now >= marker.mtime /\ now - marker.mtime < Window

stat_marker(h) ==
    /\ pc[h] = "stat" /\ TRUE \in cfg.usable
    /\ stat' = [stat EXCEPT ![h] = now]
    /\ looked' = [looked EXCEPT ![h] = {g \in Hooks : passed[g].done}]
    /\ Goto(h, IF Recent THEN "read" ELSE "write")
    /\ UNCHANGED <<cfg, why, marker, passed, misled, userVars, copyVars, dirVars, trimVars, now>>

\* strcmp() of the name with one byte more than it has: the text must end there, or
\* have a zero.
Spells(text, name) ==
    LET n == Len(name) IN
    /\ Len(text) >= n /\ \A i \in 1 .. n : text[i] = name[i]
    /\ Len(text) > n => text[n + 1] = 0

read_marker(h) ==
    /\ pc[h] = "read"
    /\ IF Spells(marker.text, cfg.exe[h])
       THEN /\ ReturnUserCore(h, "repeated")
            /\ misled' = IF marker.torn = "no" THEN misled ELSE misled \cup {h}
       ELSE Goto(h, "write") /\ UNCHANGED <<why, user, ufd, broken, ufile, dir, lock, misled>>
    /\ UNCHANGED <<cfg, marker, stat, passed, looked, found, image, taken, core, cp, flags, backtrace, announced,
                   trimVars, now>>

\* The marker cannot be opened or written: the crash is taken for a new one.
no_marker(h) ==
    /\ pc[h] \in {"stat", "write"} /\ FALSE \in cfg.usable
    /\ Goto(h, "checks")
    /\ UNCHANGED <<cfg, why, markerVars, userVars, copyVars, dirVars, trimVars, now>>

\* Nothing locks the marker: another hook may be between its two steps.
Writing == {g \in Hooks : pc[g] = "truncate"}

\* The name is written over the beginning of the old text ...
write_marker(h) ==
    LET name == cfg.exe[h]
        old == marker.text
    IN  /\ pc[h] = "write"
        /\ marker' = [text |-> name \o SubSeq(old, Len(name) + 1, Len(old)), mtime |-> now,
                      torn |-> IF Writing # {} THEN "mixed" ELSE IF Len(old) > Len(name) THEN "half" ELSE "no"]
        /\ passed' = [passed EXCEPT ![h] = [done |-> TRUE, at |-> now]]
        /\ stat' = [stat EXCEPT ![h] = 0] /\ looked' = [looked EXCEPT ![h] = {}]
        /\ Goto(h, "truncate")
        /\ UNCHANGED <<cfg, why, misled, userVars, copyVars, dirVars, trimVars, now>>

\* ... and what is left of that is cut off; a text that another hook made shorter
\* meanwhile is filled with zeros.
truncate_marker(h) ==
    /\ pc[h] = "truncate"
    /\ marker' = [text |-> [i \in 1 .. Len(cfg.exe[h]) |-> IF i <= Len(marker.text) THEN marker.text[i] ELSE 0],
                  mtime |-> now, torn |-> IF marker.torn = "mixed" THEN "mixed" ELSE "no"]
    /\ passed' = [passed EXCEPT ![h] = [done |-> TRUE, at |-> now]]
    /\ looked' = [g \in Hooks |-> looked[g] \ {h}]
    /\ Goto(h, "checks")
    /\ UNCHANGED <<cfg, why, stat, misled, userVars, copyVars, dirVars, trimVars, now>>
-----------------------------------------------------------------------------
\* The other reasons not to save the crash, in the order of main(), the crash of
\* another ABRT program, and dd_create().
look_at_crash(h) ==
    /\ pc[h] = "checks"
    /\ \/ /\ cfg.debug = 0 /\ CleanUp(h, "abrt_program")
       \/ signal_is_not_fatal(h)
       \/ /\ ~cfg.standalone /\ ~cfg.abrtd /\ ReturnUserCore(h, "abrtd_is_not_running")
       \/ /\ cfg.standalone \/ cfg.abrtd
          /\ \/ JustExit(h, "user_not_allowed")
             \/ low_free_space(h)
             \/ cfg.debug # 0 /\ dump_abrt_process(h)
             \/ ReturnUserCore(h, "no_directory")
             \/ /\ dir' = [dir EXCEPT ![h] = "new"]
                /\ lock' = [lock EXCEPT ![h] = h]
                /\ Goto(h, "collect")
                /\ UNCHANGED <<why, user, ufd, broken, ufile>>
    /\ UNCHANGED <<cfg, markerVars, found, image, taken, core, cp, flags, backtrace, announced, trimVars, now>>

\* What /proc has about the process is saved, whichever of it can be read.
collect_items(h) ==
    /\ pc[h] = "collect"
    /\ \/ save_crashing_binary(h)
       \/ Goto(h, "copy") /\ UNCHANGED <<why, user, ufd, broken, ufile, dir, lock>>
    /\ UNCHANGED <<cfg, markerVars, found, image, taken, core, cp, flags, backtrace, announced, trimVars, now>>

\* The image goes to the user core only, to the coredump only, or to both.
save_core(h) ==
    /\ pc[h] = "copy"
    /\ \/ \* SaveFullCore is off, or the item cannot be made
          /\ create_user_core(h)
          /\ Goto(h, "unwind")
          /\ UNCHANGED <<why, ufile, dir, lock, core, cp>>
       \/ \* splice_entire_per_partes() into the item
          /\ cfg.full /\ ~ufd[h]
          /\ \E n \in 0 .. Minimum(image[h], abrt_limit) :
                /\ core' = [core EXCEPT ![h] = Positions(0, n)]
                /\ broken' = IF n = Minimum(image[h], abrt_limit) THEN broken ELSE broken \cup {h}
          /\ Goto(h, "unwind")
          /\ UNCHANGED <<why, user, ufd, ufile, dir, lock, cp>>
       \/ /\ cfg.full /\ ufd[h]
          /\ \E made \in BOOLEAN :
                /\ cp' = [cp EXCEPT ![h] = made]
                /\ broken' = IF made THEN broken ELSE broken \cup {h}
          /\ Goto(h, "tee")
          /\ UNCHANGED <<why, user, ufd, ufile, dir, lock, core>>
    /\ UNCHANGED <<cfg, markerVars, found, image, taken, flags, backtrace, announced, trimVars, now>>
-----------------------------------------------------------------------------
\* dump_two_core_files().  The file with the larger limit gets what is spliced.
\* Mutant: it is always the user's.
UserSpliced == TRUE

UserIsSpliced == ~(abrt_limit > cfg.ulimit)

SplicedLimit == IF UserIsSpliced THEN cfg.ulimit ELSE abrt_limit
TeedLimit == IF UserIsSpliced THEN abrt_limit ELSE cfg.ulimit
Spliced(h) == IF UserIsSpliced THEN user[h] ELSE core[h]
Teed(h) == IF UserIsSpliced THEN core[h] ELSE user[h]

Files(h, spliced, teed) ==
    /\ user' = [user EXCEPT ![h] = IF UserIsSpliced THEN spliced ELSE teed]
    /\ core' = [core EXCEPT ![h] = IF UserIsSpliced THEN teed ELSE spliced]

\* The end of the loop.  Which flag is set depends on where the compiler put the
\* two limits: the code compares their addresses.
copied(h, open) ==
    /\ \E r \in {"ABRT", "USER"} : flags' = [flags EXCEPT ![h] = IF open THEN {} ELSE {r}]
    /\ cp' = [cp EXCEPT ![h] = FALSE]
    /\ ufd' = [ufd EXCEPT ![h] = FALSE]
    /\ Goto(h, "unwind")

\* The pipe is given up when tee() or the splice of the copy fails, and when the
\* file that gets the copy is full.
PipeStays(h, n, fault) == cp[h] /\ fault = "none" /\ Len(Teed(h)) + n < TeedLimit

\* One turn: tee() copies what is in the pipe, at most its size and at least one
\* byte, to the temporary pipe, then that much is spliced to the one file and to
\* the other, unless it is full.
tee_and_splice(h) ==
    LET rest == image[h] - taken[h] IN
    /\ pc[h] = "tee"
    /\ \E got \in 0 .. Minimum(PipeSize, rest), fault \in {"none", "tee", "splice"} :
        /\ got = 0 <=> rest = 0
        /\ fault # "none" => cp[h]
        /\ IF cp[h] /\ fault # "tee" /\ rest = 0
           THEN copied(h, TRUE) /\ UNCHANGED <<user, core, taken, broken>>
           ELSE LET teed == cp[h] /\ fault # "tee"
                    want == IF teed THEN got ELSE Minimum(PipeSize, rest)
                    s == Minimum(want, SplicedLimit - Len(Spliced(h)))
                    c == IF teed THEN Minimum(want, TeedLimit - Len(Teed(h))) ELSE 0
                IN  \E t \in (IF fault = "splice" THEN 0 .. c ELSE {c}) :
                    /\ Files(h, Spliced(h) \o Positions(taken[h], taken[h] + s),
                                Teed(h) \o Positions(taken[h], taken[h] + t))
                    /\ taken' = [taken EXCEPT ![h] = @ + s]
                    /\ broken' = IF fault = "none" THEN broken ELSE broken \cup {h}
                    /\ IF s = 0 \/ Len(Spliced(h)) + s >= SplicedLimit
                       THEN copied(h, PipeStays(h, t, fault))
                       ELSE /\ cp' = [cp EXCEPT ![h] = PipeStays(h, t, fault)]
                            /\ UNCHANGED <<flags, ufd, pc>>
    /\ UNCHANGED <<cfg, why, markerVars, found, ufile, image, dirVars, trimVars, now>>
-----------------------------------------------------------------------------
\* create_core_backtrace(): a child writes the item; after a failure an empty item
\* is deleted, but one with something in it is kept.
create_core_backtrace(h) ==
    /\ pc[h] = "unwind"
    /\ \E b \in {"none", "some"} :
        backtrace' = [backtrace EXCEPT ![h] = IF cfg.backtrace THEN b ELSE "none"]
    /\ Goto(h, "close")
    /\ UNCHANGED <<cfg, why, markerVars, userVars, copyVars, dir, lock, announced, trimVars, now>>

\* Mutant: the lock is kept.
CloseLater(h) ==
    /\ pc[h] = "close"
    /\ Goto(h, "rename")
    /\ UNCHANGED <<cfg, why, markerVars, userVars, copyVars, dirVars, trimVars, now>>

\* dd_close() before the trimming, or two hooks would wait for each other.
close_directory(h) ==
    /\ pc[h] = "close"
    /\ lock' = [lock EXCEPT ![h] = NoHook]
    /\ Goto(h, "rename")
    /\ UNCHANGED <<cfg, why, markerVars, userVars, copyVars, dir, backtrace, announced, trimVars, now>>

\* The directory loses ".new"; it may be gone already.
rename_directory(h) ==
    /\ pc[h] = "rename"
    /\ dir' = [dir EXCEPT ![h] = IF @ = "new" THEN "saved" ELSE @]
    /\ announced' = IF cfg.abrtd THEN announced \cup {h} ELSE announced
    /\ Goto(h, IF cfg.maxReports > 0 THEN "trim" ELSE "end")
    /\ UNCHANGED <<cfg, why, markerVars, userVars, copyVars, lock, backtrace, trimVars, now>>

Present == {g \in Hooks : dir[g] \in {"new", "saved"}}

\* Those whose size is not yet what it will be.
Unfinished == {g \in Hooks : pc[g] \in {"collect", "copy", "tee", "unwind"}}

Blocks(D) == UNION {{<<g, i>> : i \in 1 .. cfg.size[g]} : g \in D}

\* Mutant: the directory to spare is not counted.
TooLargeWithout(h, D) == Cardinality(Blocks(D \ {h})) > CapSize

TooLarge(h, D) == Cardinality(Blocks(D)) > CapSize

Candidates(h) == Present \ {h}

\* trim_problem_dirs(): while there are turns, the directories are too large and there
\* is one to delete, the worst is picked; which one that is depends on sizes and ages.
trim_problem_dirs(h) ==
    /\ pc[h] = "trim"
    /\ \/ /\ turns[h] = 0
          /\ Goto(h, "end") /\ beaten' = beaten \cup {h}
          /\ UNCHANGED <<turns, victim>>
       \/ \E part \in SUBSET Unfinished :
          /\ turns[h] > 0
          /\ \/ /\ ~TooLarge(h, Present \ part)
                /\ Goto(h, "end") /\ beaten' = {}
                /\ UNCHANGED <<turns, victim>>
             \/ /\ TooLarge(h, Present \ part) /\ Candidates(h) = {}
                /\ Goto(h, "end")
                /\ UNCHANGED trimVars
             \/ /\ TooLarge(h, Present \ part)
                /\ \E g \in Candidates(h) : victim' = [victim EXCEPT ![h] = g]
                /\ turns' = [turns EXCEPT ![h] = @ - 1]
                /\ Goto(h, "delete") /\ UNCHANGED beaten
    /\ UNCHANGED <<cfg, why, markerVars, userVars, copyVars, dirVars, now>>

\* delete_dump_dir() waits for the lock of what was picked, whoever has it.  The
\* directory may be gone by then, or have another name, or not let itself be deleted.
delete_dump_dir(h) ==
    /\ pc[h] = "delete" /\ lock[victim[h]] = NoHook
    /\ \E gone \in BOOLEAN : dir' = [dir EXCEPT ![victim[h]] = IF gone THEN "gone" ELSE @]
    /\ victim' = [victim EXCEPT ![h] = h]
    /\ Goto(h, "trim")
    /\ UNCHANGED <<cfg, why, markerVars, userVars, copyVars, lock, backtrace, announced, turns, beaten, now>>

\* The hook is killed; its lock is then taken for stale.
die(h) ==
    /\ cfg.deaths
    /\ pc[h] \notin {"start", "end", "dead"}
    /\ Goto(h, "dead")
    /\ lock' = [g \in Hooks |-> IF lock[g] = h THEN NoHook ELSE lock[g]]
    /\ UNCHANGED <<cfg, why, markerVars, userVars, copyVars, dir, backtrace, announced, trimVars, now>>

\* Time passes, or the clock is set back.
Tick ==
    /\ cfg.clock
    /\ \/ now < MaxTime /\ now' = now + 1
       \/ now > 0 /\ now' = now - 1
    /\ UNCHANGED <<cfg, pc, why, markerVars, userVars, copyVars, dirVars, trimVars>>
-----------------------------------------------------------------------------
Init ==
    /\ cfg \in Configs
    /\ pc = [h \in Hooks |-> "start"]
    /\ why = [h \in Hooks |-> "none"]
    /\ marker = [text |-> <<>>, mtime |-> 0, torn |-> "no"]
    /\ stat = [h \in Hooks |-> 0]
    /\ passed = [h \in Hooks |-> [done |-> FALSE, at |-> 0]]
    /\ looked = [h \in Hooks |-> {}]
    /\ misled = {}
    /\ image = [h \in Hooks |-> 0]
    /\ taken = [h \in Hooks |-> 0]
    /\ found = [h \in Hooks |-> "none"]
    /\ ufile = [h \in Hooks |-> "none"]
    /\ ufd = [h \in Hooks |-> FALSE]
    /\ user = [h \in Hooks |-> <<>>]
    /\ core = [h \in Hooks |-> <<>>]
    /\ cp = [h \in Hooks |-> FALSE]
    /\ flags = [h \in Hooks |-> {}]
    /\ broken = {}
    /\ dir = [h \in Hooks |-> "none"]
    /\ lock = [h \in Hooks |-> NoHook]
    /\ backtrace = [h \in Hooks |-> "none"]
    /\ announced = {}
    /\ turns = [h \in Hooks |-> TrimTurns] /\ victim = [h \in Hooks |-> h] /\ beaten = {}
    /\ now = 0

Hook(h) ==
    \/ look_at_executable(h)
    \/ stat_marker(h) \/ read_marker(h) \/ no_marker(h) \/ write_marker(h) \/ truncate_marker(h)
    \/ look_at_crash(h)
    \/ collect_items(h) \/ save_core(h) \/ tee_and_splice(h)
    \/ create_core_backtrace(h)
    \/ close_directory(h) \/ rename_directory(h)
    \/ trim_problem_dirs(h) \/ delete_dump_dir(h)

Next ==
    \/ \E h \in Hooks : start(h) \/ Hook(h) \/ die(h)
    \/ Tick

Spec == Init /\ [][Next]_vars

\* The kernel schedules the hooks and feeds their standard input.
FairSpec == Spec /\ \A h \in Hooks : WF_vars(Hook(h))
-----------------------------------------------------------------------------
\* A crash is ignored as a repeated one only if another crash of the same program
\* touched the marker less than Window before, or since: neither the marker of another
\* program, nor one of the future, nor crashes that were ignored themselves keep a
\* program from being dumped (check_recent_crash_file.c:36).  One exception is the
\* code's own: nothing locks the marker, and a text of which one hook wrote the
\* beginning and another the end may spell a third name (53-55).
RepeatedOnly ==
    \A h \in Hooks \ misled :
        why[h] = "repeated" =>
            \E g \in Hooks \ {h} :
                /\ cfg.exe[g] = cfg.exe[h] /\ passed[g].done
                /\ \/ g \notin looked[h]
                   \/ passed[g].at <= stat[h] /\ stat[h] - passed[g].at < Window

\* However the image comes in pieces and whichever limit is larger, each core file
\* that was written without an error holds the image from its start up to its
\* limit, no byte missing and none twice; a user core that is still there is
\* complete unless the crash was not to be looked at.  When dump_two_core_files()
\* reports no failure both hold all of it.  A file in the way that is not the
\* user's own is left alone on any way out (abrt-hook-ccpp.c:262 "Do not O_TRUNC:
\* if later checks fail, we do not want to have file already modified here"); one that
\* open_user_core() made before a check failed stays empty and is no core.
CoresWhole ==
    \A h \in Hooks :
        /\ pc[h] \in {"unwind", "close", "rename", "trim", "delete", "end"} =>
            /\ h \notin broken =>
                /\ core[h] \in {<<>>, Positions(0, Minimum(image[h], abrt_limit))}
                /\ ufile[h] = "core" =>
                    \/ user[h] = Positions(0, Minimum(image[h], cfg.ulimit))
                    \/ why[h] \in {"ignored_path", "the_hook_itself", "user_not_allowed", "abrt_program"}
            /\ flags[h] = {} /\ core[h] # <<>> /\ user[h] # <<>> =>
                core[h] = Positions(0, image[h]) /\ user[h] = core[h]
        /\ found[h] = "foreign" => ufile[h] = "foreign"

\* When all hooks of a storm of crashes are through, what they left fits
\* (abrt-hook-ccpp.c:1476 "abrt going crazy when crashing process is respawned"), or is
\* one directory, which the last of them spared for its own, or somebody tried as often
\* as it may (hooklib.c:66) and nobody has seen it fit since.
StormTrimmed ==
    cfg.maxReports > 0 /\ (\A h \in Hooks : pc[h] \in {"start", "end"})
        => \/ Cardinality(Blocks(Present)) <= CapSize
           \/ Cardinality(Present) <= 1
           \/ beaten # {}

\* No hook waits for ever for the lock of another that waits for it
\* (abrt-hook-ccpp.c:1456 "Classic deadlock").
HookEnds == \A h \in Hooks : pc[h] = "exe" ~> pc[h] \in {"end", "dead"}
=============================================================================
