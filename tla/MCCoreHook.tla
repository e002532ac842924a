----------------------------- MODULE MCCoreHook -----------------------------
(* Small instances of CoreHook for TLC. *)
EXTENDS CoreHook

CONSTANTS h1, h2, h3

\* Two crashes of one program and one of a program with a shorter name.
TwoPrograms == [h \in Hooks |-> IF h = h3 THEN <<1>> ELSE <<1, 2>>]

\* The second name over the beginning of the first one spells the third.
Confusable == [h \in Hooks |-> CASE h = h1 -> <<1, 2>> [] h = h2 -> <<3>> [] h = h3 -> <<3, 2>>]

AllReasons == {"no_executable", "ignored_path", "the_hook_itself", "abrt_program", "unsupported_signal",
               "user_not_allowed", "low_free_space", "no_directory", "binary_not_saved"}

Off == [hooks |-> Hooks, exe |-> TwoPrograms, size |-> [h \in Hooks |-> 1], usable |-> {TRUE}, images |-> {1}, reasons |-> {}, compat |-> FALSE, full |-> FALSE, binary |-> FALSE, backtrace |-> FALSE,
        standalone |-> FALSE, abrtd |-> FALSE, debug |-> 0, maxReports |-> 0, maxCore |-> 0,
        ulimit |-> 1, clock |-> FALSE, deaths |-> FALSE]

\* The marker: three hooks and a clock that goes both ways; no directories.
MarkerConfigs ==
    {[Off EXCEPT !.clock = TRUE, !.exe = e, !.usable = IF e[h3] = e[h1] THEN BOOLEAN ELSE {TRUE}] : e \in {TwoPrograms, Confusable, [h \in Hooks |-> <<1>>]}}

\* Two core files with all orders of their limits (2, 4 and none), one hook.
CopyConfigs ==
    {[Off EXCEPT !.hooks = {h1}, !.usable = {FALSE}, !.images = {1, 4}, !.reasons = AllReasons, !.compat = TRUE, !.full = f, !.binary = TRUE, !.backtrace = TRUE,
                 !.abrtd = TRUE, !.debug = d, !.maxReports = r, !.maxCore = m, !.ulimit = u] :
        f \in BOOLEAN, d \in {0, 1}, r \in {0, 1}, m \in {0, 1, 2}, u \in {0, 1, 3, 7}}

\* A storm: three hooks that save directories, of which one may not fit at all, trim
\* and may be killed.
StormConfigs ==
    {[Off EXCEPT !.usable = {FALSE}, !.standalone = TRUE, !.reasons = {"no_directory"}, !.abrtd = k, !.maxReports = 1, !.deaths = k, !.size[h3] = n] :
        k \in BOOLEAN, n \in {1, 2}}

AllConfigs == MarkerConfigs \cup CopyConfigs \cup StormConfigs
=============================================================================
