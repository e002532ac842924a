----------------------------- MODULE PostCreate -----------------------------
(***************************************************************************)
(* How ABRT turns a freshly saved problem directory into a reportable      *)
(* problem: abrtd (src/src/daemon/abrtd.c) forks one abrt-server per       *)
(* client, lets the servers run the "post-create" event one at a time in   *)
(* the order in which they asked, and keeps the dump location below        *)
(* MaxCrashReportsSize; each abrt-server (abrt-server.c) waits for its     *)
(* turn, runs abrt-handle-event (abrt-handle-event.c) on its directory,    *)
(* and either counts the problem or merges it with its duplicate.          *)
(*                                                                         *)
(* A directory is abstracted to: whether it exists, its `count' item,      *)
(* whether it holds the data the duplicate search compares, and the        *)
(* problem it is an occurrence of.  A deletion that fails leaves the       *)
(* directory as it was.  Every directory has size one, so MaxDirs stands   *)
(* for the configured MaxCrashReportsSize (zero: no limit).                *)
(***************************************************************************)
EXTENDS Naturals, Sequences, FiniteSets, FiniteSetsExt

CONSTANTS
    Servers,         \* abrt-server processes (a slot is reused once reaped)
    NoServer,
    Dirs,            \* names of problem directories
    NoDir,
    Issues,          \* what crashed: uid, type, executable and backtrace
    IssueOf,         \* the issue a directory is an occurrence of
    EarlyIssues,     \* issues whose backtrace is saved at crash time
    ProvokedIssues,  \* crashes of ABRT's own event handlers
    UnfitDirs,       \* directories whose owner, group or mode may turn out wrong
    Stubborn,        \* directories that dd_opendir() or dd_delete() may fail on
    Debugging,       \* whether DebugLevel is set: each server reads it anew
    MaxClientCount,  \* MAX_CLIENT_COUNT
    MaxDirs,         \* g_settings_nMaxCrashReportsSize
    MayCrash,        \* whether an abrt-server may die at any point
    MaxRestarts,     \* bound on the restarts of the service
    MaxHooks         \* bound on the hooks that trim at the same time

ASSUME ServersAssumption == NoServer \notin Servers /\ IsFiniteSet(Servers)
ASSUME DirsAssumption    == NoDir \notin Dirs /\ IsFiniteSet(Dirs)
ASSUME IssuesAssumption  == /\ IssueOf \in [Dirs -> Issues]
                            /\ EarlyIssues \subseteq Issues
                            /\ ProvokedIssues \subseteq Issues
ASSUME FaultsAssumption  == /\ UnfitDirs \subseteq Dirs
                            /\ Stubborn \subseteq Dirs
                            /\ Debugging \subseteq BOOLEAN
ASSUME LimitsAssumption  == /\ MaxClientCount \in Nat \ {0}
                            /\ MaxDirs \in Nat
                            /\ MaxRestarts \in Nat /\ MaxHooks \in Nat
                            /\ MayCrash \in BOOLEAN

VARIABLES
    \* abrtd
    s_processes,     \* children not yet reaped
    s_dir_queue,     \* servers in the order they asked to run post-create
    procDir,         \* proc->dirname
    procType,        \* proc->type
    listening,       \* channel_id_socket # 0
    clean,           \* queue_post_craete_process() in progress
    \* abrt-server and the event handler it started
    pc, dir, pipe, sig, outcome,
    event, dupOf,
    orphans,         \* directories of event handlers whose server died
    \* the dump location
    exists, count, hasId,
    \* the environment
    restarts,
    hooks,           \* directories whose hook is still trimming the location
    \* history
    created,         \* names used so far
    processed,       \* directories post-create succeeded on
    discarded,       \* issues a directory of was removed for want of space,
                     \* on request, or because post-create failed
    undeleted        \* directories abrtd or their server failed to delete

abrtdVars  == <<s_processes, s_dir_queue, procDir, procType, listening, clean>>
serverVars == <<pc, dir, pipe, sig, outcome>>
eventVars  == <<event, dupOf, orphans>>
dumpVars   == <<exists, count, hasId>>
envVars    == <<restarts, hooks>>
histVars   == <<created, processed, discarded, undeleted>>
vars == <<abrtdVars, serverVars, eventVars, dumpVars, envVars, histVars>>

-----------------------------------------------------------------------------
(* Helpers *)

RemoveAt(q, i) == [j \in 1..(Len(q) - 1) |-> IF j < i THEN q[j] ELSE q[j + 1]]

\* Mutant: the entry is not removed.
KeepEntry(q, s) == q

\* g_list_remove(s_dir_queue, proc): the queue without its (only) entry for s.
Without(q, s) ==
    IF \E i \in DOMAIN q : q[i] = s
    THEN RemoveAt(q, CHOOSE i \in DOMAIN q : q[i] = s)
    ELSE q

\* No cleaning in progress: abrtd is in its main loop.
Idle == [proc |-> NoServer, hadRunning |-> FALSE, ignored |-> NoDir, victim |-> NoDir]
InMainLoop == clean.ignored = NoDir

Complete(d) == count[d] > 0

\* A directory removed for good, as opposed to being merged into a duplicate.
Discard(d) ==
    /\ exists' = exists \ {d}
    /\ discarded' = IF d \in exists THEN discarded \cup {IssueOf[d]} ELSE discarded

\* dd_opendir() and dd_delete(), which may fail.
Delete(d) ==
    \/ Discard(d) /\ UNCHANGED undeleted
    \/ /\ d \in exists \cap Stubborn
       /\ undeleted' = undeleted \cup {d}
       /\ UNCHANGED <<exists, discarded>>

\* kill(pid, signo) for every process of P; a child that was not waited for can
\* still be signalled.
Signalled(P, signo) == [s \in Servers |-> IF s \in P THEN sig[s] \cup {signo} ELSE sig[s]]

-----------------------------------------------------------------------------
(* abrtd: the main loop's callbacks *)

\* A client connected: fork abrt-server and, at the limit, stop watching the
\* socket.
server_socket_cb(s) ==
    /\ InMainLoop
    /\ listening
    /\ pc[s] = "unused"
    /\ s_processes' = s_processes \cup {s}
    /\ listening' = (Cardinality(s_processes') < MaxClientCount)
    /\ procDir' = [procDir EXCEPT ![s] = NoDir]
    /\ procType' = [procType EXCEPT ![s] = "UNKNOWN"]
    /\ pc' = [pc EXCEPT ![s] = "request"]
    /\ UNCHANGED <<s_dir_queue, clean, envVars, dir, pipe, sig, outcome,
                   eventVars, dumpVars, histVars>>

\* The process that gets the turn, if any, when the queue is q.  kill() cannot
\* fail, so the loop ends at the first process: abrtd drops a child from the
\* queue in the step that reaps it.
notify_next_post_create_process(q) ==
    IF q # <<>> /\ procType[Head(q)] # "POST_CREATE" THEN {Head(q)} ELSE {}

PassTurn(q) ==
    LET turn == notify_next_post_create_process(q) IN
    /\ sig' = Signalled(turn, "USR1")
    /\ procType' = [s \in Servers |-> IF s \in turn THEN "POST_CREATE" ELSE procType[s]]

\* A NEW_PROBLEM_DETECTED line: remember the directory and start
\* queue_post_craete_process(), up to its loop.
abrt_server_output_cb(s) ==
    /\ InMainLoop
    /\ s \in s_processes
    /\ s \in pipe
    /\ pipe' = pipe \ {s}
    /\ procDir' = [procDir EXCEPT ![s] = dir[s]]
    /\ clean' = [proc       |-> s,
                 hadRunning |-> s_dir_queue # <<>>,
                 ignored    |-> IF s_dir_queue # <<>> THEN procDir[Head(s_dir_queue)]
                                                      ELSE dir[s],
                 victim     |-> NoDir]
    /\ UNCHANGED <<s_processes, s_dir_queue, procType, listening, envVars, pc, dir, sig,
                   outcome, eventVars, dumpVars, histVars>>

\* The pipe hung up: whatever is still in it is never read.
abrt_server_output_hup(s) ==
    /\ InMainLoop
    /\ pc[s] = "exited"
    /\ s \in pipe
    /\ pipe' = pipe \ {s}
    /\ UNCHANGED <<abrtdVars, envVars, pc, dir, sig, outcome, eventVars, dumpVars, histVars>>

\* The dump location is too large and there is something to delete.
TooLarge == /\ MaxDirs > 0
            /\ Cardinality(exists) >= MaxDirs
            /\ exists \ {clean.ignored} # {}

\* One turn of the cleaning loop starts with d as the worst directory and ends
\* with its deletion, abrtd being busy in between: d is the new directory,
\* whose process is told to give up, ...
Worst(d) == /\ ~InMainLoop
            /\ clean.victim = NoDir
            /\ TooLarge
            /\ d \in exists \ {clean.ignored}

IsNew(d) == clean.proc # NoServer /\ procDir[clean.proc] = d

\* Mutant: the process told to give up is queued all the same.
CleanNewDirKeepProc(d) ==
    /\ Worst(d)
    /\ IsNew(d)
    /\ sig' = Signalled({clean.proc}, "INT")
    /\ clean' = [clean EXCEPT !.victim = d]
    /\ UNCHANGED <<s_processes, s_dir_queue, procDir, procType, listening, envVars, pc,
                   dir, pipe, outcome, eventVars, dumpVars, histVars>>

\* Mutant: ... or dropped without being told.
CleanNewDirSilently(d) ==
    /\ Worst(d)
    /\ IsNew(d)
    /\ clean' = [clean EXCEPT !.proc = NoServer, !.victim = d]
    /\ UNCHANGED <<s_processes, s_dir_queue, procDir, procType, listening, envVars,
                   serverVars, eventVars, dumpVars, histVars>>

clean_new_dir(d) ==
    /\ Worst(d)
    /\ IsNew(d)
    /\ sig' = Signalled({clean.proc}, "INT")
    /\ clean' = [clean EXCEPT !.proc = NoServer, !.victim = d]
    /\ UNCHANGED <<s_processes, s_dir_queue, procDir, procType, listening, envVars, pc, dir,
                   pipe, outcome, eventVars, dumpVars, histVars>>

\* ... an unprocessed one, whose (first) process leaves the queue, ...
clean_unprocessed_dir(d, i) ==
    /\ Worst(d)
    /\ ~IsNew(d)
    /\ i \in DOMAIN s_dir_queue
    /\ procDir[s_dir_queue[i]] = d
    /\ \A j \in 1..(i - 1) : procDir[s_dir_queue[j]] # d
    /\ sig' = Signalled({s_dir_queue[i]}, "INT")
    /\ s_dir_queue' = RemoveAt(s_dir_queue, i)
    /\ clean' = [clean EXCEPT !.victim = d]
    /\ UNCHANGED <<s_processes, procDir, procType, listening, envVars, pc, dir,
                   pipe, outcome, eventVars, dumpVars, histVars>>

\* ... or an old one.
clean_old_dir(d) ==
    /\ Worst(d)
    /\ ~IsNew(d)
    /\ \A i \in DOMAIN s_dir_queue : procDir[s_dir_queue[i]] # d
    /\ clean' = [clean EXCEPT !.victim = d]
    /\ UNCHANGED <<s_processes, s_dir_queue, procDir, procType, listening, envVars,
                   serverVars, eventVars, dumpVars, histVars>>

clean_worst_dir(d) ==
    \/ clean_new_dir(d)
    \/ \E i \in DOMAIN s_dir_queue : clean_unprocessed_dir(d, i)
    \/ clean_old_dir(d)

\* The end of the turn: the directory is deleted, unless somebody else did so
\* or the deletion fails.
delete_worst_dir ==
    /\ clean.victim # NoDir
    /\ Delete(clean.victim)
    /\ clean' = [clean EXCEPT !.victim = NoDir]
    /\ UNCHANGED <<s_processes, s_dir_queue, procDir, procType, listening, envVars,
                   serverVars, eventVars, count, hasId, created, processed>>

\* Mutant: the new process goes on although another one is running ...
ConsiderAlwaysNotify ==
    /\ ~InMainLoop
    /\ clean.victim = NoDir
    /\ ~TooLarge
    /\ s_dir_queue' = IF clean.proc = NoServer THEN s_dir_queue
                                               ELSE Append(s_dir_queue, clean.proc)
    /\ PassTurn(IF clean.proc = NoServer THEN <<>> ELSE <<clean.proc>>)
    /\ clean' = Idle
    /\ UNCHANGED <<s_processes, procDir, listening, envVars, pc, dir, pipe, outcome,
                   eventVars, dumpVars, histVars>>

\* ... or is put at the head of the queue.
ConsiderPrepend ==
    /\ ~InMainLoop
    /\ clean.victim = NoDir
    /\ ~TooLarge
    /\ s_dir_queue' = IF clean.proc = NoServer THEN s_dir_queue
                                               ELSE <<clean.proc>> \o s_dir_queue
    /\ PassTurn(IF clean.hadRunning THEN <<>> ELSE s_dir_queue')
    /\ clean' = Idle
    /\ UNCHANGED <<s_processes, procDir, listening, envVars, pc, dir, pipe, outcome,
                   eventVars, dumpVars, histVars>>

\* consider_processing: append the process if it survived, and pass the turn
\* if nobody had it.
consider_processing ==
    /\ ~InMainLoop
    /\ clean.victim = NoDir
    /\ ~TooLarge
    /\ s_dir_queue' = IF clean.proc = NoServer THEN s_dir_queue
                                               ELSE Append(s_dir_queue, clean.proc)
    /\ PassTurn(IF clean.hadRunning THEN <<>> ELSE s_dir_queue')
    /\ clean' = Idle
    /\ UNCHANGED <<s_processes, procDir, listening, envVars, pc, dir, pipe, outcome,
                   eventVars, dumpVars, histVars>>

\* SIGCHLD: waitpid() returned the child s.  One turn of the loop in
\* handle_signal_cb(); a child reaped in a later turn may as well have exited
\* after this one.  An event handler the child left behind keeps running.
remove_abrt_server_proc(s) ==
    /\ InMainLoop
    /\ s \in s_processes
    /\ pc[s] = "exited"
    /\ s_processes' = s_processes \ {s}
    /\ s_dir_queue' = Without(s_dir_queue, s)
    /\ LET turn == IF procType[s] = "POST_CREATE"
                   THEN notify_next_post_create_process(s_dir_queue')
                   ELSE {} IN
       /\ procType' = [t \in Servers |-> IF t = s THEN "UNKNOWN"
                                         ELSE IF t \in turn THEN "POST_CREATE"
                                         ELSE procType[t]]
       /\ sig' = [Signalled(turn, "USR1") EXCEPT ![s] = {}]
    /\ listening' = (listening \/ Cardinality(s_processes') < MaxClientCount)
    /\ procDir' = [procDir EXCEPT ![s] = NoDir]
    /\ pipe' = pipe \ {s}
    /\ pc' = [pc EXCEPT ![s] = "unused"]
    /\ dir' = [dir EXCEPT ![s] = NoDir]
    /\ outcome' = [outcome EXCEPT ![s] = "none"]
    /\ event' = [event EXCEPT ![s] = "none"]
    /\ dupOf' = [dupOf EXCEPT ![s] = NoDir]
    /\ UNCHANGED <<clean, envVars, orphans, dumpVars, histVars>>

\* The service is stopped and started again.  systemd kills every process of
\* the service.  (The new abrtd marks the directories that have no count as not
\* reportable, an item nothing here reads.)
restart ==
    /\ restarts < MaxRestarts
    /\ restarts' = restarts + 1
    /\ s_processes' = {}
    /\ s_dir_queue' = <<>>
    /\ procDir' = [s \in Servers |-> NoDir]
    /\ procType' = [s \in Servers |-> "UNKNOWN"]
    /\ listening' = TRUE
    /\ clean' = Idle
    /\ pc' = [s \in Servers |-> "unused"]
    /\ dir' = [s \in Servers |-> NoDir]
    /\ pipe' = {}
    /\ sig' = [s \in Servers |-> {}]
    /\ outcome' = [s \in Servers |-> "none"]
    /\ event' = [s \in Servers |-> "none"]
    /\ dupOf' = [s \in Servers |-> NoDir]
    /\ orphans' = {}
    /\ UNCHANGED <<exists, count, hasId, hooks, histVars>>

-----------------------------------------------------------------------------
(* abrt-server: one request per process *)

Exit(s, result) ==
    /\ pc' = [pc EXCEPT ![s] = "exited"]
    /\ outcome' = [outcome EXCEPT ![s] = result]

\* A complete problem directory appears under its final name.
AddDir(d) ==
    /\ d \notin created
    /\ created' = created \cup {d}
    /\ exists' = exists \cup {d}
    /\ hasId' = IF IssueOf[d] \in EarlyIssues THEN hasId \cup {d} ELSE hasId

\* The request is malformed, late, forbidden, a repeated crash, or there is no
\* space left: the server ends without touching the dump location.
reject_request(s) ==
    /\ pc[s] = "request"
    /\ Exit(s, "none")
    /\ UNCHANGED <<abrtdVars, envVars, dir, pipe, sig, eventVars, dumpVars, histVars>>

\* DELETE: remove the directory the client named.  (When that fails the server
\* ends as after a request it rejects.)
delete_path(s, d) ==
    /\ pc[s] = "request"
    /\ d \in exists
    /\ Discard(d)
    /\ Exit(s, "none")
    /\ UNCHANGED <<abrtdVars, envVars, dir, pipe, sig, eventVars, count, hasId,
                   created, processed, undeleted>>

\* POST /: save the problem of the client.
create_problem_dir(s, d) ==
    /\ pc[s] = "request"
    /\ AddDir(d)
    /\ dir' = [dir EXCEPT ![s] = d]
    /\ pc' = [pc EXCEPT ![s] = IF MaxDirs > 0 THEN "trim" ELSE "check"]
    /\ UNCHANGED <<abrtdVars, envVars, pipe, sig, outcome, eventVars, count,
                   processed, discarded, undeleted>>

\* POST /creation_notification: a hook saved d itself.
creation_notification(s, d) ==
    /\ pc[s] = "request"
    /\ d \in created
    /\ dir' = [dir EXCEPT ![s] = d]
    /\ pc' = [pc EXCEPT ![s] = "check"]
    /\ UNCHANGED <<abrtdVars, envVars, pipe, sig, outcome, eventVars, dumpVars, histVars>>

\* One turn of the loop of trim_problem_dirs(), run by the server that saved
\* dir[s].  A turn whose deletion fails changes nothing but uses up one of the
\* loop's 20; the turns are not counted here, the loop may end after any.
trim_problem_dirs(s) ==
    /\ pc[s] = "trim"
    /\ \/ /\ Cardinality(exists) > MaxDirs
          /\ \E d \in exists \ {dir[s]} : Discard(d)
          /\ UNCHANGED pc
       \/ /\ pc' = [pc EXCEPT ![s] = "check"]
          /\ UNCHANGED <<exists, discarded>>
    /\ UNCHANGED <<abrtdVars, envVars, dir, pipe, sig, outcome, eventVars, count, hasId,
                   created, processed, undeleted>>

Provoked(d) == IssueOf[d] \in ProvokedIssues

\* run_post_create() up to its wait: a directory with a wrong owner, group or
\* mode is refused and stays, so is a missing or a processed one, ...
refuse_dir(s) ==
    /\ pc[s] = "check"
    /\ \/ dir[s] \notin exists
       \/ dir[s] \in UnfitDirs
       \/ Complete(dir[s]) /\ ~Provoked(dir[s])
    /\ Exit(s, "refused")
    /\ UNCHANGED <<abrtdVars, envVars, dir, pipe, sig, eventVars, dumpVars, histVars>>

\* ... one provoked by ABRT itself is deleted, ...
delete_provoked_dir(s) ==
    /\ pc[s] = "check"
    /\ FALSE \in Debugging
    /\ dir[s] \in exists
    /\ Provoked(dir[s])
    /\ Delete(dir[s])
    /\ Exit(s, "refused")
    /\ UNCHANGED <<abrtdVars, envVars, dir, pipe, sig, eventVars, count, hasId,
                   created, processed>>

\* ... or logged and left alone when DebugLevel is set, ...
keep_provoked_dir(s) ==
    /\ pc[s] = "check"
    /\ TRUE \in Debugging
    /\ dir[s] \in exists
    /\ Provoked(dir[s])
    /\ Exit(s, "refused")
    /\ UNCHANGED <<abrtdVars, envVars, dir, pipe, sig, eventVars, dumpVars, histVars>>

\* ... and otherwise the signal handlers are installed and abrtd is told.  (The
\* answer 503 cannot be given: `wrote' is unsigned, a failed write is not seen.)
emit_new_problem_signal(s) ==
    /\ pc[s] = "check"
    /\ dir[s] \in exists
    /\ ~Provoked(dir[s])
    /\ ~Complete(dir[s])
    /\ pc' = [pc EXCEPT ![s] = "wait"]
    /\ pipe' = pipe \cup {s}
    /\ UNCHANGED <<abrtdVars, envVars, dir, sig, outcome, eventVars, dumpVars, histVars>>

\* SIGUSR1 ends the wait: start the post-create event.
spawn_post_create(s) ==
    /\ pc[s] = "wait"
    /\ "USR1" \in sig[s]
    /\ pc' = [pc EXCEPT ![s] = "post_create"]
    /\ event' = [event EXCEPT ![s] = "running"]
    /\ UNCHANGED <<abrtdVars, envVars, dir, pipe, sig, outcome, dupOf, orphans, dumpVars,
                   histVars>>

\* SIGINT ends the wait: abrtd is about to remove the directory.
interrupted(s) ==
    /\ pc[s] = "wait"
    /\ "INT" \in sig[s]
    /\ Exit(s, "interrupted")
    /\ UNCHANGED <<abrtdVars, envVars, dir, pipe, sig, eventVars, dumpVars, histVars>>

\* The directory the problem is counted in: the duplicate if there is one.
work_dir(s) == IF event[s] = "duplicate" THEN dupOf[s] ELSE dir[s]

\* post-create failed, or the directory to count in is gone.
post_create_failed(s) ==
    /\ pc[s] = "post_create"
    /\ \/ event[s] = "failed"
       \/ event[s] \in {"unique", "duplicate"} /\ work_dir(s) \notin exists
    /\ pc' = [pc EXCEPT ![s] = "delete_bad_dir"]
    /\ event' = [event EXCEPT ![s] = "none"]
    /\ UNCHANGED <<abrtdVars, envVars, dir, pipe, sig, outcome, dupOf, orphans, dumpVars,
                   histVars>>

\* Mutant: a directory announced again is counted again.
CountAgain(s) ==
    /\ pc[s] = "post_create"
    /\ event[s] = "unique"
    /\ dir[s] \in exists
    /\ count' = [count EXCEPT ![dir[s]] = @ + 1]
    /\ processed' = processed \cup {dir[s]}
    /\ pc' = [pc EXCEPT ![s] = "notify"]
    /\ event' = [event EXCEPT ![s] = "none"]
    /\ UNCHANGED <<abrtdVars, envVars, dir, pipe, sig, outcome, dupOf, orphans, exists, hasId,
                   created, discarded, undeleted>>

\* A new problem; one that has a count already keeps it.
count_new_problem(s) ==
    /\ pc[s] = "post_create"
    /\ event[s] = "unique"
    /\ dir[s] \in exists
    /\ count' = IF count[dir[s]] = 0 THEN [count EXCEPT ![dir[s]] = 1] ELSE count
    /\ processed' = processed \cup {dir[s]}
    /\ pc' = [pc EXCEPT ![s] = "notify"]
    /\ event' = [event EXCEPT ![s] = "none"]
    /\ UNCHANGED <<abrtdVars, envVars, dir, pipe, sig, outcome, dupOf, orphans, exists, hasId,
                   created, discarded, undeleted>>

\* Another occurrence of a known problem.
count_duplicate(s) ==
    /\ pc[s] = "post_create"
    /\ event[s] = "duplicate"
    /\ dupOf[s] \in exists
    /\ count' = [count EXCEPT ![dupOf[s]] = @ + 1]
    /\ pc' = [pc EXCEPT ![s] = "delete_dup"]
    /\ event' = [event EXCEPT ![s] = "none"]
    /\ UNCHANGED <<abrtdVars, envVars, dir, pipe, sig, outcome, dupOf, orphans, exists, hasId,
                   histVars>>

\* Mutant: a directory post-create failed on is left behind.
LeaveBadDir(s) ==
    /\ pc[s] = "delete_bad_dir"
    /\ Exit(s, "dropped")
    /\ UNCHANGED <<abrtdVars, envVars, dir, pipe, sig, eventVars, dumpVars, histVars>>

\* delete_bad_dir:
delete_bad_dir(s) ==
    /\ pc[s] = "delete_bad_dir"
    /\ Delete(dir[s])
    /\ Exit(s, "dropped")
    /\ UNCHANGED <<abrtdVars, envVars, dir, pipe, sig, eventVars, count, hasId,
                   created, processed>>

\* The occurrence was counted in its duplicate: its own directory goes, unless
\* the deletion fails.
delete_dup_dir(s) ==
    /\ pc[s] = "delete_dup"
    /\ \/ exists' = exists \ {dir[s]} /\ UNCHANGED undeleted
       \/ /\ dir[s] \in exists \cap Stubborn
          /\ undeleted' = undeleted \cup {dir[s]}
          /\ UNCHANGED exists
    /\ pc' = [pc EXCEPT ![s] = "notify_dup"]
    /\ UNCHANGED <<abrtdVars, envVars, dir, pipe, sig, outcome, eventVars, count, hasId,
                   created, processed, discarded>>

\* The "notify" or "notify-dup" event ended.
notified(s) ==
    /\ pc[s] \in {"notify", "notify_dup"}
    /\ Exit(s, IF pc[s] = "notify" THEN "accepted" ELSE "duplicate")
    /\ UNCHANGED <<abrtdVars, envVars, dir, pipe, sig, eventVars, dumpVars, histVars>>

\* The server dies wherever it is; its event handler, if any, lives on.
crash(s) ==
    /\ MayCrash
    /\ pc[s] \notin {"unused", "exited"}
    /\ Exit(s, "none")
    /\ event' = [event EXCEPT ![s] = "none"]
    /\ orphans' = IF event[s] \in {"running", "scanning"} THEN orphans \cup {dir[s]} ELSE orphans
    /\ UNCHANGED <<abrtdVars, envVars, dir, pipe, sig, dupOf, dumpVars, histVars>>

-----------------------------------------------------------------------------
(* abrt-handle-event -e post-create *)

\* The actions of the event leave the data that duplicates are recognised by ...
run_event(s) ==
    /\ event[s] = "running"
    /\ dir[s] \in exists
    /\ event' = [event EXCEPT ![s] = "scanning"]
    /\ hasId' = hasId \cup {dir[s]}
    /\ UNCHANGED <<abrtdVars, envVars, serverVars, dupOf, orphans, exists, count,
                   histVars>>

\* ... or one of them fails, as they do when the directory is gone.
run_event_fails(s) ==
    /\ event[s] = "running"
    /\ event' = [event EXCEPT ![s] = "failed"]
    /\ UNCHANGED <<abrtdVars, envVars, serverVars, dupOf, orphans, dumpVars, histVars>>

\* Directories of the same problem that the scan can match with d.
Duplicates(d) ==
    IF d \in exists THEN {e \in exists \ {d} : e \in hasId /\ IssueOf[e] = IssueOf[d]} ELSE {}

\* is_crash_a_dup() after the last action finds nothing, ...
no_duplicate(s) ==
    /\ event[s] = "scanning"
    /\ Duplicates(dir[s]) = {}
    /\ event' = [event EXCEPT ![s] = "unique"]
    /\ UNCHANGED <<abrtdVars, envVars, serverVars, dupOf, orphans, dumpVars, histVars>>

\* ... or stops at the first match e, in the order of readdir().
is_crash_a_dup(s, e) ==
    /\ event[s] = "scanning"
    /\ e \in Duplicates(dir[s])
    /\ event' = [event EXCEPT ![s] = "duplicate"]
    /\ dupOf' = [dupOf EXCEPT ![s] = e]
    /\ UNCHANGED <<abrtdVars, envVars, serverVars, orphans, dumpVars, histVars>>

\* An event handler without a server ends, possibly after saving its data.
orphan_ends(d) ==
    /\ d \in orphans
    /\ orphans' = orphans \ {d}
    /\ hasId' \in {hasId, hasId \cup (exists \cap {d})}
    /\ UNCHANGED <<abrtdVars, envVars, serverVars, event, dupOf, exists, count,
                   histVars>>

-----------------------------------------------------------------------------
(* Others that save directories by themselves; their creation_notification is a
   client like any other. *)

\* abrt-hook-ccpp goes on to trim the dump location; abrt-handle-upload does not.
hook_saves_dir(d) ==
    /\ AddDir(d)
    /\ hooks' \in IF MaxDirs > 0 /\ Cardinality(hooks) < MaxHooks THEN {hooks, hooks \cup {d}} ELSE {hooks}
    /\ UNCHANGED <<abrtdVars, restarts, serverVars, eventVars, count,
                   processed, discarded, undeleted>>

\* One turn of the hook's trim_problem_dirs(), whose limit is a quarter higher.
hook_trims(h) ==
    /\ h \in hooks
    /\ \/ /\ Cardinality(exists) > MaxDirs + MaxDirs \div 4
          /\ \E d \in exists \ {h} : Discard(d)
          /\ UNCHANGED hooks
       \/ /\ hooks' = hooks \ {h}
          /\ UNCHANGED <<exists, discarded>>
    /\ UNCHANGED <<abrtdVars, restarts, serverVars, eventVars, count, hasId,
                   created, processed, undeleted>>

-----------------------------------------------------------------------------
Init ==
    /\ s_processes = {}
    /\ s_dir_queue = <<>>
    /\ procDir = [s \in Servers |-> NoDir]
    /\ procType = [s \in Servers |-> "UNKNOWN"]
    /\ listening = TRUE
    /\ clean = Idle
    /\ restarts = 0
    /\ hooks = {}
    /\ pc = [s \in Servers |-> "unused"]
    /\ dir = [s \in Servers |-> NoDir]
    /\ pipe = {}
    /\ sig = [s \in Servers |-> {}]
    /\ outcome = [s \in Servers |-> "none"]
    /\ event = [s \in Servers |-> "none"]
    /\ dupOf = [s \in Servers |-> NoDir]
    /\ orphans = {}
    /\ exists = {}
    /\ count = [d \in Dirs |-> 0]
    /\ hasId = {}
    /\ created = {}
    /\ processed = {}
    /\ discarded = {}
    /\ undeleted = {}

\* abrtd's single thread.
Abrtd ==
    \/ \E s \in Servers : \/ server_socket_cb(s)
                          \/ abrt_server_output_cb(s)
                          \/ abrt_server_output_hup(s)
                          \/ remove_abrt_server_proc(s)
    \/ \E d \in Dirs : clean_worst_dir(d)
    \/ delete_worst_dir
    \/ consider_processing

\* A server reading its request; alarm(TIMEOUT) makes it give up.
Request(s) ==
    \/ reject_request(s)
    \/ \E d \in Dirs : \/ delete_path(s, d)
                       \/ create_problem_dir(s, d)
                       \/ creation_notification(s, d)

\* A server and its event handler once the request is read.
Serve(s) ==
    \/ trim_problem_dirs(s)
    \/ refuse_dir(s)
    \/ delete_provoked_dir(s)
    \/ keep_provoked_dir(s)
    \/ emit_new_problem_signal(s)
    \/ spawn_post_create(s)
    \/ interrupted(s)
    \/ run_event(s)
    \/ run_event_fails(s)
    \/ no_duplicate(s)
    \/ \E e \in Dirs : is_crash_a_dup(s, e)
    \/ post_create_failed(s)
    \/ count_new_problem(s)
    \/ count_duplicate(s)
    \/ delete_bad_dir(s)
    \/ delete_dup_dir(s)
    \/ notified(s)

Next ==
    \/ Abrtd
    \/ \E s \in Servers : Request(s) \/ Serve(s) \/ crash(s)
    \/ \E d \in Dirs : hook_saves_dir(d) \/ hook_trims(d) \/ orphan_ends(d)
    \/ restart

Spec == Init /\ [][Next]_vars

\* Every process is scheduled, an event ends, and each iteration of abrtd's
\* main loop dispatches every source that is ready: a child's output or exit
\* that is ready over and over is handled.
Fairness ==
    /\ WF_vars(\E d \in Dirs : clean_worst_dir(d))
    /\ WF_vars(delete_worst_dir)
    /\ WF_vars(consider_processing)
    /\ \A s \in Servers : /\ WF_vars(Request(s))
                          /\ WF_vars(Serve(s))
                          /\ SF_vars(abrt_server_output_cb(s))
                          /\ SF_vars(remove_abrt_server_proc(s))

FairSpec == Spec /\ Fairness

(* Properties *)

PCs == {"unused", "request", "trim", "check", "wait", "post_create", "delete_bad_dir",
        "delete_dup", "notify", "notify_dup", "exited"}
Outcomes == {"none", "refused", "interrupted", "dropped", "accepted", "duplicate"}
Events == {"none", "running", "scanning", "failed", "unique", "duplicate"}

\* Every variable of abrtd, of its servers and of the dump location holds a
\* value the C declarations allow.
TypeOK ==
    /\ s_processes \subseteq Servers
    /\ s_dir_queue \in Seq(Servers)
    /\ procDir \in [Servers -> Dirs \cup {NoDir}]
    /\ procType \in [Servers -> {"UNKNOWN", "POST_CREATE"}]
    /\ listening \in BOOLEAN
    /\ clean \in [proc : Servers \cup {NoServer}, hadRunning : BOOLEAN,
                  ignored : Dirs \cup {NoDir}, victim : Dirs \cup {NoDir}]
    /\ restarts \in Nat
    /\ hooks \subseteq Dirs
    /\ pc \in [Servers -> PCs]
    /\ dir \in [Servers -> Dirs \cup {NoDir}]
    /\ pipe \subseteq Servers
    /\ sig \in [Servers -> SUBSET {"USR1", "INT"}]
    /\ outcome \in [Servers -> Outcomes]
    /\ event \in [Servers -> Events]
    /\ dupOf \in [Servers -> Dirs \cup {NoDir}]
    /\ orphans \subseteq Dirs
    /\ exists \subseteq Dirs
    /\ count \in [Dirs -> Nat]
    /\ hasId \subseteq Dirs
    /\ created \subseteq Dirs
    /\ processed \subseteq Dirs
    /\ discarded \subseteq Issues
    /\ undeleted \subseteq Dirs

\* Servers that were given the turn and have not ended.
Processing == {s \in Servers : pc[s] \in {"post_create", "delete_bad_dir", "delete_dup",
                                         "notify", "notify_dup"}}

\* abrt-server.c:337 "The post-create event cannot be run concurrently for more
\* problem directories": at most one server at a time is past the wait in
\* run_post_create().
AtMostOneProcessing == \A s, t \in Processing : s = t

\* The queue never stalls and never runs ahead: the process at its head was
\* told to go on, and it is the only one in the queue that was.
TurnAtHead ==
    \A i \in DOMAIN s_dir_queue : (procType[s_dir_queue[i]] = "POST_CREATE") <=> (i = 1)

\* A server gets one signal at most, and only after it installed the handlers
\* (before that a signal kills it; after the wait it would be written to a
\* closed pipe).
SignalsSafe ==
    \A s \in Servers :
        sig[s] # {} => /\ pc[s] \notin {"unused", "request", "trim", "check"}
                       /\ ~({"USR1", "INT"} \subseteq sig[s])

\* abrt-server.c:375 "The only reason for the interruption is removed problem
\* directory": the directory of an interrupted server is gone, or is the one
\* abrtd is deleting (it signals first, abrtd.c:187, 195, and deletes
\* afterwards, 206-208), or abrtd or a server failed to delete it.
InterruptMeansRemoved ==
    \A s \in Servers :
        "INT" \in sig[s] => \/ dir[s] \notin exists
                            \/ dir[s] = clean.victim
                            \/ dir[s] \in undeleted

\* What the serialisation is for (abrt-server.c:340, "Both of the directories
\* are marked as duplicates of each other and are deleted"): merging
\* duplicates never removes the last directory of a problem.
SurvivorExists ==
    \A d \in created : \/ IssueOf[d] \in discarded
                       \/ \E e \in exists : IssueOf[e] = IssueOf[d]

\* The directory is gone or has its count.
Settled(d) == d \notin exists \/ Complete(d)

\* Refused but not removed: a wrong owner, group or mode (abrt-server.c:287), a
\* crash of an event handler met with DebugLevel set (300-324).
LeftAlone(s) ==
    /\ outcome[s] = "refused"
    /\ \/ dir[s] \in UnfitDirs
       \/ TRUE \in Debugging /\ Provoked(dir[s])

\* When run_post_create() ends, the directory is gone or has its count, in
\* every order of announcements, cleaning and deaths.  The exceptions are the
\* two refusals that leave it alone, a deletion that failed, and an
\* interrupted server whose directory abrtd is deleting.
AnsweredMeansSettled ==
    \A s \in Servers : pc[s] = "exited" /\ outcome[s] # "none"
        => \/ Settled(dir[s])
           \/ LeftAlone(s)
           \/ dir[s] \in undeleted
           \/ outcome[s] = "interrupted" /\ dir[s] = clean.victim

\* The occurrences of an issue recorded in the dump location are never more
\* than the directories saved for it, however often a directory is announced
\* (abrt-server.c:475 counts a directory again only when it is a duplicate),
\* provided that no deletion fails: a duplicate that stays is counted again when
\* it is announced again.
CountNotInflated ==
    \A p \in Issues :
        LET saved == {d \in created : IssueOf[d] = p}
            kept  == saved \cap exists IN
        MapThenSumSet(LAMBDA d : count[d], kept) <= Cardinality(saved)

\* The socket is watched exactly while another client fits (abrtd.c:315, 370).
SocketWatched == listening <=> Cardinality(s_processes) < MaxClientCount

\* The cleaning abrtd does itself never removes the directory whose
\* post-create is running.
CleaningSparesRunning ==
    [][delete_worst_dir
          => \A s \in Processing : dir[s] \in exists => dir[s] \in exists']_vars

\* The inductive invariant behind the safety properties, in parts.

Queued(s) == \E i \in DOMAIN s_dir_queue : s_dir_queue[i] = s

\* The queue holds each process once, and only children not yet reaped.
QueueInv ==
    /\ \A i, j \in DOMAIN s_dir_queue : s_dir_queue[i] = s_dir_queue[j] => i = j
    /\ \A i \in DOMAIN s_dir_queue : /\ s_dir_queue[i] \in s_processes
                                     /\ procDir[s_dir_queue[i]] = dir[s_dir_queue[i]]
    /\ \A s \in Servers : s \in s_processes <=> pc[s] # "unused"

\* Who may have been signalled, and how; a line not yet read, or being handled,
\* belongs to a process that was not.
SignalOK(s) ==
    /\ procType[s] = "POST_CREATE" => Queued(s)
    /\ "USR1" \in sig[s] => procType[s] = "POST_CREATE"
    /\ "INT" \in sig[s] => ~Queued(s)
    /\ sig[s] # {} \/ Queued(s) => pc[s] \notin {"unused", "request", "trim", "check"}
    /\ s \in pipe \/ s = clean.proc
         => pc[s] \in {"wait", "exited"} /\ ~Queued(s) /\ sig[s] = {}
    /\ ~(s \in pipe /\ s = clean.proc)
    /\ s \in Processing => "USR1" \in sig[s]

SignalInv == \A s \in Servers : SignalOK(s)

\* What abrtd remembers while it cleans the dump location.
CleanInv ==
    /\ InMainLoop => clean = Idle
    /\ ~InMainLoop => /\ clean.hadRunning <=> s_dir_queue # <<>>
                      /\ clean.hadRunning => clean.ignored = procDir[Head(s_dir_queue)]
                      /\ clean.victim # clean.ignored
    /\ clean.proc # NoServer => procDir[clean.proc] = dir[clean.proc]

\* What a server knows about its own directory.
ServerOK(s) ==
    /\ pc[s] \notin {"unused", "request", "exited"} => dir[s] \in created
    /\ pc[s] = "unused" => dir[s] = NoDir
    /\ sig[s] # {} \/ s \in pipe \/ s = clean.proc \/ Queued(s) => dir[s] \in created
    /\ event[s] # "none" => pc[s] = "post_create"
    /\ pc[s] = "notify" => Settled(dir[s])
    /\ pc[s] = "notify_dup" => dir[s] \notin exists \/ dir[s] \in undeleted
    /\ outcome[s] # "none" => pc[s] = "exited" /\ dir[s] \in created

ServerInv == \A s \in Servers : ServerOK(s)

\* A server about to delete its directory has a duplicate that stays.
DupOK(s) ==
    /\ event[s] = "duplicate" \/ pc[s] = "delete_dup"
         => /\ dupOf[s] \in created \ {dir[s]}
            /\ IssueOf[dupOf[s]] = IssueOf[dir[s]]
    /\ pc[s] = "delete_dup"
         => dupOf[s] \in exists \/ IssueOf[dir[s]] \in discarded

DupInv == /\ exists \subseteq created
          /\ \A s \in Servers : DupOK(s)

IInv == /\ TypeOK /\ QueueInv /\ TurnAtHead /\ SignalInv /\ CleanInv /\ ServerInv /\ DupInv
        /\ InterruptMeansRemoved /\ AnsweredMeansSettled /\ SurvivorExists

\* The process of the queue that was told to go on.
TurnHolder ==
    IF \E s \in Servers : Queued(s) /\ procType[s] = "POST_CREATE"
    THEN CHOOSE s \in Servers : Queued(s) /\ procType[s] = "POST_CREATE"
    ELSE NoServer

Turns == INSTANCE TurnQueue WITH Procs <- Servers, Nobody <- NoServer,
                                 line <- s_dir_queue, turn <- TurnHolder

\* abrtd's queue of servers, with its two signals, implements the line of
\* TurnQueue: turns are passed one at a time and in order, through cleaning,
\* out-of-order exits and restarts.
ImplementsTurnQueue == Turns!Spec

\* abrt-server.c:337 for the event handlers themselves, the ones left behind by
\* a dead server included.
EventsNotConcurrent ==
    Cardinality({s \in Servers : event[s] \in {"running", "scanning"}})
        + Cardinality(orphans) <= 1

\* A server that waits for its turn gets it or is told that its directory is
\* gone, provided that the deletions of the cleaning loop do not fail for ever
\* (abrtd would not leave the loop: no deletion fails in the run).
WaitEnds == \A s \in Servers : (pc[s] = "wait") ~> (pc[s] # "wait")

=============================================================================
