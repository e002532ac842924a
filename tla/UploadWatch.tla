---------------------------- MODULE UploadWatch ----------------------------
(***************************************************************************)
(* abrt-upload-watch (src/src/daemon/abrt-upload-watch.c) and the          *)
(* abrt-handle-upload processes it runs (abrt-handle-upload.in).  The      *)
(* watch is one thread: inotify events and the bytes of its signal pipe    *)
(* are its callbacks; the workers run beside it.  An archive is uploaded   *)
(* once and holds either plain dump files (Content is empty) or some       *)
(* problem directories.  A worker is named by its archive.                 *)
(***************************************************************************)
EXTENDS Integers, Sequences, FiniteSets

CONSTANTS
    Archives,
    DirNames,
    Content,        \* names of the problem directories in an archive
    max_children,
    Capacity,       \* of the deferred queue
    Leftovers,      \* of earlier uploads, in the dump location
    MaxForkFails,   \* how often fork() may fail
    MayQuit         \* the watch may get SIGTERM

ASSUME ArchivesAssumption ==
    /\ IsFiniteSet(Archives) /\ IsFiniteSet(DirNames)
    /\ Content \in [Archives -> SUBSET DirNames]
    /\ Leftovers \subseteq DirNames \X (Archives \cup {0})
ASSUME LimitsAssumption == max_children \in Nat \ {0} /\ Capacity \in Nat \ {0} /\ MaxForkFails \in Nat
ASSUME MayQuitAssumption == MayQuit \in BOOLEAN

VARIABLES
    events,         \* inotify events not read yet
    pipe,           \* bytes in the signal pipe
    reaping,        \* handle_signal_pipe_cb is in its waitpid() loop
    quit,           \* the main loop was told to end
    children, queue,
    pc,             \* of the workers
    reaped,         \* workers waited for
    todo, dst,      \* what a worker has still to move, and where it moves one to
    uploaded, omitted, lost, started,
    forkFails,
    spool,          \* problem directories and the archives they came from
    nested          \* archives whose directory was moved into another one

watchVars == <<reaping, quit, children, queue>>
workVars == <<pc, reaped, todo, dst>>
spoolVars == <<spool, nested>>
histVars == <<uploaded, omitted, lost, started>>
vars == <<events, pipe, watchVars, workVars, histVars, forkFails, spoolVars>>

\* abrt_dir/d, abrt_dir/d.PID and abrt_dir/remote.DATE.PID
NoArchive == 0
Earlier == 1
Paths == (DirNames \X (Archives \cup {NoArchive})) \cup ({"remote"} \X Archives)
NoPath == <<"none", NoArchive>>
-----------------------------------------------------------------------------
(* The watch. *)

\* run_abrt_handle_upload(): the counter is up for the time of the fork.
run_abrt_handle_upload(a, count) ==
    \/ /\ children' = count + 1
       /\ pc' = [pc EXCEPT ![a] = "start"]
       /\ started' = started \cup {a}
       /\ UNCHANGED <<lost, forkFails>>
    \/ /\ forkFails < MaxForkFails
       /\ forkFails' = forkFails + 1
       /\ children' = count
       /\ lost' = lost \cup {a}
       /\ UNCHANGED <<pc, started>>

\* Mutant: the limit is checked with <=.
HandleOneMore(a) ==
    \/ /\ children <= max_children
       /\ run_abrt_handle_upload(a, children)
       /\ UNCHANGED <<queue, omitted>>
    \/ /\ children > max_children
       /\ Len(queue) < Capacity
       /\ queue' = Append(queue, a)
       /\ UNCHANGED <<children, pc, started, lost, forkFails, omitted>>

\* handle_new_path(): a free worker, a place in the queue, or neither.
handle_new_path(a) ==
    \/ /\ children < max_children
       /\ run_abrt_handle_upload(a, children)
       /\ UNCHANGED <<queue, omitted>>
    \/ /\ children >= max_children
       /\ Len(queue) < Capacity
       /\ queue' = Append(queue, a)
       /\ UNCHANGED <<children, pc, started, lost, forkFails, omitted>>
    \/ /\ children >= max_children
       /\ Len(queue) >= Capacity
       /\ omitted' = omitted \cup {a}
       /\ UNCHANGED <<queue, children, pc, started, lost, forkFails>>

InMainLoop == ~reaping /\ ~quit

\* Directories and names that end in ".working" are passed over: events has the
\* others.
handle_inotify_cb ==
    /\ InMainLoop
    /\ events # <<>>
    /\ events' = Tail(events)
    /\ handle_new_path(Head(events))
    /\ UNCHANGED <<pipe, reaping, quit, reaped, todo, dst, uploaded, spoolVars>>

\* handle_signal_pipe_cb() takes a byte: SIGCHLD reaps, SIGTERM or SIGINT ends the
\* main loop and leaves the rest unread (SIGUSR1 only prints).
handle_signal_pipe_cb ==
    /\ InMainLoop
    /\ pipe # <<>>
    /\ pipe' = Tail(pipe)
    /\ reaping' = (Head(pipe) = "CHLD")
    /\ quit' = (Head(pipe) # "CHLD")
    /\ UNCHANGED <<events, children, queue, workVars, histVars, forkFails, spoolVars>>

\* Mutant: the archive is read from the queue and left in it.
PopPeek(count) ==
    \/ /\ queue = <<>>
       /\ children' = count
       /\ UNCHANGED <<queue, pc, started, lost, forkFails>>
    \/ /\ queue # <<>>
       /\ UNCHANGED queue
       /\ run_abrt_handle_upload(Head(queue), count)

\* process_next_in_queue(), with the counter it finds.
process_next_in_queue(count) ==
    \/ /\ queue = <<>>
       /\ children' = count
       /\ UNCHANGED <<queue, pc, started, lost, forkFails>>
    \/ /\ queue # <<>>
       /\ queue' = Tail(queue)
       /\ run_abrt_handle_upload(Head(queue), count)

Zombies == {a \in Archives : pc[a] = "exited"} \ reaped

\* The waitpid() loop: a worker has ended, ...
reap(a) ==
    /\ reaping
    /\ a \in Zombies
    /\ process_next_in_queue(children - 1)
    /\ reaped' = reaped \cup {a}
    /\ UNCHANGED <<events, pipe, reaping, quit, todo, dst, uploaded, omitted, spoolVars>>

\* ... or none has, and the callback goes on with the next byte.
nothing_to_reap ==
    /\ reaping
    /\ Zombies = {}
    /\ reaping' = FALSE
    /\ UNCHANGED <<events, pipe, quit, children, queue, workVars, histVars, forkFails, spoolVars>>

Pending(signo) == \E i \in DOMAIN pipe : pipe[i] = signo

\* A file is closed in, or moved to, the upload directory.
upload(a) ==
    /\ ~quit
    /\ a \notin uploaded
    /\ uploaded' = uploaded \cup {a}
    /\ events' = Append(events, a)
    /\ UNCHANGED <<pipe, watchVars, workVars, omitted, lost, started, forkFails, spoolVars>>

\* SIGTERM or SIGINT.
handle_signal ==
    /\ MayQuit
    /\ ~quit
    /\ ~Pending("TERM")
    /\ pipe' = Append(pipe, "TERM")
    /\ UNCHANGED <<events, watchVars, workVars, histVars, forkFails, spoolVars>>

-----------------------------------------------------------------------------
(* abrt-handle-upload. *)

\* Mutant: no handler for SIGCHLD.
ExitUnnoticed(a) == pc' = [pc EXCEPT ![a] = "exited"] /\ UNCHANGED pipe

\* The end of a worker.  A second SIGCHLD before the watch reads the first would
\* only find nothing to reap.
Exit(a) ==
    /\ pc' = [pc EXCEPT ![a] = "exited"]
    /\ pipe' = IF quit \/ Pending("CHLD") THEN pipe ELSE Append(pipe, "CHLD")

\* A bad name, a bad archive, no space: print_clean_and_die() or an exception.
reject(a) ==
    /\ pc[a] = "start"
    /\ Exit(a)
    /\ UNCHANGED <<events, watchVars, reaped, todo, dst, histVars, forkFails, spoolVars>>

\* Unpacked: plain dump files get a directory of their own.
unpack(a) ==
    /\ pc[a] = "start"
    /\ IF Content[a] = {}
       THEN /\ pc' = [pc EXCEPT ![a] = "move"]
            /\ dst' = [dst EXCEPT ![a] = <<"remote", a>>]
            /\ UNCHANGED todo
       ELSE /\ pc' = [pc EXCEPT ![a] = "loop"]
            /\ todo' = [todo EXCEPT ![a] = Content[a]]
            /\ UNCHANGED dst
    /\ UNCHANGED <<events, pipe, watchVars, reaped, histVars, forkFails, spoolVars>>

Exists(p) == spool[p] # NoArchive

\* os.path.exists(dst), twice.
choose_dst(a, d) ==
    /\ pc[a] = "loop"
    /\ d \in todo[a]
    /\ todo' = [todo EXCEPT ![a] = @ \ {d}]
    /\ IF Exists(<<d, NoArchive>>) /\ Exists(<<d, a>>)
       THEN UNCHANGED <<pc, dst>>
       ELSE /\ pc' = [pc EXCEPT ![a] = "move"]
            /\ dst' = [dst EXCEPT ![a] = <<d, IF Exists(<<d, NoArchive>>) THEN a ELSE NoArchive>>]
    /\ UNCHANGED <<events, pipe, watchVars, reaped, histVars, forkFails, spoolVars>>

Continue(a) == pc' = [pc EXCEPT ![a] = "loop"]

\* The owner or the mode of something cannot be set: the directory is dropped.
sanitize_fails(a) ==
    /\ pc[a] = "move"
    /\ Continue(a)
    /\ UNCHANGED <<events, pipe, watchVars, reaped, todo, dst, histVars, forkFails, spoolVars>>

\* Mutant: os.rename() after removing what is there.
MoveOver(a) ==
    /\ pc[a] = "move"
    /\ spool' = [spool EXCEPT ![dst[a]] = a]
    /\ Continue(a)
    /\ UNCHANGED <<events, pipe, watchVars, reaped, todo, dst, histVars, forkFails, nested>>

\* shutil.move() moves into a directory that is there by now, unless there is one
\* of that name in it already; then problem.notify_new_path().
move_and_notify(a) ==
    /\ pc[a] = "move"
    /\ \/ /\ ~Exists(dst[a])
          /\ spool' = [spool EXCEPT ![dst[a]] = a]
          /\ UNCHANGED nested
       \/ /\ Exists(dst[a])
          /\ \A n \in nested : n[1] # dst[a]
          /\ nested' = nested \cup {<<dst[a], a>>}
          /\ UNCHANGED spool
    /\ Continue(a)
    /\ UNCHANGED <<events, pipe, watchVars, reaped, todo, dst, histVars, forkFails>>

\* shutil.move() raises, for that or another reason.
move_fails(a) ==
    /\ pc[a] = "move"
    /\ Exit(a)
    /\ UNCHANGED <<events, watchVars, reaped, todo, dst, histVars, forkFails, spoolVars>>

finish(a) ==
    /\ pc[a] = "loop"
    /\ todo[a] = {}
    /\ Exit(a)
    /\ UNCHANGED <<events, watchVars, reaped, todo, dst, histVars, forkFails, spoolVars>>

-----------------------------------------------------------------------------
Init ==
    /\ events = <<>> /\ pipe = <<>>
    /\ reaping = FALSE /\ quit = FALSE
    /\ children = 0 /\ queue = <<>>
    /\ pc = [a \in Archives |-> "none"]
    /\ reaped = {}
    /\ todo = [a \in Archives |-> {}]
    /\ dst = [a \in Archives |-> NoPath]
    /\ uploaded = {} /\ omitted = {} /\ lost = {} /\ started = {}
    /\ forkFails = 0
    /\ spool = [p \in Paths |-> IF p \in Leftovers THEN Earlier ELSE NoArchive]
    /\ nested = {}

Watch == \/ handle_inotify_cb \/ handle_signal_pipe_cb \/ nothing_to_reap
         \/ \E a \in Archives : reap(a)

Worker(a) == \/ reject(a) \/ unpack(a) \/ \E d \in DirNames : choose_dst(a, d)
             \/ sanitize_fails(a) \/ move_and_notify(a) \/ move_fails(a) \/ finish(a)

Next == \/ Watch
        \/ \E a \in Archives : upload(a) \/ Worker(a)
        \/ handle_signal

Spec == Init /\ [][Next]_vars

\* The main loop of the watch and every worker are scheduled.
FairSpec == Spec /\ WF_vars(Watch) /\ \A a \in Archives : WF_vars(Worker(a))

-----------------------------------------------------------------------------
(* Properties *)

Labels == {"none", "start", "loop", "move", "exited"}

TypeOK ==
    /\ events \in Seq(Archives) /\ queue \in Seq(Archives)
    /\ pipe \in Seq({"CHLD", "TERM"})
    /\ reaping \in BOOLEAN /\ quit \in BOOLEAN
    /\ children \in Nat
    /\ pc \in [Archives -> Labels]
    /\ todo \in [Archives -> SUBSET DirNames]
    /\ dst \in [Archives -> Paths \cup {NoPath}]
    /\ {uploaded, omitted, lost, started, reaped} \subseteq SUBSET Archives
    /\ forkFails \in 0..MaxForkFails
    /\ spool \in [Paths -> Archives \cup {NoArchive, Earlier}]
    /\ nested \subseteq Paths \X Archives

\* Workers that run or wait to be reaped.
Unreaped == {a \in Archives : pc[a] # "none"} \ reaped

\* "Number of concurrent workers" (abrt-upload-watch.c:282): the counter that
\* two callbacks keep is the number of processes, and that never exceeds -w.
WorkersCounted == children = Cardinality(Unreaped) /\ children <= max_children

Elements(s) == {s[i] : i \in DOMAIN s}
Distinct(s) == \A i, j \in DOMAIN s : s[i] = s[j] => i = j
Places == <<Elements(events), Elements(queue), started, omitted, lost>>

\* Every archive that was uploaded is in one place, once: not read yet, deferred,
\* given to one worker, omitted for want of space, or lost with its fork().
SeenOnce ==
    /\ Distinct(events) /\ Distinct(queue)
    /\ \A i, j \in 1..5 : i # j => Places[i] \cap Places[j] = {}
    /\ uploaded = UNION {Places[i] : i \in 1..5}

\* The counter, the signal pipe and the two callbacks implement a pool of -w
\* workers with a line of Capacity places: archives are taken in the order of
\* their events, one is deferred only while as many processes as allowed are
\* there, omitted only when the queue is full as well, and every worker that ends
\* takes the first of the queue with it.
Pool == INSTANCE WorkPool WITH
    Jobs <- Archives, Workers <- max_children, Room <- Capacity,
    offered <- events, line <- queue, working <- Unreaped, done <- reaped,
    refused <- omitted, failed <- lost

ImplementsWorkPool == Pool!Spec

\* What one worker put into the dump location no other replaces.
NothingReplaced == [][\A p \in Paths : Exists(p) => spool'[p] = spool[p]]_vars

\* Unless the watch is stopped or a fork() fails, an archive that was deferred is
\* given to a worker.
DeferredIsStarted ==
    \A a \in Archives :
        (\E i \in DOMAIN queue : queue[i] = a)
            ~> (quit \/ forkFails > 0 \/ a \in started)
=============================================================================
