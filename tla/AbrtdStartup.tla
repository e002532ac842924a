---------------------------- MODULE AbrtdStartup ----------------------------
(***************************************************************************)
(* How instances of abrtd come and go (main() of src/src/daemon/abrtd.c):  *)
(* going to the background, the pid file and its lock, the socket, the     *)
(* name on the system bus, SIGTERM, and what daemon_is_ok() tells the      *)
(* hooks (src/src/lib/daemon_is_ok.c).                                     *)
(*                                                                         *)
(* The pid file is a path that names an inode or nothing; lockf() locks    *)
(* the inode.  An instance is named by its pid, which is not used again.   *)
(***************************************************************************)
EXTENDS Integers, FiniteSets

CONSTANTS
    Daemons,      \* instances of abrtd
    Nobody

ASSUME DaemonsAssumption == Nobody \notin Daemons /\ IsFiniteSet(Daemons)

VARIABLES
    pc,
    parent,       \* the process that waits for a daemonized instance to start
    termSent,     \* SIGTERM was sent to the instance
    pipe,         \* ... and is in its signal pipe
    path,         \* inode of VAR_RUN_PIDFILE, 0 if there is none
    inodes,       \* inodes used so far
    fd,           \* the pid file an instance has open
    lock,         \* who holds the lock on an inode
    content,      \* whose pid is in an inode
    socket,       \* who is bound to SOCKET_FILE
    busName       \* who owns ABRTD_DBUS_NAME

vars == <<pc, parent, termSent, pipe, path, inodes, fd, lock, content, socket, busName>>

Inode == 1..Cardinality(Daemons)

Alive(i) == pc[i] \notin {"off", "exited"}

Goto(i, label) == pc' = [pc EXCEPT ![i] = label]

\* The process ends, however it does: the kernel drops its lock, the bus its
\* name, and a parent that still waits gets SIGCHLD or the SIGINT sent first.
Exit(i) ==
    /\ Goto(i, "exited")
    /\ parent' = [parent EXCEPT ![i] = IF @ = "waiting" THEN "failed" ELSE @]
    /\ fd' = [fd EXCEPT ![i] = 0]
    /\ lock' = [n \in Inode |-> IF lock[n] = i THEN Nobody ELSE lock[n]]
    /\ busName' = IF busName = i THEN Nobody ELSE busName

-----------------------------------------------------------------------------
\* The signal handlers are installed, the signal pipe is not connected yet.
start(i) ==
    /\ pc[i] = "off"
    /\ Goto(i, "setup")
    /\ UNCHANGED <<parent, termSent, pipe, path, inodes, fd, lock, content, socket, busName>>

\* init_error before anything was done.
load_abrt_conf_fails(i) ==
    /\ pc[i] = "setup"
    /\ Exit(i)
    /\ UNCHANGED <<termSent, pipe, path, inodes, content, socket>>

\* With or without -d.  A parent that has got SIGTERM itself takes it for the
\* child's.
daemonize(i) ==
    /\ pc[i] = "setup"
    /\ Goto(i, "open_pidfile")
    /\ \E p \in {"none", IF termSent[i] THEN "ok" ELSE "waiting"} :
            parent' = [parent EXCEPT ![i] = p]
    /\ UNCHANGED <<termSent, pipe, path, inodes, fd, lock, content, socket, busName>>

\* Two seconds without a signal: "Failed to start: timeout waiting for child".
parent_times_out(i) ==
    /\ parent[i] = "waiting"
    /\ parent' = [parent EXCEPT ![i] = "failed"]
    /\ UNCHANGED <<pc, termSent, pipe, path, inodes, fd, lock, content, socket, busName>>

\* create_pidfile(): open(O_RDWR|O_CREAT), ...
open_pidfile(i) ==
    /\ pc[i] = "open_pidfile"
    /\ Goto(i, "lock_pidfile")
    /\ IF path # 0
       THEN /\ fd' = [fd EXCEPT ![i] = path]
            /\ UNCHANGED <<path, inodes>>
       ELSE /\ inodes' = inodes + 1
            /\ path' = inodes + 1
            /\ fd' = [fd EXCEPT ![i] = inodes + 1]
    /\ UNCHANGED <<parent, termSent, pipe, lock, content, socket, busName>>

\* Mutant: the result of lockf() is not looked at.
LockAnyway(i) ==
    /\ pc[i] = "lock_pidfile"
    /\ lock' = [lock EXCEPT ![fd[i]] = i]
    /\ content' = [content EXCEPT ![fd[i]] = i]
    /\ Goto(i, "socket")
    /\ UNCHANGED <<parent, termSent, pipe, path, inodes, fd, socket, busName>>

\* ... lockf(F_TLOCK), and the pid is written.
lock_pidfile(i) ==
    /\ pc[i] = "lock_pidfile"
    /\ lock[fd[i]] = Nobody
    /\ lock' = [lock EXCEPT ![fd[i]] = i]
    /\ content' = [content EXCEPT ![fd[i]] = i]
    /\ Goto(i, "socket")
    /\ UNCHANGED <<parent, termSent, pipe, path, inodes, fd, socket, busName>>

\* Mutant: pidfile_created is set before create_pidfile() succeeds, so the
\* clean-up of a second instance unlinks the file of the first.
FailUnlinking(i) ==
    /\ pc[i] = "lock_pidfile"
    /\ lock[fd[i]] # Nobody
    /\ Exit(i)
    /\ path' = 0
    /\ UNCHANGED <<termSent, pipe, inodes, content, socket>>

\* Mutant: F_LOCK instead of F_TLOCK, which waits for the other instance.
LockWaits(i) ==
    /\ pc[i] = "lock_pidfile"
    /\ lock[fd[i]] # Nobody
    /\ UNCHANGED vars

\* Another live abrtd has the lock: init_error, and the pid file stays.
lock_pidfile_fails(i) ==
    /\ pc[i] = "lock_pidfile"
    /\ lock[fd[i]] # Nobody
    /\ Exit(i)
    /\ UNCHANGED <<termSent, pipe, path, inodes, content, socket>>

\* Mutant: the parent is told before the socket is bound.
SocketUnbound(i) ==
    /\ pc[i] = "socket"
    /\ Goto(i, "signal_parent")
    /\ UNCHANGED <<parent, termSent, pipe, path, inodes, fd, lock, content, socket, busName>>

\* unlink(SOCKET_FILE), bind, listen.
dumpsocket_init(i) ==
    /\ pc[i] = "socket"
    /\ socket' = i
    /\ Goto(i, "signal_parent")
    /\ UNCHANGED <<parent, termSent, pipe, path, inodes, fd, lock, content, busName>>

signal_parent(i) ==
    /\ pc[i] = "signal_parent"
    /\ parent' = [parent EXCEPT ![i] = IF @ = "waiting" THEN "ok" ELSE @]
    /\ Goto(i, "connect_pipe")
    /\ UNCHANGED <<termSent, pipe, path, inodes, fd, lock, content, socket, busName>>

\* "Only now we want signal pipe to work"; g_bus_own_name() is asynchronous.
enter_main_loop(i) ==
    /\ pc[i] = "connect_pipe"
    /\ Goto(i, "main_loop")
    /\ UNCHANGED <<parent, termSent, pipe, path, inodes, fd, lock, content, socket, busName>>

on_name_acquired(i) ==
    /\ pc[i] = "main_loop"
    /\ busName = Nobody
    /\ busName' = i
    /\ UNCHANGED <<pc, parent, termSent, pipe, path, inodes, fd, lock, content, socket>>

\* error_msg_and_die(): no clean-up.
on_name_lost(i) ==
    /\ pc[i] = "main_loop"
    /\ busName \notin {Nobody, i}
    /\ Exit(i)
    /\ UNCHANGED <<termSent, pipe, path, inodes, content, socket>>

\* handle_signal(): the signal is written to the pipe if that is connected.
handle_signal(i) ==
    /\ Alive(i)
    /\ ~termSent[i]
    /\ termSent' = [termSent EXCEPT ![i] = TRUE]
    /\ pipe' = IF pc[i] = "main_loop" THEN pipe \cup {i} ELSE pipe
    /\ UNCHANGED <<pc, parent, path, inodes, fd, lock, content, socket, busName>>

\* g_main_loop_quit(), then the clean-up: the name, ...
handle_signal_cb(i) ==
    /\ pc[i] = "main_loop"
    /\ i \in pipe
    /\ busName' = IF busName = i THEN Nobody ELSE busName
    /\ Goto(i, "unlink_pidfile")
    /\ UNCHANGED <<parent, termSent, pipe, path, inodes, fd, lock, content, socket>>

\* ... and the pid file, by name.  The socket file stays.
unlink_pidfile(i) ==
    /\ pc[i] = "unlink_pidfile"
    /\ path' = 0
    /\ Goto(i, "exit")
    /\ UNCHANGED <<parent, termSent, pipe, inodes, fd, lock, content, socket, busName>>

main_returns(i) ==
    /\ pc[i] = "exit"
    /\ Exit(i)
    /\ UNCHANGED <<termSent, pipe, path, inodes, content, socket>>

killed(i) ==
    /\ Alive(i)
    /\ Exit(i)
    /\ UNCHANGED <<termSent, pipe, path, inodes, content, socket>>

\* What daemon_is_ok() returns to a hook: the pid in the file is of a process.
daemon_is_ok == path # 0 /\ content[path] # Nobody /\ Alive(content[path])

-----------------------------------------------------------------------------
Init ==
    /\ pc = [i \in Daemons |-> "off"]
    /\ parent = [i \in Daemons |-> "none"]
    /\ termSent = [i \in Daemons |-> FALSE]
    /\ pipe = {}
    /\ path = 0
    /\ inodes = 0
    /\ fd = [i \in Daemons |-> 0]
    /\ lock = [n \in Inode |-> Nobody]
    /\ content = [n \in Inode |-> Nobody]
    /\ socket = Nobody
    /\ busName = Nobody

\* What an instance does by itself, once started.
Step(i) ==
    \/ load_abrt_conf_fails(i)
    \/ daemonize(i)
    \/ open_pidfile(i)
    \/ lock_pidfile(i)
    \/ lock_pidfile_fails(i)
    \/ dumpsocket_init(i)
    \/ signal_parent(i)
    \/ enter_main_loop(i)
    \/ on_name_acquired(i)
    \/ on_name_lost(i)
    \/ handle_signal_cb(i)
    \/ unlink_pidfile(i)
    \/ main_returns(i)

Next == \E i \in Daemons : start(i) \/ Step(i) \/ parent_times_out(i) \/ handle_signal(i) \/ killed(i)

Spec == Init /\ [][Next]_vars

\* Every instance is scheduled.
FairSpec == Spec /\ \A i \in Daemons : WF_vars(Step(i))

-----------------------------------------------------------------------------
(* Properties *)

Label == {"off", "setup", "open_pidfile", "lock_pidfile", "socket", "signal_parent",
          "connect_pipe", "main_loop", "unlink_pidfile", "exit", "exited"}

Report == {"none", "waiting", "ok", "failed"}

TypeOK ==
    /\ pc \in [Daemons -> Label]
    /\ parent \in [Daemons -> Report]
    /\ termSent \in [Daemons -> BOOLEAN]
    /\ pipe \subseteq Daemons
    /\ inodes \in 0..Cardinality(Daemons)
    /\ path \in 0..inodes
    /\ fd \in [Daemons -> 0..inodes]
    /\ lock \in [Inode -> Daemons \cup {Nobody}]
    /\ content \in [Inode -> Daemons \cup {Nobody}]
    /\ socket \in Daemons \cup {Nobody}
    /\ busName \in Daemons \cup {Nobody}

\* Instances that passed create_pidfile() and serve, or are about to.
Serving == {i \in Daemons : pc[i] \in {"socket", "signal_parent", "connect_pipe", "main_loop"}}

\* Nobody was asked to stop: the clean-up of abrtd unlinks the pid file by name,
\* and what follows is not true after it.
Undisturbed == \A i \in Daemons : ~termSent[i]

\* "If lock fails, there is another live abrtd" (abrtd.c:546): while instances
\* only fail and die, the lock keeps the others out, ...
OneInstance == Undisturbed => \A i, j \in Serving : i = j

\* ... and the instance in its main loop is the one behind the socket, the pid
\* file and, once it has it, the bus name.
ServingMeansReachable ==
    Undisturbed =>
        \A i \in Daemons : pc[i] = "main_loop" => /\ socket = i
                                                  /\ path # 0 /\ content[path] = i
                                                  /\ daemon_is_ok
                                                  /\ busName \in {Nobody, i}

\* A parent that reports success left an instance that locked the pid file and
\* bound the socket: nobody else has done so since, unless it ended.
ParentReportsStarted ==
    Undisturbed =>
        \A i \in Daemons : parent[i] = "ok" /\ i \in Serving => socket = i /\ lock[fd[i]] = i

\* An instance that started and was not stopped ends up in its main loop, or
\* gives way to one that holds the lock or the bus name.
StartsOrGivesWay ==
    \A i \in Daemons : (pc[i] = "open_pidfile") ~> (pc[i] \in {"main_loop", "exited"})
=============================================================================
