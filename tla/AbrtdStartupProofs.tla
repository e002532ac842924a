------------------------- MODULE AbrtdStartupProofs -------------------------
(***************************************************************************)
(* The lock on the pid file keeps a second abrtd out, for any number of    *)
(* instances that start, fail and are killed at any point - until one is   *)
(* stopped with SIGTERM, whose clean-up unlinks the file, perhaps the one  *)
(* that the next instance has just opened: after that two may serve.       *)
(***************************************************************************)
EXTENDS AbrtdStartup, FiniteSetTheorems, TLAPS

\* Instances that have the pid file open.
Opened == {i \in Daemons : pc[i] \in {"lock_pidfile", "socket", "signal_parent",
                                     "connect_pipe", "main_loop"}}

\* Instances that bound the socket.
Bound == {i \in Daemons : pc[i] \in {"signal_parent", "connect_pipe", "main_loop"}}

\* The types the argument needs.
Shapes ==
    /\ pc \in [Daemons -> Label]
    /\ parent \in [Daemons -> Report]
    /\ fd \in [Daemons -> Nat]
    /\ lock \in [Inode -> Daemons \cup {Nobody}]
    /\ content \in [Inode -> Daemons \cup {Nobody}]
    /\ busName \in Daemons \cup {Nobody}

\* There is one pid file, and it is never replaced.
OneFile ==
    /\ inodes \in {0, 1} /\ path = inodes
    /\ \A i \in Opened : inodes = 1 /\ fd[i] = 1

\* A flag set by a signal stays.
Signalless == termSent \in [Daemons -> BOOLEAN]

\* Nobody is asked to stop, so nobody cleans up.
NobodyStops ==
    /\ pipe = {}
    /\ \A i \in Daemons : pc[i] \notin {"unlink_pidfile", "exit"}

\* Who serves has the lock and its pid in the file, and past the bind the socket.
Owner == \A i \in Serving : lock[1] = i /\ content[1] = i
SocketOwner == \A i \in Bound : socket = i

\* The bus name is that of an instance in its main loop.
NameOwner == busName # Nobody => pc[busName] = "main_loop"

Inv == Shapes /\ OneFile /\ NobodyStops /\ Owner /\ SocketOwner /\ NameOwner

\* With an instance there is an inode.
LEMMA FirstInode == \A i \in Daemons : 1 \in Inode
<1> SUFFICES ASSUME NEW i \in Daemons PROVE 1 \in Inode
  OBVIOUS
<1>1. Cardinality(Daemons) \in Nat /\ Cardinality(Daemons) # 0
  BY DaemonsAssumption, FS_CardinalityType, FS_EmptySet
<1> QED
  BY <1>1 DEF Inode

\* Who has the pid file open finds it in place.
LEMMA FilePresent == OneFile => \A i \in Opened : path # 0
<1> SUFFICES ASSUME OneFile, NEW i \in Opened PROVE path # 0
  OBVIOUS
<1>1. path = 1
  BY DEF OneFile
<1> QED
  BY <1>1

\* The end of a process leaves what the others have alone.
LEMMA ExitKeepsInv ==
    ASSUME Inv, NEW i \in Daemons, Exit(i), UNCHANGED <<pipe, path, inodes, content, socket>>
    PROVE  Inv'
<1> USE DEF Inv, Label, Report
<1>1. \A j \in Daemons : pc'[j] = IF j = i THEN "exited" ELSE pc[j]
  BY DEF Exit, Goto, Shapes
<1>2. Shapes'
  BY DEF Shapes, Exit, Goto
<1>3. OneFile'
  BY <1>1 DEF OneFile, Opened, Shapes, Exit
<1>4. NobodyStops'
  BY <1>1 DEF NobodyStops
<1>5. Owner'
  <2> SUFFICES ASSUME NEW j \in Serving' PROVE lock'[1] = j /\ content'[1] = j
    BY DEF Owner
  <2>1. j \in Serving /\ j # i
    BY <1>1 DEF Serving
  <2>2. lock[1] = j /\ content[1] = j /\ j \in Daemons
    BY <2>1 DEF Owner, Serving
  <2> QED
    BY <2>1, <2>2, FirstInode DEF Exit, Shapes
<1>6. SocketOwner'
  BY <1>1 DEF SocketOwner, Bound
<1>7. NameOwner'
  BY <1>1, DaemonsAssumption DEF NameOwner, Exit, Shapes
<1> QED
  BY <1>2, <1>3, <1>4, <1>5, <1>6, <1>7

\* No instance runs and nobody holds the pid file, the socket or the name at first.
LEMMA InitInv == Init => Inv
<1> SUFFICES ASSUME Init PROVE Inv
  OBVIOUS
<1> QED
  BY DEF Label, Report, Init, Inv, Shapes, OneFile, NobodyStops, Owner, SocketOwner, NameOwner,
         Opened, Bound, Serving

\* Every step of an instance, of its parent or of its surroundings.
LEMMA NextInv == Signalless /\ Undisturbed' /\ Inv /\ [Next]_vars => Inv'
<1> SUFFICES ASSUME Signalless, Undisturbed', Inv, [Next]_vars PROVE Inv'
  OBVIOUS
<1> USE DEF Inv, Label, Report
<1>1. CASE UNCHANGED vars
  BY <1>1 DEF vars, Shapes, OneFile, NobodyStops, Owner, SocketOwner, NameOwner,
              Opened, Bound, Serving
<1>2. ASSUME NEW i \in Daemons, start(i) \/ Step(i) \/ parent_times_out(i) \/ handle_signal(i) \/ killed(i)
      PROVE  Inv'
  <2> USE DEF Goto
  <2>1. CASE start(i) \/ daemonize(i) \/ parent_times_out(i)
    <3>1. UNCHANGED <<pipe, path, inodes, fd, lock, content, socket, busName>>
      BY <2>1 DEF start, daemonize, parent_times_out
    <3>2. pc' \in [Daemons -> Label] /\ parent' \in [Daemons -> Report]
      BY <2>1 DEF start, daemonize, parent_times_out, Shapes
    <3>3. \A j \in Daemons :
            pc'[j] = pc[j] \/ (pc[j] \in {"off", "setup"} /\ pc'[j] \in {"setup", "open_pidfile"})
      BY <2>1 DEF start, daemonize, parent_times_out, Shapes
    <3> QED
      BY <3>1, <3>2, <3>3, DaemonsAssumption
         DEF Shapes, OneFile, NobodyStops, Owner, SocketOwner, NameOwner, Opened, Bound, Serving
  <2>2. CASE open_pidfile(i)
    <3>1. \A j \in Daemons : pc'[j] = IF j = i THEN "lock_pidfile" ELSE pc[j]
      BY <2>2 DEF open_pidfile, Shapes
    <3>2. path' = 1 /\ inodes' = 1 /\ fd' = [fd EXCEPT ![i] = 1]
      <4>1. path = inodes /\ inodes \in {0, 1}
        BY DEF OneFile
      <4>2. IF path # 0
            THEN fd' = [fd EXCEPT ![i] = path] /\ path' = path /\ inodes' = inodes
            ELSE fd' = [fd EXCEPT ![i] = inodes + 1] /\ path' = inodes + 1 /\ inodes' = inodes + 1
        BY <2>2 DEF open_pidfile
      <4>3. IF path # 0 THEN path = 1 ELSE inodes + 1 = 1
        BY <4>1
      <4> HIDE DEF Inv
      <4>4. CASE path # 0
        BY <4>1, <4>2, <4>3, <4>4
      <4>5. CASE path = 0
        BY <4>2, <4>3, <4>5
      <4> QED
        BY <4>4, <4>5
    <3>3. UNCHANGED <<parent, pipe, lock, content, socket, busName>> /\ pc[i] = "open_pidfile"
      BY <2>2 DEF open_pidfile
    <3>4. Shapes'
      BY <2>2, <3>2, <3>3 DEF Shapes, open_pidfile
    <3>5. OneFile'
      BY <3>1, <3>2 DEF OneFile, Opened, Shapes
    <3> QED
      BY <3>1, <3>3, <3>4, <3>5, DaemonsAssumption
         DEF NobodyStops, Owner, SocketOwner, NameOwner, Bound, Serving, Shapes
  <2>3. CASE lock_pidfile(i)
    <3>1. \A j \in Daemons : pc'[j] = IF j = i THEN "socket" ELSE pc[j]
      BY <2>3 DEF lock_pidfile, Shapes
    <3>2. fd[i] = 1 /\ inodes = 1 /\ pc[i] = "lock_pidfile"
      BY <2>3 DEF lock_pidfile, OneFile, Opened
    <3>3. Serving = {}
      BY <2>3, <3>2, DaemonsAssumption DEF lock_pidfile, Owner, Serving
    <3>4. lock'[1] = i /\ content'[1] = i
      BY <2>3, <3>2, FirstInode DEF lock_pidfile, Shapes
    <3>5. Shapes'
      BY <2>3 DEF lock_pidfile, Shapes
    <3>6. UNCHANGED <<parent, pipe, path, inodes, fd, socket, busName>>
      BY <2>3 DEF lock_pidfile
    <3>7. Owner'
      BY <3>1, <3>3, <3>4 DEF Owner, Serving
    <3> QED
      BY <3>1, <3>2, <3>5, <3>6, <3>7, DaemonsAssumption
         DEF OneFile, NobodyStops, SocketOwner, NameOwner, Opened, Bound, Shapes
  <2>4. CASE dumpsocket_init(i)
    <3>1. \A j \in Daemons : pc'[j] = IF j = i THEN "signal_parent" ELSE pc[j]
      BY <2>4 DEF dumpsocket_init, Shapes
    <3>2. \A j \in Bound : j = i
      BY <2>4 DEF dumpsocket_init, Owner, Serving, Bound
    <3>3. SocketOwner'
      BY <2>4, <3>1, <3>2 DEF SocketOwner, Bound, dumpsocket_init
    <3> QED
      BY <2>4, <3>1, <3>3, DaemonsAssumption
         DEF dumpsocket_init, Shapes, OneFile, NobodyStops, Owner, NameOwner, Opened, Serving
  <2>5. CASE signal_parent(i)
    BY <2>5, DaemonsAssumption
       DEF signal_parent, Shapes, OneFile, NobodyStops, Owner, SocketOwner, NameOwner,
           Opened, Bound, Serving
  <2>6. CASE enter_main_loop(i) \/ on_name_acquired(i)
    BY <2>6, DaemonsAssumption
       DEF enter_main_loop, on_name_acquired, Shapes, OneFile, NobodyStops, Owner,
           SocketOwner, NameOwner, Opened, Bound, Serving
  <2>7. CASE load_abrt_conf_fails(i) \/ lock_pidfile_fails(i) \/ on_name_lost(i)
             \/ main_returns(i) \/ killed(i)
    BY <2>7, ExitKeepsInv
       DEF load_abrt_conf_fails, lock_pidfile_fails, on_name_lost, main_returns, killed
  <2>8. ~handle_signal(i) /\ ~handle_signal_cb(i) /\ ~unlink_pidfile(i)
    BY DEF handle_signal, handle_signal_cb, unlink_pidfile, NobodyStops, Signalless, Undisturbed
  <2> QED
    BY <1>2, <2>1, <2>2, <2>3, <2>4, <2>5, <2>6, <2>7, <2>8 DEF Step
<1> QED
  BY <1>1, <1>2 DEF Next

\* Once undisturbed no more, an instance never is again.
LEMMA StaysDisturbed == Signalless /\ [Next]_vars => Signalless' /\ (Undisturbed' => Undisturbed)
<1> SUFFICES ASSUME Signalless, [Next]_vars
             PROVE  Signalless' /\ (Undisturbed' => Undisturbed)
  OBVIOUS
<1>1. ASSUME NEW i \in Daemons, handle_signal(i)
      PROVE  Signalless' /\ (Undisturbed' => Undisturbed)
  BY <1>1 DEF handle_signal, Signalless, Undisturbed
<1>2. CASE UNCHANGED termSent
  BY <1>2 DEF Signalless, Undisturbed
<1>3. UNCHANGED termSent \/ \E i \in Daemons : handle_signal(i)
  BY DEF Next, Step, vars, start, load_abrt_conf_fails, daemonize, parent_times_out,
         open_pidfile, lock_pidfile, lock_pidfile_fails, dumpsocket_init, signal_parent,
         enter_main_loop, on_name_acquired, on_name_lost, handle_signal_cb, unlink_pidfile,
         main_returns, killed
<1> QED
  BY <1>1, <1>2, <1>3

\* Until the first SIGTERM the invariant holds.
THEOREM InvHolds == Spec => [](Undisturbed => Inv)
<1>1. Init => Signalless /\ (Undisturbed => Inv)
  BY InitInv DEF Init, Signalless
<1>2. Signalless /\ (Undisturbed => Inv) /\ [Next]_vars => (Signalless /\ (Undisturbed => Inv))'
  BY NextInv, StaysDisturbed
<1> QED
  BY <1>1, <1>2, PTL DEF Spec

\* create_pidfile(): until an instance is stopped, the lock lets one serve.
THEOREM LockExcludes == Spec => []OneInstance
<1>1. (Undisturbed => Inv) => OneInstance
  BY DEF Inv, OneInstance, Owner
<1> QED
  BY <1>1, InvHolds, PTL

\* main() past its set-up: the instance in its main loop has the socket, the
\* pid file and, if anybody, the bus name.
THEOREM Reachable == Spec => []ServingMeansReachable
<1>1. (Undisturbed => Inv) => ServingMeansReachable
  <2> SUFFICES ASSUME Inv, NEW i \in Daemons, pc[i] = "main_loop"
               PROVE  /\ socket = i /\ path # 0 /\ content[path] = i
                      /\ daemon_is_ok /\ busName \in {Nobody, i}
    BY DEF ServingMeansReachable
  <2>1. i \in Serving /\ i \in Bound /\ i \in Opened
    BY DEF Serving, Bound, Opened
  <2>2. path = 1 /\ content[1] = i /\ socket = i
    BY <2>1 DEF Inv, OneFile, Owner, SocketOwner
  <2>3. ASSUME busName # Nobody PROVE busName = i
    <3>1. busName \in Serving
      BY <2>3 DEF Inv, Shapes, NameOwner, Serving
    <3> QED
      BY <2>1, <3>1 DEF Inv, Owner
  <2>4. path # 0
    BY <2>1, FilePresent DEF Inv
  <2>5. content[path] = i
    BY <2>2
  <2>6. busName \in {Nobody, i}
    BY <2>3
  <2>7. daemon_is_ok
    BY <2>4, <2>5, DaemonsAssumption DEF daemon_is_ok, Alive
  <2> QED
    BY <2>2, <2>4, <2>5, <2>6, <2>7
<1> QED
  BY <1>1, InvHolds, PTL

\* signal_parent: a parent that exits with 0 left an instance with lock and socket.
THEOREM ParentRight == Spec => []ParentReportsStarted
<1> DEFINE Early(i) == pc[i] \in {"off", "setup", "open_pidfile", "lock_pidfile", "socket"}
           P == /\ parent \in [Daemons -> Report] /\ pc \in [Daemons -> Label]
                /\ termSent \in [Daemons -> BOOLEAN]
                /\ \A i \in Daemons : Early(i) /\ ~termSent[i] => parent[i] # "ok"
<1> USE DEF Label, Report
<1>1. Init => P
  BY DEF Init
<1>2. P /\ [Next]_vars => P'
  <2> SUFFICES ASSUME P, [Next]_vars PROVE P'
    OBVIOUS
  <2>1. CASE UNCHANGED vars
    BY <2>1 DEF vars
  <2>2. ASSUME NEW i \in Daemons, start(i) \/ Step(i) \/ parent_times_out(i) \/ handle_signal(i) \/ killed(i)
        PROVE  P'
    <3>1. CASE start(i) \/ load_abrt_conf_fails(i) \/ open_pidfile(i)
      BY <3>1 DEF start, load_abrt_conf_fails, open_pidfile, Goto, Exit
    <3>2. CASE daemonize(i)
      <4>1. PICK p \in {"none", IF termSent[i] THEN "ok" ELSE "waiting"} :
              parent' = [parent EXCEPT ![i] = p]
        BY <3>2 DEF daemonize
      <4>2. p \in Report /\ (~termSent[i] => p # "ok")
        OBVIOUS
      <4>3. pc' = [pc EXCEPT ![i] = "open_pidfile"] /\ termSent' = termSent /\ pc[i] = "setup"
        BY <3>2 DEF daemonize, Goto
      <4> QED
        BY <4>1, <4>2, <4>3
    <3>3. CASE lock_pidfile(i) \/ lock_pidfile_fails(i) \/ dumpsocket_init(i) \/ signal_parent(i)
      BY <3>3 DEF lock_pidfile, lock_pidfile_fails, dumpsocket_init, signal_parent, Goto, Exit
    <3>4. CASE enter_main_loop(i) \/ on_name_acquired(i) \/ on_name_lost(i) \/ handle_signal_cb(i)
      BY <3>4 DEF enter_main_loop, on_name_acquired, on_name_lost, handle_signal_cb, Goto, Exit
    <3>5. CASE unlink_pidfile(i) \/ main_returns(i) \/ killed(i) \/ parent_times_out(i)
      BY <3>5 DEF unlink_pidfile, main_returns, killed, parent_times_out, Goto, Exit
    <3>6. CASE handle_signal(i)
      BY <3>6 DEF handle_signal
    <3> QED
      BY <2>2, <3>1, <3>2, <3>3, <3>4, <3>5, <3>6 DEF Step
  <2> QED
    BY <2>1, <2>2 DEF Next
<1>3. P /\ (Undisturbed => Inv) => ParentReportsStarted
  <2> SUFFICES ASSUME P, Inv, Undisturbed, NEW i \in Daemons, parent[i] = "ok", i \in Serving
               PROVE  socket = i /\ lock[fd[i]] = i
    BY DEF ParentReportsStarted
  <2>1. i \in Bound /\ i \in Opened
    BY DEF Serving, Bound, Opened, Undisturbed
  <2> QED
    BY <2>1 DEF Inv, SocketOwner, Owner, OneFile
<1> QED
  BY <1>1, <1>2, <1>3, InvHolds, PTL DEF Spec
=============================================================================
