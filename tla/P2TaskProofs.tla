---------------------------- MODULE P2TaskProofs ----------------------------
(***************************************************************************)
(* NewProblem tasks, for any number of clients, tasks and directories:     *)
(* however calls, threads, answers of the daemon and the end of sessions   *)
(* interleave, no temporary directory is forgotten, a canceled task leaves *)
(* nothing, and a problem that was reported as done stays.                 *)
(***************************************************************************)
EXTENDS P2Task, TLAPS

\* The types of what the invariant is about.
Types ==
    /\ session \in [Clients -> {"on", "left", "freed"}]
    /\ status \in [Tasks -> {"none", "NEW", "RUNNING", "STOPPED", "DONE", "FAILED", "CANCELED"}]
    /\ owner \in [Tasks -> Clients \cup {NoClient}]
    /\ wait \in [Tasks -> BOOLEAN]
    /\ obj \in [Tasks -> Dirs \cup {NoDir}]
    /\ thread \in [Tasks -> {"idle", "run", "check", "take", "save", "register", "notify", "answered", "returned"}]
    /\ result \in [Tasks -> {"none", "STOP", "DONE", "CANCELLED", "ERROR", "200", "303", "410", "400"}]
    /\ dir \in [Dirs -> {"none", "temp", "accepted", "deleted"}]
    /\ entry \in [Dirs -> {"none", "NEW", "COMPLETE", "gone"}]
    /\ made \in [Tasks -> SUBSET Dirs]
    /\ refused \subseteq Dirs
    /\ unregistered \subseteq Dirs

\* A directory that was saved and has no entry yet.
OnItsWay(t, d) == thread[t] = "register" /\ dir[d] = "temp" /\ entry[d] = "none"

\* Every directory on the disk was made by a task, and by one only.
MadeInv ==
    /\ \A d \in Dirs : dir[d] # "none" => \E t \in Tasks : d \in made[t]
    /\ \A t \in Tasks : \A d \in made[t] : dir[d] # "none"
    /\ \A t, u \in Tasks : t # u => made[t] \cap made[u] = {}
    /\ \A t \in Tasks : obj[t] # NoDir => obj[t] \in made[t]
    /\ \A d \in refused : entry[d] # "none"
    /\ \A d \in unregistered : dir[d] # "none"
    /\ \A d \in Dirs : dir[d] = "none" => entry[d] = "none"

\* What a task made is deleted, in its p2tnp_obj or on its way there, but for what
\* could not be deleted or registered; at most one is on its way.
SettledInv(t) ==
    /\ \A d \in made[t] :
        dir[d] = "deleted" \/ obj[t] = d \/ OnItsWay(t, d) \/ d \in refused \cup unregistered
    /\ \A d, e \in made[t] : OnItsWay(t, d) /\ OnItsWay(t, e) => d = e

\* A task whose directory was not registered has failed, or is about to.
LostInv(t) ==
    \A d \in made[t] : d \in unregistered =>
        \/ status[t] \in {"FAILED", "CANCELED"}
        \/ status[t] = "RUNNING" /\ thread[t] = "returned" /\ result[t] = "ERROR"

\* What the place of a task's thread says of its directory.
ThreadInv(t) ==
    /\ thread[t] # "idle" <=> status[t] = "RUNNING"
    /\ thread[t] \in {"check", "take", "save", "register"} => obj[t] = NoDir
    /\ thread[t] \in {"notify", "answered"} => obj[t] # NoDir
    /\ thread[t] = "answered" => result[t] \in {"200", "303", "410", "400", "none"}
    /\ thread[t] = "answered" /\ result[t] = "200" => dir[obj[t]] # "temp"
    /\ thread[t] = "answered" /\ result[t] \in {"303", "410"} => dir[obj[t]] = "deleted"
    /\ thread[t] = "returned" => result[t] \in {"STOP", "DONE", "CANCELLED", "ERROR"}
    /\ thread[t] = "returned" /\ result[t] = "STOP" => wait[t]
    /\ thread[t] = "returned" /\ result[t] = "DONE" => obj[t] = NoDir \/ dir[obj[t]] # "temp"
    /\ thread[t] = "returned" /\ result[t] = "ERROR" => obj[t] = NoDir
    /\ thread[t] = "returned" /\ result[t] = "CANCELLED" => t \in cancelled

\* What its status says, and who will end it.
StatusInv(t) ==
    /\ status[t] = "none" => ~wait[t]
    /\ status[t] \in {"none", "NEW", "CANCELED"} => obj[t] = NoDir
    /\ status[t] \in {"DONE", "FAILED"} => obj[t] = NoDir \/ dir[obj[t]] # "temp"
    /\ (status[t] = "STOPPED" /\ obj[t] # NoDir)
         \/ (status[t] = "RUNNING" /\ wait[t] /\ t \notin cancelled)
       => owner[t] \in Clients /\ session[owner[t]] # "freed"

TaskInv(t) == SettledInv(t) /\ LostInv(t) /\ ThreadInv(t) /\ StatusInv(t)

\* The inductive invariant.
Inv == Types /\ MadeInv /\ \A t \in Tasks : TaskInv(t)

-----------------------------------------------------------------------------
\* No task has made anything.
LEMMA InitInv == Init => Inv
<1> SUFFICES ASSUME Init PROVE Inv
  OBVIOUS
<1>1. Types
  BY DEF Init, Types
<1>2. MadeInv
  BY DEF Init, MadeInv
<1>3. ASSUME NEW t \in Tasks PROVE TaskInv(t)
  BY DEF Init, TaskInv, SettledInv, LostInv, ThreadInv, StatusInv
<1> QED  BY <1>1, <1>2, <1>3 DEF Inv

\* A task that a step does not touch keeps its invariant; its directories may be
\* deleted, it may be cancelled, and the deletion of more may be refused.
LEMMA Untouched ==
    ASSUME Inv, NEW u \in Tasks,
           status'[u] = status[u], wait'[u] = wait[u], thread'[u] = thread[u],
           result'[u] = result[u], obj'[u] = obj[u], made'[u] = made[u],
           u \in cancelled => u \in cancelled',
           refused \subseteq refused',
           \A d \in made[u] : d \in unregistered' <=> d \in unregistered,
           \A d \in made[u] :
               dir'[d] = "deleted" \/ (dir'[d] = dir[d] /\ entry'[d] = entry[d]),
           \/ status[u] \notin {"RUNNING", "STOPPED"}
           \/ status[u] = "RUNNING" /\ u \in cancelled'
           \/ owner'[u] = owner[u] /\ (session[owner[u]] # "freed" => session'[owner[u]] # "freed")
    PROVE  TaskInv(u)'
<1>1. TaskInv(u) /\ (obj[u] # NoDir => obj[u] \in made[u])
  BY DEF Inv, MadeInv
<1>2. SettledInv(u)'
  BY <1>1 DEF TaskInv, SettledInv, OnItsWay
<1>3. ThreadInv(u)'
  BY <1>1 DEF TaskInv, ThreadInv
<1>4. StatusInv(u)'
  BY <1>1 DEF TaskInv, StatusInv
<1>5. LostInv(u)'
  BY <1>1 DEF TaskInv, LostInv
<1> QED  BY <1>2, <1>3, <1>4, <1>5 DEF TaskInv

\* What the deletion of the temporary entries of some tasks does.
LEMMA Removed ==
    ASSUME Inv, NEW ts \in SUBSET Tasks, NEW left \in Undeleted(ts),
           RemoveTemporaryEntries(ts, left), made' = made
    PROVE  /\ dir' \in [Dirs -> {"none", "temp", "accepted", "deleted"}]
           /\ entry' \in [Dirs -> {"none", "NEW", "COMPLETE", "gone"}]
           /\ obj' \in [Tasks -> Dirs \cup {NoDir}]
           /\ refused \subseteq refused' /\ refused' \subseteq Dirs /\ unregistered' = unregistered
           /\ \A t \in Tasks : obj'[t] = IF t \in ts THEN NoDir ELSE obj[t]
           /\ \A t \in Tasks \ ts : \A d \in made[t] : dir'[d] = dir[d] /\ entry'[d] = entry[d]
           /\ \A t \in ts : \A d \in made[t] :
                IF d = obj[t] THEN dir'[d] = "deleted" \/ d \in refused'
                ELSE dir'[d] = dir[d] /\ entry'[d] = entry[d]
           /\ MadeInv'
<1> DEFINE ds == {obj[t] : t \in ts} \ {NoDir}
<1>d. TemporaryDirs(ts) = ds /\ left \subseteq ds
  BY DEF TemporaryDirs, Undeleted
<1>t. Types /\ MadeInv
  BY DEF Inv
<1>1. /\ dir' = [d \in Dirs |-> IF d \in ds \ left THEN "deleted" ELSE dir[d]]
      /\ refused' = refused \cup left /\ unregistered' = unregistered
      /\ entry' = [d \in Dirs |-> IF d \in ds THEN "gone" ELSE entry[d]]
      /\ obj' = [t \in Tasks |-> IF t \in ts THEN NoDir ELSE obj[t]]
  BY <1>d DEF RemoveTemporaryEntries
<1>2. \A d \in ds : \E t \in ts : d = obj[t] /\ d \in made[t] /\ d \in Dirs
  BY <1>t DEF MadeInv, Types
<1>3. \A t \in ts : obj[t] # NoDir => obj[t] \in ds
  OBVIOUS
<1> HIDE DEF ds
<1>4. /\ dir' \in [Dirs -> {"none", "temp", "accepted", "deleted"}]
      /\ entry' \in [Dirs -> {"none", "NEW", "COMPLETE", "gone"}]
      /\ obj' \in [Tasks -> Dirs \cup {NoDir}]
      /\ refused \subseteq refused' /\ refused' \subseteq Dirs /\ unregistered' = unregistered
      /\ \A t \in Tasks : obj'[t] = IF t \in ts THEN NoDir ELSE obj[t]
  BY <1>t, <1>d, <1>1, <1>2 DEF Types
<1>5. ASSUME NEW t \in Tasks \ ts, NEW d \in made[t]
      PROVE  dir'[d] = dir[d] /\ entry'[d] = entry[d]
  <2>1. d \in Dirs /\ d \notin ds
    BY <1>t, <1>2 DEF MadeInv, Types
  <2> QED  BY <1>1, <2>1
<1>6. ASSUME NEW t \in ts, NEW d \in made[t]
      PROVE  IF d = obj[t] THEN dir'[d] = "deleted" \/ d \in refused'
             ELSE dir'[d] = dir[d] /\ entry'[d] = entry[d]
  <2>1. d \in Dirs
    BY <1>t DEF Types
  <2>2. CASE d = obj[t]
    BY <1>1, <1>d, <1>3, <1>t, <2>1, <2>2, NobodyAssumption
  <2>3. CASE d # obj[t]
    <3>1. d \notin ds
      BY <1>t, <1>2, <2>3 DEF MadeInv
    <3> QED  BY <1>1, <2>1, <2>3, <3>1
  <2> QED  BY <2>2, <2>3
<1>7. MadeInv'
  <2>1. \A d \in Dirs : dir'[d] = "none" <=> dir[d] = "none"
    BY <1>t, <1>1, <1>2 DEF MadeInv, Types
  <2>2. \A d \in refused' : entry'[d] # "none"
    BY <1>t, <1>d, <1>1, <1>2 DEF MadeInv, Types
  <2>3. \A d \in Dirs : dir'[d] = "none" => entry'[d] = "none"
    BY <1>t, <1>1, <1>2, <2>1 DEF MadeInv
  <2> QED  BY <1>t, <1>4, <2>1, <2>2, <2>3 DEF MadeInv, Types
<1> QED  BY <1>4, <1>5, <1>6, <1>7

-----------------------------------------------------------------------------
\* Steps that change nothing the invariant is about, or only cancel tasks.
LEMMA Frame ==
    ASSUME Inv, UNCHANGED <<session, status, owner, wait, obj, threadVars, dirVars>>,
           cancelled \subseteq cancelled'
    PROVE  Inv'
<1> USE DEF threadVars, dirVars
<1>1. Types' /\ MadeInv'
  BY DEF Inv, Types, MadeInv
<1>2. ASSUME NEW u \in Tasks PROVE TaskInv(u)'
  BY Untouched
<1> QED  BY <1>1, <1>2 DEF Inv

\* Steps of one task that leave the directories alone.
LEMMA OneTask ==
    ASSUME Inv, NEW t \in Tasks, Types', TaskInv(t)',
           UNCHANGED <<session, obj, dirVars>>,
           \A u \in Tasks \ {t} :
               /\ status'[u] = status[u] /\ wait'[u] = wait[u] /\ thread'[u] = thread[u]
               /\ result'[u] = result[u] /\ owner'[u] = owner[u]
               /\ u \in cancelled => u \in cancelled'
    PROVE  Inv'
<1> USE DEF dirVars
<1>1. MadeInv'
  BY DEF Inv, MadeInv
<1>2. ASSUME NEW u \in Tasks \ {t} PROVE TaskInv(u)'
  BY Untouched
<1> QED  BY <1>1, <1>2 DEF Inv

\* NewProblem(): a new task has made nothing, whether it starts at once or not.
LEMMA NewProblemInv ==
    ASSUME Inv, NEW c \in Clients, NEW t \in Tasks, new_problem(c, t)
    PROVE  Inv'
<1>t. Types /\ TaskInv(t)
  BY DEF Inv
<1>u. UNCHANGED <<session, obj, result, dirVars>>
  BY DEF new_problem
<1>1. Types'
  BY <1>t, <1>u DEF Types, new_problem, StartTask, dirVars
<1>2. TaskInv(t)'
  <2>1. status[t] = "none" /\ thread[t] = "idle" /\ obj[t] = NoDir /\ ~wait[t]
    BY <1>t DEF new_problem, TaskInv, ThreadInv, StatusInv
  <2>2. \/ status'[t] = "RUNNING" /\ thread'[t] = "run"
        \/ status'[t] = "NEW" /\ thread'[t] = "idle"
    BY <1>t, <2>1 DEF new_problem, StartTask, Types
  <2>3. wait'[t] => owner'[t] = c /\ session'[c] # "freed"
    <3>1. CASE wait' = wait
      BY <2>1, <3>1
    <3>2. CASE owner' = [owner EXCEPT ![t] = c]
      BY <1>t, <1>u, <3>2 DEF Types, new_problem
    <3> QED  BY <3>1, <3>2 DEF new_problem
  <2>4. SettledInv(t)'
    BY <1>t, <1>u, <2>1, <2>2 DEF TaskInv, SettledInv, OnItsWay, dirVars
  <2>5. ThreadInv(t)'
    BY <1>u, <2>1, <2>2 DEF ThreadInv
  <2>6. StatusInv(t)'
    BY <1>u, <2>1, <2>2, <2>3 DEF StatusInv
  <2>7. LostInv(t)'
    BY <1>t, <1>u, <2>1 DEF TaskInv, LostInv, dirVars
  <2> QED  BY <2>4, <2>5, <2>6, <2>7 DEF TaskInv
<1>3. \A u \in Tasks \ {t} :
         /\ status'[u] = status[u] /\ wait'[u] = wait[u] /\ thread'[u] = thread[u]
         /\ result'[u] = result[u] /\ owner'[u] = owner[u]
         /\ u \in cancelled => u \in cancelled'
  BY <1>t, <1>u DEF Types, new_problem, StartTask
<1> QED  BY <1>1, <1>2, <1>3, <1>u, OneTask

\* Start() runs the thread of a new task, or of a stopped one with its directory.
LEMMA StartInv ==
    ASSUME Inv, NEW t \in Tasks, Start(t), owner[t] \in Clients, session[owner[t]] = "on"
    PROVE  Inv'
<1>t. Types /\ TaskInv(t)
  BY DEF Inv
<1>u. UNCHANGED <<session, owner, wait, obj, result, dirVars>>
  BY DEF Start, clientVars
<1>1. Types'
  BY <1>t, <1>u DEF Types, Start, StartTask, dirVars
<1>2. status[t] \in {"NEW", "STOPPED"} /\ thread[t] = "idle" /\ status'[t] = "RUNNING" /\ thread'[t] = "run"
  BY <1>t DEF Start, StartTask, Types, TaskInv, ThreadInv
<1>3. SettledInv(t)'
  BY <1>t, <1>u, <1>2 DEF TaskInv, SettledInv, OnItsWay, dirVars
<1>4. ThreadInv(t)'
  BY <1>2 DEF ThreadInv
<1>5. StatusInv(t)' /\ LostInv(t)'
  BY <1>t, <1>u, <1>2 DEF TaskInv, StatusInv, LostInv, dirVars
<1>6. \A u \in Tasks \ {t} :
         /\ status'[u] = status[u] /\ wait'[u] = wait[u] /\ thread'[u] = thread[u]
         /\ result'[u] = result[u] /\ owner'[u] = owner[u]
         /\ u \in cancelled => u \in cancelled'
  BY <1>t, <1>u DEF Types, Start, StartTask
<1> QED  BY <1>1, <1>3, <1>4, <1>5, <1>6, <1>u, OneTask DEF TaskInv

\* Finish() takes a task that is done or failed from its owner, and not its directory.
LEMMA FinishInv ==
    ASSUME Inv, NEW t \in Tasks, Finish(t) PROVE Inv'
<1>t. Types /\ TaskInv(t)
  BY DEF Inv
<1>u. UNCHANGED <<session, status, wait, cancelled, obj, threadVars, dirVars>>
  BY DEF Finish
<1>1. Types' /\ \A u \in Tasks \ {t} : owner'[u] = owner[u]
  BY <1>t, <1>u DEF Types, Finish, Disposed, dirVars, threadVars
<1>2. status[t] \notin {"RUNNING", "STOPPED"}
  BY DEF Finish
<1>3. ASSUME NEW u \in Tasks PROVE TaskInv(u)'
  BY <1>1, <1>2, <1>u, Untouched DEF threadVars, dirVars
<1>4. MadeInv'
  BY <1>u DEF Inv, MadeInv, dirVars
<1> QED  BY <1>1, <1>3, <1>4 DEF Inv

\* A step of one task that deletes its temporary entry.
LEMMA OneRemoved ==
    ASSUME Inv, NEW t \in Tasks, NEW left \in Undeleted({t}), RemoveTemporaryEntries({t}, left),
           made' = made, session' = session,
           Types', LostInv(t)', ThreadInv(t)', StatusInv(t)', thread[t] # "register", thread'[t] # "register",
           \A u \in Tasks \ {t} :
               /\ status'[u] = status[u] /\ wait'[u] = wait[u] /\ thread'[u] = thread[u]
               /\ result'[u] = result[u] /\ owner'[u] = owner[u]
               /\ u \in cancelled => u \in cancelled'
    PROVE  Inv'
<1>r. /\ refused \subseteq refused' /\ MadeInv' /\ unregistered' = unregistered
      /\ \A u \in Tasks : obj'[u] = IF u \in {t} THEN NoDir ELSE obj[u]
      /\ \A u \in Tasks \ {t} : \A d \in made[u] : dir'[d] = dir[d] /\ entry'[d] = entry[d]
      /\ \A u \in {t} : \A d \in made[u] :
            IF d = obj[u] THEN dir'[d] = "deleted" \/ d \in refused'
            ELSE dir'[d] = dir[d] /\ entry'[d] = entry[d]
  BY Removed
<1>1. SettledInv(t)'
  <2>1. \A d \in made[t] : dir[d] = "deleted" \/ obj[t] = d \/ d \in refused \cup unregistered
    BY DEF Inv, TaskInv, SettledInv, OnItsWay
  <2>2. \A d \in made[t] : dir'[d] = "deleted" \/ d \in refused' \cup unregistered'
    BY <1>r, <2>1
  <2> QED  BY <2>2 DEF SettledInv, OnItsWay
<1>2. ASSUME NEW u \in Tasks \ {t} PROVE TaskInv(u)'
  BY <1>r, Untouched
<1> QED  BY <1>r, <1>1, <1>2 DEF Inv, TaskInv

\* Cancel() of a running task, whose thread goes on, and of a stopped one.
LEMMA CancelInv ==
    ASSUME Inv, NEW t \in Tasks, CancelCall(t) PROVE Inv'
<1>t. Types /\ TaskInv(t)
  BY DEF Inv
<1>u. UNCHANGED <<session, wait, threadVars>>
  BY DEF CancelCall
<1>1. CASE status[t] = "RUNNING" /\ cancelled' = cancelled \cup {t} /\ UNCHANGED <<status, owner, obj, dirVars>>
  BY <1>1, <1>u, Frame
<1>2. ASSUME NEW left \in Undeleted({t}),
             status[t] = "STOPPED", RemoveTemporaryEntries({t}, left),
             IF left # {} THEN UNCHANGED <<status, owner, exported>>
             ELSE status' = [status EXCEPT ![t] = "CANCELED"] /\ Disposed({t}),
             UNCHANGED <<cancelled, made>>
      PROVE  Inv'
  <2>r. /\ dir' \in [Dirs -> {"none", "temp", "accepted", "deleted"}]
        /\ entry' \in [Dirs -> {"none", "NEW", "COMPLETE", "gone"}]
        /\ obj' \in [Tasks -> Dirs \cup {NoDir}] /\ refused' \subseteq Dirs /\ unregistered' = unregistered
        /\ obj'[t] = NoDir
    BY <1>2, Removed
  <2>1. /\ status' \in [Tasks -> {"none", "NEW", "RUNNING", "STOPPED", "DONE", "FAILED", "CANCELED"}]
        /\ owner' \in [Tasks -> Clients \cup {NoClient}]
        /\ status'[t] \in {"STOPPED", "CANCELED"}
        /\ \A u \in Tasks \ {t} : status'[u] = status[u] /\ owner'[u] = owner[u]
    BY <1>t, <1>2 DEF Types, Disposed
  <2>2. Types'
    BY <1>t, <1>u, <1>2, <2>r, <2>1 DEF Types, threadVars
  <2>3. thread[t] = "idle" /\ thread'[t] = "idle"
    BY <1>t, <1>u, <1>2 DEF TaskInv, ThreadInv, Types, threadVars
  <2>4. ThreadInv(t)' /\ StatusInv(t)' /\ LostInv(t)'
    BY <1>t, <1>2, <2>r, <2>1, <2>3 DEF TaskInv, ThreadInv, StatusInv, LostInv
  <2> QED  BY <1>u, <1>2, <2>1, <2>2, <2>3, <2>4, OneRemoved DEF threadVars
<1> QED  BY <1>1, <1>2 DEF CancelCall, Cancel

-----------------------------------------------------------------------------
\* The thread of a task starts, and goes on with the directory if there is one.
LEMMA RunInv ==
    ASSUME Inv, NEW t \in Tasks, new_problem_run(t) PROVE Inv'
<1>t. Types /\ TaskInv(t)
  BY DEF Inv
<1>u. UNCHANGED <<session, status, owner, wait, cancelled, obj, result, dirVars>> /\ thread[t] = "run"
  BY DEF new_problem_run, clientVars, taskVars
<1>1. \/ obj[t] # NoDir /\ thread' = [thread EXCEPT ![t] = "notify"]
      \/ obj[t] = NoDir /\ thread' = [thread EXCEPT ![t] = "check"]
  BY DEF new_problem_run
<1>2. Types'
  BY <1>t, <1>u, <1>1 DEF Types, dirVars
<1>3. \/ obj[t] # NoDir /\ thread'[t] = "notify"
      \/ obj[t] = NoDir /\ thread'[t] = "check"
  BY <1>t, <1>1 DEF Types
<1>4. SettledInv(t)' /\ LostInv(t)'
  BY <1>t, <1>u, <1>3 DEF TaskInv, SettledInv, LostInv, OnItsWay, dirVars
<1>5. ThreadInv(t)'
  BY <1>t, <1>u, <1>3 DEF TaskInv, ThreadInv
<1>6. StatusInv(t)'
  BY <1>t, <1>u DEF TaskInv, StatusInv, dirVars
<1>7. \A u \in Tasks \ {t} : thread'[u] = thread[u] /\ result'[u] = result[u]
  BY <1>t, <1>u, <1>1 DEF Types
<1> QED  BY <1>2, <1>4, <1>5, <1>6, <1>7, <1>u, OneTask DEF TaskInv

\* The thread compares the counters of its user with the limits.
LEMMA ReadLimitInv ==
    ASSUME Inv, NEW t \in Tasks, user_can_create_new_problem(t) PROVE Inv'
<1>t. Types /\ TaskInv(t)
  BY DEF Inv
<1>u. UNCHANGED <<session, status, owner, wait, cancelled, obj, dirVars>> /\ thread[t] = "check"
  BY DEF user_can_create_new_problem, clientVars, taskVars
<1>1. \/ thread' = [thread EXCEPT ![t] = "returned"] /\ result' = [result EXCEPT ![t] = "ERROR"]
      \/ thread' = [thread EXCEPT ![t] = "take"] /\ result' = result
  BY DEF user_can_create_new_problem, Return
<1>2. Types'
  BY <1>t, <1>u, <1>1 DEF Types, dirVars
<1>3. (thread'[t] = "returned" /\ result'[t] = "ERROR") \/ thread'[t] = "take"
  BY <1>t, <1>1 DEF Types
<1>4. SettledInv(t)' /\ LostInv(t)'
  BY <1>t, <1>u, <1>3 DEF TaskInv, SettledInv, LostInv, OnItsWay, dirVars
<1>5. ThreadInv(t)'
  BY <1>t, <1>u, <1>3 DEF TaskInv, ThreadInv
<1>6. StatusInv(t)'
  BY <1>t, <1>u DEF TaskInv, StatusInv, dirVars
<1>7. \A u \in Tasks \ {t} : thread'[u] = thread[u] /\ result'[u] = result[u]
  BY <1>t, <1>1 DEF Types
<1> QED  BY <1>2, <1>4, <1>5, <1>6, <1>7, <1>u, OneTask DEF TaskInv

\* The thread takes one of the new problems of the user.
LEMMA TakeInv ==
    ASSUME Inv, NEW t \in Tasks, take_new_problem(t) PROVE Inv'
<1>t. Types /\ TaskInv(t)
  BY DEF Inv
<1>u. UNCHANGED <<session, status, owner, wait, cancelled, obj, dirVars>> /\ thread[t] = "take"
  BY DEF take_new_problem, clientVars, taskVars
<1>1. \/ thread' = [thread EXCEPT ![t] = "returned"] /\ result' = [result EXCEPT ![t] = "ERROR"]
      \/ thread' = [thread EXCEPT ![t] = "save"] /\ result' = result
  BY DEF take_new_problem, Return
<1>2. Types'
  BY <1>t, <1>u, <1>1 DEF Types, dirVars
<1>3. (thread'[t] = "returned" /\ result'[t] = "ERROR") \/ thread'[t] = "save"
  BY <1>t, <1>1 DEF Types
<1>4. SettledInv(t)' /\ LostInv(t)'
  BY <1>t, <1>u, <1>3 DEF TaskInv, SettledInv, LostInv, OnItsWay, dirVars
<1>5. ThreadInv(t)'
  BY <1>t, <1>u, <1>3 DEF TaskInv, ThreadInv
<1>6. StatusInv(t)'
  BY <1>t, <1>u DEF TaskInv, StatusInv, dirVars
<1>7. \A u \in Tasks \ {t} : thread'[u] = thread[u] /\ result'[u] = result[u]
  BY <1>t, <1>1 DEF Types
<1> QED  BY <1>2, <1>4, <1>5, <1>6, <1>7, <1>u, OneTask DEF TaskInv

\* The thread makes a directory, which only it knows of until it is registered.
LEMMA SaveInv ==
    ASSUME Inv, NEW t \in Tasks, save_problem(t) PROVE Inv'
<1>t. Types /\ MadeInv /\ TaskInv(t)
  BY DEF Inv
<1>u. /\ UNCHANGED <<session, status, owner, wait, cancelled, obj, entry, refused, unregistered, asked>>
      /\ thread[t] = "save" /\ obj[t] = NoDir
  BY <1>t DEF save_problem, clientVars, taskVars, TaskInv, ThreadInv
<1>1. CASE Return(t, "ERROR") /\ UNCHANGED <<dir, made>>
  <2>1. /\ thread' = [thread EXCEPT ![t] = "returned"] /\ result' = [result EXCEPT ![t] = "ERROR"]
        /\ thread'[t] = "returned" /\ result'[t] = "ERROR"
    BY <1>t, <1>1 DEF Return, Types
  <2>2. Types'
    BY <1>t, <1>u, <1>1, <2>1 DEF Types
  <2>3. SettledInv(t)'
    BY <1>t, <1>u, <1>1, <2>1 DEF TaskInv, SettledInv, OnItsWay
  <2>4. ThreadInv(t)' /\ StatusInv(t)' /\ LostInv(t)'
    BY <1>t, <1>u, <1>1, <2>1 DEF TaskInv, ThreadInv, StatusInv, LostInv
  <2>5. \A u \in Tasks \ {t} : thread'[u] = thread[u] /\ result'[u] = result[u]
    BY <1>t, <2>1 DEF Types
  <2> QED  BY <1>u, <1>1, <2>2, <2>3, <2>4, <2>5, OneTask DEF TaskInv, dirVars
<1>2. ASSUME NEW d \in Dirs, dir[d] = "none",
             dir' = [dir EXCEPT ![d] = "temp"],
             made' = [made EXCEPT ![t] = @ \cup {d}],
             thread' = [thread EXCEPT ![t] = "register"], result' = result
      PROVE  Inv'
  <2>1. /\ Types' /\ dir'[d] = "temp" /\ made'[t] = made[t] \cup {d} /\ thread'[t] = "register"
        /\ \A e \in Dirs \ {d} : dir'[e] = dir[e]
        /\ \A u \in Tasks \ {t} : made'[u] = made[u] /\ thread'[u] = thread[u]
    BY <1>t, <1>u, <1>2 DEF Types
  <2>2. \A u \in Tasks : d \notin made[u] /\ made[u] \subseteq Dirs
    BY <1>t, <1>2 DEF MadeInv, Types
  <2>3. MadeInv'
    <3>1. \A e \in Dirs : dir'[e] # "none" => \E u \in Tasks : e \in made'[u]
      BY <1>t, <2>1 DEF MadeInv
    <3>2. \A u \in Tasks : \A e \in made'[u] : dir'[e] # "none"
      BY <1>t, <2>1, <2>2 DEF MadeInv
    <3>3. \A u, w \in Tasks : u # w => made'[u] \cap made'[w] = {}
      BY <1>t, <2>1, <2>2 DEF MadeInv
    <3>4. \A u \in Tasks : obj'[u] # NoDir => obj'[u] \in made'[u]
      BY <1>t, <1>u, <2>1 DEF MadeInv
    <3>5. \A e \in Dirs : dir'[e] = "none" => entry'[e] = "none"
      BY <1>t, <1>u, <2>1 DEF MadeInv
    <3>6. \A e \in unregistered' : dir'[e] # "none"
      BY <1>t, <1>u, <2>1 DEF MadeInv, Types
    <3> QED  BY <1>t, <1>u, <3>1, <3>2, <3>3, <3>4, <3>5, <3>6 DEF MadeInv
  <2>l. \A e \in made[t] : e \notin unregistered
    BY <1>t, <1>u DEF TaskInv, LostInv, ThreadInv
  <2>4. \A e \in made[t] : dir[e] = "deleted" \/ entry[e] # "none"
    BY <1>t, <1>u, <2>l, NobodyAssumption DEF TaskInv, SettledInv, OnItsWay, MadeInv, Types
  <2>m. d \notin unregistered
    BY <1>t, <1>2 DEF MadeInv
  <2>5. SettledInv(t)'
    <3>1. \A e \in made[t] : e # d /\ dir'[e] = dir[e] /\ ~OnItsWay(t, e)'
      BY <1>u, <2>1, <2>2, <2>4 DEF OnItsWay
    <3>2. \A e \in made[t] : dir'[e] = "deleted" \/ e \in refused'
      BY <1>t, <1>u, <2>l, <2>2, <3>1, NobodyAssumption DEF TaskInv, SettledInv, OnItsWay
    <3>3. OnItsWay(t, d)'
      BY <1>t, <1>u, <1>2, <2>1 DEF OnItsWay, MadeInv
    <3> QED  BY <2>1, <3>1, <3>2, <3>3 DEF SettledInv
  <2>6. ThreadInv(t)' /\ StatusInv(t)' /\ LostInv(t)'
    BY <1>t, <1>u, <2>1, <2>l, <2>m DEF TaskInv, ThreadInv, StatusInv, LostInv
  <2>7. ASSUME NEW u \in Tasks \ {t} PROVE TaskInv(u)'
    <3>1. \A e \in made[u] : dir'[e] = dir[e] /\ entry'[e] = entry[e]
      BY <1>u, <2>1, <2>2
    <3> QED  BY <1>u, <1>2, <2>1, <3>1, Untouched
  <2> QED  BY <2>1, <2>3, <2>5, <2>6, <2>7 DEF Inv, TaskInv
<1> QED  BY <1>1, <1>2 DEF save_problem

\* A step of task t that changes at most what it made.
LEMMA OwnDirs ==
    ASSUME Inv, NEW t \in Tasks, Types', MadeInv', TaskInv(t)',
           UNCHANGED <<session, status, owner, wait, cancelled, made, refused>>,
           \A d \in Dirs \ made[t] : dir'[d] = dir[d] /\ entry'[d] = entry[d],
           \A d \in Dirs \ made[t] : d \in unregistered' <=> d \in unregistered,
           \A u \in Tasks \ {t} : thread'[u] = thread[u] /\ result'[u] = result[u] /\ obj'[u] = obj[u]
    PROVE  Inv'
<1>1. ASSUME NEW u \in Tasks \ {t} PROVE TaskInv(u)'
  <2>1. \A e \in made[u] : e \in Dirs \ made[t]
    BY DEF Inv, MadeInv, Types
  <2> QED  BY <2>1, Untouched
<1> QED  BY <1>1 DEF Inv

\* The thread registers its directory with the service and with its task, or fails to.
LEMMA RegisterInv ==
    ASSUME Inv, NEW t \in Tasks, register_entry(t) PROVE Inv'
<1>t. Types /\ MadeInv /\ TaskInv(t)
  BY DEF Inv
<1>u. /\ UNCHANGED <<session, status, owner, wait, cancelled, dir, made, refused>>
      /\ thread[t] = "register" /\ obj[t] = NoDir /\ status[t] = "RUNNING"
  BY <1>t DEF register_entry, clientVars, TaskInv, ThreadInv
<1>l. \A e \in made[t] : e \notin unregistered
  BY <1>t, <1>u DEF TaskInv, LostInv
<1>1. PICK d \in made[t] :
        /\ dir[d] = "temp" /\ entry[d] = "none"
        /\ \/ /\ unregistered' = unregistered \cup {d}
              /\ Return(t, "ERROR")
              /\ UNCHANGED <<entry, obj>>
           \/ /\ entry' = [entry EXCEPT ![d] = "NEW"]
              /\ obj' = [obj EXCEPT ![t] = d]
              /\ unregistered' = unregistered
              /\ \/ t \in cancelled /\ Return(t, "CANCELLED")
                 \/ wait[t] /\ Return(t, "STOP")
                 \/ thread' = [thread EXCEPT ![t] = "notify"] /\ result' = result
  BY DEF register_entry
<1>2. d \in Dirs /\ d # NoDir
  BY <1>t, <1>1, NobodyAssumption DEF Types
<1>3. \A e \in made[t] : e # d => dir[e] = "deleted" \/ e \in refused
  BY <1>t, <1>u, <1>l, <1>1, <1>2, NobodyAssumption DEF TaskInv, SettledInv, OnItsWay, Types
<1>4. CASE unregistered' = unregistered \cup {d} /\ Return(t, "ERROR") /\ UNCHANGED <<entry, obj>>
  <2>1. /\ thread' = [thread EXCEPT ![t] = "returned"] /\ result' = [result EXCEPT ![t] = "ERROR"]
        /\ thread'[t] = "returned" /\ result'[t] = "ERROR"
    BY <1>t, <1>4 DEF Return, Types
  <2>2. Types'
    BY <1>t, <1>u, <1>2, <1>4, <2>1 DEF Types
  <2>3. MadeInv'
    BY <1>t, <1>u, <1>1, <1>2, <1>4 DEF MadeInv
  <2>4. SettledInv(t)' /\ LostInv(t)'
    BY <1>u, <1>3, <1>4, <2>1 DEF SettledInv, LostInv, OnItsWay
  <2>5. ThreadInv(t)' /\ StatusInv(t)'
    BY <1>t, <1>u, <1>4, <2>1 DEF TaskInv, ThreadInv, StatusInv
  <2>6. \A u \in Tasks \ {t} : thread'[u] = thread[u] /\ result'[u] = result[u] /\ obj'[u] = obj[u]
    BY <1>t, <1>4, <2>1 DEF Types
  <2>7. \A e \in Dirs \ made[t] : e \in unregistered' <=> e \in unregistered
    BY <1>1, <1>4
  <2> QED  BY <1>u, <1>4, <2>2, <2>3, <2>4, <2>5, <2>6, <2>7, OwnDirs DEF TaskInv
<1>5. CASE /\ entry' = [entry EXCEPT ![d] = "NEW"]
           /\ obj' = [obj EXCEPT ![t] = d]
           /\ unregistered' = unregistered
           /\ \/ t \in cancelled /\ Return(t, "CANCELLED")
              \/ wait[t] /\ Return(t, "STOP")
              \/ thread' = [thread EXCEPT ![t] = "notify"] /\ result' = result
  <2>1. obj'[t] = d /\ obj'[t] # NoDir
    BY <1>t, <1>2, <1>5 DEF Types
  <2>2. /\ \/ t \in cancelled /\ thread'[t] = "returned" /\ result'[t] = "CANCELLED"
           \/ wait[t] /\ thread'[t] = "returned" /\ result'[t] = "STOP"
           \/ thread'[t] = "notify"
        /\ thread' \in [Tasks -> {"idle", "run", "check", "take", "save", "register", "notify", "answered", "returned"}]
        /\ result' \in [Tasks -> {"none", "STOP", "DONE", "CANCELLED", "ERROR", "200", "303", "410", "400"}]
        /\ \A u \in Tasks \ {t} : thread'[u] = thread[u] /\ result'[u] = result[u]
    BY <1>t, <1>5 DEF Return, Types
  <2>3. Types'
    BY <1>t, <1>u, <1>2, <1>5, <2>2 DEF Types
  <2>4. \A e \in Dirs \ {d} : dir'[e] = dir[e] /\ entry'[e] = entry[e]
    BY <1>t, <1>u, <1>5 DEF Types
  <2>5. \A u \in Tasks \ {t} : obj'[u] = obj[u]
    BY <1>t, <1>5 DEF Types
  <2>6. MadeInv'
    <3>1. entry'[d] = "NEW" /\ dir'[d] = "temp"
      BY <1>t, <1>u, <1>1, <1>2, <1>5 DEF Types
    <3>2. \A u \in Tasks : obj'[u] # NoDir => obj'[u] \in made[u]
      BY <1>t, <1>1, <2>1, <2>5 DEF MadeInv
    <3> QED  BY <1>t, <1>u, <1>5, <2>4, <3>1, <3>2 DEF MadeInv, Types
  <2>7. SettledInv(t)' /\ LostInv(t)'
    BY <1>u, <1>l, <1>3, <1>5, <2>1, <2>2 DEF SettledInv, LostInv, OnItsWay
  <2>8. ThreadInv(t)'
    BY <1>t, <1>u, <2>1, <2>2 DEF TaskInv, ThreadInv
  <2>9. StatusInv(t)'
    BY <1>t, <1>u DEF TaskInv, StatusInv
  <2>10. \A e \in Dirs \ made[t] : dir'[e] = dir[e] /\ entry'[e] = entry[e]
    BY <1>1, <2>4
  <2> QED  BY <1>u, <1>5, <2>2, <2>3, <2>5, <2>6, <2>7, <2>8, <2>9, <2>10, OwnDirs DEF TaskInv
<1> QED  BY <1>1, <1>4, <1>5

\* abrtd answers, having accepted or deleted the directory.
LEMMA AnswerInv ==
    ASSUME Inv, NEW t \in Tasks, answer(t) PROVE Inv'
<1>t. Types /\ MadeInv /\ TaskInv(t)
  BY DEF Inv
<1>u. /\ UNCHANGED <<session, status, owner, wait, cancelled, obj, entry, made, refused, unregistered>>
      /\ thread[t] = "notify" /\ obj[t] # NoDir /\ obj[t] \in made[t] /\ obj[t] \in Dirs
      /\ status[t] = "RUNNING"
  BY <1>t DEF answer, clientVars, taskVars, TaskInv, ThreadInv, MadeInv, Types
<1>1. PICK r \in {"200", "303", "410", "400", "none"} :
        /\ result' = [result EXCEPT ![t] = r]
        /\ dir' = IF r \in {"303", "410"} THEN [dir EXCEPT ![obj[t]] = "deleted"]
                  ELSE IF r = "200" THEN [dir EXCEPT ![obj[t]] = "accepted"]
                  ELSE dir
  BY DEF answer
<1>2. thread' = [thread EXCEPT ![t] = "answered"]
  BY DEF answer
<1>3. thread'[t] = "answered" /\ result'[t] = r
  BY <1>t, <1>1, <1>2 DEF Types
<1>4. /\ r \in {"303", "410"} => dir'[obj[t]] = "deleted"
      /\ r = "200" => dir'[obj[t]] = "accepted"
      /\ dir'[obj[t]] # "none"
      /\ dir' \in [Dirs -> {"none", "temp", "accepted", "deleted"}]
      /\ \A e \in Dirs \ {obj[t]} : dir'[e] = dir[e]
  BY <1>t, <1>u, <1>1 DEF Types, MadeInv
<1>5. Types'
  BY <1>t, <1>u, <1>1, <1>2, <1>4 DEF Types
<1>6. MadeInv'
  BY <1>t, <1>u, <1>4 DEF MadeInv, Types
<1>7. SettledInv(t)'
  BY <1>t, <1>u, <1>3, <1>4 DEF TaskInv, SettledInv, OnItsWay, Types
<1>8. ThreadInv(t)' /\ StatusInv(t)' /\ LostInv(t)'
  BY <1>t, <1>u, <1>3, <1>4 DEF TaskInv, ThreadInv, StatusInv, LostInv
<1>9. \A u \in Tasks \ {t} : thread'[u] = thread[u] /\ result'[u] = result[u] /\ obj'[u] = obj[u]
  BY <1>t, <1>u, <1>1, <1>2 DEF Types
<1> QED  BY <1>u, <1>4, <1>5, <1>6, <1>7, <1>8, <1>9, OwnDirs DEF TaskInv

\* The thread does with the directory what the answer says.
LEMMA NotifyInv ==
    ASSUME Inv, NEW t \in Tasks, notify_directory_task(t) PROVE Inv'
<1>t. Types /\ MadeInv /\ TaskInv(t)
  BY DEF Inv
<1>u. /\ UNCHANGED <<session, status, owner, wait, cancelled, made>>
      /\ thread[t] = "answered" /\ obj[t] # NoDir /\ obj[t] \in made[t] /\ obj[t] \in Dirs
      /\ status[t] = "RUNNING"
  BY <1>t DEF notify_directory_task, clientVars, TaskInv, ThreadInv, MadeInv, Types
<1>1. CASE /\ result[t] = "200"
           /\ entry' = [entry EXCEPT ![obj[t]] = "COMPLETE"]
           /\ Return(t, "DONE")
           /\ UNCHANGED <<dir, refused, unregistered, obj>>
  <2>1. /\ thread' = [thread EXCEPT ![t] = "returned"] /\ result' = [result EXCEPT ![t] = "DONE"]
        /\ thread'[t] = "returned" /\ result'[t] = "DONE"
    BY <1>t, <1>1 DEF Return, Types
  <2>2. Types'
    BY <1>t, <1>u, <1>1, <2>1 DEF Types
  <2>3. entry'[obj[t]] = "COMPLETE" /\ \A e \in Dirs \ {obj[t]} : entry'[e] = entry[e]
    BY <1>t, <1>u, <1>1 DEF Types
  <2>4. MadeInv'
    BY <1>t, <1>u, <1>1, <2>3 DEF MadeInv, Types
  <2>5. SettledInv(t)'
    BY <1>t, <1>u, <1>1, <2>1 DEF TaskInv, SettledInv, OnItsWay
  <2>6. ThreadInv(t)' /\ StatusInv(t)' /\ LostInv(t)'
    BY <1>t, <1>u, <1>1, <2>1 DEF TaskInv, ThreadInv, StatusInv, LostInv
  <2>7. \A u \in Tasks \ {t} : thread'[u] = thread[u] /\ result'[u] = result[u] /\ obj'[u] = obj[u]
    BY <1>t, <1>1, <2>1 DEF Types
  <2> QED  BY <1>u, <1>1, <2>2, <2>3, <2>4, <2>5, <2>6, <2>7, OwnDirs DEF TaskInv
<1>2. CASE /\ result[t] \in {"303", "410"}
           /\ entry' = [entry EXCEPT ![obj[t]] = "gone"]
           /\ obj' = [obj EXCEPT ![t] = NoDir]
           /\ \E code \in {"DONE", "ERROR"} : Return(t, code)
           /\ UNCHANGED <<dir, refused, unregistered>>
  <2>0. PICK code \in {"DONE", "ERROR"} : Return(t, code)
    BY <1>2
  <2>1. /\ thread' = [thread EXCEPT ![t] = "returned"] /\ result' = [result EXCEPT ![t] = code]
        /\ thread'[t] = "returned" /\ result'[t] = code /\ obj'[t] = NoDir
    BY <1>t, <1>2, <2>0 DEF Return, Types
  <2>2. Types'
    BY <1>t, <1>u, <1>2, <2>1 DEF Types
  <2>3. entry'[obj[t]] = "gone" /\ \A e \in Dirs \ {obj[t]} : entry'[e] = entry[e]
    BY <1>t, <1>u, <1>2 DEF Types
  <2>7. \A u \in Tasks \ {t} : thread'[u] = thread[u] /\ result'[u] = result[u] /\ obj'[u] = obj[u]
    BY <1>t, <1>2, <2>1 DEF Types
  <2>4. MadeInv'
    <3>1. \A u \in Tasks : obj'[u] # NoDir => obj'[u] \in made[u]
      BY <1>t, <2>1, <2>7 DEF MadeInv
    <3> QED  BY <1>t, <1>u, <1>2, <2>3, <3>1 DEF MadeInv, Types
  <2>5. SettledInv(t)'
    <3>1. dir[obj[t]] = "deleted"
      BY <1>t, <1>u, <1>2 DEF TaskInv, ThreadInv
    <3> QED  BY <1>t, <1>u, <1>2, <2>1, <3>1 DEF TaskInv, SettledInv, OnItsWay
  <2>6. ThreadInv(t)' /\ StatusInv(t)' /\ LostInv(t)'
    BY <1>t, <1>u, <1>2, <2>1 DEF TaskInv, ThreadInv, StatusInv, LostInv
  <2> QED  BY <1>u, <1>2, <2>2, <2>3, <2>4, <2>5, <2>6, <2>7, OwnDirs DEF TaskInv
<1>3. ASSUME NEW left \in Undeleted({t}), RemoveTemporaryEntries({t}, left),
             \E code \in {"DONE", "ERROR"} : Return(t, code)
      PROVE  Inv'
  <2>0. PICK code \in {"DONE", "ERROR"} : Return(t, code)
    BY <1>3
  <2>r. /\ dir' \in [Dirs -> {"none", "temp", "accepted", "deleted"}]
        /\ entry' \in [Dirs -> {"none", "NEW", "COMPLETE", "gone"}]
        /\ obj' \in [Tasks -> Dirs \cup {NoDir}] /\ refused' \subseteq Dirs /\ unregistered' = unregistered
        /\ obj'[t] = NoDir
    BY <1>3, <1>u, Removed
  <2>1. /\ thread' = [thread EXCEPT ![t] = "returned"] /\ result' = [result EXCEPT ![t] = code]
        /\ thread'[t] = "returned" /\ result'[t] = code
    BY <1>t, <2>0 DEF Return, Types
  <2>2. Types'
    BY <1>t, <1>u, <2>r, <2>1 DEF Types
  <2>3. ThreadInv(t)' /\ StatusInv(t)' /\ LostInv(t)'
    BY <1>t, <1>u, <2>r, <2>1 DEF TaskInv, ThreadInv, StatusInv, LostInv
  <2>4. \A u \in Tasks \ {t} : thread'[u] = thread[u] /\ result'[u] = result[u]
    BY <1>t, <2>1 DEF Types
  <2> QED  BY <1>u, <1>3, <2>1, <2>2, <2>3, <2>4, OneRemoved
<1> QED  BY <1>1, <1>2, <1>3 DEF notify_directory_task

\* The main loop ends the task of a thread that returned, a cancelled one with its directory.
LEMMA EndInv ==
    ASSUME Inv, NEW t \in Tasks, finish_gtask(t) PROVE Inv'
<1>t. Types /\ MadeInv /\ TaskInv(t)
  BY DEF Inv
<1>u. /\ UNCHANGED <<session, wait, made, asked>>
      /\ thread[t] = "returned" /\ status[t] = "RUNNING"
      /\ result[t] \in {"STOP", "DONE", "CANCELLED", "ERROR"}
      /\ thread' = [thread EXCEPT ![t] = "idle"] /\ result' = [result EXCEPT ![t] = "none"]
      /\ cancelled' = cancelled \ {t}
  BY <1>t DEF finish_gtask, TaskInv, ThreadInv
<1>1. /\ thread'[t] = "idle" /\ result'[t] = "none"
      /\ \A u \in Tasks \ {t} : /\ thread'[u] = thread[u] /\ result'[u] = result[u]
                                 /\ u \in cancelled => u \in cancelled'
  BY <1>t, <1>u DEF Types
<1>2. ASSUME t \in cancelled, NEW left \in Undeleted({t}), RemoveTemporaryEntries({t}, left),
             status' = [status EXCEPT ![t] = "CANCELED"], Disposed({t}) \/ owner' = owner
      PROVE  Inv'
  <2>r. /\ dir' \in [Dirs -> {"none", "temp", "accepted", "deleted"}]
        /\ entry' \in [Dirs -> {"none", "NEW", "COMPLETE", "gone"}]
        /\ obj' \in [Tasks -> Dirs \cup {NoDir}] /\ refused' \subseteq Dirs /\ unregistered' = unregistered
        /\ obj'[t] = NoDir
    BY <1>2, <1>u, Removed
  <2>1. /\ status'[t] = "CANCELED" /\ owner' \in [Tasks -> Clients \cup {NoClient}]
        /\ \A u \in Tasks \ {t} : status'[u] = status[u] /\ owner'[u] = owner[u]
    BY <1>t, <1>2 DEF Types, Disposed
  <2>2. Types'
    BY <1>t, <1>u, <1>2, <2>r, <2>1 DEF Types
  <2>3. ThreadInv(t)' /\ StatusInv(t)' /\ LostInv(t)'
    BY <1>1, <2>r, <2>1 DEF ThreadInv, StatusInv, LostInv
  <2> QED  BY <1>u, <1>1, <1>2, <2>1, <2>2, <2>3, OneRemoved
<1>3. CASE /\ t \notin cancelled
           /\ status' = [status EXCEPT ![t] = StatusOf(result[t])]
           /\ UNCHANGED <<dir, entry, refused, unregistered, obj, owner>>
  <2>1. /\ result[t] # "CANCELLED"
        /\ result[t] = "STOP" => wait[t]
        /\ result[t] = "DONE" => obj[t] = NoDir \/ dir[obj[t]] # "temp"
        /\ result[t] = "ERROR" => obj[t] = NoDir
    BY <1>t, <1>u, <1>3 DEF TaskInv, ThreadInv
  <2>2. /\ result[t] = "STOP" => StatusOf(result[t]) = "STOPPED"
        /\ result[t] = "DONE" => StatusOf(result[t]) = "DONE"
        /\ result[t] = "ERROR" => StatusOf(result[t]) = "FAILED"
    BY DEF StatusOf
  <2>3. StatusOf(result[t]) \in {"STOPPED", "DONE", "FAILED"}
    BY <1>u, <2>1, <2>2
  <2>4. status'[t] = StatusOf(result[t]) /\ \A u \in Tasks \ {t} : status'[u] = status[u]
    BY <1>t, <1>3 DEF Types
  <2>5. Types'
    BY <1>t, <1>u, <1>3, <2>3 DEF Types
  <2>6. SettledInv(t)' /\ LostInv(t)'
    BY <1>t, <1>u, <1>1, <1>3, <2>2, <2>4 DEF TaskInv, SettledInv, LostInv, OnItsWay
  <2>7. ThreadInv(t)'
    BY <1>1, <2>3, <2>4 DEF ThreadInv
  <2>8. StatusInv(t)'
    <3>1. wait[t] => owner[t] \in Clients /\ session[owner[t]] # "freed"
      BY <1>t, <1>u, <1>3 DEF TaskInv, StatusInv
    <3> QED  BY <1>u, <1>3, <2>1, <2>2, <2>3, <2>4, <3>1 DEF StatusInv
  <2> QED  BY <1>u, <1>1, <1>3, <2>4, <2>5, <2>6, <2>7, <2>8, OneTask DEF TaskInv, dirVars
<1> QED  BY <1>2, <1>3 DEF finish_gtask

-----------------------------------------------------------------------------
\* Entries and sessions.
LEMMA RemoveProblemInv ==
    ASSUME Inv, NEW c \in Clients, NEW d \in Dirs, remove_problem(c, d) PROVE Inv'
<1>t. Types /\ MadeInv
  BY DEF Inv
<1>u. /\ UNCHANGED <<session, status, owner, wait, cancelled, obj, threadVars, made, refused, unregistered>>
      /\ dir[d] = "accepted"
  BY DEF remove_problem, clientVars, taskVars
<1>1. /\ dir'[d] = "deleted" /\ entry'[d] = "gone"
      /\ \A e \in Dirs \ {d} : dir'[e] = dir[e] /\ entry'[e] = entry[e]
  BY <1>t DEF Types, remove_problem
<1>2. Types'
  BY <1>t, <1>u DEF Types, remove_problem, threadVars
<1>3. MadeInv'
  BY <1>t, <1>u, <1>1 DEF MadeInv, Types
<1>4. ASSUME NEW u \in Tasks PROVE TaskInv(u)'
  <2>1. \A e \in made[u] : dir'[e] = "deleted" \/ (dir'[e] = dir[e] /\ entry'[e] = entry[e])
    BY <1>t, <1>1 DEF Types
  <2> QED  BY <1>u, <2>1, Untouched DEF threadVars
<1> QED  BY <1>2, <1>3, <1>4 DEF Inv

\* The owner leaves the bus: its tasks lose their handlers and objects, and keep what they made.
LEMMA LeaveInv ==
    ASSUME Inv, NEW c \in Clients, on_g_signal(c) PROVE Inv'
<1>t. Types /\ MadeInv
  BY DEF Inv
<1>u. /\ UNCHANGED <<status, owner, wait, cancelled, obj, threadVars, dirVars>>
      /\ session' = [session EXCEPT ![c] = "left"]
  BY DEF on_g_signal
<1>1. Types' /\ MadeInv'
  BY <1>t, <1>u DEF Types, MadeInv, threadVars, dirVars
<1>2. ASSUME NEW u \in Tasks PROVE TaskInv(u)'
  <2>1. session[owner[u]] # "freed" => session'[owner[u]] # "freed"
    BY <1>t, <1>u DEF Types
  <2> QED  BY <1>u, <2>1, Untouched DEF threadVars, dirVars
<1> QED  BY <1>1, <1>2 DEF Inv

\* The session is freed: running tasks are cancelled, stopped ones lose their directories.
LEMMA DestructorInv ==
    ASSUME Inv, NEW c \in Clients, session_object_destructor(c) PROVE Inv'
<1>t. Types /\ MadeInv
  BY DEF Inv
<1> DEFINE ts == {t \in Tasks : owner[t] = c}
           ss == {t \in ts : status[t] = "STOPPED"}
<1>0. PICK left \in Undeleted(ss) :
        /\ RemoveTemporaryEntries(ss, left)
        /\ status' = [t \in Tasks |-> IF t \in ss /\ obj[t] \notin left THEN "CANCELED" ELSE status[t]]
  BY DEF session_object_destructor, clean_tasks
<1>u. /\ UNCHANGED <<wait, threadVars, made>>
      /\ session' = [session EXCEPT ![c] = "freed"]
      /\ cancelled' = cancelled \cup {t \in ts : status[t] = "RUNNING"}
      /\ owner' = [t \in Tasks |-> IF owner[t] = c THEN NoClient ELSE owner[t]]
  BY DEF session_object_destructor, clean_tasks
<1>s. ss \in SUBSET Tasks
  OBVIOUS
<1>r. /\ dir' \in [Dirs -> {"none", "temp", "accepted", "deleted"}]
      /\ entry' \in [Dirs -> {"none", "NEW", "COMPLETE", "gone"}]
      /\ obj' \in [Tasks -> Dirs \cup {NoDir}]
      /\ refused \subseteq refused' /\ refused' \subseteq Dirs /\ MadeInv' /\ unregistered' = unregistered
      /\ \A t \in Tasks : obj'[t] = IF t \in ss THEN NoDir ELSE obj[t]
      /\ \A t \in Tasks \ ss : \A d \in made[t] : dir'[d] = dir[d] /\ entry'[d] = entry[d]
      /\ \A t \in ss : \A d \in made[t] :
            IF d = obj[t] THEN dir'[d] = "deleted" \/ d \in refused'
            ELSE dir'[d] = dir[d] /\ entry'[d] = entry[d]
  <2> HIDE DEF ss
  <2> QED  BY <1>0, <1>u, <1>s, Removed
<1>1. Types'
  BY <1>t, <1>0, <1>u, <1>r DEF Types, threadVars
<1>2. ASSUME NEW u \in ss PROVE TaskInv(u)'
  <2>1. /\ u \in Tasks /\ status[u] = "STOPPED" /\ thread[u] = "idle" /\ TaskInv(u)
        /\ status'[u] \in {"STOPPED", "CANCELED"} /\ obj'[u] = NoDir /\ thread'[u] = "idle"
    BY <1>t, <1>0, <1>u, <1>r DEF Inv, TaskInv, ThreadInv, Types, threadVars
  <2>l. \A d \in made[u] : d \notin unregistered
    BY <2>1 DEF TaskInv, LostInv
  <2>2. \A d \in made[u] : dir'[d] = "deleted" \/ d \in refused'
    BY <1>r, <2>1, <2>l DEF TaskInv, SettledInv, OnItsWay
  <2>3. SettledInv(u)'
    BY <1>u, <2>1, <2>2 DEF SettledInv, OnItsWay
  <2>4. ThreadInv(u)' /\ StatusInv(u)' /\ LostInv(u)'
    BY <1>u, <1>r, <2>1, <2>l DEF ThreadInv, StatusInv, LostInv
  <2> QED  BY <2>3, <2>4 DEF TaskInv
<1>3. ASSUME NEW u \in Tasks \ ss PROVE TaskInv(u)'
  <2>1. status'[u] = status[u] /\ obj'[u] = obj[u]
    BY <1>0, <1>r
  <2>2. \/ status[u] \notin {"RUNNING", "STOPPED"}
        \/ status[u] = "RUNNING" /\ u \in cancelled'
        \/ owner'[u] = owner[u] /\ (session[owner[u]] # "freed" => session'[owner[u]] # "freed")
    <3>1. CASE owner[u] = c
      BY <1>u, <3>1
    <3>2. CASE owner[u] # c
      BY <1>t, <1>u, <3>2 DEF Types
    <3> QED  BY <3>1, <3>2
  <2>3. \A d \in made[u] : dir'[d] = dir[d] /\ entry'[d] = entry[d]
    BY <1>r
  <2> HIDE DEF ss, ts
  <2>4. u \in cancelled => u \in cancelled'
    BY <1>u
  <2> QED  BY <1>u, <1>r, <2>1, <2>2, <2>3, <2>4, Untouched DEF threadVars
<1> QED  BY <1>1, <1>2, <1>3, <1>r DEF Inv

-----------------------------------------------------------------------------
\* Every call, callback and step of a thread preserves the invariant.
THEOREM Invariance == Spec => []Inv
<1>1. Inv /\ [Next]_vars => Inv'
  <2> SUFFICES ASSUME Inv, [Next]_vars PROVE Inv'
    OBVIOUS
  <2>1. ASSUME NEW c \in Clients, Client(c) PROVE Inv'
    <3>1. ASSUME NEW t \in Tasks, task_object_dbus_method_call(c, t) PROVE Inv'
      BY <3>1, StartInv, CancelInv, FinishInv DEF task_object_dbus_method_call
    <3>2. ASSUME NEW d \in Dirs, save_elements(c, d) PROVE Inv'
      BY <3>2, Frame DEF save_elements, clientVars, taskVars
    <3> QED  BY <2>1, <3>1, <3>2, NewProblemInv, RemoveProblemInv, LeaveInv DEF Client
  <2>2. ASSUME NEW t \in Tasks, Thread(t) PROVE Inv'
    BY <2>2, RunInv, ReadLimitInv, TakeInv, SaveInv, RegisterInv, AnswerInv, NotifyInv DEF Thread
  <2>3. ASSUME NEW d \in Dirs, elements_saved(d) PROVE Inv'
    BY <2>3, Frame DEF elements_saved, clientVars, taskVars
  <2>4. CASE Tick
    BY <2>4, Frame DEF Tick, clientVars, taskVars
  <2>5. CASE UNCHANGED vars
    BY <2>5, Frame DEF vars, clientVars, taskVars
  <2> QED  BY <2>1, <2>2, <2>3, <2>4, <2>5, EndInv, DestructorInv DEF Next
<1> QED  BY <1>1, InitInv, PTL DEF Spec

\* No temporary directory is forgotten and a canceled task leaves nothing, but for
\* directories whose deletion failed or that could not be registered; the task of
\* the latter neither stops nor is done.
THEOREM NothingForgotten == Spec => []NoForgottenDir
<1>1. ASSUME Inv, NEW d \in Dirs, d \notin refused \cup unregistered, dir[d] = "temp"
      PROVE  \E t \in Tasks :
                /\ status[t] \in {"RUNNING", "STOPPED"}
                /\ d \in made[t]
                /\ obj[t] = d \/ thread[t] = "register"
                /\ status[t] = "STOPPED" => \E c \in Clients : owner[t] = c /\ session[c] # "freed"
  <2>1. PICK t \in Tasks : d \in made[t]
    BY <1>1 DEF Inv, MadeInv
  <2>2. obj[t] = d \/ thread[t] = "register"
    BY <1>1, <2>1 DEF Inv, TaskInv, SettledInv, OnItsWay
  <2>3. d # NoDir
    BY NobodyAssumption
  <2>4. status[t] \in {"RUNNING", "STOPPED"}
    BY <1>1, <2>2, <2>3 DEF Inv, Types, TaskInv, ThreadInv, StatusInv
  <2>5. status[t] = "STOPPED" => owner[t] \in Clients /\ session[owner[t]] # "freed"
    BY <1>1, <2>2, <2>3 DEF Inv, TaskInv, ThreadInv, StatusInv
  <2> QED  BY <2>1, <2>2, <2>4, <2>5
<1>2. ASSUME Inv, NEW d \in Dirs, d \notin refused \cup unregistered, NEW t \in Tasks,
             status[t] = "CANCELED", d \in made[t]
      PROVE  dir[d] = "deleted"
  <2>1. obj[t] = NoDir /\ thread[t] = "idle"
    BY <1>2 DEF Inv, Types, TaskInv, ThreadInv, StatusInv
  <2> QED  BY <1>2, <2>1, NobodyAssumption DEF Inv, TaskInv, SettledInv, OnItsWay
<1>3. ASSUME Inv, NEW t \in Tasks, NEW d \in made[t], d \in unregistered
      PROVE  status[t] \notin {"STOPPED", "DONE"}
  BY <1>3 DEF Inv, TaskInv, LostInv
<1>4. Inv => NoForgottenDir
  BY <1>1, <1>2, <1>3 DEF NoForgottenDir
<1> QED  BY <1>4, Invariance, PTL

\* A problem that was reported as done is deleted only if a client asks for it.
THEOREM DoneStays == Spec => DoneIsKept
<1> DEFINE Kept == \A t \in Tasks : \A d \in made[t] :
        status[t] = "DONE" /\ dir[d] = "accepted" /\ dir'[d] = "deleted" => d \in asked'
<1>1. ASSUME Inv, [Next]_vars, NEW t \in Tasks, NEW d \in made[t],
             status[t] = "DONE", dir[d] = "accepted", dir'[d] = "deleted"
      PROVE  d \in asked'
  <2>t. /\ Types /\ MadeInv /\ d \in Dirs
        /\ \A u \in Tasks : obj[u] = d => u = t
        /\ \A u \in Tasks : status[u] # "DONE" => u # t
    BY <1>1, NobodyAssumption DEF Inv, MadeInv, Types
  <2>r. ASSUME NEW ts \in SUBSET Tasks, t \notin ts, NEW left, RemoveTemporaryEntries(ts, left)
        PROVE  FALSE
    <3>1. d \notin {obj[u] : u \in ts}
      BY <2>t, <2>r
    <3>2. dir'[d] = dir[d]
      BY <2>t, <2>r, <3>1 DEF RemoveTemporaryEntries, TemporaryDirs
    <3> QED  BY <1>1, <3>2
  <2>k. CASE dir' = dir
    BY <1>1, <2>k
  <2>1. ASSUME NEW c \in Clients, Client(c) PROVE d \in asked'
    <3>1. ASSUME NEW u \in Tasks, task_object_dbus_method_call(c, u) PROVE d \in asked'
      <4>1. CASE (\E left \in Undeleted({u}) : RemoveTemporaryEntries({u}, left)) /\ status[u] = "STOPPED"
        BY <1>1, <2>t, <2>r, <4>1
      <4> QED  BY <2>k, <3>1, <4>1 DEF task_object_dbus_method_call, Start, CancelCall, Cancel, Finish, dirVars
    <3>2. ASSUME NEW e \in Dirs, remove_problem(c, e) PROVE d \in asked'
      BY <1>1, <2>t, <3>2 DEF remove_problem, Types
    <3> QED  BY <2>1, <2>k, <3>1, <3>2 DEF Client, new_problem, save_elements, on_g_signal, dirVars
  <2>2. ASSUME NEW c \in Clients, session_object_destructor(c) PROVE FALSE
    <3> DEFINE ss == {u \in {v \in Tasks : owner[v] = c} : status[u] = "STOPPED"}
    <3>1. \E left \in Undeleted(ss) : RemoveTemporaryEntries(ss, left)
      BY <2>2 DEF session_object_destructor, clean_tasks
    <3>2. ss \in SUBSET Tasks /\ t \notin ss
      BY <1>1
    <3> QED  BY <2>r, <3>1, <3>2
  <2>3. ASSUME NEW u \in Tasks, Thread(u) PROVE d \in asked'
    <3>1. CASE thread[u] = "idle"
      BY <2>3, <3>1 DEF Thread, new_problem_run, user_can_create_new_problem, take_new_problem, save_problem,
         register_entry, answer, notify_directory_task
    <3>2. CASE thread[u] # "idle"
      <4>1. u # t /\ obj[u] # d
        BY <1>1, <2>t, <3>2 DEF Inv, TaskInv, ThreadInv
      <4>2. CASE answer(u)
        BY <1>1, <2>t, <4>1, <4>2 DEF answer, Types
      <4>3. CASE save_problem(u)
        BY <1>1, <2>t, <4>3 DEF save_problem, Types
      <4>4. CASE notify_directory_task(u)
        BY <2>k, <2>r, <4>1, <4>4 DEF notify_directory_task
      <4> QED  BY <2>3, <2>k, <4>2, <4>3, <4>4 DEF Thread, new_problem_run, user_can_create_new_problem,
                  take_new_problem, register_entry, dirVars
    <3> QED  BY <3>1, <3>2
  <2>4. ASSUME NEW u \in Tasks, finish_gtask(u) PROVE d \in asked'
    <3>1. u # t
      BY <1>1, <2>4 DEF finish_gtask, Inv, TaskInv, ThreadInv
    <3> QED  BY <2>k, <2>r, <2>4, <3>1 DEF finish_gtask
  <2>5. CASE UNCHANGED dir
    BY <2>k, <2>5
  <2> QED  BY <1>1, <2>1, <2>2, <2>3, <2>4, <2>5 DEF Next, Tick, elements_saved, vars, dirVars
<1>2. Inv /\ [Next]_vars => [Kept]_vars
  BY <1>1
<1> QED  BY <1>2, Invariance, PTL DEF Spec, DoneIsKept

=============================================================================
