------------------------------- MODULE P2Task -------------------------------
(***************************************************************************)
(* NewProblem tasks of the problems2 D-Bus service:                        *)
(* abrt_problems2_task.c, abrt_problems2_task_new_problem.c and the task,  *)
(* entry and limit code of abrt_problems2_service.c.  The main loop runs   *)
(* one handler at a time; a task runs in a thread of its own, and so does  *)
(* every SaveElements call.  All clients belong to one user who is not     *)
(* root and has no authorization.  Sessions are in P2Session, what         *)
(* SaveElements writes is in P2Entry, and the daemon that answers the      *)
(* notification is in PostCreate.                                          *)
(***************************************************************************)
EXTENDS Naturals, FiniteSets

CONSTANTS
    Clients, NoClient,
    Tasks,              \* numbers of the NewProblem calls: bounds them
    Dirs, NoDir,        \* numbers of the directories made: bounds them
    Stubborn,           \* directories whose deletion may fail: another process
                        \* has the lock, or a file cannot be removed
    UserProblemsLimit,  \* p2srv_limit_user_problems
    Batch,              \* p2srv_limit_new_problems_batch
    Interval,           \* 2 ^ p2srv_limit_new_problem_throttling_magnitude seconds
    UintMax,            \* of new_problems
    MaxTime             \* bound of the clock

ASSUME NobodyAssumption == NoClient \notin Clients /\ NoDir \notin Dirs
ASSUME StubbornAssumption == Stubborn \subseteq Dirs
ASSUME FiniteAssumption ==
    Tasks \subseteq Nat /\ IsFiniteSet(Tasks) /\ Dirs \subseteq Nat /\ IsFiniteSet(Dirs)
ASSUME NumbersAssumption ==
    /\ UserProblemsLimit \in Nat \ {0} /\ Batch \in Nat /\ Interval \in Nat \ {0}
    /\ UintMax \in Nat /\ UintMax > Batch /\ MaxTime \in Nat

VARIABLES
    session,        \* of a client: "on", "left" (unregistered), "freed"
    status,         \* p2t_status, "none" before the call
    owner,          \* the client with the task in its p2s_tasks
    wait,           \* p2tnp_wait_before_notify
    handler,        \* what is connected to "status-changed": "none",
                    \* "autonomous", "cancel", "delayed" (dispose)
    exported,       \* tasks with an object on the bus
    cancelled,      \* tasks whose p2t_cancellable is cancelled
    obj,            \* p2tnp_obj: the entry it stands for
    thread,         \* where the thread of the task is
    current,        \* the time its thread has read, 0 before and after
    result,         \* what it returned: a task code, or the daemon's answer
    dir,            \* directories: "none", "temp", "accepted", "deleted"
    entry,          \* their entries: "none", "NEW", "COMPLETE", "gone"
    saving,         \* directories a SaveElements thread has locked
    made,           \* directories a task made, history
    refused,        \* directories whose deletion failed, history
    unregistered,   \* directories that did not get an entry, history
    asked,          \* directories a client asked to delete, history
    problems, new_problems, new_problem_last,   \* struct user_info
    allowed,        \* problems the throttling let pass, history
    now

clientVars == <<session, exported>>
taskVars == <<status, owner, wait, handler, cancelled, obj>>
threadVars == <<thread, result, current>>
dirVars == <<dir, entry, made, refused, unregistered, asked>>
userVars == <<problems, new_problems, new_problem_last, allowed>>
vars == <<clientVars, taskVars, threadVars, dirVars, saving, userVars, now>>

Start0 == Interval * (Batch + 1)    \* the first call finds a full batch
-----------------------------------------------------------------------------
\* abrt_p2_entry_delete() as root, which does not wait for the lock: the
\* directories of the tasks ts that it may leave on the disk.
TemporaryDirs(ts) == {obj[t] : t \in ts} \ {NoDir}
Undeleted(ts) ==
    {ds \in SUBSET TemporaryDirs(ts) : TemporaryDirs(ts) \cap saving \subseteq ds /\ ds \subseteq saving \cup Stubborn}

\* The deletion of the temporary entries of several tasks, and the end of their
\* objects, whether the directories are gone or left.
RemoveTemporaryEntries(ts, left) ==
    /\ dir' = [d \in Dirs |-> IF d \in TemporaryDirs(ts) \ left THEN "deleted" ELSE dir[d]]
    /\ refused' = refused \cup left
    /\ entry' = [d \in Dirs |-> IF d \in TemporaryDirs(ts) THEN "gone" ELSE entry[d]]
    /\ obj' = [t \in Tasks |-> IF t \in ts THEN NoDir ELSE obj[t]]
    /\ UNCHANGED unregistered

\* abrt_p2_task_start(): the thread starts at once.
StartTask(t) ==
    /\ status' = [status EXCEPT ![t] = "RUNNING"]
    /\ cancelled' = cancelled \ {t}
    /\ thread' = [thread EXCEPT ![t] = "run"]

\* NewProblem.  Flag 0x1: the task has an object, 0x2: it waits before it
\* notifies, 0x4: it starts at once.
new_problem(c, t) ==
    /\ session[c] = "on" /\ status[t] = "none"
    /\ \A u \in Tasks : u < t => status[u] # "none"
    /\ \/ /\ handler' = [handler EXCEPT ![t] = "autonomous"]
          /\ StartTask(t)
          /\ UNCHANGED <<owner, wait, exported>>
       \/ /\ owner' = [owner EXCEPT ![t] = c]
          /\ exported' = exported \cup {t}
          /\ \E w \in BOOLEAN : wait' = [wait EXCEPT ![t] = w]
          /\ \/ StartTask(t)
             \/ /\ status' = [status EXCEPT ![t] = "NEW"]
                /\ UNCHANGED <<cancelled, thread>>
          /\ UNCHANGED handler
    /\ UNCHANGED <<session, obj, result, current, dirVars, saving, userVars, now>>

Start(t) ==
    /\ status[t] \in {"NEW", "STOPPED"}
    /\ StartTask(t)
    /\ UNCHANGED <<clientVars, owner, wait, handler, obj, result, current, dirVars, saving, userVars, now>>

\* task_object_on_canceled_task() and Finish: the task leaves its session and
\* the bus.
Disposed(ts) ==
    /\ owner' = [t \in Tasks |-> IF t \in ts THEN NoClient ELSE owner[t]]
    /\ exported' = exported \ ts

\* Cancel.  The handler is connected first, and disconnected after an error.  A
\* second Cancel connects it again; both run then, and the second finds nothing
\* to do but give up references, which are not part of the state here.
Cancel(t) ==
    \/ /\ status[t] = "RUNNING"
       /\ cancelled' = cancelled \cup {t}
       /\ handler' = [handler EXCEPT ![t] = "cancel"]
       /\ UNCHANGED <<exported, status, owner, obj, dirVars>>
    \/ /\ status[t] = "STOPPED"
       /\ \E left \in Undeleted({t}) :
            /\ RemoveTemporaryEntries({t}, left)
            /\ IF left # {}
               THEN UNCHANGED <<status, owner, exported>>
               ELSE status' = [status EXCEPT ![t] = "CANCELED"] /\ Disposed({t})
       /\ UNCHANGED <<handler, cancelled, made, asked>>

CancelCall(t) ==
    /\ Cancel(t)
    /\ UNCHANGED <<session, wait, threadVars, saving, userVars, now>>

Finish(t) ==
    /\ status[t] \in {"DONE", "FAILED"}
    /\ Disposed({t})
    /\ UNCHANGED <<session, status, wait, handler, cancelled, obj, threadVars, dirVars, saving, userVars, now>>

\* Only the session with the task in its list may call it.
task_object_dbus_method_call(c, t) ==
    /\ session[c] = "on" /\ owner[t] = c /\ t \in exported
    /\ Start(t) \/ CancelCall(t) \/ Finish(t)
-----------------------------------------------------------------------------
\* The thread of a task returns.
Return(t, code) ==
    /\ thread' = [thread EXCEPT ![t] = "returned"]
    /\ result' = [result EXCEPT ![t] = code]

\* A thread with an entry goes on with it; another one first reads the clock.
new_problem_run(t) ==
    /\ thread[t] = "run"
    /\ \/ /\ obj[t] # NoDir
          /\ thread' = [thread EXCEPT ![t] = "notify"]
          /\ UNCHANGED current
       \/ /\ obj[t] = NoDir
          /\ thread' = [thread EXCEPT ![t] = "check"]
          /\ current' = [current EXCEPT ![t] = now]
    /\ UNCHANGED <<clientVars, taskVars, result, dirVars, saving, userVars, now>>

\* new_problems is read, refilled and compared without a lock, here ...
Refilled(time) ==
    LET incr == (time - new_problem_last) \div Interval
        sum == (new_problems + incr) % (UintMax + 1)
    IN  IF incr > Batch \/ sum > Batch THEN Batch ELSE sum

AtLimit == problems >= UserProblemsLimit

user_can_create_new_problem(t) ==
    /\ thread[t] = "check"
    /\ \/ /\ AtLimit \/ current[t] < new_problem_last
          /\ Return(t, "ERROR")
          /\ current' = [current EXCEPT ![t] = 0]
          /\ UNCHANGED new_problems
       \/ /\ ~AtLimit /\ current[t] >= new_problem_last
          /\ new_problems' = Refilled(current[t])
          /\ IF Refilled(current[t]) = 0
             THEN Return(t, "ERROR") /\ current' = [current EXCEPT ![t] = 0]
             ELSE thread' = [thread EXCEPT ![t] = "take"] /\ UNCHANGED <<result, current>>
    /\ UNCHANGED <<clientVars, taskVars, dirVars, saving, problems, new_problem_last, allowed, now>>

\* ... and decremented here.
take_new_problem(t) ==
    /\ thread[t] = "take"
    /\ new_problem_last' = current[t]
    /\ current' = [current EXCEPT ![t] = 0]
    /\ new_problems' = (new_problems + UintMax) % (UintMax + 1)
    /\ IF new_problems = 0
       THEN Return(t, "ERROR") /\ UNCHANGED allowed
       ELSE /\ thread' = [thread EXCEPT ![t] = "save"]
            /\ allowed' = allowed + 1
            /\ UNCHANGED result
    /\ UNCHANGED <<clientVars, taskVars, dirVars, saving, problems, now>>

\* A directory is made whole, or not at all.
save_problem(t) ==
    /\ thread[t] = "save"
    /\ \/ /\ Return(t, "ERROR")
          /\ UNCHANGED <<dir, made>>
       \/ \E d \in Dirs :
            /\ dir[d] = "none" /\ \A e \in Dirs : e < d => dir[e] # "none"
            /\ dir' = [dir EXCEPT ![d] = "temp"]
            /\ made' = [made EXCEPT ![t] = @ \cup {d}]
            /\ thread' = [thread EXCEPT ![t] = "register"]
            /\ UNCHANGED result
    /\ UNCHANGED <<clientVars, taskVars, current, entry, refused, unregistered, asked, saving, userVars, now>>

\* The entry is registered, or the bus refuses its object: then the thread returns
\* an error, and the directory stays.  A task that was cancelled returns here, and
\* one that is to wait stops.
register_entry(t) ==
    /\ thread[t] = "register"
    /\ \E d \in made[t] :
        /\ dir[d] = "temp" /\ entry[d] = "none" /\ d \notin unregistered
        /\ \/ /\ unregistered' = unregistered \cup {d}
              /\ Return(t, "ERROR")
              /\ UNCHANGED <<entry, obj, problems>>
           \/ /\ entry' = [entry EXCEPT ![d] = "NEW"]
              /\ obj' = [obj EXCEPT ![t] = d]
              /\ problems' = problems + 1
              /\ IF t \in cancelled THEN Return(t, "CANCELLED")
                 ELSE IF wait[t] THEN Return(t, "STOP")
                 ELSE thread' = [thread EXCEPT ![t] = "notify"] /\ UNCHANGED result
              /\ UNCHANGED unregistered
    /\ UNCHANGED <<clientVars, status, owner, wait, handler, cancelled, current, dir, made, refused, asked,
                   saving, new_problems, new_problem_last, allowed, now>>

\* The daemon, which is external here, answers: 200 accepted, 303 a duplicate and
\* 410 refused (it deleted the directory in both cases), 400 invalid, or nothing.
answer(t) ==
    /\ thread[t] = "notify"
    /\ \E r \in {"200", "303", "410", "400", "none"} :
        /\ result' = [result EXCEPT ![t] = r]
        /\ dir' = IF r \in {"303", "410"} THEN [dir EXCEPT ![obj[t]] = "deleted"]
                  ELSE IF r = "200" THEN [dir EXCEPT ![obj[t]] = "accepted"]
                  ELSE dir
    /\ thread' = [thread EXCEPT ![t] = "answered"]
    /\ UNCHANGED <<clientVars, taskVars, current, entry, made, refused, unregistered, asked, saving, userVars, now>>

\* What the task does with the answer.
notify_directory_task(t) ==
    /\ thread[t] = "answered"
    /\ \/ /\ result[t] = "200"
          /\ entry' = [entry EXCEPT ![obj[t]] = "COMPLETE"]
          /\ Return(t, "DONE")
          /\ UNCHANGED <<dir, refused, unregistered, obj>>
       \/ /\ result[t] \in {"303", "410"}
          /\ entry' = [entry EXCEPT ![obj[t]] = "gone"]
          /\ obj' = [obj EXCEPT ![t] = NoDir]
          \* the entry of the duplicate may not exist
          /\ \E code \in {"DONE"} \cup (IF result[t] = "303" THEN {"ERROR"} ELSE {}) : Return(t, code)
          /\ UNCHANGED <<dir, refused, unregistered>>
       \/ /\ result[t] \in {"400", "none"}
          /\ \E left \in Undeleted({t}) :
               /\ RemoveTemporaryEntries({t}, left)
               /\ Return(t, IF result[t] = "none" \/ left # {} THEN "ERROR" ELSE "DONE")
    /\ UNCHANGED <<clientVars, status, owner, wait, handler, cancelled, current, made, asked, saving, userVars, now>>

\* The status a task gets from the code its thread returned.
StatusOf(code) ==
    CASE code = "STOP"                  -> "STOPPED"
      [] code \in {"DONE", "CANCELLED"} -> "DONE"
      [] code = "ERROR"                 -> "FAILED"

\* Mutant: the code of the thread counts more than the cancel.
FinishIgnoresCancel(t) ==
    /\ thread[t] = "returned"
    /\ thread' = [thread EXCEPT ![t] = "idle"]
    /\ status' = [status EXCEPT ![t] = StatusOf(result[t])]
    /\ handler' = [handler EXCEPT ![t] = "none"]
    /\ cancelled' = cancelled \ {t}
    /\ result' = [result EXCEPT ![t] = "none"]
    /\ UNCHANGED <<clientVars, owner, wait, obj, current, dirVars, saving, userVars, now>>

\* abrt_p2_task_finish_gtask(): a task cancelled before this is CANCELED, whatever
\* the thread returned, and then the handlers run.
finish_gtask(t) ==
    /\ thread[t] = "returned"
    /\ thread' = [thread EXCEPT ![t] = "idle"]
    /\ \/ /\ t \in cancelled
          /\ \E left \in Undeleted({t}) : RemoveTemporaryEntries({t}, left)
          /\ status' = [status EXCEPT ![t] = "CANCELED"]
          /\ IF handler[t] = "cancel" THEN Disposed({t}) ELSE UNCHANGED <<owner, exported>>
       \/ /\ t \notin cancelled
          \* an autonomous task never waits: it does not stop
          /\ status' = [status EXCEPT ![t] = StatusOf(result[t])]
          /\ UNCHANGED <<dir, entry, refused, unregistered, obj, owner, exported>>
    \* the handlers end with the task: all but a task without one were cancelled
    \* or autonomous
    /\ handler' = [handler EXCEPT ![t] = "none"]
    /\ cancelled' = cancelled \ {t}
    /\ result' = [result EXCEPT ![t] = "none"]
    /\ UNCHANGED <<session, wait, current, made, asked, saving, userVars, now>>
-----------------------------------------------------------------------------
\* SaveElements runs in a thread that holds the lock of the directory.
save_elements(c, d) ==
    /\ session[c] = "on" /\ entry[d] \in {"NEW", "COMPLETE"}
    /\ dir[d] \in {"temp", "accepted"} /\ d \notin saving
    /\ saving' = saving \cup {d}
    /\ UNCHANGED <<clientVars, taskVars, threadVars, dirVars, userVars, now>>

elements_saved(d) ==
    /\ d \in saving
    /\ saving' = saving \ {d}
    /\ UNCHANGED <<clientVars, taskVars, threadVars, dirVars, userVars, now>>

\* DeleteProblems of one entry; NEW ones are left alone.
remove_problem(c, d) ==
    /\ session[c] = "on" /\ entry[d] = "COMPLETE"
    /\ dir[d] = "accepted" /\ d \notin saving
    /\ dir' = [dir EXCEPT ![d] = "deleted"]
    /\ entry' = [entry EXCEPT ![d] = "gone"]
    /\ asked' = asked \cup {d}
    /\ UNCHANGED <<clientVars, taskVars, threadVars, made, refused, unregistered, saving, userVars, now>>

\* The client left the bus: task_object_dispose() for its tasks takes the handler
\* and the object away, and the session is unregistered.
on_g_signal(c) ==
    /\ session[c] = "on"
    /\ session' = [session EXCEPT ![c] = "left"]
    /\ exported' = {t \in exported : owner[t] # c}
    /\ handler' = [t \in Tasks |-> IF owner[t] = c THEN "none" ELSE handler[t]]
    /\ UNCHANGED <<status, owner, wait, cancelled, obj, threadVars, dirVars, saving, userVars, now>>

\* Mutant: stopped tasks are only unreferenced, like the others.
CleanWithoutCancel(ts) ==
    /\ cancelled' = cancelled \cup {t \in ts : status[t] = "RUNNING"}
    /\ handler' = [t \in Tasks |-> IF t \in ts /\ status[t] = "RUNNING" THEN "delayed" ELSE handler[t]]
    /\ UNCHANGED <<status, dir, entry, refused, unregistered, obj>>

\* Mutant: tasks that are done are cancelled like the stopped ones.
CleanDoneToo(ts) ==
    /\ cancelled' = cancelled \cup {t \in ts : status[t] = "RUNNING"}
    /\ handler' = [t \in Tasks |-> IF t \in ts /\ status[t] = "RUNNING" THEN "delayed" ELSE handler[t]]
    /\ RemoveTemporaryEntries({t \in ts : status[t] \in {"STOPPED", "DONE"}}, {})
    /\ UNCHANGED status

\* Mutant: running tasks are left running.
CleanNotRunning(ts) ==
    /\ UNCHANGED <<cancelled, handler>>
    /\ RemoveTemporaryEntries({t \in ts : status[t] = "STOPPED"}, {})
    /\ UNCHANGED status

\* abrt_p2_session_clean_tasks(): a running task is cancelled and disposed of
\* later, a stopped one is cancelled, the others are unreferenced.
clean_tasks(ts) ==
    /\ cancelled' = cancelled \cup {t \in ts : status[t] = "RUNNING"}
    /\ handler' = [t \in Tasks |-> IF t \in ts /\ status[t] = "RUNNING" THEN "delayed" ELSE handler[t]]
    /\ LET stopped == {t \in ts : status[t] = "STOPPED"} IN
       \E left \in Undeleted(stopped) :
            /\ RemoveTemporaryEntries(stopped, left)
            /\ status' = [t \in Tasks |->
                    IF t \in stopped /\ obj[t] \notin left THEN "CANCELED" ELSE status[t]]

session_object_destructor(c) ==
    /\ session[c] = "left"
    /\ session' = [session EXCEPT ![c] = "freed"]
    /\ clean_tasks({t \in Tasks : owner[t] = c})
    /\ owner' = [t \in Tasks |-> IF owner[t] = c THEN NoClient ELSE owner[t]]
    /\ UNCHANGED <<exported, wait, threadVars, made, asked, saving, userVars, now>>

Tick ==
    /\ now < Start0 + MaxTime
    /\ now' = now + 1
    /\ UNCHANGED <<clientVars, taskVars, threadVars, dirVars, saving, userVars>>
-----------------------------------------------------------------------------
Init ==
    /\ session = [c \in Clients |-> "on"]
    /\ status = [t \in Tasks |-> "none"]
    /\ owner = [t \in Tasks |-> NoClient]
    /\ wait = [t \in Tasks |-> FALSE]
    /\ handler = [t \in Tasks |-> "none"]
    /\ exported = {} /\ cancelled = {}
    /\ obj = [t \in Tasks |-> NoDir]
    /\ thread = [t \in Tasks |-> "idle"]
    /\ result = [t \in Tasks |-> "none"]
    /\ current = [t \in Tasks |-> 0]
    /\ dir = [d \in Dirs |-> "none"]
    /\ entry = [d \in Dirs |-> "none"]
    /\ saving = {} /\ refused = {} /\ unregistered = {} /\ asked = {}
    /\ made = [t \in Tasks |-> {}]
    /\ problems = 0 /\ new_problems = 0 /\ new_problem_last = 0 /\ allowed = 0
    /\ now = Start0

Thread(t) ==
    \/ new_problem_run(t)
    \/ user_can_create_new_problem(t)
    \/ take_new_problem(t)
    \/ save_problem(t)
    \/ register_entry(t)
    \/ answer(t)
    \/ notify_directory_task(t)

Client(c) ==
    \/ \E t \in Tasks : new_problem(c, t) \/ task_object_dbus_method_call(c, t)
    \/ \E d \in Dirs : save_elements(c, d) \/ remove_problem(c, d)
    \/ on_g_signal(c)

Next ==
    \/ \E c \in Clients : Client(c) \/ session_object_destructor(c)
    \/ \E t \in Tasks : Thread(t) \/ finish_gtask(t)
    \/ \E d \in Dirs : elements_saved(d)
    \/ Tick

Spec == Init /\ [][Next]_vars

\* Threads run, the daemon answers (abrt-server has a timeout), and the main loop
\* serves what is ready.
FairSpec ==
    /\ Spec
    /\ \A t \in Tasks : WF_vars(Thread(t)) /\ WF_vars(finish_gtask(t))
    /\ \A c \in Clients : WF_vars(session_object_destructor(c))
-----------------------------------------------------------------------------
\* No temporary directory is forgotten, however starts, cancels, answers of the
\* daemon and the end of the session interleave: each one is the entry of a task
\* that still can be ended, or its thread is about to register it.  A canceled
\* task leaves no directory at all, also if the daemon had accepted it before the
\* cancel was seen.  Two failures do leave one behind: the deletion may fail,
\* under the lock of SaveElements or of another process
\* (abrt_problems2_entry.c:132), and the entry may not be registered
\* (abrt_problems2_task_new_problem.c:153); the task of the latter does not stop
\* and is never reported as done.
NoForgottenDir ==
    \A d \in Dirs :
        /\ dir[d] = "temp" /\ d \notin refused \cup unregistered =>
            \E t \in Tasks :
                /\ status[t] \in {"RUNNING", "STOPPED"}
                /\ d \in made[t]
                /\ obj[t] = d \/ thread[t] = "register"
                /\ status[t] = "STOPPED" => \E c \in Clients : owner[t] = c /\ session[c] # "freed"
        /\ \A t \in Tasks :
            d \in made[t] =>
                /\ status[t] = "CANCELED" => dir[d] = "deleted" \/ d \in refused \cup unregistered
                /\ d \in unregistered => status[t] \notin {"STOPPED", "DONE"}

\* A problem that the task of a client reported as done is deleted only if a client
\* asks for it: not when the task is finished, and not when its session ends.
DoneIsKept ==
    [][\A t \in Tasks : \A d \in made[t] :
        status[t] = "DONE" /\ dir[d] = "accepted" /\ dir'[d] = "deleted" => d \in asked']_vars

\* A task that was cancelled ends, and so do the tasks of a client that left.
CancelEnds ==
    \A t \in Tasks : t \in cancelled ~> status[t] = "CANCELED"

\* When a client has left, its tasks come to rest, and nothing they made, before
\* or after it left, stays on the disk as a temporary directory, but for the two
\* failures of NoForgottenDir.
LeftLeavesNothing ==
    \A c \in Clients, t \in Tasks :
        (session[c] = "left" /\ owner[t] = c)
            ~> /\ session[c] = "freed" /\ thread[t] = "idle"
               /\ \A d \in made[t] : dir[d] # "temp" \/ d \in refused \cup unregistered

\* abrt_problems2_service.c:2735 "Allows Y new problems to be created in a batch but
\* then allow only 1 new problem per Xs."
Throttled == allowed <= Batch + (now - Start0) \div Interval
=============================================================================
