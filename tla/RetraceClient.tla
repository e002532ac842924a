--------------------------- MODULE RetraceClient ---------------------------
(***************************************************************************)
(* abrt-retrace-client (src/plugins/abrt-retrace-client.c with             *)
(* https-utils.c): it sends a problem directory to a retrace server, waits *)
(* until the server has retraced it and saves the result in the directory. *)
(*                                                                         *)
(* Several clients run at once, some on the same directory, while other    *)
(* programs remove files and directories.  The server is external: it is   *)
(* modelled by the answers the client distinguishes.  A request may be     *)
(* refused or broken, its answer may be cut before the end of the headers, *)
(* and a connection may be lost after the server has acted.                *)
(***************************************************************************)
EXTENDS Naturals, FiniteSets

CONSTANTS Clients, Dirs,
          Scenarios,    \* command lines, server and directories to start from
          Removable,    \* the files other programs remove
          NoDir,        \* no --dir on the command line
          Nobody,       \* no client
          AskLimit      \* the size above which the user is asked

VARIABLES
  cfg,       \* the command line of each client
  server,    \* what the server offers
  dirs,      \* the problem directories: files and saved results
  owner,     \* the client that holds the lock of a directory
  pc,        \* where each client is
  settings,  \* the server's settings as the client has read them
  type,      \* task_type
  archive,   \* the elements in its archive, with the directory they are of
  packed,    \* the size of the archive
  consent,   \* what ask_yes_no() returned, if it was called
  conn,      \* the connection that carries the archive
  task,      \* the task the server made for the client
  expired,   \* the tasks the server has dropped
  rating,    \* the exploitability the client has fetched
  exit,      \* the exit status
  lost       \* an answer was lost or unusable, or the client was killed

vars == <<cfg, server, dirs, owner, pc, settings, type, archive, packed, consent,
          conn, task, expired, rating, exit, lost>>
local == <<cfg, server, dirs, owner, settings, type, archive, packed, consent,
           conn, task, expired, rating>>

Ops == {"create", "batch", "query"}
Retrace == {"coredump", "executable", "package", "os_release"}
Required(t) == IF t = "vmcore" THEN {"vmcore"} ELSE Retrace
Files == Retrace \cup {"vmcore"}

Config == [op : Ops, dir : Dirs \cup {NoDir}, core : BOOLEAN,
           check : BOOLEAN, insecure : BOOLEAN,
           target : Clients \cup {Nobody}]
Server == [cert : BOOLEAN, xz : BOOLEAN, release : BOOLEAN, known : BOOLEAN,
           unpacked : Nat, packed : Nat, slots : Nat]

Content == [there : BOOLEAN, files : SUBSET Files, size : Nat \ {0}]

ASSUME ScenariosAssumption ==
  \A s \in Scenarios : /\ s.cfg \in [Clients -> Config]
                       /\ s.server \in Server
                       /\ s.dirs \in [Dirs -> Content]
ASSUME SpecialAssumption ==
  NoDir \notin Dirs /\ Nobody \notin Clients /\ AskLimit \in Nat

Dir(c) == dirs[cfg[c].dir]
HasDir(c) == cfg[c].dir # NoDir
Running == {c \in Clients : task[c] = "running"}

(***************************************************************************)
(* get_settings() starts from zeros and fills in the rows of the answer.   *)
(* A client that has not read a row has the zero of that row: no slot, no  *)
(* room and no supported format.                                           *)
(***************************************************************************)
NoSettings == [free |-> FALSE, packed |-> 0, unpacked |-> 0, xz |-> FALSE,
               release |-> FALSE]
SettingsUnlimited(n) ==
  [free |-> n = 0 \/ Cardinality(Running) < server.slots,
   packed |-> IF n >= 2 THEN server.packed ELSE 99,
   unpacked |-> IF n >= 3 THEN server.unpacked ELSE 99,
   xz |-> n < 4 \/ server.xz,
   release |-> n < 5 \/ server.release]
Settings(n) ==
  [free |-> n >= 1 /\ Cardinality(Running) < server.slots,
   packed |-> IF n >= 2 THEN server.packed ELSE 0,
   unpacked |-> IF n >= 3 THEN server.unpacked ELSE 0,
   xz |-> n >= 4 /\ server.xz,
   release |-> n >= 5 /\ server.release]

Init ==
  /\ \E s \in Scenarios :
       /\ cfg = s.cfg
       /\ server = s.server
       /\ dirs = [d \in Dirs |->
                   [there |-> s.dirs[d].there, files |-> s.dirs[d].files,
                    size |-> s.dirs[d].size, backtrace |-> Nobody,
                    kernel_log |-> Nobody, exploitable |-> Nobody]]
  /\ owner = [d \in Dirs |-> Nobody]
  /\ pc = [c \in Clients |-> "main"]
  /\ settings = [c \in Clients |-> NoSettings]
  /\ type = [c \in Clients |-> "retrace"]
  /\ archive = [c \in Clients |-> {}]
  /\ packed = [c \in Clients |-> 0]
  /\ consent = [c \in Clients |-> "none"]
  /\ conn = [c \in Clients |-> "closed"]
  /\ task = [c \in Clients |-> "none"]
  /\ expired = {}
  /\ rating = [c \in Clients |-> "none"]
  /\ exit = [c \in Clients |-> "none"]
  /\ lost = [c \in Clients |-> FALSE]

(***************************************************************************)
(* How a process ends: its descriptors are closed, and a lock it held is   *)
(* stale, which libreport takes for free.  What it has sent is on its way. *)
(***************************************************************************)
Ends(c, status, loss) ==
  /\ pc' = [pc EXCEPT ![c] = "done"]
  /\ exit' = [exit EXCEPT ![c] = status]
  /\ lost' = [lost EXCEPT ![c] = @ \/ loss]
  /\ owner' = [d \in Dirs |-> IF owner[d] = c THEN Nobody ELSE owner[d]]
  /\ conn' = [conn EXCEPT ![c] = IF @ \in {"closed", "sent", "broken"} THEN @ ELSE "closed"]
  /\ UNCHANGED <<cfg, server, dirs, settings, type, archive, packed, consent, task,
                 expired, rating>>

error_msg_and_die(c) == Ends(c, "error", FALSE)

Goto(c, where) == pc' = [pc EXCEPT ![c] = where]

(***************************************************************************)
(* ssl_connect() ends the process when the name is not resolved, the       *)
(* server is down or its certificate is bad and --insecure is not given;   *)
(* a failed PR_Send() or PR_Recv() ends it too.                            *)
(***************************************************************************)
ssl_bad_cert_handler(c) == cfg[c].insecure
Trusted(c) == server.cert \/ ssl_bad_cert_handler(c)
ssl_connect(c) == IF Trusted(c) THEN {"connected", "refused"} ELSE {"refused"}
Answers(c) ==
  {"refused"} \cup (IF "connected" \in ssl_connect(c)
                    THEN {"good", "unexpected", "cut"} ELSE {})
Unusable(c) == Answers(c) \ {"good"} # {} /\ Ends(c, "error", TRUE)

\* main() and nss_init(): what the operation needs is on the command line.
main(c) ==
  /\ pc[c] = "main"
  /\ \/ error_msg_and_die(c)
     \/ /\ cfg[c].op # "query"
        /\ HasDir(c) \/ cfg[c].core
        /\ Goto(c, "settings")
        /\ UNCHANGED <<exit, lost, local>>
     \/ /\ cfg[c].op = "query"
        /\ cfg[c].target # Nobody
        /\ Goto(c, "query")
        /\ UNCHANGED <<exit, lost, local>>

(***************************************************************************)
(* create(), up to the archive.                                            *)
(***************************************************************************)
\* The settings; a server that is fully occupied ends the client.
get_settings(c) ==
  /\ pc[c] = "settings"
  /\ \/ Unusable(c)
     \/ \E n \in 0..5 :
          /\ "good" \in Answers(c)
          /\ IF Settings(n).free
             THEN /\ settings' = [settings EXCEPT ![c] = Settings(n)]
                  /\ Goto(c, "sizes")
                  /\ UNCHANGED <<cfg, server, dirs, owner, type, archive, packed,
                                 consent, conn, task, expired, rating,
                                 exit, lost>>
             ELSE error_msg_and_die(c)

IsFree(d) == owner[d] = Nobody

\* With --core the size is that of the core and the type is not looked at.
Detected(c) ==
  IF HasDir(c) /\ ~cfg[c].core /\ "vmcore" \in Dir(c).files
  THEN "vmcore" ELSE "retrace"
unpacked_size(c) == IF cfg[c].core THEN 1 ELSE Dir(c).size
SizesKnown(c) ==
  cfg[c].core \/ (HasDir(c) /\ Dir(c).there /\ Required(Detected(c)) \subseteq Dir(c).files)

get_sizes(c) ==
  /\ pc[c] = "sizes"
  /\ HasDir(c) /\ ~cfg[c].core /\ Dir(c).there => IsFree(cfg[c].dir)
  /\ IF /\ SizesKnown(c)
        /\ unpacked_size(c) <= settings[c].unpacked
        /\ settings[c].xz
     THEN /\ type' = [type EXCEPT ![c] = Detected(c)]
          /\ Goto(c, IF Detected(c) = "vmcore" \/ ~HasDir(c) THEN "archive" ELSE "release")
          /\ UNCHANGED <<cfg, server, dirs, owner, settings, archive, packed,
                         consent, conn, task, expired, rating, exit, lost>>
     ELSE error_msg_and_die(c)

\* The release of the crash, from the directory as it is now.
get_release_id(c) ==
  /\ pc[c] = "release"
  /\ IF Dir(c).there /\ "os_release" \in Dir(c).files /\ settings[c].release
     THEN /\ Goto(c, IF cfg[c].check THEN "package" ELSE "archive")
          /\ UNCHANGED <<exit, lost, local>>
     ELSE error_msg_and_die(c)

\* The server knows the package (302) or not (404).
check_package(c) ==
  /\ pc[c] = "package"
  /\ \/ Unusable(c)
     \/ /\ "good" \in Answers(c)
        /\ IF server.known
           THEN Goto(c, "archive") /\ UNCHANGED <<exit, lost, local>>
           ELSE error_msg_and_die(c)

(***************************************************************************)
(* create_archive()                                                        *)
(***************************************************************************)
\* dd_opendir() waits for the lock; a temporary file is created.
open_archive(c) ==
  /\ pc[c] = "archive"
  /\ IF HasDir(c) /\ Dir(c).there
     THEN /\ IsFree(cfg[c].dir)
          /\ \/ error_msg_and_die(c)
             \/ /\ owner' = [owner EXCEPT ![cfg[c].dir] = c]
                /\ Goto(c, "arguments")
                /\ UNCHANGED <<cfg, server, dirs, settings, type, archive, packed,
                               consent, conn, task, expired, rating, exit, lost>>
     ELSE Ends(c, "error", FALSE)

(***************************************************************************)
(* The loop over the required files advances only when one is added: a     *)
(* file that was removed since its size was taken makes it endless, with   *)
(* the directory locked.                                                   *)
(***************************************************************************)
args_add_if_exists(c) == Required(type[c]) \subseteq Dir(c).files
add_arguments(c) ==
  /\ pc[c] = "arguments"
  /\ IF args_add_if_exists(c)
     THEN Goto(c, "tar") /\ owner' = [owner EXCEPT ![cfg[c].dir] = Nobody]
     ELSE Goto(c, "spin") /\ UNCHANGED owner
  /\ UNCHANGED <<cfg, server, dirs, settings, type, archive, packed, consent,
                 conn, task, expired, rating, exit, lost>>

Pack(c, files) ==
  /\ archive' = [archive EXCEPT ![c] = {cfg[c].dir} \X files]
  /\ \E n \in 1..Dir(c).size : packed' = [packed EXCEPT ![c] = n]
  /\ Goto(c, "packed")
  /\ UNCHANGED <<cfg, server, dirs, owner, settings, type, consent,
                 conn, task, expired, rating, exit, lost>>

\* Mutant: the exit status of tar is not looked at.
TarUnchecked(c) ==
  /\ pc[c] = "tar"
  /\ error_msg_and_die(c) \/ Pack(c, Required(type[c]) \cap Dir(c).files)

\* tar reads the files without the lock, and fails when one is missing; xz packs
\* what it has read.
run_tar(c) ==
  /\ pc[c] = "tar"
  /\ \/ error_msg_and_die(c)
     \/ /\ Dir(c).there /\ Required(type[c]) \subseteq Dir(c).files
        /\ Pack(c, Required(type[c]))

(***************************************************************************)
(* create(), the upload.                                                   *)
(***************************************************************************)
TooLarge(c) == packed[c] > settings[c].packed
MustAsk(c) == packed[c] > AskLimit

check_packed_size(c) ==
  /\ pc[c] = "packed"
  /\ IF TooLarge(c)
     THEN error_msg_and_die(c)
     ELSE /\ Goto(c, IF MustAsk(c) THEN "ask" ELSE "post")
          /\ UNCHANGED <<exit, lost, local>>

ask_yes_no(c) ==
  /\ pc[c] = "ask"
  /\ \E yes \in BOOLEAN :
       IF yes
       THEN /\ consent' = [consent EXCEPT ![c] = "yes"]
            /\ Goto(c, "post")
            /\ UNCHANGED <<cfg, server, dirs, owner, settings, type, archive,
                           packed, conn, task, expired, rating, exit, lost>>
       ELSE Ends(c, "cancel", FALSE)

\* Connect again and send the header of POST /create.
post_header(c) ==
  /\ pc[c] = "post"
  /\ \/ Ends(c, "error", TRUE)
     \/ /\ "connected" \in ssl_connect(c)
        /\ conn' = [conn EXCEPT ![c] = "open"]
        /\ Goto(c, "upload")
        /\ UNCHANGED <<cfg, server, dirs, owner, settings, type, archive, packed,
                       consent, task, expired, rating, exit, lost>>

\* The archive goes out in pieces; after a failed piece the client still
\* wants to know what the server has to say.
upload(c) ==
  /\ pc[c] = "upload"
  /\ \/ error_msg_and_die(c)
     \/ \E sent \in {"sent", "broken"} :
          /\ conn' = [conn EXCEPT ![c] = sent]
          /\ exit' = [exit EXCEPT ![c] = IF sent = "broken" THEN "result" ELSE "none"]
          /\ Goto(c, "response")
          /\ UNCHANGED <<cfg, server, dirs, owner, settings, type, archive, packed,
                         consent, task, expired, rating, lost>>

\* The server's side of the upload: it makes a task (201) if it has a slot,
\* or refuses; it may have got everything although the client saw an error.
serve_create(c) ==
  /\ conn[c] \in {"sent", "broken"}
  /\ \/ /\ Cardinality(Running) < server.slots
        /\ conn' = [conn EXCEPT ![c] = IF pc[c] = "done" THEN "closed" ELSE "created"]
        /\ task' = [task EXCEPT ![c] = "running"]
     \/ /\ conn' = [conn EXCEPT ![c] = IF pc[c] = "done" THEN "closed" ELSE "refusal"]
        /\ UNCHANGED task
  /\ UNCHANGED <<cfg, server, dirs, owner, pc, settings, type, archive, packed,
                 consent, expired, rating, exit, lost>>

\* Only 201 with an id and a password is a success; after a failed piece even
\* that is dropped, and create() returns 1.
AcceptedNever(c) == FALSE
Accepted(c) == conn[c] = "created"
read_response(c) ==
  /\ pc[c] = "response"
  /\ \/ Ends(c, "error", TRUE)
     \/ /\ conn[c] \in {"created", "refusal"}
        /\ IF ~Accepted(c) THEN error_msg_and_die(c)
           ELSE IF exit[c] = "result" THEN Ends(c, "result", FALSE)
           ELSE IF cfg[c].op = "create" THEN Ends(c, "0", FALSE)
           ELSE /\ conn' = [conn EXCEPT ![c] = "closed"]
                /\ Goto(c, "poll")
                /\ UNCHANGED <<cfg, server, dirs, owner, settings, type, archive,
                               packed, consent, task, expired, rating, exit, lost>>

(***************************************************************************)
(* run_batch(), after create().                                            *)
(***************************************************************************)
FinishedSuccess(c) == task[c] = "success"
Finished(c) == task[c] \in {"success", "failure"}
Success(c) == task[c] = "success"

\* status(): a task the server has dropped gives an unexpected answer.
poll_status(c) ==
  /\ pc[c] = "poll"
  /\ \/ Unusable(c)
     \/ /\ "good" \in Answers(c) /\ c \notin expired
        /\ Goto(c, IF ~Finished(c) THEN "poll"
                   ELSE IF Success(c) THEN "backtrace" ELSE "log")
        /\ UNCHANGED <<exit, lost, local>>

backtrace(c) ==
  /\ pc[c] = "backtrace"
  /\ \/ Unusable(c)
     \/ /\ "good" \in Answers(c) /\ c \notin expired
        /\ Goto(c, IF type[c] = "retrace" THEN "exploitable" ELSE "save")
        /\ UNCHANGED <<exit, lost, local>>

\* exploitable(): 404 means that there is none.
exploitable(c) ==
  /\ pc[c] = "exploitable"
  /\ \/ Unusable(c)
     \/ /\ "good" \in Answers(c)
        /\ \E r \in IF c \in expired THEN {"none"} ELSE {"none", "low", "high"} :
             rating' = [rating EXCEPT ![c] = r]
        /\ Goto(c, "save")
        /\ UNCHANGED <<cfg, server, dirs, owner, settings, type, archive, packed,
                       consent, conn, task, expired, exit, lost>>

\* The directory is opened again, and may be gone; the lock is kept for both
\* files.
save_result(c) ==
  /\ pc[c] = "save"
  /\ IF Dir(c).there
     THEN /\ IsFree(cfg[c].dir)
          /\ owner' = [owner EXCEPT ![cfg[c].dir] = c]
          /\ dirs' = IF type[c] = "vmcore"
                     THEN [dirs EXCEPT ![cfg[c].dir].kernel_log = c]
                     ELSE [dirs EXCEPT ![cfg[c].dir].backtrace = c]
          /\ Goto(c, "rate")
          /\ UNCHANGED <<cfg, server, settings, type, archive, packed, consent,
                         conn, task, expired, rating, exit, lost>>
     ELSE error_msg_and_die(c)

get_exploitable_rating(c) == rating[c] = "high"
save_exploitable(c) ==
  /\ pc[c] = "rate"
  /\ dirs' = IF get_exploitable_rating(c)
             THEN [dirs EXCEPT ![cfg[c].dir].exploitable = c] ELSE dirs
  /\ owner' = [owner EXCEPT ![cfg[c].dir] = Nobody]
  /\ pc' = [pc EXCEPT ![c] = "done"]
  /\ exit' = [exit EXCEPT ![c] = "0"]
  /\ UNCHANGED <<cfg, server, settings, type, archive, packed, consent, conn,
                 task, expired, rating, lost>>

\* The retracing failed: the log is shown and the status is 1.
retrace_failed(c) ==
  /\ pc[c] = "log"
  /\ \/ Unusable(c)
     \/ "good" \in Answers(c) /\ c \notin expired /\ Ends(c, "1", FALSE)

\* status, backtrace, log and exploitable for a task whose id was printed.
Told(t) == cfg[t].op = "create" /\ exit[t] = "0"
run_query(c) ==
  /\ pc[c] = "query"
  /\ \/ Unusable(c)
     \/ /\ "good" \in Answers(c)
        /\ Told(cfg[c].target) /\ cfg[c].target \notin expired
        /\ Ends(c, "0", FALSE)

(***************************************************************************)
(* What goes on around the clients.                                        *)
(***************************************************************************)
finish_task(c) ==
  /\ task[c] = "running"
  /\ \E s \in {"success", "failure"} : task' = [task EXCEPT ![c] = s]
  /\ UNCHANGED <<cfg, server, dirs, owner, pc, settings, type, archive, packed,
                 consent, conn, expired, rating, exit, lost>>

drop_task(c) ==
  /\ Finished(c) /\ c \notin expired
  /\ expired' = expired \cup {c}
  /\ UNCHANGED <<cfg, server, dirs, owner, pc, settings, type, archive, packed,
                 consent, conn, task, rating, exit, lost>>

remove_file(d, f) ==
  /\ dirs[d].there /\ IsFree(d) /\ f \in dirs[d].files
  /\ dirs' = [dirs EXCEPT ![d].files = @ \ {f}]
  /\ UNCHANGED <<cfg, server, owner, pc, settings, type, archive, packed, consent,
                 conn, task, expired, rating, exit, lost>>

delete_dir(d) ==
  /\ dirs[d].there /\ IsFree(d)
  /\ dirs' = [dirs EXCEPT ![d].there = FALSE, ![d].files = {},
                          ![d].backtrace = Nobody, ![d].kernel_log = Nobody,
                          ![d].exploitable = Nobody]
  /\ UNCHANGED <<cfg, server, owner, pc, settings, type, archive, packed, consent,
                 conn, task, expired, rating, exit, lost>>

kill(c) == pc[c] # "done" /\ Ends(c, "killed", TRUE)

Step(c) ==
  \/ main(c) \/ get_settings(c) \/ get_sizes(c)
  \/ get_release_id(c) \/ check_package(c)
  \/ open_archive(c) \/ add_arguments(c) \/ run_tar(c)
  \/ check_packed_size(c) \/ ask_yes_no(c) \/ post_header(c) \/ upload(c)
  \/ read_response(c) \/ poll_status(c) \/ backtrace(c) \/ exploitable(c)
  \/ save_result(c) \/ save_exploitable(c) \/ retrace_failed(c)
  \/ run_query(c)

Next ==
  \/ \E c \in Clients : Step(c) \/ serve_create(c) \/ finish_task(c) \/ drop_task(c) \/ kill(c)
  \/ \E d \in Dirs : delete_dir(d) \/ \E f \in Removable : remove_file(d, f)

Spec == Init /\ [][Next]_vars

\* A client that can go on does, a user who is asked answers, and the server
\* answers uploads and finishes its tasks.
\* A client that polls a running task only waits, unless something fails,
\* and no failure is assumed.
Waiting(c) == pc[c] = "poll" /\ ~Finished(c)
Fairness ==
  \A c \in Clients : /\ WF_vars(Step(c) /\ ~Waiting(c))
                     /\ WF_vars(serve_create(c))
                     /\ WF_vars(finish_task(c))
FairSpec == Spec /\ Fairness

(***************************************************************************)
(* Properties                                                              *)
(***************************************************************************)
(* An archive goes out only to a trusted server (or with --insecure) that  *)
(* offers what the client needs, within the server's own limits even when  *)
(* its settings were read in part, and not without the user's consent when *)
(* it is large: create() has passed all its checks before POST /create.    *)
UploadAllowed ==
  \A c \in Clients :
    conn[c] # "closed" \/ task[c] # "none" =>
      /\ server.cert \/ cfg[c].insecure
      /\ server.xz
      /\ packed[c] <= server.packed
      /\ packed[c] > AskLimit => consent[c] = "yes"
      /\ ~cfg[c].core => Dir(c).size <= server.unpacked
      /\ type[c] = "retrace" => /\ server.release
                                /\ cfg[c].check => server.known

(* A result is saved with the crash it was made of, and whole: the server  *)
(* finished a task made of every required element of this very directory,  *)
(* although tar reads them, and run_batch() comes back to the directory,   *)
(* when the lock was given up and elements or the directory may be gone.   *)
(* A batch that reports success has left its text and, if it is high, its  *)
(* rating there together, and no other client or program came between.     *)
Results(content) == {content.backtrace, content.kernel_log, content.exploitable}
ResultStep(c) ==
  /\ \A d \in Dirs :
       c \in Results(dirs'[d]) \ Results(dirs[d]) =>
         dirs[d].there /\ task[c] = "success" /\ {d} \X Required(type[c]) \subseteq archive[c]
  /\ cfg[c].op = "batch" /\ exit[c] # "0" /\ exit'[c] = "0" =>
       LET d == dirs'[cfg[c].dir] IN
         /\ d.there
         /\ (IF type[c] = "vmcore" THEN d.kernel_log ELSE d.backtrace) = c
         /\ d.exploitable = c <=> rating[c] = "high"
ResultOfThisCrash == [][\A c \in Clients : ResultStep(c)]_vars

(* No task is left behind on the server by a client that could have known  *)
(* of it: the client was told how it ended or printed its id, unless an    *)
(* answer was lost, the client was killed or the directory is gone.  One   *)
(* case is the client's own doing: when a piece of the archive could not   *)
(* be sent, it reads the answer and drops the id of a 201                  *)
(* (abrt-retrace-client.c:732, 799).                                       *)
TaskAccountedFor ==
  \A c \in Clients :
    pc[c] = "done" /\ task[c] # "none" =>
      exit[c] \in {"0", "1", "result"} \/ lost[c] \/ ~Dir(c).there

(* Every client ends, whatever the server answers and whatever is removed, *)
(* except when a client is in the endless loop over the required files of  *)
(* a directory that lacks one: it keeps the directory locked.              *)
Stuck(d) == \E e \in Clients : pc[e] = "spin" /\ cfg[e].dir = d
                               /\ ~(Required(type[e]) \subseteq dirs[d].files)
ClientEnds ==
  \A c \in Clients : <>(pc[c] = "done") \/ <>[]Stuck(cfg[c].dir)
=============================================================================
