# TLA+ models of ABRT

ABRT catches crashes, stores what is known about each in a *problem directory*
under the dump location (`/var/spool/abrt`), and runs *events* (shell rules) on
it.  This directory holds TLA+ modules for the parts of ABRT that run
concurrently or keep state across failures, the TLC configurations that check
them, and proofs checked by TLAPS.  Every definition that models code is listed
with its source lines in `PROJECT.json` (`map`); paths below are relative to the
repository's `src/`.

## 1. The system

| Part | State | Operations | Talks to |
|---|---|---|---|
| `abrtd` (`daemon/abrtd.c`) | list of `abrt-server` children, queue of those that want to run post-create, socket watch, pid file, bus name, idle timer | accept a client, read a child's message, pass the turn, clean the dump location, reap, mark unprocessed directories at start-up, daemonize, stop | children by pipe and SIGUSR1/SIGINT; hooks by the socket and the pid file |
| `abrt-server` (`daemon/abrt-server.c`) | one request, one directory | create, delete, announce a directory; wait for the turn; run post-create; count, merge, delete; run notify | `abrtd`, `abrt-handle-event`, dump location |
| `abrt-handle-event` (`daemon/abrt-handle-event.c`) | one directory | run the event; once `core_backtrace`/`uuid` is known look for a duplicate | dump location, `abrt-server` by its output |
| core dump hook (`hooks/abrt-hook-ccpp.c`, `lib/check_recent_crash_file.c`, `lib/hooklib.c`) | `last-ccpp` marker, two core files, one directory | check the marker, open the user core, copy the image, save, rename, trim, announce | other hooks, dump location, `abrtd` socket |
| upload watch (`daemon/abrt-upload-watch.c`, `abrt-handle-upload.in`) | worker count, bounded queue | defer or start a worker, reap, unpack, move, announce | upload directory, dump location |
| problems2 service (`dbus/abrt_problems2_*.c`) | sessions, tokens, requests to polkit, tasks with threads, entries, per-user limits | authorize, revoke, new problem, save/read/delete elements, throttling | polkit, `abrt-server`, dump location |
| journal watchers (`plugins/abrt-journal.c`, `abrt-dump-journal-*.c`) and extraction (`lib/kernel.c`, `plugins/oops-utils.c`, `xorg-utils.c`) | cursor file, throttling queue, position in the journal | follow, extract, save, stop on SIGTERM | journal, dump location |
| retrace client (`plugins/abrt-retrace-client.c`, `https-utils.c`) | an archive, a task on the server | settings, pack, upload, poll, fetch, save | retrace server, its problem directory |
| problems1 and configuration services (`dbus/abrt-dbus.c`, `abrt-configuration.c`) | idle timer, property tables | chown, delete, get/set | polkit (synchronously), dump location |
| ignored problems (`lib/ignored_problems.c`), applet (`applet/applet.c`) | a file of the user, deferred problems | add, remove; notify, report | D-Bus, event processes |
| event plugins, CLI, python bindings, GUI | none of their own | one-shot | one directory, D-Bus |

What is hard here:

* Many `abrt-server` processes, `abrtd` and the hooks share the dump location
  without a common lock.  Two directories that are duplicates of each other must
  not be merged into each other at the same time, so post-create is serialised
  by a queue in `abrtd` and two signals.  The signals race the installation of
  handlers, the end of the wait, and the death of either side.
* Cleaning and trimming remove directories that are queued, new or in use.
* Processes die between saving, counting and deleting a directory; services are
  restarted in the middle and find their place by a file.
* Instances of `abrtd` start, fail and stop while others do; the pid file is
  locked by inode and unlinked by name.
* Worker pools with coalescing signals; check-then-move in a shared directory.
* Answers of polkit that arrive after the request was withdrawn, and after the
  session that asked was freed; task threads beside a main loop.
* Limits that are computed once and then kept up by hand (sizes, counts,
  batches), and copies of a pipe into two files with different limits.
* A server on the network that answers in part, late or not at all.

What makes each part correct, in a sentence: `abrtd` gives the turn to one
server at a time, never stalls and never tells a server the wrong thing;
`abrt-server` leaves no directory half-processed behind an answer unless it refused
it for a stated reason or could not delete it, and never deletes the last directory
of a problem as a duplicate; one `abrtd` serves; the
upload watch processes each archive once with a bounded number of workers; a
session is authorized only by polkit's answer to its own request or a valid
token of its user; a task that is cancelled leaves nothing, unless the registration or
the deletion of its directory failed, and one that is done keeps its problem; a user cannot grow a directory past the limit; a hook ignores
only repeated crashes and writes whole cores; a watcher's saved position never
runs ahead of its work; a result is saved only beside the crash it was made of.

## 2. Modules

| Module | Models | |
|---|---|---|
| `TurnQueue` | what the queue promises: a first-come-first-served line for one turn | abstract |
| `PostCreate` | `abrtd`'s queue, `abrt-server`, `abrt-handle-event`, the hooks' effect on the dump location, crash and restart | implements `TurnQueue` |
| `AbrtdStartup` | instances of `abrtd`: pid file, socket, bus name, SIGTERM, `daemon_is_ok()` | |
| `AbrtdStartupProofs` | theorems about `AbrtdStartup` | TLAPS |
| `WorkPool` | what the watch promises: a pool of workers with a bounded line | abstract |
| `UploadWatch` | the upload watch and its workers | implements `WorkPool` |
| `UploadWatchProofs` | theorems about `UploadWatch` | TLAPS |
| `CoreHook` | concurrent core dump hooks | |
| `CoreHookProofs` | theorems about `CoreHook` | TLAPS |
| `P2Session` | sessions, polkit requests and tokens | |
| `P2SessionProofs` | theorems about `P2Session` | TLAPS |
| `P2Task` | NewProblem tasks, their threads and directories, the limits of a user | |
| `P2TaskProofs` | theorems about `P2Task` | TLAPS |
| `P2Entry` | the elements of one problem: save, read, delete, limits | |
| `DumpDirProofs` | theorems about the problem directories: `PostCreate` and `P2Entry` | TLAPS |
| `Koops` | the scanners for kernel oopses and X crashes, as loops over a state, with their reference definitions | pure |
| `JournalWatch` | the three journal watchers | extends `Koops` |
| `JournalWatchProofs` | theorems about `JournalWatch` and the scanners of `Koops` | TLAPS |
| `RetraceClient` | retrace clients and what they see of the server | |
| `RetraceClientProofs` | theorems about `RetraceClient` | TLAPS |
| `MC...` | instances for TLC | |

In every module a definition whose comment begins with *Mutant*, or which
`PROJECT.json` names under `mutants`, is a plausible bug in the definition after
it, paired there with the property that must catch it.  They are not used by any
specification.

### PostCreate

One action per callback of `abrtd`'s main loop and per step of `abrt-server`
between points where another process may act.

* *abrtd*: `s_processes`, `s_dir_queue` (a sequence of servers), `procDir` and
  `procType` (the fields of `struct abrt_server_proc`), `listening` (the socket
  watch).  `clean` is the local state of `queue_post_craete_process()`: each
  turn of its cleaning loop picks a directory and signals its server (`clean_new_dir`,
  `clean_unprocessed_dir`; an old directory has none), and deletes it in a later step
  (`victim`, `delete_worst_dir`), because hooks and servers run beside it; while it is
  in progress no other callback of `abrtd` runs (`InMainLoop`).
* *abrt-server*: `pc`, `dir`, `pipe` (the announcement `abrtd` has not read),
  `sig` (signals sent), `outcome`.  A slot is reused once it was reaped, so the
  model covers any number of requests.
* *event handler*: `event` and `dupOf` of each server; `orphans` are handlers
  whose server died and which go on.
* *dump location*: `exists`, `count` (the number in `FILENAME_COUNT`, 0 if
  there is none), `hasId` (the backtrace or uuid the duplicate search compares).
  `Stubborn` directories may resist `dd_opendir()` or `dd_delete()` of `abrtd` and of
  their server (`undeleted` remembers which did), `UnfitDirs` may turn out to have a
  wrong owner, group or mode, and `Debugging` says whether `DebugLevel` is set, which
  keeps directories of crashes that ABRT provoked itself.
* The contents of a directory are reduced to the issue it is an occurrence of
  (`IssueOf`): user, type, executable and backtrace, all that the duplicate
  search compares.  `EarlyIssues` have their backtrace at crash time (kernel
  oopses, python exceptions), the others only after post-create computed it.
  Similarity of backtraces is satyr's business and taken as given.
* Sizes are reduced to a number of directories (`MaxDirs`); which directory is
  the worst is left open, so every choice the size computation could make is
  covered.
* HTTP parsing is reduced to accept or reject.
* The mark "not reportable" that `abrtd` sets at start-up on directories without a
  count is left out: nothing here reads it.

### AbrtdStartup

`path` names an inode or nothing, `lock` and `content` belong to inodes, `fd` is
the inode an instance has open.  `main()` is split where another instance, a
signal or the parent may act.  `killed` may happen anywhere; `Exit` is the
kernel's and the bus daemon's part.  `on_name_lost` dies without clean-up, as the
code does.  Work after the start (the queue) is in `PostCreate`.

### UploadWatch

The watch is a thread with two callbacks; the `waitpid()` loop is open to workers
that end meanwhile (`reaping`), not to inotify events.  `children` is the code's
counter, `Unreaped` the processes.  Workers check and move in separate steps.
SIGUSR1 (prints statistics) and names the inotify callback passes over are left
out.  `WorkPool` is the same seen from outside: an archive is offered, looked at (begun
if a worker is idle, put in line, or dropped from a full line), begun later in the order
of the line, and done; `Pool` maps the watch's queue, counter and processes to it.

### CoreHook

Each hook is a process with the program counter `pc`; system calls on what hooks
share (the marker, directories and their locks) are steps of their own.  The
memory image is the sequence of its positions, so that a core file can be told
whole, cut and in order; one step of `dump_two_core_files()` moves one piece of
the pipe's size.  `cfg` fixes settings, limits and which reasons to ignore a crash
apply; sizes wrap at `SizeMax`.

The marker is a text.  Names are sequences of letters, so that one may begin
another and the end of one may follow the beginning of another: `Spells` compares
what is in the file with the name of the program.  It is written and truncated in two
steps, between which time passes and other hooks read and write.  The history says
whether the text is torn (`"half"` while the end of a longer name follows, `"mixed"`
when two hooks wrote it at once) and who was `misled` by a torn text.

Directories have sizes (`cfg.size`, counted in blocks).  `trim_problem_dirs()` picks
a directory that is not the hook's own, whatever its lock (which one is worst depends on
sizes and ages and is left open), waits for the lock in `delete_dump_dir` and may fail
there; each try uses up one of `TrimTurns` (20 in the
code).  `beaten` are the hooks that used up all of theirs while nobody has seen the
location fit since.  The user core is opened only if its limit is not 0
(`WantsUserCore`); one that was created before a later check failed stays empty.

### P2Session, P2Task, P2Entry

The problems2 service is one thread with a GLib main loop: a callback is a step.
`P2Session` has what crosses callbacks: a request to polkit (`rq`, the memory of a
`struct check_auth_cb_params`, reused once answered) is answered in any order and
any time later, and unregistering an object frees it in a later iteration.
`P2Task` adds the threads: `Thread(t)` runs beside the main loop and stops at every
point where it calls shared state; the two halves of the throttling (read and
write of the counters) are separate steps because nothing locks them.  The
`status-changed` handlers that a cancel, an autonomous task and a delayed disposal
connect are the variable `handler`; a second `Cancel` of a running task connects the same
handler again, which then finds the task ended and does nothing but drop its reference,
so the model has one.  A thread compares and stores the time it read on entry (`current`),
not the time of the comparison.  `Stubborn` directories may resist their deletion, by the
lock of `SaveElements` or of another process or in `dd_delete()` (`refused` remembers which
did), and any entry may fail to be registered (`unregistered`).  `P2Entry` has one directory, a lock that
`SaveElements` holds from its first to its last element, and the sizes `dd_size`
and `dd_items` the code keeps up beside the real ones.

### Koops, JournalWatch

`Koops` gives each scanner as the loop it is in the code: a state (the line, where the
oops began, what was found so far), the turn that takes one line, and the function that iterates the turn.  A line is one of
the classes that the code tells apart: what makes a line suspicious, what begins a call
trace (`Begins`) and what goes on with one (`Continues`) are different sets of lines, and
there are short lines, lines of another log level, the instruction dump, which still
belongs to the oops it ends, and the last line of a fatal MCE, which is suspicious and
begins a call trace at once.  Beside them are declarative
definitions of what a line range must be to be an oops or a crash.  `JournalWatch` has one watcher at a time
(`kind`): its position, the state file that is truncated and then written, the flag
the SIGTERM handler sets, the sleeps it ends, and the ring of executables that
throttles the core watch.  The journal grows, loses old entries, and the program
is stopped, killed and started again.

### RetraceClient

Clients run beside each other and beside programs that remove elements and whole
directories.  An archive is the set of the elements in it with the directory each came
from; `tar` fails if one of them is gone.  The server is external and modelled by the answers the client
distinguishes; `lost` notes that an answer was cut or a connection broken, so that
properties can say what is promised without it.  A client that could not send all of its
archive still reads the answer, and drops the id of a 201 (`exit` is then `"result"`).

## 3. Runs

| Run | Instance | Shows |
|---|---|---|
| `postcreate_queue` | 3 servers, 3 occurrences of one problem, space for fewer, nobody dies (300 000 states) | `AtMostOneProcessing`, `SignalsSafe`, `CountNotInflated`, `SurvivorExists`, refinement of `TurnQueue` |
| `postcreate_merge` | 2 servers, 3 directories, one provoked by ABRT itself, one of a wrong owner, one that resists deletion, `DebugLevel` set or not, space for 2, a trimming hook, a restart, dying servers (2.9 M) | the inductive invariant `IInv` (the types and the queue's invariants are parts of it), `AnsweredMeansSettled` |
| `postcreate_live` | 2 servers, 2 directories, space for 1, dying servers, fairness (99 000) | `WaitEnds` |
| `startup` | 3 instances, everything may happen to them, fairness (380 000) | `OneInstance`, `ServingMeansReachable`, `ParentReportsStarted`, `StartsOrGivesWay` |
| `upload` | 4 archives, 2 workers, queue of 1, one failed `fork()`, SIGTERM, fairness (350 000) | `WorkersCounted`, refinement of `WorkPool`, `NothingReplaced`, `DeferredIsStarted` |
| `core_hook` | 3 hooks; settings for the marker (one name over another spells the third), for the copy and for a storm (directories of one and two blocks, failing deletions) (446 000) | `RepeatedOnly` (but for torn markers), `CoresWhole` (foreign files stay, failures are told), `StormTrimmed` (unless a hook ran out of turns), `HookEnds` |
| `watchers` | every journal of up to 3 kernel lines of any kind (but one of those filtered out), of up to 4 of eight kinds, of up to 5 of the five commonest, and of up to 5 X lines, read once; growing journals with restarts (501 000) | `PositionNotAhead`, `ReportedOnce`, `CrashesFound` (the scanners agree with their reference definitions), `ThrottleKept`, `EntriesSettled`, `TermEnds` |
| `p2_session` | 3 clients of a user and one of root, 2 requests, 1 token (1.4 M) | `PendingHasRequest`, `NoElevation`, `SignalTells`, `GrantJustified` |
| `p2_task` | 2 tasks of one client, 2 directories, of which one may resist deletion and either may fail to be registered, fairness (370 000) | `NoForgottenDir`, `DoneIsKept`, `CancelEnds`, `LeftLeavesNothing` |
| `p2_entry` | 3 elements of 3 types and 3 sizes, a user and root (137 000) | `LimitsKept` (size and number of elements, and the sizes kept up by hand), `ReadBounded` |
| `retrace` | 2 clients in 12 scenarios, on one directory or on two (594 000) | `UploadAllowed`, `ResultOfThisCrash`, `TaskAccountedFor`, `ClientEnds` |
| `p2_throttle` | 3 tasks, a batch of 1, no time passes | **violation** of `Throttled`: see the finding |

The finding: `abrt_p2_service_user_can_create_new_problem()` is called from the
threads of the tasks and changes the counters of the user without a lock.  Two
threads that both see the last new problem of a batch take it, the unsigned counter
wraps, and the next call sets it back to a full batch: the comment above the
function promises one problem per interval after the batch.

**Bounds.**  Three servers are one running, one queued and one arriving, which is
every role the queue distinguishes; space for fewer than all directories makes
cleaning meet a queued, a new and an old one.  In `postcreate_merge` three
directories are two duplicates and a bystander; `MaxRestarts` and `MaxHooks` bound
the environment, and one of each is enough to separate a directory from its
announcement.  The queue's invariants are parts of `IInv`, so `postcreate_merge`
also checks them with dying servers and restarts.  Three instances of `abrtd` are
one that leaves, one that enters and a witness.  Four archives fill two workers and
the queue and leave one to be omitted.  Three hooks are two of one program and one
of another, the least that can overwrite a marker between two that look at it; an
image of four pieces passes limits of two and four at, before and after a boundary.
In a storm three directories of one block, or one of two, meet a cap of one block and two
turns for each hook: a hook can run out of turns behind a directory that another picked
or that resists, and its own directory can be larger than the cap by itself.
Three clients of one user pass a limit of two while one is not freed yet, and two
requests are one that is stale and one that is current.  Two tasks race on a batch
of one.  Element sizes 1 to 3 around limits of 4 hit below, at and above.  Three
lines of any kind are an oops that begins, goes on and meets a line of each kind; the five
lines of the commonest kinds reach every exit of the scanner with `LookAhead`, `TooLong`
and `OneLine` scaled down; two starts of a watcher
are a stop and a resumption.  Two retrace clients share one directory or have one
each (a program's crash and a kernel crash), and share one slot of the server.  Symmetry over servers, directories of one problem, clients of one
user, requests and tokens is used in runs without liveness: they are
interchangeable in the definitions.

**Deadlock** is not checked: requests, uploads, crashes and instances are finite in
the instances, and a system with nothing left to do is idle, not stuck.  That
nobody waits for ever is stated as liveness.

**Fairness.**  `PostCreate`: weak fairness of `abrtd`'s main loop, of each server
and of each event handler, that is, processes are scheduled and post-create
handlers end.  Nothing is assumed of requests, crashes, restarts, hooks.
`AbrtdStartup`: every instance is scheduled.  `UploadWatch`: the main loop and
every worker are scheduled; uploads, SIGTERM and failures of `fork()` are not
assumed.  `CoreHook`: the kernel schedules every hook and feeds its input.
`P2Task`: task threads run, the daemon answers (abrt-server has a timeout), the
main loop serves what is ready; clients owe nothing.  `JournalWatch`: a program
that can go on does, and sleeps end; entries, signals and restarts are not assumed.
`RetraceClient`: clients are scheduled, the server answers uploads and finishes
tasks; no failure is assumed to happen or not to happen.  `P2Session` and `P2Entry`
state safety only: polkit may never answer.

## 4. Proofs

TLC checks the instances above; the theorems hold for any number of servers,
directories, issues, clients, restarts, instances, requests, tokens, archives and
tasks.

**`DumpDirProofs`, post-create.**  None of the safety properties is inductive.  `IInv` is
the conjunction that is:

* `QueueInv`: a queued server is a child of `abrtd`, waits, and is queued once;
* `TurnAtHead`: of the queued servers the head, and only it, was told to go on;
* `SignalInv`: what signals a server may have, given where it is in its code;
* `CleanInv`: what the local variables of the cleaning loop still mean although
  other processes ran since they were set;
* `ServerInv`: what a server past its wait knows about itself and the queue;
* `DupInv`: a duplicate that was found is, if it is gone, among the discarded;
* `InterruptMeansRemoved`, `AnsweredMeansSettled` and `SurvivorExists` themselves, with
  their exceptions: the directory that `abrtd` is about to delete, one that could not be
  deleted, and a refusal that leaves the directory alone.

`InvInit` and one lemma per action show `IInv` is preserved (`Invariance`);
the lemmas are split per server with a frame lemma for the servers an action
does not touch.  From `Invariance` follow `TypeCorrect`, `MutualExclusion`,
`QueueNeverStalls`, `SignalSafety`, `InterruptSafety`, `AnswerSafety`,
`ProblemNotLost`, `RunningSpared`, `SocketSafety`; `TurnAtHead`, `InterruptMeansRemoved`,
`CleaningSparesRunning` and `SocketWatched` are proved and in no run of their own.  `EventsSerialised` holds only
if no server dies, and says so in its formula.  `QueueImplementsTurns` is the
refinement: initial states map to initial states, every step to a step of
`TurnQueue` or a stutter, restarts included.

`NoServerForgotten` is the safety behind `WaitEnds`.  A server that waits for `abrtd`'s
signal has the signal, or its line is unread or in `abrtd`'s hands, or it is queued behind
another that was sent SIGUSR1 and goes on, or ended and is still to be reaped.  `WaitInv`
adds to `IInv` where the line of a waiting server has gone (the pipe, the cleaning loop,
the queue or SIGINT), and that the one with the turn was sent SIGUSR1.

**`DumpDirProofs`, counts.**  `CountNotInflated` compares a sum over the directories of
a problem with their number, and neither is kept by the code.  `SubsetInduction` (induction
over the subsets of a finite set, from a least counterexample) gives `MapThenSumSet` its
recursion equation (`SumExists`, `SumFacts`), and from then on sums are used through that
equation.  The invariant is a budget: when a directory is counted in its duplicate it
pays with itself, because `abrt-server` deletes it next.  `Live` are the directories that
have not paid; `BudgetInv` says that the counts of those plus their number are at most the
number saved, plus one if something is counted already, because the first count of a
problem belongs to a directory that stays.  `IdInv` says why "unique" is still true when
the count is written: only directories with an id have counts, and the others that could
match have none.  With these `CountsNotInflated` is inductive.  It is stated for a service
in which no server is killed, that is not restarted and in which no deletion fails
(`Undisturbed`): a server that dies between counting and deleting, or cannot delete, leaves
a directory that has been counted and can be announced again, and nothing in the code tells
the two apart.

**`DumpDirProofs`, elements.**  `EntryInv` has the types, `LimitsKept` itself and
`CountedInv`: `dd_items` is at least the number of elements, and may be more, because an
element is counted before it is known whether it will be saved.  `WriteAdds` says what
writing one element does to the sum of all; `MaxCopyNat` that the room computed for a
descriptor is within the limit or within the element it replaces.  `LimitsAreKept`
follows.  For `ReadElements`, `ReadFits` takes the loop turn by turn: `ReadIsBounded` is
the property the run checks and `AnyReadIsBounded` the same for requests of any length.

**`AbrtdStartupProofs`.**  Until the first SIGTERM (`Undisturbed`) there is one pid
file and it is never replaced, so whoever serves holds its lock: `LockExcludes`,
`Reachable`, `ParentRight`.  The condition is needed, see the observations.

**`P2SessionProofs`.**  A late answer is dangerous only through what it points to,
so the invariant follows the pointers: `RequestInv` (a request that still points to
a session is live, and the session exists and is not root's), `LinkInv` (the request
in `p2s_auth_rq` of a session in memory is live and points back), `FreedInv` (a freed
session was taken out of PENDING), and `RootInv` and `FreshInv` (sessions of root and
sessions that are not registered yet have no request).  With these the answer to a
superseded request can only end a session that is told so, and `PendingSafe`,
`NeverElevated` and `ClientsTold` are inductive.  `LimitKept` counts: a step adds
nobody to a user's sessions, or one when they are below the limit.
`GrantsJustified` is an action property from the same invariant.

**`UploadWatchProofs`.**  `WorkersCounted` needs to know what a worker process can be
(`WorkerInv`) and, since a step may start the head of the queue, that the five places
an archive can be in are disjoint and cover what was uploaded (`SeenOnce`).  Together
with the types they are inductive; `CounterRight`, `EveryArchiveOnce` and the action
property `SpoolKept` follow, for any number of archives, workers and any queue.

`WatchImplementsPool` is the refinement of `WorkPool`: every step of the callbacks and of
the workers is one of the pool or leaves it alone.  Because the code's counter lags behind
the processes (a worker that ended counts until it is reaped), the step that looks at an
archive is mapped by `CounterRight`, and the places of an archive by `EveryArchiveOnce`.
`DeferredNotForgotten` is the safety behind `DeferredIsStarted`: unless a `fork()`
failed, archives are in the queue only while every worker is counted (`NoneIdle`), and a
worker that ended and is not reaped has its SIGCHLD in the pipe or is met by the
`waitpid()` loop that is going on (`ExitIsKnown`).  So no coalesced signal leaves the queue
waiting for a process that is gone.

**`P2TaskProofs`.**  `SettledInv` says of each directory a task made that it is
deleted, is in `p2tnp_obj`, is on its way there in the thread, or that its deletion
or its registration failed; `LostInv` that the task of a directory that was not registered
has failed, was canceled or is about to fail; `ThreadInv` says what a thread at each of its points has made and set,
and `StatusInv` what a status means for the thread, the handlers and the owner.  The
main loop changes a task beside its thread, so each lemma treats the task that moves
and shows with a frame lemma that the others and their directories are left alone.
`NothingForgotten` and the action property `DoneStays` follow.

**`RetraceClientProofs`.**  `ChecksInv` records which of `create()`'s checks a client
has passed where it is, `ReadInv` that settings read in part never promise more than
the server does, `TaskKnownInv` what the connection and the place say of the task,
`ResultInv` that every required element of the client's own directory is in its archive
from the packing on, what a client that fetches has and which directory it has locked, and
`SavedInv` that the rating is the last thing a client saves.  One lemma (`EndsKeeps`) covers all the
ways to end, one (`GoesOn`) the steps that only move on, one (`Frame`) the clients
that do not move.  `UploadIsAllowed` and `TaskIsKnown` follow.  `ResultBelongs` is an action property: it is
shown for the two steps that save (`SaveStep`, `RateStep`) and for all others, which save
nothing and end no batch successfully (`OtherSteps`).

`LockGivenBack` is the safety behind `ClientEnds`: `LocksInv` is the converse of what
`ResultInv` says of locks (a locked directory is there, and its owner is at a place between
taking the lock and giving it back), and that a client in the endless loop lacks a
required file, which stays so because nobody adds one.  So whoever waits in
`dd_opendir()` waits for a client that goes on, or for the endless loop of section 5.

**`CoreHookProofs`.**  The marker file is shared by all hooks and is read, truncated and
written in separate steps.  `WrittenInv` says that a text that is not torn is the name of a
hook that wrote it at its time, and that while no two hooks are mixed up in it at most one
is writing, whose name the text begins with: so the truncation that follows leaves exactly
that name.  `FreshInv` says what may have become of an untorn text since a hook looked at its
time: somebody of the named program wrote it since, or it is as old as it was.  `MarkInv`
ties both to the place of each hook.  From these follows `OnlyRepeatedIgnored`, for names of
any letters; the hooks it excepts are those that read a torn text which spelled their name.  For the copies, `TeeInv` is the loop invariant of
`dump_two_core_files()`: the spliced file has all that was taken from the pipe, the teed
one too while the temporary pipe is open, and it is full when that was closed without an
error; `WholeInv` is what remains of it after the loop, and the lemmas about `Positions`
say that consecutive pieces make one.  `CoresAreWhole` follows.

For a storm of crashes, `StormInv` says: what was saved fits (it takes at most `CapSize`
blocks, or is a single directory), or a hook is left that will trim, or one was killed, or
one was beaten: it used up its turns.  What counts are the directories without those of hooks that are
still collecting (`Collecting`): such a hook may yet throw its own away, and if it does not
it goes on and will trim.  A hook trims only after it saved its directory (`SavedInv`), and
trimming ends only when what it sees fits, or with its last turn.  When all hooks are through, no
collecting and no trimming one is left, which is `StormIsTrimmed`.

`NoHooksInCircle` is the safety behind `HookEnds`: only the hook that made a directory
ever locks it, and only between `dd_create()` and `dd_close()` (`LockInv`), so a hook that
trims or waits to delete its `victim` holds nothing, and whoever it waits for does not trim.  This is what the order of
`dd_close()` and the trimming is for (the comment at `abrt-hook-ccpp.c:1452`).

**`JournalWatchProofs`, the scanners.**  A scan is a function defined by recursion over
the number of turns; `Iterates` shows from a least counterexample that such a function
exists, and hence that the turns are what its definition says.  `OopsInv` is the loop
invariant of `koops_extract_oopses_from_lines()`: up to an edge (the line being read, or
the beginning of the oops being read) what was found is sound, in order and without
overlap, and every suspicious line is inside an oops or passed over for one of the
reasons the code has (`KoopsComplete`: it is a short line, it ended the oops before it, it
is among the lines in which an earlier one waits for its call trace, or its own call trace
went on until the oops was cancelled as too long); `Reading` is what is known of an oops that has begun.  A line that
has no end marker within `LookAhead` is read again line by line, so the same line is met
in two ways; `Turn` lists the ways, and `TurnKeeps` goes through them.  `XorgInv` is the
same for `process_xorg_bt()`; the only heads it passes over are those that ended a backtrace
that was open.  `OopsesExtracted` and `XorgCrashesExtracted` hold for any
number of lines of any content; `CrashesFoundHolds` applies them to the lines a watch
collects.

**`JournalWatchProofs`, the watches.**  The invariant `Inv` has four parts.  `TypesInv`:
where the program is, where in the journal, and that the list of an extraction lies in the
lines read.  `HandledInv`: what is behind the position was handled or excused, or is on
the list that is being worked off; the same for the saved cursor, which for the oops and X
watches points at an entry that is read again.  `OnceInv`: what has become a problem is
behind the position and no longer on the list, so it is not met again.  `QueueInv` is about
the ring of the core watch, which forgets: a slot has the time of the last problem of its
executable (`StampInv`), an executable with a problem and no slot was pushed out of a full
ring (`SlotInv`), and a free slot is used before a filled one (`RingInv`).
`PositionHolds`, `ReportedOnceHolds` and the action property `ThrottleHolds` follow, the
last also for a clock that is set back.

The assumptions are those stated with `ASSUME` next to the constants: the
"nobody" values are not members of their sets, sets are finite, limits are
natural numbers, the client limit is at least one, executables and lines have
the form the modules give them.

Induction.  The theorems of the library that induct over numbers or finite sets take the
induction hypothesis as an operator, which the provers cannot instantiate.  The proofs
here use sets instead: `NatLeast`, `NatInduct`, `Induction` and `SubsetInduction` are
derived from `WFMin` (a well-founded relation has a minimal element in every set that is
not empty), and are applied to the set of numbers, or of subsets, for which a claim holds.

Only model-checked: the liveness properties `WaitEnds`, `StartsOrGivesWay`,
`DeferredIsStarted`, `HookEnds`, `EntriesSettled`, `TermEnds`, `CancelEnds`,
`LeftLeavesNothing` and `ClientEnds`, because fairness and `ENABLED` are outside this
prover.  What they rest on is proved for
`WaitEnds`, `DeferredIsStarted`, `HookEnds` and `ClientEnds`: `NoServerForgotten`,
`DeferredNotForgotten`, `NoHooksInCircle` and `LockGivenBack` say that nobody waits for
something that is not under way; their invariants were first checked with TLC on the
instances above.  Every invariant, every action property and both refinements that a passing
run checks are also theorems, `CountNotInflated` under the condition given above.

## 5. Observations

Behaviour that reading and modelling showed, that no run above contradicts because
the properties state what does hold:

* **Post-create.**  The mark `abrtd` sets at start-up (`abrtd.c:668` "The problem data
  are incomplete") outlives a later post-create.  `abrtd` interrupts the server of a
  directory (`abrtd.c:187`, `195`) before it deletes it (`206`), and the deletion may fail:
  the directory then stays, without a count and without a server.  A directory with a
  wrong owner, group or mode is refused and stays (`abrt-server.c:287`), and so does a
  provoked crash while `DebugLevel` is set (`300`).  The answer 503 for a line that could
  not be written to `abrtd` is never given: the result is kept in an unsigned variable.
  The duplicate that is counted may
  itself wait for its turn, contrary to the comment at `abrtd.c:623`.  The event handler
  of a server that died goes on beside the next one (`abrt-server.c:337`).
* **Start-up.**  An instance that is stopped unlinks the pid file that the next one
  has opened; that one then holds the lock of a file without a name.  SIGTERM before
  the signal pipe is connected is dropped.
* **Upload.**  Two workers with directories of the same name: the second is moved into
  the first.
* **Core hook.**  The user core is opened and truncated before the reasons to ignore a
  crash, so an ignored crash leaves an empty one, as does one whose later checks fail after it
  was created.  Two hooks that write the marker at once leave the beginning of one name
  and the end of another until the second truncation, which may spell the name of a third
  program (`check_recent_crash_file.c:53`): its first crash is then taken for a repeated one.
  Trimming stops after 20 directories (`hooklib.c:66`), and hooks that pick the same one, or
  one they cannot delete, use up their turns without effect; a hook's own directory is
  spared even if it is larger than the cap.  Which file a failed copy is blamed
  on depends on a comparison of pointers (`abrt-hook-ccpp.c:678`).  The overflow test at
  line 1336 compares the product with the factor; on 64 bits it cannot matter.
* **Tasks.**  When the entry of a new problem cannot be registered
  (`abrt_problems2_task_new_problem.c:153`), the task fails and its directory stays on disk
  with nobody to delete it; so does one whose deletion fails (`abrt_problems2_entry.c:132`).
* **Sessions.**  `finalize()` tells only the newest request that its session is gone; a
  superseded one still has the pointer when polkit answers.
* **Retrace client.**  The loop over the required files (`abrt-retrace-client.c:142`)
  does not move past a file that is missing and keeps the directory locked.  A task
  whose answer was lost is unknown to everybody; and when a piece of the archive could not be
  sent, the client reads the answer but drops the id of a 201 (lines 732 and 799).  A body that ends early is taken as
  whole.  The exploitability of an earlier task stays beside a newer backtrace.
  `status()` may be given no body (line 849).
* **Watchers.**  The core watch passes over the first entry when it has no saved
  position (`abrt-dump-journal-core.c:582`; its usage text speaks of the entire journal),
  its queue has 8 slots where the comment at line 409 says 10, and `-T` is never read,
  so its throttle is 0 unless `-t` is given.  SIGTERM between the look at the flag and
  `ppoll()` waits for the next entry.  The state file is empty for a moment: a kill
  there makes the next start read everything.  SIGTERM in a pause drops the oopses that
  are left.  The line that ends an oops or a backtrace is consumed even if it starts
  another.  `seek_tail` after a burst gives up what came meanwhile, as its comment says.

## 6. Not modelled

* In `abrtd`: the idle timer (`-t`), deletion of the dump location under
  inotify.  In `abrt-server`: the notify event's effects (it only runs scripts).
* A second `abrtd` marks unprocessed directories before it finds the pid file
  locked (`abrtd.c:790`); the restart of `PostCreate` happens when no other
  instance runs.  A composition of `AbrtdStartup` with `PostCreate` multiplies two state
  spaces that each take a minute.
* `abrtd`'s cleaning loop while a directory cannot be deleted: the safety runs and the
  proofs have such directories (`Stubborn`), the liveness run has none, because the loop
  picks the same directory again and does not end as long as it resists.
* The mark "not reportable" that `abrtd` sets at start-up: no modelled part reads it.
* In the problems2 service: introspection, property marshalling, `GetProblems` and its
  filters, the `Crash` signal.  What a write to a freed session does to other memory.
* `abrt-watch-log`, the command line programs around the scanners, the hash and the
  taint flags of an oops.
* The problems1 and configuration services: synchronous calls of libreport behind a
  synchronous question to polkit.  The applet: its order of events comes from GTK and
  libnotify.  The CLI, the GUI, the python bindings and the other event plugins are
  one-shot programs over libreport.  Every part is listed in `PROJECT.json` with its
  status and reason.
* libreport, satyr, systemd, polkit, the D-Bus daemon and the retrace server are
  external and enter through the calls the sources make.

## 7. Order of work

The modules were written in this order, and a reader may follow it: `TurnQueue`,
`PostCreate`, `AbrtdStartup`, `UploadWatch` and `WorkPool`, `P2Session`, `P2Task`, `P2Entry`, `CoreHook`,
`Koops`, `JournalWatch`, `RetraceClient`.  What would come next: the applet's deferred
queue, the idle timer of `abrtd`, `ignored_problems.c` and `abrt-watch-log`.
