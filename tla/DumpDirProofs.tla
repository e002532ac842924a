--------------------------- MODULE DumpDirProofs ----------------------------
(***************************************************************************)
(* Proofs about the problem directories: about PostCreate, for any         *)
(* servers, directories, issues and limits, with or without crashes and    *)
(* restarts, and about P2Entry, for any elements, sizes and callers.       *)
(***************************************************************************)
EXTENDS PostCreate, P2Entry, WellFoundedInduction, FiniteSetTheorems, TLAPS

-----------------------------------------------------------------------------
(* The queue *)

\* Dropping the i-th entry (g_list_delete_link) keeps the others, in order.
LEMMA RemoveAtFacts ==
    ASSUME NEW S, NEW q \in Seq(S), NEW i \in DOMAIN q
    PROVE  /\ RemoveAt(q, i) \in Seq(S)
           /\ Len(RemoveAt(q, i)) = Len(q) - 1
           /\ DOMAIN RemoveAt(q, i) = 1..(Len(q) - 1)
           /\ \A j \in 1..(Len(q) - 1) :
                RemoveAt(q, i)[j] = IF j < i THEN q[j] ELSE q[j + 1]
  BY DEF RemoveAt

\* g_list_remove() leaves the queue alone or drops one entry for s.
LEMMA WithoutFacts ==
    ASSUME NEW q, NEW s
    PROVE  \/ /\ \A i \in DOMAIN q : q[i] # s
              /\ Without(q, s) = q
           \/ \E i \in DOMAIN q : q[i] = s /\ Without(q, s) = RemoveAt(q, i)
  BY DEF Without

-----------------------------------------------------------------------------
(* Types *)

USE DEF InMainLoop, envVars

\* Signals are only added.
LEMMA SignalledType ==
    ASSUME TypeOK, NEW P, NEW signo \in {"USR1", "INT"}
    PROVE  Signalled(P, signo) \in [Servers -> SUBSET {"USR1", "INT"}]
  BY DEF TypeOK, Signalled

\* Removing a directory keeps the types.
LEMMA DiscardType ==
    ASSUME TypeOK, NEW d, Discard(d)
    PROVE  exists' \subseteq Dirs /\ discarded' \subseteq Issues
  BY IssuesAssumption DEF TypeOK, Discard

\* ... also when the removal may fail.
LEMMA DeleteType ==
    ASSUME TypeOK, NEW d \in Dirs \cup {NoDir}, Delete(d)
    PROVE  exists' \subseteq Dirs /\ discarded' \subseteq Issues /\ undeleted' \subseteq Dirs
  BY DiscardType DEF TypeOK, Delete

\* The initial values have their types.
LEMMA TypeInit == Init => TypeOK
  BY ServersAssumption, DirsAssumption DEF Init, TypeOK, Idle, PCs, Outcomes, Events

\* Each callback of abrtd keeps the types.
LEMMA TypeAbrtd == TypeOK /\ Abrtd => TypeOK'
<1> SUFFICES ASSUME TypeOK, Abrtd PROVE TypeOK'
  OBVIOUS
<1>1. ASSUME NEW s \in Servers, server_socket_cb(s) PROVE TypeOK'
  <2>1. listening' \in BOOLEAN
    <3>1. ASSUME NEW n, NEW m PROVE (n < m) \in BOOLEAN
      OBVIOUS
    <3> QED BY <1>1, <3>1, Zenon DEF server_socket_cb
  <2> QED BY <1>1, <2>1 DEF TypeOK, server_socket_cb, PCs, eventVars, dumpVars, histVars
<1>2. ASSUME NEW s \in Servers, abrt_server_output_cb(s) PROVE TypeOK'
  <2>1. s_dir_queue # <<>> => Head(s_dir_queue) \in Servers
    BY DEF TypeOK
  <2> QED BY <1>2, <2>1 DEF TypeOK, abrt_server_output_cb, eventVars, dumpVars, histVars
<1>3. ASSUME NEW s \in Servers, abrt_server_output_hup(s) PROVE TypeOK'
  BY <1>3 DEF TypeOK, abrt_server_output_hup, abrtdVars, eventVars, dumpVars, histVars
<1>4. ASSUME NEW s \in Servers, remove_abrt_server_proc(s) PROVE TypeOK'
  <2>1. s_dir_queue' \in Seq(Servers)
    <3>1. s_dir_queue' = Without(s_dir_queue, s) /\ s_dir_queue \in Seq(Servers)
      BY <1>4 DEF TypeOK, remove_abrt_server_proc
    <3>2. CASE s_dir_queue' = s_dir_queue
      BY <3>1, <3>2
    <3>3. CASE \E i \in DOMAIN s_dir_queue : s_dir_queue' = RemoveAt(s_dir_queue, i)
      BY <3>1, <3>3, RemoveAtFacts
    <3> QED BY <3>1, <3>2, <3>3, WithoutFacts
  <2>2. sig' \in [Servers -> SUBSET {"USR1", "INT"}]
    BY <1>4, SignalledType DEF remove_abrt_server_proc, TypeOK
  <2>3. procType' \in [Servers -> {"UNKNOWN", "POST_CREATE"}]
    BY <1>4 DEF remove_abrt_server_proc, TypeOK
  <2>4. listening' \in BOOLEAN
    BY <1>4, Zenon DEF remove_abrt_server_proc
  <2> QED BY <1>4, <2>1, <2>2, <2>3, <2>4 DEF TypeOK, remove_abrt_server_proc, PCs, Outcomes, Events,
            dumpVars, histVars
<1>5. ASSUME NEW d \in Dirs, clean_worst_dir(d) PROVE TypeOK'
  <2> USE DEF TypeOK, Worst, abrtdVars, serverVars, eventVars, dumpVars, histVars
  <2>1. CASE clean_new_dir(d)
    <3>1. sig' \in [Servers -> SUBSET {"USR1", "INT"}]
      BY <2>1, SignalledType DEF clean_new_dir
    <3> QED BY <2>1, <3>1 DEF clean_new_dir
  <2>2. ASSUME NEW i \in DOMAIN s_dir_queue, clean_unprocessed_dir(d, i) PROVE TypeOK'
    <3>1. sig' \in [Servers -> SUBSET {"USR1", "INT"}]
      BY <2>2, SignalledType DEF clean_unprocessed_dir
    <3>2. s_dir_queue' \in Seq(Servers)
      BY <2>2, RemoveAtFacts DEF clean_unprocessed_dir
    <3> QED BY <2>2, <3>1, <3>2 DEF clean_unprocessed_dir
  <2>3. CASE clean_old_dir(d)
    BY <2>3 DEF clean_old_dir
  <2> QED BY <1>5, <2>1, <2>2, <2>3 DEF clean_worst_dir
<1>7. ASSUME delete_worst_dir PROVE TypeOK'
  <2>1. clean.victim \in Dirs \cup {NoDir}
    BY DEF TypeOK
  <2>2. exists' \subseteq Dirs /\ discarded' \subseteq Issues /\ undeleted' \subseteq Dirs
    BY <1>7, <2>1, DeleteType DEF delete_worst_dir
  <2> QED BY <1>7, <2>2 DEF TypeOK, delete_worst_dir, serverVars, eventVars
<1>6. ASSUME consider_processing PROVE TypeOK'
  <2>1. s_dir_queue' \in Seq(Servers)
    BY <1>6 DEF TypeOK, consider_processing
  <2>2. sig' \in [Servers -> SUBSET {"USR1", "INT"}]
    BY <1>6, SignalledType DEF consider_processing, PassTurn, TypeOK
  <2>3. procType' \in [Servers -> {"UNKNOWN", "POST_CREATE"}]
    BY <1>6 DEF consider_processing, PassTurn, TypeOK
  <2> QED BY <1>6, <2>1, <2>2, <2>3 DEF TypeOK, consider_processing, Idle, eventVars,
            dumpVars, histVars
<1> QED BY <1>1, <1>2, <1>3, <1>4, <1>5, <1>6, <1>7 DEF Abrtd

\* Each step of a server and of its event handler keeps the types.
LEMMA TypeServer ==
    ASSUME TypeOK, ServerInv, NEW s \in Servers, Request(s) \/ Serve(s) \/ crash(s)
    PROVE  TypeOK'
<1> USE DEF TypeOK, PCs, Outcomes, Events, abrtdVars, serverVars, eventVars, dumpVars, histVars
<1>1. CASE reject_request(s)
  BY <1>1 DEF reject_request, Exit
<1>2. ASSUME NEW d \in Dirs, delete_path(s, d) PROVE TypeOK'
  BY <1>2, DiscardType DEF delete_path, Exit
<1>3. ASSUME NEW d \in Dirs, create_problem_dir(s, d) PROVE TypeOK'
  BY <1>3 DEF create_problem_dir, AddDir
<1>4. ASSUME NEW d \in Dirs, creation_notification(s, d) PROVE TypeOK'
  BY <1>4 DEF creation_notification
<1>5. CASE trim_problem_dirs(s)
  BY <1>5, DiscardType DEF trim_problem_dirs
<1>6. CASE refuse_dir(s)
  BY <1>6 DEF refuse_dir, Exit
<1>7. CASE delete_provoked_dir(s)
  BY <1>7, DeleteType DEF delete_provoked_dir, Exit
<1>22. CASE keep_provoked_dir(s)
  BY <1>22 DEF keep_provoked_dir, Exit
<1>8. CASE emit_new_problem_signal(s)
  BY <1>8 DEF emit_new_problem_signal
<1>9. CASE spawn_post_create(s)
  BY <1>9 DEF spawn_post_create
<1>10. CASE interrupted(s)
  BY <1>10 DEF interrupted, Exit
<1>11. CASE run_event(s)
  BY <1>11 DEF run_event
<1>12. CASE run_event_fails(s)
  BY <1>12 DEF run_event_fails
<1>13. CASE no_duplicate(s)
  BY <1>13 DEF no_duplicate
<1>14. ASSUME NEW d \in Dirs, is_crash_a_dup(s, d) PROVE TypeOK'
  BY <1>14 DEF is_crash_a_dup, Duplicates
<1>15. CASE post_create_failed(s)
  BY <1>15 DEF post_create_failed
<1>16. CASE count_new_problem(s)
  BY <1>16 DEF count_new_problem
<1>17. CASE count_duplicate(s)
  <2>0. dupOf[s] \in Dirs
    BY <1>17 DEF count_duplicate
  <2>1. count[dupOf[s]] + 1 \in Nat
    <3>1. count \in [Dirs -> Nat]
      OBVIOUS
    <3>2. count[dupOf[s]] \in Nat
      BY <2>0, <3>1, Zenon
    <3> HIDE DEF TypeOK
    <3> QED BY <3>2
  <2>2. count' \in [Dirs -> Nat]
    BY <1>17, <2>0, <2>1 DEF count_duplicate
  <2> QED BY <1>17, <2>2 DEF count_duplicate
<1>18. CASE delete_bad_dir(s)
  BY <1>18, DeleteType DEF delete_bad_dir, Exit
<1>19. CASE delete_dup_dir(s)
  BY <1>19 DEF delete_dup_dir
<1>20. CASE notified(s)
  BY <1>20 DEF notified, Exit
<1>21. CASE crash(s)
  <2>1. event[s] \in {"running", "scanning"} => dir[s] \in created
    BY DEF ServerInv, ServerOK
  <2>2. orphans' \subseteq Dirs
    BY <1>21, <2>1 DEF crash
  <2> QED BY <1>21, <2>2 DEF crash, Exit
<1> QED BY <1>1, <1>2, <1>3, <1>4, <1>5, <1>6, <1>7, <1>8, <1>9, <1>10, <1>11, <1>12,
         <1>13, <1>14, <1>15, <1>16, <1>17, <1>18, <1>19, <1>20, <1>21, <1>22 DEF Request, Serve

-----------------------------------------------------------------------------
(* What the steps of one server have in common, so that the invariants need not
   look at each of them. *)

\* abrtd and the other servers do not move.
Frame(s) ==
    /\ UNCHANGED <<s_processes, s_dir_queue, procDir, procType, listening, clean, sig>>
    /\ \A t \in Servers \ {s} : /\ pc'[t] = pc[t]
                                /\ dir'[t] = dir[t]
                                /\ outcome'[t] = outcome[t]
                                /\ event'[t] = event[t]
                                /\ dupOf'[t] = dupOf[t]
                                /\ t \in pipe' <=> t \in pipe

Early == {"request", "trim", "check"}
Past  == {"post_create", "delete_bad_dir", "delete_dup", "notify", "notify_dup"}

\* The server itself moves forward: it speaks to abrtd only after its checks and
\* goes past the wait only on SIGUSR1.
Local(s) ==
    /\ pc[s] \notin {"unused", "exited"}
    /\ pc'[s] # "unused"
    /\ pc[s] # "request" => dir'[s] = dir[s]
    /\ s \in pipe => s \in pipe'
    /\ s \in pipe' => s \in pipe \/ (pc[s] = "check" /\ pc'[s] = "wait")
    /\ pc'[s] \in Past => pc[s] \in Past \/ (pc[s] = "wait" /\ "USR1" \in sig[s])
    /\ pc'[s] \in Early => pc[s] \in Early
    /\ pc'[s] = "wait" => pc[s] = "check"

\* ... or only its event handler does.
Moves(s) == Local(s) \/ (/\ pc[s] \notin {"unused", "exited"}
                         /\ pc'[s] = pc[s] /\ dir'[s] = dir[s] /\ pipe' = pipe)

\* Every step of a server is framed.
LEMMA FrameServer ==
    ASSUME TypeOK,
           NEW s \in Servers, Request(s) \/ Serve(s) \/ crash(s)
    PROVE  Frame(s)
<1> USE DEF TypeOK, Frame, abrtdVars, serverVars, eventVars, dumpVars, histVars
<1>1. CASE reject_request(s)
  BY <1>1 DEF reject_request, Exit
<1>2. ASSUME NEW d \in Dirs, delete_path(s, d) PROVE Frame(s)
  BY <1>2 DEF delete_path, Exit, Discard
<1>3. ASSUME NEW d \in Dirs, create_problem_dir(s, d) PROVE Frame(s)
  BY <1>3 DEF create_problem_dir, AddDir
<1>4. ASSUME NEW d \in Dirs, creation_notification(s, d) PROVE Frame(s)
  BY <1>4 DEF creation_notification
<1>5. CASE trim_problem_dirs(s)
  BY <1>5 DEF trim_problem_dirs, Discard
<1>6. CASE refuse_dir(s)
  BY <1>6 DEF refuse_dir, Exit
<1>7. CASE delete_provoked_dir(s)
  BY <1>7 DEF delete_provoked_dir, Exit, Delete, Discard
<1>22. CASE keep_provoked_dir(s)
  BY <1>22 DEF keep_provoked_dir, Exit
<1>8. CASE emit_new_problem_signal(s)
  BY <1>8 DEF emit_new_problem_signal
<1>9. CASE spawn_post_create(s)
  BY <1>9 DEF spawn_post_create
<1>10. CASE interrupted(s)
  BY <1>10 DEF interrupted, Exit
<1>11. CASE run_event(s)
  BY <1>11 DEF run_event
<1>12. CASE run_event_fails(s)
  BY <1>12 DEF run_event_fails
<1>13. CASE no_duplicate(s)
  BY <1>13 DEF no_duplicate
<1>14. ASSUME NEW d \in Dirs, is_crash_a_dup(s, d) PROVE Frame(s)
  BY <1>14 DEF is_crash_a_dup, Duplicates
<1>15. CASE post_create_failed(s)
  BY <1>15 DEF post_create_failed
<1>16. CASE count_new_problem(s)
  BY <1>16 DEF count_new_problem
<1>17. CASE count_duplicate(s)
  BY <1>17 DEF count_duplicate
<1>18. CASE delete_bad_dir(s)
  BY <1>18 DEF delete_bad_dir, Exit, Delete, Discard
<1>19. CASE delete_dup_dir(s)
  BY <1>19 DEF delete_dup_dir
<1>20. CASE notified(s)
  BY <1>20 DEF notified, Exit
<1>21. CASE crash(s)
  BY <1>21 DEF crash, Exit
<1> QED BY <1>1, <1>2, <1>3, <1>4, <1>5, <1>6, <1>7, <1>8, <1>9, <1>10, <1>11, <1>12,
         <1>13, <1>14, <1>15, <1>16, <1>17, <1>18, <1>19, <1>20, <1>21, <1>22 DEF Request, Serve

\* Every step of a server moves it forward.
LEMMA LocalServer ==
    ASSUME TypeOK, ServerInv,
           NEW s \in Servers, Request(s) \/ Serve(s) \/ crash(s)
    PROVE  Moves(s)
<1> USE DEF TypeOK, Moves, Local, Early, Past, abrtdVars, serverVars, eventVars
<1>1. CASE reject_request(s)
  BY <1>1 DEF reject_request, Exit
<1>2. ASSUME NEW d \in Dirs, delete_path(s, d) PROVE Moves(s)
  BY <1>2 DEF delete_path, Exit, Discard
<1>3. ASSUME NEW d \in Dirs, create_problem_dir(s, d) PROVE Moves(s)
  BY <1>3 DEF create_problem_dir, AddDir
<1>4. ASSUME NEW d \in Dirs, creation_notification(s, d) PROVE Moves(s)
  BY <1>4 DEF creation_notification
<1>5. CASE trim_problem_dirs(s)
  BY <1>5 DEF trim_problem_dirs, Discard
<1>6. CASE refuse_dir(s)
  BY <1>6 DEF refuse_dir, Exit
<1>7. CASE delete_provoked_dir(s)
  BY <1>7 DEF delete_provoked_dir, Exit, Delete, Discard
<1>22. CASE keep_provoked_dir(s)
  BY <1>22 DEF keep_provoked_dir, Exit
<1>8. CASE emit_new_problem_signal(s)
  BY <1>8 DEF emit_new_problem_signal
<1>9. CASE spawn_post_create(s)
  BY <1>9 DEF spawn_post_create
<1>10. CASE interrupted(s)
  BY <1>10 DEF interrupted, Exit
<1>11. CASE run_event(s)
  BY <1>11 DEF run_event, ServerInv, ServerOK
<1>12. CASE run_event_fails(s)
  BY <1>12 DEF run_event_fails, ServerInv, ServerOK
<1>13. CASE no_duplicate(s)
  BY <1>13 DEF no_duplicate, ServerInv, ServerOK
<1>14. ASSUME NEW d \in Dirs, is_crash_a_dup(s, d) PROVE Moves(s)
  BY <1>14 DEF is_crash_a_dup, Duplicates, ServerInv, ServerOK
<1>15. CASE post_create_failed(s)
  BY <1>15 DEF post_create_failed
<1>16. CASE count_new_problem(s)
  BY <1>16 DEF count_new_problem
<1>17. CASE count_duplicate(s)
  BY <1>17 DEF count_duplicate
<1>18. CASE delete_bad_dir(s)
  BY <1>18 DEF delete_bad_dir, Exit, Delete, Discard
<1>19. CASE delete_dup_dir(s)
  BY <1>19 DEF delete_dup_dir
<1>20. CASE notified(s)
  BY <1>20 DEF notified, Exit
<1>21. CASE crash(s)
  BY <1>21 DEF crash, Exit
<1> QED BY <1>1, <1>2, <1>3, <1>4, <1>5, <1>6, <1>7, <1>8, <1>9, <1>10, <1>11, <1>12,
         <1>13, <1>14, <1>15, <1>16, <1>17, <1>18, <1>19, <1>20, <1>21, <1>22 DEF Request, Serve

\* What a step of a server does to the dump location: nothing reappears, no
\* count is lost, and what is removed was removed for good or was a duplicate.
Dump(s) ==
    /\ created \subseteq created' /\ discarded \subseteq discarded'
    /\ undeleted \subseteq undeleted'
    /\ exists' \subseteq exists \cup (created' \ created)
    /\ created' \ created \subseteq exists'
    /\ \A d \in Dirs : count[d] > 0 => count'[d] > 0
    /\ \A d \in exists \ exists' : \/ IssueOf[d] \in discarded'
                                   \/ pc[s] = "delete_dup" /\ d = dir[s]

\* Every step of a server treats the dump location so.
LEMMA DumpServer ==
    ASSUME TypeOK,
           NEW s \in Servers, Request(s) \/ Serve(s) \/ crash(s)
    PROVE  Dump(s)
<1> USE DEF TypeOK, Dump, dumpVars, histVars
<1>1. CASE reject_request(s)
  BY <1>1 DEF reject_request, Exit
<1>2. ASSUME NEW d \in Dirs, delete_path(s, d) PROVE Dump(s)
  BY <1>2 DEF delete_path, Exit, Discard
<1>3. ASSUME NEW d \in Dirs, create_problem_dir(s, d) PROVE Dump(s)
  BY <1>3 DEF create_problem_dir, AddDir
<1>4. ASSUME NEW d \in Dirs, creation_notification(s, d) PROVE Dump(s)
  BY <1>4 DEF creation_notification
<1>5. CASE trim_problem_dirs(s)
  BY <1>5 DEF trim_problem_dirs, Discard
<1>6. CASE refuse_dir(s)
  BY <1>6 DEF refuse_dir, Exit
<1>7. CASE delete_provoked_dir(s)
  BY <1>7 DEF delete_provoked_dir, Exit, Delete, Discard
<1>22. CASE keep_provoked_dir(s)
  BY <1>22 DEF keep_provoked_dir, Exit
<1>8. CASE emit_new_problem_signal(s)
  BY <1>8 DEF emit_new_problem_signal
<1>9. CASE spawn_post_create(s)
  BY <1>9 DEF spawn_post_create
<1>10. CASE interrupted(s)
  BY <1>10 DEF interrupted, Exit
<1>11. CASE run_event(s)
  BY <1>11 DEF run_event
<1>12. CASE run_event_fails(s)
  BY <1>12 DEF run_event_fails
<1>13. CASE no_duplicate(s)
  BY <1>13 DEF no_duplicate
<1>14. ASSUME NEW d \in Dirs, is_crash_a_dup(s, d) PROVE Dump(s)
  BY <1>14 DEF is_crash_a_dup, Duplicates
<1>15. CASE post_create_failed(s)
  BY <1>15 DEF post_create_failed
<1>16. CASE count_new_problem(s)
  BY <1>16 DEF count_new_problem
<1>17. CASE count_duplicate(s)
  <2>1. ASSUME NEW d \in Dirs, count[d] > 0 PROVE count'[d] > 0
    <3>1. count[d] \in Nat
      OBVIOUS
    <3>2. count'[d] = count[d] \/ count'[d] = count[d] + 1
      BY <1>17 DEF count_duplicate
    <3> HIDE DEF TypeOK
    <3> QED BY <2>1, <3>1, <3>2
  <2> QED BY <1>17, <2>1 DEF count_duplicate
<1>18. CASE delete_bad_dir(s)
  BY <1>18 DEF delete_bad_dir, Exit, Delete, Discard
<1>19. CASE delete_dup_dir(s)
  BY <1>19 DEF delete_dup_dir
<1>20. CASE notified(s)
  BY <1>20 DEF notified, Exit
<1>21. CASE crash(s)
  BY <1>21 DEF crash, Exit
<1> QED BY <1>1, <1>2, <1>3, <1>4, <1>5, <1>6, <1>7, <1>8, <1>9, <1>10, <1>11, <1>12,
         <1>13, <1>14, <1>15, <1>16, <1>17, <1>18, <1>19, <1>20, <1>21, <1>22 DEF Request, Serve

\* Every step of a server keeps what it knows about its directory.
LEMMA OwnServer ==
    ASSUME TypeOK, ServerInv, SignalInv, DupInv,
           NEW s \in Servers, Request(s) \/ Serve(s) \/ crash(s)
    PROVE  ServerOK(s)'
<1>a. sig' = sig /\ clean' = clean /\ s_dir_queue' = s_dir_queue
  BY FrameServer DEF Frame
<1>b. Queued(s)' <=> Queued(s)
  BY <1>a DEF Queued
<1> USE <1>a, <1>b
<1> USE DEF TypeOK, ServerInv, ServerOK, DupInv, SignalInv, SignalOK, abrtdVars, serverVars,
        eventVars, dumpVars, histVars, Complete, Settled
<1>1. CASE reject_request(s)
  BY <1>1 DEF reject_request, Exit
<1>2. ASSUME NEW d \in Dirs, delete_path(s, d) PROVE ServerOK(s)'
  BY <1>2 DEF delete_path, Exit, Discard
<1>3. ASSUME NEW d \in Dirs, create_problem_dir(s, d) PROVE ServerOK(s)'
  BY <1>3 DEF create_problem_dir, AddDir
<1>4. ASSUME NEW d \in Dirs, creation_notification(s, d) PROVE ServerOK(s)'
  BY <1>4 DEF creation_notification
<1>5. CASE trim_problem_dirs(s)
  BY <1>5 DEF trim_problem_dirs, Discard
<1>6. CASE refuse_dir(s)
  <2>1. dir[s] \in created
    BY <1>6 DEF refuse_dir
  <2>2. pc'[s] = "exited" /\ dir'[s] = dir[s] /\ event'[s] = event[s] /\ created' = created
    <3> HIDE DEF ServerInv, SignalInv, DupInv
    <3> QED BY <1>6 DEF refuse_dir, Exit
  <2>3. event[s] = "none"
    BY <1>6 DEF refuse_dir
  <2> QED BY <2>1, <2>2, <2>3
<1>7. CASE delete_provoked_dir(s)
  BY <1>7 DEF delete_provoked_dir, Exit, Delete, Discard
<1>22. CASE keep_provoked_dir(s)
  BY <1>22 DEF keep_provoked_dir, Exit
<1>8. CASE emit_new_problem_signal(s)
  BY <1>8 DEF emit_new_problem_signal
<1>9. CASE spawn_post_create(s)
  BY <1>9 DEF spawn_post_create
<1>10. CASE interrupted(s)
  BY <1>10 DEF interrupted, Exit
<1>11. CASE run_event(s)
  BY <1>11 DEF run_event
<1>12. CASE run_event_fails(s)
  BY <1>12 DEF run_event_fails
<1>13. CASE no_duplicate(s)
  BY <1>13 DEF no_duplicate
<1>14. ASSUME NEW d \in Dirs, is_crash_a_dup(s, d) PROVE ServerOK(s)'
  BY <1>14 DEF is_crash_a_dup, Duplicates
<1>15. CASE post_create_failed(s)
  <2>1. dir[s] \in created /\ outcome[s] = "none"
    BY <1>15 DEF post_create_failed
  <2>2. /\ pc'[s] = "delete_bad_dir" /\ dir'[s] = dir[s] /\ outcome'[s] = outcome[s]
        /\ event'[s] = "none" /\ created' = created
    <3> HIDE DEF ServerInv, SignalInv, DupInv
    <3> QED BY <1>15, <2>1 DEF post_create_failed
  <2> QED BY <2>1, <2>2
<1>16. CASE count_new_problem(s)
  BY <1>16 DEF count_new_problem
<1>17. CASE count_duplicate(s)
  <2>1. dir[s] \in created /\ outcome[s] = "none"
    BY <1>17 DEF count_duplicate
  <2>2. /\ pc'[s] = "delete_dup" /\ dir'[s] = dir[s] /\ outcome'[s] = outcome[s]
        /\ event'[s] = "none" /\ created' = created
    <3> HIDE DEF ServerInv, SignalInv, DupInv
    <3> QED BY <1>17, <2>1 DEF count_duplicate
  <2> QED BY <2>1, <2>2
<1>18. CASE delete_bad_dir(s)
  BY <1>18 DEF delete_bad_dir, Exit, Delete, Discard
<1>19. CASE delete_dup_dir(s)
  <2>1. dir[s] \in created /\ outcome[s] = "none" /\ event[s] = "none"
    BY <1>19 DEF delete_dup_dir
  <2>2. /\ pc'[s] = "notify_dup" /\ dir'[s] = dir[s] /\ outcome'[s] = outcome[s]
        /\ event'[s] = "none" /\ created' = created
        /\ dir[s] \notin exists' \/ dir[s] \in undeleted'
    <3> HIDE DEF ServerInv, SignalInv, DupInv
    <3> QED BY <1>19, <2>1 DEF delete_dup_dir
  <2> QED BY <2>1, <2>2
<1>20. CASE notified(s)
  <2>1. dir[s] \in created /\ event[s] = "none"
    BY <1>20 DEF notified
  <2>2. /\ pc'[s] = "exited" /\ dir'[s] = dir[s]
        /\ event'[s] = event[s] /\ created' = created
    <3> HIDE DEF ServerInv, SignalInv, DupInv
    <3> QED BY <1>20 DEF notified, Exit
  <2> QED BY <2>1, <2>2
<1>21. CASE crash(s)
  BY <1>21 DEF crash, Exit
<1> QED BY <1>1, <1>2, <1>3, <1>4, <1>5, <1>6, <1>7, <1>8, <1>9, <1>10, <1>11, <1>12,
         <1>13, <1>14, <1>15, <1>16, <1>17, <1>18, <1>19, <1>20, <1>21, <1>22 DEF Request, Serve

\* Every step of a server keeps what it knows about its duplicate.
LEMMA DupServer ==
    ASSUME TypeOK, ServerInv, DupInv,
           NEW s \in Servers, Request(s) \/ Serve(s) \/ crash(s)
    PROVE  DupOK(s)'
<1> USE DEF TypeOK, ServerInv, ServerOK, DupInv, DupOK, abrtdVars, serverVars, eventVars,
        dumpVars, histVars
<1>1. CASE reject_request(s)
  BY <1>1 DEF reject_request, Exit
<1>2. ASSUME NEW d \in Dirs, delete_path(s, d) PROVE DupOK(s)'
  BY <1>2 DEF delete_path, Exit, Discard
<1>3. ASSUME NEW d \in Dirs, create_problem_dir(s, d) PROVE DupOK(s)'
  <2>1. event[s] = "none"
    BY <1>3 DEF create_problem_dir
  <2>2. pc'[s] # "delete_dup" /\ event'[s] = event[s]
    <3> HIDE DEF ServerInv, DupInv
    <3> QED BY <1>3 DEF create_problem_dir
  <2> QED BY <2>1, <2>2
<1>4. ASSUME NEW d \in Dirs, creation_notification(s, d) PROVE DupOK(s)'
  <2>1. event[s] = "none"
    BY <1>4 DEF creation_notification
  <2>2. pc'[s] = "check" /\ event'[s] = event[s]
    <3> HIDE DEF ServerInv, DupInv
    <3> QED BY <1>4 DEF creation_notification
  <2> QED BY <2>1, <2>2
<1>5. CASE trim_problem_dirs(s)
  <2>1. event[s] = "none"
    BY <1>5 DEF trim_problem_dirs
  <2>2. pc'[s] \in {"trim", "check"} /\ event'[s] = event[s]
    <3> HIDE DEF ServerInv, DupInv
    <3> QED BY <1>5 DEF trim_problem_dirs
  <2> QED BY <2>1, <2>2
<1>6. CASE refuse_dir(s)
  BY <1>6 DEF refuse_dir, Exit
<1>7. CASE delete_provoked_dir(s)
  BY <1>7 DEF delete_provoked_dir, Exit, Delete, Discard
<1>22. CASE keep_provoked_dir(s)
  BY <1>22 DEF keep_provoked_dir, Exit
<1>8. CASE emit_new_problem_signal(s)
  BY <1>8 DEF emit_new_problem_signal
<1>9. CASE spawn_post_create(s)
  BY <1>9 DEF spawn_post_create
<1>10. CASE interrupted(s)
  BY <1>10 DEF interrupted, Exit
<1>11. CASE run_event(s)
  BY <1>11 DEF run_event
<1>12. CASE run_event_fails(s)
  BY <1>12 DEF run_event_fails
<1>13. CASE no_duplicate(s)
  BY <1>13 DEF no_duplicate
<1>14. ASSUME NEW d \in Dirs, is_crash_a_dup(s, d) PROVE DupOK(s)'
  BY <1>14 DEF is_crash_a_dup, Duplicates
<1>15. CASE post_create_failed(s)
  BY <1>15 DEF post_create_failed
<1>16. CASE count_new_problem(s)
  BY <1>16 DEF count_new_problem
<1>17. CASE count_duplicate(s)
  BY <1>17 DEF count_duplicate
<1>18. CASE delete_bad_dir(s)
  BY <1>18 DEF delete_bad_dir, Exit, Delete, Discard
<1>19. CASE delete_dup_dir(s)
  BY <1>19 DEF delete_dup_dir
<1>20. CASE notified(s)
  BY <1>20 DEF notified, Exit
<1>21. CASE crash(s)
  BY <1>21 DEF crash, Exit
<1> QED BY <1>1, <1>2, <1>3, <1>4, <1>5, <1>6, <1>7, <1>8, <1>9, <1>10, <1>11, <1>12,
         <1>13, <1>14, <1>15, <1>16, <1>17, <1>18, <1>19, <1>20, <1>21, <1>22 DEF Request, Serve

\* AnsweredMeansSettled for one server.
Answered(s) == pc[s] = "exited" /\ outcome[s] # "none"
    => \/ Settled(dir[s])
       \/ LeftAlone(s)
       \/ dir[s] \in undeleted
       \/ outcome[s] = "interrupted" /\ dir[s] = clean.victim

\* A server that ends leaves its directory settled, with the exceptions.
LEMMA SettledServer ==
    ASSUME TypeOK, ServerInv, AnsweredMeansSettled, InterruptMeansRemoved,
           NEW s \in Servers, Request(s) \/ Serve(s) \/ crash(s)
    PROVE  Answered(s)'
<1> USE DEF TypeOK, ServerInv, ServerOK, Answered, AnsweredMeansSettled, InterruptMeansRemoved,
        LeftAlone, Settled, Complete, abrtdVars, serverVars, eventVars, dumpVars, histVars
<1>1. CASE reject_request(s)
  BY <1>1 DEF reject_request, Exit
<1>2. ASSUME NEW d \in Dirs, delete_path(s, d) PROVE Answered(s)'
  BY <1>2 DEF delete_path, Exit, Discard
<1>3. ASSUME NEW d \in Dirs, create_problem_dir(s, d) PROVE Answered(s)'
  BY <1>3 DEF create_problem_dir, AddDir
<1>4. ASSUME NEW d \in Dirs, creation_notification(s, d) PROVE Answered(s)'
  BY <1>4 DEF creation_notification
<1>5. CASE trim_problem_dirs(s)
  BY <1>5 DEF trim_problem_dirs, Discard
<1>6. CASE refuse_dir(s)
  BY <1>6 DEF refuse_dir, Exit
<1>7. CASE delete_provoked_dir(s)
  BY <1>7 DEF delete_provoked_dir, Exit, Delete, Discard
<1>22. CASE keep_provoked_dir(s)
  BY <1>22 DEF keep_provoked_dir, Exit
<1>8. CASE emit_new_problem_signal(s)
  BY <1>8 DEF emit_new_problem_signal
<1>9. CASE spawn_post_create(s)
  BY <1>9 DEF spawn_post_create
<1>10. CASE interrupted(s)
  BY <1>10 DEF interrupted, Exit
<1>11. CASE run_event(s)
  BY <1>11 DEF run_event
<1>12. CASE run_event_fails(s)
  BY <1>12 DEF run_event_fails
<1>13. CASE no_duplicate(s)
  BY <1>13 DEF no_duplicate
<1>14. ASSUME NEW d \in Dirs, is_crash_a_dup(s, d) PROVE Answered(s)'
  BY <1>14 DEF is_crash_a_dup, Duplicates
<1>15. CASE post_create_failed(s)
  BY <1>15 DEF post_create_failed
<1>16. CASE count_new_problem(s)
  BY <1>16 DEF count_new_problem
<1>17. CASE count_duplicate(s)
  BY <1>17 DEF count_duplicate
<1>18. CASE delete_bad_dir(s)
  BY <1>18 DEF delete_bad_dir, Exit, Delete, Discard
<1>19. CASE delete_dup_dir(s)
  BY <1>19 DEF delete_dup_dir
<1>20. CASE notified(s)
  BY <1>20 DEF notified, Exit
<1>21. CASE crash(s)
  BY <1>21 DEF crash, Exit
<1> QED BY <1>1, <1>2, <1>3, <1>4, <1>5, <1>6, <1>7, <1>8, <1>9, <1>10, <1>11, <1>12,
         <1>13, <1>14, <1>15, <1>16, <1>17, <1>18, <1>19, <1>20, <1>21, <1>22 DEF Request, Serve

-----------------------------------------------------------------------------
(* Mutual exclusion *)

\* A server past the wait is the head of the queue.
LEMMA ProcessingAtHead ==
    ASSUME TypeOK, SignalInv, TurnAtHead, NEW s \in Processing
    PROVE  s \in Servers /\ s_dir_queue # <<>> /\ s = Head(s_dir_queue)
<1>1. s \in Servers /\ "USR1" \in sig[s]
  BY DEF SignalInv, SignalOK, Processing
<1>2. procType[s] = "POST_CREATE" /\ Queued(s)
  BY <1>1 DEF SignalInv, SignalOK
<1>3. PICK i \in DOMAIN s_dir_queue : s_dir_queue[i] = s
  BY <1>2 DEF Queued
<1>4. i = 1
  BY <1>2, <1>3 DEF TurnAtHead
<1> QED BY <1>1, <1>3, <1>4 DEF TypeOK

\* Hence there is at most one.
LEMMA Mutex == TypeOK /\ SignalInv /\ TurnAtHead => AtMostOneProcessing
  BY ProcessingAtHead DEF AtMostOneProcessing

-----------------------------------------------------------------------------
(* The inductive invariant: steps of a server *)

\* A step of s keeps what another server t knows.
LEMMA OtherServer ==
    ASSUME IInv, NEW s \in Servers, NEW t \in Servers \ {s}, Frame(s), Dump(s), TypeOK'
    PROVE  ServerOK(t)' /\ DupOK(t)' /\ Answered(t)'
<1>1. Queued(t)' <=> Queued(t)
  BY DEF Frame, Queued
<1>2. ServerOK(t) /\ DupOK(t) /\ Answered(t) /\ exists \subseteq created
  BY DEF IInv, ServerInv, DupInv, AnsweredMeansSettled, Answered
<1>3. ASSUME NEW d \in created, Settled(d) PROVE Settled(d)'
  BY <1>3 DEF Dump, Settled, Complete, IInv, TypeOK
<1>4. /\ pc'[t] = pc[t] /\ dir'[t] = dir[t] /\ outcome'[t] = outcome[t]
      /\ event'[t] = event[t] /\ dupOf'[t] = dupOf[t] /\ sig' = sig /\ clean' = clean
      /\ t \in pipe' <=> t \in pipe
  BY DEF Frame
<1>5. created \subseteq created' /\ discarded \subseteq discarded'
      /\ undeleted \subseteq undeleted' /\ exists' \cap created \subseteq exists
  BY DEF Dump
<1>6. ServerOK(t)'
  BY <1>1, <1>2, <1>3, <1>4, <1>5 DEF ServerOK
<1>7. Answered(t)'
  BY <1>2, <1>3, <1>4, <1>5 DEF Answered, ServerOK, LeftAlone
<1>8. DupOK(t)'
  <2>1. ASSUME pc[t] = "delete_dup"
        PROVE  dupOf[t] \in exists' \/ IssueOf[dir[t]] \in discarded'
    <3>1. pc[s] # "delete_dup"
      BY <2>1, Mutex DEF AtMostOneProcessing, Processing, IInv
    <3>2. IssueOf[dupOf[t]] = IssueOf[dir[t]]
      BY <1>2, <2>1 DEF DupOK
    <3> QED BY <1>2, <1>5, <2>1, <3>1, <3>2 DEF DupOK, Dump
  <2> QED BY <1>2, <1>4, <1>5, <2>1 DEF DupOK
<1> QED BY <1>6, <1>7, <1>8

\* Every step of a server keeps the inductive invariant.
LEMMA InvServer ==
    ASSUME IInv, NEW s \in Servers, Request(s) \/ Serve(s) \/ crash(s)
    PROVE  IInv'
<1>0. /\ TypeOK /\ QueueInv /\ TurnAtHead /\ SignalInv /\ CleanInv /\ ServerInv /\ DupInv
      /\ InterruptMeansRemoved /\ AnsweredMeansSettled /\ SurvivorExists
  BY DEF IInv
<1>1. TypeOK'
  BY <1>0, TypeServer
<1>2. Frame(s) /\ Dump(s) /\ Moves(s)
  BY <1>0, FrameServer, DumpServer, LocalServer
<1>3. ServerOK(s)' /\ DupOK(s)' /\ Answered(s)'
  BY <1>0, OwnServer, DupServer, SettledServer
<1>4. ServerInv' /\ AnsweredMeansSettled'
  BY <1>1, <1>2, <1>3, OtherServer DEF ServerInv, AnsweredMeansSettled, Answered
<1>5. DupInv'
  <2>1. \A t \in Servers : DupOK(t)'
    BY <1>1, <1>2, <1>3, OtherServer
  <2>2. (exists \subseteq created)'
    BY <1>0, <1>2 DEF Dump, DupInv
  <2> QED BY <2>1, <2>2 DEF DupInv
<1>6. \A t \in Servers : Queued(t)' <=> Queued(t)
  BY <1>2 DEF Frame, Queued
<1>8. Queued(s) \/ s = clean.proc \/ sig[s] # {} => dir'[s] = dir[s]
  BY <1>0, <1>2 DEF SignalInv, SignalOK, Moves, Local
<1>9. TurnAtHead'
  BY <1>0, <1>2 DEF TurnAtHead, Frame
<1>10. QueueInv'
  <2>1. \A t \in Servers : (t \in s_processes <=> pc[t] # "unused")'
    BY <1>0, <1>2 DEF QueueInv, Frame, Moves, Local
  <2>2. ASSUME NEW i \in DOMAIN s_dir_queue PROVE dir'[s_dir_queue[i]] = dir[s_dir_queue[i]]
    BY <1>0, <1>2, <1>8 DEF Frame, Queued, TypeOK
  <2> QED BY <1>0, <1>2, <2>1, <2>2 DEF QueueInv, Frame
<1>11. CleanInv'
  <2>1. clean.proc # NoServer => dir'[clean.proc] = dir[clean.proc]
    BY <1>0, <1>2, <1>8 DEF Frame, TypeOK
  <2> QED BY <1>0, <1>2, <2>1 DEF CleanInv, Frame
<1>12. InterruptMeansRemoved'
  <2>1. ASSUME NEW t \in Servers, "INT" \in sig[t]
        PROVE  dir'[t] \notin exists' \/ dir'[t] = clean.victim \/ dir'[t] \in undeleted'
    <3>1. dir'[t] = dir[t]
      BY <1>2, <1>8, <2>1 DEF Frame
    <3>2. /\ dir[t] \notin exists \/ dir[t] = clean.victim \/ dir[t] \in undeleted
          /\ dir[t] \in created
      BY <1>0, <2>1 DEF InterruptMeansRemoved, ServerInv, ServerOK
    <3> QED BY <1>2, <3>1, <3>2 DEF Dump
  <2> QED BY <1>2, <2>1 DEF InterruptMeansRemoved, Frame
<1>13. SignalInv'
  <2>1. ASSUME NEW t \in Servers \ {s} PROVE SignalOK(t)'
    <3>1. SignalOK(t)
      BY <1>0 DEF SignalInv
    <3> QED BY <1>2, <1>6, <3>1 DEF SignalOK, Frame, Processing
  <2>2. SignalOK(s)'
    <3>1. SignalOK(s) /\ pc[s] \in PCs /\ pc'[s] \in PCs
      BY <1>0, <1>1 DEF SignalInv, TypeOK
    <3>2. /\ sig' = sig /\ procType' = procType /\ clean' = clean
          /\ Queued(s)' <=> Queued(s)
      BY <1>2, <1>6 DEF Frame
    <3>3. s \in Processing <=> pc[s] \in Past
      BY DEF Processing, Past
    <3>4. s \in Processing' <=> pc'[s] \in Past
      BY DEF Processing, Past
    <3>5. CASE Local(s)
      BY <3>1, <3>2, <3>3, <3>4, <3>5 DEF SignalOK, Local, Early, Past, PCs
    <3>6. CASE ~Local(s)
      BY <1>2, <3>1, <3>2, <3>3, <3>4, <3>6 DEF SignalOK, Moves
    <3> QED BY <3>5, <3>6
  <2> QED BY <2>1, <2>2 DEF SignalInv
<1>14. SurvivorExists'
  <2> SUFFICES ASSUME NEW d \in created', IssueOf[d] \notin discarded'
               PROVE  \E e \in exists' : IssueOf[e] = IssueOf[d]
    BY DEF SurvivorExists
  <2>1. CASE d \notin created
    BY <1>2, <2>1 DEF Dump
  <2>2. CASE d \in created
    <3>1. PICK e \in exists : IssueOf[e] = IssueOf[d]
      BY <1>0, <1>2, <2>2 DEF SurvivorExists, Dump
    <3>2. CASE e \in exists'
      BY <3>1, <3>2
    <3>3. CASE e \notin exists'
      <4>1. pc[s] = "delete_dup" /\ e = dir[s]
        BY <1>2, <3>1, <3>3 DEF Dump
      <4>2. /\ dupOf[s] \in created \ {dir[s]} /\ IssueOf[dupOf[s]] = IssueOf[dir[s]]
            /\ dupOf[s] \in exists
        BY <1>0, <1>2, <3>1, <4>1 DEF DupInv, DupOK, Dump
      <4>3. dupOf[s] \in exists'
        BY <1>2, <3>1, <4>1, <4>2 DEF Dump
      <4> QED BY <3>1, <4>1, <4>2, <4>3
    <3> QED BY <3>2, <3>3
  <2> QED BY <2>1, <2>2
<1> QED BY <1>1, <1>4, <1>5, <1>9, <1>10, <1>11, <1>12, <1>13, <1>14 DEF IInv

-----------------------------------------------------------------------------
(* The inductive invariant: abrtd *)

\* What is left of the queue when its i-th process leaves it.
LEMMA QueueRemoval ==
    ASSUME TypeOK, QueueInv, NEW i \in DOMAIN s_dir_queue,
           s_dir_queue' = RemoveAt(s_dir_queue, i)
    PROVE  /\ \A t \in Servers : Queued(t)' <=> (Queued(t) /\ t # s_dir_queue[i])
           /\ \A j, k \in DOMAIN s_dir_queue' : s_dir_queue'[j] = s_dir_queue'[k] => j = k
           /\ \A j \in DOMAIN s_dir_queue' :
                /\ Queued(s_dir_queue'[j]) /\ s_dir_queue'[j] # s_dir_queue[i]
                /\ s_dir_queue'[j] = s_dir_queue[IF j < i THEN j ELSE j + 1]
                /\ (IF j < i THEN j ELSE j + 1) \in DOMAIN s_dir_queue
           /\ i # 1 => s_dir_queue' # <<>> /\ Head(s_dir_queue') = Head(s_dir_queue)
           /\ s_dir_queue' # <<>> => /\ Head(s_dir_queue') = s_dir_queue'[1]
                                     /\ 1 \in DOMAIN s_dir_queue'
           /\ s_dir_queue' \in Seq(Servers)
<1> DEFINE q == s_dir_queue
           r == s_dir_queue'
<1>1. /\ q \in Seq(Servers) /\ i \in 1..Len(q) /\ r \in Seq(Servers)
      /\ Len(r) = Len(q) - 1 /\ DOMAIN r = 1..(Len(q) - 1) /\ DOMAIN q = 1..Len(q)
      /\ \A j \in 1..(Len(q) - 1) : r[j] = IF j < i THEN q[j] ELSE q[j + 1]
      /\ Len(q) \in Nat
  BY RemoveAtFacts DEF TypeOK
<1>2. \A j, k \in 1..Len(q) : q[j] = q[k] => j = k
  BY <1>1 DEF QueueInv
<1> HIDE DEF q, r
<1>3. \A j \in DOMAIN r : /\ r[j] = q[IF j < i THEN j ELSE j + 1]
                          /\ (IF j < i THEN j ELSE j + 1) \in DOMAIN q
                          /\ r[j] # q[i]
  BY <1>1, <1>2
<1>4. \A j, k \in DOMAIN r : r[j] = r[k] => j = k
  BY <1>1, <1>2, <1>3
<1>5. i # 1 => r # <<>> /\ Head(r) = Head(q)
  BY <1>1
<1>6. r # <<>> => Head(r) = r[1] /\ 1 \in DOMAIN r
  BY <1>1
<1>7. ASSUME NEW t, NEW k \in DOMAIN q, q[k] = t, t # q[i]
      PROVE  \E j \in DOMAIN r : r[j] = t
  <2>1. CASE k < i
    BY <1>1, <1>7, <2>1
  <2>2. CASE k > i
    <3>1. k - 1 \in DOMAIN r /\ r[k - 1] = q[k]
      BY <1>1, <2>2
    <3> QED BY <1>7, <3>1
  <2> QED BY <1>1, <1>7, <2>1, <2>2
<1>8. \A t \in Servers : Queued(t)' <=> (Queued(t) /\ t # s_dir_queue[i])
  BY <1>3, <1>7 DEF Queued, q, r
<1> QED BY <1>1, <1>3, <1>4, <1>5, <1>6, <1>8 DEF Queued, q, r

\* Removing a directory for good.
LEMMA DiscardFacts ==
    ASSUME IInv, NEW d, Discard(d), UNCHANGED <<pc, dir, event, dupOf, created>>
    PROVE  DupInv' /\ SurvivorExists' /\ exists' = exists \ {d}
<1>1. /\ exists' = exists \ {d} /\ discarded \subseteq discarded'
      /\ d \in exists => IssueOf[d] \in discarded'
  BY DEF Discard
<1>2. DupInv /\ SurvivorExists
  BY DEF IInv
<1>4. SurvivorExists'
  BY <1>1, <1>2 DEF SurvivorExists
<1>5. DupInv'
  BY <1>1, <1>2 DEF DupInv, DupOK
<1> QED BY <1>1, <1>4, <1>5

\* When no server moves, directories are only removed, and the one abrtd was
\* deleting is gone or could not be deleted, the answers given stay true.
LEMMA AnswersKept ==
    ASSUME IInv, UNCHANGED <<pc, dir, sig, outcome, count>>, exists' \subseteq exists,
           undeleted \subseteq undeleted',
           clean'.victim # clean.victim
             => clean.victim \in undeleted' \/ clean.victim \notin exists'
    PROVE  /\ AnsweredMeansSettled' /\ InterruptMeansRemoved'
           /\ \A t \in Servers :
                /\ (pc[t] = "notify" => Settled(dir[t]))'
                /\ (pc[t] = "notify_dup" => dir[t] \notin exists \/ dir[t] \in undeleted)'
<1>1. ServerInv /\ AnsweredMeansSettled /\ InterruptMeansRemoved
  BY DEF IInv
<1>2. AnsweredMeansSettled'
  BY <1>1 DEF AnsweredMeansSettled, LeftAlone, Settled, Complete
<1>3. InterruptMeansRemoved'
  BY <1>1 DEF InterruptMeansRemoved
<1>4. ASSUME NEW t \in Servers
      PROVE  /\ (pc[t] = "notify" => Settled(dir[t]))'
             /\ (pc[t] = "notify_dup" => dir[t] \notin exists \/ dir[t] \in undeleted)'
  BY <1>1 DEF ServerInv, ServerOK, Settled, Complete
<1> QED BY <1>2, <1>3, <1>4

\* A client connects.
LEMMA InvSocket == ASSUME IInv, NEW s \in Servers, server_socket_cb(s) PROVE IInv'
<1>0. /\ TypeOK /\ QueueInv /\ TurnAtHead /\ SignalInv /\ CleanInv /\ ServerInv /\ DupInv
      /\ InterruptMeansRemoved /\ AnsweredMeansSettled /\ SurvivorExists
  BY DEF IInv
<1>1. TypeOK'
  BY <1>0, TypeAbrtd DEF Abrtd
<1>2. /\ pc[s] = "unused" /\ pc' = [pc EXCEPT ![s] = "request"]
      /\ procDir' = [procDir EXCEPT ![s] = NoDir]
      /\ procType' = [procType EXCEPT ![s] = "UNKNOWN"]
      /\ s_processes' = s_processes \cup {s}
      /\ UNCHANGED <<s_dir_queue, clean, dir, pipe, sig, outcome, event, dupOf, exists, count,
                     created, discarded, undeleted>>
      /\ clean = Idle
  BY <1>0 DEF server_socket_cb, eventVars, dumpVars, histVars, CleanInv
<1>3. \A t \in Servers : Queued(t)' <=> Queued(t)
  BY <1>2 DEF Queued
<1>4. ~Queued(s) /\ sig[s] = {} /\ s \notin pipe
  BY <1>0, <1>2 DEF SignalInv, SignalOK
<1>5. \A i \in DOMAIN s_dir_queue : s_dir_queue[i] # s /\ s_dir_queue[i] \in Servers
  BY <1>0, <1>4 DEF Queued, TypeOK
<1>6. \A t \in Servers \ {s} : /\ pc'[t] = pc[t] /\ procDir'[t] = procDir[t]
                               /\ procType'[t] = procType[t]
  BY <1>0, <1>2 DEF TypeOK
<1>7. pc'[s] = "request" /\ procType'[s] = "UNKNOWN"
  BY <1>0, <1>2 DEF TypeOK
<1>8. QueueInv'
  BY <1>0, <1>2, <1>5, <1>6, <1>7 DEF QueueInv
<1>9. TurnAtHead'
  BY <1>0, <1>2, <1>5, <1>6 DEF TurnAtHead
<1>10. SignalInv'
  <2>1. ASSUME NEW t \in Servers \ {s} PROVE SignalOK(t)'
    <3>1. SignalOK(t)
      BY <1>0 DEF SignalInv
    <3> QED BY <1>2, <1>3, <1>6, <3>1 DEF SignalOK, Processing
  <2>2. SignalOK(s)'
    BY <1>2, <1>3, <1>4, <1>7, ServersAssumption DEF SignalOK, Processing, Idle
  <2> QED BY <2>1, <2>2 DEF SignalInv
<1>11. CleanInv'
  BY <1>2 DEF CleanInv, Idle
<1>12. ServerInv'
  <2>1. ASSUME NEW t \in Servers \ {s} PROVE ServerOK(t)'
    <3>1. ServerOK(t)
      BY <1>0 DEF ServerInv
    <3> QED BY <1>2, <1>3, <1>6, <3>1 DEF ServerOK, Settled, Complete
  <2>2. ServerOK(s)'
    <3>1. ServerOK(s)
      BY <1>0 DEF ServerInv
    <3> QED BY <1>2, <1>3, <1>4, <1>7, <3>1, ServersAssumption DEF ServerOK, Idle
  <2> QED BY <2>1, <2>2 DEF ServerInv
<1>13. DupInv'
  <2>1. ASSUME NEW t \in Servers PROVE DupOK(t)'
    <3>1. DupOK(t)
      BY <1>0 DEF DupInv
    <3>2. pc'[t] = "delete_dup" => pc[t] = "delete_dup"
      BY <1>6, <1>7
    <3> QED BY <1>2, <3>1, <3>2 DEF DupOK
  <2> QED BY <1>0, <1>2, <2>1 DEF DupInv
<1>14. InterruptMeansRemoved' /\ SurvivorExists'
  BY <1>0, <1>2 DEF InterruptMeansRemoved, SurvivorExists
<1>15. AnsweredMeansSettled'
  BY <1>0, <1>2, <1>6, <1>7 DEF AnsweredMeansSettled, LeftAlone, Settled, Complete
<1> QED BY <1>1, <1>8, <1>9, <1>10, <1>11, <1>12, <1>13, <1>14, <1>15 DEF IInv

\* A server's line is read, or its pipe is closed.
LEMMA InvOutput ==
    ASSUME IInv, NEW s \in Servers, abrt_server_output_cb(s) \/ abrt_server_output_hup(s)
    PROVE  IInv'
<1>0. /\ TypeOK /\ QueueInv /\ TurnAtHead /\ SignalInv /\ CleanInv /\ ServerInv /\ DupInv
      /\ InterruptMeansRemoved /\ AnsweredMeansSettled /\ SurvivorExists
  BY DEF IInv
<1>1. TypeOK'
  BY <1>0, TypeAbrtd DEF Abrtd
<1>2. /\ s \in pipe /\ pipe' = pipe \ {s} /\ clean = Idle
      /\ UNCHANGED <<s_processes, s_dir_queue, procType, pc, dir, sig, outcome, event, dupOf,
                     exists, count, created, discarded, undeleted>>
  BY <1>0 DEF abrt_server_output_cb, abrt_server_output_hup, abrtdVars, eventVars, dumpVars,
              histVars, CleanInv
<1>3. \A t \in Servers : Queued(t)' <=> Queued(t)
  BY <1>2 DEF Queued
<1>4. ~Queued(s) /\ sig[s] = {} /\ pc[s] \in {"wait", "exited"} /\ dir[s] \in created
  BY <1>0, <1>2 DEF SignalInv, SignalOK, ServerInv, ServerOK
<1>5. \A i \in DOMAIN s_dir_queue : s_dir_queue[i] # s /\ s_dir_queue[i] \in Servers
  BY <1>0, <1>4 DEF Queued, TypeOK
<1>6. \/ /\ procDir' = [procDir EXCEPT ![s] = dir[s]]
         /\ clean'.proc = s
         /\ clean'.hadRunning <=> s_dir_queue # <<>>
         /\ s_dir_queue # <<>> => clean'.ignored = procDir[Head(s_dir_queue)]
         /\ clean'.ignored # NoDir /\ clean'.victim = NoDir
      \/ procDir' = procDir /\ clean' = Idle
  <2>1. CASE abrt_server_output_cb(s)
    <3>1. dir[s] # NoDir
      BY <1>0, <1>4, DirsAssumption DEF TypeOK
    <3>2. s_dir_queue # <<>> => procDir[Head(s_dir_queue)] # NoDir
      <4>1. ASSUME s_dir_queue # <<>> PROVE procDir[Head(s_dir_queue)] \in created
        <5>1. 1 \in DOMAIN s_dir_queue /\ Head(s_dir_queue) = s_dir_queue[1]
              /\ s_dir_queue[1] \in Servers
          BY <1>0, <4>1 DEF TypeOK
        <5>2. Queued(s_dir_queue[1])
          BY <5>1 DEF Queued
        <5> QED BY <1>0, <5>1, <5>2 DEF QueueInv, ServerInv, ServerOK
      <4> QED BY <1>0, <4>1, DirsAssumption DEF TypeOK
    <3> QED BY <2>1, <3>1, <3>2 DEF abrt_server_output_cb
  <2>2. CASE abrt_server_output_hup(s)
    BY <1>2, <2>2 DEF abrt_server_output_hup, abrtdVars
  <2> QED BY <2>1, <2>2
<1>7. clean'.proc \in {s, NoServer} /\ \A t \in Servers \ {s} : procDir'[t] = procDir[t]
  BY <1>0, <1>6 DEF Idle, TypeOK
<1>8. QueueInv'
  BY <1>0, <1>2, <1>5, <1>7 DEF QueueInv
<1>a. clean'.victim = clean.victim
  BY <1>2, <1>6 DEF Idle
<1>9. TurnAtHead' /\ InterruptMeansRemoved' /\ SurvivorExists' /\ AnsweredMeansSettled'
  BY <1>0, <1>2, <1>a DEF TurnAtHead, InterruptMeansRemoved, SurvivorExists, AnsweredMeansSettled,
                    LeftAlone, Settled, Complete
<1>10. SignalInv'
  <2>1. ASSUME NEW t \in Servers PROVE SignalOK(t)'
    <3>1. SignalOK(t) /\ (t \in Processing' <=> t \in Processing)
      BY <1>0, <1>2 DEF SignalInv, Processing
    <3>2. t # s => t # clean'.proc
      BY <1>7, ServersAssumption
    <3> QED BY <1>2, <1>3, <1>4, <3>1, <3>2 DEF SignalOK
  <2> QED BY <2>1 DEF SignalInv
<1>11. CleanInv'
  <2>1. CASE clean' = Idle
    BY <2>1 DEF CleanInv, Idle
  <2>2. CASE clean' # Idle
    <3>1. s_dir_queue # <<>> => Head(s_dir_queue) \in Servers \ {s}
      BY <1>0, <1>5 DEF TypeOK
    <3>2. procDir'[s] = dir[s] /\ clean'.proc = s
      BY <1>0, <1>6, <2>2 DEF TypeOK
    <3> QED BY <1>2, <1>6, <1>7, <2>2, <3>1, <3>2 DEF CleanInv
  <2> QED BY <2>1, <2>2
<1>12. ServerInv'
  <2>1. ASSUME NEW t \in Servers PROVE ServerOK(t)'
    <3>1. ServerOK(t)
      BY <1>0 DEF ServerInv
    <3>2. t = clean'.proc => dir[t] \in created
      BY <1>4, <1>7, ServersAssumption
    <3> QED BY <1>2, <1>3, <3>1, <3>2 DEF ServerOK, Settled, Complete
  <2> QED BY <2>1 DEF ServerInv
<1>13. DupInv'
  BY <1>0, <1>2 DEF DupInv, DupOK
<1> QED BY <1>1, <1>8, <1>9, <1>10, <1>11, <1>12, <1>13 DEF IInv

\* InterruptMeansRemoved for one server.
Interrupted(s) ==
    "INT" \in sig[s] => dir[s] \notin exists \/ dir[s] = clean.victim \/ dir[s] \in undeleted

\* One turn of the cleaning loop, up to the deletion.
LEMMA InvClean == ASSUME IInv, NEW d \in Dirs, clean_worst_dir(d) PROVE IInv'
<1>0. /\ TypeOK /\ QueueInv /\ TurnAtHead /\ SignalInv /\ CleanInv /\ ServerInv /\ DupInv
      /\ InterruptMeansRemoved /\ AnsweredMeansSettled /\ SurvivorExists
  BY DEF IInv
<1>1. TypeOK'
  BY <1>0, TypeAbrtd DEF Abrtd
<1>2. /\ ~InMainLoop /\ d # clean.ignored
      /\ UNCHANGED <<s_processes, procDir, procType, pc, dir, pipe, outcome, event, dupOf,
                     exists, created, count, discarded, undeleted>>
      /\ clean'.hadRunning = clean.hadRunning /\ clean'.ignored = clean.ignored
      /\ clean'.proc \in {clean.proc, NoServer}
      /\ clean.victim = NoDir /\ clean'.victim = d
  BY <1>0 DEF TypeOK, clean_worst_dir, clean_new_dir, clean_unprocessed_dir, clean_old_dir, Worst,
              serverVars, eventVars, dumpVars, histVars
<1>3. DupInv' /\ AnsweredMeansSettled' /\ SurvivorExists'
  <2>1. DupInv' /\ SurvivorExists'
    BY <1>0, <1>2 DEF DupInv, DupOK, SurvivorExists
  <2>2. \A t \in Servers : outcome[t] # "none" => dir[t] # NoDir
    BY <1>0, DirsAssumption DEF ServerInv, ServerOK, TypeOK
  <2>3. AnsweredMeansSettled'
    BY <1>0, <1>2, <2>2 DEF AnsweredMeansSettled, LeftAlone, Settled, Complete
  <2> QED BY <2>1, <2>3
\* The process p, if any, that is told to give up.
<1>4. \/ \E p \in Servers :
            /\ sig' = Signalled({p}, "INT") /\ dir[p] = d /\ dir[p] \in created
            /\ ~Queued(p)' /\ procType[p] # "POST_CREATE" /\ p \notin pipe /\ p # clean'.proc
            /\ pc[p] \notin {"unused", "request", "trim", "check"}
            /\ \A t \in Servers \ {p} : Queued(t)' <=> Queued(t)
      \/ sig' = sig /\ \A t \in Servers : Queued(t)' <=> Queued(t)
  <2>1. CASE clean_new_dir(d)
    <3>1. /\ clean.proc \in Servers /\ procDir[clean.proc] = d /\ clean'.proc = NoServer
          /\ s_dir_queue' = s_dir_queue /\ sig' = Signalled({clean.proc}, "INT")
      BY <1>0, <2>1 DEF clean_new_dir, IsNew, TypeOK
    <3>2. /\ dir[clean.proc] = d /\ dir[clean.proc] \in created /\ ~Queued(clean.proc)
          /\ procType[clean.proc] # "POST_CREATE" /\ clean.proc \notin pipe
          /\ pc[clean.proc] \in {"wait", "exited"}
      BY <1>0, <3>1, ServersAssumption
         DEF CleanInv, SignalInv, SignalOK, ServerInv, ServerOK
    <3>3. \A t \in Servers : Queued(t)' <=> Queued(t)
      BY <3>1 DEF Queued
    <3> QED BY <3>1, <3>2, <3>3, ServersAssumption
  <2>2. ASSUME NEW i \in DOMAIN s_dir_queue, clean_unprocessed_dir(d, i)
        PROVE  \E p \in Servers :
            /\ sig' = Signalled({p}, "INT") /\ dir[p] = d /\ dir[p] \in created
            /\ ~Queued(p)' /\ procType[p] # "POST_CREATE" /\ p \notin pipe /\ p # clean'.proc
            /\ pc[p] \notin {"unused", "request", "trim", "check"}
            /\ \A t \in Servers \ {p} : Queued(t)' <=> Queued(t)
    <3> DEFINE p == s_dir_queue[i]
    <3>1. /\ p \in Servers /\ Queued(p) /\ procDir[p] = d /\ dir[p] = d
          /\ clean'.proc = clean.proc
      BY <1>0, <2>2 DEF clean_unprocessed_dir, Queued, QueueInv, TypeOK
    <3>2. i # 1
      BY <1>0, <1>2, <3>1 DEF CleanInv, TypeOK
    <3>3. procType[p] # "POST_CREATE"
      BY <1>0, <3>2 DEF TurnAtHead
    <3>4. /\ p \notin pipe /\ p # clean.proc /\ dir[p] \in created
          /\ pc[p] \notin {"unused", "request", "trim", "check"}
      BY <1>0, <3>1 DEF SignalInv, SignalOK, ServerInv, ServerOK
    <3>5. \A t \in Servers : Queued(t)' <=> (Queued(t) /\ t # p)
      BY <1>0, <2>2, QueueRemoval DEF clean_unprocessed_dir
    <3>6. sig' = Signalled({p}, "INT")
      BY <2>2 DEF clean_unprocessed_dir
    <3> HIDE DEF p
    <3> QED BY <3>1, <3>3, <3>4, <3>5, <3>6
  <2>3. CASE clean_old_dir(d)
    BY <2>3 DEF clean_old_dir, serverVars, Queued
  <2> QED BY <2>1, <2>2, <2>3 DEF clean_worst_dir
<1>5. /\ \A i, j \in DOMAIN s_dir_queue' : s_dir_queue'[i] = s_dir_queue'[j] => i = j
      /\ \A i \in DOMAIN s_dir_queue' : Queued(s_dir_queue'[i]) /\ s_dir_queue'[i] \in Servers
      /\ \A i \in DOMAIN s_dir_queue' : (procType[s_dir_queue'[i]] = "POST_CREATE") <=> (i = 1)
      /\ s_dir_queue # <<>> <=> s_dir_queue' # <<>>
      /\ s_dir_queue # <<>> => Head(s_dir_queue') = Head(s_dir_queue)
  <2>1. CASE s_dir_queue' = s_dir_queue
    BY <1>0, <2>1 DEF QueueInv, TurnAtHead, Queued, TypeOK
  <2>2. ASSUME NEW i \in DOMAIN s_dir_queue, clean_unprocessed_dir(d, i)
        PROVE  /\ s_dir_queue' = RemoveAt(s_dir_queue, i)
               /\ i # 1 /\ s_dir_queue # <<>>
    <3>1. procDir[s_dir_queue[i]] = d /\ s_dir_queue' = RemoveAt(s_dir_queue, i)
      BY <2>2 DEF clean_unprocessed_dir
    <3> QED BY <1>0, <1>2, <3>1 DEF CleanInv, TypeOK
  <2>3. ASSUME NEW i \in DOMAIN s_dir_queue, s_dir_queue' = RemoveAt(s_dir_queue, i),
               i # 1, s_dir_queue # <<>>, NEW j \in DOMAIN s_dir_queue'
        PROVE  (procType[s_dir_queue'[j]] = "POST_CREATE") <=> (j = 1)
    <3>1. /\ s_dir_queue'[j] = s_dir_queue[IF j < i THEN j ELSE j + 1]
          /\ (IF j < i THEN j ELSE j + 1) \in DOMAIN s_dir_queue
      BY <1>0, <2>3, QueueRemoval
    <3>2. (IF j < i THEN j ELSE j + 1) = 1 <=> j = 1
      <4>1. i \in Nat /\ j \in Nat /\ i >= 1 /\ j >= 1
        BY <1>0, <1>1, <2>3 DEF TypeOK
      <4> QED BY <2>3, <4>1
    <3> QED BY <1>0, <3>1, <3>2 DEF TurnAtHead
  <2>4. ASSUME NEW i \in DOMAIN s_dir_queue, s_dir_queue' = RemoveAt(s_dir_queue, i),
               i # 1, s_dir_queue # <<>>
        PROVE  /\ \A j, k \in DOMAIN s_dir_queue' : s_dir_queue'[j] = s_dir_queue'[k] => j = k
               /\ \A j \in DOMAIN s_dir_queue' : /\ Queued(s_dir_queue'[j])
                                                 /\ s_dir_queue'[j] \in Servers
               /\ s_dir_queue' # <<>> /\ Head(s_dir_queue') = Head(s_dir_queue)
    BY <1>0, <1>1, <2>4, QueueRemoval DEF TypeOK
  <2>5. s_dir_queue' = s_dir_queue \/ \E i \in DOMAIN s_dir_queue : clean_unprocessed_dir(d, i)
    BY DEF clean_worst_dir, clean_new_dir, clean_old_dir
  <2> QED BY <2>1, <2>2, <2>3, <2>4, <2>5
<1>6. QueueInv'
  <2>1. \A t \in Servers : Queued(t) => t \in s_processes /\ procDir[t] = dir[t]
    BY <1>0 DEF Queued, QueueInv
  <2> QED BY <1>0, <1>2, <1>5, <2>1 DEF QueueInv
<1>7. TurnAtHead'
  BY <1>2, <1>5 DEF TurnAtHead
<1>8. CleanInv'
  BY <1>0, <1>2, <1>5 DEF CleanInv
<1>9. SignalInv' /\ InterruptMeansRemoved'
  <2>1. ASSUME NEW t \in Servers, sig'[t] = sig[t], Queued(t)' <=> Queued(t)
        PROVE  SignalOK(t)' /\ Interrupted(t)'
    <3>1. SignalOK(t) /\ Interrupted(t) /\ ServerOK(t)
      BY <1>0 DEF SignalInv, InterruptMeansRemoved, Interrupted, ServerInv
    <3>2. t = clean'.proc => t = clean.proc
      BY <1>2, ServersAssumption
    <3>3. SignalOK(t)'
      BY <1>2, <2>1, <3>1, <3>2 DEF SignalOK, Processing
    <3>4. sig[t] # {} => dir[t] # NoDir
      BY <1>0, <3>1, DirsAssumption DEF ServerOK, TypeOK
    <3> QED BY <1>2, <2>1, <3>1, <3>3, <3>4 DEF Interrupted
  <2>2. ASSUME NEW p \in Servers,
               sig' = Signalled({p}, "INT"), dir[p] = d,
               ~Queued(p)', procType[p] # "POST_CREATE", p \notin pipe, p # clean'.proc,
               pc[p] \notin {"unused", "request", "trim", "check"}
        PROVE  SignalOK(p)' /\ Interrupted(p)'
    <3>1. SignalOK(p) /\ sig'[p] = sig[p] \cup {"INT"}
      BY <1>0, <2>2 DEF SignalInv, Signalled
    <3> QED BY <1>2, <2>2, <3>1 DEF SignalOK, Processing, Interrupted
  <2>3. \A p \in Servers : sig' = Signalled({p}, "INT") => \A t \in Servers \ {p} : sig'[t] = sig[t]
    BY DEF Signalled
  <2> QED BY <1>4, <2>1, <2>2, <2>3 DEF SignalInv, InterruptMeansRemoved, Interrupted
<1>10. ServerInv'
  <2>1. ASSUME NEW t \in Servers,
               (sig[t] # {} \/ t \in pipe \/ t = clean.proc \/ Queued(t))' => dir[t] \in created
        PROVE  ServerOK(t)'
    <3>1. ServerOK(t)
      BY <1>0 DEF ServerInv
    <3> QED BY <1>2, <2>1, <3>1 DEF ServerOK, Settled, Complete
  <2>2. ASSUME NEW t \in Servers, sig'[t] = sig[t], Queued(t)' <=> Queued(t)
        PROVE  (sig[t] # {} \/ t \in pipe \/ t = clean.proc \/ Queued(t))' => dir[t] \in created
    <3>1. ServerOK(t)
      BY <1>0 DEF ServerInv
    <3>2. t = clean'.proc => t = clean.proc
      BY <1>2, ServersAssumption
    <3> QED BY <1>2, <2>2, <3>1, <3>2 DEF ServerOK
  <2>3. \A p \in Servers : sig' = Signalled({p}, "INT") => \A t \in Servers \ {p} : sig'[t] = sig[t]
    BY DEF Signalled
  <2> QED BY <1>4, <2>1, <2>2, <2>3 DEF ServerInv
<1> QED BY <1>1, <1>3, <1>6, <1>7, <1>8, <1>9, <1>10 DEF IInv

\* The deletion that ends a turn of the loop.
LEMMA InvDelete == ASSUME IInv, delete_worst_dir PROVE IInv'
<1>0. /\ TypeOK /\ QueueInv /\ TurnAtHead /\ SignalInv /\ CleanInv /\ ServerInv /\ DupInv
      /\ SurvivorExists
  BY DEF IInv
<1>1. TypeOK'
  BY <1>0, TypeAbrtd DEF Abrtd
<1>2. /\ UNCHANGED <<s_processes, s_dir_queue, procDir, procType, pc, dir, pipe, sig, outcome,
                     event, dupOf, created, count>>
      /\ Delete(clean.victim) /\ clean.victim # NoDir
      /\ clean'.proc = clean.proc /\ clean'.hadRunning = clean.hadRunning
      /\ clean'.ignored = clean.ignored /\ clean'.victim = NoDir
  BY <1>0 DEF delete_worst_dir, serverVars, eventVars, TypeOK
<1>3. /\ exists' \subseteq exists /\ undeleted \subseteq undeleted'
      /\ clean.victim \in undeleted' \/ clean.victim \notin exists'
  BY <1>2 DEF Delete, Discard
<1>4. DupInv' /\ SurvivorExists'
  <2>1. CASE Discard(clean.victim)
    BY <1>2, <2>1, DiscardFacts
  <2>2. CASE UNCHANGED <<exists, discarded>>
    BY <1>0, <1>2, <2>2 DEF DupInv, DupOK, SurvivorExists
  <2> QED BY <1>2, <2>1, <2>2 DEF Delete
<1>5. /\ AnsweredMeansSettled' /\ InterruptMeansRemoved'
      /\ \A t \in Servers :
           /\ (pc[t] = "notify" => Settled(dir[t]))'
           /\ (pc[t] = "notify_dup" => dir[t] \notin exists \/ dir[t] \in undeleted)'
  BY <1>2, <1>3, AnswersKept
<1>6. \A t \in Servers : (Queued(t)' <=> Queued(t)) /\ (t \in Processing' <=> t \in Processing)
  BY <1>2 DEF Queued, Processing
<1>7. QueueInv' /\ TurnAtHead'
  BY <1>0, <1>2 DEF QueueInv, TurnAtHead
<1>8. CleanInv'
  <2>1. ~InMainLoop
    BY <1>0, <1>2 DEF CleanInv, Idle
  <2> QED BY <1>0, <1>2, <2>1 DEF CleanInv
<1>9. SignalInv'
  <2>1. ASSUME NEW t \in Servers PROVE SignalOK(t)'
    <3>1. SignalOK(t)
      BY <1>0 DEF SignalInv
    <3> QED BY <1>2, <1>6, <3>1 DEF SignalOK
  <2> QED BY <2>1 DEF SignalInv
<1>10. ServerInv'
  <2>1. ASSUME NEW t \in Servers PROVE ServerOK(t)'
    <3>1. ServerOK(t)
      BY <1>0 DEF ServerInv
    <3> QED BY <1>2, <1>5, <1>6, <3>1 DEF ServerOK
  <2> QED BY <2>1 DEF ServerInv
<1> QED BY <1>1, <1>4, <1>5, <1>7, <1>8, <1>9, <1>10 DEF IInv

\* The end of queue_post_craete_process().
LEMMA InvConsider == ASSUME IInv, consider_processing PROVE IInv'
<1>0. /\ TypeOK /\ QueueInv /\ TurnAtHead /\ SignalInv /\ CleanInv /\ ServerInv /\ DupInv
      /\ InterruptMeansRemoved /\ AnsweredMeansSettled /\ SurvivorExists
  BY DEF IInv
<1>1. TypeOK'
  BY <1>0, TypeAbrtd DEF Abrtd
<1>2. /\ clean' = Idle /\ clean'.victim = clean.victim
      /\ UNCHANGED <<s_processes, procDir, pc, dir, pipe, outcome, event, dupOf, exists, count,
                     created, discarded, undeleted>>
      /\ ~InMainLoop
      /\ s_dir_queue' = IF clean.proc = NoServer THEN s_dir_queue
                                                 ELSE Append(s_dir_queue, clean.proc)
  BY DEF consider_processing, eventVars, dumpVars, histVars, Idle
<1>3. clean.proc # NoServer =>
        /\ clean.proc \in Servers /\ ~Queued(clean.proc) /\ sig[clean.proc] = {}
        /\ pc[clean.proc] \in {"wait", "exited"} /\ dir[clean.proc] \in created
        /\ procDir[clean.proc] = dir[clean.proc] /\ procType[clean.proc] = "UNKNOWN"
        /\ clean.proc \notin pipe
  <2>1. clean.proc # NoServer => clean.proc \in Servers
    BY <1>0 DEF TypeOK
  <2> QED BY <1>0, <2>1 DEF CleanInv, SignalInv, SignalOK, ServerInv, ServerOK, TypeOK
\* Only the new process, and only in an empty queue, gets the turn.
<1>4. \A t \in Servers :
        /\ sig'[t] = IF s_dir_queue = <<>> /\ t = clean.proc THEN {"USR1"} ELSE sig[t]
        /\ procType'[t] = IF s_dir_queue = <<>> /\ t = clean.proc THEN "POST_CREATE"
                                                                  ELSE procType[t]
  <2>1. CASE s_dir_queue # <<>>
    <3>1. PassTurn(<<>>)
      BY <1>0, <1>2, <2>1 DEF consider_processing, CleanInv
    <3> QED BY <2>1, <3>1 DEF PassTurn, notify_next_post_create_process, Signalled
  <2>2. CASE s_dir_queue = <<>> /\ clean.proc = NoServer
    <3>1. PassTurn(<<>>)
      BY <1>0, <1>2, <2>2 DEF consider_processing, CleanInv
    <3> QED BY <2>2, <3>1, ServersAssumption
            DEF PassTurn, notify_next_post_create_process, Signalled
  <2>3. CASE s_dir_queue = <<>> /\ clean.proc # NoServer
    <3>1. s_dir_queue' # <<>> /\ Head(s_dir_queue') = clean.proc
      BY <1>0, <1>2, <1>3, <2>3 DEF TypeOK
    <3>2. PassTurn(s_dir_queue')
      BY <1>0, <1>2, <2>3 DEF consider_processing, CleanInv
    <3>3. notify_next_post_create_process(s_dir_queue') = {clean.proc}
      BY <1>3, <2>3, <3>1 DEF notify_next_post_create_process
    <3> QED BY <1>3, <2>3, <3>2, <3>3 DEF PassTurn, Signalled
  <2> QED BY <2>1, <2>2, <2>3
<1>5. \A t \in Servers : Queued(t)' <=> Queued(t) \/ t = clean.proc
  <2>1. CASE clean.proc = NoServer
    BY <1>2, <2>1, ServersAssumption DEF Queued
  <2>2. CASE clean.proc # NoServer
    <3>1. /\ DOMAIN s_dir_queue' = 1..(Len(s_dir_queue) + 1) /\ Len(s_dir_queue) \in Nat
          /\ DOMAIN s_dir_queue = 1..Len(s_dir_queue)
          /\ s_dir_queue'[Len(s_dir_queue) + 1] = clean.proc
          /\ \A i \in 1..Len(s_dir_queue) : s_dir_queue'[i] = s_dir_queue[i]
      BY <1>0, <1>2, <1>3, <2>2 DEF TypeOK
    <3> QED BY <3>1 DEF Queued
  <2> QED BY <2>1, <2>2
<1>6. QueueInv' /\ TurnAtHead'
  <2>1. CASE clean.proc = NoServer
    <3>1. procType' = procType
      BY <1>0, <1>1, <1>4, <2>1, ServersAssumption DEF TypeOK
    <3> QED BY <1>0, <1>2, <2>1, <3>1 DEF QueueInv, TurnAtHead
  <2>2. CASE clean.proc # NoServer
    <3> DEFINE n == Len(s_dir_queue) + 1
    <3>1. /\ DOMAIN s_dir_queue' = 1..n /\ Len(s_dir_queue) \in Nat
          /\ DOMAIN s_dir_queue = 1..Len(s_dir_queue)
          /\ s_dir_queue'[n] = clean.proc
          /\ \A i \in 1..Len(s_dir_queue) : s_dir_queue'[i] = s_dir_queue[i]
          /\ s_dir_queue = <<>> <=> n = 1
      BY <1>0, <1>2, <1>3, <2>2 DEF TypeOK
    <3>2. \A i \in 1..Len(s_dir_queue) : s_dir_queue[i] # clean.proc /\ s_dir_queue[i] \in Servers
      BY <1>0, <1>3, <2>2, <3>1 DEF Queued, TypeOK
    <3> HIDE DEF n
    <3>3. n \in Nat /\ \A i \in 1..n : i = n \/ i \in 1..Len(s_dir_queue)
      BY <3>1 DEF n
    <3>4. QueueInv'
      <4>1. \A i, j \in DOMAIN s_dir_queue' : s_dir_queue'[i] = s_dir_queue'[j] => i = j
        BY <1>0, <3>1, <3>2, <3>3 DEF QueueInv
      <4>2. clean.proc \in s_processes
        BY <1>0, <1>3, <2>2 DEF QueueInv
      <4>3. \A i \in DOMAIN s_dir_queue' : /\ s_dir_queue'[i] \in s_processes
                                           /\ procDir[s_dir_queue'[i]] = dir[s_dir_queue'[i]]
        BY <1>0, <1>3, <2>2, <3>1, <3>3, <4>2 DEF QueueInv
      <4> QED BY <1>0, <1>2, <4>1, <4>3 DEF QueueInv
    <3>5. TurnAtHead'
      <4>1. ASSUME NEW i \in DOMAIN s_dir_queue'
            PROVE  (procType'[s_dir_queue'[i]] = "POST_CREATE") <=> (i = 1)
        <5>1. CASE i = n
          <6>1. procType'[clean.proc] = IF n = 1 THEN "POST_CREATE" ELSE "UNKNOWN"
            BY <1>3, <1>4, <2>2, <3>1
          <6> QED BY <3>1, <5>1, <6>1
        <5>2. CASE i \in 1..Len(s_dir_queue)
          <6>1. procType'[s_dir_queue[i]] = procType[s_dir_queue[i]]
            BY <1>4, <3>2, <5>2
          <6> QED BY <1>0, <3>1, <5>2, <6>1 DEF TurnAtHead
        <5> QED BY <3>1, <3>3, <5>1, <5>2
      <4> QED BY <4>1 DEF TurnAtHead
    <3> QED BY <3>4, <3>5
  <2> QED BY <2>1, <2>2
<1>7. SignalInv'
  <2>1. ASSUME NEW t \in Servers PROVE SignalOK(t)'
    <3>1. SignalOK(t) /\ (t \in Processing' <=> t \in Processing) /\ t # clean'.proc
      BY <1>0, <1>2, ServersAssumption DEF SignalInv, Processing, Idle
    <3>2. CASE t # clean.proc
      BY <1>2, <1>4, <1>5, <3>1, <3>2 DEF SignalOK
    <3>3. CASE t = clean.proc
      BY <1>2, <1>3, <1>4, <1>5, <3>1, <3>3, ServersAssumption DEF SignalOK
    <3> QED BY <3>2, <3>3
  <2> QED BY <2>1 DEF SignalInv
<1>8. CleanInv'
  BY <1>2 DEF CleanInv, Idle
<1>9. ServerInv'
  <2>1. ASSUME NEW t \in Servers PROVE ServerOK(t)'
    <3>1. ServerOK(t) /\ t # clean'.proc
      BY <1>0, <1>2, ServersAssumption DEF ServerInv, Idle
    <3>2. t = clean.proc => dir[t] \in created
      BY <1>3, ServersAssumption
    <3> QED BY <1>2, <1>4, <1>5, <3>1, <3>2 DEF ServerOK, Settled, Complete
  <2> QED BY <2>1 DEF ServerInv
<1>10. DupInv' /\ AnsweredMeansSettled' /\ SurvivorExists'
  BY <1>0, <1>2 DEF DupInv, DupOK, AnsweredMeansSettled, SurvivorExists, LeftAlone,
                    Settled, Complete
<1>11. InterruptMeansRemoved'
  BY <1>0, <1>2, <1>4 DEF InterruptMeansRemoved
<1> QED BY <1>1, <1>6, <1>7, <1>8, <1>9, <1>10, <1>11 DEF IInv

\* A server is reaped.
LEMMA InvRemove == ASSUME IInv, NEW s \in Servers, remove_abrt_server_proc(s) PROVE IInv'
<1>0. /\ TypeOK /\ QueueInv /\ TurnAtHead /\ SignalInv /\ CleanInv /\ ServerInv /\ DupInv
      /\ InterruptMeansRemoved /\ AnsweredMeansSettled /\ SurvivorExists
  BY DEF IInv
<1>1. TypeOK'
  BY <1>0, TypeAbrtd DEF Abrtd
<1>2. /\ s_processes' = s_processes \ {s} /\ s_dir_queue' = Without(s_dir_queue, s)
      /\ procDir' = [procDir EXCEPT ![s] = NoDir] /\ pipe' = pipe \ {s}
      /\ pc' = [pc EXCEPT ![s] = "unused"] /\ dir' = [dir EXCEPT ![s] = NoDir]
      /\ outcome' = [outcome EXCEPT ![s] = "none"] /\ event' = [event EXCEPT ![s] = "none"]
      /\ UNCHANGED <<clean, exists, count, created, discarded, undeleted>> /\ clean = Idle
      /\ dupOf' = [dupOf EXCEPT ![s] = NoDir]
  BY <1>0 DEF remove_abrt_server_proc, dumpVars, histVars, CleanInv
<1>2a. UNCHANGED <<clean, exists, count, created, discarded, undeleted>>
  BY <1>2
<1>3. /\ pc'[s] = "unused" /\ dir'[s] = NoDir /\ outcome'[s] = "none" /\ event'[s] = "none"
      /\ s \notin pipe' /\ s # clean'.proc
  BY <1>0, <1>2, ServersAssumption DEF TypeOK, Idle
<1>4. \A t \in Servers \ {s} :
        /\ pc'[t] = pc[t] /\ dir'[t] = dir[t] /\ outcome'[t] = outcome[t]
        /\ event'[t] = event[t] /\ dupOf'[t] = dupOf[t] /\ procDir'[t] = procDir[t]
        /\ t \in pipe' <=> t \in pipe
  BY <1>0, <1>2 DEF TypeOK
<1>5. procType'[s] = "UNKNOWN" /\ sig'[s] = {}
  BY <1>0 DEF remove_abrt_server_proc, TypeOK, Signalled
<1> DEFINE turn == IF procType[s] = "POST_CREATE"
                   THEN notify_next_post_create_process(s_dir_queue') ELSE {}
<1>6. \A t \in Servers \ {s} :
        /\ procType'[t] = IF t \in turn THEN "POST_CREATE" ELSE procType[t]
        /\ sig'[t] = IF t \in turn THEN sig[t] \cup {"USR1"} ELSE sig[t]
  BY <1>0 DEF remove_abrt_server_proc, TypeOK, Signalled
<1> HIDE DEF turn
\* What is left of the queue, and who gets the turn.
<1>7. /\ \A t \in Servers : Queued(t)' <=> (Queued(t) /\ t # s)
      /\ \A j, k \in DOMAIN s_dir_queue' : s_dir_queue'[j] = s_dir_queue'[k] => j = k
      /\ \A j \in DOMAIN s_dir_queue' : /\ Queued(s_dir_queue'[j]) /\ s_dir_queue'[j] # s
                                        /\ s_dir_queue'[j] \in Servers
      /\ \A t \in turn : t \in Servers \ {s} /\ Queued(t)'
      /\ \A j \in DOMAIN s_dir_queue' :
            s_dir_queue'[j] \in turn \/ procType[s_dir_queue'[j]] = "POST_CREATE" <=> j = 1
  <2>1. CASE ~Queued(s)
    <3>1. s_dir_queue' = s_dir_queue
      BY <1>2, <2>1, WithoutFacts DEF Queued
    <3>2. turn = {}
      BY <1>0, <2>1 DEF SignalInv, SignalOK, turn
    <3> QED BY <1>0, <2>1, <3>1, <3>2 DEF Queued, QueueInv, TurnAtHead, TypeOK
  <2>2. CASE Queued(s)
    <3>1. PICK i \in DOMAIN s_dir_queue : /\ s_dir_queue[i] = s
                                          /\ s_dir_queue' = RemoveAt(s_dir_queue, i)
      BY <1>2, <2>2, WithoutFacts DEF Queued
    <3>2. /\ \A t \in Servers : Queued(t)' <=> (Queued(t) /\ t # s)
          /\ \A j, k \in DOMAIN s_dir_queue' : s_dir_queue'[j] = s_dir_queue'[k] => j = k
          /\ \A j \in DOMAIN s_dir_queue' :
                /\ Queued(s_dir_queue'[j]) /\ s_dir_queue'[j] # s
                /\ s_dir_queue'[j] = s_dir_queue[IF j < i THEN j ELSE j + 1]
                /\ (IF j < i THEN j ELSE j + 1) \in DOMAIN s_dir_queue
                /\ s_dir_queue'[j] \in Servers
          /\ s_dir_queue' # <<>> => Head(s_dir_queue') = s_dir_queue'[1] /\ 1 \in DOMAIN s_dir_queue'
      BY <1>0, <1>1, <3>1, QueueRemoval DEF TypeOK
    <3>3. ASSUME NEW j \in DOMAIN s_dir_queue'
          PROVE  /\ i \in Nat \ {0} /\ j \in Nat \ {0}
                 /\ procType[s_dir_queue'[j]] = "POST_CREATE" <=> (j = 1 /\ i # 1)
                 /\ s_dir_queue' # <<>>
      <4>1. i \in Nat \ {0} /\ j \in Nat \ {0} /\ s_dir_queue' # <<>>
        BY <1>0, <1>1, <3>1 DEF TypeOK
      <4>2. (IF j < i THEN j ELSE j + 1) = 1 <=> (j = 1 /\ i # 1)
        BY <4>1
      <4> QED BY <1>0, <3>2, <4>1, <4>2 DEF TurnAtHead
    <3>4. CASE i = 1
      <4>1. procType[s] = "POST_CREATE"
        BY <1>0, <3>1, <3>4 DEF TurnAtHead
      <4>2. turn = IF s_dir_queue' = <<>> THEN {} ELSE {s_dir_queue'[1]}
        BY <3>2, <3>3, <3>4, <4>1 DEF turn, notify_next_post_create_process
      <4>3. \A j \in DOMAIN s_dir_queue' : s_dir_queue'[j] = s_dir_queue'[1] <=> j = 1
        BY <3>2, <3>3
      <4>4. \A t \in turn : t \in Servers \ {s} /\ Queued(t)'
        BY <3>2, <4>2 DEF Queued
      <4> QED BY <3>2, <3>3, <3>4, <4>2, <4>3, <4>4
    <3>5. CASE i # 1
      <4>1. turn = {}
        BY <1>0, <3>1, <3>5 DEF TurnAtHead, turn
      <4> QED BY <3>2, <3>3, <3>5, <4>1
    <3> QED BY <3>4, <3>5
  <2> QED BY <2>1, <2>2
<1>8. QueueInv'
  <2>1. \A t \in Servers : Queued(t) => t \in s_processes /\ procDir[t] = dir[t]
    BY <1>0 DEF Queued, QueueInv
  <2>2. \A t \in Servers : (t \in s_processes <=> pc[t] # "unused")'
    BY <1>0, <1>2, <1>3, <1>4 DEF QueueInv
  <2>3. \A j \in DOMAIN s_dir_queue' : /\ s_dir_queue'[j] \in s_processes'
                                       /\ procDir'[s_dir_queue'[j]] = dir'[s_dir_queue'[j]]
    BY <1>2, <1>4, <1>7, <2>1
  <2> QED BY <1>7, <2>2, <2>3 DEF QueueInv
<1>9. TurnAtHead'
  BY <1>6, <1>7 DEF TurnAtHead
<1>10. SignalInv'
  <2>1. SignalOK(s)'
    BY <1>3, <1>5, <1>7 DEF SignalOK, Processing
  <2>2. ASSUME NEW t \in Servers \ {s} PROVE SignalOK(t)'
    <3>1. SignalOK(t) /\ (t \in Processing' <=> t \in Processing)
      BY <1>0, <1>4 DEF SignalInv, Processing
    <3>2. CASE t \in turn
      <4>1. Queued(t) /\ Queued(t)'
        BY <1>7, <3>2
      <4>2. sig'[t] = sig[t] \cup {"USR1"} /\ procType'[t] = "POST_CREATE"
        BY <1>6, <3>2
      <4>3. /\ "INT" \notin sig[t] /\ t \notin pipe /\ t # clean.proc
            /\ pc[t] \notin {"unused", "request", "trim", "check"}
        BY <3>1, <4>1 DEF SignalOK
      <4> QED BY <1>4, <1>2a, <4>1, <4>2, <4>3 DEF SignalOK
    <3>3. CASE t \notin turn
      BY <1>4, <1>6, <1>7, <1>2a, <3>1, <3>3 DEF SignalOK
    <3> QED BY <3>2, <3>3
  <2> QED BY <2>1, <2>2 DEF SignalInv
<1>11. CleanInv'
  BY <1>2 DEF CleanInv, Idle
<1>12. ServerInv'
  <2>1. ServerOK(s)'
    BY <1>3, <1>5, <1>7 DEF ServerOK
  <2>2. ASSUME NEW t \in Servers \ {s} PROVE ServerOK(t)'
    <3>1. ServerOK(t) /\ (sig'[t] # {} => sig[t] # {} \/ Queued(t))
      BY <1>0, <1>6, <1>7 DEF ServerInv
    <3> QED BY <1>2, <1>4, <1>7, <3>1 DEF ServerOK, Settled, Complete
  <2> QED BY <2>1, <2>2 DEF ServerInv
<1>13. DupInv'
  <2>1. DupOK(s)'
    BY <1>3 DEF DupOK
  <2>2. ASSUME NEW t \in Servers \ {s} PROVE DupOK(t)'
    <3>1. DupOK(t)
      BY <1>0 DEF DupInv
    <3> QED BY <1>4, <1>2a, <3>1 DEF DupOK
  <2> QED BY <1>0, <1>2a, <2>1, <2>2 DEF DupInv
<1>14. InterruptMeansRemoved' /\ AnsweredMeansSettled' /\ SurvivorExists'
  <2>1. InterruptMeansRemoved'
    <3>1. \A t \in Servers : "INT" \in sig'[t] => t # s /\ "INT" \in sig[t]
      <4>1. ASSUME NEW t \in Servers \ {s}, "INT" \in sig'[t] PROVE "INT" \in sig[t]
        <5>1. sig'[t] = sig[t] \/ sig'[t] = sig[t] \cup {"USR1"}
          BY <1>6
        <5> QED BY <4>1, <5>1
      <4> QED BY <1>5, <4>1
    <3> QED BY <1>0, <1>4, <1>2a, <3>1 DEF InterruptMeansRemoved
  <2>2. AnsweredMeansSettled'
    <3>1. ASSUME NEW t \in Servers \ {s} PROVE LeftAlone(t)' <=> LeftAlone(t)
      BY <1>4 DEF LeftAlone
    <3>2. ASSUME NEW d PROVE Settled(d)' <=> Settled(d)
      BY <1>2a DEF Settled, Complete
    <3> QED BY <1>0, <1>2a, <1>3, <1>4, <3>1, <3>2 DEF AnsweredMeansSettled
  <2> QED BY <1>0, <1>2, <2>1, <2>2 DEF SurvivorExists
<1> QED BY <1>1, <1>8, <1>9, <1>10, <1>11, <1>12, <1>13, <1>14 DEF IInv

-----------------------------------------------------------------------------
(* The inductive invariant: everything else *)

\* abrtd starts with no server and an empty dump location.
LEMMA InvInit == Init => IInv
<1> SUFFICES ASSUME Init PROVE IInv
  OBVIOUS
<1>1. TypeOK
  BY TypeInit
<1>2. \A s \in Servers : /\ ~Queued(s) /\ sig[s] = {} /\ pc[s] = "unused" /\ dir[s] = NoDir
                         /\ outcome[s] = "none" /\ event[s] = "none" /\ s # clean.proc
                         /\ procType[s] = "UNKNOWN" /\ s \notin pipe /\ s \notin Processing
  BY ServersAssumption DEF Init, Queued, Idle, Processing
<1>3. QueueInv /\ TurnAtHead /\ CleanInv
  BY <1>2 DEF Init, QueueInv, TurnAtHead, CleanInv, Idle
<1>4. SignalInv /\ ServerInv /\ DupInv
  BY <1>2 DEF Init, SignalInv, SignalOK, ServerInv, ServerOK, DupInv, DupOK
<1>5. InterruptMeansRemoved /\ AnsweredMeansSettled /\ SurvivorExists
  BY <1>2 DEF Init, InterruptMeansRemoved, AnsweredMeansSettled, SurvivorExists
<1> QED BY <1>1, <1>3, <1>4, <1>5 DEF IInv

\* Starting the service again leaves the directories and forgets the servers.
LEMMA InvRestart == ASSUME IInv, restart PROVE IInv'
<1>0. TypeOK
  BY DEF IInv
<1>1. TypeOK'
  <2>1. restarts' \in Nat
    BY <1>0 DEF TypeOK, restart
  <2>2. clean' \in [proc : Servers \cup {NoServer}, hadRunning : BOOLEAN,
                    ignored : Dirs \cup {NoDir}, victim : Dirs \cup {NoDir}]
    BY DEF restart, Idle
  <2>3. UNCHANGED <<exists, count, hasId, hooks, created, processed, discarded, undeleted>>
    BY DEF restart, histVars
  <2>4. /\ s_processes' = {} /\ s_dir_queue' = <<>> /\ pipe' = {} /\ orphans' = {}
        /\ procDir' = [s \in Servers |-> NoDir] /\ procType' = [s \in Servers |-> "UNKNOWN"]
        /\ pc' = [s \in Servers |-> "unused"] /\ dir' = [s \in Servers |-> NoDir]
        /\ sig' = [s \in Servers |-> {}] /\ outcome' = [s \in Servers |-> "none"]
        /\ event' = [s \in Servers |-> "none"] /\ dupOf' = [s \in Servers |-> NoDir]
    BY DEF restart
  <2>5. listening' \in BOOLEAN
    BY Zenon DEF restart
  <2>6. s_dir_queue' \in Seq(Servers)
    BY <2>4
  <2> QED BY <1>0, <2>1, <2>2, <2>3, <2>4, <2>5, <2>6 DEF TypeOK, PCs, Outcomes, Events
<1>2. \A s \in Servers :
        /\ ~Queued(s)' /\ sig'[s] = {} /\ pc'[s] = "unused" /\ dir'[s] = NoDir
        /\ outcome'[s] = "none" /\ event'[s] = "none" /\ s # clean'.proc
        /\ procType'[s] = "UNKNOWN" /\ s \notin pipe' /\ s \notin Processing'
  BY ServersAssumption DEF restart, Queued, Idle, Processing
<1>3. QueueInv' /\ TurnAtHead' /\ CleanInv'
  BY <1>2 DEF restart, QueueInv, TurnAtHead, CleanInv, Idle
<1>4. SignalInv' /\ ServerInv'
  BY <1>2 DEF restart, SignalInv, SignalOK, ServerInv, ServerOK
<1>5. UNCHANGED <<exists, created, discarded>>
  BY DEF restart, histVars
<1>6. DupInv'
  BY <1>2, <1>5 DEF IInv, DupInv, DupOK
<1>7. InterruptMeansRemoved' /\ AnsweredMeansSettled' /\ SurvivorExists'
  BY <1>2, <1>5 DEF IInv, InterruptMeansRemoved, AnsweredMeansSettled, SurvivorExists
<1> QED BY <1>1, <1>3, <1>4, <1>6, <1>7 DEF IInv

\* A hook saves a directory, or an orphaned event handler ends.
LEMMA InvHook == ASSUME IInv, NEW d \in Dirs, hook_saves_dir(d) \/ orphan_ends(d) PROVE IInv'
<1>0. /\ TypeOK /\ QueueInv /\ TurnAtHead /\ SignalInv /\ CleanInv /\ ServerInv /\ DupInv
      /\ InterruptMeansRemoved /\ AnsweredMeansSettled /\ SurvivorExists
  BY DEF IInv
<1> USE DEF hook_saves_dir, orphan_ends, abrtdVars, serverVars, eventVars, histVars
<1>1. TypeOK'
  <2>1. CASE hook_saves_dir(d)
    <3>1. hooks' \subseteq Dirs
      BY <1>0, <2>1 DEF TypeOK
    <3> QED BY <1>0, <2>1, <3>1 DEF TypeOK, AddDir
  <2>2. CASE orphan_ends(d)
    BY <1>0, <2>2 DEF TypeOK
  <2> QED BY <2>1, <2>2
<1>2. UNCHANGED <<s_processes, s_dir_queue, procDir, procType, clean, pc, dir, pipe, sig, outcome,
                  event, dupOf, count, discarded, undeleted>>
  OBVIOUS
<1>3. \/ exists' = exists /\ created' = created
      \/ exists' = exists \cup {d} /\ created' = created \cup {d} /\ d \notin created
  BY DEF AddDir
<1>4. \A t \in Servers : (Queued(t)' <=> Queued(t)) /\ (t \in Processing' <=> t \in Processing)
  BY <1>2 DEF Queued, Processing
<1> HIDE DEF hook_saves_dir, orphan_ends
<1>5. QueueInv' /\ TurnAtHead' /\ CleanInv'
  BY <1>0, <1>2 DEF QueueInv, TurnAtHead, CleanInv
<1>6. SignalInv'
  <2>1. ASSUME NEW t \in Servers PROVE SignalOK(t)'
    <3>1. SignalOK(t)
      BY <1>0 DEF SignalInv
    <3> QED BY <1>2, <1>4, <3>1 DEF SignalOK
  <2> QED BY <2>1 DEF SignalInv
<1>7. \A t \in Servers : dir[t] \in created => /\ dir[t] \in exists' <=> dir[t] \in exists
                                               /\ Settled(dir[t])' <=> Settled(dir[t])
  BY <1>2, <1>3 DEF Settled, Complete
<1>8. ServerInv'
  <2>1. ASSUME NEW t \in Servers PROVE ServerOK(t)'
    <3>1. ServerOK(t)
      BY <1>0 DEF ServerInv
    <3> QED BY <1>2, <1>3, <1>4, <1>7, <3>1 DEF ServerOK
  <2> QED BY <2>1 DEF ServerInv
<1>9. AnsweredMeansSettled' /\ InterruptMeansRemoved'
  BY <1>0, <1>2, <1>7 DEF AnsweredMeansSettled, LeftAlone, InterruptMeansRemoved, ServerInv,
                          ServerOK
<1>10. DupInv' /\ SurvivorExists'
  BY <1>0, <1>2, <1>3 DEF DupInv, DupOK, SurvivorExists
<1> QED BY <1>1, <1>5, <1>6, <1>8, <1>9, <1>10 DEF IInv

\* A hook trims the dump location.
LEMMA InvTrim == ASSUME IInv, NEW h \in Dirs, hook_trims(h) PROVE IInv'
<1>0. TypeOK /\ QueueInv /\ TurnAtHead /\ SignalInv /\ CleanInv /\ ServerInv
  BY DEF IInv
<1>1. /\ UNCHANGED <<s_processes, s_dir_queue, procDir, procType, listening, clean, restarts, pc,
                     dir, pipe, sig, outcome, event, dupOf, orphans, count, hasId,
                     created, processed, undeleted>>
      /\ hooks' \subseteq hooks
  BY DEF hook_trims, abrtdVars, serverVars, eventVars
<1>2. \/ \E d : Discard(d)
      \/ UNCHANGED <<exists, discarded>>
  BY DEF hook_trims
<1>3. \A t \in Servers : (Queued(t)' <=> Queued(t)) /\ (t \in Processing' <=> t \in Processing)
  BY <1>1 DEF Queued, Processing
<1>9. TypeOK'
  <2>1. exists' \subseteq Dirs /\ discarded' \subseteq Issues
    BY <1>0, <1>2, DiscardType DEF TypeOK
  <2> QED BY <1>0, <1>1, <2>1 DEF TypeOK
<1>4. DupInv' /\ SurvivorExists' /\ exists' \subseteq exists
  <2>1. ASSUME NEW d, Discard(d) PROVE DupInv' /\ SurvivorExists' /\ exists' \subseteq exists
    BY <1>1, <2>1, DiscardFacts
  <2>2. CASE UNCHANGED <<exists, discarded>>
    BY <1>1, <2>2 DEF IInv, DupInv, DupOK, SurvivorExists
  <2> QED BY <1>2, <2>1, <2>2
<1>8. /\ AnsweredMeansSettled' /\ InterruptMeansRemoved'
      /\ \A t \in Servers :
           /\ (pc[t] = "notify" => Settled(dir[t]))'
           /\ (pc[t] = "notify_dup" => dir[t] \notin exists \/ dir[t] \in undeleted)'
  BY <1>1, <1>4, AnswersKept
<1>5. QueueInv' /\ TurnAtHead' /\ CleanInv'
  BY <1>0, <1>1 DEF QueueInv, TurnAtHead, CleanInv
<1>6. SignalInv'
  <2>1. ASSUME NEW t \in Servers PROVE SignalOK(t)'
    <3>1. SignalOK(t)
      BY <1>0 DEF SignalInv
    <3> QED BY <1>1, <1>3, <3>1 DEF SignalOK
  <2> QED BY <2>1 DEF SignalInv
<1>7. ServerInv'
  <2>1. ASSUME NEW t \in Servers PROVE ServerOK(t)'
    <3>1. ServerOK(t)
      BY <1>0 DEF ServerInv
    <3> QED BY <1>1, <1>3, <1>8, <3>1 DEF ServerOK
  <2> QED BY <2>1 DEF ServerInv
<1> QED BY <1>4, <1>5, <1>6, <1>7, <1>8, <1>9 DEF IInv

\* Nothing happens.
LEMMA InvStutter == IInv /\ UNCHANGED vars => IInv'
<1> SUFFICES ASSUME IInv, UNCHANGED vars PROVE IInv'
  OBVIOUS
<1> USE DEF vars, abrtdVars, serverVars, eventVars, dumpVars, histVars
<1>1. TypeOK'
  BY DEF IInv, TypeOK
<1>2. QueueInv' /\ TurnAtHead' /\ CleanInv'
  BY DEF IInv, QueueInv, TurnAtHead, CleanInv
<1>3. SignalInv'
  BY DEF IInv, SignalInv, SignalOK, Queued, Processing
<1>4. ServerInv'
  BY DEF IInv, ServerInv, ServerOK, Queued, Settled, Complete
<1>5. DupInv' /\ InterruptMeansRemoved' /\ SurvivorExists'
  BY DEF IInv, DupInv, DupOK, InterruptMeansRemoved, SurvivorExists
<1>6. AnsweredMeansSettled'
  BY DEF IInv, AnsweredMeansSettled, LeftAlone, Settled, Complete
<1> QED BY <1>1, <1>2, <1>3, <1>4, <1>5, <1>6 DEF IInv

\* Every step keeps the inductive invariant.
LEMMA InvNext == IInv /\ [Next]_vars => IInv'
<1> SUFFICES ASSUME IInv, [Next]_vars PROVE IInv'
  OBVIOUS
<1>1. CASE Abrtd
  BY <1>1, InvSocket, InvOutput, InvRemove, InvClean, InvDelete, InvConsider DEF Abrtd
<1>2. ASSUME NEW s \in Servers, Request(s) \/ Serve(s) \/ crash(s) PROVE IInv'
  BY <1>2, InvServer
<1>3. ASSUME NEW d \in Dirs, hook_saves_dir(d) \/ hook_trims(d) \/ orphan_ends(d) PROVE IInv'
  BY <1>3, InvHook, InvTrim
<1>4. CASE restart
  BY <1>4, InvRestart
<1>5. CASE UNCHANGED vars
  BY <1>5, InvStutter
<1> QED BY <1>1, <1>2, <1>3, <1>4, <1>5 DEF Next

-----------------------------------------------------------------------------
(* The theorems *)

\* The invariant holds in every reachable state.
THEOREM Invariance == Spec => []IInv
  BY InvInit, InvNext, PTL DEF Spec

\* Every variable keeps its type.
THEOREM TypeCorrect == Spec => []TypeOK
<1>1. IInv => TypeOK
  BY DEF IInv
<1> QED BY <1>1, Invariance, PTL

\* abrt-server.c:337: at most one abrt-server is past the wait of
\* run_post_create(), through cleaning, crashes, exits in any order and
\* restarts.
THEOREM MutualExclusion == Spec => []AtMostOneProcessing
<1>1. IInv => AtMostOneProcessing
  BY Mutex DEF IInv
<1> QED BY <1>1, Invariance, PTL

\* The head of abrtd's queue, and nobody else in it, has been told to go on: no
\* exit or removal leaves the queue without a turn.
THEOREM QueueNeverStalls == Spec => []TurnAtHead
<1>1. IInv => TurnAtHead
  BY DEF IInv
<1> QED BY <1>1, Invariance, PTL

\* A server is signalled only with its handlers installed, and never with both
\* signals.
THEOREM SignalSafety == Spec => []SignalsSafe
<1>1. IInv => SignalsSafe
  BY DEF IInv, SignalInv, SignalOK, SignalsSafe
<1> QED BY <1>1, Invariance, PTL

\* abrt-server.c:375: a server is interrupted only when its directory is gone, is
\* being deleted by abrtd, or could not be deleted.
THEOREM InterruptSafety == Spec => []InterruptMeansRemoved
<1>1. IInv => InterruptMeansRemoved
  BY DEF IInv
<1> QED BY <1>1, Invariance, PTL

\* run_post_create() never ends with a directory that is neither gone nor
\* counted, but for the refusals that leave it alone, a deletion that failed and
\* the one in progress.
THEOREM AnswerSafety == Spec => []AnsweredMeansSettled
<1>1. IInv => AnsweredMeansSettled
  BY DEF IInv
<1> QED BY <1>1, Invariance, PTL

\* Merging duplicates never loses a problem: no two occurrences are deleted as
\* duplicates of each other.
THEOREM ProblemNotLost == Spec => []SurvivorExists
<1>1. IInv => SurvivorExists
  BY DEF IInv
<1> QED BY <1>1, Invariance, PTL

\* abrtd's own cleaning spares the directory that is being processed.
THEOREM RunningSpared == Spec => CleaningSparesRunning
<1> DEFINE Spares == delete_worst_dir
                       => \A s \in Processing : dir[s] \in exists => dir[s] \in exists'
<1>1. IInv => Spares
  <2> SUFFICES ASSUME IInv, delete_worst_dir, NEW s \in Processing, dir[s] \in exists
               PROVE  dir[s] \in exists'
    OBVIOUS
  <2>1. /\ Delete(clean.victim) /\ ~InMainLoop /\ clean.victim # clean.ignored
    BY DEF delete_worst_dir, IInv, CleanInv, Idle
  <2>2. s \in Servers /\ s_dir_queue # <<>> /\ s = Head(s_dir_queue)
    BY ProcessingAtHead DEF IInv
  <2>3. 1 \in DOMAIN s_dir_queue /\ s = s_dir_queue[1]
    BY <2>2 DEF IInv, TypeOK
  <2>4. clean.ignored = dir[s]
    BY <2>1, <2>2, <2>3 DEF IInv, CleanInv, QueueInv
  <2> QED BY <2>1, <2>4 DEF Delete, Discard
<1> QED BY <1>1, Invariance, PTL DEF CleaningSparesRunning

\* The socket is watched exactly while another client fits.
THEOREM SocketSafety == Spec => []SocketWatched
<1>1. Init => SocketWatched
  <2>1. Cardinality({}) = 0
    BY FS_EmptySet
  <2> QED BY <2>1, LimitsAssumption DEF Init, SocketWatched
<1>2. IInv /\ SocketWatched /\ [Next]_vars => SocketWatched'
  <2> SUFFICES ASSUME IInv, SocketWatched, [Next]_vars PROVE SocketWatched'
    OBVIOUS
  <2>1. CASE UNCHANGED <<listening, s_processes>>
    BY <2>1 DEF SocketWatched
  <2>2. ASSUME NEW s \in Servers, server_socket_cb(s) PROVE SocketWatched'
    BY <2>2, Zenon DEF server_socket_cb, SocketWatched
  <2>3. ASSUME NEW s \in Servers, remove_abrt_server_proc(s) PROVE SocketWatched'
    <3>1. IsFiniteSet(s_processes)
      BY ServersAssumption, FS_Subset DEF IInv, TypeOK
    <3>2. s_processes' \subseteq s_processes
      BY <2>3 DEF remove_abrt_server_proc
    <3>3. /\ Cardinality(s_processes) \in Nat /\ Cardinality(s_processes') \in Nat
          /\ Cardinality(s_processes') <= Cardinality(s_processes)
      BY <3>1, <3>2, FS_Subset, FS_CardinalityType
    <3>4. Cardinality(s_processes) < MaxClientCount => Cardinality(s_processes') < MaxClientCount
      BY <3>3, LimitsAssumption
    <3>5. listening' <=> (listening \/ Cardinality(s_processes') < MaxClientCount)
      BY <2>3, Zenon DEF remove_abrt_server_proc
    <3> QED BY <3>4, <3>5, Zenon DEF SocketWatched
  <2>4. CASE restart
    <3>1. Cardinality(s_processes') = 0
      BY <2>4, FS_EmptySet DEF restart
    <3>2. Cardinality(s_processes') < MaxClientCount
      BY <3>1, LimitsAssumption
    <3>3. listening'
      BY <2>4, Zenon DEF restart
    <3> QED BY <3>2, <3>3 DEF SocketWatched
  <2>5. ASSUME NEW s \in Servers, Request(s) \/ Serve(s) \/ crash(s)
        PROVE  UNCHANGED <<listening, s_processes>>
    BY <2>5, FrameServer DEF Frame, IInv
  <2>6. ASSUME NEW s \in Servers, abrt_server_output_cb(s) \/ abrt_server_output_hup(s)
        PROVE  UNCHANGED <<listening, s_processes>>
    BY <2>6 DEF abrt_server_output_cb, abrt_server_output_hup, abrtdVars
  <2>7. ASSUME NEW d \in Dirs, clean_worst_dir(d) PROVE UNCHANGED <<listening, s_processes>>
    BY <2>7 DEF clean_worst_dir, clean_new_dir, clean_unprocessed_dir, clean_old_dir
  <2>11. CASE delete_worst_dir
    BY <2>1, <2>11 DEF delete_worst_dir
  <2>8. CASE consider_processing
    BY <2>1, <2>8 DEF consider_processing
  <2>9. ASSUME NEW d \in Dirs, hook_saves_dir(d) \/ hook_trims(d) \/ orphan_ends(d)
        PROVE  UNCHANGED <<listening, s_processes>>
    BY <2>9 DEF hook_saves_dir, hook_trims, orphan_ends, abrtdVars
  <2>10. CASE UNCHANGED vars
    BY <2>1, <2>10 DEF vars, abrtdVars
  <2> QED BY <2>1, <2>2, <2>3, <2>4, <2>5, <2>6, <2>7, <2>8, <2>9, <2>10, <2>11
         DEF Next, Abrtd
<1> QED BY <1>1, <1>2, Invariance, PTL DEF Spec

-----------------------------------------------------------------------------
(* Event handlers, as long as no server dies *)

\* As long as no server dies no event handler is left without one.
LEMMA NoOrphans == Spec => [](~MayCrash => orphans = {})
<1>1. Init => (~MayCrash => orphans = {})
  BY DEF Init
<1>2. (~MayCrash => orphans = {}) /\ [Next]_vars => (~MayCrash => orphans = {})'
  <2> SUFFICES ASSUME ~MayCrash, orphans = {}, [Next]_vars PROVE orphans' = {}
    OBVIOUS
  <2> USE DEF eventVars
  <2>1. CASE Abrtd
    BY <2>1 DEF Abrtd, server_socket_cb, abrt_server_output_cb, abrt_server_output_hup,
                remove_abrt_server_proc, clean_worst_dir, clean_new_dir, clean_unprocessed_dir,
                clean_old_dir, delete_worst_dir, consider_processing
  <2>2. ASSUME NEW s \in Servers, Request(s) PROVE orphans' = {}
    BY <2>2 DEF Request, reject_request, delete_path, create_problem_dir, creation_notification
  <2>3. ASSUME NEW s \in Servers, Serve(s) PROVE orphans' = {}
    BY <2>3 DEF Serve, trim_problem_dirs, refuse_dir, delete_provoked_dir, keep_provoked_dir,
                emit_new_problem_signal, spawn_post_create, interrupted, run_event, run_event_fails, no_duplicate,
                is_crash_a_dup, post_create_failed, count_new_problem, count_duplicate,
                delete_bad_dir, delete_dup_dir, notified
  <2>4. ASSUME NEW s \in Servers, crash(s) PROVE FALSE
    BY <2>4 DEF crash
  <2>5. ASSUME NEW d \in Dirs, hook_saves_dir(d) \/ hook_trims(d) \/ orphan_ends(d)
        PROVE  orphans' = {}
    BY <2>5 DEF hook_saves_dir, hook_trims, orphan_ends
  <2>6. CASE restart
    BY <2>6 DEF restart
  <2>7. CASE UNCHANGED vars
    BY <2>7 DEF vars
  <2> QED BY <2>1, <2>2, <2>3, <2>4, <2>5, <2>6, <2>7 DEF Next
<1> QED BY <1>1, <1>2, PTL DEF Spec

\* abrt-server.c:337 for the event handlers: unless an abrt-server dies, no two
\* post-create events run at the same time.
THEOREM EventsSerialised == Spec => [](~MayCrash => EventsNotConcurrent)
<1> DEFINE Running == {s \in Servers : event[s] \in {"running", "scanning"}}
<1>1. IInv /\ orphans = {} => EventsNotConcurrent
  <2> SUFFICES ASSUME IInv, orphans = {} PROVE EventsNotConcurrent
    OBVIOUS
  <2>1. \A s, t \in Running : s = t
    <3>1. Running \subseteq Processing
      BY DEF IInv, ServerInv, ServerOK, Processing
    <3> QED BY <3>1, Mutex DEF IInv, AtMostOneProcessing
  <2> HIDE DEF Running
  <2>2. Cardinality(orphans) = 0
    BY FS_EmptySet
  <2>3. Cardinality(Running) \in {0, 1}
    <3>1. CASE Running = {}
      BY <3>1, FS_EmptySet
    <3>2. CASE Running # {}
      <4>1. PICK s : Running = {s}
        BY <2>1, <3>2
      <4> QED BY <4>1, FS_Singleton
    <3> QED BY <3>1, <3>2
  <2> QED BY <2>2, <2>3 DEF EventsNotConcurrent, Running
<1>2. IInv /\ (~MayCrash => orphans = {}) => (~MayCrash => EventsNotConcurrent)
  BY <1>1
<1> QED BY <1>2, NoOrphans, Invariance, PTL

-----------------------------------------------------------------------------
(* abrtd's queue implements TurnQueue *)

\* The turn is at the head of the queue.
LEMMA HolderFacts ==
    IInv => TurnHolder = IF s_dir_queue = <<>> THEN NoServer ELSE Head(s_dir_queue)
<1> SUFFICES ASSUME IInv
             PROVE  TurnHolder = IF s_dir_queue = <<>> THEN NoServer ELSE Head(s_dir_queue)
  OBVIOUS
<1>1. CASE s_dir_queue = <<>>
  BY <1>1 DEF TurnHolder, Queued
<1>2. CASE s_dir_queue # <<>>
  <2>1. /\ 1 \in DOMAIN s_dir_queue /\ Head(s_dir_queue) = s_dir_queue[1]
        /\ Head(s_dir_queue) \in Servers
    BY <1>2 DEF IInv, TypeOK
  <2>2. Queued(Head(s_dir_queue)) /\ procType[Head(s_dir_queue)] = "POST_CREATE"
    BY <2>1 DEF IInv, TurnAtHead, Queued
  <2>3. ASSUME NEW s \in Servers, Queued(s), procType[s] = "POST_CREATE"
        PROVE  s = Head(s_dir_queue)
    BY <2>1, <2>3 DEF IInv, TurnAtHead, Queued
  <2> HIDE DEF Queued
  <2> QED BY <1>2, <2>1, <2>2, <2>3, Zenon DEF TurnHolder
<1> QED BY <1>1, <1>2

\* So it is after a step.
LEMMA HolderPrimed ==
    IInv' => (TurnHolder = IF s_dir_queue = <<>> THEN NoServer ELSE Head(s_dir_queue))'
  BY HolderFacts, PTL

\* What a step does to the queue: at most one process joins or leaves it, unless
\* the service starts again.
LEMMA QueueStep ==
    ASSUME IInv, [Next]_vars
    PROVE  \/ s_dir_queue' = s_dir_queue
           \/ s_dir_queue' = <<>>
           \/ \E p \in Servers : ~Queued(p) /\ s_dir_queue' = Append(s_dir_queue, p)
           \/ \E i \in DOMAIN s_dir_queue : s_dir_queue' = RemoveAt(s_dir_queue, i)
<1>1. ASSUME NEW s \in Servers, Request(s) \/ Serve(s) \/ crash(s)
      PROVE  s_dir_queue' = s_dir_queue
  BY <1>1, FrameServer DEF Frame, IInv
<1>2. ASSUME NEW s \in Servers, \/ server_socket_cb(s) \/ abrt_server_output_cb(s)
                                \/ abrt_server_output_hup(s)
      PROVE  s_dir_queue' = s_dir_queue
  BY <1>2 DEF server_socket_cb, abrt_server_output_cb, abrt_server_output_hup, abrtdVars
<1>3. ASSUME NEW s \in Servers, remove_abrt_server_proc(s)
      PROVE  \/ s_dir_queue' = s_dir_queue
             \/ \E i \in DOMAIN s_dir_queue : s_dir_queue' = RemoveAt(s_dir_queue, i)
  BY <1>3, WithoutFacts DEF remove_abrt_server_proc
<1>4. ASSUME NEW d \in Dirs, clean_worst_dir(d)
      PROVE  \/ s_dir_queue' = s_dir_queue
             \/ \E i \in DOMAIN s_dir_queue : s_dir_queue' = RemoveAt(s_dir_queue, i)
  BY <1>4 DEF clean_worst_dir, clean_new_dir, clean_unprocessed_dir, clean_old_dir
<1>9. delete_worst_dir => s_dir_queue' = s_dir_queue
  BY DEF delete_worst_dir
<1>5. ASSUME consider_processing
      PROVE  \/ s_dir_queue' = s_dir_queue
             \/ \E p \in Servers : ~Queued(p) /\ s_dir_queue' = Append(s_dir_queue, p)
  <2>1. clean.proc # NoServer => clean.proc \in Servers /\ ~Queued(clean.proc)
    <3>1. clean.proc \in Servers \cup {NoServer}
      BY DEF IInv, TypeOK
    <3> QED BY <3>1 DEF IInv, SignalInv, SignalOK
  <2> QED BY <1>5, <2>1 DEF consider_processing
<1>6. ASSUME NEW d \in Dirs, hook_saves_dir(d) \/ hook_trims(d) \/ orphan_ends(d)
      PROVE  s_dir_queue' = s_dir_queue
  BY <1>6 DEF hook_saves_dir, hook_trims, orphan_ends, abrtdVars
<1>7. restart => s_dir_queue' = <<>>
  BY DEF restart
<1>8. UNCHANGED vars => s_dir_queue' = s_dir_queue
  BY DEF vars, abrtdVars
<1> QED BY <1>1, <1>2, <1>3, <1>4, <1>5, <1>6, <1>7, <1>8, <1>9 DEF Next, Abrtd

\* abrtd with its signals implements the line of TurnQueue: the turn is passed
\* to one process at a time, in the order in which the processes asked.
THEOREM QueueImplementsTurns == Spec => ImplementsTurnQueue
<1>1. Init => Turns!Init
  BY InvInit, HolderFacts DEF Init, Turns!Init
<1>2. IInv /\ IInv' /\ [Next]_vars => [Turns!Next]_<<s_dir_queue, TurnHolder>>
  <2> SUFFICES ASSUME IInv, IInv', [Next]_vars
               PROVE  [Turns!Next]_<<s_dir_queue, TurnHolder>>
    OBVIOUS
  <2> DEFINE q == s_dir_queue
             r == s_dir_queue'
  <2>1. /\ TurnHolder = IF q = <<>> THEN NoServer ELSE Head(q)
        /\ TurnHolder' = IF r = <<>> THEN NoServer ELSE Head(r)
    <3>1. TurnHolder = IF q = <<>> THEN NoServer ELSE Head(q)
      BY HolderFacts
    <3>2. TurnHolder' = IF r = <<>> THEN NoServer ELSE Head(r)
      BY HolderPrimed
    <3> QED BY <3>1, <3>2
  <2>2. q \in Seq(Servers) /\ r \in Seq(Servers)
    BY DEF IInv, TypeOK
  <2>3. CASE r = q
    BY <2>1, <2>3
  <2>4. CASE r = <<>>
    BY <2>1, <2>4 DEF Turns!Next, Turns!Collapse
  <2>5. ASSUME NEW p \in Servers, ~Queued(p), r = Append(q, p) PROVE Turns!Next
    <3>1. p \notin Turns!InLine
      BY <2>5 DEF Turns!InLine, Queued
    <3>2. TurnHolder' = IF q = <<>> THEN p ELSE TurnHolder
      BY <2>1, <2>2, <2>5
    <3>3. Turns!Join(p)
      BY <2>5, <3>1, <3>2 DEF Turns!Join
    <3> QED BY <3>3 DEF Turns!Next
  <2>6. ASSUME NEW i \in DOMAIN q, r = RemoveAt(q, i) PROVE Turns!Next
    <3>1. r = Turns!Dropped(q, i)
      BY <2>6 DEF RemoveAt, Turns!Dropped
    <3>2. /\ i \in 1..Len(q) /\ Len(q) \in Nat /\ Len(r) = Len(q) - 1 /\ q # <<>>
          /\ \A j \in 1..(Len(q) - 1) : r[j] = IF j < i THEN q[j] ELSE q[j + 1]
      BY <2>2, <2>6, RemoveAtFacts
    <3> HIDE DEF q, r
    <3>3. CASE i = 1
      <4>1. TurnHolder' = IF Len(q) > 1 THEN q[2] ELSE NoServer
        BY <2>1, <2>2, <3>2, <3>3
      <4>2. TurnHolder = Head(q)
        BY <2>1, <3>2
      <4> QED BY <3>1, <3>2, <3>3, <4>1, <4>2 DEF Turns!Next, Turns!Finish, q, r
    <3>4. CASE i # 1
      <4>1. TurnHolder' = TurnHolder
        BY <2>1, <2>2, <3>2, <3>4
      <4>2. i > 1
        BY <3>2, <3>4
      <4>3. Turns!GiveUp(i)
        BY <2>6, <3>1, <4>1, <4>2 DEF Turns!GiveUp, q, r
      <4> QED BY <2>6, <4>3 DEF Turns!Next, q
    <3> QED BY <3>3, <3>4
  <2> QED BY <2>3, <2>4, <2>5, <2>6, QueueStep
<1> QED BY <1>1, <1>2, Invariance, PTL DEF Spec, ImplementsTurnQueue, Turns!Spec

-----------------------------------------------------------------------------
(* No server waits for a signal that was forgotten: the safety behind the
   liveness of the queue *)

\* A waiting server's line is unread, handled right now, or led to a place in the
\* queue or to SIGINT; and the one that has the turn was sent SIGUSR1.
WaitOK(s) ==
    /\ pc[s] = "wait" => s \in pipe \/ s = clean.proc \/ Queued(s) \/ "INT" \in sig[s]
    /\ procType[s] = "POST_CREATE" => "USR1" \in sig[s]

WaitInv == \A s \in Servers : WaitOK(s)

\* A server that waits in run_post_create() for a signal of abrtd has it already,
\* is about to be handled, or is in the queue behind one that was sent SIGUSR1 and
\* goes on, or ended and is not reaped yet.
WaitNotForgotten ==
    \A s \in Servers : pc[s] = "wait" =>
        \/ s \in pipe \/ s = clean.proc \/ sig[s] # {}
        \/ \E t \in Processing \cup {u \in Servers : pc[u] \in {"wait", "exited"}} :
             /\ t # s /\ Queued(s) /\ t = Head(s_dir_queue)
             /\ "USR1" \in sig[t]

\* Nothing of it changes for a server.
LEMMA WaitSame ==
    ASSUME NEW s \in Servers, WaitOK(s), pc'[s] = pc[s], s \in pipe' <=> s \in pipe,
           s = clean'.proc <=> s = clean.proc, Queued(s)' <=> Queued(s),
           procType'[s] = procType[s], sig'[s] = sig[s]
    PROVE  WaitOK(s)'
  BY DEF WaitOK

\* A server's own steps.
LEMMA WaitServer ==
    ASSUME IInv, WaitInv, NEW s \in Servers, Request(s) \/ Serve(s) \/ crash(s)
    PROVE  WaitInv'
<1>1. Frame(s) /\ Moves(s) /\ TypeOK
  BY FrameServer, LocalServer DEF IInv
<1>2. ASSUME NEW t \in Servers PROVE Queued(t)' <=> Queued(t)
  BY <1>1 DEF Frame, Queued
<1>3. ASSUME NEW t \in Servers \ {s} PROVE WaitOK(t)'
  <2>1. WaitOK(t) /\ (t = clean'.proc <=> t = clean.proc)
    BY <1>1 DEF WaitInv, Frame
  <2> QED BY <1>1, <1>2, <2>1, WaitSame DEF Frame
<1>4. pc[s] = "check" /\ pc'[s] = "wait" => s \in pipe'
  <2> SUFFICES ASSUME pc[s] = "check", pc'[s] = "wait" PROVE s \in pipe'
    OBVIOUS
  <2>0. pc \in [Servers -> PCs]
    BY <1>1 DEF TypeOK
  <2>1. ~Request(s)
    BY DEF Request, reject_request, delete_path, create_problem_dir, creation_notification
  <2>2. ~crash(s)
    BY <2>0 DEF crash, Exit
  <2>3. /\ ~refuse_dir(s) /\ ~delete_provoked_dir(s) /\ ~keep_provoked_dir(s)
        /\ ~interrupted(s) /\ ~notified(s)
    BY <2>0 DEF refuse_dir, delete_provoked_dir, keep_provoked_dir, interrupted, notified, Exit
  <2>4. ~trim_problem_dirs(s) /\ ~spawn_post_create(s) /\ ~post_create_failed(s)
        /\ ~count_new_problem(s) /\ ~count_duplicate(s) /\ ~delete_bad_dir(s) /\ ~delete_dup_dir(s)
    BY DEF trim_problem_dirs, spawn_post_create, post_create_failed, count_new_problem,
           count_duplicate, delete_bad_dir, delete_dup_dir
  <2>5. ~run_event(s) /\ ~run_event_fails(s) /\ ~no_duplicate(s) /\ \A e \in Dirs : ~is_crash_a_dup(s, e)
    BY DEF run_event, run_event_fails, no_duplicate, is_crash_a_dup, serverVars
  <2>6. emit_new_problem_signal(s)
    BY <2>1, <2>2, <2>3, <2>4, <2>5 DEF Serve
  <2> QED BY <2>6 DEF emit_new_problem_signal
<1>5. WaitOK(s)'
  <2>1. WaitOK(s) /\ procType' = procType /\ sig' = sig /\ clean' = clean
    BY <1>1 DEF WaitInv, Frame
  <2>2. CASE Local(s)
    BY <1>4, <2>1, <2>2 DEF WaitOK, Local
  <2>3. CASE pc'[s] = pc[s] /\ pipe' = pipe
    BY <1>2, <2>1, <2>3, WaitSame
  <2> QED BY <1>1, <2>2, <2>3 DEF Moves
<1> QED BY <1>3, <1>5 DEF WaitInv

\* abrtd reads the line of a server, or finds its pipe closed, or forks one.
LEMMA WaitOutput ==
    ASSUME IInv, WaitInv, NEW s \in Servers,
           server_socket_cb(s) \/ abrt_server_output_cb(s) \/ abrt_server_output_hup(s)
    PROVE  WaitInv'
<1>1. TypeOK /\ clean = Idle /\ s_dir_queue' = s_dir_queue /\ sig' = sig
  BY DEF IInv, CleanInv, server_socket_cb, abrt_server_output_cb, abrt_server_output_hup, abrtdVars
<1>2. ASSUME NEW t \in Servers PROVE Queued(t)' <=> Queued(t)
  BY <1>1 DEF Queued
<1>3. ASSUME NEW t \in Servers PROVE t # clean.proc /\ WaitOK(t)
  BY <1>1, ServersAssumption DEF Idle, WaitInv
<1>4. CASE server_socket_cb(s)
  <2>1. /\ pc' = [pc EXCEPT ![s] = "request"] /\ procType' = [procType EXCEPT ![s] = "UNKNOWN"]
        /\ pipe' = pipe /\ clean' = clean
    BY <1>4 DEF server_socket_cb
  <2>2. ASSUME NEW t \in Servers \ {s} PROVE WaitOK(t)'
    BY <1>1, <1>2, <1>3, <2>1, WaitSame DEF TypeOK
  <2>3. WaitOK(s)'
    BY <1>1, <2>1 DEF TypeOK, WaitOK
  <2> QED BY <2>2, <2>3 DEF WaitInv
<1>5. CASE abrt_server_output_cb(s)
  <2>1. pc' = pc /\ procType' = procType /\ pipe' = pipe \ {s} /\ clean'.proc = s
    BY <1>5 DEF abrt_server_output_cb
  <2>2. ASSUME NEW t \in Servers \ {s} PROVE WaitOK(t)'
    BY <1>1, <1>2, <1>3, <2>1, WaitSame
  <2>3. WaitOK(s)'
    BY <1>1, <1>3, <2>1 DEF WaitOK
  <2> QED BY <2>2, <2>3 DEF WaitInv
<1>6. CASE abrt_server_output_hup(s)
  <2>1. pc' = pc /\ procType' = procType /\ pipe' = pipe \ {s} /\ clean' = clean /\ pc[s] = "exited"
    BY <1>6 DEF abrt_server_output_hup, abrtdVars
  <2>2. ASSUME NEW t \in Servers \ {s} PROVE WaitOK(t)'
    BY <1>1, <1>2, <1>3, <2>1, WaitSame
  <2>3. WaitOK(s)'
    BY <1>1, <1>3, <2>1 DEF WaitOK
  <2> QED BY <2>2, <2>3 DEF WaitInv
<1> QED BY <1>4, <1>5, <1>6

\* abrtd cleans the dump location: who leaves the queue is sent SIGINT, and the one
\* that has the turn does not leave it.
LEMMA WaitClean == ASSUME IInv, WaitInv, NEW d \in Dirs, clean_worst_dir(d) PROVE WaitInv'
<1>0. TypeOK /\ QueueInv /\ TurnAtHead /\ CleanInv
  BY DEF IInv
<1>1. UNCHANGED <<pc, pipe, procType>>
  BY DEF clean_worst_dir, clean_new_dir, clean_unprocessed_dir, clean_old_dir, serverVars
<1>2. CASE clean_old_dir(d)
  <2>1. UNCHANGED <<sig, s_dir_queue>> /\ clean'.proc = clean.proc
    BY <1>0, <1>2 DEF clean_old_dir, serverVars, TypeOK
  <2> QED BY <1>1, <2>1 DEF WaitInv, WaitOK, Queued
<1>3. CASE clean_new_dir(d)
  <2>1. /\ s_dir_queue' = s_dir_queue /\ clean.proc \in Servers
        /\ \A t \in Servers : sig'[t] = IF t = clean.proc THEN sig[t] \cup {"INT"} ELSE sig[t]
    BY <1>0, <1>3 DEF clean_new_dir, IsNew, Signalled, TypeOK
  <2>2. ASSUME NEW t \in Servers PROVE WaitOK(t)'
    <3>1. WaitOK(t) /\ (Queued(t)' <=> Queued(t)) /\ sig[t] \subseteq sig'[t]
      BY <2>1 DEF WaitInv, Queued
    <3>2. t = clean.proc => "INT" \in sig'[t]
      BY <2>1
    <3> QED BY <1>1, <3>1, <3>2 DEF WaitOK
  <2> QED BY <2>2 DEF WaitInv
<1>4. ASSUME NEW i \in DOMAIN s_dir_queue, clean_unprocessed_dir(d, i) PROVE WaitInv'
  <2>1. /\ s_dir_queue' = RemoveAt(s_dir_queue, i) /\ clean'.proc = clean.proc
        /\ \A t \in Servers : sig'[t] = IF t = s_dir_queue[i] THEN sig[t] \cup {"INT"} ELSE sig[t]
    BY <1>0, <1>4 DEF clean_unprocessed_dir, Signalled, TypeOK
  <2>2. ASSUME NEW t \in Servers PROVE WaitOK(t)'
    <3>1. WaitOK(t) /\ sig[t] \subseteq sig'[t] /\ (t = s_dir_queue[i] => "INT" \in sig'[t])
      BY <2>1 DEF WaitInv
    <3>2. Queued(t)' <=> (Queued(t) /\ t # s_dir_queue[i])
      BY <1>0, <1>4, <2>1, QueueRemoval
    <3> QED BY <1>1, <2>1, <3>1, <3>2 DEF WaitOK
  <2> QED BY <2>2 DEF WaitInv
<1> QED BY <1>2, <1>3, <1>4 DEF clean_worst_dir

\* The new process joins the queue, and has the turn if it is alone in it.
LEMMA WaitConsider == ASSUME IInv, WaitInv, consider_processing PROVE WaitInv'
<1>0. /\ TypeOK /\ clean.proc \in Servers \cup {NoServer} /\ s_dir_queue \in Seq(Servers)
      /\ UNCHANGED <<pc, pipe>>
  BY DEF IInv, TypeOK, consider_processing
<1>1. s_dir_queue' = IF clean.proc = NoServer THEN s_dir_queue ELSE Append(s_dir_queue, clean.proc)
  BY DEF consider_processing
<1>2. ASSUME NEW t \in Servers, Queued(t) \/ t = clean.proc PROVE Queued(t)'
  <2>1. CASE clean.proc = NoServer
    BY <1>1, <1>2, <2>1, ServersAssumption DEF Queued
  <2>2. CASE clean.proc # NoServer
    <3>1. /\ DOMAIN s_dir_queue' = 1..(Len(s_dir_queue) + 1) /\ Len(s_dir_queue) \in Nat
          /\ DOMAIN s_dir_queue = 1..Len(s_dir_queue)
          /\ s_dir_queue'[Len(s_dir_queue) + 1] = clean.proc
          /\ \A i \in 1..Len(s_dir_queue) : s_dir_queue'[i] = s_dir_queue[i]
      BY <1>0, <1>1, <2>2
    <3>2. Len(s_dir_queue) + 1 \in DOMAIN s_dir_queue' /\ DOMAIN s_dir_queue \subseteq DOMAIN s_dir_queue'
      BY <3>1
    <3> QED BY <1>2, <3>1, <3>2 DEF Queued
  <2> QED BY <2>1, <2>2
<1>3. ASSUME NEW t \in Servers
      PROVE  sig[t] \subseteq sig'[t] /\ (procType'[t] = "POST_CREATE" => procType[t] = "POST_CREATE" \/ "USR1" \in sig'[t])
  BY DEF consider_processing, PassTurn, Signalled
<1>4. ASSUME NEW t \in Servers PROVE WaitOK(t)'
  <2>1. WaitOK(t)
    BY DEF WaitInv
  <2> QED BY <1>0, <1>2, <1>3, <2>1 DEF WaitOK
<1> QED BY <1>4 DEF WaitInv

\* A child is reaped: it leaves the queue, and if it had the turn the next has it.
LEMMA WaitRemove == ASSUME IInv, WaitInv, NEW s \in Servers, remove_abrt_server_proc(s) PROVE WaitInv'
<1>0. TypeOK /\ QueueInv
  BY DEF IInv
<1>1. /\ pc' = [pc EXCEPT ![s] = "unused"] /\ pipe' = pipe \ {s} /\ clean' = clean
      /\ s_dir_queue' = Without(s_dir_queue, s)
  BY DEF remove_abrt_server_proc
<1>2. ASSUME NEW t \in Servers \ {s}, Queued(t) PROVE Queued(t)'
  <2>1. CASE s_dir_queue' = s_dir_queue
    BY <1>2, <2>1 DEF Queued
  <2>2. ASSUME NEW i \in DOMAIN s_dir_queue, s_dir_queue[i] = s, s_dir_queue' = RemoveAt(s_dir_queue, i)
        PROVE  Queued(t)'
    BY <1>0, <1>2, <2>2, QueueRemoval
  <2> QED BY <1>1, <2>1, <2>2, WithoutFacts
<1>3. procType'[s] = "UNKNOWN" /\ pc'[s] = "unused"
  BY <1>0, <1>1 DEF remove_abrt_server_proc, TypeOK
<1>4. ASSUME NEW t \in Servers \ {s}
      PROVE  sig[t] \subseteq sig'[t] /\ (procType'[t] = "POST_CREATE" => procType[t] = "POST_CREATE" \/ "USR1" \in sig'[t])
  BY DEF remove_abrt_server_proc, Signalled
<1>5. ASSUME NEW t \in Servers \ {s} PROVE WaitOK(t)'
  <2>1. WaitOK(t) /\ pc'[t] = pc[t] /\ (t \in pipe' <=> t \in pipe)
    BY <1>0, <1>1 DEF WaitInv, TypeOK
  <2> QED BY <1>1, <1>2, <1>4, <2>1 DEF WaitOK
<1>6. WaitOK(s)'
  BY <1>3 DEF WaitOK
<1> QED BY <1>5, <1>6 DEF WaitInv

\* abrtd never forgets a server that waits for it, however the announcements, the
\* cleaning, the deaths of servers and restarts of the service interleave.
THEOREM NoServerForgotten == Spec => []WaitNotForgotten
<1>1. Init => WaitInv
  BY DEF Init, WaitInv, WaitOK
<1>2. IInv /\ WaitInv /\ [Next]_vars => WaitInv'
  <2> SUFFICES ASSUME IInv, WaitInv, [Next]_vars PROVE WaitInv'
    OBVIOUS
  <2>1. CASE Abrtd
    <3>1. CASE delete_worst_dir
      <4>1. UNCHANGED <<pc, pipe, sig, procType, s_dir_queue>> /\ clean'.proc = clean.proc
        BY <3>1 DEF delete_worst_dir, serverVars, IInv, TypeOK
      <4> QED BY <4>1 DEF WaitInv, WaitOK, Queued
    <3> QED BY <2>1, <3>1, WaitOutput, WaitClean, WaitConsider, WaitRemove DEF Abrtd
  <2>2. ASSUME NEW d \in Dirs, hook_saves_dir(d) \/ hook_trims(d) \/ orphan_ends(d)
        PROVE  UNCHANGED <<pc, pipe, sig, procType, clean, s_dir_queue>>
    BY <2>2 DEF hook_saves_dir, hook_trims, orphan_ends, abrtdVars, serverVars
  <2>3. UNCHANGED vars => UNCHANGED <<pc, pipe, sig, procType, clean, s_dir_queue>>
    BY DEF vars, abrtdVars, serverVars
  <2>4. CASE UNCHANGED <<pc, pipe, sig, procType, clean, s_dir_queue>>
    BY <2>4 DEF WaitInv, WaitOK, Queued
  <2>5. CASE restart
    BY <2>5 DEF restart, WaitInv, WaitOK
  <2> QED BY <2>1, <2>2, <2>3, <2>4, <2>5, WaitServer DEF Next
<1>3. IInv /\ WaitInv => WaitNotForgotten
  <2> SUFFICES ASSUME IInv, WaitInv, NEW s \in Servers, pc[s] = "wait",
                      s \notin pipe, s # clean.proc, sig[s] = {}
               PROVE  \E t \in Processing \cup {u \in Servers : pc[u] \in {"wait", "exited"}} :
                        t # s /\ Queued(s) /\ t = Head(s_dir_queue) /\ "USR1" \in sig[t]
    BY DEF WaitNotForgotten
  <2>1. Queued(s)
    BY DEF WaitInv, WaitOK
  <2>2. s_dir_queue # <<>> /\ 1 \in DOMAIN s_dir_queue /\ Head(s_dir_queue) = s_dir_queue[1] /\ s_dir_queue[1] \in Servers
    BY <2>1 DEF IInv, TypeOK, Queued
  <2> DEFINE t == Head(s_dir_queue)
  <2>3. t \in Servers /\ Queued(t) /\ procType[t] = "POST_CREATE"
    BY <2>2 DEF IInv, TurnAtHead, Queued
  <2>4. "USR1" \in sig[t] /\ t # s
    BY <2>3 DEF WaitInv, WaitOK
  <2>5. pc[t] \in PCs \ {"unused", "request", "trim", "check"}
    BY <2>3 DEF IInv, TypeOK, SignalInv, SignalOK
  <2>6. t \in Processing \/ pc[t] \in {"wait", "exited"}
    BY <2>3, <2>5 DEF Processing, PCs
  <2> HIDE DEF t
  <2> QED BY <2>1, <2>3, <2>4, <2>6 DEF t
<1> QED BY <1>1, <1>2, <1>3, Invariance, PTL DEF Spec

-----------------------------------------------------------------------------
(***************************************************************************)
(* Sums over the elements of a finite set, by induction over its subsets.  *)
(***************************************************************************)

SumOver(f, S) == MapThenSumSet(LAMBDA x : f[x], S)

\* A set of numbers that is not empty has a least one.
LEMMA NatLeast ==
    ASSUME NEW T, T \subseteq Nat, T # {}
    PROVE  \E x \in T : \A y \in T : x <= y
<1> DEFINE R == OpToRel(<, Nat)
<1>1. IsWellFoundedOn(R, Nat)
    BY NatLessThanWellFounded, Zenon
<1>2. \A x, y \in Nat : <<y, x>> \in R <=> y < x
    BY DEF OpToRel
<1> HIDE DEF R
<1>3. PICK x \in T : \A y \in T : <<y, x>> \notin R
    BY <1>1, WFMin
<1>4. \A y \in T : x <= y
    <2> TAKE y \in T
    <2>1. x \in Nat /\ y \in Nat /\ <<y, x>> \notin R
        BY <1>3
    <2>2. ~(y < x)
        BY <1>2, <2>1
    <2> QED
        BY <2>1, <2>2
<1> QED
    BY <1>4

\* Induction over the subsets of a finite set, from the empty one by adding elements.
LEMMA SubsetInduction ==
    ASSUME NEW D, IsFiniteSet(D), NEW G, {} \in G,
           \A S \in SUBSET D : S # {} /\ (\A x \in S : S \ {x} \in G) => S \in G
    PROVE  SUBSET D \subseteq G
<1> DEFINE bad == {S \in SUBSET D : S \notin G}
           C == {Cardinality(S) : S \in bad}
<1> SUFFICES ASSUME bad # {} PROVE FALSE
    OBVIOUS
<1>1. \A S \in SUBSET D : IsFiniteSet(S) /\ Cardinality(S) \in Nat
    BY FS_Subset, FS_CardinalityType
<1>2. C \subseteq Nat /\ C # {}
    BY <1>1
<1>3. PICK n \in C : \A m \in C : n <= m
    BY <1>2, NatLeast
<1>4. PICK S \in bad : Cardinality(S) = n
    BY <1>3
<1>5. ASSUME NEW x \in S PROVE S \ {x} \in G
    <2>1. IsFiniteSet(S) /\ S \ {x} \in SUBSET D /\ Cardinality(S) \in Nat
        BY <1>1, <1>4
    <2>2. Cardinality(S \ {x}) = Cardinality(S) - 1
        BY <2>1, FS_RemoveElement
    <2>3. ASSUME S \ {x} \in bad PROVE FALSE
        <3>1. n <= Cardinality(S \ {x})
            BY <1>3, <2>3
        <3> QED
            BY <1>4, <2>1, <2>2, <3>1
    <2> QED
        BY <2>1, <2>3
<1> QED
    BY <1>4, <1>5

IsSum(h, f, D) ==
    /\ h \in [SUBSET D -> Nat] /\ h[{}] = 0
    /\ \A S \in SUBSET D : \A x \in S : h[S] = f[x] + h[S \ {x}]

\* There is a function that sums f over every subset.
LEMMA SumExists ==
    ASSUME NEW D, IsFiniteSet(D), NEW f \in [D -> Nat]
    PROVE  \E h : IsSum(h, f, D)
<1> DEFINE G == {E \in SUBSET D : \E h : IsSum(h, f, E)}
<1>1. {} \in G
    <2>1. IsSum([S \in SUBSET {} |-> 0], f, {})
        BY DEF IsSum
    <2> QED
        BY <2>1
<1>2. ASSUME NEW E \in SUBSET D, NEW a \in E, E \ {a} \in G PROVE E \in G
    <2>1. PICK h : IsSum(h, f, E \ {a})
        BY <1>2
    <2> DEFINE k == [S \in SUBSET E |-> IF a \in S THEN f[a] + h[S \ {a}] ELSE h[S]]
    <2>2. \A S \in SUBSET E : S \ {a} \in SUBSET (E \ {a}) /\ h[S \ {a}] \in Nat /\ f[a] \in Nat
        BY <1>2, <2>1 DEF IsSum
    <2>3. \A S \in SUBSET E : a \notin S => S = S \ {a}
        OBVIOUS
    <2>4. k \in [SUBSET E -> Nat]
        <3>1. ASSUME NEW S \in SUBSET E PROVE (IF a \in S THEN f[a] + h[S \ {a}] ELSE h[S]) \in Nat
            <4>1. CASE a \in S
                BY <2>2, <4>1
            <4>2. CASE a \notin S
                BY <2>2, <2>3, <4>2
            <4> QED
                BY <4>1, <4>2
        <3> QED
            BY <3>1
    <2>5. k[{}] = 0
        BY <2>1 DEF IsSum
    <2>6. ASSUME NEW S \in SUBSET E, NEW x \in S PROVE k[S] = f[x] + k[S \ {x}]
        <3>0. S \ {x} \in SUBSET E /\ x \in D /\ f[x] \in Nat
            BY <1>2, <2>6
        <3>1. CASE x = a
            <4>1. k[S] = f[a] + h[S \ {a}] /\ k[S \ {x}] = h[S \ {a}]
                BY <2>6, <3>0, <3>1
            <4> QED
                BY <3>1, <4>1
        <3>2. CASE x # a /\ a \in S
            <4>1. k[S] = f[a] + h[S \ {a}] /\ k[S \ {x}] = f[a] + h[(S \ {x}) \ {a}]
                BY <2>6, <3>0, <3>2
            <4>2. S \ {a} \in SUBSET (E \ {a}) /\ x \in S \ {a} /\ (S \ {x}) \ {a} = (S \ {a}) \ {x}
                BY <3>2
            <4>3. h[S \ {a}] = f[x] + h[(S \ {x}) \ {a}]
                BY <2>1, <4>2 DEF IsSum
            <4>4. h[(S \ {x}) \ {a}] \in Nat /\ f[a] \in Nat
                BY <2>2, <3>0
            <4> QED
                BY <3>0, <4>1, <4>3, <4>4
        <3>3. CASE a \notin S
            <4>1. k[S] = h[S] /\ k[S \ {x}] = h[S \ {x}]
                BY <2>6, <3>0, <3>3
            <4>2. S \in SUBSET (E \ {a})
                BY <3>3
            <4> QED
                BY <2>1, <4>1, <4>2 DEF IsSum
        <3> QED
            BY <3>1, <3>2, <3>3
    <2> HIDE DEF k
    <2>7. IsSum(k, f, E)
        BY <2>4, <2>5, <2>6 DEF IsSum
    <2> QED
        BY <2>7
<1> HIDE DEF G
<1>3. ASSUME NEW E \in SUBSET D, E # {}, \A x \in E : E \ {x} \in G PROVE E \in G
    BY <1>2, <1>3
<1>4. SUBSET D \subseteq G
    BY <1>1, <1>3, SubsetInduction
<1> QED
    BY <1>4 DEF G

\* The sum of the community module is that sum, whichever elements it chooses.
LEMMA SumOverIs ==
    ASSUME NEW D, IsFiniteSet(D), NEW f \in [D -> Nat], NEW h, IsSum(h, f, D), NEW S \in SUBSET D
    PROVE  SumOver(f, S) = h[S]
<1> DEFINE pick(s) == CHOOSE x \in s : TRUE
           Eq(i) == i = [s \in SUBSET S |-> IF s = {} THEN 0 ELSE f[pick(s)] + i[s \ {pick(s)}]]
           iter == CHOOSE i : Eq(i)
<1>1. SumOver(f, S) = iter[S]
    BY DEF SumOver, MapThenSumSet, MapThenFoldSet
<1>2. \A s \in SUBSET S : s # {} => pick(s) \in s
    OBVIOUS
<1> HIDE DEF pick
<1>3. Eq([s \in SUBSET S |-> h[s]])
    <2>1. \A s \in SUBSET S : h[s] = IF s = {} THEN 0 ELSE f[pick(s)] + h[s \ {pick(s)}]
        BY <1>2 DEF IsSum
    <2> QED
        BY <2>1
<1>4. Eq(iter)
    BY <1>3
<1> HIDE DEF iter
<1>5. \A s \in SUBSET S : iter[s] = IF s = {} THEN 0 ELSE f[pick(s)] + iter[s \ {pick(s)}]
    BY <1>4
<1> DEFINE G == {s \in SUBSET S : iter[s] = h[s]}
<1>6. SUBSET S \subseteq G
    <2>1. {} \in G
        BY <1>5 DEF IsSum
    <2>2. ASSUME NEW T \in SUBSET S, T # {}, \A x \in T : T \ {x} \in G PROVE T \in G
        <3>1. pick(T) \in T /\ iter[T] = f[pick(T)] + iter[T \ {pick(T)}]
            BY <1>2, <1>5, <2>2
        <3>2. h[T] = f[pick(T)] + h[T \ {pick(T)}]
            BY <3>1 DEF IsSum
        <3>3. iter[T \ {pick(T)}] = h[T \ {pick(T)}]
            BY <2>2, <3>1
        <3> QED
            BY <3>1, <3>2, <3>3
    <2>3. IsFiniteSet(S)
        BY FS_Subset
    <2> HIDE DEF G
    <2> QED
        BY <2>1, <2>2, <2>3, SubsetInduction
<1> QED
    BY <1>1, <1>6

\* What the proofs use: the sum is a number, nothing adds up to 0, and one element can be
\* taken out.
LEMMA SumFacts ==
    ASSUME NEW D, IsFiniteSet(D), NEW f \in [D -> Nat], NEW S \in SUBSET D
    PROVE  /\ SumOver(f, S) \in Nat
           /\ SumOver(f, {}) = 0
           /\ \A x \in S : SumOver(f, S) = f[x] + SumOver(f, S \ {x})
<1>1. PICK h : IsSum(h, f, D)
    BY SumExists
<1>2. \A T \in SUBSET D : SumOver(f, T) = h[T]
    BY <1>1, SumOverIs
<1> QED
    BY <1>1, <1>2 DEF IsSum

\* Functions that agree on a set have the same sum over it.
LEMMA SumSame ==
    ASSUME NEW D, IsFiniteSet(D), NEW f \in [D -> Nat], NEW g \in [D -> Nat], NEW S \in SUBSET D,
           \A x \in S : f[x] = g[x]
    PROVE  SumOver(f, S) = SumOver(g, S)
<1> DEFINE G == {T \in SUBSET S : SumOver(f, T) = SumOver(g, T)}
<1>1. {} \in G
    <2>1. SumOver(f, {}) = 0
        BY SumFacts
    <2>2. SumOver(g, {}) = 0
        BY SumFacts
    <2> QED
        BY <2>1, <2>2
<1>2. ASSUME NEW T \in SUBSET S, T # {}, \A x \in T : T \ {x} \in G PROVE T \in G
    <2>1. PICK x \in T : TRUE
        BY <1>2
    <2>2. SumOver(f, T) = f[x] + SumOver(f, T \ {x}) /\ SumOver(g, T) = g[x] + SumOver(g, T \ {x})
        BY <2>1, SumFacts
    <2>3. SumOver(f, T \ {x}) = SumOver(g, T \ {x}) /\ f[x] = g[x]
        BY <1>2, <2>1
    <2> QED
        BY <2>2, <2>3
<1>3. IsFiniteSet(S)
    BY FS_Subset
<1> HIDE DEF G
<1>4. SUBSET S \subseteq G
    BY <1>1, <1>2, <1>3, SubsetInduction
<1> QED
    BY <1>4 DEF G

-----------------------------------------------------------------------------
(***************************************************************************)
(* Counts.  A directory that is counted in its duplicate pays for that     *)
(* count with itself: it is about to be deleted.  Until then, and for a    *)
(* server whose directory is deleted under its hands, the budget has to    *)
(* say which directories have not paid yet.                                *)
(***************************************************************************)

SavedDirs(p) == {d \in created : IssueOf[d] = p}
KeptDirs(p) == SavedDirs(p) \cap exists

\* Directories that were found to be duplicates and are not counted yet, and those that
\* are counted and not deleted yet.
Matched == {d \in Dirs : \E s \in Servers : event[s] = "duplicate" /\ dir[s] = d}
Leaving == {d \in Dirs : \E s \in Servers : pc[s] = "delete_dup" /\ dir[s] = d}

\* Directories that have not paid.
Live(p) == {d \in SavedDirs(p) : d \in exists \cup Matched /\ d \notin Leaving}

\* n directories were saved; those in S have the counts c, and those in L may still be
\* counted somewhere.  The first count of a problem is that of its own directory.
Budget(c, L, S, n) ==
    SumOver(c, S) + Cardinality(L) <= n + (IF \E d \in S : c[d] > 0 THEN 1 ELSE 0)

Handling == {"scanning", "unique", "duplicate"}

\* Only directories with the data that duplicates are recognised by have counts, and a
\* server about to count a new problem has seen no other.
IdInv ==
    /\ \A d \in Dirs : d \notin created => count[d] = 0
    /\ \A d \in Dirs : count[d] > 0 => d \in hasId
    /\ \A s \in Servers : event[s] \in Handling => dir[s] \in hasId
    /\ \A s \in Servers : event[s] = "duplicate" => dupOf[s] \in hasId
    /\ \A s \in Servers : event[s] = "unique" /\ dir[s] \in exists =>
            \A d \in exists \ {dir[s]} : IssueOf[d] = IssueOf[dir[s]] => count[d] = 0

BudgetInv(p) == Budget(count, Live(p), Live(p) \cap exists, Cardinality(SavedDirs(p)))
SumInv(p) == SumOver(count, KeptDirs(p)) <= Cardinality(SavedDirs(p))

CountInv == IdInv /\ \A p \in Issues : BudgetInv(p) /\ SumInv(p)

\* Directories can be counted.
LEMMA DirsFinite ==
    ASSUME NEW S \in SUBSET Dirs
    PROVE  IsFiniteSet(S) /\ Cardinality(S) \in Nat
  BY DirsAssumption, FS_Subset, FS_CardinalityType

\* A part of some directories is not more than all of them.
LEMMA FewerDirs ==
    ASSUME NEW S \in SUBSET Dirs, NEW T \in SUBSET S
    PROVE  Cardinality(T) <= Cardinality(S)
  BY DirsFinite, FS_Subset

\* Sums of counts: over a set, over less of it, and one element of it.
LEMMA CountSums ==
    ASSUME NEW c \in [Dirs -> Nat], NEW S \in SUBSET Dirs
    PROVE  /\ SumOver(c, S) \in Nat
           /\ \A x \in S : SumOver(c, S) = c[x] + SumOver(c, S \ {x})
  BY DirsAssumption, SumFacts

\* The counts of a part are not more than the counts of all.
LEMMA SumLess ==
    ASSUME NEW c \in [Dirs -> Nat], NEW S \in SUBSET Dirs, NEW T \in SUBSET S
    PROVE  SumOver(c, T) <= SumOver(c, S)
<1> DEFINE G == {R \in SUBSET S : SumOver(c, R \cap T) <= SumOver(c, R)}
<1>1. {} \in G
  <2>1. {} \cap T = {} /\ SumOver(c, {}) \in Nat
    BY CountSums
  <2> QED BY <2>1
<1>2. ASSUME NEW R \in SUBSET S, R # {}, \A x \in R : R \ {x} \in G PROVE R \in G
  <2>1. PICK x \in R : TRUE
    BY <1>2
  <2>2. SumOver(c, R) = c[x] + SumOver(c, R \ {x}) /\ SumOver(c, R \ {x}) \in Nat /\ c[x] \in Nat
    BY <2>1, CountSums
  <2>3. SumOver(c, (R \ {x}) \cap T) <= SumOver(c, R \ {x}) /\ SumOver(c, (R \ {x}) \cap T) \in Nat
    <3>1. R \ {x} \in G
      BY <1>2, <2>1
    <3> QED BY <3>1, CountSums
  <2>4. CASE x \in T
    <3>1. x \in R \cap T /\ (R \cap T) \ {x} = (R \ {x}) \cap T /\ R \cap T \in SUBSET Dirs
      BY <2>1, <2>4
    <3>2. SumOver(c, R \cap T) = c[x] + SumOver(c, (R \ {x}) \cap T)
      BY <3>1, CountSums
    <3>3. SumOver(c, R \cap T) <= SumOver(c, R)
      BY <2>2, <2>3, <3>2
    <3> QED BY <3>3
  <2>5. CASE x \notin T
    <3>1. R \cap T = (R \ {x}) \cap T
      BY <2>5
    <3>2. SumOver(c, R \cap T) = SumOver(c, (R \ {x}) \cap T)
      BY <3>1
    <3>3. SumOver(c, R \cap T) <= SumOver(c, R)
      BY <2>2, <2>3, <3>2
    <3> QED BY <3>3
  <2> QED BY <2>4, <2>5
<1>3. IsFiniteSet(S)
  BY DirsFinite
<1>4. SUBSET S \subseteq G
  <2> HIDE DEF G
  <2> QED BY <1>1, <1>2, <1>3, SubsetInduction
<1>5. S \cap T = T /\ S \in G
  BY <1>4
<1> QED BY <1>5

\* A budget is kept when directories go, counted ones included.
LEMMA BudgetShrinks ==
    ASSUME NEW c \in [Dirs -> Nat], NEW L \in SUBSET Dirs, NEW S \in SUBSET Dirs,
           NEW M \in SUBSET L, NEW T \in SUBSET S, NEW n \in Nat, Budget(c, L, S, n)
    PROVE  Budget(c, M, T, n)
<1>1. /\ SumOver(c, S) \in Nat /\ SumOver(c, T) \in Nat /\ SumOver(c, T) <= SumOver(c, S)
      /\ Cardinality(L) \in Nat /\ Cardinality(M) \in Nat /\ Cardinality(M) <= Cardinality(L)
  <2>1. SumOver(c, S) \in Nat /\ SumOver(c, T) \in Nat
    BY CountSums
  <2>2. SumOver(c, T) <= SumOver(c, S)
    BY SumLess
  <2>3. Cardinality(L) \in Nat /\ Cardinality(M) \in Nat /\ Cardinality(M) <= Cardinality(L)
    BY DirsFinite, FewerDirs
  <2> QED BY <2>1, <2>2, <2>3
<1>2. CASE \E d \in T : c[d] > 0
  <2>1. \E d \in S : c[d] > 0
    BY <1>2
  <2> QED BY <1>1, <1>2, <2>1 DEF Budget
<1>3. CASE (\E d \in S : c[d] > 0) /\ ~ \E d \in T : c[d] > 0
  <2>1. PICK d \in S : c[d] > 0
    BY <1>3
  <2>2. T \in SUBSET (S \ {d}) /\ S \ {d} \in SUBSET Dirs
    BY <1>3, <2>1
  <2>3. SumOver(c, T) <= SumOver(c, S \ {d})
    BY <2>2, SumLess
  <2>4. SumOver(c, S) = c[d] + SumOver(c, S \ {d}) /\ SumOver(c, S \ {d}) \in Nat /\ c[d] \in Nat
    BY <2>1, <2>2, CountSums
  <2>5. SumOver(c, T) + 1 <= SumOver(c, S)
    BY <1>1, <2>1, <2>3, <2>4
  <2> QED BY <1>1, <1>3, <2>5 DEF Budget
<1>4. CASE ~ \E d \in S : c[d] > 0
  <2>1. ~ \E d \in T : c[d] > 0
    BY <1>4
  <2> QED BY <1>1, <1>4, <2>1 DEF Budget
<1> QED BY <1>2, <1>3, <1>4

\* The budget is enough where no directory is counted and not deleted.
LEMMA BudgetEnough ==
    ASSUME NEW c \in [Dirs -> Nat], NEW L \in SUBSET Dirs, NEW S \in SUBSET L, NEW n \in Nat, Budget(c, L, S, n)
    PROVE  SumOver(c, S) <= n
<1>1. SumOver(c, S) \in Nat /\ Cardinality(L) \in Nat
  BY CountSums, DirsFinite
<1>2. CASE S = {}
  BY <1>2, DirsAssumption, SumFacts
<1>3. CASE S # {}
  <2>1. PICK d \in S : TRUE
    BY <1>3
  <2>2. Cardinality({d}) = 1 /\ {d} \in SUBSET L
    BY <2>1, FS_Singleton
  <2>3. Cardinality(L) >= 1
    BY <1>1, <2>2, FewerDirs
  <2> QED BY <1>1, <2>3 DEF Budget
<1> QED BY <1>2, <1>3

\* How the sets of directories of an issue lie in each other.
LEMMA DirSets ==
    ASSUME IInv, NEW p
    PROVE  /\ SavedDirs(p) \in SUBSET Dirs /\ KeptDirs(p) \in SUBSET SavedDirs(p)
           /\ Live(p) \in SUBSET SavedDirs(p) /\ Live(p) \cap exists \in SUBSET KeptDirs(p)
           /\ Cardinality(SavedDirs(p)) \in Nat /\ count \in [Dirs -> Nat] /\ exists \subseteq created
<1>1. created \subseteq Dirs /\ count \in [Dirs -> Nat] /\ exists \subseteq created
  BY DEF IInv, TypeOK, DupInv
<1>2. SavedDirs(p) \in SUBSET Dirs
  BY <1>1 DEF SavedDirs
<1> QED BY <1>1, <1>2, DirsFinite DEF KeptDirs, Live

\* What a server may do without touching the counts: nothing new about a directory that
\* is being looked at, and no way out of the deletion of a duplicate.
Quiet(t) ==
    /\ event'[t] \in Handling => event[t] = event'[t] /\ dir'[t] = dir[t] /\ dupOf'[t] = dupOf[t]
    /\ pc[t] = "delete_dup" => pc'[t] = "delete_dup" /\ dir'[t] = dir[t]

\* Directories go, and nothing is counted.
LEMMA NothingCounted ==
    ASSUME IInv, IInv', CountInv, count' = count, created' = created, exists' \subseteq exists,
           hasId \subseteq hasId', IdInv', Matched' \subseteq exists \cup Matched,
           Leaving \cap exists' \subseteq Leaving', Leaving \cap Matched' \subseteq Leaving'
    PROVE  CountInv'
<1> SUFFICES ASSUME NEW p \in Issues PROVE BudgetInv(p)' /\ SumInv(p)'
  BY DEF CountInv
<1>0. BudgetInv(p) /\ SumInv(p)
  BY DEF CountInv
<1>1. SavedDirs(p)' = SavedDirs(p)
  BY DEF SavedDirs
<1>2. Live(p)' \subseteq Live(p) /\ (Live(p) \cap exists)' \subseteq Live(p) \cap exists /\ KeptDirs(p)' \subseteq KeptDirs(p)
  BY <1>1 DEF Live, KeptDirs
<1>3. BudgetInv(p)'
  <2>1. Budget(count, Live(p)', (Live(p) \cap exists)', Cardinality(SavedDirs(p)))
    BY <1>0, <1>2, DirSets, BudgetShrinks DEF BudgetInv
  <2> QED BY <1>1, <2>1 DEF BudgetInv
<1>4. SumInv(p)'
  <2>1. /\ SumOver(count, KeptDirs(p)') <= SumOver(count, KeptDirs(p))
        /\ SumOver(count, KeptDirs(p)') \in Nat /\ SumOver(count, KeptDirs(p)) \in Nat
        /\ Cardinality(SavedDirs(p)) \in Nat
    BY <1>2, DirSets, SumLess, CountSums
  <2>2. SumOver(count, KeptDirs(p)') <= Cardinality(SavedDirs(p))
    BY <1>0, <2>1 DEF SumInv
  <2> QED BY <1>1, <2>2 DEF SumInv
<1> QED BY <1>3, <1>4

\* The same for steps of which every server is quiet.
LEMMA QuietKeeps ==
    ASSUME IInv, IInv', CountInv, count' = count, created' = created, exists' \subseteq exists,
           hasId \subseteq hasId', \A t \in Servers : Quiet(t)
    PROVE  CountInv'
<1>1. IdInv'
  <2>1. \A d \in Dirs : (d \notin created' => count'[d] = 0) /\ (count'[d] > 0 => d \in hasId')
    BY DEF CountInv, IdInv
  <2>2. \A t \in Servers : (event'[t] \in Handling => dir'[t] \in hasId') /\ (event'[t] = "duplicate" => dupOf'[t] \in hasId')
    BY DEF CountInv, IdInv, Quiet, Handling
  <2>3. ASSUME NEW t \in Servers, event'[t] = "unique", dir'[t] \in exists',
               NEW e \in exists' \ {dir'[t]}, IssueOf[e] = IssueOf[dir'[t]]
        PROVE  count'[e] = 0
    <3>1. event[t] = "unique" /\ dir'[t] = dir[t]
      BY <2>3 DEF Quiet, Handling
    <3> QED BY <2>3, <3>1 DEF CountInv, IdInv
  <2> QED BY <2>1, <2>2, <2>3 DEF IdInv
<1>2. Matched' \subseteq Matched /\ Leaving \subseteq Leaving'
  BY DEF Matched, Leaving, Quiet, Handling
<1> QED BY <1>1, <1>2, NothingCounted

\* A new directory has no count and has not paid.
LEMMA AddDirKeeps ==
    ASSUME IInv, IInv', CountInv, NEW d \in Dirs, AddDir(d), count' = count, \A t \in Servers : Quiet(t),
           Leaving' \subseteq Leaving
    PROVE  CountInv'
<1>0. /\ d \notin created /\ created' = created \cup {d} /\ exists' = exists \cup {d} /\ hasId \subseteq hasId'
      /\ count[d] = 0 /\ count \in [Dirs -> Nat] /\ exists \subseteq created /\ created \subseteq Dirs
  BY DEF AddDir, CountInv, IdInv, IInv, TypeOK, DupInv
<1>1. IdInv'
  <2>1. \A e \in Dirs : (e \notin created' => count'[e] = 0) /\ (count'[e] > 0 => e \in hasId')
    BY <1>0 DEF CountInv, IdInv
  <2>2. \A t \in Servers : (event'[t] \in Handling => dir'[t] \in hasId') /\ (event'[t] = "duplicate" => dupOf'[t] \in hasId')
    BY <1>0 DEF CountInv, IdInv, Quiet, Handling
  <2>3. ASSUME NEW t \in Servers, event'[t] = "unique", dir'[t] \in exists',
               NEW e \in exists' \ {dir'[t]}, IssueOf[e] = IssueOf[dir'[t]]
        PROVE  count'[e] = 0
    <3>1. event[t] = "unique" /\ dir'[t] = dir[t]
      BY <2>3 DEF Quiet, Handling
    <3>2. dir[t] \in created
      BY <3>1 DEF IInv, ServerInv, ServerOK
    <3> QED BY <1>0, <2>3, <3>1, <3>2 DEF CountInv, IdInv
  <2> QED BY <2>1, <2>2, <2>3 DEF IdInv
<1>2. Matched' \subseteq Matched /\ Leaving \subseteq Leaving' /\ d \notin Leaving
  <2>1. Leaving \subseteq created
    BY DEF Leaving, IInv, ServerInv, ServerOK
  <2> QED BY <1>0, <2>1 DEF Matched, Leaving, Quiet, Handling
<1>3. ASSUME NEW p \in Issues PROVE BudgetInv(p)' /\ SumInv(p)'
  <2>0. BudgetInv(p) /\ SumInv(p)
    BY <1>3 DEF CountInv
  <2>1. /\ SavedDirs(p) \in SUBSET Dirs /\ KeptDirs(p) \in SUBSET Dirs /\ Live(p) \in SUBSET Dirs
        /\ Live(p) \cap exists \in SUBSET Dirs
        /\ Cardinality(SavedDirs(p)) \in Nat
    BY DirSets
  <2>2. CASE IssueOf[d] # p
    <3>1. SavedDirs(p)' = SavedDirs(p) /\ KeptDirs(p)' = KeptDirs(p)
      BY <1>0, <2>2 DEF SavedDirs, KeptDirs
    <3>2. Live(p)' \subseteq Live(p) /\ (Live(p) \cap exists)' \subseteq Live(p) \cap exists
      BY <1>0, <1>2, <2>2, <3>1 DEF Live, SavedDirs
    <3>3. Budget(count, Live(p)', (Live(p) \cap exists)', Cardinality(SavedDirs(p)))
      BY <1>0, <2>0, <2>1, <3>2, BudgetShrinks DEF BudgetInv
    <3> QED BY <2>0, <3>1, <3>3 DEF BudgetInv, SumInv
  <2>3. CASE IssueOf[d] = p
    <3> DEFINE L == Live(p)  S == Live(p) \cap exists  n == Cardinality(SavedDirs(p))
    <3>1. SavedDirs(p)' = SavedDirs(p) \cup {d} /\ KeptDirs(p)' = KeptDirs(p) \cup {d} /\ d \notin SavedDirs(p)
          /\ d \notin KeptDirs(p)
      BY <1>0, <2>3 DEF SavedDirs, KeptDirs
    <3>2. Live(p)' \subseteq L \cup {d} /\ (Live(p) \cap exists)' \subseteq S \cup {d} /\ d \notin L
      BY <1>0, <1>2, <3>1 DEF Live
    <3>3. Cardinality(SavedDirs(p)') = n + 1
      BY <2>1, <3>1, DirsFinite, FS_AddElement
    <3>4. Cardinality(L \cup {d}) = Cardinality(L) + 1
      BY <2>1, <3>2, DirsFinite, FS_AddElement
    <3>5. SumOver(count, S \cup {d}) = SumOver(count, S) /\ SumOver(count, S) \in Nat
      <4>1. (S \cup {d}) \ {d} = S /\ S \cup {d} \in SUBSET Dirs
        BY <2>1, <3>2
      <4>2. SumOver(count, S \cup {d}) = count[d] + SumOver(count, (S \cup {d}) \ {d})
        BY <1>0, <4>1, CountSums
      <4>3. SumOver(count, S) \in Nat /\ SumOver(count, (S \cup {d}) \ {d}) = SumOver(count, S)
        BY <1>0, <2>1, <4>1, CountSums
      <4> HIDE DEF S
      <4> QED BY <1>0, <4>2, <4>3
    <3>6. SumOver(count, KeptDirs(p) \cup {d}) = SumOver(count, KeptDirs(p)) /\ SumOver(count, KeptDirs(p)) \in Nat
      <4>1. (KeptDirs(p) \cup {d}) \ {d} = KeptDirs(p) /\ KeptDirs(p) \cup {d} \in SUBSET Dirs
        BY <2>1, <3>1
      <4>2. SumOver(count, KeptDirs(p) \cup {d}) = count[d] + SumOver(count, (KeptDirs(p) \cup {d}) \ {d})
        BY <1>0, <4>1, CountSums
      <4>3. /\ SumOver(count, KeptDirs(p)) \in Nat
            /\ SumOver(count, (KeptDirs(p) \cup {d}) \ {d}) = SumOver(count, KeptDirs(p))
        BY <1>0, <2>1, <4>1, CountSums
      <4> QED BY <1>0, <4>2, <4>3
    <3>7. Budget(count, L \cup {d}, S \cup {d}, n + 1)
      <4>1. (\E e \in S \cup {d} : count[e] > 0) <=> \E e \in S : count[e] > 0
        BY <1>0
      <4>2. Cardinality(L) \in Nat /\ n \in Nat
        BY <2>1, DirsFinite
      <4>3. Budget(count, L, S, n)
        BY <2>0 DEF BudgetInv
      <4> HIDE DEF L, S, n
      <4> QED BY <3>4, <3>5, <4>1, <4>2, <4>3 DEF Budget
    <3>8. Budget(count, Live(p)', (Live(p) \cap exists)', n + 1)
      <4>1. L \cup {d} \in SUBSET Dirs /\ S \cup {d} \in SUBSET Dirs /\ n + 1 \in Nat
        BY <2>1
      <4> HIDE DEF L, S, n
      <4> QED BY <1>0, <3>2, <3>7, <4>1, BudgetShrinks
    <3>9. BudgetInv(p)'
      BY <1>0, <3>3, <3>8 DEF BudgetInv
    <3>10. SumInv(p)'
      <4>1. SumOver(count, KeptDirs(p)) <= n + 1
        BY <2>0, <2>1, <3>6 DEF SumInv
      <4> QED BY <1>0, <3>1, <3>3, <3>6, <4>1 DEF SumInv
    <3> QED BY <3>9, <3>10
  <2> QED BY <2>2, <2>3
<1> QED BY <1>1, <1>3 DEF CountInv

\* A server that is past its wait is the only one.
LEMMA OnlyOne ==
    ASSUME IInv, NEW s \in Servers, pc[s] \in {"post_create", "delete_dup"}
    PROVE  \A t \in Servers \ {s} : event[t] = "none" /\ pc[t] \notin {"post_create", "delete_dup"}
<1>1. AtMostOneProcessing
  BY Mutex DEF IInv
<1>2. \A t \in Servers \ {s} : pc[t] \notin {"post_create", "delete_dup"}
  BY <1>1 DEF AtMostOneProcessing, Processing
<1> QED BY <1>2 DEF IInv, ServerInv, ServerOK

\* The scan after the event: nothing is counted yet, and what it found exists.
LEMMA ScanKeeps ==
    ASSUME IInv, IInv', CountInv, NEW s \in Servers,
           run_event(s) \/ no_duplicate(s) \/ \E e \in Dirs : is_crash_a_dup(s, e)
    PROVE  CountInv'
<1>0. /\ count' = count /\ created' = created /\ exists' = exists /\ hasId \subseteq hasId'
      /\ UNCHANGED <<pc, dir>>
      /\ event[s] \in {"running", "scanning"} /\ event \in [Servers -> Events] /\ dupOf \in [Servers -> Dirs \cup {NoDir}]
  BY DEF run_event, no_duplicate, is_crash_a_dup, serverVars, dumpVars, histVars, IInv, TypeOK
<1>1. pc[s] = "post_create" /\ \A t \in Servers \ {s} : event[t] = "none"
  BY <1>0, OnlyOne DEF IInv, ServerInv, ServerOK
<1>2. /\ \A t \in Servers \ {s} : event'[t] = "none"
      /\ \/ event'[s] = "scanning" /\ dir[s] \in hasId'
         \/ event'[s] = "unique" /\ event[s] = "scanning" /\ Duplicates(dir[s]) = {}
         \/ event'[s] = "duplicate" /\ event[s] = "scanning" /\ dupOf'[s] \in Duplicates(dir[s])
  BY <1>0, <1>1 DEF run_event, no_duplicate, is_crash_a_dup
<1>3. IdInv'
  <2>1. \A d \in Dirs : (d \notin created' => count'[d] = 0) /\ (count'[d] > 0 => d \in hasId')
    BY <1>0 DEF CountInv, IdInv
  <2>2. \A t \in Servers : (event'[t] \in Handling => dir'[t] \in hasId') /\ (event'[t] = "duplicate" => dupOf'[t] \in hasId')
    <3>1. event[s] = "scanning" => dir[s] \in hasId
      BY DEF CountInv, IdInv, Handling
    <3> QED BY <1>0, <1>2, <3>1 DEF Handling, Duplicates
  <2>3. ASSUME NEW t \in Servers, event'[t] = "unique", dir'[t] \in exists',
               NEW e \in exists' \ {dir'[t]}, IssueOf[e] = IssueOf[dir'[t]]
        PROVE  count'[e] = 0
    <3>1. t = s /\ Duplicates(dir[s]) = {}
      BY <1>2, <2>3
    <3>2. e \in Dirs /\ count[e] \in Nat /\ e \notin hasId
      BY <1>0, <2>3, <3>1 DEF Duplicates, IInv, TypeOK
    <3> QED BY <1>0, <3>2 DEF CountInv, IdInv
  <2> QED BY <2>1, <2>2, <2>3 DEF IdInv
<1>4. Matched' \subseteq exists
  BY <1>0, <1>2 DEF Matched, Duplicates
<1>5. Leaving' = Leaving
  BY <1>0 DEF Leaving
<1> QED BY <1>0, <1>3, <1>4, <1>5, NothingCounted

\* The duplicate that was counted is deleted.
LEMMA DeleteDupKeeps ==
    ASSUME IInv, IInv', CountInv, NEW s \in Servers, delete_dup_dir(s), Stubborn = {}
    PROVE  CountInv'
<1>0. /\ count' = count /\ created' = created /\ hasId' = hasId /\ exists' = exists \ {dir[s]}
      /\ UNCHANGED <<event, dir, dupOf>> /\ pc[s] = "delete_dup" /\ pc' = [pc EXCEPT ![s] = "notify_dup"]
  BY DEF delete_dup_dir, eventVars
<1>1. \A t \in Servers \ {s} : event[t] = "none" /\ pc[t] # "delete_dup"
  BY <1>0, OnlyOne
<1>2. event[s] = "none"
  BY <1>0 DEF IInv, ServerInv, ServerOK
<1>3. Matched' = {} /\ Leaving \subseteq {dir[s]}
  BY <1>0, <1>1, <1>2 DEF Matched, Leaving
<1>4. IdInv'
  BY <1>0, <1>1, <1>2 DEF CountInv, IdInv, Handling
<1> QED BY <1>0, <1>3, <1>4, NothingCounted

\* A new problem: the first count of its issue.
LEMMA CountNewKeeps ==
    ASSUME IInv, IInv', CountInv, NEW s \in Servers, count_new_problem(s)
    PROVE  CountInv'
<1> DEFINE A == dir[s]
<1>0. /\ created' = created /\ hasId' = hasId /\ exists' = exists
      /\ UNCHANGED <<dir, dupOf>> /\ pc[s] = "post_create" /\ pc' = [pc EXCEPT ![s] = "notify"]
      /\ event[s] = "unique" /\ event' = [event EXCEPT ![s] = "none"] /\ A \in exists
      /\ count' = IF count[A] = 0 THEN [count EXCEPT ![A] = 1] ELSE count
  BY DEF count_new_problem
<1>1. \A t \in Servers \ {s} : event[t] = "none" /\ pc[t] # "delete_dup"
  BY <1>0, OnlyOne
<1>2. A \in Dirs /\ A \in created /\ A \in hasId /\ count \in [Dirs -> Nat] /\ event \in [Servers -> Events]
      /\ pc \in [Servers -> PCs]
  BY <1>0 DEF IInv, TypeOK, DupInv, CountInv, IdInv, Handling
<1>3. \A t \in Servers : event'[t] = "none" /\ event[t] # "duplicate" /\ pc[t] # "delete_dup" /\ pc'[t] # "delete_dup"
  BY <1>0, <1>1, <1>2
<1>4. Matched = {} /\ Leaving = {} /\ Matched' = {} /\ Leaving' = {}
  BY <1>3 DEF Matched, Leaving
<1>5. CASE count[A] # 0
  <2>1. count' = count
    BY <1>0, <1>5
  <2>2. \A t \in Servers : Quiet(t)
    BY <1>3 DEF Quiet, Handling
  <2> QED BY <1>0, <2>1, <2>2, QuietKeeps
<1>6. CASE count[A] = 0
  <2>1. count' \in [Dirs -> Nat] /\ count'[A] = 1 /\ \A d \in Dirs \ {A} : count'[d] = count[d]
    BY <1>0, <1>2, <1>6
  <2>2. IdInv'
    BY <1>0, <1>2, <1>3, <2>1 DEF CountInv, IdInv, Handling
  <2>3. ASSUME NEW p \in Issues PROVE BudgetInv(p)' /\ SumInv(p)'
    <3> DEFINE L == Live(p)  n == Cardinality(SavedDirs(p))
    <3>0. L \in SUBSET Dirs /\ n \in Nat /\ L = KeptDirs(p) /\ L \cap exists = L
      BY <1>4, DirSets DEF Live, KeptDirs
    <3>1. L' = L /\ SavedDirs(p)' = SavedDirs(p) /\ KeptDirs(p)' = L /\ (Live(p) \cap exists)' = L
      BY <1>0, <1>4 DEF Live, KeptDirs, SavedDirs
    <3>2. Budget(count, L, L, n)
      BY <2>3, <3>0 DEF CountInv, BudgetInv
    <3>3. Budget(count', L, L, n)
      <4>1. CASE A \notin L
        <5>1. \A d \in L : count[d] = count'[d]
          BY <2>1, <3>0, <4>1
        <5>2. SumOver(count, L) = SumOver(count', L)
          BY <1>2, <2>1, <3>0, <5>1, DirsAssumption, SumSame
        <5>3. (\E d \in L : count[d] > 0) <=> \E d \in L : count'[d] > 0
          BY <5>1
        <5> QED BY <3>2, <5>2, <5>3 DEF Budget
      <4>2. CASE A \in L
        <5>1. \A d \in L : count[d] = 0
          <6>1. \A d \in L : d \in exists /\ IssueOf[d] = IssueOf[A]
            BY <3>0, <4>2 DEF KeptDirs, SavedDirs
          <6> QED BY <1>0, <1>6, <6>1 DEF CountInv, IdInv
        <5>2. SumOver(count, L) = count[A] + SumOver(count, L \ {A}) /\ SumOver(count, L \ {A}) \in Nat
          BY <1>2, <3>0, <4>2, CountSums
        <5>3. SumOver(count', L) = count'[A] + SumOver(count', L \ {A})
          BY <2>1, <3>0, <4>2, CountSums
        <5>4. SumOver(count, L \ {A}) = SumOver(count', L \ {A})
          <6>1. L \ {A} \in SUBSET Dirs /\ \A d \in L \ {A} : count[d] = count'[d]
            BY <2>1, <3>0
          <6> QED BY <1>2, <2>1, <6>1, DirsAssumption, SumSame
        <5>5. SumOver(count', L) = SumOver(count, L) + 1 /\ SumOver(count, L) \in Nat
          BY <1>6, <2>1, <5>2, <5>3, <5>4
        <5>6. ~(\E d \in L : count[d] > 0) /\ \E d \in L : count'[d] > 0
          BY <2>1, <4>2, <5>1
        <5>7. Cardinality(L) \in Nat
          BY <3>0, DirsFinite
        <5> HIDE DEF L, n
        <5> QED BY <3>0, <3>2, <5>5, <5>6, <5>7 DEF Budget
      <4> QED BY <4>1, <4>2
    <3>4. SumOver(count', L) <= n
      BY <2>1, <3>0, <3>3, BudgetEnough
    <3> QED BY <3>1, <3>3, <3>4 DEF BudgetInv, SumInv
  <2> QED BY <2>2, <2>3 DEF CountInv
<1> QED BY <1>5, <1>6

\* Another occurrence: the directory pays for the count of its duplicate.
LEMMA CountDupKeeps ==
    ASSUME IInv, IInv', CountInv, NEW s \in Servers, count_duplicate(s)
    PROVE  CountInv'
<1> DEFINE A == dir[s]  B == dupOf[s]
<1>0. /\ created' = created /\ hasId' = hasId /\ exists' = exists
      /\ UNCHANGED <<dir, dupOf>> /\ pc[s] = "post_create" /\ pc' = [pc EXCEPT ![s] = "delete_dup"]
      /\ event[s] = "duplicate" /\ event' = [event EXCEPT ![s] = "none"] /\ B \in exists
      /\ count' = [count EXCEPT ![B] = @ + 1]
  BY DEF count_duplicate, histVars
<1>1. \A t \in Servers \ {s} : event[t] = "none" /\ pc[t] # "delete_dup"
  BY <1>0, OnlyOne
<1>2. /\ A \in Dirs /\ A \in created /\ B \in Dirs /\ B \in created /\ B # A /\ IssueOf[B] = IssueOf[A] /\ B \in hasId
      /\ count \in [Dirs -> Nat] /\ event \in [Servers -> Events] /\ pc \in [Servers -> PCs]
  <2>1. A \in created /\ created \subseteq Dirs
    BY <1>0 DEF IInv, TypeOK, ServerInv, ServerOK
  <2>2. B \in created \ {A} /\ IssueOf[B] = IssueOf[A]
    BY <1>0 DEF IInv, DupInv, DupOK
  <2> QED BY <1>0, <2>1, <2>2 DEF IInv, TypeOK, CountInv, IdInv
<1>3. \A t \in Servers : event'[t] = "none" /\ (t # s => event[t] # "duplicate" /\ pc'[t] # "delete_dup") /\ pc[t] # "delete_dup"
  BY <1>0, <1>1, <1>2
<1>4. Matched = {A} /\ Leaving = {} /\ Matched' = {} /\ Leaving' = {A}
  BY <1>0, <1>2, <1>3 DEF Matched, Leaving
<1>5. count' \in [Dirs -> Nat] /\ count'[B] = count[B] + 1 /\ \A d \in Dirs \ {B} : count'[d] = count[d]
  <2>1. B \in Dirs /\ count \in [Dirs -> Nat]
    BY <1>2
  <2>2. count' = [count EXCEPT ![B] = @ + 1]
    BY <1>0
  <2> HIDE DEF A, B
  <2>3. count[B] \in Nat
    BY <2>1
  <2>4. count[B] + 1 \in Nat
    BY <2>3
  <2> QED BY <2>1, <2>2, <2>4
<1>6. IdInv'
  BY <1>0, <1>2, <1>3, <1>5 DEF CountInv, IdInv, Handling
<1>7. ASSUME NEW p \in Issues PROVE BudgetInv(p)' /\ SumInv(p)'
  <2> DEFINE L == Live(p)  S == Live(p) \cap exists  K == KeptDirs(p)  n == Cardinality(SavedDirs(p))
  <2>0. L \in SUBSET Dirs /\ S \in SUBSET Dirs /\ K \in SUBSET Dirs /\ n \in Nat /\ Budget(count, L, S, n)
        /\ SumOver(count, K) <= n
    BY <1>7, DirSets DEF CountInv, BudgetInv, SumInv
  <2>1. /\ SavedDirs(p)' = SavedDirs(p) /\ KeptDirs(p)' = K
        /\ Live(p)' = L \ {A} /\ (Live(p) \cap exists)' = S \ {A} /\ K = S
    BY <1>0, <1>2, <1>4 DEF Live, KeptDirs, SavedDirs
  <2>2. CASE IssueOf[A] # p
    <3>1. A \notin L /\ B \notin L
      BY <1>2, <2>2 DEF Live, SavedDirs
    <3>2. \A d \in S : count[d] = count'[d]
      BY <1>5, <2>0, <3>1
    <3>3. SumOver(count, S) = SumOver(count', S)
      BY <1>2, <1>5, <2>0, <3>2, DirsAssumption, SumSame
    <3>4. (\E d \in S : count[d] > 0) <=> \E d \in S : count'[d] > 0
      BY <3>2
    <3>5. L \ {A} = L /\ S \ {A} = S
      BY <3>1
    <3>6. Budget(count', L \ {A}, S \ {A}, n)
      BY <2>0, <3>3, <3>4, <3>5 DEF Budget
    <3>7. SumOver(count', K) <= n
      BY <2>0, <2>1, <3>3
    <3> QED BY <2>1, <3>6, <3>7 DEF BudgetInv, SumInv
  <2>3. CASE IssueOf[A] = p
    <3>1. A \in L /\ B \in L /\ B \in S
      BY <1>0, <1>2, <1>4, <2>3 DEF Live, SavedDirs
    <3>2. Cardinality(L) \in Nat /\ Cardinality(L \ {A}) = Cardinality(L) - 1 /\ Cardinality(L \ {A}) >= 1
      <4>1. Cardinality(L) \in Nat /\ IsFiniteSet(L) /\ L \ {A} \in SUBSET Dirs /\ Cardinality(L \ {A}) \in Nat
        BY <2>0, DirsFinite
      <4>2. Cardinality(L \ {A}) = Cardinality(L) - 1
        <5> HIDE DEF L, A
        <5> QED BY <3>1, <4>1, FS_RemoveElement
      <4>3. {B} \in SUBSET (L \ {A}) /\ Cardinality({B}) = 1
        BY <1>2, <3>1, FS_Singleton
      <4>4. Cardinality({B}) <= Cardinality(L \ {A})
        BY <4>1, <4>3, FewerDirs
      <4> HIDE DEF L
      <4> QED BY <4>1, <4>2, <4>3, <4>4
    <3>3. ASSUME NEW T \in SUBSET S, B \in T PROVE SumOver(count', T) = SumOver(count, T) + 1 /\ SumOver(count, T) \in Nat
      <4>1. SumOver(count, T) = count[B] + SumOver(count, T \ {B}) /\ SumOver(count, T \ {B}) \in Nat
        BY <1>2, <2>0, <3>3, CountSums
      <4>2. SumOver(count', T) = count'[B] + SumOver(count', T \ {B})
        BY <1>5, <2>0, <3>3, CountSums
      <4>3. SumOver(count, T \ {B}) = SumOver(count', T \ {B})
        <5>1. T \ {B} \in SUBSET Dirs /\ \A d \in T \ {B} : count[d] = count'[d]
          BY <1>5, <2>0
        <5> QED BY <1>2, <1>5, <5>1, DirsAssumption, SumSame
      <4>4. count[B] \in Nat
        BY <1>2
      <4> QED BY <1>5, <4>1, <4>2, <4>3, <4>4
    <3>4. S \ {A} \in SUBSET S /\ B \in S \ {A}
      BY <1>2, <3>1
    <3>5. SumOver(count', S \ {A}) = SumOver(count, S \ {A}) + 1 /\ SumOver(count, S \ {A}) \in Nat
      BY <3>3, <3>4
    <3>6. SumOver(count, S \ {A}) <= SumOver(count, S) /\ SumOver(count, S) \in Nat
      BY <1>2, <2>0, <3>4, SumLess, CountSums
    <3>7. SumOver(count', S) = SumOver(count, S) + 1
      BY <3>1, <3>3
    <3>8. SumOver(count, S) + Cardinality(L) <= n + 1
      <4> HIDE DEF L, S, n
      <4> QED BY <2>0, <3>2, <3>6 DEF Budget
    <3>9. \E d \in S \ {A} : count'[d] > 0
      BY <1>2, <1>5, <3>4
    <3>10. Budget(count', L \ {A}, S \ {A}, n)
      <4>1. SumOver(count', S \ {A}) + Cardinality(L \ {A}) <= n + 1
        <5> HIDE DEF L, S, n
        <5> QED BY <2>0, <3>2, <3>5, <3>6, <3>8
      <4> HIDE DEF L, S, n
      <4> QED BY <3>9, <4>1 DEF Budget
    <3>11. SumOver(count', K) <= n
      <4>1. SumOver(count', S) <= n
        <5> HIDE DEF L, S, n
        <5> QED BY <2>0, <3>2, <3>6, <3>7, <3>8
      <4> QED BY <2>1, <4>1
    <3> QED BY <2>1, <3>10, <3>11 DEF BudgetInv, SumInv
  <2> QED BY <2>2, <2>3
<1> QED BY <1>6, <1>7 DEF CountInv

\* Nothing is saved and nothing is counted at first.
LEMMA CountInit == Init => CountInv
<1> SUFFICES ASSUME Init PROVE CountInv
  OBVIOUS
<1>1. IdInv
  BY DEF Init, IdInv, Handling
<1>2. ASSUME NEW p \in Issues PROVE BudgetInv(p) /\ SumInv(p)
  <2>1. SavedDirs(p) = {} /\ KeptDirs(p) = {} /\ Live(p) = {} /\ Live(p) \cap exists = {}
    BY DEF Init, SavedDirs, KeptDirs, Live
  <2>2. Cardinality({}) = 0 /\ SumOver(count, {}) = 0
    <3>1. count \in [Dirs -> Nat]
      BY DEF Init
    <3> QED BY <3>1, FS_EmptySet, DirsAssumption, SumFacts
  <2> QED BY <2>1, <2>2 DEF BudgetInv, Budget, SumInv
<1> QED BY <1>1, <1>2 DEF CountInv

\* What abrtd does to its queue and to the dump location is quiet.
LEMMA CountAbrtd ==
    ASSUME IInv, IInv', CountInv, Abrtd
    PROVE  CountInv'
<1>1. CASE \E s \in Servers : server_socket_cb(s)
  <2>1. PICK s \in Servers : server_socket_cb(s)
    BY <1>1
  <2>2. UNCHANGED <<count, created, exists, hasId, event, dir, dupOf>> /\ pc[s] = "unused"
        /\ \A t \in Servers \ {s} : pc'[t] = pc[t]
    BY <2>1 DEF server_socket_cb, eventVars, dumpVars, histVars, IInv, TypeOK
  <2>3. \A t \in Servers : Quiet(t)
    BY <2>2 DEF Quiet
  <2> QED BY <2>2, <2>3, QuietKeeps
<1>2. CASE \/ \E s \in Servers : abrt_server_output_cb(s) \/ abrt_server_output_hup(s)
           \/ consider_processing
  <2>1. UNCHANGED <<count, created, exists, hasId, event, dir, dupOf, pc>>
    BY <1>2 DEF abrt_server_output_cb, abrt_server_output_hup, consider_processing, eventVars, dumpVars, histVars
  <2>2. \A t \in Servers : Quiet(t)
    BY <2>1 DEF Quiet
  <2> QED BY <2>1, <2>2, QuietKeeps
<1>3. CASE \E s \in Servers : remove_abrt_server_proc(s)
  <2>1. PICK s \in Servers : remove_abrt_server_proc(s)
    BY <1>3
  <2>2. /\ UNCHANGED <<count, created, exists, hasId>> /\ pc[s] = "exited" /\ event'[s] = "none"
        /\ \A t \in Servers \ {s} : pc'[t] = pc[t] /\ event'[t] = event[t] /\ dir'[t] = dir[t] /\ dupOf'[t] = dupOf[t]
    BY <2>1 DEF remove_abrt_server_proc, dumpVars, histVars, IInv, TypeOK
  <2>3. \A t \in Servers : Quiet(t)
    BY <2>2 DEF Quiet, Handling
  <2> QED BY <2>2, <2>3, QuietKeeps
<1>4. CASE delete_worst_dir \/ \E d \in Dirs : clean_worst_dir(d)
  <2>1. UNCHANGED <<count, created, hasId, event, dir, dupOf, pc>> /\ exists' \subseteq exists
    <3>1. CASE delete_worst_dir
      BY <3>1 DEF delete_worst_dir, Delete, Discard, eventVars, serverVars
    <3>2. ASSUME NEW d \in Dirs, clean_worst_dir(d)
          PROVE  UNCHANGED <<count, created, hasId, event, dir, dupOf, pc, exists>>
      BY <3>2 DEF clean_worst_dir, clean_new_dir, clean_unprocessed_dir, clean_old_dir, eventVars,
         serverVars, dumpVars, histVars
    <3> QED BY <1>4, <3>1, <3>2
  <2>2. \A t \in Servers : Quiet(t)
    BY <2>1 DEF Quiet
  <2> QED BY <2>1, <2>2, QuietKeeps
<1> QED BY <1>1, <1>2, <1>3, <1>4 DEF Abrtd

\* A step of one server that leaves the others alone, counts nothing and adds nothing.
LEMMA ServerQuiet ==
    ASSUME IInv, IInv', CountInv, NEW s \in Servers,
           UNCHANGED <<count, created, hasId>>, exists' \subseteq exists,
           \A t \in Servers \ {s} : pc'[t] = pc[t] /\ event'[t] = event[t] /\ dir'[t] = dir[t] /\ dupOf'[t] = dupOf[t],
           pc[s] # "delete_dup", event'[s] \notin Handling
    PROVE  CountInv'
<1>1. \A t \in Servers : Quiet(t)
  BY DEF Quiet
<1> QED BY <1>1, QuietKeeps

\* Nothing is counted before run_post_create() waits.
LEMMA CountRequest ==
    ASSUME IInv, IInv', CountInv, NEW s \in Servers, Request(s)
    PROVE  CountInv'
<1>0. pc[s] = "request" /\ event[s] = "none" /\ pc \in [Servers -> PCs] /\ dir \in [Servers -> Dirs \cup {NoDir}]
  BY DEF Request, reject_request, delete_path, create_problem_dir, creation_notification, IInv, TypeOK, ServerInv, ServerOK
<1>1. CASE reject_request(s) \/ \E d \in Dirs : delete_path(s, d) \/ creation_notification(s, d)
  <2>1. /\ UNCHANGED <<count, created, hasId, event, dupOf>> /\ exists' \subseteq exists
        /\ \A t \in Servers \ {s} : pc'[t] = pc[t] /\ dir'[t] = dir[t]
    BY <1>0, <1>1 DEF reject_request, delete_path, creation_notification, Exit, Discard, eventVars, dumpVars, histVars
  <2> QED BY <1>0, <2>1, ServerQuiet DEF Handling
<1>2. CASE \E d \in Dirs : create_problem_dir(s, d)
  <2>1. PICK d \in Dirs : create_problem_dir(s, d)
    BY <1>2
  <2>2. /\ AddDir(d) /\ UNCHANGED <<count, event, dupOf>> /\ pc'[s] # "delete_dup"
        /\ \A t \in Servers \ {s} : pc'[t] = pc[t] /\ dir'[t] = dir[t]
    BY <1>0, <2>1 DEF create_problem_dir, eventVars
  <2>3. \A t \in Servers : Quiet(t)
    BY <1>0, <2>2 DEF Quiet, Handling
  <2>4. Leaving' \subseteq Leaving
    BY <2>2 DEF Leaving
  <2> QED BY <2>2, <2>3, <2>4, AddDirKeeps
<1> QED BY <1>1, <1>2 DEF Request

\* The steps of run_post_create() and of its events.
LEMMA CountServe ==
    ASSUME IInv, IInv', CountInv, NEW s \in Servers, Serve(s), Stubborn = {}
    PROVE  CountInv'
<1>0. pc \in [Servers -> PCs] /\ event \in [Servers -> Events] /\ (event[s] # "none" => pc[s] = "post_create")
  BY DEF IInv, TypeOK, ServerInv, ServerOK
<1>1. CASE trim_problem_dirs(s) \/ refuse_dir(s) \/ delete_provoked_dir(s) \/ keep_provoked_dir(s)
           \/ emit_new_problem_signal(s) \/ interrupted(s) \/ delete_bad_dir(s) \/ notified(s)
  <2>1. pc[s] \in {"trim", "check", "wait", "delete_bad_dir", "notify", "notify_dup"}
    BY <1>1 DEF trim_problem_dirs, refuse_dir, delete_provoked_dir, keep_provoked_dir, emit_new_problem_signal,
       interrupted, delete_bad_dir, notified
  <2>2. UNCHANGED <<count, created, hasId, event, dupOf, dir>>
    BY <1>1 DEF trim_problem_dirs, refuse_dir, delete_provoked_dir, keep_provoked_dir, emit_new_problem_signal,
       interrupted, delete_bad_dir, notified, eventVars, dumpVars, histVars
  <2>3. exists' \subseteq exists
    BY <1>1 DEF trim_problem_dirs, refuse_dir, delete_provoked_dir, keep_provoked_dir, emit_new_problem_signal,
       interrupted, delete_bad_dir, notified, dumpVars, Delete, Discard
  <2>4. \A t \in Servers \ {s} : pc'[t] = pc[t]
    BY <1>0, <1>1 DEF trim_problem_dirs, refuse_dir, delete_provoked_dir, keep_provoked_dir, emit_new_problem_signal,
       interrupted, delete_bad_dir, notified, Exit
  <2> QED BY <1>0, <2>1, <2>2, <2>3, <2>4, ServerQuiet DEF Handling
<1>2. CASE spawn_post_create(s) \/ run_event_fails(s) \/ post_create_failed(s)
  <2>1. /\ UNCHANGED <<count, created, hasId, dupOf, dir, exists>> /\ event'[s] \in {"running", "failed", "none"}
        /\ \A t \in Servers \ {s} : event'[t] = event[t]
    BY <1>0, <1>2 DEF spawn_post_create, run_event_fails, post_create_failed, serverVars, dumpVars, histVars
  <2>2. pc[s] # "delete_dup" /\ \A t \in Servers \ {s} : pc'[t] = pc[t]
    BY <1>0, <1>2 DEF spawn_post_create, run_event_fails, post_create_failed, serverVars
  <2> QED BY <2>1, <2>2, ServerQuiet DEF Handling
<1> QED BY <1>1, <1>2, ScanKeeps, CountNewKeeps, CountDupKeeps, DeleteDupKeeps DEF Serve

\* What hooks do to the directories beside abrt-server.
LEMMA CountHooks ==
    ASSUME IInv, IInv', CountInv, NEW d \in Dirs, hook_saves_dir(d) \/ hook_trims(d) \/ orphan_ends(d)
    PROVE  CountInv'
<1>1. UNCHANGED <<count, event, dir, dupOf, pc>>
  BY DEF hook_saves_dir, hook_trims, orphan_ends, eventVars, serverVars
<1>2. (\A t \in Servers : Quiet(t)) /\ Leaving' = Leaving
  BY <1>1 DEF Quiet, Leaving
<1>3. CASE hook_saves_dir(d)
  BY <1>1, <1>2, <1>3, AddDirKeeps DEF hook_saves_dir
<1>4. CASE hook_trims(d) \/ orphan_ends(d)
  <2>1. created' = created /\ exists' \subseteq exists /\ hasId \subseteq hasId'
    BY <1>4 DEF hook_trims, orphan_ends, Discard, histVars
  <2> QED BY <1>1, <1>2, <2>1, QuietKeeps
<1> QED BY <1>3, <1>4

\* Without deaths, restarts and deletions that fail: a server that dies between the
\* count and the deletion, or cannot delete, leaves a directory that is counted again.
Undisturbed == ~MayCrash /\ MaxRestarts = 0 /\ Stubborn = {}

\* So every step keeps the sums.
LEMMA CountNext == Undisturbed /\ IInv /\ IInv' /\ CountInv /\ [Next]_vars => CountInv'
<1> SUFFICES ASSUME ~MayCrash, MaxRestarts = 0, Stubborn = {}, IInv, IInv', CountInv, [Next]_vars
             PROVE  CountInv'
  BY DEF Undisturbed
<1>1. ~restart
  BY DEF restart, IInv, TypeOK
<1>2. \A s \in Servers : ~crash(s)
  BY DEF crash
<1>3. CASE UNCHANGED vars
  <2>1. UNCHANGED <<count, created, exists, hasId, event, dir, dupOf, pc>>
    BY <1>3 DEF vars, serverVars, eventVars, dumpVars, histVars
  <2>2. \A t \in Servers : Quiet(t)
    BY <2>1 DEF Quiet
  <2> QED BY <2>1, <2>2, QuietKeeps
<1> QED BY <1>1, <1>2, <1>3, CountAbrtd, CountRequest, CountServe, CountHooks DEF Next

\* What the theorem says, in terms of the invariant.
LEMMA SumIs ==
    ASSUME NEW p, SumInv(p)
    PROVE  LET saved == {d \in created : IssueOf[d] = p}
               kept  == saved \cap exists IN
           MapThenSumSet(LAMBDA d : count[d], kept) <= Cardinality(saved)
  BY DEF SumInv, SumOver, KeptDirs, SavedDirs

\* However often a directory is announced, and whichever directory is found to be the
\* duplicate of which, while no server is killed and no deletion fails the
\* occurrences that run_post_create() counts in the directories of a problem are not
\* more than were saved for it.
THEOREM CountsNotInflated == Spec => [](Undisturbed => CountNotInflated)
<1> DEFINE Good == Undisturbed => CountInv
<1>1. Init => Good
  BY CountInit
<1>2. IInv /\ IInv' /\ Good /\ [Next]_vars => Good'
  BY CountNext DEF Undisturbed
<1>3. Good => (Undisturbed => CountNotInflated)
  BY SumIs DEF CountInv, CountNotInflated
<1> HIDE DEF Good
<1> QED BY <1>1, <1>2, <1>3, Invariance, PTL DEF Spec

-----------------------------------------------------------------------------

\* MAX() of two numbers.
LEMMA LargerOf ==
    ASSUME NEW x \in Int, NEW y \in Int
    PROVE  Max({x, y}) = IF x >= y THEN x ELSE y
<1> DEFINE m == IF x >= y THEN x ELSE y
<1>1. m \in {x, y} /\ \A z \in {x, y} : m >= z
    OBVIOUS
<1>2. \A k \in {x, y} : (\A z \in {x, y} : k >= z) => k = m
    OBVIOUS
<1>3. Max({x, y}) \in {x, y} /\ \A z \in {x, y} : Max({x, y}) >= z
    BY <1>1 DEF Max
<1> QED
    BY <1>2, <1>3

\* MIN() of two numbers.
LEMMA SmallerOf ==
    ASSUME NEW x \in Int, NEW y \in Int
    PROVE  Min({x, y}) = IF x <= y THEN x ELSE y
<1> DEFINE m == IF x <= y THEN x ELSE y
<1>1. m \in {x, y} /\ \A z \in {x, y} : m <= z
    OBVIOUS
<1>2. \A k \in {x, y} : (\A z \in {x, y} : k <= z) => k = m
    OBVIOUS
<1>3. Min({x, y}) \in {x, y} /\ \A z \in {x, y} : Min({x, y}) <= z
    BY <1>1 DEF Min
<1> QED
    BY <1>2, <1>3

EntryTypes ==
    /\ present \subseteq Names /\ size \in [Names -> Nat]
    /\ lock \in Callers \cup {Nobody}
    /\ dd_size \in Int /\ dd_items \in Nat /\ start_size \in Nat /\ start_items \in Nat
    /\ copy_failed \in BOOLEAN

\* New elements are counted also when they are not saved in the end.
CountedInv == lock # Nobody => Cardinality(present) <= dd_items

EntryInv == EntryTypes /\ CountedInv /\ LimitsKept

\* Elements can be counted.
LEMMA EntryCounts ==
    ASSUME NEW S \in SUBSET Names
    PROVE  IsFiniteSet(S) /\ Cardinality(S) \in Nat
BY SizesAssumption, FS_Subset, FS_CardinalityType

\* dd_compute_size() is a sum over the elements.
LEMMA TotalIs == TotalSize = SumOver(size, present)
BY DEF TotalSize, SumOver

\* So it is after a step.
LEMMA TotalNext == TotalSize' = SumOver(size', present')
BY DEF TotalSize, SumOver, MapThenSumSet, MapThenFoldSet

\* The size of a directory is a number.
LEMMA TotalNat ==
    ASSUME EntryTypes
    PROVE  TotalSize \in Nat
BY TotalIs, SumFacts, SizesAssumption DEF EntryTypes

\* What a write does to the size and the number of the elements.
LEMMA WriteAdds ==
    ASSUME EntryTypes, NEW n \in Names, NEW s \in Nat, Write(n, s)
    PROVE  /\ present' \subseteq Names /\ size' \in [Names -> Nat]
           /\ SizeOf(n) \in Nat /\ SizeOf(n) <= TotalSize
           /\ TotalSize' = TotalSize - SizeOf(n) + s
           /\ Cardinality(present') = IF n \in present THEN Cardinality(present) ELSE Cardinality(present) + 1
<1> DEFINE rest == present \ {n}
<1>0. IsFiniteSet(Names) /\ present \in SUBSET Names /\ rest \in SUBSET Names /\ size \in [Names -> Nat]
    BY SizesAssumption DEF EntryTypes
<1>1. present' \in SUBSET Names /\ size' \in [Names -> Nat] /\ size'[n] = s /\ present' = present \cup {n}
      /\ \A m \in rest : size[m] = size'[m]
    BY <1>0 DEF Write
<1>2. present' \ {n} = rest /\ n \in present'
    BY <1>1
<1>3. TotalSize' = SumOver(size', present')
    BY TotalNext
<1>4. SumOver(size', present') = s + SumOver(size', rest)
    BY <1>0, <1>1, <1>2, SumFacts
<1>5. SumOver(size, rest) = SumOver(size', rest)
    BY <1>0, <1>1, SumSame
<1>6. SumOver(size, rest) \in Nat
    BY <1>0, SumFacts
<1>7. TotalSize = SizeOf(n) + SumOver(size, rest) /\ SizeOf(n) \in Nat
    <2>1. CASE n \in present
        <3>1. SumOver(size, present) = size[n] + SumOver(size, rest)
            BY <1>0, <2>1, SumFacts
        <3> QED
            BY <1>0, <2>1, <3>1, TotalIs DEF SizeOf
    <2>2. CASE n \notin present
        <3>1. rest = present
            BY <2>2
        <3> QED
            BY <1>6, <2>2, <3>1, TotalIs DEF SizeOf
    <2> QED
        BY <2>1, <2>2
<1>8. Cardinality(present') = IF n \in present THEN Cardinality(present) ELSE Cardinality(present) + 1
    <2>1. IsFiniteSet(present)
        BY <1>0, EntryCounts
    <2> QED
        BY <1>1, <2>1, FS_AddElement
<1> QED
    BY <1>1, <1>3, <1>4, <1>5, <1>6, <1>7, <1>8

\* What a call still holds to when it goes on, and what is left when it ends.
LEMMA CallEnds ==
    ASSUME EntryInv, EndCall, present' \subseteq Names, size' \in [Names -> Nat],
           dd_size' \in Int, dd_items' \in Nat, copy_failed' \in BOOLEAN
    PROVE  EntryInv'
BY DEF EntryInv, EntryTypes, CountedInv, LimitsKept, EndCall

\* An element that was written within the limits, or skipped, leaves the call in order.
LEMMA CallGoesOn ==
    ASSUME EntryInv, NextElement, present' \subseteq Names, size' \in [Names -> Nat],
           dd_size' \in Int, dd_items' \in Nat, copy_failed' \in BOOLEAN, lock # Nobody,
           Cardinality(present') <= dd_items',
           lock # Root => Cardinality(present') <= Max({ElementsLimit, start_items}),
           ~copy_failed' => dd_size' = TotalSize',
           lock # Root /\ ~copy_failed' => TotalSize' <= Max({DataSizeLimit, start_size})
    PROVE  EntryInv'
<1>1. UNCHANGED <<lock, start_size, start_items>>
    BY DEF NextElement
<1>2. EntryTypes' /\ CountedInv'
    BY <1>1 DEF EntryInv, EntryTypes, CountedInv
<1>3. LimitsKept'
    BY <1>1 DEF LimitsKept
<1> QED
    BY <1>2, <1>3 DEF EntryInv

\* A call that skips an element it has counted, if it is new, and left everything else.
LEMMA SkipKeeps ==
    ASSUME EntryInv, NEW flag, Skip(flag), lock # Nobody, UNCHANGED <<dirVars, dd_size, copy_failed>>,
           dd_items' \in Nat, dd_items' >= dd_items
    PROVE  EntryInv'
<1>1. UNCHANGED <<present, size>> /\ TotalSize' = TotalSize
    BY TotalIs, TotalNext DEF dirVars
<1>2. Cardinality(present) \in Nat
    BY EntryCounts DEF EntryInv, EntryTypes
<1>3. Cardinality(present') <= dd_items'
    BY <1>1, <1>2 DEF EntryInv, EntryTypes, CountedInv
<1>4. CASE EndCall
    BY <1>1, <1>4, CallEnds DEF EntryInv, EntryTypes
<1>5. CASE NextElement
    <2>1. /\ present' \subseteq Names /\ size' \in [Names -> Nat] /\ dd_size' \in Int /\ copy_failed' \in BOOLEAN
          /\ lock # Root => Cardinality(present') <= Max({ElementsLimit, start_items})
          /\ ~copy_failed' => dd_size' = TotalSize'
          /\ lock # Root /\ ~copy_failed' => TotalSize' <= Max({DataSizeLimit, start_size})
        BY <1>1 DEF EntryInv, EntryTypes, LimitsKept
    <2> QED
        BY <1>3, <1>5, <2>1, CallGoesOn
<1> QED
    BY <1>4, <1>5 DEF Skip

\* The limit of elements holds after a write.
LEMMA ElementsKept ==
    ASSUME EntryInv, lock # Nobody, NEW n \in Names, NEW s \in Nat, ~TooManyElements(n), CountItem(n), Write(n, s)
    PROVE  /\ dd_items' \in Nat /\ Cardinality(present') <= dd_items'
           /\ lock # Root => Cardinality(present') <= Max({ElementsLimit, start_items})
<1>1. Cardinality(present) \in Nat /\ Cardinality(present) <= dd_items /\ dd_items \in Nat /\ start_items \in Nat
      /\ ElementsLimit \in Nat \ {0}
    BY EntryCounts, SizesAssumption DEF EntryInv, EntryTypes, CountedInv
<1>2. Cardinality(present') = IF n \in present THEN Cardinality(present) ELSE Cardinality(present) + 1
    BY WriteAdds DEF EntryInv
<1>3. lock # Root => Cardinality(present) <= Max({ElementsLimit, start_items})
    BY DEF EntryInv, LimitsKept
<1>4. Max({ElementsLimit, start_items}) = IF ElementsLimit >= start_items THEN ElementsLimit ELSE start_items
    BY <1>1, LargerOf
<1>5. lock # Root /\ n \notin present => dd_items < ElementsLimit
    BY <1>1 DEF TooManyElements, elements_limit
<1> QED
    BY <1>1, <1>2, <1>3, <1>4, <1>5 DEF CountItem

\* A write that is measured and fits.
LEMMA FittingWrite ==
    ASSUME EntryInv, lock # Nobody, NEW n \in Names, NEW s \in Nat, ~TooManyElements(n), CountItem(n), Write(n, s),
           UNCHANGED copy_failed, dd_size' = BaseSize(n) + s, NextElement,
           lock # Root => s <= SizeOf(n) \/ BaseSize(n) + s <= DataSizeLimit
    PROVE  EntryInv'
<1>0. EntryTypes
    BY DEF EntryInv
<1>1. /\ present' \subseteq Names /\ size' \in [Names -> Nat]
      /\ SizeOf(n) \in Nat /\ TotalSize' = TotalSize - SizeOf(n) + s /\ TotalSize \in Nat
    BY <1>0, WriteAdds, TotalNat
<1>2. dd_size \in Int /\ start_size \in Nat /\ DataSizeLimit \in Nat /\ copy_failed \in BOOLEAN
    BY <1>0, SizesAssumption DEF EntryTypes
<1>3. dd_size' = (dd_size - SizeOf(n)) + s /\ dd_size' \in Int
    BY <1>1, <1>2 DEF BaseSize
<1>4. ~copy_failed => dd_size = TotalSize
    BY DEF EntryInv, LimitsKept
<1>5. Max({DataSizeLimit, start_size}) = IF DataSizeLimit >= start_size THEN DataSizeLimit ELSE start_size
    BY <1>2, LargerOf
<1>6. lock # Root /\ ~copy_failed => TotalSize <= Max({DataSizeLimit, start_size})
    BY DEF EntryInv, LimitsKept
<1>7. ~copy_failed' => dd_size' = TotalSize'
    BY <1>1, <1>2, <1>3, <1>4
<1>8. lock # Root /\ ~copy_failed' => TotalSize' <= Max({DataSizeLimit, start_size})
    <2> SUFFICES ASSUME lock # Root, ~copy_failed' PROVE TotalSize' <= Max({DataSizeLimit, start_size})
        OBVIOUS
    <2>1. dd_size = TotalSize /\ TotalSize <= Max({DataSizeLimit, start_size})
        BY <1>4, <1>6
    <2>2. CASE s <= SizeOf(n)
        BY <1>1, <1>2, <1>5, <2>1, <2>2
    <2>3. CASE BaseSize(n) + s <= DataSizeLimit
        BY <1>1, <1>2, <1>5, <2>1, <2>3 DEF BaseSize
    <2> QED
        BY <2>2, <2>3
<1>9. /\ dd_items' \in Nat /\ Cardinality(present') <= dd_items'
      /\ lock # Root => Cardinality(present') <= Max({ElementsLimit, start_items})
    BY ElementsKept
<1> QED
    BY <1>1, <1>2, <1>3, <1>7, <1>8, <1>9, CallGoesOn

\* What a user may copy from a descriptor fits into the room that is left, or is not more than the element it replaces.
LEMMA MaxCopyNat ==
    ASSUME EntryInv, NEW n \in Names
    PROVE  /\ MaxCopy(n) \in Nat /\ BaseSize(n) \in Int
           /\ lock # Root => MaxCopy(n) <= SizeOf(n) \/ BaseSize(n) + MaxCopy(n) <= DataSizeLimit
<1>1. SizeOf(n) \in Nat /\ dd_size \in Int
    BY DEF EntryInv, EntryTypes, SizeOf
<1>2. data_size_limit(lock) \in Nat /\ (lock # Root => data_size_limit(lock) = DataSizeLimit)
    BY SizesAssumption DEF data_size_limit
<1>3. BaseSize(n) \in Int
    BY <1>1 DEF BaseSize
<1> QED
    BY <1>1, <1>2, <1>3 DEF MaxCopy

\* Saving a string or an array of bytes.
LEMMA SaveDataKeeps ==
    ASSUME EntryInv, lock # Nobody, NEW n \in Names, NEW s \in Sizes, save_data(n, s)
    PROVE  EntryInv'
<1>0. s \in Nat /\ dd_items \in Nat /\ (lock # Root => data_size_limit(lock) = DataSizeLimit /\ DataSizeLimit # 0)
      /\ DataSizeLimit \in Nat
    BY SizesAssumption DEF EntryInv, EntryTypes, data_size_limit
<1>1. CASE TooBig(n, s) /\ Skip("size") /\ UNCHANGED <<dirVars, dd_size>>
    <2>1. dd_items' \in Nat /\ dd_items' >= dd_items
        BY <1>0 DEF save_data, CountItem
    <2> QED
        BY <1>1, <2>1, SkipKeeps DEF save_data
<1>2. CASE ~TooBig(n, s) /\ Write(n, s) /\ dd_size' = BaseSize(n) + s /\ NextElement
    <2>1. BaseSize(n) \in Int /\ SizeOf(n) \in Nat
        BY MaxCopyNat DEF EntryInv, EntryTypes, SizeOf
    <2>2. lock # Root => s <= SizeOf(n) \/ BaseSize(n) + s <= DataSizeLimit
        BY <1>0, <1>2, <2>1 DEF TooBig
    <2> QED
        BY <1>0, <1>2, <2>2, FittingWrite DEF save_data
<1> QED
    BY <1>1, <1>2 DEF save_data

\* Copying from a descriptor, to its end, to the limit or to an error.
LEMMA SaveFdKeeps ==
    ASSUME EntryInv, lock # Nobody, NEW n \in Names, NEW s \in Sizes, save_fd(n, s) \/ save_fd_fails(n, s)
    PROVE  EntryInv'
<1> DEFINE t == Min({s, MaxCopy(n)})
<1>0. /\ s \in Nat /\ MaxCopy(n) \in Nat /\ BaseSize(n) \in Int /\ DataSizeLimit \in Nat /\ SizeOf(n) \in Nat
      /\ lock # Root => MaxCopy(n) <= SizeOf(n) \/ BaseSize(n) + MaxCopy(n) <= DataSizeLimit
    BY MaxCopyNat, SizesAssumption DEF EntryInv, EntryTypes, SizeOf
<1>1. t = (IF s <= MaxCopy(n) THEN s ELSE MaxCopy(n)) /\ t \in Nat
    BY <1>0, SmallerOf
<1> HIDE DEF t
<1>2. ~TooManyElements(n) /\ CountItem(n) /\ Write(n, t)
    BY DEF save_fd, save_fd_fails, t
<1>3. /\ present' \subseteq Names /\ size' \in [Names -> Nat]
      /\ dd_items' \in Nat /\ Cardinality(present') <= dd_items'
      /\ lock # Root => Cardinality(present') <= Max({ElementsLimit, start_items})
    BY <1>1, <1>2, WriteAdds, ElementsKept DEF EntryInv
<1>4. lock # Root => t <= SizeOf(n) \/ BaseSize(n) + t <= DataSizeLimit
    BY <1>0, <1>1
<1>5. CASE save_fd(n, s)
    <2>1. UNCHANGED copy_failed /\ copy_failed \in BOOLEAN /\ dd_size \in Int
        BY <1>5 DEF save_fd, EntryInv, EntryTypes
    <2>2. CASE EndCall /\ dd_size' \in Int
        BY <1>3, <2>1, <2>2, CallEnds
    <2>3. CASE NextElement /\ dd_size' = BaseSize(n) + t
        BY <1>1, <1>2, <1>4, <2>1, <2>3, FittingWrite
    <2>4. CASE s >= MaxCopy(n)
        <3>1. t = MaxCopy(n)
            BY <1>0, <1>1, <2>4
        <3>2. CASE "size" \in fatal
            BY <1>5, <2>1, <2>2, <2>4, <3>2 DEF save_fd, Skip
        <3>3. CASE "size" \notin fatal
            BY <1>5, <2>3, <2>4, <3>1, <3>3 DEF save_fd, Skip
        <3> QED
            BY <3>2, <3>3
    <2>5. CASE ~(s >= MaxCopy(n))
        <3>1. t = s
            BY <1>0, <1>1, <2>5
        <3> QED
            BY <1>5, <2>3, <2>5, <3>1 DEF save_fd
    <2> QED
        BY <2>4, <2>5
<1>6. CASE save_fd_fails(n, s)
    <2>1. copy_failed' = TRUE /\ dd_size' = dd_size /\ dd_size \in Int /\ (EndCall \/ NextElement)
        BY <1>6 DEF save_fd_fails, Skip, EntryInv, EntryTypes
    <2>2. CASE EndCall
        BY <1>3, <2>1, <2>2, CallEnds
    <2>3. CASE NextElement
        BY <1>3, <2>1, <2>3, CallGoesOn
    <2> QED
        BY <2>1, <2>2, <2>3
<1> QED
    BY <1>5, <1>6

\* Every step of a call, of a deletion and of other programs keeps the invariant.
LEMMA EntryInductive == EntryInv /\ [EntryNext]_entryVars => EntryInv'
<1> SUFFICES ASSUME EntryInv, [EntryNext]_entryVars PROVE EntryInv'
    OBVIOUS
<1>0. EntryTypes /\ TotalSize \in Nat /\ Cardinality(present) \in Nat
      /\ ElementsLimit \in Nat /\ DataSizeLimit \in Nat
    BY TotalNat, EntryCounts, SizesAssumption DEF EntryInv, EntryTypes
<1>1. ASSUME NEW c \in Callers, save_elements(c) PROVE EntryInv'
    <2>1. /\ present' = present /\ size' = size /\ lock' = c
          /\ dd_size' = TotalSize /\ start_size' = TotalSize
          /\ dd_items' = Cardinality(present) /\ start_items' = Cardinality(present) /\ copy_failed' = FALSE
        BY <1>1 DEF save_elements, dirVars
    <2>2. TotalSize' = TotalSize
        BY <2>1, TotalIs, TotalNext
    <2>3. EntryTypes'
        <3>1. dd_size' \in Int /\ start_size' \in Nat /\ dd_items' \in Nat /\ start_items' \in Nat
            BY <1>0, <2>1
        <3>2. present' \subseteq Names /\ size' \in [Names -> Nat] /\ lock' \in Callers \cup {Nobody} /\ copy_failed' \in BOOLEAN
            BY <1>0, <2>1 DEF EntryTypes
        <3> QED
            BY <3>1, <3>2 DEF EntryTypes
    <2>4. CountedInv'
        BY <1>0, <2>1 DEF CountedInv
    <2>5. Cardinality(present) <= Max({ElementsLimit, Cardinality(present)})
        BY <1>0, LargerOf
    <2>6. TotalSize <= Max({DataSizeLimit, TotalSize})
        BY <1>0, LargerOf
    <2>7. LimitsKept'
        BY <2>1, <2>2, <2>5, <2>6 DEF LimitsKept
    <2> QED
        BY <2>3, <2>4, <2>7 DEF EntryInv
<1>2. CASE save_elements_in_dump_dir
    <2>0. lock # Nobody /\ dd_items \in Nat
        BY <1>0, <1>2 DEF save_elements_in_dump_dir, EntryTypes
    <2>1. CASE element_prohibited
        BY <1>0, <2>1, CallEnds DEF element_prohibited, dirVars, EntryTypes
    <2>2. ASSUME NEW n \in Names, too_many_elements(n) PROVE EntryInv'
        BY <2>0, <2>2, SkipKeeps DEF too_many_elements
    <2>3. ASSUME NEW n \in Names, element_unsupported(n) PROVE EntryInv'
        <3>1. dd_items' \in Nat /\ dd_items' >= dd_items
            BY <2>0, <2>3 DEF element_unsupported, CountItem
        <3> QED
            BY <2>0, <2>3, <3>1, SkipKeeps DEF element_unsupported
    <2> QED
        BY <1>2, <2>0, <2>1, <2>2, <2>3, SaveDataKeeps, SaveFdKeeps DEF save_elements_in_dump_dir
<1>3. CASE elements_saved
    BY <1>0, <1>3, CallEnds DEF elements_saved, dirVars, EntryTypes
<1>4. ASSUME lock = Nobody, UNCHANGED <<callVars, dd_size, dd_items, copy_failed>>,
             present' \subseteq Names, size' \in [Names -> Nat]
      PROVE  EntryInv'
    BY <1>0, <1>4 DEF EntryInv, EntryTypes, CountedInv, LimitsKept, callVars
<1>5. ASSUME NEW ns \in SUBSET Names, delete_elements(ns) PROVE EntryInv'
    BY <1>0, <1>4, <1>5 DEF delete_elements, EntryTypes
<1>6. ASSUME NEW n \in Names, NEW s \in Sizes, other_writes(n, s) PROVE EntryInv'
    <2>1. s \in Nat
        BY SizesAssumption
    <2> QED
        BY <1>0, <1>4, <1>6, <2>1 DEF other_writes, Write, EntryTypes
<1>7. CASE UNCHANGED entryVars
    <2>1. TotalSize' = TotalSize
        BY <1>7, TotalIs, TotalNext DEF entryVars, dirVars
    <2> QED
        BY <1>7, <2>1 DEF entryVars, dirVars, callVars, EntryInv, EntryTypes, CountedInv, LimitsKept
<1> QED
    BY <1>1, <1>2, <1>3, <1>5, <1>6, <1>7 DEF EntryNext, Save

\* The invariant holds of an empty directory with no call.
LEMMA EntryInitInv == EntryInit => EntryInv
<1> SUFFICES ASSUME EntryInit PROVE EntryInv
    OBVIOUS
<1>1. EntryTypes
    <2>1. copy_failed \in BOOLEAN
        BY DEF EntryInit
    <2>2. /\ present \subseteq Names /\ size \in [Names -> Nat] /\ lock \in Callers \cup {Nobody}
          /\ dd_size \in Int /\ dd_items \in Nat /\ start_size \in Nat /\ start_items \in Nat
        BY DEF EntryInit
    <2> QED
        BY <2>1, <2>2 DEF EntryTypes
<1>2. CountedInv /\ LimitsKept
    BY DEF EntryInit, CountedInv, LimitsKept
<1> QED
    BY <1>1, <1>2 DEF EntryInv

\* What the sizes and counts that SaveElements keeps up by hand have to do with the
\* directory.
THEOREM EntryInvariance == EntrySpec => []EntryInv
<1>1. EntryInit => EntryInv
    BY EntryInitInv
<1>2. EntryInv /\ [EntryNext]_entryVars => EntryInv'
    BY EntryInductive
<1> QED
    BY <1>1, <1>2, PTL DEF EntrySpec

\* However a call of SaveElements replaces, truncates and skips elements, a user's
\* directory grows past the limits only as far as it was past them before, and the size
\* kept up by hand is the sum of the elements.
THEOREM LimitsAreKept == EntrySpec => []LimitsKept
<1>1. EntryInv => LimitsKept
    BY DEF EntryInv
<1> QED
    BY <1>1, EntryInvariance, PTL
-----------------------------------------------------------------------------

\* Induction over the natural numbers, for a set.
LEMMA NatInduct ==
    ASSUME NEW T, 0 \in T, \A n \in Nat : n \in T => n + 1 \in T
    PROVE  Nat \subseteq T
<1> DEFINE C == Nat \ T
<1> SUFFICES ASSUME C # {} PROVE FALSE
    OBVIOUS
<1>1. PICK x \in C : \A y \in C : x <= y
    BY NatLeast
<1>2. x - 1 \in Nat /\ x - 1 \in T
    BY <1>1
<1> QED
    BY <1>1, <1>2

\* What ReadElements has collected fits into a message.
Fits(r) ==
    /\ r \in [fds : Nat, loaded : Nat, got : SUBSET Names]
    /\ r.fds <= MaxUnixFds /\ r.loaded <= MaxMessageSize

\* One turn of the loop of ReadElements keeps the answer within a message.
LEMMA ReadOneFits ==
    ASSUME EntryTypes, NEW r, Fits(r), NEW n \in Names, NEW flags
    PROVE  Fits(ReadOne(r, n, flags))
<1>1. size[n] \in Nat /\ MaxUnixFds \in Nat /\ MaxMessageSize \in Nat
    BY SizesAssumption DEF EntryTypes
<1>2. r \in [fds : Nat, loaded : Nat, got : SUBSET Names] /\ r.fds <= MaxUnixFds /\ r.loaded <= MaxMessageSize
    BY DEF Fits
<1>3. CASE ReadOne(r, n, flags) = r
    BY <1>3
<1>4. CASE r.fds # MaxUnixFds /\ ReadOne(r, n, flags) = [r EXCEPT !.fds = @ + 1, !.got = @ \cup {n}]
    <2> DEFINE q == [r EXCEPT !.fds = @ + 1, !.got = @ \cup {n}]
    <2>1. q.fds = r.fds + 1 /\ q.loaded = r.loaded
        BY <1>2
    <2>3. q \in [fds : Nat, loaded : Nat, got : SUBSET Names]
        <3>1. r.fds + 1 \in Nat /\ r.got \cup {n} \in SUBSET Names
            BY <1>2
        <3> QED
            BY <1>2, <3>1
    <2>2. r.fds + 1 <= MaxUnixFds
        BY <1>1, <1>2, <1>4
    <2> QED
        BY <1>2, <1>4, <2>1, <2>2, <2>3 DEF Fits
<1>5. CASE /\ ~(size[n] > MaxMessageSize \/ r.loaded > MaxMessageSize - size[n])
           /\ ReadOne(r, n, flags) = [r EXCEPT !.loaded = @ + size[n], !.got = @ \cup {n}]
    <2> DEFINE q == [r EXCEPT !.loaded = @ + size[n], !.got = @ \cup {n}]
    <2>1. q.fds = r.fds /\ q.loaded = r.loaded + size[n]
        BY <1>2
    <2>3. q \in [fds : Nat, loaded : Nat, got : SUBSET Names]
        <3>1. r.loaded + size[n] \in Nat /\ r.got \cup {n} \in SUBSET Names
            BY <1>1, <1>2
        <3> QED
            BY <1>2, <3>1
    <2>2. r.loaded + size[n] <= MaxMessageSize
        BY <1>1, <1>2, <1>5
    <2> QED
        BY <1>2, <1>5, <2>1, <2>2, <2>3 DEF Fits
<1> QED
    BY <1>3, <1>4, <1>5 DEF ReadOne

\* The loop over the names ends with what fits, for a sequence of any length.
LEMMA ReadFits ==
    ASSUME EntryTypes, NEW names \in Seq(Names), NEW flags
    PROVE  Fits(read_elements(names, flags))
<1> DEFINE N == Len(names)
           Body(g, i) == IF i = 0 THEN Empty ELSE ReadOne(g[i - 1], names[i], flags)
           Loop(n, g) == g = [i \in 0 .. n |-> Body(g, i)]
           read == CHOOSE g : Loop(N, g)
           T == {n \in Nat : \E g : Loop(n, g)}
           F == {n \in Nat : n <= N => Fits(read[n])}
<1>0. N \in Nat /\ \A i \in 1 .. N : names[i] \in Names
    OBVIOUS
<1>1. read_elements(names, flags) = read[N]
    BY DEF read_elements
<1>2. Nat \subseteq T
    <2>1. 0 \in T
        <3>1. Loop(0, [i \in 0 .. 0 |-> Empty])
            OBVIOUS
        <3> QED
            BY <3>1
    <2>2. ASSUME NEW n \in Nat, n \in T PROVE n + 1 \in T
        <3>1. PICK g : Loop(n, g)
            BY <2>2
        <3> DEFINE h == [i \in 0 .. (n + 1) |-> IF i = n + 1 THEN ReadOne(g[n], names[n + 1], flags) ELSE g[i]]
        <3>2. \A i \in 0 .. n : g[i] = Body(g, i)
            BY <3>1
        <3>3. ASSUME NEW i \in 0 .. (n + 1) PROVE h[i] = Body(h, i)
            <4>1. CASE i = n + 1
                <5>1. h[i] = ReadOne(g[n], names[n + 1], flags) /\ h[n] = g[n] /\ i - 1 = n /\ i # 0
                    BY <4>1
                <5> QED
                    BY <4>1, <5>1
            <4>2. CASE i # n + 1 /\ i # 0
                <5>1. i \in 0 .. n /\ i - 1 \in 0 .. n /\ h[i] = g[i] /\ h[i - 1] = g[i - 1]
                    BY <4>2
                <5> QED
                    BY <3>2, <4>2, <5>1
            <4>3. CASE i = 0
                BY <3>2, <4>3
            <4> QED
                BY <4>1, <4>2, <4>3
        <3>4. Loop(n + 1, h)
            BY <3>3
        <3> HIDE DEF h
        <3>5. \E k : Loop(n + 1, k)
            BY <3>4
        <3>6. n + 1 \in Nat
            OBVIOUS
        <3> QED
            BY <3>5, <3>6
    <2> HIDE DEF T
    <2> QED
        BY <2>1, <2>2, NatInduct
<1>3. \A i \in 0 .. N : read[i] = Body(read, i)
    <2>1. \E g : Loop(N, g)
        BY <1>0, <1>2
    <2>2. Loop(N, read)
        BY <2>1
    <2> HIDE DEF read
    <2> QED
        BY <2>2
<1> HIDE DEF read
<1>4. Nat \subseteq F
    <2>1. 0 \in F
        <3>1. read[0] = Empty
            BY <1>0, <1>3
        <3>2. Fits(Empty)
            BY SizesAssumption DEF Fits, Empty
        <3> QED
            BY <3>1, <3>2
    <2>2. ASSUME NEW n \in Nat, n \in F PROVE n + 1 \in F
        <3> SUFFICES ASSUME n + 1 <= N PROVE Fits(read[n + 1])
            OBVIOUS
        <3>1. n + 1 \in 0 .. N /\ n + 1 \in 1 .. N /\ n + 1 # 0 /\ (n + 1) - 1 = n /\ n <= N
            BY <1>0
        <3>2. read[n + 1] = ReadOne(read[n], names[n + 1], flags)
            BY <1>3, <3>1
        <3>3. Fits(read[n]) /\ names[n + 1] \in Names
            BY <1>0, <2>2, <3>1
        <3> QED
            BY <3>2, <3>3, ReadOneFits
    <2> HIDE DEF F
    <2> QED
        BY <2>1, <2>2, NatInduct
<1> QED
    BY <1>0, <1>1, <1>4

\* Whatever elements are asked for, in which order and how often, ReadElements returns no
\* more descriptors and no more bytes than a message may have.
THEOREM ReadIsBounded == EntrySpec => []ReadBounded
<1>1. EntryInv => ReadBounded
    <2> SUFFICES ASSUME EntryInv, NEW names \in Names \X Names \X Names, NEW flags
                 PROVE  read_elements(names, flags).fds <= MaxUnixFds
                        /\ read_elements(names, flags).loaded <= MaxMessageSize
        BY DEF ReadBounded
    <2>1. names \in Seq(Names)
        <3>1. PICK a \in Names, b \in Names, c \in Names : names = <<a, b, c>>
            OBVIOUS
        <3> QED
            BY <3>1
    <2>2. Fits(read_elements(names, flags))
        BY <2>1, ReadFits DEF EntryInv
    <2> QED
        BY <2>2 DEF Fits
<1> QED
    BY <1>1, EntryInvariance, PTL

\* The same for a request of any length, which TLC cannot enumerate: ReadElements
\* never answers with more than a message may have.
AnyReadBounded ==
    \A names \in Seq(Names), flags \in SUBSET {"all_fd", "only_text", "all_no_fd"} :
        LET r == read_elements(names, flags) IN
        r.fds <= MaxUnixFds /\ r.loaded <= MaxMessageSize

\* However long the list of names a client sends, and whatever it repeats.
THEOREM AnyReadIsBounded == EntrySpec => []AnyReadBounded
<1>1. EntryInv => AnyReadBounded
    <2> SUFFICES ASSUME EntryInv, NEW names \in Seq(Names), NEW flags
                 PROVE  read_elements(names, flags).fds <= MaxUnixFds
                        /\ read_elements(names, flags).loaded <= MaxMessageSize
        BY DEF AnyReadBounded
    <2>1. Fits(read_elements(names, flags))
        BY ReadFits DEF EntryInv
    <2> QED
        BY <2>1 DEF Fits
<1> QED
    BY <1>1, EntryInvariance, PTL

=============================================================================
