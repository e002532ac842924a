------------------------- MODULE UploadWatchProofs -------------------------
(***************************************************************************)
(* The upload watch, for any number of archives and workers and any size   *)
(* of the queue, with fork() failing and SIGTERM at any time: the counter  *)
(* of two callbacks is the number of processes, no archive is processed    *)
(* twice or forgotten, and no worker replaces what another one moved.      *)
(***************************************************************************)
EXTENDS UploadWatch, FiniteSetTheorems, SequenceTheorems, TLAPS

\* An archive has a worker iff it was given to one, one that moves a directory
\* knows where to, and only workers that ended were waited for.
WorkerInv ==
    /\ \A a \in Archives : pc[a] # "none" <=> a \in started
    /\ \A a \in Archives : pc[a] = "move" => dst[a] \in Paths
    /\ \A a \in reaped : pc[a] = "exited"

\* The inductive invariant.
Inv == TypeOK /\ WorkersCounted /\ SeenOnce /\ WorkerInv

\* SeenOnce without its tuple.
Apart(A, B, C, D, E) ==
    /\ \A x \in A : x \notin B /\ x \notin C /\ x \notin D /\ x \notin E
    /\ \A x \in B : x \notin C /\ x \notin D /\ x \notin E
    /\ \A x \in C : x \notin D /\ x \notin E
    /\ \A x \in D : x \notin E

Seen ==
    /\ Distinct(events) /\ Distinct(queue)
    /\ Apart(Elements(events), Elements(queue), started, omitted, lost)
    /\ uploaded = Elements(events) \cup Elements(queue) \cup started \cup omitted \cup lost

\* The two ways to say that every archive is in one place agree.
LEMMA SeenIsSeenOnce == Seen <=> SeenOnce
<1> DEFINE A == Elements(events)
           B == Elements(queue)
<1>1. Places = <<A, B, started, omitted, lost>>
  BY DEF Places
<1> HIDE DEF A, B
<1>2. /\ Places[1] = A /\ Places[2] = B /\ Places[3] = started
      /\ Places[4] = omitted /\ Places[5] = lost
  BY <1>1
<1>3. 1..5 = {1, 2, 3, 4, 5}
  OBVIOUS
<1>4. UNION {Places[i] : i \in 1..5} = A \cup B \cup started \cup omitted \cup lost
  BY <1>2, <1>3
<1>5. (\A i, j \in 1..5 : i # j => Places[i] \cap Places[j] = {})
        <=> Apart(A, B, started, omitted, lost)
  <2>1. ASSUME \A i, j \in 1..5 : i # j => Places[i] \cap Places[j] = {}
        PROVE  Apart(A, B, started, omitted, lost)
    <3>1. /\ A \cap B = {} /\ A \cap started = {} /\ A \cap omitted = {} /\ A \cap lost = {}
          /\ B \cap started = {} /\ B \cap omitted = {} /\ B \cap lost = {}
          /\ started \cap omitted = {} /\ started \cap lost = {} /\ omitted \cap lost = {}
      BY <1>2, <1>3, <2>1
    <3> QED  BY <3>1 DEF Apart
  <2>2. ASSUME Apart(A, B, started, omitted, lost), NEW i \in 1..5, NEW j \in 1..5, i # j
        PROVE  Places[i] \cap Places[j] = {}
    BY <1>2, <1>3, <2>2 DEF Apart
  <2> QED  BY <2>1, <2>2
<1> QED  BY <1>4, <1>5 DEF Seen, SeenOnce, A, B

-----------------------------------------------------------------------------
\* What taking the first archive of a line, and adding one to its end, does.
LEMMA Taken ==
    ASSUME NEW s \in Seq(Archives), s # <<>>, Distinct(s)
    PROVE  /\ Head(s) \in Archives /\ Tail(s) \in Seq(Archives)
           /\ Head(s) \in Elements(s)
           /\ Distinct(Tail(s))
           /\ Elements(Tail(s)) = Elements(s) \ {Head(s)}
<1>1. /\ Len(s) \in Nat /\ Len(s) > 0 /\ DOMAIN s = 1..Len(s)
      /\ Head(s) = s[1] /\ Head(s) \in Archives /\ Tail(s) \in Seq(Archives)
      /\ Len(Tail(s)) = Len(s) - 1 /\ DOMAIN Tail(s) = 1..(Len(s) - 1)
      /\ \A i \in 1..(Len(s) - 1) : Tail(s)[i] = s[i + 1]
  OBVIOUS
<1>2. Distinct(Tail(s))
  BY <1>1 DEF Distinct
<1>3. Elements(Tail(s)) \subseteq Elements(s) \ {Head(s)}
  BY <1>1 DEF Distinct, Elements
<1>4. ASSUME NEW x \in Elements(s) \ {Head(s)}
      PROVE  x \in Elements(Tail(s))
  <2>1. PICK i \in 1..Len(s) : x = s[i]
    BY <1>1, <1>4 DEF Elements
  <2>2. i - 1 \in 1..(Len(s) - 1) /\ x = Tail(s)[i - 1]
    BY <1>1, <1>4, <2>1
  <2> QED  BY <1>1, <2>2 DEF Elements
<1>5. Head(s) \in Elements(s)
  BY <1>1 DEF Elements
<1> QED  BY <1>1, <1>2, <1>3, <1>4, <1>5

\* Appending a new archive keeps a sequence without repetitions.
LEMMA Added ==
    ASSUME NEW s \in Seq(Archives), NEW a \in Archives, Distinct(s), a \notin Elements(s)
    PROVE  /\ Append(s, a) \in Seq(Archives)
           /\ Distinct(Append(s, a))
           /\ Elements(Append(s, a)) = Elements(s) \cup {a}
<1>1. /\ Len(s) \in Nat /\ DOMAIN s = 1..Len(s)
      /\ Append(s, a) \in Seq(Archives)
      /\ Len(Append(s, a)) = Len(s) + 1 /\ DOMAIN Append(s, a) = 1..(Len(s) + 1)
      /\ \A i \in 1..Len(s) : Append(s, a)[i] = s[i]
      /\ Append(s, a)[Len(s) + 1] = a
  OBVIOUS
<1>2. Distinct(Append(s, a))
  <2> SUFFICES ASSUME NEW i \in 1..(Len(s) + 1), NEW j \in 1..(Len(s) + 1),
                      Append(s, a)[i] = Append(s, a)[j]
               PROVE  i = j
    BY <1>1 DEF Distinct
  <2>1. CASE i \in 1..Len(s) /\ j \in 1..Len(s)
    BY <1>1, <2>1 DEF Distinct
  <2>2. CASE i = Len(s) + 1 /\ j \in 1..Len(s)
    BY <1>1, <2>2 DEF Elements
  <2>3. CASE j = Len(s) + 1 /\ i \in 1..Len(s)
    BY <1>1, <2>3 DEF Elements
  <2> QED  BY <1>1, <2>1, <2>2, <2>3
<1>3. Elements(Append(s, a)) = Elements(s) \cup {a}
  <2>1. Elements(Append(s, a)) \subseteq Elements(s) \cup {a}
    BY <1>1 DEF Elements
  <2>2. Elements(s) \subseteq Elements(Append(s, a))
    BY <1>1 DEF Elements
  <2>3. Len(s) + 1 \in 1..(Len(s) + 1)
    BY <1>1
  <2>4. a \in Elements(Append(s, a))
    BY <1>1, <2>3 DEF Elements
  <2> QED  BY <2>1, <2>2, <2>4
<1> QED  BY <1>1, <1>2, <1>3

-----------------------------------------------------------------------------
\* The invariant in the states the watch starts in.
LEMMA InitInv == Init => Inv
<1> SUFFICES ASSUME Init PROVE Inv
  OBVIOUS
<1> USE ArchivesAssumption, LimitsAssumption DEF Init
<1>1. TypeOK
  <2>1. /\ events \in Seq(Archives) /\ queue \in Seq(Archives) /\ pipe \in Seq({"CHLD", "TERM"})
        /\ children \in Nat /\ forkFails \in 0..MaxForkFails
    OBVIOUS
  <2>2. dst \in [Archives -> Paths \cup {NoPath}]
    <3> HIDE DEF Paths, NoPath
    <3> QED  OBVIOUS
  <2>3. spool \in [Paths -> Archives \cup {NoArchive, Earlier}]
    OBVIOUS
  <2> QED  BY <2>1, <2>2, <2>3 DEF TypeOK, Labels
<1>2. Unreaped = {} /\ children = 0
  BY DEF Unreaped
<1>3. WorkersCounted
  BY <1>2, FS_EmptySet DEF WorkersCounted
<1>4. Elements(events) = {} /\ Elements(queue) = {} /\ Distinct(events) /\ Distinct(queue)
  BY DEF Elements, Distinct
<1>5. SeenOnce
  BY <1>4, SeenIsSeenOnce DEF Seen, Apart
<1>6. WorkerInv
  BY DEF WorkerInv
<1> QED  BY <1>1, <1>3, <1>5, <1>6 DEF Inv

\* The workers there are, without some of those that ended, are finitely many.
LEMMA WorkersFinite ==
    ASSUME NEW R
    PROVE  /\ IsFiniteSet({b \in Archives : pc[b] # "none"} \ R)
           /\ Cardinality({b \in Archives : pc[b] # "none"} \ R) \in Nat
<1>1. {b \in Archives : pc[b] # "none"} \ R \in SUBSET Archives
  OBVIOUS
<1>2. IsFiniteSet({b \in Archives : pc[b] # "none"} \ R)
  BY <1>1, FS_Subset, ArchivesAssumption
<1> QED  BY <1>2, FS_CardinalityType

\* fork() for an archive that has no worker, with room for one: the counter is
\* right whether it fails or not.
LEMMA Forked ==
    ASSUME TypeOK, TypeOK', WorkerInv, NEW a \in Archives, a \notin started,
           NEW R \in SUBSET Archives, \A b \in R : pc[b] = "exited", reaped' = R,
           NEW count \in Nat, count < max_children,
           count = Cardinality({b \in Archives : pc[b] # "none"} \ R),
           run_abrt_handle_upload(a, count), dst' = dst
    PROVE  WorkersCounted' /\ WorkerInv'
<1> USE LimitsAssumption
<1>a. pc[a] = "none" /\ a \notin R
  BY DEF WorkerInv
<1> DEFINE W == {b \in Archives : pc[b] # "none"} \ R
<1>f. IsFiniteSet(W) /\ Cardinality(W) \in Nat
  BY WorkersFinite
<1>1. CASE pc' = [pc EXCEPT ![a] = "start"] /\ children' = count + 1 /\ started' = started \cup {a}
  <2>1. pc \in [Archives -> Labels] /\ pc'[a] = "start" /\ \A b \in Archives \ {a} : pc'[b] = pc[b]
    BY <1>1 DEF TypeOK
  <2>2. Unreaped' = W \cup {a} /\ a \notin W
    BY <1>a, <2>1 DEF Unreaped
  <2>3. Cardinality(Unreaped') = count + 1
    <3> HIDE DEF W
    <3> QED  BY <1>f, <2>2, FS_AddElement DEF W
  <2>4. WorkersCounted'
    BY <1>1, <2>3 DEF WorkersCounted
  <2>5. WorkerInv'
    BY <1>1, <1>a, <2>1 DEF WorkerInv, Paths
  <2> QED  BY <2>4, <2>5
<1>2. CASE pc' = pc /\ children' = count /\ started' = started
  <2>1. Unreaped' = W
    BY <1>2 DEF Unreaped
  <2>2. WorkersCounted'
    BY <1>2, <2>1 DEF WorkersCounted
  <2>3. WorkerInv'
    BY <1>2 DEF WorkerInv, Paths
  <2> QED  BY <2>2, <2>3
<1> QED  BY <1>1, <1>2 DEF run_abrt_handle_upload

\* What happens to the histories, and the types of what fork() changes.
LEMMA ForkedTypes ==
    ASSUME TypeOK, NEW a \in Archives, NEW count \in Nat, run_abrt_handle_upload(a, count)
    PROVE  /\ children' \in Nat /\ pc' \in [Archives -> Labels]
           /\ forkFails' \in 0..MaxForkFails
           /\ started' \subseteq Archives /\ lost' \subseteq Archives
           /\ \/ started' = started \cup {a} /\ lost' = lost
              \/ started' = started /\ lost' = lost \cup {a}
  BY LimitsAssumption DEF TypeOK, Labels, run_abrt_handle_upload

-----------------------------------------------------------------------------
\* The callbacks of the watch.
LEMMA InotifyInv == ASSUME Inv, handle_inotify_cb PROVE Inv'
<1> DEFINE a == Head(events)
<1> USE DEF Inv
<1>s. Seen
  BY SeenIsSeenOnce
<1>1. /\ a \in Archives /\ events' \in Seq(Archives) /\ a \in Elements(events)
      /\ Distinct(events') /\ Elements(events') = Elements(events) \ {a}
  BY <1>s, Taken DEF handle_inotify_cb, Seen, TypeOK
<1>h. /\ handle_new_path(a) /\ pipe' = pipe /\ reaping' = reaping /\ quit' = quit
      /\ reaped' = reaped /\ todo' = todo /\ dst' = dst /\ uploaded' = uploaded
      /\ spool' = spool /\ nested' = nested
  BY DEF handle_inotify_cb, spoolVars
<1>2. a \notin Elements(queue) /\ a \notin started /\ a \notin omitted /\ a \notin lost
  BY <1>1, <1>s DEF Seen, Apart
<1> HIDE DEF a
<1>c. children \in Nat /\ children = Cardinality(Unreaped)
  BY DEF TypeOK, WorkersCounted
<1>3. CASE /\ children < max_children
           /\ run_abrt_handle_upload(a, children)
           /\ UNCHANGED <<queue, omitted>>
  <2>1. TypeOK'
    BY <1>1, <1>h, <1>3, <1>c, ForkedTypes DEF TypeOK
  <2>2. WorkersCounted' /\ WorkerInv'
    <3>1. \A b \in reaped : pc[b] = "exited"
      BY DEF WorkerInv
    <3>2. reaped \in SUBSET Archives
      BY DEF TypeOK
    <3> QED  BY <1>1, <1>2, <1>3, <1>c, <1>h, <2>1, <3>1, <3>2, Forked DEF Unreaped
  <2>3. \/ started' = started \cup {a} /\ lost' = lost
        \/ started' = started /\ lost' = lost \cup {a}
    BY <1>1, <1>c, <1>3, ForkedTypes
  <2>4. Seen'
    <3>1. Elements(queue)' = Elements(queue) /\ Distinct(queue)' = Distinct(queue)
      BY <1>3 DEF Elements, Distinct
    <3> QED  BY <1>1, <1>2, <1>3, <1>h, <1>s, <2>3, <3>1 DEF Seen, Apart
  <2> QED  BY <2>1, <2>2, <2>4, SeenIsSeenOnce, PTL
<1>4. CASE /\ Len(queue) < Capacity
           /\ queue' = Append(queue, a)
           /\ UNCHANGED <<children, pc, started, lost, forkFails, omitted>>
  <2>1. /\ queue' \in Seq(Archives) /\ Distinct(queue')
        /\ Elements(queue') = Elements(queue) \cup {a}
    BY <1>1, <1>2, <1>4, <1>s, Added DEF Seen, TypeOK
  <2>2. TypeOK'
    BY <1>1, <1>h, <1>4, <2>1 DEF TypeOK
  <2>3. WorkersCounted' /\ WorkerInv'
    BY <1>h, <1>4 DEF WorkersCounted, WorkerInv, Unreaped
  <2>4. Seen'
    BY <1>1, <1>2, <1>4, <1>h, <1>s, <2>1 DEF Seen, Apart
  <2> QED  BY <2>2, <2>3, <2>4, SeenIsSeenOnce, PTL
<1>5. CASE /\ omitted' = omitted \cup {a}
           /\ UNCHANGED <<queue, children, pc, started, lost, forkFails>>
  <2>2. TypeOK'
    BY <1>1, <1>h, <1>5 DEF TypeOK
  <2>3. WorkersCounted' /\ WorkerInv'
    BY <1>h, <1>5 DEF WorkersCounted, WorkerInv, Unreaped
  <2>4. Seen'
    <3>1. Elements(queue)' = Elements(queue) /\ Distinct(queue)' = Distinct(queue)
      BY <1>5 DEF Elements, Distinct
    <3> QED  BY <1>1, <1>2, <1>5, <1>h, <1>s, <3>1 DEF Seen, Apart
  <2> QED  BY <2>2, <2>3, <2>4, SeenIsSeenOnce, PTL
<1> QED  BY <1>h, <1>3, <1>4, <1>5 DEF handle_new_path

\* A worker that is reaped is counted down, and the next archive may take its place.
LEMMA ReapInv == ASSUME Inv, NEW z \in Archives, reap(z) PROVE Inv'
<1> USE DEF Inv
<1> DEFINE W == {b \in Archives : pc[b] # "none"}
           R == reaped \cup {z}
           a == Head(queue)
<1>s. Seen
  BY SeenIsSeenOnce
<1>h. /\ pc[z] = "exited" /\ z \notin reaped /\ process_next_in_queue(children - 1)
      /\ reaped' = R /\ events' = events /\ pipe' = pipe /\ reaping' = reaping /\ quit' = quit
      /\ todo' = todo /\ dst' = dst /\ uploaded' = uploaded /\ omitted' = omitted
      /\ spool' = spool /\ nested' = nested
  BY DEF reap, Zombies, spoolVars
<1>r. R \in SUBSET Archives /\ \A b \in R : pc[b] = "exited"
  BY <1>h DEF TypeOK, WorkerInv
<1>c. /\ children \in Nat /\ children <= max_children
      /\ children - 1 = Cardinality(W \ R) /\ children - 1 \in Nat
  <2>1. Unreaped = W \ reaped /\ W \ R = Unreaped \ {z} /\ z \in Unreaped
    BY <1>h DEF Unreaped
  <2>2. IsFiniteSet(Unreaped)
    BY WorkersFinite DEF Unreaped
  <2>3. Cardinality(Unreaped \ {z}) = Cardinality(Unreaped) - 1
    BY <2>1, <2>2, FS_RemoveElement
  <2>4. Cardinality(W \ R) \in Nat
    BY WorkersFinite
  <2>5. children \in Nat /\ children = Cardinality(Unreaped) /\ children <= max_children
    BY DEF TypeOK, WorkersCounted
  <2> HIDE DEF W, R
  <2>6. Cardinality(W \ R) = children - 1
    BY <2>1, <2>3, <2>5
  <2> QED  BY <2>4, <2>5, <2>6
<1>1. CASE /\ queue = <<>> /\ children' = children - 1
           /\ UNCHANGED <<queue, pc, started, lost, forkFails>>
  <2>1. TypeOK'
    BY <1>h, <1>r, <1>c, <1>1 DEF TypeOK
  <2>2. Unreaped' = W \ R
    BY <1>h, <1>1 DEF Unreaped
  <2>3. WorkersCounted'
    <3> HIDE DEF W, R
    <3> QED  BY <1>c, <1>1, <2>2, LimitsAssumption DEF WorkersCounted
  <2>4. WorkerInv'
    BY <1>h, <1>r, <1>1 DEF WorkerInv
  <2>5. Seen'
    BY <1>h, <1>1, <1>s DEF Seen, Elements, Distinct
  <2> QED  BY <2>1, <2>3, <2>4, <2>5, SeenIsSeenOnce, PTL
<1>2. CASE /\ queue # <<>> /\ queue' = Tail(queue)
           /\ run_abrt_handle_upload(a, children - 1)
  <2>1. /\ a \in Archives /\ queue' \in Seq(Archives) /\ a \in Elements(queue)
        /\ Distinct(queue') /\ Elements(queue') = Elements(queue) \ {a}
    BY <1>2, <1>s, Taken DEF Seen, TypeOK
  <2> HIDE DEF a
  <2>2. a \notin Elements(events) /\ a \notin started /\ a \notin omitted /\ a \notin lost
    BY <2>1, <1>s DEF Seen, Apart
  <2>3. TypeOK'
    BY <1>h, <1>r, <1>c, <1>2, <2>1, ForkedTypes DEF TypeOK
  <2>4. WorkersCounted' /\ WorkerInv'
    <3>1. children - 1 < max_children
      BY <1>c, LimitsAssumption
    <3> HIDE DEF R
    <3> QED  BY <1>c, <1>h, <1>r, <1>2, <2>1, <2>2, <2>3, <3>1, Forked
  <2>5. \/ started' = started \cup {a} /\ lost' = lost
        \/ started' = started /\ lost' = lost \cup {a}
    BY <1>c, <1>2, <2>1, ForkedTypes
  <2>6. Seen'
    <3>1. Elements(events)' = Elements(events) /\ Distinct(events)' = Distinct(events)
      BY <1>h DEF Elements, Distinct
    <3> QED  BY <1>h, <1>s, <2>1, <2>2, <2>5, <3>1 DEF Seen, Apart
  <2> QED  BY <2>3, <2>4, <2>6, SeenIsSeenOnce, PTL
<1> QED  BY <1>h, <1>1, <1>2 DEF process_next_in_queue

\* Steps that leave the archives and the workers where they are.
LEMMA Frame ==
    ASSUME Inv, TypeOK',
           UNCHANGED <<events, queue, children, pc, reaped, dst, histVars>>
    PROVE  Inv'
  BY DEF Inv, histVars, WorkersCounted, Unreaped, SeenOnce, Places, Elements, Distinct, WorkerInv

\* A byte of the pipe starts the loop of waitpid(), or ends the watch.
LEMMA SignalPipeInv == ASSUME Inv, handle_signal_pipe_cb PROVE Inv'
<1>1. TypeOK'
  <2>1. pipe' \in Seq({"CHLD", "TERM"}) /\ reaping' \in BOOLEAN /\ quit' \in BOOLEAN
    BY DEF Inv, TypeOK, handle_signal_pipe_cb
  <2> QED  BY <2>1 DEF Inv, TypeOK, handle_signal_pipe_cb, workVars, histVars, spoolVars
<1> QED  BY <1>1, Frame DEF handle_signal_pipe_cb, workVars

\* The loop of waitpid() ends and changes nothing else.
LEMMA NothingToReapInv == ASSUME Inv, nothing_to_reap PROVE Inv'
<1>1. TypeOK'
  BY DEF Inv, TypeOK, nothing_to_reap, workVars, histVars, spoolVars
<1> QED  BY <1>1, Frame DEF nothing_to_reap, workVars

\* The signal handler only writes into the pipe.
LEMMA SignalInv == ASSUME Inv, handle_signal PROVE Inv'
<1>1. TypeOK'
  BY DEF Inv, TypeOK, handle_signal, watchVars, workVars, histVars, spoolVars
<1> QED  BY <1>1, Frame DEF handle_signal, watchVars, workVars

\* A new archive is an unread event and nowhere else.
LEMMA UploadInv == ASSUME Inv, NEW a \in Archives, upload(a) PROVE Inv'
<1> USE DEF Inv
<1>s. Seen
  BY SeenIsSeenOnce
<1>1. /\ a \notin Elements(events) /\ a \notin Elements(queue) /\ a \notin started
      /\ a \notin omitted /\ a \notin lost
  BY <1>s DEF Seen, upload
<1>2. /\ events' \in Seq(Archives) /\ Distinct(events')
      /\ Elements(events') = Elements(events) \cup {a}
  BY <1>1, <1>s, Added DEF Seen, TypeOK, upload
<1>3. TypeOK'
  BY <1>2 DEF TypeOK, upload, watchVars, workVars, spoolVars
<1>4. WorkersCounted' /\ WorkerInv'
  BY DEF WorkersCounted, WorkerInv, Unreaped, upload, watchVars, workVars
<1>5. Seen'
  <2>1. Elements(queue)' = Elements(queue) /\ Distinct(queue)' = Distinct(queue)
    BY DEF Elements, Distinct, upload, watchVars
  <2> QED  BY <1>1, <1>2, <1>s, <2>1 DEF Seen, Apart, upload
<1> QED  BY <1>3, <1>4, <1>5, SeenIsSeenOnce, PTL

-----------------------------------------------------------------------------
\* A worker that was started and has not ended goes on or ends.
LEMMA WorkerStep ==
    ASSUME Inv, TypeOK', NEW a \in Archives, pc[a] \notin {"none", "exited"},
           NEW l \in Labels \ {"none"}, pc' = [pc EXCEPT ![a] = l],
           l = "move" => dst'[a] \in Paths,
           \A b \in Archives \ {a} : dst'[b] = dst[b],
           UNCHANGED <<events, queue, children, reaped, histVars>>
    PROVE  Inv'
<1> USE DEF Inv, histVars
<1>1. pc'[a] = l /\ \A b \in Archives \ {a} : pc'[b] = pc[b]
  BY DEF TypeOK
<1>2. Unreaped' = Unreaped
  BY <1>1 DEF Unreaped
<1>3. WorkersCounted'
  BY <1>2 DEF WorkersCounted
<1>4. SeenOnce'
  BY DEF SeenOnce, Places, Elements, Distinct
<1>5. WorkerInv'
  BY <1>1 DEF WorkerInv, Paths
<1> QED  BY <1>3, <1>4, <1>5

\* The byte that tells the watch of a worker's end.
LEMMA ExitTypes ==
    ASSUME TypeOK, NEW a \in Archives, Exit(a)
    PROVE  /\ pipe' \in Seq({"CHLD", "TERM"})
           /\ pc' \in [Archives -> Labels]
           /\ pc' = [pc EXCEPT ![a] = "exited"]
  BY DEF TypeOK, Exit, Labels

\* A worker may end, but stays a process until it is reaped.
LEMMA WorkerKeepsInv == ASSUME Inv, NEW a \in Archives, Worker(a) PROVE Inv'
<1> USE DEF Inv
<1>p. DirNames \X (Archives \cup {NoArchive}) \subseteq Paths /\ <<"remote", a>> \in Paths
  BY DEF Paths
<1>1. CASE reject(a) \/ move_fails(a) \/ finish(a)
  <2>1. /\ Exit(a) /\ pc[a] \notin {"none", "exited"}
        /\ UNCHANGED <<events, watchVars, reaped, todo, dst, histVars, forkFails, spoolVars>>
    BY <1>1 DEF reject, move_fails, finish
  <2>2. TypeOK'
    BY <2>1, ExitTypes DEF TypeOK, watchVars, histVars, spoolVars
  <2>3. "exited" \in Labels \ {"none"}
    BY DEF Labels
  <2> QED  BY <2>1, <2>2, <2>3, ExitTypes, WorkerStep DEF watchVars
<1>2. CASE unpack(a)
  <2> USE DEF unpack, watchVars
  <2>1. CASE /\ pc' = [pc EXCEPT ![a] = "move"]
             /\ dst' = [dst EXCEPT ![a] = <<"remote", a>>] /\ todo' = todo
    <3>1. TypeOK'
      <4> HIDE DEF Paths
      <4> QED  BY <1>2, <1>p, <2>1 DEF TypeOK, Labels, histVars, spoolVars
    <3>2. "move" \in Labels \ {"none"}
      BY DEF Labels
    <3>3. dst'[a] \in Paths /\ \A b \in Archives \ {a} : dst'[b] = dst[b]
      BY <1>p, <2>1 DEF TypeOK
    <3> QED  BY <1>2, <2>1, <3>1, <3>2, <3>3, WorkerStep
  <2>2. CASE /\ pc' = [pc EXCEPT ![a] = "loop"]
             /\ todo' = [todo EXCEPT ![a] = Content[a]] /\ dst' = dst
    <3>1. TypeOK'
      BY <1>2, <2>2, ArchivesAssumption DEF TypeOK, Labels, histVars, spoolVars
    <3>2. "loop" \in Labels \ {"none"} /\ "loop" # "move"
      BY DEF Labels
    <3> QED  BY <1>2, <2>2, <3>1, <3>2, WorkerStep
  <2> QED  BY <1>2, <2>1, <2>2
<1>3. ASSUME NEW d \in DirNames, choose_dst(a, d) PROVE Inv'
  <2> USE <1>3 DEF choose_dst, watchVars
  <2>1. CASE pc' = pc /\ dst' = dst
    <3>1. TypeOK'
      BY <2>1 DEF TypeOK, histVars, spoolVars
    <3> QED  BY <2>1, <3>1, Frame
  <2>2. CASE /\ pc' = [pc EXCEPT ![a] = "move"]
             /\ dst' = [dst EXCEPT ![a] = <<d, IF Exists(<<d, NoArchive>>) THEN a ELSE NoArchive>>]
    <3>1. PICK p \in Paths : dst' = [dst EXCEPT ![a] = p]
      BY <1>p, <2>2
    <3>2. TypeOK'
      <4>1. UNCHANGED <<events, pipe, watchVars, reaped, histVars, forkFails, spoolVars>>
        BY <1>3
      <4>4. todo' \in [Archives -> SUBSET DirNames]
        BY <1>3 DEF TypeOK
      <4>2. pc' \in [Archives -> Labels]
        BY <2>2 DEF TypeOK, Labels
      <4>3. dst' \in [Archives -> Paths \cup {NoPath}]
        <5> HIDE DEF Paths
        <5> QED  BY <3>1 DEF TypeOK
      <4> QED  BY <4>1, <4>2, <4>3, <4>4 DEF TypeOK, histVars, spoolVars
    <3>3. "move" \in Labels \ {"none"}
      BY DEF Labels
    <3>4. dst'[a] \in Paths /\ \A b \in Archives \ {a} : dst'[b] = dst[b]
      BY <3>1 DEF TypeOK
    <3> QED  BY <2>2, <3>2, <3>3, <3>4, WorkerStep
  <2> QED  BY <2>1, <2>2
<1>4. CASE sanitize_fails(a) \/ move_and_notify(a)
  <2>1. /\ pc[a] = "move" /\ pc' = [pc EXCEPT ![a] = "loop"]
        /\ UNCHANGED <<events, pipe, watchVars, reaped, todo, dst, histVars, forkFails>>
    BY <1>4 DEF sanitize_fails, move_and_notify, Continue
  <2>2. dst[a] \in Paths
    BY <2>1 DEF WorkerInv
  <2>3. \/ UNCHANGED spoolVars
        \/ spool' = [spool EXCEPT ![dst[a]] = a] /\ nested' = nested
        \/ nested' = nested \cup {<<dst[a], a>>} /\ spool' = spool
    BY <1>4 DEF sanitize_fails, move_and_notify
  <2>4. /\ spool' \in [Paths -> Archives \cup {NoArchive, Earlier}]
        /\ nested' \subseteq Paths \X Archives
    BY <2>2, <2>3 DEF TypeOK, spoolVars
  <2>5. TypeOK'
    BY <2>1, <2>4 DEF TypeOK, Labels, watchVars, histVars
  <2>6. "loop" \in Labels \ {"none"}
    BY DEF Labels
  <2> QED  BY <2>1, <2>5, <2>6, WorkerStep DEF watchVars
<1> QED  BY <1>1, <1>2, <1>3, <1>4 DEF Worker

-----------------------------------------------------------------------------
\* Every step of the watch, the workers and those who upload preserves the
\* invariant.
THEOREM Invariance == Spec => []Inv
<1>1. Init => Inv
  BY InitInv
<1>2. Inv /\ [Next]_vars => Inv'
  <2> SUFFICES ASSUME Inv, [Next]_vars PROVE Inv'
    OBVIOUS
  <2>1. CASE Next
    BY <2>1, InotifyInv, ReapInv, SignalPipeInv, NothingToReapInv, SignalInv, UploadInv,
       WorkerKeepsInv DEF Next, Watch
  <2>2. CASE UNCHANGED vars
    <3>1. TypeOK'
      BY <2>2 DEF Inv, TypeOK, vars, watchVars, workVars, histVars, spoolVars
    <3> QED  BY <2>2, <3>1, Frame DEF vars, watchVars, workVars
  <2> QED  BY <2>1, <2>2
<1> QED  BY <1>1, <1>2, PTL DEF Spec

\* Every variable keeps its type.
THEOREM TypeCorrect == Spec => []TypeOK
<1>1. Inv => TypeOK
  BY DEF Inv
<1> QED  BY <1>1, Invariance, PTL

\* The counter that the inotify callback and the SIGCHLD callback keep is the
\* number of abrt-handle-upload processes, which never exceeds -w.
THEOREM CounterRight == Spec => []WorkersCounted
<1>1. Inv => WorkersCounted
  BY DEF Inv
<1> QED  BY <1>1, Invariance, PTL

\* No archive is given to two workers, deferred twice or forgotten without a
\* message.
THEOREM EveryArchiveOnce == Spec => []SeenOnce
<1>1. Inv => SeenOnce
  BY DEF Inv
<1> QED  BY <1>1, Invariance, PTL

\* No worker replaces a directory of the dump location.
THEOREM SpoolKept == Spec => NothingReplaced
<1>1. ASSUME TypeOK, Next, NEW p \in Paths, Exists(p)
      PROVE  spool'[p] = spool[p]
  <2>1. ASSUME NEW a \in Archives, move_and_notify(a)
        PROVE  spool'[p] = spool[p]
    BY <1>1, <2>1 DEF move_and_notify, TypeOK, Exists
  <2>2. CASE spool' = spool
    BY <2>2
  <2>3. (\E a \in Archives : move_and_notify(a)) \/ spool' = spool
    BY <1>1 DEF Next, Watch, Worker, handle_inotify_cb, handle_signal_pipe_cb, nothing_to_reap,
       reap, upload, handle_signal, reject, unpack, choose_dst, sanitize_fails, move_fails,
       finish, spoolVars
  <2> QED  BY <2>1, <2>2, <2>3
<1>2. TypeOK /\ [Next]_vars => [\A p \in Paths : Exists(p) => spool'[p] = spool[p]]_vars
  BY <1>1
<1> QED  BY <1>2, TypeCorrect, PTL DEF Spec, NothingReplaced

-----------------------------------------------------------------------------
(* The watch implements WorkPool *)

\* The abstract state, and the ways the watch changes it.
PoolVars == <<events, queue, Unreaped, reaped, omitted, lost>>

\* fork() is Begin: the archive has a process beside the ones in W, or is lost.
LEMMA ForkBegins ==
    ASSUME TypeOK, WorkerInv, NEW a \in Archives, a \notin started,
           NEW R \in SUBSET Archives, \A b \in R : pc[b] = "exited", reaped' = R,
           NEW W, W = {b \in Archives : pc[b] # "none"} \ R,
           NEW count, run_abrt_handle_upload(a, count)
    PROVE  Pool!Begin(a, W)
<1>a. pc[a] = "none" /\ a \notin R
  BY DEF WorkerInv
<1>1. CASE pc' = [pc EXCEPT ![a] = "start"] /\ lost' = lost
  <2>1. pc'[a] = "start" /\ \A b \in Archives \ {a} : pc'[b] = pc[b]
    BY <1>1 DEF TypeOK
  <2>2. Unreaped' = W \cup {a}
    BY <1>a, <2>1 DEF Unreaped
  <2> QED  BY <1>1, <2>2 DEF Pool!Begin
<1>2. CASE pc' = pc /\ lost' = lost \cup {a}
  <2>1. Unreaped' = W
    BY <1>2 DEF Unreaped
  <2> QED  BY <1>2, <2>1 DEF Pool!Begin
<1> QED  BY <1>1, <1>2 DEF run_abrt_handle_upload

\* An event that is read is Look.
LEMMA InotifyLooks == ASSUME Inv, handle_inotify_cb PROVE Pool!Next
<1> DEFINE a == Head(events)
<1> USE DEF Inv
<1>s. Seen
  BY SeenIsSeenOnce
<1>1. a \in Archives /\ a \in Elements(events)
  BY <1>s, Taken DEF handle_inotify_cb, Seen, TypeOK
<1>2. a \notin started
  BY <1>1, <1>s DEF Seen, Apart
<1>3. /\ events # <<>> /\ events' = Tail(events) /\ handle_new_path(a) /\ reaped' = reaped
  BY DEF handle_inotify_cb
<1> HIDE DEF a
<1>4. children = Cardinality(Unreaped) /\ children \in Nat /\ Len(queue) \in Nat
  BY DEF WorkersCounted, TypeOK
<1>5. Pool!Free <=> children < max_children
  <2>1. Pool!Free <=> Cardinality(Unreaped) < max_children
    BY Zenon DEF Pool!Free, Pool!Cardinality, Cardinality, Pool!IsFiniteSet, IsFiniteSet
  <2>2. Cardinality(Unreaped) < max_children <=> children < max_children
    BY <1>4, Zenon
  <2> QED  BY <2>1, <2>2, Zenon
<1>6. CASE children < max_children /\ run_abrt_handle_upload(a, children) /\ UNCHANGED <<queue, omitted>>
  <2>1. reaped \in SUBSET Archives /\ \A b \in reaped : pc[b] = "exited"
    BY DEF TypeOK, WorkerInv
  <2>2. Pool!Begin(a, Unreaped)
    <3>1. Unreaped = {b \in Archives : pc[b] # "none"} \ reaped
      BY DEF Unreaped
    <3> QED  BY <1>1, <1>2, <1>3, <1>6, <2>1, <3>1, ForkBegins
  <2> QED  BY <1>3, <1>5, <1>6, <2>2 DEF Pool!Next, Pool!Look, a
<1>7. CASE ~(children < max_children) /\ UNCHANGED <<pc, lost>>
  <2>1. Unreaped' = Unreaped
    BY <1>3, <1>7 DEF Unreaped
  <2>2. CASE Len(queue) < Capacity /\ queue' = Append(queue, a) /\ omitted' = omitted
    BY <1>3, <1>5, <1>7, <2>1, <2>2 DEF Pool!Next, Pool!Look, a
  <2>3. CASE Len(queue) >= Capacity /\ omitted' = omitted \cup {a} /\ queue' = queue
    BY <1>3, <1>5, <1>7, <2>1, <2>3 DEF Pool!Next, Pool!Look, a
  <2>4. \/ Len(queue) < Capacity /\ queue' = Append(queue, a) /\ omitted' = omitted
        \/ Len(queue) >= Capacity /\ omitted' = omitted \cup {a} /\ queue' = queue
    BY <1>3, <1>7 DEF handle_new_path
  <2> QED  BY <2>2, <2>3, <2>4
<1>8. children >= max_children <=> ~(children < max_children)
  BY <1>4, LimitsAssumption
<1> QED  BY <1>3, <1>6, <1>7, <1>8 DEF handle_new_path

\* A worker that is waited for is Done.
LEMMA ReapIsDone == ASSUME Inv, NEW z \in Archives, reap(z) PROVE Pool!Next
<1> DEFINE a == Head(queue)
           R == reaped \cup {z}
<1> USE DEF Inv
<1>s. Seen
  BY SeenIsSeenOnce
<1>1. /\ pc[z] = "exited" /\ z \notin reaped /\ process_next_in_queue(children - 1)
      /\ reaped' = R /\ UNCHANGED <<events, omitted>>
  BY DEF reap, Zombies
<1>2. R \in SUBSET Archives /\ \A b \in R : pc[b] = "exited"
  BY <1>1 DEF TypeOK, WorkerInv
<1>3. z \in Unreaped /\ Unreaped \ {z} = {b \in Archives : pc[b] # "none"} \ R
  BY <1>1 DEF Unreaped
<1>4. CASE queue = <<>> /\ UNCHANGED <<queue, pc, lost>>
  <2>1. Unreaped' = Unreaped \ {z}
    BY <1>1, <1>3, <1>4 DEF Unreaped
  <2>2. Pool!Done(z)
    BY <1>1, <1>3, <1>4, <2>1 DEF Pool!Done
  <2> QED  BY <2>2 DEF Pool!Next
<1>5. CASE queue # <<>> /\ queue' = Tail(queue) /\ run_abrt_handle_upload(a, children - 1)
  <2>1. a \in Archives /\ a \in Elements(queue)
    BY <1>5, <1>s, Taken DEF Seen, TypeOK
  <2>2. a \notin started
    BY <2>1, <1>s DEF Seen, Apart
  <2>3. Pool!Begin(a, Unreaped \ {z})
    <3> HIDE DEF a, R
    <3> QED  BY <1>1, <1>2, <1>3, <1>5, <2>1, <2>2, ForkBegins
  <2>4. Pool!Done(z)
    <3> HIDE DEF a
    <3> QED  BY <1>1, <1>3, <1>5, <2>3 DEF Pool!Done, a
  <2> QED  BY <2>4 DEF Pool!Next
<1> QED  BY <1>1, <1>4, <1>5 DEF process_next_in_queue

\* An archive nobody uploaded before is Offered.
LEMMA UploadOffers == ASSUME Inv, NEW a \in Archives, upload(a) PROVE Pool!Next
<1>1. Seen
  BY SeenIsSeenOnce DEF Inv
<1>2. Unreaped \subseteq started /\ reaped \subseteq started
  BY DEF Inv, WorkerInv, Unreaped, TypeOK
<1>3. Pool!InLine(events) = Elements(events) /\ Pool!InLine(queue) = Elements(queue)
  BY DEF Pool!InLine, Elements
<1>4. a \notin Pool!Known
  BY <1>1, <1>2, <1>3 DEF Seen, upload, Pool!Known
<1>5. Unreaped' = Unreaped /\ UNCHANGED <<queue, reaped, omitted, lost>>
  BY DEF upload, watchVars, workVars, Unreaped
<1>6. Pool!Offer(a)
  BY <1>4, <1>5 DEF upload, Pool!Offer
<1> QED  BY <1>6 DEF Pool!Next

\* What goes on inside a worker, and in the signal pipe, is hidden.
LEMMA WorkerHidden == ASSUME Inv, NEW a \in Archives, Worker(a) PROVE UNCHANGED PoolVars
<1>1. UNCHANGED <<events, queue, reaped, omitted, lost>>
  BY DEF Worker, reject, unpack, choose_dst, sanitize_fails, move_and_notify, move_fails, finish,
         watchVars, histVars
<1>2. pc[a] # "none" /\ \E l \in Labels \ {"none"} : pc' = [pc EXCEPT ![a] = l] \/ pc' = pc
  BY DEF Worker, reject, unpack, choose_dst, sanitize_fails, move_and_notify, move_fails, finish,
         Exit, Continue, Labels
<1>3. \A b \in Archives : pc'[b] # "none" <=> pc[b] # "none"
  BY <1>2 DEF Inv, TypeOK, Labels
<1> QED  BY <1>1, <1>3 DEF PoolVars, Unreaped

\* The watch, its counter and its signal pipe, implement the pool of WorkPool.
THEOREM WatchImplementsPool == Spec => ImplementsWorkPool
<1>1. Init => Pool!Init
  BY DEF Init, Pool!Init, Unreaped
<1>2. Inv /\ [Next]_vars => [Pool!Next]_PoolVars
  <2> SUFFICES ASSUME Inv, [Next]_vars PROVE Pool!Next \/ UNCHANGED PoolVars
    OBVIOUS
  <2>1. CASE handle_signal_pipe_cb \/ nothing_to_reap \/ handle_signal
    BY <2>1 DEF handle_signal_pipe_cb, nothing_to_reap, handle_signal, PoolVars, Unreaped,
       watchVars, workVars, histVars
  <2>2. CASE UNCHANGED vars
    BY <2>2 DEF vars, watchVars, workVars, histVars, PoolVars, Unreaped
  <2> QED  BY <2>1, <2>2, InotifyLooks, ReapIsDone, UploadOffers, WorkerHidden DEF Next, Watch
<1> QED  BY <1>1, <1>2, Invariance, PTL DEF Spec, ImplementsWorkPool, Pool!Spec, Pool!poolVars, PoolVars

-----------------------------------------------------------------------------
(* What the fairness of DeferredIsStarted rests on *)

\* A worker that ended and was not waited for has told the watch: the byte is in
\* the pipe, or the loop of waitpid() is still going on.
ExitIsKnown == ~quit /\ Zombies # {} => reaping \/ Pending("CHLD")

\* Unless a fork() failed, archives are deferred only while all workers are busy.
NoneIdle == queue # <<>> => forkFails > 0 \/ children = max_children

ServedInv == ExitIsKnown /\ NoneIdle

\* Whoever waits in the queue waits for something that is under way: a worker
\* that runs, or one that ended and the watch is bound to notice.
DeferredIsServed ==
    queue # <<>> /\ ~quit /\ forkFails = 0 =>
        \/ \E a \in Archives : pc[a] \in {"start", "loop", "move"}
        \/ Zombies # {} /\ (reaping \/ Pending("CHLD"))

\* A byte is added to the pipe.
LEMMA PipeAdded ==
    ASSUME pipe \in Seq({"CHLD", "TERM"}), NEW s \in {"CHLD", "TERM"}, pipe' = Append(pipe, s)
    PROVE  Pending("CHLD")' <=> s = "CHLD" \/ Pending("CHLD")
<1>1. /\ Len(pipe) \in Nat /\ DOMAIN pipe = 1..Len(pipe) /\ DOMAIN pipe' = 1..(Len(pipe) + 1)
      /\ \A i \in 1..Len(pipe) : pipe'[i] = pipe[i]
      /\ pipe'[Len(pipe) + 1] = s
  OBVIOUS
<1>2. Len(pipe) + 1 \in 1..(Len(pipe) + 1) /\ 1..(Len(pipe) + 1) = 1..Len(pipe) \cup {Len(pipe) + 1}
  BY <1>1
<1> QED  BY <1>1, <1>2 DEF Pending

\* The watch reads its pipe or its events, or a worker or a signal adds to it.
LEMMA ExitKnown == ASSUME Inv, ExitIsKnown, [Next]_vars PROVE ExitIsKnown'
<1> USE DEF Inv
<1>t. pipe \in Seq({"CHLD", "TERM"})
  BY DEF TypeOK
<1>1. CASE UNCHANGED <<pc, reaped, pipe, reaping, quit>>
  BY <1>1 DEF ExitIsKnown, Zombies, Pending
<1>2. CASE handle_inotify_cb
  <2>1. UNCHANGED <<reaped, pipe, reaping, quit>> /\ Zombies' \subseteq Zombies
    BY <1>2 DEF handle_inotify_cb, handle_new_path, run_abrt_handle_upload, Zombies, TypeOK
  <2> QED  BY <2>1 DEF ExitIsKnown, Pending
<1>3. CASE handle_signal_pipe_cb
  <2>1. /\ ~reaping /\ ~quit /\ pipe # <<>> /\ pipe' = Tail(pipe) /\ Zombies' = Zombies
        /\ reaping' = (Head(pipe) = "CHLD") /\ quit' = (Head(pipe) # "CHLD")
    BY <1>3 DEF handle_signal_pipe_cb, InMainLoop, workVars, Zombies
  <2>2. CASE Head(pipe) = "CHLD"
    BY <2>1, <2>2, Zenon DEF ExitIsKnown
  <2>3. CASE Head(pipe) # "CHLD"
    BY <2>1, <2>3, Zenon DEF ExitIsKnown
  <2> QED  BY <2>2, <2>3
<1>4. CASE nothing_to_reap
  BY <1>4 DEF nothing_to_reap, workVars, ExitIsKnown, Zombies
<1>5. ASSUME NEW a \in Archives, reap(a) PROVE ExitIsKnown'
  BY <1>5 DEF reap, ExitIsKnown
<1>6. CASE handle_signal
  <2>1. UNCHANGED <<pc, reaped, reaping, quit>> /\ pipe' = Append(pipe, "TERM")
    BY <1>6 DEF handle_signal, watchVars, workVars
  <2>2. Pending("CHLD")' <=> Pending("CHLD")
    BY <1>t, <2>1, PipeAdded
  <2> QED  BY <2>1, <2>2 DEF ExitIsKnown, Zombies
<1>7. ASSUME NEW a \in Archives, Worker(a) PROVE ExitIsKnown'
  <2>0. UNCHANGED <<reaped, reaping, quit>>
    BY <1>7 DEF Worker, reject, unpack, choose_dst, sanitize_fails, move_and_notify, move_fails,
       finish, watchVars
  <2>1. CASE Exit(a)
    <3>1. CASE quit
      BY <2>0, <3>1 DEF ExitIsKnown
    <3>2. CASE ~quit /\ Pending("CHLD")
      <4>1. pipe' = pipe
        BY <2>1, <3>2 DEF Exit
      <4> QED  BY <3>2, <4>1 DEF ExitIsKnown, Pending
    <3>3. CASE ~quit /\ ~Pending("CHLD")
      <4>1. pipe' = Append(pipe, "CHLD")
        BY <2>1, <3>3 DEF Exit
      <4>2. Pending("CHLD")'
        BY <1>t, <4>1, PipeAdded
      <4> QED  BY <4>2 DEF ExitIsKnown
    <3> QED  BY <3>1, <3>2, <3>3
  <2>2. CASE pipe' = pipe /\ \E l \in {"start", "loop", "move"} : pc' = pc \/ pc' = [pc EXCEPT ![a] = l]
    <3>1. Zombies' \subseteq Zombies
      BY <2>0, <2>2 DEF Zombies, TypeOK
    <3> QED  BY <2>0, <2>2, <3>1 DEF ExitIsKnown, Pending
  <2> QED  BY <1>7, <2>1, <2>2 DEF Worker, reject, unpack, choose_dst, sanitize_fails,
              move_and_notify, move_fails, finish, Continue
<1>8. ASSUME NEW a \in Archives, upload(a) PROVE UNCHANGED <<pc, reaped, pipe, reaping, quit>>
  BY <1>8 DEF upload, watchVars, workVars
<1>9. UNCHANGED vars => UNCHANGED <<pc, reaped, pipe, reaping, quit>>
  BY DEF vars, watchVars, workVars
<1> QED  BY <1>1, <1>2, <1>3, <1>4, <1>5, <1>6, <1>7, <1>8, <1>9 DEF Next, Watch

\* The queue grows only while all workers are busy, and a worker that ends is
\* replaced by the first of the queue.
LEMMA NoneIdles == ASSUME Inv, NoneIdle, [Next]_vars PROVE NoneIdle'
<1> USE DEF Inv
<1>t. children \in Nat /\ forkFails \in Nat /\ children <= max_children /\ max_children \in Nat
  BY LimitsAssumption DEF TypeOK, WorkersCounted
<1>1. CASE UNCHANGED <<queue, children, forkFails>>
  BY <1>1 DEF NoneIdle
<1>2. CASE handle_inotify_cb
  <2>1. handle_new_path(Head(events))
    BY <1>2 DEF handle_inotify_cb
  <2>2. CASE children >= max_children
    <3>1. children' = children /\ forkFails' = forkFails /\ children = max_children
      BY <1>t, <2>1, <2>2 DEF handle_new_path
    <3> QED  BY <3>1 DEF NoneIdle
  <2>3. CASE children < max_children
    <3>1. queue' = queue /\ run_abrt_handle_upload(Head(events), children)
      BY <1>t, <2>1, <2>3 DEF handle_new_path
    <3>2. forkFails' = forkFails \/ forkFails' > 0
      BY <1>t, <3>1 DEF run_abrt_handle_upload
    <3>3. queue # <<>> => forkFails > 0
      BY <1>t, <2>3 DEF NoneIdle
    <3> QED  BY <3>1, <3>2, <3>3 DEF NoneIdle
  <2> QED  BY <1>t, <2>2, <2>3
<1>3. ASSUME NEW a \in Archives, reap(a) PROVE NoneIdle'
  <2>1. process_next_in_queue(children - 1)
    BY <1>3 DEF reap
  <2>2. CASE queue = <<>> /\ queue' = queue
    BY <2>2 DEF NoneIdle
  <2>3. CASE queue # <<>> /\ run_abrt_handle_upload(Head(queue), children - 1)
    <3>1. \/ children' = (children - 1) + 1 /\ forkFails' = forkFails
          \/ forkFails' = forkFails + 1
      BY <2>3 DEF run_abrt_handle_upload
    <3>2. (children - 1) + 1 = children /\ forkFails + 1 > 0
      BY <1>t
    <3>3. forkFails > 0 \/ children = max_children
      BY <2>3 DEF NoneIdle
    <3> QED  BY <3>1, <3>2, <3>3 DEF NoneIdle
  <2> QED  BY <2>1, <2>2, <2>3 DEF process_next_in_queue
<1>4. ASSUME \/ handle_signal_pipe_cb \/ nothing_to_reap \/ handle_signal \/ UNCHANGED vars
             \/ \E a \in Archives : upload(a) \/ Worker(a)
      PROVE  UNCHANGED <<queue, children, forkFails>>
  BY <1>4 DEF handle_signal_pipe_cb, nothing_to_reap, handle_signal, upload, Worker, reject,
     unpack, choose_dst, sanitize_fails, move_and_notify, move_fails, finish, vars, watchVars
<1> QED  BY <1>1, <1>2, <1>3, <1>4 DEF Next, Watch

\* No archive waits for a wakeup that was lost: as long as the watch runs and no
\* fork() failed, one that is deferred waits for a worker that runs, or for one
\* that ended and whose SIGCHLD the watch still has.
THEOREM DeferredNotForgotten == Spec => []DeferredIsServed
<1>1. Init => ServedInv
  BY DEF Init, ServedInv, ExitIsKnown, NoneIdle, Zombies
<1>2. Inv /\ ServedInv /\ [Next]_vars => ServedInv'
  BY ExitKnown, NoneIdles DEF ServedInv
<1>3. Inv /\ ServedInv => DeferredIsServed
  <2> SUFFICES ASSUME Inv, ServedInv, queue # <<>>, ~quit, forkFails = 0
               PROVE  \/ \E a \in Archives : pc[a] \in {"start", "loop", "move"}
                      \/ Zombies # {} /\ (reaping \/ Pending("CHLD"))
    BY DEF DeferredIsServed
  <2>1. children = max_children /\ max_children > 0 /\ children = Cardinality(Unreaped)
    BY LimitsAssumption DEF ServedInv, NoneIdle, Inv, WorkersCounted
  <2>2. Unreaped # {}
    BY <2>1, FS_EmptySet
  <2>3. PICK a \in Unreaped : TRUE
    BY <2>2
  <2>4. a \in Archives /\ a \notin reaped /\ pc[a] \in {"start", "loop", "move", "exited"}
    BY <2>3 DEF Unreaped, Inv, TypeOK, Labels
  <2>5. CASE pc[a] = "exited"
    BY <2>4, <2>5 DEF Zombies, ServedInv, ExitIsKnown
  <2> QED  BY <2>4, <2>5
<1> QED  BY <1>1, <1>2, <1>3, Invariance, PTL DEF Spec

=============================================================================
