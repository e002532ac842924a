--------------------------- MODULE CoreHookProofs ---------------------------
(***************************************************************************)
(* Core dump hooks, for any number of them, any programs, image sizes,     *)
(* limits and pipe: a crash is taken for a repeated one only beside        *)
(* another of the same program, and cores that are written without an      *)
(* error are whole.                                                        *)
(***************************************************************************)
EXTENDS CoreHook, SequenceTheorems, FiniteSetTheorems, TLAPS

Before == {"start", "exe", "stat", "read", "write"}
BeforeCopy == {"exe", "stat", "read", "write", "truncate", "checks", "collect", "copy"}
Copied == {"unwind", "close", "rename", "trim", "delete", "end"}

\* Ways out on which an open user core stays as it is.
NotLookedAt == {"ignored_path", "the_hook_itself", "user_not_allowed", "abrt_program"}
Reasons == NotLookedAt \cup {"none", "no_executable", "repeated", "unsupported_signal", "abrtd_is_not_running",
                             "low_free_space", "no_directory", "binary_not_saved"}

Types ==
    /\ cfg \in Configs
    /\ pc \in [Hooks -> {"start", "tee", "dead"} \cup BeforeCopy \cup Copied]
    /\ why \in [Hooks -> Reasons]
    /\ marker \in [text : Seq(Nat), mtime : Nat, torn : {"no", "half", "mixed"}]
    /\ stat \in [Hooks -> Nat]
    /\ passed \in [Hooks -> [done : BOOLEAN, at : Nat]]
    /\ looked \in [Hooks -> SUBSET Hooks]
    /\ image \in [Hooks -> Nat] /\ taken \in [Hooks -> Nat]
    /\ found \in [Hooks -> {"none", "old", "foreign"}]
    /\ ufile \in [Hooks -> {"none", "old", "foreign", "empty", "core", "unlinked"}]
    /\ ufd \in [Hooks -> BOOLEAN] /\ cp \in [Hooks -> BOOLEAN]
    /\ user \in [Hooks -> Seq(Nat)] /\ core \in [Hooks -> Seq(Nat)]
    /\ flags \in [Hooks -> SUBSET {"ABRT", "USER"}]
    /\ broken \subseteq Hooks
    /\ now \in Nat

Begins(text, name) == Len(text) >= Len(name) /\ \A i \in 1 .. Len(name) : text[i] = name[i]

\* A text that is not torn is the name of a hook that touched the marker at its time.
\* Unless it is mixed, at most one hook is writing, and its name begins the text.
WrittenInv ==
    /\ marker.torn = "no" /\ marker.text # <<>> =>
        \E g \in Hooks : cfg.exe[g] = marker.text /\ passed[g].done /\ passed[g].at = marker.mtime
    /\ marker.torn # "mixed" =>
        \A g \in Writing : Begins(marker.text, cfg.exe[g]) /\ \A k \in Writing : k = g

\* What the marker says since the hook looked at it: somebody of the named program
\* touched it since, or it is as old as it was.
FreshInv(h) ==
    \/ \E g \in Hooks \ looked[h] : cfg.exe[g] = marker.text /\ passed[g].done
    \/ marker.mtime <= stat[h] /\ stat[h] - marker.mtime < Window

Repeats(h, g) ==
    /\ cfg.exe[g] = cfg.exe[h] /\ passed[g].done
    /\ \/ g \notin looked[h]
       \/ passed[g].at <= stat[h] /\ stat[h] - passed[g].at < Window

\* Where a hook is with the marker.
MarkInv(h) ==
    /\ pc[h] \in Before => ~passed[h].done
    /\ why[h] # "none" => pc[h] = "end"
    /\ \A g \in looked[h] : passed[g].done
    /\ pc[h] = "read" /\ marker.torn = "no" => FreshInv(h)
    /\ why[h] = "repeated" /\ h \notin misled => \E g \in Hooks \ {h} : Repeats(h, g)

\* In the loop of dump_two_core_files() the one file has all that was taken, the
\* other too while the temporary pipe is open, and is full when it was closed
\* without an error.
TeeInv(h) ==
    /\ ufd[h] /\ ufile[h] = "core" /\ flags[h] = {}
    /\ taken[h] <= image[h] /\ taken[h] <= SplicedLimit
    /\ Spliced(h) = Positions(0, taken[h])
    /\ cp[h] => Teed(h) = Positions(0, taken[h]) /\ (taken[h] < TeedLimit \/ taken[h] = 0)
    /\ ~cp[h] /\ h \notin broken => Teed(h) = Positions(0, TeedLimit) /\ TeedLimit <= taken[h]

WholeInv(h) ==
    /\ h \notin broken =>
        /\ core[h] \in {<<>>, Positions(0, Minimum(image[h], abrt_limit))}
        /\ ufile[h] = "core" =>
            user[h] = Positions(0, Minimum(image[h], cfg.ulimit)) \/ why[h] \in NotLookedAt
    /\ flags[h] = {} /\ core[h] # <<>> /\ user[h] # <<>> =>
        core[h] = Positions(0, image[h]) /\ user[h] = core[h]

CopyInv(h) ==
    /\ pc[h] = "start" \/ pc[h] \in BeforeCopy =>
        /\ user[h] = <<>> /\ core[h] = <<>> /\ flags[h] = {} /\ taken[h] = 0
        /\ ufd[h] <=> ufile[h] = "core"
    /\ pc[h] = "start" => found[h] = "none" /\ ~ufd[h]
    /\ pc[h] = "tee" => TeeInv(h)
    /\ pc[h] \in Copied => WholeInv(h)
    /\ found[h] = "foreign" => ufile[h] = "foreign"

\* The inductive invariant.
Inv == Types /\ WrittenInv /\ \A h \in Hooks : MarkInv(h) /\ CopyInv(h)
-----------------------------------------------------------------------------
\* What is written to a core file.
LEMMA PositionsSeq ==
    ASSUME NEW a \in Nat, NEW b \in Nat, a <= b
    PROVE  Positions(a, b) \in Seq(Nat) /\ Len(Positions(a, b)) = b - a
BY DEF Positions

\* A run of n bytes of the image from byte a on.
LEMMA PositionsMore ==
    ASSUME NEW a \in Nat, NEW n \in Nat
    PROVE  Positions(a, a + n) \in Seq(Nat) /\ Len(Positions(a, a + n)) = n
<1>1. a + n \in Nat /\ a <= a + n /\ (a + n) - a = n
    OBVIOUS
<1> QED
    BY <1>1, PositionsSeq

\* The first n bytes of the image.
LEMMA PositionsFirst ==
    ASSUME NEW n \in Nat
    PROVE  Positions(0, n) \in Seq(Nat) /\ Len(Positions(0, n)) = n
<1>1. 0 <= n /\ n - 0 = n
    OBVIOUS
<1> QED
    BY <1>1, PositionsSeq

\* An empty read adds nothing to a core.
LEMMA PositionsNone ==
    ASSUME NEW a \in Nat
    PROVE  Positions(a, a) = <<>> /\ \A s \in Seq(Nat) : s \o Positions(a, a) = s
<1>1. Positions(a, a) = <<>>
    BY DEF Positions
<1> QED
    BY <1>1

\* Appending what was read next leaves no gap.
LEMMA PositionsJoin ==
    ASSUME NEW a \in Nat, NEW n \in Nat
    PROVE  Positions(0, a) \o Positions(a, a + n) = Positions(0, a + n)
<1> DEFINE s == Positions(0, a)  t == Positions(a, a + n)  r == Positions(0, a + n)
<1>1. s \in Seq(Nat) /\ Len(s) = a /\ t \in Seq(Nat) /\ Len(t) = n /\ r \in Seq(Nat) /\ Len(r) = a + n
    <2>1. a + n \in Nat
        OBVIOUS
    <2> QED
        BY <2>1, PositionsFirst, PositionsMore
<1>2. \A i \in 1 .. a : s[i] = i
    BY DEF Positions
<1>3. \A i \in 1 .. n : t[i] = a + i
    BY DEF Positions
<1>4. \A i \in 1 .. a + n : r[i] = i
    BY DEF Positions
<1> HIDE DEF s, t, r
<1>5. s \o t \in Seq(Nat) /\ Len(s \o t) = a + n
    BY <1>1, ConcatProperties
<1>6. \A i \in 1 .. a + n : (s \o t)[i] = r[i]
    <2>1. \A i \in 1 .. a + n : (s \o t)[i] = IF i <= a THEN s[i] ELSE t[i - a]
        BY <1>1, ConcatProperties
    <2>2. ASSUME NEW i \in 1 .. a + n PROVE (s \o t)[i] = r[i]
        <3>1. CASE i <= a
            <4>1. i \in 1 .. a
                BY <3>1
            <4> QED
                BY <1>2, <1>4, <2>1, <3>1, <4>1
        <3>2. CASE ~(i <= a)
            <4>1. i - a \in 1 .. n /\ a + (i - a) = i
                BY <3>2
            <4> QED
                BY <1>3, <1>4, <2>1, <3>2, <4>1
        <3> QED
            BY <3>1, <3>2
    <2> QED
        BY <2>2
<1>7. s \o t = r
    BY <1>1, <1>5, <1>6, SeqEqual
<1> QED
    BY <1>7 DEF s, t, r

\* Both limits are numbers, whatever the settings.
LEMMA LimitNat ==
    ASSUME cfg \in Configs
    PROVE  abrt_limit \in Nat /\ cfg.ulimit \in Nat
<1>1. cfg.maxReports \in Nat /\ cfg.maxCore \in Nat /\ cfg.ulimit \in Nat
    BY ConfigsAssumption
<1>2. Mega \in Nat /\ SizeMax \in Nat
    BY SizesAssumption
<1>3. \A l \in Nat : (Mega * l) % (SizeMax + 1) \in Nat
    <2>1. \A m \in Nat, k \in Nat \ {0} : m % k \in Nat
        OBVIOUS
    <2>2. \A l \in Nat : Mega * l \in Nat
        BY <1>2
    <2> QED
        BY <1>2, <2>1, <2>2
<1> QED
    BY <1>1, <1>2, <1>3 DEF abrt_limit
-----------------------------------------------------------------------------
\* The parts of the invariant that a step of another hook leaves alone.
SameCopy(g) ==
    /\ pc'[g] = pc[g] /\ why'[g] = why[g] /\ image'[g] = image[g] /\ taken'[g] = taken[g]
    /\ found'[g] = found[g] /\ ufile'[g] = ufile[g] /\ ufd'[g] = ufd[g]
    /\ user'[g] = user[g] /\ core'[g] = core[g] /\ cp'[g] = cp[g] /\ flags'[g] = flags[g]
    /\ g \in broken' <=> g \in broken

\* A step of one hook leaves the cores of the others alone.
LEMMA OthersCopy ==
    ASSUME NEW h \in Hooks, Inv, cfg' = cfg, CopyInv(h)', \A g \in Hooks \ {h} : SameCopy(g)
    PROVE  \A g \in Hooks : CopyInv(g)'
<1> SUFFICES ASSUME NEW g \in Hooks, g # h PROVE CopyInv(g)'
    OBVIOUS
<1>0. SameCopy(g) /\ CopyInv(g)
    BY DEF Inv
<1>1. abrt_limit' = abrt_limit /\ UserIsSpliced' = UserIsSpliced
    BY DEF abrt_limit, UserIsSpliced
<1>2. TeeInv(g) => TeeInv(g)'
    BY <1>0, <1>1 DEF TeeInv, SameCopy, SplicedLimit, TeedLimit, Spliced, Teed
<1>3. WholeInv(g) => WholeInv(g)'
    BY <1>0, <1>1 DEF WholeInv, SameCopy
<1> QED
    BY <1>0, <1>2, <1>3 DEF CopyInv, SameCopy

\* A step of a hook that has nothing to do with the marker.
LEMMA MarkLeft ==
    ASSUME NEW h \in Hooks, Inv, UNCHANGED <<cfg, marker, stat, passed, looked, now>>, misled \subseteq misled',
           \A g \in Hooks \ {h} : pc'[g] = pc[g] /\ why'[g] = why[g],
           pc'[h] \notin {"read", "truncate"}, pc'[h] \in Before => pc[h] \in Before,
           why'[h] = "repeated" => h \in misled' \/ \E g \in Hooks \ {h} : Repeats(h, g),
           why'[h] # "none" => pc'[h] = "end"
    PROVE  WrittenInv' /\ \A g \in Hooks : MarkInv(g)'
<1>1. WrittenInv'
    <2>1. Writing' \subseteq Writing
        BY DEF Writing
    <2> QED
        BY <2>1 DEF Inv, WrittenInv, Begins
<1>2. ASSUME NEW g \in Hooks \ {h} PROVE MarkInv(g)'
    BY DEF Inv, MarkInv, FreshInv, Repeats
<1>3. MarkInv(h)'
    BY DEF Inv, MarkInv, Repeats
<1> QED
    BY <1>1, <1>2, <1>3

\* A hook that only goes on.
LEMMA PassKeeps ==
    ASSUME NEW h \in Hooks, NEW where \in BeforeCopy \cup Copied \cup {"dead"}, Inv, Goto(h, where),
           UNCHANGED <<cfg, why, markerVars, userVars, copyVars, now>>,
           pc[h] # "end", where \notin {"read", "truncate"}, where \in Before => pc[h] \in Before,
           where \in BeforeCopy => pc[h] \in BeforeCopy, where \in Copied => pc[h] \in Copied
    PROVE  Inv'
<1>1. Types /\ CopyInv(h) /\ MarkInv(h)
    BY DEF Inv
<1>2. Types'
    BY <1>1 DEF Types, Goto, markerVars, userVars, copyVars
<1>3. pc'[h] = where /\ \A g \in Hooks \ {h} : pc'[g] = pc[g] /\ why'[g] = why[g]
    BY <1>1 DEF Types, Goto
<1>4. WrittenInv' /\ \A g \in Hooks : MarkInv(g)'
    <2>1. why'[h] = "none"
        BY <1>1 DEF MarkInv
    <2> QED
        BY <1>3, <2>1, MarkLeft DEF markerVars
<1>5. CopyInv(h)'
    <2>1. abrt_limit' = abrt_limit
        BY DEF abrt_limit
    <2> QED
        BY <1>1, <1>3, <2>1 DEF CopyInv, WholeInv, BeforeCopy, Copied, userVars, copyVars
<1>6. ASSUME NEW g \in Hooks \ {h} PROVE SameCopy(g)
    BY <1>3 DEF SameCopy, userVars, copyVars
<1> QED
    BY <1>2, <1>4, <1>5, <1>6, OthersCopy DEF Inv

\* What create_user_core() does to a hook that has not copied anything.
LEMMA UserCoreWhole ==
    ASSUME NEW h \in Hooks, Types, CopyInv(h), pc[h] \in BeforeCopy, create_user_core(h)
    PROVE  /\ user' \in [Hooks -> Seq(Nat)] /\ ufd' \in [Hooks -> BOOLEAN] /\ broken' \subseteq Hooks
           /\ broken \subseteq broken' /\ broken' \subseteq broken \cup {h}
           /\ \A g \in Hooks \ {h} : user'[g] = user[g] /\ ufd'[g] = ufd[g]
           /\ h \notin broken' /\ ufile[h] = "core" =>
                user'[h] = Positions(0, Minimum(image[h], cfg.ulimit))
<1>1. image[h] \in Nat /\ cfg.ulimit \in Nat
    BY LimitNat DEF Types
<1>2. CASE ~ufd[h] /\ UNCHANGED <<user, ufd, broken>>
    BY <1>2 DEF Types, CopyInv
<1>3. ASSUME NEW n \in 0 .. Minimum(image[h], cfg.ulimit),
             user' = [user EXCEPT ![h] = Positions(0, n)],
             broken' = (IF n = Minimum(image[h], cfg.ulimit) THEN broken ELSE broken \cup {h}),
             ufd' = [ufd EXCEPT ![h] = FALSE]
      PROVE  /\ user' \in [Hooks -> Seq(Nat)] /\ ufd' \in [Hooks -> BOOLEAN] /\ broken' \subseteq Hooks
             /\ broken \subseteq broken' /\ broken' \subseteq broken \cup {h}
             /\ \A g \in Hooks \ {h} : user'[g] = user[g] /\ ufd'[g] = ufd[g]
             /\ h \notin broken' =>
                user'[h] = Positions(0, Minimum(image[h], cfg.ulimit))
    <2>1. n \in Nat /\ 0 <= n
        BY <1>1 DEF Minimum
    <2>2. Positions(0, n) \in Seq(Nat)
        BY <2>1, PositionsSeq
    <2>3. user' \in [Hooks -> Seq(Nat)] /\ ufd' \in [Hooks -> BOOLEAN]
        BY <1>3, <2>2 DEF Types
    <2> QED
        BY <1>3, <2>3 DEF Types
<1> QED
    BY <1>2, <1>3 DEF create_user_core

\* A hook that ends before it has copied anything.
Leaves(h, reason) ==
    \/ ReturnUserCore(h, reason)
    \/ JustExit(h, reason) /\ reason \in NotLookedAt
    \/ CleanUp(h, reason)

\* A hook that leaves before it copied anything, for one of the reasons of main().
LEMMA LeaveKeeps ==
    ASSUME NEW h \in Hooks, NEW reason \in Reasons \ {"none"}, Inv, pc[h] \in BeforeCopy,
           reason = "repeated" => h \in misled' \/ \E g \in Hooks \ {h} : Repeats(h, g),
           Leaves(h, reason), misled \subseteq misled',
           UNCHANGED <<cfg, marker, stat, passed, looked, found, image, taken, core, cp, flags, now>>
    PROVE  Inv'
<1>1. Types /\ CopyInv(h) /\ MarkInv(h)
    BY DEF Inv
<1>2. pc' = [pc EXCEPT ![h] = "end"] /\ why' = [why EXCEPT ![h] = reason]
    BY DEF Leaves, ReturnUserCore, JustExit, CleanUp, Leave, Goto
<1>3. pc'[h] = "end" /\ why'[h] = reason /\ \A g \in Hooks \ {h} : pc'[g] = pc[g] /\ why'[g] = why[g]
    BY <1>1, <1>2 DEF Types
<1>4. WrittenInv' /\ \A g \in Hooks : MarkInv(g)'
    BY <1>3, MarkLeft DEF Before
<1>5. /\ user' \in [Hooks -> Seq(Nat)] /\ ufd' \in [Hooks -> BOOLEAN] /\ broken' \subseteq Hooks
      /\ ufile' \in [Hooks -> {"none", "old", "foreign", "empty", "core", "unlinked"}]
      /\ broken \subseteq broken' /\ broken' \subseteq broken \cup {h}
      /\ \A g \in Hooks \ {h} : user'[g] = user[g] /\ ufd'[g] = ufd[g] /\ ufile'[g] = ufile[g]
      /\ h \notin broken' /\ ufile'[h] = "core" =>
            user'[h] = Positions(0, Minimum(image[h], cfg.ulimit)) \/ reason \in NotLookedAt
      /\ ufile'[h] = ufile[h] \/ ufile[h] = "core"
    <2>1. CASE ReturnUserCore(h, reason)
        BY <1>1, <2>1, UserCoreWhole DEF ReturnUserCore, Types
    <2>2. CASE JustExit(h, reason) /\ reason \in NotLookedAt
        BY <1>1, <2>2 DEF JustExit, Types
    <2>3. CASE CleanUp(h, reason)
        BY <1>1, <2>3 DEF CleanUp, cleanup_and_exit, Types, CopyInv
    <2> QED
        BY <2>1, <2>2, <2>3 DEF Leaves
<1>6. Types'
    BY <1>1, <1>2, <1>5 DEF Types, Copied
<1>7. CopyInv(h)'
    <2>1. abrt_limit' = abrt_limit
        BY DEF abrt_limit
    <2>2. core'[h] = <<>>
        BY <1>1 DEF CopyInv
    <2>3. WholeInv(h)'
        BY <1>1, <1>3, <1>5, <2>1, <2>2 DEF WholeInv
    <2> QED
        BY <1>1, <1>3, <1>5, <2>3 DEF CopyInv, BeforeCopy
<1>8. ASSUME NEW g \in Hooks \ {h} PROVE SameCopy(g)
    BY <1>3, <1>5 DEF SameCopy
<1> QED
    BY <1>4, <1>6, <1>7, <1>8, OthersCopy DEF Inv
-----------------------------------------------------------------------------

\* The invariant holds before the first crash.
LEMMA InitInv == Init => Inv
<1> SUFFICES ASSUME Init PROVE Inv
    OBVIOUS
<1>1. Types
    BY DEF Init, Types, Reasons
<1>2. WrittenInv
    BY DEF Init, WrittenInv, Writing
<1>3. ASSUME NEW h \in Hooks PROVE MarkInv(h) /\ CopyInv(h)
    BY DEF Init, MarkInv, CopyInv, BeforeCopy, Copied
<1> QED
    BY <1>1, <1>2, <1>3 DEF Inv

\* main(): a hook is started for a crash and opens the user core.
LEMMA StartKeeps ==
    ASSUME NEW h \in Hooks, Inv, start(h)
    PROVE  Inv'
<1>1. Types /\ CopyInv(h) /\ MarkInv(h) /\ pc[h] = "start"
    BY DEF Inv, start
<1>2. PICK f \in {"none", "old", "foreign"}, suid \in BOOLEAN, fault \in OpenFaults, n \in cfg.images :
        /\ found' = [found EXCEPT ![h] = f]
        /\ image' = [image EXCEPT ![h] = n]
        /\ IF WantsUserCore THEN open_user_core(h, f, suid, fault)
           ELSE f = "none" /\ ~suid /\ fault = "none"
                /\ ufile' = [ufile EXCEPT ![h] = f] /\ UNCHANGED ufd
    BY DEF start
<1>3. /\ pc' = [pc EXCEPT ![h] = "exe"]
      /\ UNCHANGED <<cfg, why, markerVars, user, taken, core, cp, flags, broken, now>>
    BY DEF start, Goto
<1>4. n \in Nat
    BY <1>1, ConfigsAssumption DEF Types
<1>5. /\ ufile' \in [Hooks -> {"none", "old", "foreign", "empty", "core", "unlinked"}] /\ ufd' \in [Hooks -> BOOLEAN]
      /\ \A g \in Hooks \ {h} : ufile'[g] = ufile[g] /\ ufd'[g] = ufd[g]
      /\ ufd'[h] <=> ufile'[h] = "core"
      /\ f = "foreign" => ufile'[h] = "foreign"
    <2> DEFINE opened == WantsUserCore /\ fault = "none" /\ MayOpen(f, suid)
               file == IF opened THEN "core" ELSE IF f = "none" /\ fault = "check" THEN "empty" ELSE f
    <2>1. opened \in BOOLEAN /\ (opened <=> file = "core") /\ (f = "foreign" => file = "foreign")
          /\ file \in {"none", "old", "foreign", "empty", "core", "unlinked"}
        BY DEF MayOpen
    <2>2. ufile \in [Hooks -> {"none", "old", "foreign", "empty", "core", "unlinked"}] /\ ufd \in [Hooks -> BOOLEAN]
        BY <1>1 DEF Types
    <2>3. ufd[h] = FALSE
        BY <1>1, <2>2 DEF CopyInv
    <2>4. ufile' = [ufile EXCEPT ![h] = file]
        BY <1>2 DEF open_user_core
    <2>5. ufd' = [ufd EXCEPT ![h] = opened]
        <3>1. CASE WantsUserCore
            BY <1>2, <3>1 DEF open_user_core
        <3>2. CASE ~WantsUserCore
            <4>1. ufd' = ufd /\ opened = FALSE
                BY <1>2, <3>2
            <4> QED
                BY <2>2, <2>3, <4>1
        <3> QED
            BY <3>1, <3>2
    <2> HIDE DEF opened, file
    <2>6. ufile' \in [Hooks -> {"none", "old", "foreign", "empty", "core", "unlinked"}] /\ ufd' \in [Hooks -> BOOLEAN]
          /\ ufile'[h] = file /\ ufd'[h] = opened
          /\ \A g \in Hooks \ {h} : ufile'[g] = ufile[g] /\ ufd'[g] = ufd[g]
        BY <2>1, <2>2, <2>4, <2>5
    <2> QED
        BY <2>1, <2>6
<1>6. Types'
    BY <1>1, <1>2, <1>3, <1>4, <1>5 DEF Types, markerVars, BeforeCopy
<1>7. pc'[h] = "exe" /\ found'[h] = f /\ \A g \in Hooks \ {h} : pc'[g] = pc[g] /\ why'[g] = why[g]
    BY <1>1, <1>2, <1>3 DEF Types
<1>8. WrittenInv' /\ \A g \in Hooks : MarkInv(g)'
    <2>1. why'[h] = "none"
        BY <1>1, <1>3 DEF MarkInv
    <2> QED
        BY <1>1, <1>3, <1>7, <2>1, MarkLeft DEF Before, markerVars
<1>9. CopyInv(h)'
    BY <1>1, <1>3, <1>5, <1>7 DEF CopyInv, Copied
<1>10. ASSUME NEW g \in Hooks \ {h} PROVE SameCopy(g)
    BY <1>1, <1>2, <1>3, <1>5, <1>7 DEF SameCopy, Types
<1> QED
    BY <1>3, <1>6, <1>8, <1>9, <1>10, OthersCopy DEF Inv

\* The executable is looked at and perhaps ignored.
LEMMA ExecutableKeeps ==
    ASSUME NEW h \in Hooks, Inv, look_at_executable(h)
    PROVE  Inv'
<1>0. pc[h] = "exe" /\ UNCHANGED <<cfg, markerVars, found, image, taken, core, cp, flags, now>>
    BY DEF look_at_executable
<1>1. CASE \/ ReturnUserCore(h, "no_executable") \/ JustExit(h, "ignored_path")
           \/ JustExit(h, "the_hook_itself")
    <2>1. PICK r \in Reasons \ {"none", "repeated"} : Leaves(h, r)
        BY <1>1 DEF Leaves, Reasons, NotLookedAt
    <2> QED
        BY <1>0, <2>1, LeaveKeeps DEF BeforeCopy, markerVars
<1>2. CASE Goto(h, "stat") /\ UNCHANGED <<why, user, ufd, broken, ufile, dir, lock>>
    BY <1>0, <1>2, PassKeeps DEF BeforeCopy, Before, Copied, userVars, copyVars
<1> QED
    BY <1>1, <1>2 DEF look_at_executable

\* The other reasons not to save the crash, and dd_create().
LEMMA CrashKeeps ==
    ASSUME NEW h \in Hooks, Inv, look_at_crash(h)
    PROVE  Inv'
<1>0. pc[h] = "checks" /\ UNCHANGED <<cfg, markerVars, found, image, taken, core, cp, flags, now>>
    BY DEF look_at_crash
<1>1. CASE \/ CleanUp(h, "abrt_program") \/ ReturnUserCore(h, "unsupported_signal")
           \/ ReturnUserCore(h, "abrtd_is_not_running") \/ JustExit(h, "user_not_allowed")
           \/ ReturnUserCore(h, "low_free_space") \/ JustExit(h, "abrt_program")
           \/ ReturnUserCore(h, "no_directory")
    <2>1. PICK r \in Reasons \ {"none", "repeated"} : Leaves(h, r)
        BY <1>1 DEF Leaves, Reasons, NotLookedAt
    <2> QED
        BY <1>0, <2>1, LeaveKeeps DEF BeforeCopy, markerVars
<1>2. CASE Goto(h, "collect") /\ UNCHANGED <<why, user, ufd, broken, ufile>>
    BY <1>0, <1>2, PassKeeps DEF BeforeCopy, Before, Copied, userVars, copyVars
<1> QED
    BY <1>1, <1>2 DEF look_at_crash, signal_is_not_fatal, low_free_space, dump_abrt_process

\* What is known of the process is saved.
LEMMA CollectKeeps ==
    ASSUME NEW h \in Hooks, Inv, collect_items(h)
    PROVE  Inv'
<1>0. pc[h] = "collect" /\ UNCHANGED <<cfg, markerVars, found, image, taken, core, cp, flags, now>>
    BY DEF collect_items
<1>1. CASE CleanUp(h, "binary_not_saved")
    <2>1. PICK r \in Reasons \ {"none", "repeated"} : Leaves(h, r)
        BY <1>1 DEF Leaves, Reasons, NotLookedAt
    <2> QED
        BY <1>0, <2>1, LeaveKeeps DEF BeforeCopy, markerVars
<1>2. CASE Goto(h, "copy") /\ UNCHANGED <<why, user, ufd, broken, ufile, dir, lock>>
    BY <1>0, <1>2, PassKeeps DEF BeforeCopy, Before, Copied, userVars, copyVars
<1> QED
    BY <1>1, <1>2 DEF collect_items, save_crashing_binary

\* The steps after the copy.
LEMMA RestKeeps ==
    ASSUME NEW h \in Hooks, Inv,
           \/ create_core_backtrace(h) \/ close_directory(h) \/ rename_directory(h)
           \/ trim_problem_dirs(h) \/ delete_dump_dir(h) \/ die(h) \/ no_marker(h)
    PROVE  Inv'
<1>1. CASE create_core_backtrace(h)
    BY <1>1, PassKeeps DEF create_core_backtrace, BeforeCopy, Before, Copied
<1>2. CASE close_directory(h)
    BY <1>2, PassKeeps DEF close_directory, BeforeCopy, Before, Copied
<1>3. CASE rename_directory(h)
    BY <1>3, PassKeeps DEF rename_directory, BeforeCopy, Before, Copied
<1>4. CASE trim_problem_dirs(h)
    <2>1. PICK l \in {"end", "delete"} : Goto(h, l)
        BY <1>4 DEF trim_problem_dirs
    <2> QED
        BY <1>4, <2>1, PassKeeps DEF trim_problem_dirs, BeforeCopy, Before, Copied
<1>5. CASE die(h)
    BY <1>5, PassKeeps DEF die, BeforeCopy, Before, Copied
<1>6. CASE delete_dump_dir(h)
    BY <1>6, PassKeeps DEF delete_dump_dir, BeforeCopy, Before, Copied
<1>7. CASE no_marker(h)
    BY <1>7, PassKeeps DEF no_marker, BeforeCopy, Before, Copied
<1> QED
    BY <1>1, <1>2, <1>3, <1>4, <1>5, <1>6, <1>7
-----------------------------------------------------------------------------
\* A step that leaves the cores alone and moves a hook before the copy.
LEMMA MarkerCopy ==
    ASSUME NEW h \in Hooks, NEW where \in BeforeCopy, Inv, pc[h] \in BeforeCopy, Goto(h, where),
           UNCHANGED <<cfg, why, userVars, copyVars>>
    PROVE  \A g \in Hooks : CopyInv(g)'
<1>1. Types /\ CopyInv(h)
    BY DEF Inv
<1>2. pc'[h] = where /\ \A g \in Hooks \ {h} : pc'[g] = pc[g]
    BY <1>1 DEF Types, Goto
<1>3. CopyInv(h)'
    BY <1>1, <1>2 DEF CopyInv, BeforeCopy, Copied, userVars, copyVars
<1>4. ASSUME NEW g \in Hooks \ {h} PROVE SameCopy(g)
    BY <1>2 DEF SameCopy, userVars, copyVars
<1> QED
    BY <1>3, <1>4, OthersCopy

\* check_recent_crash_file(): what this hook sees of the marker.
LEMMA StatKeeps ==
    ASSUME NEW h \in Hooks, Inv, stat_marker(h)
    PROVE  Inv'
<1>1. Types /\ MarkInv(h) /\ pc[h] = "stat" /\ WrittenInv
    BY DEF Inv, stat_marker
<1> DEFINE seen == {g \in Hooks : passed[g].done}  w == IF Recent THEN "read" ELSE "write"
<1>2. /\ Goto(h, w) /\ stat' = [stat EXCEPT ![h] = now] /\ looked' = [looked EXCEPT ![h] = seen]
      /\ UNCHANGED <<cfg, why, marker, passed, misled, userVars, copyVars, now>>
    BY DEF stat_marker
<1>3. Types'
    BY <1>1, <1>2 DEF Types, Goto, userVars, copyVars, BeforeCopy
<1>4. /\ pc'[h] = w /\ stat'[h] = now /\ looked'[h] = seen
      /\ \A g \in Hooks \ {h} : pc'[g] = pc[g] /\ stat'[g] = stat[g] /\ looked'[g] = looked[g]
    BY <1>1, <1>2 DEF Types, Goto
<1>5. \A g \in Hooks : CopyInv(g)'
    BY <1>1, <1>2, MarkerCopy DEF BeforeCopy
<1>6. WrittenInv'
    <2>1. Writing' \subseteq Writing
        BY <1>1, <1>4 DEF Writing
    <2> QED
        BY <1>1, <1>2, <2>1 DEF WrittenInv, Begins
<1>7. MarkInv(h)'
    <2>1. w = "read" => FreshInv(h)'
        BY <1>1, <1>2, <1>4 DEF FreshInv, Recent, Types
    <2> QED
        BY <1>1, <1>2, <1>4, <2>1 DEF MarkInv, Before
<1>8. ASSUME NEW g \in Hooks \ {h} PROVE MarkInv(g)'
    BY <1>2, <1>4 DEF Inv, MarkInv, FreshInv, Repeats
<1> QED
    BY <1>3, <1>5, <1>6, <1>7, <1>8 DEF Inv

\* The name of a program, and what the marker may hold of it.
LEMMA NameSeq ==
    ASSUME NEW h \in Hooks, cfg \in Configs
    PROVE  cfg.exe[h] \in Seq(Nat \ {0}) /\ cfg.exe[h] # <<>> /\ cfg.exe[h] \in Seq(Nat)
<1>1. cfg.exe[h] \in Seq(Nat \ {0}) \ {<<>>}
    BY ConfigsAssumption
<1>2. \A e \in Seq(Nat \ {0}) : e \in Seq(Nat)
    OBVIOUS
<1> QED
    BY <1>1, <1>2

\* strcmp() holds only of the name itself where the text is a name.
LEMMA SpelledName ==
    ASSUME NEW text \in Seq(Nat \ {0}), NEW name \in Seq(Nat \ {0}), Spells(text, name)
    PROVE  text = name
<1>1. Len(text) >= Len(name) /\ \A i \in 1 .. Len(name) : text[i] = name[i]
    BY DEF Spells
<1>2. Len(text) = Len(name)
    <2> SUFFICES ASSUME Len(text) > Len(name) PROVE FALSE
        BY <1>1
    <2>1. text[Len(name) + 1] = 0 /\ Len(name) + 1 \in 1 .. Len(text)
        BY DEF Spells
    <2> QED
        BY <2>1
<1> QED
    BY <1>1, <1>2, SeqEqual

\* write(): the name begins the text, and is all of it unless the old one was longer.
LEMMA WrittenOver ==
    ASSUME NEW name \in Seq(Nat), NEW old \in Seq(Nat),
           NEW text, text = name \o SubSeq(old, Len(name) + 1, Len(old))
    PROVE  /\ text \in Seq(Nat) /\ Begins(text, name)
           /\ Len(old) <= Len(name) => text = name
<1> DEFINE rest == SubSeq(old, Len(name) + 1, Len(old))
<1>1. rest \in Seq(Nat)
    <2>1. Len(name) \in Nat /\ Len(old) \in Nat
        OBVIOUS
    <2>2. \A i \in Len(name) + 1 .. Len(old) : i \in 1 .. Len(old)
        BY <2>1
    <2> QED
        BY <2>1, <2>2, SubSeqProperties
<1>2. Len(old) <= Len(name) => rest = <<>>
    <2>1. ASSUME Len(old) <= Len(name) PROVE Len(rest) = 0
        BY <2>1, SubSeqProperties
    <2> QED
        BY <1>1, <2>1, EmptySeq
<1> HIDE DEF rest
<1>3. text \in Seq(Nat) /\ Len(text) = Len(name) + Len(rest)
      /\ \A i \in 1 .. Len(name) + Len(rest) : text[i] = IF i <= Len(name) THEN name[i] ELSE rest[i - Len(name)]
    BY <1>1, ConcatProperties DEF rest
<1>4. Begins(text, name)
    <2>1. Len(name) \in Nat /\ Len(rest) \in Nat
        BY <1>1
    <2> QED
        BY <1>3, <2>1 DEF Begins
<1>5. ASSUME rest = <<>> PROVE text = name
    <2>1. Len(rest) = 0 /\ Len(name) \in Nat
        BY <1>5
    <2>2. Len(text) = Len(name) /\ \A i \in 1 .. Len(name) : text[i] = name[i]
        BY <1>3, <1>4, <2>1 DEF Begins
    <2> QED
        BY <1>3, <2>2, SeqEqual
<1> QED
    BY <1>2, <1>3, <1>4, <1>5

\* ftruncate(): what begins with the name becomes the name.
LEMMA CutOff ==
    ASSUME NEW name \in Seq(Nat), NEW old \in Seq(Nat),
           NEW text, text = [i \in 1 .. Len(name) |-> IF i <= Len(old) THEN old[i] ELSE 0]
    PROVE  text \in Seq(Nat) /\ (Begins(old, name) => text = name)
<1>1. Len(name) \in Nat /\ Len(old) \in Nat
    OBVIOUS
<1>2. \A i \in 1 .. Len(name) : text[i] \in Nat
    BY <1>1
<1>3. text \in Seq(Nat) /\ Len(text) = Len(name)
    BY <1>1, <1>2
<1>4. ASSUME Begins(old, name) PROVE \A i \in 1 .. Len(name) : text[i] = name[i]
    BY <1>1, <1>4 DEF Begins
<1> QED
    BY <1>3, <1>4, SeqEqual

\* A text that is not torn, and that a hook takes for its own program's name, was
\* written by another hook of it.
LEMMA ReadKeeps ==
    ASSUME NEW h \in Hooks, Inv, read_marker(h)
    PROVE  Inv'
<1>0. pc[h] = "read" /\ UNCHANGED <<cfg, marker, stat, passed, looked, found, image, taken, core, cp, flags, now>>
      /\ Types /\ MarkInv(h) /\ WrittenInv
    BY DEF read_marker, Inv
<1>1. CASE /\ Spells(marker.text, cfg.exe[h]) /\ ReturnUserCore(h, "repeated")
           /\ misled' = IF marker.torn = "no" THEN misled ELSE misled \cup {h}
    <2>1. ASSUME marker.torn = "no" PROVE \E k \in Hooks \ {h} : Repeats(h, k)
        <3>0. cfg.exe[h] \in Seq(Nat \ {0}) /\ cfg.exe[h] # <<>>
            BY <1>0, NameSeq DEF Types
        <3>1. marker.text # <<>>
            <4>1. Len(cfg.exe[h]) # 0 /\ Len(cfg.exe[h]) \in Nat
                BY <3>0, EmptySeq
            <4>2. Len(marker.text) >= Len(cfg.exe[h])
                BY <1>1 DEF Spells
            <4> QED
                BY <4>1, <4>2, EmptySeq
        <3>2. PICK g \in Hooks : cfg.exe[g] = marker.text /\ passed[g].done /\ passed[g].at = marker.mtime
            BY <1>0, <2>1, <3>1 DEF WrittenInv
        <3>3. marker.text = cfg.exe[h]
            <4>1. cfg.exe[g] \in Seq(Nat \ {0})
                BY <1>0, NameSeq DEF Types
            <4> QED
                BY <1>1, <3>0, <3>2, <4>1, SpelledName
        <3>4. ~passed[h].done /\ FreshInv(h)
            BY <1>0, <2>1 DEF MarkInv, Before
        <3>5. CASE \E k \in Hooks \ looked[h] : cfg.exe[k] = marker.text /\ passed[k].done
            BY <3>3, <3>4, <3>5 DEF Repeats
        <3>6. CASE marker.mtime <= stat[h] /\ stat[h] - marker.mtime < Window
            <4>1. Repeats(h, g) /\ g # h
                BY <3>2, <3>3, <3>4, <3>6 DEF Repeats
            <4> QED
                BY <4>1
        <3> QED
            BY <3>4, <3>5, <3>6 DEF FreshInv
    <2>2. misled \subseteq misled' /\ (h \in misled' \/ \E k \in Hooks \ {h} : Repeats(h, k))
        BY <1>1, <2>1
    <2> QED
        BY <1>0, <1>1, <2>2, LeaveKeeps DEF Leaves, BeforeCopy, Reasons
<1>2. CASE Goto(h, "write") /\ UNCHANGED <<why, user, ufd, broken, ufile, dir, lock, misled>>
    BY <1>0, <1>2, PassKeeps DEF BeforeCopy, Before, Copied, markerVars, userVars, copyVars
<1> QED
    BY <1>1, <1>2 DEF read_marker

\* check_recent_crash_file(): the marker gets this executable.
LEMMA WriteKeeps ==
    ASSUME NEW h \in Hooks, Inv, write_marker(h)
    PROVE  Inv'
<1>1. Types /\ MarkInv(h) /\ pc[h] = "write" /\ cfg.exe[h] \in Seq(Nat) /\ ~passed[h].done
    <2>1. Types /\ MarkInv(h) /\ pc[h] = "write"
        BY DEF Inv, write_marker
    <2>2. cfg.exe[h] \in Seq(Nat)
        BY <2>1, NameSeq DEF Types
    <2>3. ~passed[h].done
        BY <2>1 DEF MarkInv, Before
    <2> QED
        BY <2>1, <2>2, <2>3
<1> DEFINE name == cfg.exe[h]
           old == marker.text
           text == name \o SubSeq(old, Len(name) + 1, Len(old))
           torn == IF Writing # {} THEN "mixed" ELSE IF Len(old) > Len(name) THEN "half" ELSE "no"
<1>2. /\ Goto(h, "truncate")
      /\ UNCHANGED <<cfg, why, misled, userVars, copyVars, now>>
      /\ marker' = [text |-> text, mtime |-> now, torn |-> torn]
      /\ passed' = [passed EXCEPT ![h] = [done |-> TRUE, at |-> now]]
      /\ stat' = [stat EXCEPT ![h] = 0] /\ looked' = [looked EXCEPT ![h] = {}]
    BY DEF write_marker
<1>3. text \in Seq(Nat) /\ Begins(text, name) /\ (torn = "no" => text = name)
    <2>1. old \in Seq(Nat)
        BY <1>1 DEF Types
    <2>2. Len(old) \in Nat /\ Len(name) \in Nat
        BY <1>1, <2>1
    <2>3. text \in Seq(Nat) /\ Begins(text, name) /\ (Len(old) <= Len(name) => text = name)
        BY <1>1, <2>1, WrittenOver
    <2>4. torn = "no" => Len(old) <= Len(name)
        BY <2>2
    <2> HIDE DEF text, torn
    <2> QED
        BY <2>3, <2>4
<1>4. /\ torn \in {"no", "half", "mixed"} /\ (torn # "mixed" => Writing = {})
    OBVIOUS
<1> HIDE DEF text, torn
<1>5. /\ marker'.text = text /\ marker'.mtime = now /\ marker'.torn = torn
      /\ passed'[h].done /\ passed'[h].at = now /\ looked'[h] = {} /\ pc'[h] = "truncate"
      /\ \A g \in Hooks \ {h} : /\ pc'[g] = pc[g] /\ passed'[g] = passed[g]
                                /\ stat'[g] = stat[g] /\ looked'[g] = looked[g]
    BY <1>1, <1>2 DEF Types, Goto
<1>6. Types'
    <2>1. marker' \in [text : Seq(Nat), mtime : Nat, torn : {"no", "half", "mixed"}]
        BY <1>1, <1>2, <1>3, <1>4 DEF Types
    <2>2. passed' \in [Hooks -> [done : BOOLEAN, at : Nat]]
        BY <1>1, <1>2 DEF Types
    <2> QED
        BY <1>1, <1>2, <2>1, <2>2 DEF Types, Goto, userVars, copyVars, BeforeCopy
<1>7. \A g \in Hooks : CopyInv(g)'
    BY <1>1, <1>2, MarkerCopy DEF BeforeCopy
<1>8. WrittenInv'
    <2>1. torn = "no" => cfg'.exe[h] = marker'.text /\ passed'[h].done /\ passed'[h].at = marker'.mtime
        BY <1>2, <1>3, <1>5
    <2>2. torn # "mixed" => Writing' = {h}
        BY <1>4, <1>5 DEF Writing
    <2>3. Begins(marker'.text, cfg'.exe[h])
        BY <1>2, <1>3, <1>5
    <2> QED
        BY <1>5, <2>1, <2>2, <2>3 DEF WrittenInv
<1>9. MarkInv(h)'
    BY <1>1, <1>2, <1>5 DEF MarkInv, Before
<1>10. ASSUME NEW g \in Hooks \ {h} PROVE MarkInv(g)'
    <2>1. MarkInv(g) /\ h \notin looked[g]
        BY <1>1 DEF Inv, MarkInv
    <2>2. marker'.torn = "no" => FreshInv(g)'
        BY <1>2, <1>3, <1>5, <2>1 DEF FreshInv
    <2>3. ASSUME NEW k \in Hooks, Repeats(g, k) PROVE Repeats(g, k)'
        <3>1. passed'[k] = passed[k]
            BY <1>1, <1>5, <2>3 DEF Repeats
        <3> QED
            BY <1>2, <1>5, <2>3, <3>1 DEF Repeats
    <2>4. ASSUME NEW k \in looked[g] PROVE passed'[k].done
        BY <1>1, <1>5, <2>1 DEF MarkInv, Types
    <2> QED
        BY <1>2, <1>5, <2>1, <2>2, <2>3, <2>4 DEF MarkInv
<1> QED
    BY <1>6, <1>7, <1>8, <1>9, <1>10 DEF Inv

\* check_recent_crash_file(): what is left of a longer text is cut off.
LEMMA TruncateKeeps ==
    ASSUME NEW h \in Hooks, Inv, truncate_marker(h)
    PROVE  Inv'
<1>1. Types /\ MarkInv(h) /\ pc[h] = "truncate" /\ cfg.exe[h] \in Seq(Nat) /\ WrittenInv
    <2>1. Types /\ MarkInv(h) /\ pc[h] = "truncate" /\ WrittenInv
        BY DEF Inv, truncate_marker
    <2>2. cfg.exe[h] \in Seq(Nat)
        BY <2>1, NameSeq DEF Types
    <2> QED
        BY <2>1, <2>2
<1> DEFINE name == cfg.exe[h]
           text == [i \in 1 .. Len(name) |-> IF i <= Len(marker.text) THEN marker.text[i] ELSE 0]
           torn == IF marker.torn = "mixed" THEN "mixed" ELSE "no"
<1>2. /\ Goto(h, "checks")
      /\ UNCHANGED <<cfg, why, stat, misled, userVars, copyVars, now>>
      /\ marker' = [text |-> text, mtime |-> now, torn |-> torn]
      /\ passed' = [passed EXCEPT ![h] = [done |-> TRUE, at |-> now]]
      /\ looked' = [g \in Hooks |-> looked[g] \ {h}]
    BY DEF truncate_marker
<1>3. text \in Seq(Nat) /\ (Begins(marker.text, name) => text = name)
    <2>1. marker.text \in Seq(Nat)
        BY <1>1 DEF Types
    <2> QED
        BY <1>1, <2>1, CutOff
<1>4. /\ torn \in {"no", "mixed"} /\ (torn = "no" => marker.torn # "mixed")
    OBVIOUS
<1>5. torn = "no" => text = name /\ Writing = {h}
    <2>1. h \in Writing
        BY <1>1 DEF Writing
    <2> QED
        BY <1>1, <1>3, <1>4, <2>1 DEF WrittenInv
<1> HIDE DEF text, torn
<1>6. /\ marker'.text = text /\ marker'.mtime = now /\ marker'.torn = torn
      /\ passed'[h].done /\ passed'[h].at = now /\ pc'[h] = "checks"
      /\ \A g \in Hooks : looked'[g] = looked[g] \ {h}
      /\ \A g \in Hooks \ {h} : pc'[g] = pc[g] /\ passed'[g] = passed[g]
    BY <1>1, <1>2 DEF Types, Goto
<1>7. Types'
    <2>1. marker' \in [text : Seq(Nat), mtime : Nat, torn : {"no", "half", "mixed"}]
        BY <1>1, <1>2, <1>3, <1>4 DEF Types
    <2>2. passed' \in [Hooks -> [done : BOOLEAN, at : Nat]] /\ looked' \in [Hooks -> SUBSET Hooks]
        BY <1>1, <1>2 DEF Types
    <2> QED
        BY <1>1, <1>2, <2>1, <2>2 DEF Types, Goto, userVars, copyVars, BeforeCopy
<1>8. \A g \in Hooks : CopyInv(g)'
    BY <1>1, <1>2, MarkerCopy DEF BeforeCopy
<1>9. WrittenInv'
    <2>1. torn = "no" => cfg'.exe[h] = marker'.text /\ passed'[h].done /\ passed'[h].at = marker'.mtime
        BY <1>2, <1>5, <1>6
    <2>2. torn # "mixed" => Writing' = {}
        BY <1>4, <1>5, <1>6 DEF Writing
    <2> QED
        BY <1>6, <2>1, <2>2 DEF WrittenInv
<1>10. ASSUME NEW g \in Hooks PROVE MarkInv(g)'
    <2>1. MarkInv(g) /\ h \notin looked'[g] /\ looked'[g] \subseteq looked[g]
        BY <1>6 DEF Inv
    <2>2. pc'[g] = "read" \/ pc'[g] \in Before => g # h /\ pc'[g] = pc[g]
        BY <1>6 DEF Before
    <2>3. marker'.torn = "no" => FreshInv(g)'
        BY <1>2, <1>5, <1>6, <2>1 DEF FreshInv
    <2>4. ASSUME NEW k \in Hooks, Repeats(g, k) PROVE Repeats(g, k)'
        <3>1. CASE k = h
            BY <1>2, <1>6, <2>1, <2>4, <3>1 DEF Repeats
        <3>2. CASE k # h
            <4>1. passed'[k] = passed[k] /\ (k \in looked'[g] <=> k \in looked[g])
                BY <1>6, <3>2
            <4> QED
                BY <1>2, <2>4, <4>1 DEF Repeats
        <3> QED
            BY <3>1, <3>2
    <2>5. ASSUME NEW k \in looked'[g] PROVE passed'[k].done
        <3>1. k \in looked[g] /\ k # h /\ k \in Hooks
            BY <1>1, <2>1, <2>5 DEF Types
        <3> QED
            BY <1>6, <2>1, <3>1 DEF MarkInv
    <2>6. why'[g] # "none" => pc'[g] = "end"
        BY <1>1, <1>2, <1>6, <2>1 DEF MarkInv
    <2>7. pc'[g] \in Before => ~passed'[g].done
        BY <1>6, <2>1, <2>2 DEF MarkInv
    <2>8. why'[g] = "repeated" /\ g \notin misled' => \E k \in Hooks \ {g} : Repeats(g, k)'
        BY <1>2, <2>1, <2>4 DEF MarkInv
    <2> QED
        BY <2>3, <2>5, <2>6, <2>7, <2>8 DEF MarkInv
<1> QED
    BY <1>7, <1>8, <1>9, <1>10 DEF Inv

\* Time passes.
LEMMA TickKeeps ==
    ASSUME Inv, Tick
    PROVE  Inv'
<1>1. Types /\ UNCHANGED <<cfg, pc, why, markerVars, userVars, copyVars>>
    BY DEF Inv, Tick
<1>2. now' \in Nat
    BY <1>1 DEF Tick, Types
<1>3. Types'
    BY <1>1, <1>2 DEF Types, markerVars, userVars, copyVars
<1>4. WrittenInv'
    BY <1>1 DEF Inv, WrittenInv, Writing, Begins, markerVars
<1>5. ASSUME NEW h \in Hooks PROVE MarkInv(h)'
    BY <1>1 DEF Inv, MarkInv, FreshInv, Repeats, markerVars
<1>6. ASSUME NEW h \in Hooks PROVE CopyInv(h)'
    <2>1. abrt_limit' = abrt_limit /\ UserIsSpliced' = UserIsSpliced
        BY <1>1 DEF abrt_limit, UserIsSpliced
    <2> QED
        BY <1>1, <2>1 DEF Inv, CopyInv, TeeInv, WholeInv, SplicedLimit, TeedLimit, Spliced, Teed, userVars, copyVars
<1> QED
    BY <1>3, <1>4, <1>5, <1>6 DEF Inv
-----------------------------------------------------------------------------
\* A step of the copy leaves the marker and the other hooks alone.
LEMMA CopyStep ==
    ASSUME NEW h \in Hooks, NEW where \in {"tee", "unwind"}, Inv, pc[h] \in {"copy", "tee"},
           pc' = [pc EXCEPT ![h] = where], UNCHANGED <<cfg, why, markerVars, now>>, Types', CopyInv(h)',
           \A g \in Hooks \ {h} : SameCopy(g)
    PROVE  Inv'
<1>1. Types /\ MarkInv(h)
    BY DEF Inv
<1>2. pc'[h] = where /\ why'[h] = "none" /\ \A g \in Hooks \ {h} : pc'[g] = pc[g] /\ why'[g] = why[g]
    <2>1. pc \in [Hooks -> {"start", "tee", "dead"} \cup BeforeCopy \cup Copied]
        BY <1>1 DEF Types
    <2>2. why[h] = "none" /\ why' = why
        BY <1>1 DEF MarkInv
    <2> QED
        BY <2>1, <2>2
<1>3. WrittenInv' /\ \A g \in Hooks : MarkInv(g)'
    BY <1>2, MarkLeft DEF Before, markerVars
<1> QED
    BY <1>3, OthersCopy DEF Inv

\* The image goes to the user core, to the coredump, or a copy to both begins.
LEMMA SaveKeeps ==
    ASSUME NEW h \in Hooks, Inv, save_core(h)
    PROVE  Inv'
<1>0. /\ Types /\ CopyInv(h) /\ pc[h] = "copy"
      /\ UNCHANGED <<cfg, markerVars, found, image, taken, flags, now>>
      /\ abrt_limit \in Nat /\ abrt_limit' = abrt_limit /\ image[h] \in Nat
    BY LimitNat DEF Inv, save_core, Types, abrt_limit
<1>e. /\ user[h] = <<>> /\ core[h] = <<>> /\ flags[h] = {} /\ taken[h] = 0 /\ (ufd[h] <=> ufile[h] = "core")
      /\ Positions(0, 0) = <<>>
    BY <1>0, PositionsNone DEF CopyInv, BeforeCopy
<1>1. CASE create_user_core(h) /\ Goto(h, "unwind") /\ UNCHANGED <<why, ufile, dir, lock, core, cp>>
    <2>1. /\ user' \in [Hooks -> Seq(Nat)] /\ ufd' \in [Hooks -> BOOLEAN] /\ broken' \subseteq Hooks
          /\ broken \subseteq broken' /\ broken' \subseteq broken \cup {h}
          /\ \A g \in Hooks \ {h} : user'[g] = user[g] /\ ufd'[g] = ufd[g]
          /\ h \notin broken' /\ ufile[h] = "core" =>
                user'[h] = Positions(0, Minimum(image[h], cfg.ulimit))
        BY <1>0, <1>1, UserCoreWhole DEF BeforeCopy
    <2>2. Types'
        BY <1>0, <1>1, <2>1 DEF Types, Goto, markerVars, Copied
    <2>3. pc'[h] = "unwind"
        BY <1>0, <1>1 DEF Types, Goto
    <2>4. WholeInv(h)'
        BY <1>0, <1>e, <1>1, <2>1 DEF WholeInv
    <2>5. CopyInv(h)'
        BY <1>0, <1>1, <2>3, <2>4 DEF CopyInv, BeforeCopy
    <2>6. ASSUME NEW g \in Hooks \ {h} PROVE SameCopy(g)
        BY <1>0, <1>1, <2>1 DEF SameCopy, Types, Goto
    <2> QED
        BY <1>0, <1>1, <2>2, <2>5, <2>6, CopyStep DEF Goto
<1>2. ASSUME ~ufd[h], NEW n \in 0 .. Minimum(image[h], abrt_limit),
             core' = [core EXCEPT ![h] = Positions(0, n)],
             broken' = (IF n = Minimum(image[h], abrt_limit) THEN broken ELSE broken \cup {h}),
             Goto(h, "unwind"), UNCHANGED <<why, user, ufd, ufile, dir, lock, cp>>
      PROVE  Inv'
    <2>1. n \in Nat /\ 0 <= n
        BY <1>0 DEF Minimum
    <2>2. Positions(0, n) \in Seq(Nat)
        BY <2>1, PositionsSeq
    <2>3. core' \in [Hooks -> Seq(Nat)] /\ core'[h] = Positions(0, n) /\ broken' \subseteq Hooks
        BY <1>0, <1>2, <2>2 DEF Types
    <2>4. Types'
        BY <1>0, <1>2, <2>3 DEF Types, Goto, markerVars, Copied
    <2>5. pc'[h] = "unwind"
        BY <1>0, <1>2 DEF Types, Goto
    <2>6. WholeInv(h)'
        BY <1>0, <1>e, <1>2, <2>3 DEF WholeInv
    <2>7. CopyInv(h)'
        BY <1>0, <1>2, <2>5, <2>6 DEF CopyInv, BeforeCopy
    <2>8. ASSUME NEW g \in Hooks \ {h} PROVE SameCopy(g)
        BY <1>0, <1>2 DEF SameCopy, Types, Goto
    <2> QED
        BY <1>0, <1>2, <2>4, <2>7, <2>8, CopyStep DEF Goto
<1>3. ASSUME ufd[h], NEW made \in BOOLEAN, cp' = [cp EXCEPT ![h] = made],
             broken' = (IF made THEN broken ELSE broken \cup {h}),
             Goto(h, "tee"), UNCHANGED <<why, user, ufd, ufile, dir, lock, core>>
      PROVE  Inv'
    <2>1. Types'
        BY <1>0, <1>3 DEF Types, Goto, markerVars
    <2>2. pc'[h] = "tee" /\ cp'[h] = made
        BY <1>0, <1>3 DEF Types, Goto
    <2>3. SplicedLimit \in Nat /\ SplicedLimit' = SplicedLimit
        BY <1>0, LimitNat DEF SplicedLimit, UserIsSpliced, Types
    <2>4. TeeInv(h)'
        BY <1>0, <1>e, <1>3, <2>2, <2>3 DEF TeeInv, Spliced, Teed
    <2>5. CopyInv(h)'
        BY <1>0, <1>3, <2>2, <2>4 DEF CopyInv, BeforeCopy, Copied
    <2>6. ASSUME NEW g \in Hooks \ {h} PROVE SameCopy(g)
        BY <1>0, <1>3 DEF SameCopy, Types, Goto
    <2> QED
        BY <1>0, <1>3, <2>1, <2>5, <2>6, CopyStep DEF Goto
<1> QED
    BY <1>1, <1>2, <1>3 DEF save_core

\* The two files, told by their limits.
LEMMA TwoFiles ==
    ASSUME NEW h \in Hooks, Types
    PROVE  /\ SplicedLimit \in Nat /\ TeedLimit \in Nat /\ TeedLimit <= SplicedLimit
           /\ Spliced(h) \in Seq(Nat) /\ Teed(h) \in Seq(Nat)
BY LimitNat DEF SplicedLimit, TeedLimit, UserIsSpliced, Spliced, Teed, Types

\* Both files hold the image up to their limits.
BothWhole(h, s, t) ==
    /\ s = Positions(0, Minimum(image[h], SplicedLimit))
    /\ t = Positions(0, Minimum(image[h], TeedLimit))

\* The end of the loop, with what the files then hold.
LEMMA CopiedKeeps ==
    ASSUME NEW h \in Hooks, Inv, pc[h] = "tee", NEW open \in BOOLEAN, copied(h, open),
           NEW s \in Seq(Nat), NEW t \in Seq(Nat), Files(h, s, t),
           taken' \in [Hooks -> Nat], \A g \in Hooks \ {h} : taken'[g] = taken[g],
           broken \subseteq broken', broken' \subseteq broken \cup {h},
           UNCHANGED <<cfg, why, markerVars, found, ufile, image, now>>,
           h \notin broken' => BothWhole(h, s, t),
           open => s = Positions(0, image[h]) /\ t = s
    PROVE  Inv'
<1>1. Types /\ CopyInv(h) /\ TeeInv(h)
    BY DEF Inv, CopyInv
<1>2. PICK r \in {"ABRT", "USER"} : flags' = [flags EXCEPT ![h] = IF open THEN {} ELSE {r}]
    BY DEF copied
<1>3. /\ pc' = [pc EXCEPT ![h] = "unwind"] /\ cp' = [cp EXCEPT ![h] = FALSE] /\ ufd' = [ufd EXCEPT ![h] = FALSE]
    BY DEF copied, Goto
<1>4. /\ user' \in [Hooks -> Seq(Nat)] /\ core' \in [Hooks -> Seq(Nat)]
      /\ user'[h] = (IF UserIsSpliced THEN s ELSE t) /\ core'[h] = (IF UserIsSpliced THEN t ELSE s)
      /\ \A g \in Hooks \ {h} : user'[g] = user[g] /\ core'[g] = core[g]
    BY <1>1 DEF Files, Types
<1>5. flags' \in [Hooks -> SUBSET {"ABRT", "USER"}] /\ (flags'[h] = {} => open)
      /\ \A g \in Hooks \ {h} : flags'[g] = flags[g]
    BY <1>1, <1>2 DEF Types
<1>6. Types'
    BY <1>1, <1>3, <1>4, <1>5 DEF Types, markerVars, Copied
<1>7. pc'[h] = "unwind"
    BY <1>1, <1>3 DEF Types
<1>8. WholeInv(h)'
    <2>1. abrt_limit' = abrt_limit
        BY DEF abrt_limit
    <2>2. h \notin broken' => /\ core'[h] = Positions(0, Minimum(image[h], abrt_limit))
                              /\ user'[h] = Positions(0, Minimum(image[h], cfg.ulimit))
        BY <1>4 DEF BothWhole, SplicedLimit, TeedLimit
    <2>3. flags'[h] = {} => core'[h] = Positions(0, image[h]) /\ user'[h] = core'[h]
        BY <1>4, <1>5
    <2> QED
        BY <2>1, <2>2, <2>3 DEF WholeInv
<1>9. CopyInv(h)'
    BY <1>1, <1>7, <1>8 DEF CopyInv, BeforeCopy
<1>10. ASSUME NEW g \in Hooks \ {h} PROVE SameCopy(g)
    BY <1>1, <1>3, <1>4, <1>5 DEF SameCopy, Types
<1> QED
    BY <1>3, <1>6, <1>9, <1>10, CopyStep

\* One turn of the loop.
LEMMA TeeKeeps ==
    ASSUME NEW h \in Hooks, Inv, tee_and_splice(h)
    PROVE  Inv'
<1> DEFINE n == taken[h]  size == image[h]
<1>0. /\ Types /\ CopyInv(h) /\ TeeInv(h) /\ pc[h] = "tee" /\ n \in Nat /\ size \in Nat
      /\ UNCHANGED <<cfg, why, markerVars, found, ufile, image, now>>
    BY DEF Inv, tee_and_splice, CopyInv, Types
<1>1. /\ SplicedLimit \in Nat /\ TeedLimit \in Nat /\ TeedLimit <= SplicedLimit
      /\ Spliced(h) \in Seq(Nat) /\ Teed(h) \in Seq(Nat)
    BY <1>0, TwoFiles
<1>2. /\ n <= size /\ n <= SplicedLimit /\ Spliced(h) = Positions(0, n) /\ Len(Spliced(h)) = n
      /\ cp[h] => Teed(h) = Positions(0, n) /\ Len(Teed(h)) = n /\ (n < TeedLimit \/ n = 0)
      /\ ~cp[h] /\ h \notin broken => Teed(h) = Positions(0, TeedLimit) /\ TeedLimit <= n
    <2>1. Len(Positions(0, n)) = n
        BY <1>0, PositionsFirst
    <2> QED
        BY <1>0, <2>1 DEF TeeInv
<1>3. PipeSize \in Nat \ {0}
    BY SizesAssumption
<1>4. PICK got \in 0 .. Minimum(PipeSize, size - n), fault \in {"none", "tee", "splice"} :
        /\ got = 0 <=> size - n = 0
        /\ fault # "none" => cp[h]
        /\ IF cp[h] /\ fault # "tee" /\ size - n = 0
           THEN copied(h, TRUE) /\ UNCHANGED <<user, core, taken, broken>>
           ELSE LET teed == cp[h] /\ fault # "tee"
                    want == IF teed THEN got ELSE Minimum(PipeSize, size - n)
                    s == Minimum(want, SplicedLimit - Len(Spliced(h)))
                    c == IF teed THEN Minimum(want, TeedLimit - Len(Teed(h))) ELSE 0
                IN  \E t \in (IF fault = "splice" THEN 0 .. c ELSE {c}) :
                    /\ Files(h, Spliced(h) \o Positions(n, n + s), Teed(h) \o Positions(n, n + t))
                    /\ taken' = [taken EXCEPT ![h] = @ + s]
                    /\ broken' = IF fault = "none" THEN broken ELSE broken \cup {h}
                    /\ IF s = 0 \/ Len(Spliced(h)) + s >= SplicedLimit
                       THEN copied(h, PipeStays(h, t, fault))
                       ELSE /\ cp' = [cp EXCEPT ![h] = PipeStays(h, t, fault)]
                            /\ UNCHANGED <<flags, ufd, pc>>
    BY DEF tee_and_splice
<1>5. CASE cp[h] /\ fault # "tee" /\ size - n = 0
    <2>0. n = size
        BY <1>0, <1>5
    <2>1. copied(h, TRUE) /\ UNCHANGED <<user, core, taken, broken>>
        BY <1>4, <1>5
    <2>2. Files(h, Spliced(h), Teed(h))
        BY <1>0, <2>1 DEF Files, Spliced, Teed, Types
    <2>3. BothWhole(h, Spliced(h), Teed(h)) /\ Teed(h) = Spliced(h) /\ Spliced(h) = Positions(0, size)
        <3>1. Minimum(size, SplicedLimit) = n /\ Minimum(size, TeedLimit) = n
            BY <1>0, <1>1, <1>2, <1>5, <2>0 DEF Minimum
        <3> QED
            BY <1>2, <1>5, <2>0, <3>1 DEF BothWhole
    <2> QED
        BY <1>0, <1>1, <2>1, <2>2, <2>3, CopiedKeeps DEF Types
<1>6. CASE ~(cp[h] /\ fault # "tee" /\ size - n = 0)
    <2> DEFINE teed == cp[h] /\ fault # "tee"
               want == IF teed THEN got ELSE Minimum(PipeSize, size - n)
               s == Minimum(want, SplicedLimit - n)
               c == IF teed THEN Minimum(want, TeedLimit - n) ELSE 0
    <2>0. cp[h] \in BOOLEAN
        BY <1>0 DEF Types
    <2>a. (IF teed THEN Minimum(want, TeedLimit - Len(Teed(h))) ELSE 0) = c
        BY <1>2
    <2>1. PICK t \in (IF fault = "splice" THEN 0 .. c ELSE {c}) :
            /\ Files(h, Spliced(h) \o Positions(n, n + s), Teed(h) \o Positions(n, n + t))
            /\ taken' = [taken EXCEPT ![h] = @ + s]
            /\ broken' = IF fault = "none" THEN broken ELSE broken \cup {h}
            /\ IF s = 0 \/ n + s >= SplicedLimit
               THEN copied(h, PipeStays(h, t, fault))
               ELSE /\ cp' = [cp EXCEPT ![h] = PipeStays(h, t, fault)]
                    /\ UNCHANGED <<flags, ufd, pc>>
        BY <1>2, <1>4, <1>6, <2>a
    <2>2. /\ s \in Nat /\ c \in Nat /\ n + s <= size /\ n + s <= SplicedLimit
          /\ s = 0 \/ n + s >= SplicedLimit => n + s = Minimum(size, SplicedLimit)
          /\ teed => n + c = Minimum(n + s, TeedLimit)
          /\ teed /\ (s = 0 \/ n + s >= SplicedLimit) => n + c = Minimum(size, TeedLimit) /\ n + c >= TeedLimit
        <3>1. got \in Nat /\ got <= Minimum(PipeSize, size - n)
            BY <1>0, <1>2, <1>3 DEF Minimum
        <3>2. teed \in BOOLEAN /\ (teed => n < TeedLimit \/ n = 0) /\ (teed => size # n)
            BY <1>0, <1>2, <1>6, <2>0
        <3>3. got = 0 <=> size - n = 0
            BY <1>4
        <3>4. /\ want = (IF teed THEN got ELSE Minimum(PipeSize, size - n))
              /\ s = Minimum(want, SplicedLimit - n) /\ c = (IF teed THEN Minimum(want, TeedLimit - n) ELSE 0)
            OBVIOUS
        <3> HIDE DEF teed, want, s, c, n, size
        <3>5. want \in Nat /\ want <= size - n /\ (want = 0 => size = n)
            BY <1>0, <1>2, <1>3, <3>1, <3>3, <3>4 DEF Minimum
        <3>6. /\ s \in Nat /\ n + s <= size /\ n + s <= SplicedLimit
              /\ s = 0 \/ n + s >= SplicedLimit => n + s = Minimum(size, SplicedLimit)
            <4>1. /\ n \in Nat /\ size \in Nat /\ SplicedLimit \in Nat /\ n <= size /\ n <= SplicedLimit
                  /\ s = Minimum(want, SplicedLimit - n)
                BY <1>0, <1>1, <1>2, <3>4
            <4>2. CASE want < SplicedLimit - n
                BY <3>5, <4>1, <4>2 DEF Minimum
            <4>3. CASE ~(want < SplicedLimit - n)
                BY <3>5, <4>1, <4>3 DEF Minimum
            <4> QED
                BY <4>2, <4>3
        <3>7. CASE teed
            <4>1. want # 0 /\ (n < TeedLimit \/ n = 0) /\ c = Minimum(want, TeedLimit - n)
                BY <3>2, <3>4, <3>5, <3>7
            <4>2. /\ c \in Nat /\ n + c = Minimum(n + s, TeedLimit)
                  /\ s = 0 \/ n + s >= SplicedLimit => n + c = Minimum(size, TeedLimit) /\ n + c >= TeedLimit
                <5>1. /\ n \in Nat /\ size \in Nat /\ SplicedLimit \in Nat /\ TeedLimit \in Nat
                      /\ n <= SplicedLimit /\ TeedLimit <= SplicedLimit /\ s = Minimum(want, SplicedLimit - n)
                    BY <1>0, <1>1, <1>2, <3>4
                <5>2. CASE want < TeedLimit - n
                    BY <3>5, <4>1, <5>1, <5>2 DEF Minimum
                <5>3. CASE ~(want < TeedLimit - n)
                    BY <3>5, <4>1, <5>1, <5>3 DEF Minimum
                <5> QED
                    BY <5>2, <5>3
            <4> QED
                BY <3>6, <4>2
        <3>8. CASE ~teed
            BY <3>4, <3>6, <3>8
        <3> QED
            BY <3>7, <3>8
    <2> HIDE DEF s, c, want
    <2>3. t \in Nat /\ (fault # "splice" => t = c)
        BY <2>1, <2>2
    <2> DEFINE newS == Positions(0, n + s)  newT == Teed(h) \o Positions(n, n + t)
    <2>4. Spliced(h) \o Positions(n, n + s) = newS
        BY <1>0, <1>2, <2>2, PositionsJoin
    <2>5. newS \in Seq(Nat)
        <3>1. n + s \in Nat
            BY <1>0, <2>2
        <3> QED
            BY <3>1, PositionsFirst
    <2>6. newT \in Seq(Nat)
        <3>1. Positions(n, n + t) \in Seq(Nat)
            BY <1>0, <2>3, PositionsMore
        <3> QED
            BY <1>1, <3>1, ConcatProperties
    <2>7. cp[h] => newT = Positions(0, n + t)
        BY <1>0, <1>2, <2>3, PositionsJoin
    <2>8. ~cp[h] => newT = Teed(h) /\ t = 0
        <3>1. ~cp[h] => t = 0
            BY <1>4, <2>3 DEF c
        <3>2. n + 0 = n
            BY <1>0
        <3>3. Teed(h) \o Positions(n, n) = Teed(h)
            BY <1>0, <1>1, PositionsNone
        <3> QED
            BY <3>1, <3>2, <3>3
    <2> HIDE DEF newS, newT
    <2>9. Files(h, newS, newT)
        BY <2>1, <2>4 DEF newT
    <2>10. /\ taken' \in [Hooks -> Nat] /\ taken'[h] = n + s /\ \A g \in Hooks \ {h} : taken'[g] = taken[g]
           /\ broken \subseteq broken' /\ broken' \subseteq broken \cup {h}
           /\ h \notin broken' => fault = "none" /\ h \notin broken
        <3>1. taken \in [Hooks -> Nat] /\ taken' = [taken EXCEPT ![h] = @ + s] /\ s \in Nat
            BY <1>0, <2>1, <2>2 DEF Types
        <3>2. taken[h] + s \in Nat
            BY <3>1
        <3>3. taken' \in [Hooks -> Nat] /\ taken'[h] = taken[h] + s
              /\ \A g \in Hooks \ {h} : taken'[g] = taken[g]
            BY <3>1, <3>2
        <3>4. /\ broken \subseteq broken' /\ broken' \subseteq broken \cup {h}
              /\ h \notin broken' => fault = "none" /\ h \notin broken
            BY <2>1
        <3> QED
            BY <3>3, <3>4
    <2>11. PipeStays(h, t, fault) \in BOOLEAN
           /\ (PipeStays(h, t, fault) => cp[h] /\ fault = "none" /\ t = c /\ n + c < TeedLimit)
           /\ (cp[h] /\ fault = "none" /\ ~PipeStays(h, t, fault) => t = c /\ n + c >= TeedLimit)
        BY <1>0, <1>1, <1>2, <2>0, <2>2, <2>3 DEF PipeStays
    <2>12. CASE s = 0 \/ n + s >= SplicedLimit
        <3>1. copied(h, PipeStays(h, t, fault))
            BY <2>1, <2>12
        <3>2. ~PipeStays(h, t, fault)
            BY <1>0, <1>1, <2>2, <2>11, <2>12
        <3>3. h \notin broken' => BothWhole(h, newS, newT)
            <4>1. newS = Positions(0, Minimum(size, SplicedLimit))
                BY <2>2, <2>12 DEF newS
            <4>2. CASE h \notin broken' /\ cp[h]
                BY <2>2, <2>3, <2>7, <2>10, <2>12, <4>1, <4>2 DEF BothWhole
            <4>3. CASE h \notin broken' /\ ~cp[h]
                <5>1. Minimum(size, TeedLimit) = TeedLimit
                    BY <1>0, <1>1, <1>2, <2>10, <4>3 DEF Minimum
                <5> QED
                    BY <1>2, <2>8, <2>10, <4>1, <4>3, <5>1 DEF BothWhole
            <4> QED
                BY <2>0, <4>2, <4>3
        <3> QED
            BY <1>0, <2>5, <2>6, <2>9, <2>10, <2>11, <3>1, <3>2, <3>3, CopiedKeeps
    <2>13. CASE ~(s = 0 \/ n + s >= SplicedLimit)
        <3>1. cp' = [cp EXCEPT ![h] = PipeStays(h, t, fault)] /\ UNCHANGED <<flags, ufd, pc>>
            BY <2>1, <2>13
        <3>2. /\ user' \in [Hooks -> Seq(Nat)] /\ core' \in [Hooks -> Seq(Nat)]
              /\ Spliced(h)' = newS /\ Teed(h)' = newT
              /\ \A g \in Hooks \ {h} : user'[g] = user[g] /\ core'[g] = core[g]
            BY <1>0, <2>5, <2>6, <2>9 DEF Files, Types, Spliced, Teed, UserIsSpliced, abrt_limit
        <3>3. cp' \in [Hooks -> BOOLEAN] /\ cp'[h] = PipeStays(h, t, fault)
              /\ \A g \in Hooks \ {h} : cp'[g] = cp[g]
            BY <1>0, <2>11, <3>1 DEF Types
        <3>4. Types'
            BY <1>0, <2>10, <3>1, <3>2, <3>3 DEF Types, markerVars
        <3>5. SplicedLimit' = SplicedLimit /\ TeedLimit' = TeedLimit
            BY <1>0 DEF SplicedLimit, TeedLimit, UserIsSpliced, abrt_limit
        <3>6. cp'[h] => newT = Positions(0, n + s) /\ n + s < TeedLimit
            <4>1. cp'[h] => n + c = n + s
                BY <1>0, <1>1, <2>2, <2>11, <3>3 DEF Minimum
            <4> QED
                BY <2>7, <2>11, <3>3, <4>1
        <3>7. ~cp'[h] /\ h \notin broken' => newT = Positions(0, TeedLimit) /\ TeedLimit <= n + s
            <4>1. CASE h \notin broken' /\ ~cp'[h] /\ cp[h]
                <5>1. n + c >= TeedLimit /\ t = c /\ n + c = Minimum(n + s, TeedLimit)
                    BY <2>2, <2>10, <2>11, <3>3, <4>1
                <5>2. n + t = TeedLimit /\ TeedLimit <= n + s
                    BY <1>0, <1>1, <2>2, <5>1 DEF Minimum
                <5> QED
                    BY <2>7, <4>1, <5>2
            <4>2. CASE h \notin broken' /\ ~cp[h]
                BY <1>0, <1>1, <1>2, <2>2, <2>8, <2>10, <4>2
            <4> QED
                BY <2>0, <4>1, <4>2
        <3>8. TeeInv(h)'
            BY <1>0, <2>2, <2>10, <3>1, <3>2, <3>5, <3>6, <3>7 DEF TeeInv, newS
        <3>9. CopyInv(h)'
            BY <1>0, <3>1, <3>8 DEF CopyInv, BeforeCopy, Copied
        <3>10. ASSUME NEW g \in Hooks \ {h} PROVE SameCopy(g)
            BY <1>0, <2>10, <3>1, <3>2, <3>3 DEF SameCopy
        <3>11. pc' = [pc EXCEPT ![h] = "tee"]
            BY <1>0, <3>1 DEF Types
        <3> QED
            BY <1>0, <3>4, <3>9, <3>10, <3>11, CopyStep
    <2> QED
        BY <2>12, <2>13
<1> QED
    BY <1>5, <1>6
-----------------------------------------------------------------------------

\* Every step keeps the invariant.
LEMMA InvInductive == Inv /\ [Next]_vars => Inv'
<1> SUFFICES ASSUME Inv, [Next]_vars PROVE Inv'
    OBVIOUS
<1>1. ASSUME NEW h \in Hooks, start(h) \/ Hook(h) \/ die(h) PROVE Inv'
    BY <1>1, StartKeeps, ExecutableKeeps, StatKeeps, ReadKeeps, WriteKeeps, TruncateKeeps, CrashKeeps,
       CollectKeeps, SaveKeeps, TeeKeeps, RestKeeps DEF Hook
<1>2. CASE Tick
    BY <1>2, TickKeeps
<1>3. CASE UNCHANGED vars
    <2>1. Types' /\ WrittenInv'
        BY <1>3 DEF vars, markerVars, userVars, copyVars, Inv, Types, WrittenInv, Writing, Begins
    <2>2. ASSUME NEW h \in Hooks PROVE MarkInv(h)'
        BY <1>3 DEF vars, markerVars, Inv, MarkInv, FreshInv, Repeats
    <2>3. ASSUME NEW h \in Hooks PROVE CopyInv(h)'
        BY <1>3 DEF vars, userVars, copyVars, Inv, CopyInv, TeeInv, WholeInv, SplicedLimit, TeedLimit,
           UserIsSpliced, abrt_limit, Spliced, Teed
    <2> QED
        BY <2>1, <2>2, <2>3 DEF Inv
<1> QED
    BY <1>1, <1>2, <1>3 DEF Next

\* Where each hook is with the marker and with its core files, through every step of
\* main(), check_recent_crash_file() and dump_two_core_files().
THEOREM Invariance == Spec => []Inv
<1>1. Init => Inv
    BY InitInv
<1>2. Inv /\ [Next]_vars => Inv'
    BY InvInductive
<1> QED
    BY <1>1, <1>2, PTL DEF Spec

\* check_recent_crash_file() ignores a crash only if another hook of the same program
\* touched the marker less than Window before it was looked at, or since, or if it read
\* a text of which the end is not of the hook that wrote the beginning.
THEOREM OnlyRepeatedIgnored == Spec => []RepeatedOnly
<1>1. Inv => RepeatedOnly
    BY DEF Inv, MarkInv, Repeats, RepeatedOnly
<1> QED
    BY <1>1, Invariance, PTL

\* Core files that dump_two_core_files() and its simpler variants write without an
\* error hold the image up to their limits, and a foreign file is left alone.
THEOREM CoresAreWhole == Spec => []CoresWhole
<1>1. Inv => CoresWhole
    BY DEF Inv, CopyInv, WholeInv, Copied, NotLookedAt, CoresWhole
<1> QED
    BY <1>1, Invariance, PTL
-----------------------------------------------------------------------------
\* A hook between the directory it has made and the trimming: it ends only through
\* trim_problem_dirs().
WillTrim == {"copy", "tee", "unwind", "close", "rename", "trim", "delete"}

\* Directories whose hook may still throw them away itself.
Collecting == {h \in Hooks : pc[h] = "collect"}

Fits(D) == Cardinality(Blocks(D)) <= CapSize \/ Cardinality(D) <= 1

\* A hook of the storm was killed, or one is left that will trim, or one ran out of
\* turns, or what counts fits already.
FitsInv ==
    \/ \E h \in Hooks : pc[h] = "dead" \/ pc[h] \in WillTrim
    \/ beaten # {}
    \/ Fits(Present \ Collecting)

SavedInv == \A h \in Hooks : dir[h] = "saved" => pc[h] \in {"trim", "delete", "end", "dead"}

Places == {"start", "tee", "dead"} \cup BeforeCopy \cup Copied

StormInv ==
    /\ cfg \in Configs
    /\ pc \in [Hooks -> Places] /\ dir \in [Hooks -> {"none", "new", "saved", "gone"}]
    /\ SavedInv
    /\ cfg.maxReports > 0 => FitsInv

\* There are finitely many hooks, so their directories can be counted.
LEMMA PresentFinite ==
    ASSUME NEW S \in SUBSET Hooks
    PROVE  IsFiniteSet(S) /\ Cardinality(S) \in Nat
BY HooksAssumption, FS_Subset, FS_CardinalityType

\* The blocks of finitely many directories can be counted.
LEMMA BlocksFinite ==
    ASSUME cfg \in Configs, NEW S \in SUBSET Hooks
    PROVE  IsFiniteSet(Blocks(S)) /\ Cardinality(Blocks(S)) \in Nat
<1> DEFINE of(g) == {<<g, i>> : i \in 1 .. cfg.size[g]}
           all == {of(g) : g \in S}
<1>1. ASSUME NEW g \in S PROVE IsFiniteSet(of(g))
    <2>1. cfg.size[g] \in Nat
        BY ConfigsAssumption
    <2>2. IsFiniteSet(1 .. cfg.size[g])
        BY <2>1, FS_Interval
    <2>3. IsFiniteSet({g} \X (1 .. cfg.size[g]))
        BY <2>2, FS_Singleton, FS_Product
    <2>4. of(g) \subseteq {g} \X (1 .. cfg.size[g])
        OBVIOUS
    <2> QED
        BY <2>3, <2>4, FS_Subset
<1>2. IsFiniteSet(all)
    <2>1. IsFiniteSet(S)
        BY PresentFinite
    <2> DEFINE f == [g \in S |-> of(g)]
    <2>2. f \in Surjection(S, all)
        BY Zenon DEF Surjection
    <2> QED
        BY <2>1, <2>2, FS_Surjection
<1>3. \A x \in all : IsFiniteSet(x)
    BY <1>1
<1>4. Blocks(S) = UNION all
    BY DEF Blocks
<1> HIDE DEF all
<1>5. IsFiniteSet(UNION all)
    BY <1>2, <1>3, FS_UNION
<1> QED
    BY <1>4, <1>5, FS_CardinalityType

\* Fewer directories fit where more do.
LEMMA FewerBlocks ==
    ASSUME cfg \in Configs, NEW S \in SUBSET Hooks, NEW T \in SUBSET S, Cardinality(Blocks(S)) <= CapSize
    PROVE  Cardinality(Blocks(T)) <= CapSize
<1>1. IsFiniteSet(Blocks(S)) /\ Cardinality(Blocks(S)) \in Nat /\ Cardinality(Blocks(T)) \in Nat
    BY BlocksFinite
<1>2. Blocks(T) \subseteq Blocks(S)
    BY DEF Blocks
<1>3. Cardinality(Blocks(T)) <= Cardinality(Blocks(S))
    BY <1>1, <1>2, FS_Subset
<1> QED
    BY <1>1, <1>3, SizesAssumption

\* So does a part of one directory.
LEMMA FewerFit ==
    ASSUME cfg \in Configs, NEW S \in SUBSET Hooks, NEW T \in SUBSET S, Fits(S)
    PROVE  Fits(T)
<1>1. CASE Cardinality(Blocks(S)) <= CapSize
    BY <1>1, FewerBlocks DEF Fits
<1>2. CASE Cardinality(S) <= 1
    <2>1. IsFiniteSet(S) /\ Cardinality(S) \in Nat /\ Cardinality(T) \in Nat
        BY PresentFinite
    <2>2. Cardinality(T) <= Cardinality(S)
        BY <2>1, FS_Subset
    <2> QED
        BY <1>2, <2>1, <2>2 DEF Fits
<1> QED
    BY <1>1, <1>2 DEF Fits

\* A step that leaves the settings alone, adds nothing that counts, and does not end a
\* hook that would trim.
LEMMA NothingAdded ==
    ASSUME StormInv, cfg' = cfg, pc' \in [Hooks -> Places],
           dir' \in [Hooks -> {"none", "new", "saved", "gone"}], SavedInv',
           \A h \in Hooks : pc[h] \in WillTrim \/ pc[h] = "dead" => pc'[h] \in WillTrim \/ pc'[h] = "dead",
           beaten \subseteq beaten',
           (\E h \in Hooks : pc'[h] \in WillTrim \/ pc'[h] = "dead")
             \/ Present' \ Collecting' \subseteq Present \ Collecting
    PROVE  StormInv'
<1>1. ASSUME cfg.maxReports > 0 PROVE FitsInv'
    <2>1. CASE \E h \in Hooks : pc'[h] \in WillTrim \/ pc'[h] = "dead"
        BY <2>1 DEF FitsInv
    <2>2. CASE /\ ~ \E h \in Hooks : pc'[h] \in WillTrim \/ pc'[h] = "dead"
               /\ Present' \ Collecting' \subseteq Present \ Collecting
        <3>1. CASE beaten # {}
            BY <3>1 DEF FitsInv
        <3>2. CASE Fits(Present \ Collecting)
            <4>1. Present \ Collecting \in SUBSET Hooks /\ cfg \in Configs
                BY DEF Present, StormInv
            <4>2. Fits(Present' \ Collecting')
                BY <2>2, <3>2, <4>1, FewerFit
            <4>3. Fits(Present \ Collecting)'
                BY <4>2 DEF Fits, Blocks
            <4> QED
                BY <4>3 DEF FitsInv
        <3> QED
            BY <1>1, <2>2, <3>1, <3>2 DEF StormInv, FitsInv
    <2> QED
        BY <2>1, <2>2
<1> QED
    BY <1>1 DEF StormInv

\* A hook that moves from one place to another and leaves the directories alone.
LEMMA MovesOn ==
    ASSUME StormInv, NEW h \in Hooks, NEW l \in Places, cfg' = cfg, Goto(h, l), UNCHANGED <<dir, beaten>>,
           l # "collect", pc[h] \notin {"trim", "delete", "end", "dead"} \/ l \in {"trim", "delete", "end", "dead"},
           \/ l \in WillTrim \/ l = "dead"
           \/ pc[h] \notin WillTrim \cup {"dead", "collect"}
    PROVE  StormInv'
<1>1. pc' \in [Hooks -> Places] /\ pc'[h] = l /\ \A g \in Hooks \ {h} : pc'[g] = pc[g]
    BY DEF StormInv, Goto, Places, BeforeCopy, Copied
<1>2. SavedInv'
    BY <1>1 DEF StormInv, SavedInv
<1>3. \A g \in Hooks : pc[g] \in WillTrim \/ pc[g] = "dead" => pc'[g] \in WillTrim \/ pc'[g] = "dead"
    BY <1>1
<1>4. (\E g \in Hooks : pc'[g] \in WillTrim \/ pc'[g] = "dead")
        \/ Present' \ Collecting' \subseteq Present \ Collecting
    <2>1. CASE pc[h] # "collect"
        BY <1>1, <2>1 DEF Present, Collecting
    <2>2. CASE l \in WillTrim \/ l = "dead"
        BY <1>1, <2>2
    <2> QED
        BY <2>1, <2>2
<1> QED
    BY <1>1, <1>2, <1>3, <1>4, NothingAdded DEF StormInv

\* A hook that leaves before it has made anything to keep: a new directory goes, the
\* others stay.
LEMMA LeavingKeeps ==
    ASSUME StormInv, NEW h \in Hooks, cfg' = cfg, Goto(h, "end"), UNCHANGED beaten,
           pc[h] \notin WillTrim \cup {"dead"},
           \/ UNCHANGED dir /\ pc[h] # "collect"
           \/ dir' = [dir EXCEPT ![h] = IF @ = "new" THEN "gone" ELSE @]
    PROVE  StormInv'
<1>1. /\ pc' \in [Hooks -> Places] /\ pc'[h] = "end" /\ \A g \in Hooks \ {h} : pc'[g] = pc[g]
      /\ dir' \in [Hooks -> {"none", "new", "saved", "gone"}]
      /\ dir'[h] = dir[h] \/ (dir[h] = "new" /\ dir'[h] = "gone")
      /\ \A g \in Hooks \ {h} : dir'[g] = dir[g]
    BY DEF StormInv, Goto, Places, BeforeCopy, Copied
<1>2. SavedInv'
    BY <1>1 DEF StormInv, SavedInv
<1>3. \A g \in Hooks : pc[g] \in WillTrim \/ pc[g] = "dead" => pc'[g] \in WillTrim \/ pc'[g] = "dead"
    BY <1>1
<1>4. Present' \ Collecting' \subseteq Present \ Collecting
    <2>1. CASE pc[h] # "collect"
        BY <1>1, <2>1 DEF Present, Collecting
    <2>2. CASE pc[h] = "collect"
        <3>1. dir[h] # "saved"
            BY <2>2 DEF StormInv, SavedInv
        <3>2. dir'[h] \notin {"new", "saved"}
            BY <2>2, <3>1 DEF StormInv
        <3> QED
            BY <1>1, <3>2 DEF Present, Collecting
    <2> QED
        BY <2>1, <2>2
<1> QED
    BY <1>1, <1>2, <1>3, <1>4, NothingAdded DEF StormInv

\* There is no directory at first.
LEMMA StormInit == Init => StormInv
<1> SUFFICES ASSUME Init PROVE StormInv
    OBVIOUS
<1>1. Present = {}
    BY DEF Init, Present
<1>2. Fits(Present \ Collecting)
    BY <1>1, FS_EmptySet DEF Fits
<1> QED
    BY <1>2 DEF Init, StormInv, SavedInv, FitsInv, Places

\* The end of trim_problem_dirs() is what makes the rest fit, unless the turns ran out.
LEMMA TrimKeeps ==
    ASSUME StormInv, NEW h \in Hooks, trim_problem_dirs(h)
    PROVE  StormInv'
<1>0. cfg' = cfg /\ pc[h] = "trim" /\ UNCHANGED dir
    BY DEF trim_problem_dirs, dirVars
<1>1. ASSUME Goto(h, "end"),
             \/ beaten' # {}
             \/ Candidates(h) = {}
             \/ \E part \in SUBSET Unfinished : ~TooLarge(h, Present \ part)
      PROVE  StormInv'
    <2>1. pc' \in [Hooks -> Places] /\ pc'[h] = "end" /\ \A g \in Hooks \ {h} : pc'[g] = pc[g]
        BY <1>1 DEF StormInv, Goto, Places, BeforeCopy, Copied
    <2>2. SavedInv'
        BY <1>0, <2>1 DEF StormInv, SavedInv
    <2>3. FitsInv'
        <3> SUFFICES ASSUME ~ \E g \in Hooks : pc'[g] = "dead" \/ pc'[g] \in WillTrim, beaten' = {}
                     PROVE  Fits(Present \ Collecting)'
            BY DEF FitsInv
        <3>0. Present \in SUBSET Hooks /\ cfg \in Configs /\ Present' = Present
            BY <1>0 DEF Present, StormInv
        <3>1. Unfinished \subseteq Collecting'
            <4> SUFFICES ASSUME NEW g \in Unfinished PROVE g \in Collecting'
                OBVIOUS
            <4>1. g \in Hooks /\ pc[g] \in {"collect", "copy", "tee", "unwind"} /\ g # h
                BY <1>0 DEF Unfinished
            <4>2. pc'[g] = pc[g] /\ pc'[g] \notin WillTrim
                BY <2>1, <4>1
            <4> QED
                BY <4>1, <4>2 DEF Collecting, WillTrim
        <3>2. PICK D \in SUBSET Present : Fits(D) /\ Present \ Collecting' \subseteq D
            <4>1. CASE Candidates(h) = {}
                <5>1. Present \subseteq {h} /\ Cardinality({h}) = 1 /\ IsFiniteSet({h})
                    BY <4>1, FS_Singleton DEF Candidates
                <5>2. Cardinality(Present) <= Cardinality({h})
                    BY <5>1, FS_Subset
                <5>3. Fits(Present)
                    BY <5>1, <5>2 DEF Fits
                <5> QED
                    BY <5>3
            <4>2. ASSUME NEW part \in SUBSET Unfinished, ~TooLarge(h, Present \ part)
                  PROVE  \E D \in SUBSET Present : Fits(D) /\ Present \ Collecting' \subseteq D
                <5>1. Cardinality(Blocks(Present \ part)) \in Nat
                    BY <3>0, BlocksFinite
                <5>2. Fits(Present \ part)
                    BY <4>2, <5>1, SizesAssumption DEF TooLarge, Fits
                <5>3. Present \ Collecting' \subseteq Present \ part
                    BY <3>1
                <5> QED
                    BY <5>2, <5>3
            <4> QED
                BY <1>1, <4>1, <4>2
        <3>3. Fits(Present' \ Collecting')
            BY <3>0, <3>2, FewerFit
        <3> QED
            BY <1>0, <3>3 DEF Fits, Blocks
    <2> QED
        BY <1>0, <2>1, <2>2, <2>3 DEF StormInv
<1>2. CASE Goto(h, "delete") /\ UNCHANGED beaten
    BY <1>0, <1>2, MovesOn DEF WillTrim, Places, BeforeCopy, Copied
<1> QED
    BY <1>1, <1>2 DEF trim_problem_dirs

\* delete_dump_dir() takes a directory away, or fails.
LEMMA DeleteKeeps ==
    ASSUME StormInv, NEW h \in Hooks, delete_dump_dir(h)
    PROVE  StormInv'
<1>1. cfg' = cfg /\ beaten' = beaten /\ Goto(h, "trim") /\ pc[h] = "delete"
    BY DEF delete_dump_dir
<1>2. PICK gone \in BOOLEAN : dir' = [dir EXCEPT ![victim[h]] = IF gone THEN "gone" ELSE @]
    BY DEF delete_dump_dir
<1>3. /\ dir' \in [Hooks -> {"none", "new", "saved", "gone"}]
      /\ \A k \in Hooks : dir'[k] \in {dir[k], "gone"}
    BY <1>2 DEF StormInv
<1>4. pc' \in [Hooks -> Places] /\ pc'[h] = "trim" /\ \A g \in Hooks \ {h} : pc'[g] = pc[g]
    BY <1>1 DEF StormInv, Goto, Places, BeforeCopy, Copied
<1>5. SavedInv'
    BY <1>1, <1>3, <1>4 DEF StormInv, SavedInv
<1>6. pc'[h] \in WillTrim
    BY <1>4 DEF WillTrim
<1>7. \A g \in Hooks : pc[g] \in WillTrim \/ pc[g] = "dead" => pc'[g] \in WillTrim \/ pc'[g] = "dead"
    BY <1>4, <1>6
<1> QED
    BY <1>1, <1>3, <1>4, <1>5, <1>6, <1>7, NothingAdded

\* A hook leaves without a directory, or makes one and will trim.
LEMMA LookAtCrashKeeps ==
    ASSUME StormInv, NEW h \in Hooks, look_at_crash(h)
    PROVE  StormInv'
<1>0. cfg' = cfg /\ pc[h] = "checks" /\ UNCHANGED beaten
    BY DEF look_at_crash, trimVars
<1>1. CASE Goto(h, "end") /\ (UNCHANGED dir \/ dir' = [dir EXCEPT ![h] = IF @ = "new" THEN "gone" ELSE @])
    BY <1>0, <1>1, LeavingKeeps DEF WillTrim
<1>2. CASE Goto(h, "collect") /\ dir' = [dir EXCEPT ![h] = "new"]
    <2>1. /\ pc' \in [Hooks -> Places] /\ pc'[h] = "collect" /\ \A g \in Hooks \ {h} : pc'[g] = pc[g]
          /\ dir' \in [Hooks -> {"none", "new", "saved", "gone"}] /\ dir'[h] = "new"
          /\ \A g \in Hooks \ {h} : dir'[g] = dir[g]
        BY <1>2 DEF StormInv, Goto, Places, BeforeCopy, Copied
    <2>2. SavedInv'
        BY <2>1 DEF StormInv, SavedInv
    <2>3. \A g \in Hooks : pc[g] \in WillTrim \/ pc[g] = "dead" => pc'[g] \in WillTrim \/ pc'[g] = "dead"
        BY <1>0, <2>1 DEF WillTrim
    <2>4. Present' \ Collecting' \subseteq Present \ Collecting
        BY <1>0, <2>1 DEF Present, Collecting
    <2> QED
        BY <1>0, <2>1, <2>2, <2>3, <2>4, NothingAdded
<1> QED
    BY <1>0, <1>1, <1>2 DEF look_at_crash, CleanUp, cleanup_and_exit, signal_is_not_fatal, ReturnUserCore, JustExit,
       low_free_space, dump_abrt_process, Leave

\* Every step keeps what is known of the directories.
LEMMA StormNext == StormInv /\ [Next]_vars => StormInv'
<1> SUFFICES ASSUME StormInv, [Next]_vars PROVE StormInv'
    OBVIOUS
<1>1. ASSUME NEW h \in Hooks, look_at_executable(h) PROVE StormInv'
    <2>1. cfg' = cfg /\ pc[h] = "exe" /\ UNCHANGED <<dir, beaten>>
        BY <1>1 DEF look_at_executable, ReturnUserCore, JustExit, trimVars
    <2>2. Goto(h, "end") \/ Goto(h, "stat")
        BY <1>1 DEF look_at_executable, ReturnUserCore, JustExit, Leave
    <2> QED
        BY <2>1, <2>2, MovesOn DEF WillTrim, Places, BeforeCopy, Copied
<1>2. ASSUME NEW h \in Hooks, read_marker(h) PROVE StormInv'
    <2>1. cfg' = cfg /\ pc[h] = "read" /\ UNCHANGED <<dir, beaten>>
        BY <1>2 DEF read_marker, ReturnUserCore, trimVars
    <2>2. Goto(h, "end") \/ Goto(h, "write")
        BY <1>2 DEF read_marker, ReturnUserCore, Leave
    <2> QED
        BY <2>1, <2>2, MovesOn DEF WillTrim, Places, BeforeCopy, Copied
<1>3. ASSUME NEW h \in Hooks, start(h) \/ stat_marker(h) \/ no_marker(h) \/ write_marker(h) \/ truncate_marker(h)
      PROVE  StormInv'
    <2>1. cfg' = cfg /\ pc[h] \in {"start", "stat", "write", "truncate"} /\ UNCHANGED <<dir, beaten>>
        BY <1>3 DEF start, stat_marker, no_marker, write_marker, truncate_marker, dirVars, trimVars
    <2>2. \E l \in {"exe", "read", "write", "truncate", "checks"} : Goto(h, l)
        BY <1>3 DEF start, stat_marker, no_marker, write_marker, truncate_marker
    <2> QED
        BY <2>1, <2>2, MovesOn DEF WillTrim, Places, BeforeCopy, Copied
<1>4. ASSUME NEW h \in Hooks, collect_items(h) PROVE StormInv'
    <2>1. cfg' = cfg /\ pc[h] = "collect" /\ UNCHANGED beaten
        BY <1>4 DEF collect_items, trimVars
    <2>2. CASE save_crashing_binary(h)
        BY <2>1, <2>2, LeavingKeeps DEF save_crashing_binary, CleanUp, cleanup_and_exit, Leave, WillTrim
    <2>3. CASE Goto(h, "copy") /\ UNCHANGED dir
        BY <2>1, <2>3, MovesOn DEF WillTrim, Places, BeforeCopy, Copied
    <2> QED
        BY <1>4, <2>2, <2>3 DEF collect_items
<1>5. ASSUME NEW h \in Hooks, save_core(h) \/ create_core_backtrace(h) \/ close_directory(h) PROVE StormInv'
    <2>1. cfg' = cfg /\ pc[h] \in {"copy", "unwind", "close"} /\ UNCHANGED <<dir, beaten>>
        BY <1>5 DEF save_core, create_core_backtrace, close_directory, trimVars
    <2>2. \E l \in {"unwind", "tee", "close", "rename"} : Goto(h, l)
        BY <1>5 DEF save_core, create_core_backtrace, close_directory
    <2> QED
        BY <2>1, <2>2, MovesOn DEF WillTrim, Places, BeforeCopy, Copied
<1>6. ASSUME NEW h \in Hooks, tee_and_splice(h) PROVE StormInv'
    <2>1. cfg' = cfg /\ pc[h] = "tee" /\ UNCHANGED <<dir, beaten>>
        BY <1>6 DEF tee_and_splice, dirVars, trimVars
    <2>2. Goto(h, "unwind") \/ UNCHANGED pc
        BY <1>6 DEF tee_and_splice, copied
    <2>3. CASE Goto(h, "unwind")
        BY <2>1, <2>3, MovesOn DEF WillTrim, Places, BeforeCopy, Copied
    <2>4. CASE UNCHANGED pc
        BY <2>1, <2>4 DEF StormInv, SavedInv, FitsInv, Fits, Blocks, Present, Collecting
    <2> QED
        BY <2>2, <2>3, <2>4
<1>7. ASSUME NEW h \in Hooks, rename_directory(h) PROVE StormInv'
    <2>1. /\ cfg' = cfg /\ pc[h] = "rename"
          /\ dir' = [dir EXCEPT ![h] = IF @ = "new" THEN "saved" ELSE @]
          /\ Goto(h, IF cfg.maxReports > 0 THEN "trim" ELSE "end")
        BY <1>7 DEF rename_directory
    <2>2. /\ pc' \in [Hooks -> Places] /\ \A g \in Hooks \ {h} : pc'[g] = pc[g]
          /\ pc'[h] = IF cfg.maxReports > 0 THEN "trim" ELSE "end"
          /\ dir' \in [Hooks -> {"none", "new", "saved", "gone"}]
          /\ \A g \in Hooks \ {h} : dir'[g] = dir[g]
        BY <2>1 DEF StormInv, Goto, Places, BeforeCopy, Copied
    <2>3. SavedInv'
        BY <2>2 DEF StormInv, SavedInv
    <2>4. cfg.maxReports > 0 => FitsInv'
        BY <2>2 DEF FitsInv, WillTrim
    <2> QED
        BY <2>1, <2>2, <2>3, <2>4 DEF StormInv
<1>8. ASSUME NEW h \in Hooks, die(h) PROVE StormInv'
    <2>1. cfg' = cfg /\ Goto(h, "dead") /\ UNCHANGED <<dir, beaten>>
        BY <1>8 DEF die, trimVars
    <2> QED
        BY <2>1, MovesOn DEF Places
<1>9. CASE Tick \/ UNCHANGED vars
    <2>1. UNCHANGED <<cfg, pc, dir, beaten>>
        BY <1>9 DEF Tick, vars, dirVars, trimVars
    <2> QED
        BY <2>1 DEF StormInv, SavedInv, FitsInv, Fits, Blocks, Present, Collecting
<1> QED
    BY <1>1, <1>2, <1>3, <1>4, <1>5, <1>6, <1>7, <1>8, <1>9, TrimKeeps, DeleteKeeps, LookAtCrashKeeps DEF Next, Hook

\* Through every step of the hooks, what they have kept fits, or somebody is left to trim
\* it, or one of them ran out of turns: only a hook that throws its directory away
\* itself, or was killed, does not come to trim_problem_dirs().
THEOREM StormInvariance == Spec => []StormInv
<1>1. Init => StormInv
    BY StormInit
<1>2. StormInv /\ [Next]_vars => StormInv'
    BY StormNext
<1> QED
    BY <1>1, <1>2, PTL DEF Spec

\* When every hook of a storm is through, however their trimming interleaved and
\* whatever deletion failed, what they left fits, or is one directory, or one of them
\* used up its turns and nobody has seen it fit since.
THEOREM StormIsTrimmed == Spec => []StormTrimmed
<1>1. StormInv => StormTrimmed
    <2> SUFFICES ASSUME StormInv, cfg.maxReports > 0, \A h \in Hooks : pc[h] \in {"start", "end"}
                 PROVE  Fits(Present) \/ beaten # {}
        BY DEF StormTrimmed, Fits
    <2>1. FitsInv /\ Collecting = {}
        BY DEF StormInv, Collecting
    <2>2. beaten # {} \/ Fits(Present \ Collecting)
        BY <2>1 DEF FitsInv, WillTrim
    <2>3. Present \ Collecting = Present
        BY <2>1
    <2> QED
        BY <2>2, <2>3
<1> QED
    BY <1>1, StormInvariance, PTL
-----------------------------------------------------------------------------
(* Locks: the safety behind HookEnds *)

\* Places between dd_create() and dd_close(), where a hook waits for nobody's lock.
Holding == {"collect", "copy", "tee", "unwind", "close"}

\* Only its own hook locks a directory, and only there.
LockInv == \A g \in Hooks : lock[g] = NoHook \/ (lock[g] = g /\ pc[g] \in Holding)

LockTypes == pc \in [Hooks -> Places] /\ lock \in [Hooks -> Hooks \cup {NoHook}]

VictimType == victim \in [Hooks -> Hooks]

\* A hook that trims has no lock, and the lock that it may wait for belongs to a hook
\* that is alive and does not trim.
NoCircularWait ==
    \A h \in Hooks : pc[h] \in {"trim", "delete"} =>
        /\ \A g \in Hooks : lock[g] # h
        /\ lock[victim[h]] # NoHook => pc[lock[victim[h]]] \in Holding

\* A hook goes on with its lock, or had none.
LEMMA LockMoves ==
    ASSUME LockTypes, LockInv, NEW h \in Hooks, NEW l \in Places, Goto(h, l),
           pc[h] \in Holding => l \in Holding, lock' = lock
    PROVE  LockTypes' /\ LockInv'
<1>1. pc' \in [Hooks -> Places] /\ pc'[h] = l /\ \A g \in Hooks \ {h} : pc'[g] = pc[g]
    BY DEF LockTypes, Goto, Places, BeforeCopy, Copied
<1> QED
    BY <1>1 DEF LockTypes, LockInv

\* A hook lets its lock go, or never had one, and may be anywhere then.
LEMMA LockGoes ==
    ASSUME LockTypes, LockInv, NEW h \in Hooks, NEW l \in Places, Goto(h, l),
           lock'[h] = NoHook, \A g \in Hooks \ {h} : lock'[g] = lock[g],
           lock' \in [Hooks -> Hooks \cup {NoHook}]
    PROVE  LockTypes' /\ LockInv'
<1>1. pc' \in [Hooks -> Places] /\ pc'[h] = l /\ \A g \in Hooks \ {h} : pc'[g] = pc[g]
    BY DEF LockTypes, Goto, Places, BeforeCopy, Copied
<1> QED
    BY <1>1 DEF LockTypes, LockInv

\* cleanup_and_exit() leaves no lock behind.
LEMMA LockCleaned ==
    ASSUME LockTypes, LockInv, NEW h \in Hooks, cleanup_and_exit(h)
    PROVE  /\ lock'[h] = NoHook /\ \A g \in Hooks \ {h} : lock'[g] = lock[g]
           /\ lock' \in [Hooks -> Hooks \cup {NoHook}]
BY DEF LockTypes, LockInv, cleanup_and_exit

\* Every step keeps the locks with hooks that are at work.
LEMMA LockNext == LockTypes /\ LockInv /\ [Next]_vars => LockTypes' /\ LockInv'
<1> SUFFICES ASSUME LockTypes, LockInv, [Next]_vars PROVE LockTypes' /\ LockInv'
    OBVIOUS
<1>0. {"exe", "stat", "read", "write", "truncate", "checks", "collect", "copy", "tee", "unwind", "close",
       "rename", "trim", "delete", "end", "dead"} \subseteq Places
    BY DEF Places, BeforeCopy, Copied
<1>1. ASSUME NEW h \in Hooks, start(h) \/ look_at_executable(h) \/ stat_marker(h) \/ read_marker(h)
                              \/ no_marker(h) \/ write_marker(h) \/ truncate_marker(h)
      PROVE  LockTypes' /\ LockInv'
    <2>1. lock' = lock /\ pc[h] \in {"start", "exe", "stat", "read", "write", "truncate"}
        BY <1>1 DEF start, look_at_executable, stat_marker, read_marker, no_marker, write_marker,
           truncate_marker, ReturnUserCore, JustExit, dirVars
    <2>2. \E l \in {"exe", "stat", "read", "write", "truncate", "checks", "end"} : Goto(h, l)
        BY <1>1 DEF start, look_at_executable, stat_marker, read_marker, no_marker, write_marker,
           truncate_marker, ReturnUserCore, JustExit, Leave
    <2> QED
        BY <1>0, <2>1, <2>2, LockMoves DEF Holding
<1>2. ASSUME NEW h \in Hooks, look_at_crash(h) PROVE LockTypes' /\ LockInv'
    <2>1. pc[h] = "checks" /\ "end" \in Places
        BY <1>0, <1>2 DEF look_at_crash
    <2>2. CASE Goto(h, "end") /\ lock' = lock
        BY <2>1, <2>2, LockMoves DEF Holding
    <2>3. CASE Goto(h, "end") /\ cleanup_and_exit(h)
        BY <2>1, <2>3, LockCleaned, LockGoes
    <2>4. CASE Goto(h, "collect") /\ lock' = [lock EXCEPT ![h] = h]
        <3>1. pc' \in [Hooks -> Places] /\ pc'[h] = "collect" /\ \A g \in Hooks \ {h} : pc'[g] = pc[g]
            BY <1>0, <2>4 DEF LockTypes, Goto
        <3>2. lock' \in [Hooks -> Hooks \cup {NoHook}] /\ lock'[h] = h /\ \A g \in Hooks \ {h} : lock'[g] = lock[g]
            BY <2>4 DEF LockTypes
        <3> QED
            BY <3>1, <3>2 DEF LockTypes, LockInv, Holding
    <2> QED
        BY <1>2, <2>2, <2>3, <2>4 DEF look_at_crash, CleanUp, signal_is_not_fatal, ReturnUserCore, JustExit,
           low_free_space, dump_abrt_process, Leave
<1>3. ASSUME NEW h \in Hooks, collect_items(h) PROVE LockTypes' /\ LockInv'
    <2>1. CASE Goto(h, "copy") /\ lock' = lock
        BY <1>0, <2>1, LockMoves DEF Holding
    <2>2. CASE Goto(h, "end") /\ cleanup_and_exit(h)
        BY <1>0, <2>2, LockCleaned, LockGoes
    <2> QED
        BY <1>3, <2>1, <2>2 DEF collect_items, save_crashing_binary, CleanUp, Leave
<1>4. ASSUME NEW h \in Hooks, save_core(h) \/ tee_and_splice(h) \/ create_core_backtrace(h)
      PROVE  LockTypes' /\ LockInv'
    <2>1. lock' = lock
        BY <1>4 DEF save_core, tee_and_splice, create_core_backtrace, dirVars
    <2>2. UNCHANGED pc \/ \E l \in {"tee", "unwind", "close"} : Goto(h, l)
        BY <1>4 DEF save_core, tee_and_splice, create_core_backtrace, copied
    <2>3. CASE UNCHANGED pc
        BY <2>1, <2>3 DEF LockTypes, LockInv
    <2>4. ASSUME NEW l \in {"tee", "unwind", "close"}, Goto(h, l) PROVE LockTypes' /\ LockInv'
        BY <1>0, <2>1, <2>4, LockMoves DEF Holding
    <2> QED
        BY <2>2, <2>3, <2>4
<1>5. ASSUME NEW h \in Hooks, close_directory(h) PROVE LockTypes' /\ LockInv'
    <2>1. /\ Goto(h, "rename") /\ lock'[h] = NoHook /\ \A g \in Hooks \ {h} : lock'[g] = lock[g]
          /\ lock' \in [Hooks -> Hooks \cup {NoHook}]
        BY <1>5 DEF close_directory, LockTypes
    <2> QED
        BY <1>0, <2>1, LockGoes
<1>6. ASSUME NEW h \in Hooks, rename_directory(h) \/ trim_problem_dirs(h) \/ delete_dump_dir(h)
      PROVE  LockTypes' /\ LockInv'
    <2>1. lock' = lock /\ pc[h] \in {"rename", "trim", "delete"}
        BY <1>6 DEF rename_directory, trim_problem_dirs, delete_dump_dir, dirVars
    <2>2. \E l \in {"trim", "delete", "end"} : Goto(h, l)
        BY <1>6 DEF rename_directory, trim_problem_dirs, delete_dump_dir
    <2> QED
        BY <1>0, <2>1, <2>2, LockMoves DEF Holding
<1>7. ASSUME NEW h \in Hooks, die(h) PROVE LockTypes' /\ LockInv'
    <2>1. Goto(h, "dead") /\ lock' = [g \in Hooks |-> IF lock[g] = h THEN NoHook ELSE lock[g]]
        BY <1>7 DEF die
    <2>2. \A g \in Hooks \ {h} : lock[g] # h
        BY HooksAssumption DEF LockInv
    <2>3. lock'[h] = NoHook /\ \A g \in Hooks \ {h} : lock'[g] = lock[g]
        BY <2>1, <2>2 DEF LockInv
    <2>4. lock' \in [Hooks -> Hooks \cup {NoHook}]
        BY <2>1 DEF LockTypes
    <2> QED
        BY <1>0, <2>1, <2>3, <2>4, LockGoes
<1>8. CASE Tick \/ UNCHANGED vars
    <2>1. UNCHANGED <<pc, lock>>
        BY <1>8 DEF Tick, vars, dirVars
    <2> QED
        BY <2>1 DEF LockTypes, LockInv
<1> QED
    BY <1>1, <1>2, <1>3, <1>4, <1>5, <1>6, <1>7, <1>8 DEF Next, Hook

\* What a hook goes for is the directory of a hook.
LEMMA VictimNext == VictimType /\ [Next]_vars => VictimType'
<1> SUFFICES ASSUME VictimType, [Next]_vars PROVE VictimType'
    OBVIOUS
<1>1. ASSUME NEW h \in Hooks, trim_problem_dirs(h) PROVE VictimType'
    <2>1. UNCHANGED victim \/ \E g \in Candidates(h) : victim' = [victim EXCEPT ![h] = g]
        BY <1>1 DEF trim_problem_dirs, trimVars
    <2>2. Candidates(h) \subseteq Hooks
        BY DEF Candidates, Present
    <2> QED
        BY <2>1, <2>2 DEF VictimType
<1>2. ASSUME NEW h \in Hooks, delete_dump_dir(h) PROVE VictimType'
    BY <1>2 DEF delete_dump_dir, VictimType
<1>3. ASSUME UNCHANGED victim PROVE VictimType'
    BY <1>3 DEF VictimType
<1>4. ASSUME NEW h \in Hooks, \/ start(h) \/ look_at_executable(h) \/ stat_marker(h) \/ read_marker(h) \/ no_marker(h)
                              \/ write_marker(h) \/ truncate_marker(h) \/ look_at_crash(h) \/ collect_items(h)
      PROVE  UNCHANGED victim
    BY <1>4 DEF start, look_at_executable, stat_marker, read_marker, no_marker, write_marker, truncate_marker,
       look_at_crash, collect_items, trimVars
<1>5. ASSUME NEW h \in Hooks, \/ save_core(h) \/ tee_and_splice(h) \/ create_core_backtrace(h) \/ close_directory(h)
                              \/ rename_directory(h) \/ die(h)
      PROVE  UNCHANGED victim
    BY <1>5 DEF save_core, tee_and_splice, create_core_backtrace, close_directory, rename_directory, die, trimVars
<1>6. Tick \/ UNCHANGED vars => UNCHANGED victim
    BY DEF Tick, vars, trimVars
<1> QED
    BY <1>1, <1>2, <1>3, <1>4, <1>5, <1>6 DEF Next, Hook

\* No hook waits, in trim_problem_dirs(), for the lock of one that waits itself or was
\* killed (abrt-hook-ccpp.c:1456 "Classic deadlock"): closing the directory first is
\* what keeps the hooks of a storm from waiting in a circle.
THEOREM NoHooksInCircle == Spec => []NoCircularWait
<1>1. Init => LockTypes /\ LockInv /\ VictimType
    BY DEF Init, LockTypes, LockInv, Places, VictimType
<1>2. LockTypes /\ LockInv /\ VictimType => NoCircularWait
    BY HooksAssumption DEF LockTypes, LockInv, VictimType, NoCircularWait, Holding
<1> QED
    BY <1>1, <1>2, LockNext, VictimNext, PTL DEF Spec

=============================================================================
