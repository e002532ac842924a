------------------------------ MODULE P2Entry -------------------------------
(***************************************************************************)
(* The elements of one problem entry of the problems2 D-Bus service:       *)
(* abrt_problems2_entry.c.  SaveElements runs in a thread that holds the   *)
(* lock of the directory and writes one element after another, so that a   *)
(* call that fails half-way has saved its first elements; the size and the *)
(* number of elements of the directory are computed once, at its start,    *)
(* and then kept up by hand.  Nobody waits for the lock.                   *)
(***************************************************************************)
EXTENDS Integers, FiniteSets, FiniteSetsExt, Sequences

CONSTANTS
    Names,              \* of elements
    TypeOf,             \* of the element with that name: "TXT", "BIGTXT", "BIN"
    Sizes,              \* of the contents clients and programs write
    Callers, Root, Nobody,
    ElementsLimit,      \* p2srv_limit_elements
    DataSizeLimit,      \* p2srv_limit_data_size
    MaxMessageSize,     \* p2srv_max_message_size
    MaxUnixFds,         \* p2srv_max_message_unix_fds
    MaxElements         \* bound of the elements in a call

ASSUME SizesAssumption ==
    /\ Sizes \subseteq Nat /\ IsFiniteSet(Names)
    /\ ElementsLimit \in Nat \ {0} /\ DataSizeLimit \in Nat \ {0}
    /\ MaxMessageSize \in Nat /\ MaxUnixFds \in Nat /\ MaxElements \in Nat
ASSUME CallersAssumption == Nobody \notin Callers
ASSUME TypesAssumption == TypeOf \in [Names -> {"TXT", "BIGTXT", "BIN"}]

VARIABLES
    present,        \* elements of the directory
    size,           \* their sizes
    lock,           \* the caller whose SaveElements thread has the lock
    fatal,          \* its flags: which limits and errors end the call
    left,           \* elements of the call that are not handled yet
    dd_size, dd_items,
    start_size, start_items,    \* of the directory when the call began, history
    copy_failed                 \* a descriptor could not be read to its end, history

dirVars == <<present, size>>
callVars == <<lock, fatal, left, start_size, start_items>>
entryVars == <<dirVars, callVars, dd_size, dd_items, copy_failed>>

Flags == {"count", "size", "io"}
SizeOf(n) == IF n \in present THEN size[n] ELSE 0
TotalSize == MapThenSumSet(LAMBDA n : size[n], present)
-----------------------------------------------------------------------------
\* The limits of a caller: 0 is none.
elements_limit(c) == IF c = Root THEN 0 ELSE ElementsLimit
data_size_limit(c) == IF c = Root THEN 0 ELSE DataSizeLimit

\* SaveElements gets the lock, or fails at once.
save_elements(c) ==
    /\ lock = Nobody
    /\ lock' = c
    /\ fatal' \in SUBSET Flags
    /\ left' = MaxElements
    /\ dd_size' = TotalSize /\ start_size' = TotalSize
    /\ dd_items' = Cardinality(present) /\ start_items' = Cardinality(present)
    /\ copy_failed' = FALSE
    /\ UNCHANGED dirVars

\* The call ends here, or goes on with the next element.
EndCall ==
    /\ lock' = Nobody /\ left' = 0 /\ fatal' = {}
    /\ start_size' = 0 /\ start_items' = 0

NextElement ==
    /\ left' = left - 1
    /\ UNCHANGED <<lock, fatal, start_size, start_items>>

Skip(flag) == IF flag \in fatal THEN EndCall ELSE NextElement

Write(n, s) ==
    /\ present' = present \cup {n}
    /\ size' = [size EXCEPT ![n] = s]

\* A name that is not allowed, or a value a user may not set, ends the call.
element_prohibited ==
    /\ EndCall
    /\ UNCHANGED <<dirVars, dd_size, dd_items, copy_failed>>

TooManyElements(n) ==
    /\ n \notin present
    /\ elements_limit(lock) # 0 /\ dd_items >= elements_limit(lock)

too_many_elements(n) ==
    /\ TooManyElements(n)
    /\ Skip("count")
    /\ UNCHANGED <<dirVars, dd_size, dd_items, copy_failed>>

\* From here on a new element counts, also when it is not saved in the end.
CountItem(n) == dd_items' = IF n \in present THEN dd_items ELSE dd_items + 1

BaseSize(n) == dd_size - SizeOf(n)

\* Mutant: the size of the element that is replaced is not taken off.
TooBigAlways(n, s) ==
    /\ data_size_limit(lock) # 0
    /\ s > dd_size + data_size_limit(lock)

\* The directory may not grow past the limit; it may shrink.
TooBig(n, s) ==
    /\ data_size_limit(lock) # 0
    /\ s > SizeOf(n)
    /\ BaseSize(n) + s > data_size_limit(lock)

\* A text or an array of bytes.
save_data(n, s) ==
    /\ ~TooManyElements(n)
    /\ CountItem(n)
    /\ \/ /\ TooBig(n, s)
          /\ Skip("size")
          /\ UNCHANGED <<dirVars, dd_size>>
       \/ /\ ~TooBig(n, s)
          /\ Write(n, s)
          /\ dd_size' = BaseSize(n) + s
          /\ NextElement
    /\ UNCHANGED copy_failed

\* How much of a descriptor is copied.  Root's limit 0 is not "none" here.
MaxCopy(n) ==
    IF BaseSize(n) > data_size_limit(lock) THEN SizeOf(n) ELSE data_size_limit(lock) - BaseSize(n)

\* A descriptor with s bytes to read.
save_fd(n, s) ==
    /\ ~TooManyElements(n)
    /\ CountItem(n)
    /\ Write(n, Min({s, MaxCopy(n)}))
    /\ IF s >= MaxCopy(n)
       THEN /\ Skip("size")
            /\ dd_size' = IF "size" \in fatal THEN dd_size ELSE BaseSize(n) + MaxCopy(n)
       ELSE NextElement /\ dd_size' = BaseSize(n) + s
    /\ UNCHANGED copy_failed

\* The descriptor fails (it is not waited for): what was copied stays, and the
\* size that is kept up by hand does not tell.
save_fd_fails(n, s) ==
    /\ ~TooManyElements(n)
    /\ CountItem(n)
    /\ Write(n, Min({s, MaxCopy(n)}))
    /\ Skip("io")
    /\ copy_failed' = TRUE
    /\ UNCHANGED dd_size

\* No descriptor, or a value of another type.
element_unsupported(n) ==
    /\ ~TooManyElements(n)
    /\ CountItem(n)
    /\ Skip("io")
    /\ UNCHANGED <<dirVars, dd_size, copy_failed>>

elements_saved ==
    /\ lock # Nobody /\ left = 0
    /\ EndCall
    /\ UNCHANGED <<dirVars, dd_size, dd_items, copy_failed>>

save_elements_in_dump_dir ==
    /\ lock # Nobody /\ left > 0
    /\ \/ element_prohibited
       \/ \E n \in Names :
            \/ too_many_elements(n)
            \/ element_unsupported(n)
            \/ \E s \in Sizes : save_data(n, s) \/ save_fd(n, s) \/ save_fd_fails(n, s)
-----------------------------------------------------------------------------
\* DeleteElements runs in the main loop.
delete_elements(ns) ==
    /\ lock = Nobody
    /\ present' = present \ ns
    /\ size' = [n \in Names |-> IF n \in ns THEN 0 ELSE size[n]]
    /\ UNCHANGED <<callVars, dd_size, dd_items, copy_failed>>

\* An event or another service, external here, writes an element under the lock; it
\* has no limits.
other_writes(n, s) ==
    /\ lock = Nobody
    /\ Write(n, s)
    /\ UNCHANGED <<callVars, dd_size, dd_items, copy_failed>>

EntryInit ==
    /\ present = {} /\ size = [n \in Names |-> 0]
    /\ lock = Nobody /\ fatal = {} /\ left = 0
    /\ dd_size = 0 /\ dd_items = 0
    /\ start_size = 0 /\ start_items = 0
    /\ copy_failed = FALSE

Save == save_elements_in_dump_dir \/ elements_saved

EntryNext ==
    \/ \E c \in Callers : save_elements(c)
    \/ Save
    \/ \E ns \in SUBSET Names : delete_elements(ns)
    \/ \E n \in Names, s \in Sizes : other_writes(n, s)

\* The thread of SaveElements never waits: not for the lock and not for a
\* descriptor.
EntrySpec == EntryInit /\ [][EntryNext]_entryVars /\ WF_entryVars(Save)
-----------------------------------------------------------------------------
\* ReadElements changes nothing: what it collects for a sequence of names.
Empty == [fds |-> 0, loaded |-> 0, got |-> {}]

\* How an element is returned: as a descriptor, or as data.
AsFd(n, flags) == "all_fd" \in flags \/ ("all_no_fd" \notin flags /\ TypeOf[n] # "TXT")

WrongType(n, flags) ==
    \/ "only_text" \in flags /\ TypeOf[n] # "TXT"
    \/ "only_big_text" \in flags /\ TypeOf[n] # "BIGTXT"
    \/ "only_binary" \in flags /\ TypeOf[n] # "BIN"

\* Mutant: the sum is compared after it may have passed the limit.
ReadOneMore(r, n, flags) ==
    IF n \notin present \/ WrongType(n, flags) THEN r
    ELSE IF AsFd(n, flags)
    THEN IF r.fds = MaxUnixFds THEN r
         ELSE [r EXCEPT !.fds = @ + 1, !.got = @ \cup {n}]
    ELSE IF r.loaded > MaxMessageSize THEN r
    ELSE [r EXCEPT !.loaded = @ + size[n], !.got = @ \cup {n}]

ReadOne(r, n, flags) ==
    IF n \notin present \/ WrongType(n, flags) THEN r
    ELSE IF AsFd(n, flags)
    THEN IF r.fds = MaxUnixFds THEN r
         ELSE [r EXCEPT !.fds = @ + 1, !.got = @ \cup {n}]
    ELSE IF size[n] > MaxMessageSize \/ r.loaded > MaxMessageSize - size[n] THEN r
    ELSE [r EXCEPT !.loaded = @ + size[n], !.got = @ \cup {n}]

read_elements(names, flags) ==
    LET read[i \in 0 .. Len(names)] ==
            IF i = 0 THEN Empty ELSE ReadOne(read[i - 1], names[i], flags)
    IN read[Len(names)]
-----------------------------------------------------------------------------
\* Whatever a user saves in one call, replaces, and has truncated, the directory
\* grows past the limits only as far as it was past them before
\* (abrt_problems2_entry.c:673 "Do not allow dump dir growing"), and the size kept
\* up by hand is that of the directory.  Once a descriptor failed half-way only
\* the limit of elements holds.
LimitsKept ==
    /\ lock \notin {Nobody, Root} =>
        /\ Cardinality(present) <= Max({ElementsLimit, start_items})
        /\ ~copy_failed => TotalSize <= Max({DataSizeLimit, start_size})
    /\ lock # Nobody /\ ~copy_failed => dd_size = TotalSize

\* What ReadElements returns fits into a message, whatever elements are asked for,
\* in which order and how often.
ReadBounded ==
    \A names \in Names \X Names \X Names, flags \in SUBSET {"all_fd", "only_text"} \cup {{"all_no_fd"}} :
        LET r == read_elements(names, flags) IN
        r.fds <= MaxUnixFds /\ r.loaded <= MaxMessageSize
=============================================================================
