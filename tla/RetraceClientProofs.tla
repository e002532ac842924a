------------------------ MODULE RetraceClientProofs ------------------------
(***************************************************************************)
(* Retrace clients, for any number of them, any directories, settings and  *)
(* limits of the server: nothing is uploaded that the checks before the    *)
(* upload do not allow, a result is saved only with the crash it belongs   *)
(* to, and no task is left behind by a client that could have known of it. *)
(***************************************************************************)
EXTENDS RetraceClient, TLAPS

\* The places in the order a client passes them.
BeforeSizes == {"main", "settings", "sizes", "query"}
BeforeUpload == {"release", "package", "archive", "arguments", "spin", "tar",
                 "packed", "ask", "post"}
Locking == {"arguments", "spin"}
Fetching == {"backtrace", "exploitable", "save", "rate"}
Uploading == {"upload", "response", "poll", "log"} \cup Fetching

Saved == [there : BOOLEAN, files : SUBSET (Files \cup Removable), size : Nat,
          backtrace : Clients \cup {Nobody}, kernel_log : Clients \cup {Nobody},
          exploitable : Clients \cup {Nobody}]

Types ==
  /\ cfg \in [Clients -> Config]
  /\ server \in Server
  /\ dirs \in [Dirs -> Saved]
  /\ owner \in [Dirs -> Clients \cup {Nobody}]
  /\ pc \in [Clients -> BeforeSizes \cup BeforeUpload \cup Uploading \cup {"done"}]
  /\ settings \in [Clients -> [free : BOOLEAN, packed : Nat, unpacked : Nat, xz : BOOLEAN, release : BOOLEAN]]
  /\ type \in [Clients -> {"retrace", "vmcore"}]
  /\ archive \in [Clients -> SUBSET (Dirs \X Files)]
  /\ packed \in [Clients -> Nat]
  /\ consent \in [Clients -> {"none", "yes"}]
  /\ conn \in [Clients -> {"closed", "open", "sent", "broken", "created", "refusal"}]
  /\ task \in [Clients -> {"none", "running", "success", "failure"}]
  /\ rating \in [Clients -> {"none", "low", "high"}]
  /\ exit \in [Clients -> {"none", "error", "cancel", "result", "0", "1", "killed"}]
  /\ lost \in [Clients -> BOOLEAN]

\* What the client has read never exceeds what the server offers.
ReadInv(c) ==
  /\ settings[c].packed <= server.packed
  /\ settings[c].unpacked <= server.unpacked
  /\ settings[c].xz => server.xz
  /\ settings[c].release => server.release

Fits(c) == server.xz /\ (~cfg[c].core => HasDir(c) /\ Dir(c).size <= server.unpacked)
Supported(c) == type[c] = "retrace" => server.release /\ (cfg[c].check => server.known)
Small(c) == packed[c] <= server.packed
Agreed(c) == packed[c] > AskLimit => consent[c] = "yes"
Allowed(c) == Trusted(c) /\ Fits(c) /\ Supported(c) /\ Small(c) /\ Agreed(c)

\* Which of the checks a client has passed where it is.
ChecksInv(c) ==
  /\ pc[c] \in BeforeUpload => Fits(c)
  /\ pc[c] = "query" => cfg[c].op = "query"
  /\ pc[c] = "release" => HasDir(c)
  /\ pc[c] = "package" => HasDir(c) /\ server.release
  /\ pc[c] = "archive" /\ HasDir(c) => Supported(c)
  /\ pc[c] \in BeforeUpload \ {"release", "package", "archive"} => HasDir(c) /\ Supported(c)
  /\ pc[c] \in {"ask", "post"} => Small(c)
  /\ pc[c] = "post" => Agreed(c)
  /\ pc[c] \in Uploading \/ conn[c] # "closed" \/ task[c] # "none" => HasDir(c) /\ Allowed(c)

\* The connection and the task, as far as the client can know.
TaskKnownInv(c) ==
  /\ pc[c] \in BeforeSizes \cup BeforeUpload => conn[c] = "closed" /\ task[c] = "none"
  /\ pc[c] \in Uploading \ {"upload", "response"} => conn[c] = "closed"
  /\ pc[c] = "upload" => conn[c] = "open" /\ task[c] = "none"
  /\ conn[c] \in {"open", "sent", "broken", "refusal"} => task[c] = "none"
  /\ conn[c] # "closed" /\ pc[c] = "done" => conn[c] \in {"sent", "broken"} /\ lost[c]
  /\ pc[c] = "done" /\ task[c] # "none" =>
       exit[c] \in {"0", "1", "result"} \/ lost[c] \/ ~Dir(c).there

\* Every required element of the client's own directory is in its archive.
Packed(c) == \A f \in Required(type[c]) : <<cfg[c].dir, f>> \in archive[c]

\* Where the client's text is saved.
Text(c) == IF type[c] = "vmcore" THEN Dir(c).kernel_log ELSE Dir(c).backtrace

\* What a client that fetches the result has, and that it saves it under the lock.
ResultInv(c) ==
  /\ pc[c] \in {"packed", "ask", "post"} \cup Uploading => Packed(c)
  /\ pc[c] \in Fetching => task[c] = "success"
  /\ pc[c] = "exploitable" => type[c] = "retrace"
  /\ rating[c] # "none" => pc[c] \in {"save", "rate", "done"} /\ type[c] = "retrace"
  /\ pc[c] \in Locking \cup {"rate"} => owner[cfg[c].dir] = c
  /\ pc[c] = "rate" => Dir(c).there /\ Text(c) = c

\* The rating is the last thing a client saves.
SavedInv(d, c) == dirs[d].exploitable = c => pc[c] = "done"

ClientInv(c) ==
  /\ ReadInv(c) /\ ChecksInv(c) /\ TaskKnownInv(c) /\ ResultInv(c)
  /\ \A d \in Dirs : SavedInv(d, c)

\* The inductive invariant.
Inv == Types /\ \A c \in Clients : ClientInv(c)

(***************************************************************************)
(* What a step leaves to a client that does not take it.                   *)
(***************************************************************************)
SameClient(e) ==
  /\ cfg' = cfg /\ server' = server
  /\ pc'[e] = pc[e] /\ settings'[e] = settings[e] /\ type'[e] = type[e]
  /\ archive'[e] = archive[e] /\ packed'[e] = packed[e] /\ consent'[e] = consent[e] /\ conn'[e] = conn[e]
  /\ task'[e] = task[e] /\ rating'[e] = rating[e]
  /\ exit'[e] = exit[e] /\ lost'[e] = lost[e]

SameDir(d, e) ==
  /\ dirs'[d].size = dirs[d].size
  /\ ~dirs[d].there => ~dirs'[d].there
  /\ dirs'[d].exploitable = e => dirs[d].exploitable = e
  /\ owner[d] = e =>
       /\ owner'[d] = e /\ dirs'[d].there = dirs[d].there
       /\ dirs'[d].backtrace = dirs[d].backtrace /\ dirs'[d].kernel_log = dirs[d].kernel_log

\* A client whose own state and directories are left alone keeps its invariant.
LEMMA Frame ==
  ASSUME NEW e \in Clients, Types, ClientInv(e), SameClient(e),
         \A d \in Dirs : SameDir(d, e)
  PROVE  ClientInv(e)'
<1> cfg[e] \in Config
  BY DEF Types
<1>0. HasDir(e) => cfg[e].dir \in Dirs
  BY DEF Config, HasDir
<1>1. ReadInv(e)'
  BY DEF ReadInv, ClientInv, SameClient
<1>2. HasDir(e)' = HasDir(e) /\ Trusted(e)' = Trusted(e) /\ Supported(e)' = Supported(e)
      /\ Small(e)' = Small(e) /\ Agreed(e)' = Agreed(e)
  BY DEF HasDir, Trusted, ssl_bad_cert_handler, Supported, Small, Agreed, SameClient
<1>3. Fits(e) => Fits(e)'
  BY <1>0, <1>2 DEF Fits, Dir, SameDir, SameClient
<1>4. ChecksInv(e)'
  BY <1>2, <1>3 DEF ChecksInv, Allowed, ClientInv, SameClient
<1>5. TaskKnownInv(e)'
  <2>1. HasDir(e) /\ ~Dir(e).there => ~Dir(e)'.there
    BY <1>0 DEF Dir, SameDir, SameClient
  <2>2. task[e] # "none" => HasDir(e)
    BY DEF ClientInv, ChecksInv
  <2> QED
    BY <2>1, <2>2 DEF TaskKnownInv, ClientInv, SameClient
<1>6. ResultInv(e)'
  <2>1. pc[e] \in Locking \cup {"rate"} => HasDir(e)
    BY DEF ClientInv, ChecksInv, Locking, BeforeUpload, Uploading, Fetching
  <2>2. HasDir(e) /\ owner[cfg[e].dir] = e =>
          owner'[cfg'[e].dir] = e /\ Dir(e)'.there = Dir(e).there /\ Text(e)' = Text(e)
    BY <1>0 DEF Dir, SameDir, SameClient, Text
  <2>3. pc[e] \in Locking \cup {"rate"} => owner[cfg[e].dir] = e
    BY DEF ResultInv, ClientInv
  <2> QED
    BY <2>1, <2>2, <2>3 DEF ResultInv, Packed, ClientInv, SameClient
<1>7. ASSUME NEW d \in Dirs PROVE SavedInv(d, e)'
  BY <1>7 DEF SavedInv, ClientInv, SameClient, SameDir
<1> QED
  BY <1>1, <1>4, <1>5, <1>6, <1>7 DEF ClientInv

\* A step of one client that leaves the others alone keeps the invariant.
LEMMA OneMoves ==
  ASSUME NEW c \in Clients, Inv, Types', ClientInv(c)',
         \A e \in Clients \ {c} : SameClient(e) /\ \A d \in Dirs : SameDir(d, e)
  PROVE  Inv'
<1>1. ASSUME NEW e \in Clients PROVE ClientInv(e)'
  <2>1. CASE e = c
    BY <2>1
  <2>2. CASE e # c
    <3>1. Types /\ ClientInv(e) /\ SameClient(e) /\ \A d \in Dirs : SameDir(d, e)
      BY <2>2 DEF Inv
    <3> QED
      BY <3>1, Frame
  <2> QED
    BY <2>1, <2>2
<1> QED
  BY <1>1 DEF Inv

\* Nothing is packed, sent, made or saved.
LEMMA InitInv == Init => Inv
<1> SUFFICES ASSUME Init PROVE Inv
  OBVIOUS
<1>0. PICK s \in Scenarios :
        /\ cfg = s.cfg /\ server = s.server
        /\ dirs = [d \in Dirs |->
                    [there |-> s.dirs[d].there, files |-> s.dirs[d].files,
                     size |-> s.dirs[d].size, backtrace |-> Nobody,
                     kernel_log |-> Nobody, exploitable |-> Nobody]]
  BY DEF Init
<1>1. s.cfg \in [Clients -> Config] /\ s.server \in Server /\ s.dirs \in [Dirs -> Content]
  BY ScenariosAssumption
<1>2. dirs \in [Dirs -> Saved]
  <2>1. ASSUME NEW d \in Dirs PROVE s.dirs[d].there \in BOOLEAN /\ s.dirs[d].files \in SUBSET (Files \cup Removable)
                                   /\ s.dirs[d].size \in Nat
    BY <1>1 DEF Content
  <2> QED
    BY <1>0, <2>1 DEF Saved
<1>3. Types
  BY <1>0, <1>1, <1>2 DEF Init, Types, NoSettings, BeforeSizes
<1>4. ASSUME NEW c \in Clients PROVE ClientInv(c)
  <2>1. ReadInv(c)
    BY <1>0, <1>1 DEF ReadInv, Init, NoSettings, Server
  <2>2. ChecksInv(c) /\ TaskKnownInv(c) /\ ResultInv(c)
    BY DEF ChecksInv, TaskKnownInv, ResultInv, Init, BeforeUpload, Uploading, Fetching, Locking
  <2>3. ASSUME NEW d \in Dirs PROVE SavedInv(d, c)
    BY <1>0, SpecialAssumption DEF SavedInv
  <2> QED
    BY <2>1, <2>2, <2>3 DEF ClientInv
<1> QED
  BY <1>3, <1>4 DEF Inv

\* A client may end when nobody waits for it, or has been told.
LEMMA EndsKeeps ==
  ASSUME NEW c \in Clients, NEW loss \in BOOLEAN,
         NEW status \in {"error", "cancel", "result", "0", "1", "killed"},
         Inv, Ends(c, status, loss),
         task[c] # "none" => status \in {"0", "1", "result"} \/ loss \/ lost[c] \/ ~Dir(c).there,
         conn[c] \in {"sent", "broken"} => loss \/ lost[c]
  PROVE  Inv'
<1>1. Types'
  <2>1. owner' \in [Dirs -> Clients \cup {Nobody}] /\ conn' \in [Clients -> {"closed", "open", "sent", "broken", "created", "refusal"}]
        /\ lost' \in [Clients -> BOOLEAN]
    BY DEF Inv, Types, Ends
  <2> QED
    BY <2>1 DEF Inv, Types, Ends
<1>2. ASSUME NEW e \in Clients \ {c} PROVE SameClient(e) /\ \A d \in Dirs : SameDir(d, e)
  BY DEF Ends, SameClient, SameDir, Inv, Types
<1>3. pc'[c] = "done" /\ exit'[c] = status /\ lost'[c] = (lost[c] \/ loss)
      /\ conn'[c] = (IF conn[c] \in {"closed", "sent", "broken"} THEN conn[c] ELSE "closed")
  BY DEF Ends, Inv, Types
<1>c. ClientInv(c)
  BY DEF Inv
<1>u. cfg' = cfg /\ server' = server /\ dirs' = dirs /\ settings' = settings /\ type' = type
      /\ archive' = archive /\ packed' = packed /\ consent' = consent /\ task' = task /\ rating' = rating
  BY DEF Ends
<1>4. ReadInv(c)'
  BY <1>c, <1>u DEF ReadInv, ClientInv
<1>5. ChecksInv(c)'
  BY <1>3, <1>c, <1>u DEF ChecksInv, ClientInv, BeforeUpload, Uploading, Fetching, HasDir, Allowed,
     Trusted, ssl_bad_cert_handler, Fits, Supported, Small, Agreed, Dir
<1>6. TaskKnownInv(c)'
  BY <1>3, <1>c, <1>u DEF TaskKnownInv, ClientInv, BeforeSizes, BeforeUpload, Uploading, Fetching, Dir
<1>7. ResultInv(c)'
  BY <1>3, <1>c, <1>u DEF ResultInv, ClientInv, Uploading, Fetching, Locking, Dir
<1>8. ASSUME NEW d \in Dirs PROVE SavedInv(d, c)'
  BY <1>3, <1>c, <1>u DEF SavedInv, ClientInv
<1>9. ClientInv(c)'
  BY <1>4, <1>5, <1>6, <1>7, <1>8 DEF ClientInv
<1> QED
  BY <1>1, <1>2, <1>9, OneMoves

Places == BeforeSizes \cup BeforeUpload \cup Uploading

\* A client that only goes on to the next place, before it saves anything.
LEMMA GoesOn ==
  ASSUME NEW c \in Clients, NEW where \in Places, Inv, pc[c] \notin {"rate", "done"},
         Goto(c, where), UNCHANGED <<exit, lost, local>>,
         (ChecksInv(c) /\ TaskKnownInv(c) /\ ResultInv(c))'
  PROVE  Inv'
<1>1. Types'
  BY DEF Inv, Types, Goto, local, Places
<1>2. ASSUME NEW e \in Clients \ {c} PROVE SameClient(e) /\ \A d \in Dirs : SameDir(d, e)
  BY DEF Goto, SameClient, SameDir, Inv, Types, local
<1>3. ReadInv(c)'
  BY DEF ReadInv, Inv, ClientInv, local
<1>4. ASSUME NEW d \in Dirs PROVE SavedInv(d, c)'
  BY DEF SavedInv, Inv, ClientInv, local
<1>5. ClientInv(c)'
  BY <1>3, <1>4 DEF ClientInv
<1> QED
  BY <1>1, <1>2, <1>5, OneMoves

\* A client that gets no usable answer ends, and knows that an answer is lost.
LEMMA UnusableKeeps ==
  ASSUME NEW c \in Clients, Inv, Unusable(c)
  PROVE  Inv'
BY EndsKeeps DEF Unusable

\* Before the upload nobody waits for the client.
LEMMA DieKeeps ==
  ASSUME NEW c \in Clients, Inv, NEW status \in {"error", "cancel", "0"}, Ends(c, status, FALSE),
         pc[c] \in BeforeSizes \cup BeforeUpload \cup {"upload"}
  PROVE  Inv'
<1>1. task[c] = "none" /\ conn[c] \notin {"sent", "broken"}
  BY DEF Inv, ClientInv, TaskKnownInv, Uploading
<1> QED
  BY <1>1, EndsKeeps

\* main() chooses the operation.
LEMMA MainKeeps ==
  ASSUME NEW c \in Clients, Inv, main(c)
  PROVE  Inv'
<1>1. CASE error_msg_and_die(c)
  BY <1>1, DieKeeps DEF error_msg_and_die, main, BeforeSizes
<1>2. ASSUME NEW w \in {"settings", "query"}, w = "query" => cfg[c].op = "query",
             Goto(c, w), UNCHANGED <<exit, lost, local>>
      PROVE  Inv'
  <2>0. pc[c] = "main" /\ pc'[c] = w
    BY <1>2 DEF main, Goto, Inv, Types
  <2>1. ChecksInv(c)' /\ TaskKnownInv(c)' /\ ResultInv(c)'
    BY <1>2, <2>0 DEF Inv, ClientInv, ChecksInv, TaskKnownInv, ResultInv, Packed, BeforeSizes, BeforeUpload,
       Uploading, Fetching, Locking, local
  <2> QED
    BY <1>2, <2>0, <2>1, GoesOn DEF Places, BeforeSizes
<1> QED
  BY <1>1, <1>2 DEF main

\* What is read of the settings is what the server offers, or zero.
LEMMA SettingsRead ==
  ASSUME NEW n \in 0..5, Types
  PROVE  /\ Settings(n) \in [free : BOOLEAN, packed : Nat, unpacked : Nat, xz : BOOLEAN, release : BOOLEAN]
         /\ Settings(n).packed <= server.packed
         /\ Settings(n).unpacked <= server.unpacked
         /\ Settings(n).xz => server.xz
         /\ Settings(n).release => server.release
BY DEF Settings, Types, Server

\* Settings read in part promise no more than the server offers.
LEMMA SettingsKeeps ==
  ASSUME NEW c \in Clients, Inv, get_settings(c)
  PROVE  Inv'
<1>0. pc[c] = "settings" /\ Types /\ ClientInv(c)
  BY DEF get_settings, Inv
<1>1. CASE Unusable(c)
  BY <1>1, UnusableKeeps
<1>2. CASE error_msg_and_die(c)
  BY <1>0, <1>2, DieKeeps DEF error_msg_and_die, BeforeSizes
<1>3. ASSUME NEW n \in 0..5, settings' = [settings EXCEPT ![c] = Settings(n)], Goto(c, "sizes"),
             UNCHANGED <<cfg, server, dirs, owner, type, archive, packed, consent, conn, task,
                         expired, rating, exit, lost>>
      PROVE  Inv'
  <2>1. Types'
    BY <1>0, <1>3, SettingsRead DEF Types, Goto, BeforeSizes
  <2>2. ASSUME NEW e \in Clients \ {c} PROVE SameClient(e) /\ \A d \in Dirs : SameDir(d, e)
    BY <1>0, <1>3 DEF Goto, SameClient, SameDir, Types
  <2>3. pc'[c] = "sizes" /\ settings'[c] = Settings(n)
    BY <1>0, <1>3 DEF Types, Goto
  <2>4. ReadInv(c)'
    BY <1>0, <1>3, <2>3, SettingsRead DEF ReadInv
  <2>5. ChecksInv(c)' /\ TaskKnownInv(c)' /\ ResultInv(c)'
    BY <1>0, <1>3, <2>3 DEF ClientInv, ChecksInv, TaskKnownInv, ResultInv, Packed, BeforeSizes, BeforeUpload,
       Uploading, Fetching, Locking
  <2>6. ASSUME NEW d \in Dirs PROVE SavedInv(d, c)'
    BY <1>0, <1>3 DEF SavedInv, ClientInv
  <2>7. ClientInv(c)'
    BY <2>4, <2>5, <2>6 DEF ClientInv
  <2> QED
    BY <2>1, <2>2, <2>7, OneMoves DEF Inv
<1> QED
  BY <1>1, <1>2, <1>3 DEF get_settings

\* Past get_sizes() the directory fits and the format is supported.
LEMMA SizesKeeps ==
  ASSUME NEW c \in Clients, Inv, get_sizes(c)
  PROVE  Inv'
<1>0. pc[c] = "sizes" /\ Types /\ ClientInv(c) /\ cfg[c] \in Config /\ server \in Server
      /\ settings[c].unpacked \in Nat /\ settings[c].xz \in BOOLEAN
  BY DEF get_sizes, Inv, Types
<1>1. CASE error_msg_and_die(c)
  BY <1>0, <1>1, DieKeeps DEF error_msg_and_die, BeforeSizes
<1>2. CASE /\ SizesKnown(c) /\ unpacked_size(c) <= settings[c].unpacked /\ settings[c].xz
           /\ type' = [type EXCEPT ![c] = Detected(c)]
           /\ Goto(c, IF Detected(c) = "vmcore" \/ ~HasDir(c) THEN "archive" ELSE "release")
           /\ UNCHANGED <<cfg, server, dirs, owner, settings, archive, packed,
                          consent, conn, task, expired, rating, exit, lost>>
  <2>0. pc'[c] = (IF Detected(c) = "vmcore" \/ ~HasDir(c) THEN "archive" ELSE "release")
        /\ type'[c] = Detected(c) /\ Detected(c) \in {"vmcore", "retrace"}
        /\ HasDir(c)' = HasDir(c)
    BY <1>0, <1>2 DEF Types, Goto, Detected, HasDir
  <2>1. Types'
    BY <1>0, <1>2, <2>0 DEF Types, Goto, BeforeUpload
  <2>2. ASSUME NEW e \in Clients \ {c} PROVE SameClient(e) /\ \A d \in Dirs : SameDir(d, e)
    BY <1>0, <1>2 DEF Goto, SameClient, SameDir, Types
  <2>3. ReadInv(c)'
    BY <1>0, <1>2 DEF ReadInv, ClientInv
  <2>4. Fits(c)'
    <3>1. settings[c].xz => server.xz
      BY <1>0 DEF ClientInv, ReadInv
    <3>2. CASE cfg[c].core
      BY <1>2, <3>1, <3>2 DEF Fits
    <3>3. CASE ~cfg[c].core
      <4>1. HasDir(c) /\ Dir(c).size <= settings[c].unpacked
        BY <1>2, <3>3 DEF SizesKnown, unpacked_size
      <4>2. Dir(c).size \in Nat
        BY <1>0, <4>1 DEF HasDir, Dir, Config, Types, Saved
      <4>3. Dir(c).size <= server.unpacked
        BY <1>0, <4>1, <4>2 DEF ClientInv, ReadInv, Server
      <4> QED
        BY <1>2, <3>1, <4>1, <4>3 DEF Fits, HasDir, Dir
    <3> QED
      BY <3>2, <3>3
  <2>5. ChecksInv(c)'
    BY <1>0, <1>2, <2>0, <2>4 DEF ClientInv, ChecksInv, TaskKnownInv, BeforeSizes, BeforeUpload, Uploading,
       Fetching, Supported
  <2>6. TaskKnownInv(c)' /\ ResultInv(c)'
    BY <1>0, <1>2, <2>0 DEF ClientInv, TaskKnownInv, ResultInv, Packed, BeforeSizes, BeforeUpload,
       Uploading, Fetching, Locking
  <2>7. ASSUME NEW d \in Dirs PROVE SavedInv(d, c)'
    BY <1>0, <1>2 DEF SavedInv, ClientInv
  <2>8. ClientInv(c)'
    BY <2>3, <2>5, <2>6, <2>7 DEF ClientInv
  <2> QED
    BY <2>1, <2>2, <2>8, OneMoves DEF Inv
<1> QED
  BY <1>1, <1>2 DEF get_sizes

\* Past get_release_id() the release is supported.
LEMMA ReleaseKeeps ==
  ASSUME NEW c \in Clients, Inv, get_release_id(c)
  PROVE  Inv'
<1>0. pc[c] = "release" /\ Types /\ ClientInv(c)
  BY DEF get_release_id, Inv
<1>1. CASE error_msg_and_die(c)
  BY <1>0, <1>1, DieKeeps DEF error_msg_and_die, BeforeUpload
<1>2. ASSUME NEW w \in {"package", "archive"}, w = (IF cfg[c].check THEN "package" ELSE "archive"),
             settings[c].release, Goto(c, w), UNCHANGED <<exit, lost, local>>
      PROVE  Inv'
  <2>0. pc'[c] = w /\ server.release
    BY <1>0, <1>2 DEF Goto, Types, ClientInv, ReadInv
  <2>1. ChecksInv(c)'
    BY <1>0, <1>2, <2>0 DEF ClientInv, ChecksInv, TaskKnownInv, BeforeUpload, Uploading, Fetching, local,
       HasDir, Fits, Supported, Dir
  <2>2. TaskKnownInv(c)' /\ ResultInv(c)'
    BY <1>0, <1>2, <2>0 DEF ClientInv, TaskKnownInv, ResultInv, Packed, BeforeSizes, BeforeUpload,
       Uploading, Fetching, Locking, local
  <2> QED
    BY <1>0, <1>2, <2>1, <2>2, GoesOn DEF Places, BeforeUpload
<1> QED
  BY <1>1, <1>2 DEF get_release_id

\* Past check_package() the server knows the package.
LEMMA PackageKeeps ==
  ASSUME NEW c \in Clients, Inv, check_package(c)
  PROVE  Inv'
<1>0. pc[c] = "package" /\ Types /\ ClientInv(c)
  BY DEF check_package, Inv
<1>1. CASE Unusable(c)
  BY <1>1, UnusableKeeps
<1>2. CASE error_msg_and_die(c)
  BY <1>0, <1>2, DieKeeps DEF error_msg_and_die, BeforeUpload
<1>3. CASE server.known /\ Goto(c, "archive") /\ UNCHANGED <<exit, lost, local>>
  <2>0. pc'[c] = "archive"
    BY <1>0, <1>3 DEF Goto, Types
  <2>1. ChecksInv(c)'
    BY <1>0, <1>3, <2>0 DEF ClientInv, ChecksInv, TaskKnownInv, BeforeUpload, Uploading, Fetching, local,
       HasDir, Fits, Supported, Dir
  <2>2. TaskKnownInv(c)' /\ ResultInv(c)'
    BY <1>0, <1>3, <2>0 DEF ClientInv, TaskKnownInv, ResultInv, Packed, BeforeSizes, BeforeUpload,
       Uploading, Fetching, Locking, local
  <2> QED
    BY <1>0, <1>3, <2>1, <2>2, GoesOn DEF Places, BeforeUpload
<1> QED
  BY <1>1, <1>2, <1>3 DEF check_package

\* The free lock of the directory is taken before it is packed.
LEMMA OpenKeeps ==
  ASSUME NEW c \in Clients, Inv, open_archive(c)
  PROVE  Inv'
<1>0. pc[c] = "archive" /\ Types /\ ClientInv(c)
  BY DEF open_archive, Inv
<1>1. CASE error_msg_and_die(c)
  BY <1>0, <1>1, DieKeeps DEF error_msg_and_die, BeforeUpload
<1>2. CASE /\ HasDir(c) /\ IsFree(cfg[c].dir)
           /\ owner' = [owner EXCEPT ![cfg[c].dir] = c]
           /\ Goto(c, "arguments")
           /\ UNCHANGED <<cfg, server, dirs, settings, type, archive, packed, consent, conn, task, expired, rating, exit, lost>>
  <2>0. pc'[c] = "arguments" /\ cfg[c].dir \in Dirs /\ owner'[cfg[c].dir] = c
    BY <1>0, <1>2 DEF Types, Goto, HasDir, Config
  <2>1. Types'
    BY <1>0, <1>2, <2>0 DEF Types, Goto, BeforeUpload, Uploading, Fetching
  <2>2. ASSUME NEW e \in Clients \ {c} PROVE SameClient(e) /\ \A d \in Dirs : SameDir(d, e)
    BY <1>0, <1>2, SpecialAssumption DEF Goto, SameClient, SameDir, Types, IsFree
  <2>3. ReadInv(c)'
    BY <1>0, <1>2 DEF ReadInv, ClientInv
  <2>4. ChecksInv(c)'
    BY <1>0, <1>2, <2>0 DEF ClientInv, ChecksInv, TaskKnownInv, BeforeSizes, BeforeUpload, Uploading,
       Fetching, HasDir, Fits, Supported, Small, Agreed, Allowed, Trusted, ssl_bad_cert_handler, Dir
  <2>5. TaskKnownInv(c)' /\ ResultInv(c)'
    BY <1>0, <1>2, <2>0 DEF ClientInv, TaskKnownInv, ResultInv, Packed, BeforeSizes, BeforeUpload, Uploading,
       Fetching, Locking, Dir
  <2>6. ASSUME NEW d \in Dirs PROVE SavedInv(d, c)'
    BY <1>0, <1>2 DEF SavedInv, ClientInv
  <2>7. ClientInv(c)'
    BY <2>3, <2>4, <2>5, <2>6 DEF ClientInv
  <2> QED
    BY <2>1, <2>2, <2>7, OneMoves DEF Inv
<1> QED
  BY <1>1, <1>2 DEF open_archive, error_msg_and_die

\* The lock is given back, or kept for ever.
LEMMA ArgumentsKeeps ==
  ASSUME NEW c \in Clients, Inv, add_arguments(c)
  PROVE  Inv'
<1>0. pc[c] = "arguments" /\ Types /\ ClientInv(c)
  BY DEF add_arguments, Inv
<1>a. cfg[c].dir \in Dirs /\ owner[cfg[c].dir] = c
  BY <1>0 DEF ClientInv, ChecksInv, ResultInv, BeforeUpload, Locking, HasDir, Types, Config
<1>1. ASSUME NEW w \in {"tar", "spin"}, Goto(c, w),
             \/ w = "tar" /\ owner' = [owner EXCEPT ![cfg[c].dir] = Nobody]
             \/ w = "spin" /\ owner' = owner,
             UNCHANGED <<cfg, server, dirs, settings, type, archive, packed, consent, conn, task, expired, rating, exit, lost>>
      PROVE  Inv'
  <2>0. pc'[c] = w /\ (w = "spin" => owner' = owner)
    BY <1>0, <1>1 DEF Types, Goto
  <2>1. Types'
    BY <1>a, <1>0, <1>1, <2>0 DEF Types, Goto, BeforeUpload, Uploading, Fetching
  <2>2. ASSUME NEW e \in Clients \ {c} PROVE SameClient(e) /\ \A d \in Dirs : SameDir(d, e)
    BY <1>a, <1>0, <1>1 DEF Goto, SameClient, SameDir, Types
  <2>3. ReadInv(c)'
    BY <1>0, <1>1 DEF ReadInv, ClientInv
  <2>4. ChecksInv(c)'
    BY <1>0, <1>1, <2>0 DEF ClientInv, ChecksInv, TaskKnownInv, BeforeSizes, BeforeUpload, Uploading,
       Fetching, HasDir, Fits, Supported, Small, Agreed, Allowed, Trusted, ssl_bad_cert_handler, Dir
  <2>5. TaskKnownInv(c)' /\ ResultInv(c)'
    BY <1>0, <1>1, <2>0 DEF ClientInv, TaskKnownInv, ResultInv, Packed, BeforeSizes, BeforeUpload, Uploading,
       Fetching, Locking, Dir
  <2>6. ASSUME NEW d \in Dirs PROVE SavedInv(d, c)'
    BY <1>0, <1>1 DEF SavedInv, ClientInv
  <2>7. ClientInv(c)'
    BY <2>3, <2>4, <2>5, <2>6 DEF ClientInv
  <2> QED
    BY <2>1, <2>2, <2>7, OneMoves DEF Inv
<1> QED
  BY <1>1 DEF add_arguments

\* The archive has some size, and no lock protects the files it was made of.
LEMMA TarKeeps ==
  ASSUME NEW c \in Clients, Inv, run_tar(c)
  PROVE  Inv'
<1>0. pc[c] = "tar" /\ Types /\ ClientInv(c)
  BY DEF run_tar, Inv
<1>1. CASE error_msg_and_die(c)
  BY <1>0, <1>1, DieKeeps DEF error_msg_and_die, BeforeUpload
<1>2. ASSUME NEW n \in 1..Dir(c).size, packed' = [packed EXCEPT ![c] = n], Goto(c, "packed"),
             archive' = [archive EXCEPT ![c] = {cfg[c].dir} \X Required(type[c])],
             UNCHANGED <<cfg, server, dirs, owner, settings, type, consent, conn, task, expired, rating, exit, lost>>
      PROVE  Inv'
  <2>0. pc'[c] = "packed" /\ packed'[c] = n /\ n \in Nat
    BY <1>0, <1>2 DEF Types, Goto
  <2>a. cfg[c].dir \in Dirs /\ Required(type[c]) \subseteq Files
    BY <1>0 DEF ClientInv, ChecksInv, BeforeUpload, HasDir, Types, Config, Required, Files
  <2>b. archive' \in [Clients -> SUBSET (Dirs \X Files)] /\ Packed(c)'
    BY <1>0, <1>2, <2>a DEF Types, Packed
  <2>1. Types'
    BY <1>0, <1>2, <2>0, <2>b DEF Types, Goto, BeforeUpload, Uploading, Fetching
  <2>2. ASSUME NEW e \in Clients \ {c} PROVE SameClient(e) /\ \A d \in Dirs : SameDir(d, e)
    BY <1>0, <1>2 DEF Goto, SameClient, SameDir, Types
  <2>3. ReadInv(c)'
    BY <1>0, <1>2 DEF ReadInv, ClientInv
  <2>4. ChecksInv(c)'
    BY <1>0, <1>2, <2>0 DEF ClientInv, ChecksInv, TaskKnownInv, BeforeSizes, BeforeUpload, Uploading,
       Fetching, HasDir, Fits, Supported, Small, Agreed, Allowed, Trusted, ssl_bad_cert_handler, Dir
  <2>5. TaskKnownInv(c)' /\ ResultInv(c)'
    BY <1>0, <1>2, <2>0, <2>b DEF ClientInv, TaskKnownInv, ResultInv, BeforeSizes, BeforeUpload, Uploading,
       Fetching, Locking, Dir
  <2>6. ASSUME NEW d \in Dirs PROVE SavedInv(d, c)'
    BY <1>0, <1>2 DEF SavedInv, ClientInv
  <2>7. ClientInv(c)'
    BY <2>3, <2>4, <2>5, <2>6 DEF ClientInv
  <2> QED
    BY <2>1, <2>2, <2>7, OneMoves DEF Inv
<1> QED
  BY <1>1, <1>2 DEF run_tar, Pack

\* Past the check of the packed size the archive is not too large.
LEMMA PackedKeeps ==
  ASSUME NEW c \in Clients, Inv, check_packed_size(c)
  PROVE  Inv'
<1>0. pc[c] = "packed" /\ Types /\ ClientInv(c)
  BY DEF check_packed_size, Inv
<1>1. CASE error_msg_and_die(c)
  BY <1>0, <1>1, DieKeeps DEF error_msg_and_die, BeforeUpload
<1>2. ASSUME NEW w \in {"ask", "post"}, w = (IF MustAsk(c) THEN "ask" ELSE "post"), ~TooLarge(c),
             Goto(c, w), UNCHANGED <<exit, lost, local>>
      PROVE  Inv'
  <2>0. pc'[c] = w /\ Small(c) /\ (w = "post" => Agreed(c))
    BY <1>0, <1>2, SpecialAssumption DEF Goto, Types, Server, TooLarge, MustAsk, Small, Agreed, ClientInv, ReadInv
  <2>1. ChecksInv(c)'
    BY <1>0, <1>2, <2>0 DEF ClientInv, ChecksInv, TaskKnownInv, BeforeSizes, BeforeUpload, Uploading, Fetching,
       local, HasDir, Fits, Supported, Small, Agreed, Allowed, Trusted, ssl_bad_cert_handler, Dir
  <2>2. TaskKnownInv(c)' /\ ResultInv(c)'
    BY <1>0, <1>2, <2>0 DEF ClientInv, TaskKnownInv, ResultInv, Packed, BeforeSizes, BeforeUpload,
       Uploading, Fetching, Locking, local, Dir
  <2> QED
    BY <1>0, <1>2, <2>1, <2>2, GoesOn DEF Places, BeforeUpload, Uploading, Fetching
<1> QED
  BY <1>1, <1>2 DEF check_packed_size

\* Past the question the user agreed to a large upload.
LEMMA AskKeeps ==
  ASSUME NEW c \in Clients, Inv, ask_yes_no(c)
  PROVE  Inv'
<1>0. pc[c] = "ask" /\ Types /\ ClientInv(c)
  BY DEF ask_yes_no, Inv
<1>1. CASE Ends(c, "cancel", FALSE)
  BY <1>0, <1>1, DieKeeps DEF BeforeUpload
<1>2. CASE /\ consent' = [consent EXCEPT ![c] = "yes"]
           /\ Goto(c, "post")
           /\ UNCHANGED <<cfg, server, dirs, owner, settings, type, archive, packed, conn, task, expired, rating, exit, lost>>
  <2>0. pc'[c] = "post" /\ consent'[c] = "yes"
    BY <1>0, <1>2 DEF Types, Goto
  <2>1. Types'
    BY <1>0, <1>2, <2>0 DEF Types, Goto, BeforeUpload, Uploading, Fetching
  <2>2. ASSUME NEW e \in Clients \ {c} PROVE SameClient(e) /\ \A d \in Dirs : SameDir(d, e)
    BY <1>0, <1>2 DEF Goto, SameClient, SameDir, Types
  <2>3. ReadInv(c)'
    BY <1>0, <1>2 DEF ReadInv, ClientInv
  <2>4. ChecksInv(c)'
    BY <1>0, <1>2, <2>0 DEF ClientInv, ChecksInv, TaskKnownInv, BeforeSizes, BeforeUpload, Uploading,
       Fetching, HasDir, Fits, Supported, Small, Agreed, Allowed, Trusted, ssl_bad_cert_handler, Dir
  <2>5. TaskKnownInv(c)' /\ ResultInv(c)'
    BY <1>0, <1>2, <2>0 DEF ClientInv, TaskKnownInv, ResultInv, Packed, BeforeSizes, BeforeUpload, Uploading,
       Fetching, Locking, Dir
  <2>6. ASSUME NEW d \in Dirs PROVE SavedInv(d, c)'
    BY <1>0, <1>2 DEF SavedInv, ClientInv
  <2>7. ClientInv(c)'
    BY <2>3, <2>4, <2>5, <2>6 DEF ClientInv
  <2> QED
    BY <2>1, <2>2, <2>7, OneMoves DEF Inv
<1> QED
  BY <1>1, <1>2 DEF ask_yes_no

\* All checks are passed when the connection for the upload is open.
LEMMA PostKeeps ==
  ASSUME NEW c \in Clients, Inv, post_header(c)
  PROVE  Inv'
<1>0. pc[c] = "post" /\ Types /\ ClientInv(c)
  BY DEF post_header, Inv
<1>1. CASE Ends(c, "error", TRUE)
  BY <1>1, EndsKeeps
<1>2. CASE /\ "connected" \in ssl_connect(c)
           /\ conn' = [conn EXCEPT ![c] = "open"]
           /\ Goto(c, "upload")
           /\ UNCHANGED <<cfg, server, dirs, owner, settings, type, archive, packed, consent, task, expired, rating, exit, lost>>
  <2>0. pc'[c] = "upload" /\ conn'[c] = "open" /\ Trusted(c)
    BY <1>0, <1>2 DEF Types, Goto, ssl_connect
  <2>1. Types'
    BY <1>0, <1>2, <2>0 DEF Types, Goto, BeforeUpload, Uploading, Fetching
  <2>2. ASSUME NEW e \in Clients \ {c} PROVE SameClient(e) /\ \A d \in Dirs : SameDir(d, e)
    BY <1>0, <1>2 DEF Goto, SameClient, SameDir, Types
  <2>3. ReadInv(c)'
    BY <1>0, <1>2 DEF ReadInv, ClientInv
  <2>4. ChecksInv(c)'
    BY <1>0, <1>2, <2>0 DEF ClientInv, ChecksInv, TaskKnownInv, BeforeSizes, BeforeUpload, Uploading,
       Fetching, HasDir, Fits, Supported, Small, Agreed, Allowed, Trusted, ssl_bad_cert_handler, Dir
  <2>5. TaskKnownInv(c)' /\ ResultInv(c)'
    BY <1>0, <1>2, <2>0 DEF ClientInv, TaskKnownInv, ResultInv, Packed, BeforeSizes, BeforeUpload, Uploading,
       Fetching, Locking, Dir
  <2>6. ASSUME NEW d \in Dirs PROVE SavedInv(d, c)'
    BY <1>0, <1>2 DEF SavedInv, ClientInv
  <2>7. ClientInv(c)'
    BY <2>3, <2>4, <2>5, <2>6 DEF ClientInv
  <2> QED
    BY <2>1, <2>2, <2>7, OneMoves DEF Inv
<1> QED
  BY <1>1, <1>2 DEF post_header

\* What was sent whole or in part may become a task.
LEMMA UploadKeeps ==
  ASSUME NEW c \in Clients, Inv, upload(c)
  PROVE  Inv'
<1>0. pc[c] = "upload" /\ Types /\ ClientInv(c)
  BY DEF upload, Inv
<1>1. CASE error_msg_and_die(c)
  BY <1>0, <1>1, DieKeeps DEF error_msg_and_die, BeforeUpload
<1>2. ASSUME NEW sent \in {"sent", "broken"},
             conn' = [conn EXCEPT ![c] = sent],
             exit' = [exit EXCEPT ![c] = IF sent = "broken" THEN "result" ELSE "none"],
             Goto(c, "response"),
             UNCHANGED <<cfg, server, dirs, owner, settings, type, archive, packed, consent, task, expired, rating, lost>>
      PROVE  Inv'
  <2>0. pc'[c] = "response" /\ conn'[c] = sent
        /\ exit'[c] = (IF sent = "broken" THEN "result" ELSE "none")
    BY <1>0, <1>2 DEF Types, Goto
  <2>1. Types'
    BY <1>0, <1>2, <2>0 DEF Types, Goto, BeforeUpload, Uploading, Fetching
  <2>2. ASSUME NEW e \in Clients \ {c} PROVE SameClient(e) /\ \A d \in Dirs : SameDir(d, e)
    BY <1>0, <1>2 DEF Goto, SameClient, SameDir, Types
  <2>3. ReadInv(c)'
    BY <1>0, <1>2 DEF ReadInv, ClientInv
  <2>4. ChecksInv(c)'
    BY <1>0, <1>2, <2>0 DEF ClientInv, ChecksInv, TaskKnownInv, BeforeSizes, BeforeUpload, Uploading,
       Fetching, HasDir, Fits, Supported, Small, Agreed, Allowed, Trusted, ssl_bad_cert_handler, Dir
  <2>5. TaskKnownInv(c)' /\ ResultInv(c)'
    BY <1>0, <1>2, <2>0 DEF ClientInv, TaskKnownInv, ResultInv, Packed, BeforeSizes, BeforeUpload, Uploading,
       Fetching, Locking, Dir
  <2>6. ASSUME NEW d \in Dirs PROVE SavedInv(d, c)'
    BY <1>0, <1>2 DEF SavedInv, ClientInv
  <2>7. ClientInv(c)'
    BY <2>3, <2>4, <2>5, <2>6 DEF ClientInv
  <2> QED
    BY <2>1, <2>2, <2>7, OneMoves DEF Inv
<1> QED
  BY <1>1, <1>2 DEF upload

\* The server makes a task of an upload it got, or refuses it.
LEMMA ServeKeeps ==
  ASSUME NEW c \in Clients, Inv, serve_create(c)
  PROVE  Inv'
<1>0. Types /\ ClientInv(c)
  BY DEF serve_create, Inv
<1>1. ASSUME conn[c] \in {"sent", "broken"}, NEW t \in {"running", "none"}, NEW a \in {"created", "refusal"},
             \/ a = "created" /\ t = "running" /\ task' = [task EXCEPT ![c] = "running"]
             \/ a = "refusal" /\ t = "none" /\ task' = task,
             conn' = [conn EXCEPT ![c] = IF pc[c] = "done" THEN "closed" ELSE a],
             UNCHANGED <<cfg, server, dirs, owner, settings, type, archive, packed, consent, expired, rating, exit, lost, pc>>
      PROVE  Inv'
  <2>0. conn'[c] = (IF pc[c] = "done" THEN "closed" ELSE a) /\ task'[c] = t /\ task[c] = "none"
    <3>1. task[c] = "none"
      BY <1>0, <1>1 DEF ClientInv, TaskKnownInv
    <3>2. conn'[c] = (IF pc[c] = "done" THEN "closed" ELSE a)
      BY <1>0, <1>1 DEF Types
    <3>3. task'[c] = t
      BY <1>0, <1>1, <3>1 DEF Types
    <3> QED
      BY <3>1, <3>2, <3>3
  <2>1. Types'
    BY <1>0, <1>1, <2>0, SMTT(30) DEF Types, Goto, Uploading, Fetching
  <2>2. ASSUME NEW e \in Clients \ {c} PROVE SameClient(e) /\ \A d \in Dirs : SameDir(d, e)
    BY <1>0, <1>1 DEF Goto, SameClient, SameDir, Types
  <2>3. ReadInv(c)'
    BY <1>0, <1>1 DEF ReadInv, ClientInv
  <2>4. ChecksInv(c)'
    BY <1>0, <1>1, <2>0 DEF ClientInv, ChecksInv, TaskKnownInv, BeforeSizes, BeforeUpload, Uploading,
       Fetching, HasDir, Fits, Supported, Small, Agreed, Allowed, Trusted, ssl_bad_cert_handler, Dir
  <2>5. TaskKnownInv(c)' /\ ResultInv(c)'
    BY <1>0, <1>1, <2>0 DEF ClientInv, TaskKnownInv, ResultInv, Packed, BeforeSizes, BeforeUpload, Uploading,
       Fetching, Locking, Dir
  <2>6. ASSUME NEW d \in Dirs PROVE SavedInv(d, c)'
    BY <1>0, <1>1, <2>0 DEF SavedInv, ClientInv
  <2>7. ClientInv(c)'
    BY <2>3, <2>4, <2>5, <2>6 DEF ClientInv
  <2> QED
    BY <2>1, <2>2, <2>7, OneMoves DEF Inv
<1> QED
  BY <1>1 DEF serve_create

\* A client that goes on knows of its task, and one that ends has lost its answer or was told.
LEMMA ResponseKeeps ==
  ASSUME NEW c \in Clients, Inv, read_response(c)
  PROVE  Inv'
<1>0. pc[c] = "response" /\ Types /\ ClientInv(c)
  BY DEF read_response, Inv
<1>1. CASE Ends(c, "error", TRUE)
  BY <1>1, EndsKeeps
<1>2. CASE conn[c] \in {"created", "refusal"} /\ ~Accepted(c) /\ Ends(c, "error", FALSE)
  <2>1. task[c] = "none" /\ conn[c] \notin {"sent", "broken"}
    BY <1>0, <1>2 DEF Accepted, ClientInv, TaskKnownInv
  <2> QED
    BY <1>2, <2>1, EndsKeeps
<1>3. CASE conn[c] \in {"created", "refusal"} /\ exit[c] = "result" /\ Ends(c, "result", FALSE)
  BY <1>3, EndsKeeps
<1>4. CASE conn[c] \in {"created", "refusal"} /\ Ends(c, "0", FALSE)
  BY <1>4, EndsKeeps
<1>5. CASE /\ conn' = [conn EXCEPT ![c] = "closed"]
           /\ Goto(c, "poll")
           /\ UNCHANGED <<cfg, server, dirs, owner, settings, type, archive, packed, consent, task, expired, rating, exit, lost>>
  <2>0. pc'[c] = "poll" /\ conn'[c] = "closed"
    BY <1>0, <1>5 DEF Types, Goto
  <2>1. Types'
    BY <1>0, <1>5, <2>0 DEF Types, Goto, Uploading, Fetching
  <2>2. ASSUME NEW e \in Clients \ {c} PROVE SameClient(e) /\ \A d \in Dirs : SameDir(d, e)
    BY <1>0, <1>5 DEF Goto, SameClient, SameDir, Types
  <2>3. ReadInv(c)'
    BY <1>0, <1>5 DEF ReadInv, ClientInv
  <2>4. ChecksInv(c)'
    BY <1>0, <1>5, <2>0 DEF ClientInv, ChecksInv, TaskKnownInv, BeforeSizes, BeforeUpload, Uploading,
       Fetching, HasDir, Fits, Supported, Small, Agreed, Allowed, Trusted, ssl_bad_cert_handler, Dir
  <2>5. TaskKnownInv(c)' /\ ResultInv(c)'
    BY <1>0, <1>5, <2>0 DEF ClientInv, TaskKnownInv, ResultInv, Packed, BeforeSizes, BeforeUpload, Uploading,
       Fetching, Locking, Dir
  <2>6. ASSUME NEW d \in Dirs PROVE SavedInv(d, c)'
    BY <1>0, <1>5 DEF SavedInv, ClientInv
  <2>7. ClientInv(c)'
    BY <2>3, <2>4, <2>5, <2>6 DEF ClientInv
  <2> QED
    BY <2>1, <2>2, <2>7, OneMoves DEF Inv
<1> QED
  BY <1>1, <1>2, <1>3, <1>4, <1>5 DEF read_response, error_msg_and_die

\* The result is fetched only of a task that ended with success.
LEMMA PollKeeps ==
  ASSUME NEW c \in Clients, Inv, poll_status(c)
  PROVE  Inv'
<1>0. pc[c] = "poll" /\ Types /\ ClientInv(c)
  BY DEF poll_status, Inv
<1>1. CASE Unusable(c)
  BY <1>1, UnusableKeeps
<1>2. ASSUME NEW w \in {"poll", "backtrace", "log"}, w = "backtrace" => Success(c),
             Goto(c, w), UNCHANGED <<exit, lost, local>>
      PROVE  Inv'
  <2>0. pc'[c] = w /\ (w = "backtrace" => task[c] = "success")
    BY <1>0, <1>2 DEF Goto, Types, Success
  <2>1. ChecksInv(c)'
    BY <1>0, <1>2, <2>0 DEF ClientInv, ChecksInv, BeforeUpload, Uploading, Fetching,
       local, HasDir, Fits, Supported, Small, Agreed, Allowed, Trusted, ssl_bad_cert_handler, Dir
  <2>2. TaskKnownInv(c)' /\ ResultInv(c)'
    BY <1>0, <1>2, <2>0 DEF ClientInv, TaskKnownInv, ResultInv, Packed, BeforeSizes, BeforeUpload,
       Uploading, Fetching, Locking, local, Dir
  <2> QED
    BY <1>0, <1>2, <2>1, <2>2, GoesOn DEF Places, Uploading, Fetching
<1> QED
  BY <1>1, <1>2 DEF poll_status

\* Only the result of a crash of a program is asked for a rating.
LEMMA BacktraceKeeps ==
  ASSUME NEW c \in Clients, Inv, backtrace(c)
  PROVE  Inv'
<1>0. pc[c] = "backtrace" /\ Types /\ ClientInv(c)
  BY DEF backtrace, Inv
<1>1. CASE Unusable(c)
  BY <1>1, UnusableKeeps
<1>2. ASSUME NEW w \in {"exploitable", "save"}, w = "exploitable" => type[c] = "retrace",
             Goto(c, w), UNCHANGED <<exit, lost, local>>
      PROVE  Inv'
  <2>0. pc'[c] = w
    BY <1>0, <1>2 DEF Goto, Types
  <2>1. ChecksInv(c)'
    BY <1>0, <1>2, <2>0 DEF ClientInv, ChecksInv, BeforeUpload, Uploading, Fetching,
       local, HasDir, Fits, Supported, Small, Agreed, Allowed, Trusted, ssl_bad_cert_handler, Dir
  <2>2. TaskKnownInv(c)' /\ ResultInv(c)'
    BY <1>0, <1>2, <2>0 DEF ClientInv, TaskKnownInv, ResultInv, Packed, BeforeSizes, BeforeUpload,
       Uploading, Fetching, Locking, local, Dir
  <2> QED
    BY <1>0, <1>2, <2>1, <2>2, GoesOn DEF Places, Uploading, Fetching
<1> QED
  BY <1>1, <1>2 DEF backtrace

\* Only a crash of a program has a rating.
LEMMA ExploitableKeeps ==
  ASSUME NEW c \in Clients, Inv, exploitable(c)
  PROVE  Inv'
<1>0. pc[c] = "exploitable" /\ Types /\ ClientInv(c)
  BY DEF exploitable, Inv
<1>1. CASE Unusable(c)
  BY <1>1, UnusableKeeps
<1>2. ASSUME NEW r \in {"none", "low", "high"}, rating' = [rating EXCEPT ![c] = r],
             Goto(c, "save"),
             UNCHANGED <<cfg, server, dirs, owner, settings, type, archive, packed, consent, conn, task, expired, exit, lost>>
      PROVE  Inv'
  <2>0. rating'[c] = r /\ pc'[c] = "save"
    BY <1>0, <1>2 DEF Types, Goto
  <2>1. Types'
    BY <1>0, <1>2, <2>0 DEF Types, Goto, Uploading, Fetching
  <2>2. ASSUME NEW e \in Clients \ {c} PROVE SameClient(e) /\ \A d \in Dirs : SameDir(d, e)
    BY <1>0, <1>2 DEF Goto, SameClient, SameDir, Types
  <2>3. ReadInv(c)'
    BY <1>0, <1>2 DEF ReadInv, ClientInv
  <2>4. ChecksInv(c)'
    BY <1>0, <1>2, <2>0 DEF ClientInv, ChecksInv, TaskKnownInv, BeforeSizes, BeforeUpload, Uploading,
       Fetching, HasDir, Fits, Supported, Small, Agreed, Allowed, Trusted, ssl_bad_cert_handler, Dir
  <2>5. TaskKnownInv(c)' /\ ResultInv(c)'
    BY <1>0, <1>2, <2>0 DEF ClientInv, TaskKnownInv, ResultInv, Packed, BeforeSizes, BeforeUpload, Uploading,
       Fetching, Locking, Dir
  <2>6. ASSUME NEW d \in Dirs PROVE SavedInv(d, c)'
    BY <1>0, <1>2 DEF SavedInv, ClientInv
  <2>7. ClientInv(c)'
    BY <2>3, <2>4, <2>5, <2>6 DEF ClientInv
  <2> QED
    BY <2>1, <2>2, <2>7, OneMoves DEF Inv
<1> QED
  BY <1>1, <1>2 DEF exploitable

\* The result goes into the directory it was made from, under its lock.
LEMMA SaveKeeps ==
  ASSUME NEW c \in Clients, Inv, save_result(c)
  PROVE  Inv'
<1>0. pc[c] = "save" /\ Types /\ ClientInv(c)
  BY DEF save_result, Inv
<1>a. cfg[c].dir \in Dirs /\ Nobody \notin Clients
  BY <1>0, SpecialAssumption DEF ClientInv, ChecksInv, Uploading, Fetching, HasDir, Types, Config
<1>b. dirs[cfg[c].dir] \in Saved
  BY <1>0, <1>a DEF Types
<1>d. [dirs[cfg[c].dir] EXCEPT !.kernel_log = c] \in Saved /\ [dirs[cfg[c].dir] EXCEPT !.backtrace = c] \in Saved
  BY <1>b DEF Saved
<1>1. CASE ~Dir(c).there /\ Ends(c, "error", FALSE)
  <2>1. conn[c] \notin {"sent", "broken"}
    BY <1>0 DEF ClientInv, TaskKnownInv, Uploading, Fetching
  <2> QED
    BY <1>1, <2>1, EndsKeeps
<1>2. CASE /\ IsFree(cfg[c].dir) /\ Dir(c).there
           /\ owner' = [owner EXCEPT ![cfg[c].dir] = c]
           /\ dirs' = IF type[c] = "vmcore"
                      THEN [dirs EXCEPT ![cfg[c].dir].kernel_log = c]
                      ELSE [dirs EXCEPT ![cfg[c].dir].backtrace = c]
           /\ Goto(c, "rate")
           /\ UNCHANGED <<cfg, server, settings, type, archive, packed, consent, conn, task, expired, rating, exit, lost>>
  <2>0. /\ pc'[c] = "rate" /\ owner'[cfg[c].dir] = c
        /\ dirs' \in [Dirs -> Saved]
        /\ Text(c)' = c
        /\ dirs'[cfg[c].dir].size = dirs[cfg[c].dir].size
        /\ dirs'[cfg[c].dir].there = dirs[cfg[c].dir].there
    BY <1>a, <1>b, <1>d, <1>0, <1>2 DEF Types, Goto, Text, Dir, Saved
  <2>1. Types'
    BY <1>a, <1>d, <1>0, <1>2, <2>0 DEF Types, Goto, Uploading, Fetching
  <2>2. ASSUME NEW e \in Clients \ {c} PROVE SameClient(e) /\ \A d \in Dirs : SameDir(d, e)
    BY <1>a, <1>d, <1>0, <1>2 DEF Goto, SameClient, SameDir, Types, IsFree, Saved
  <2>3. ReadInv(c)'
    BY <1>0, <1>2 DEF ReadInv, ClientInv
  <2>4. ChecksInv(c)'
    BY <1>a, <1>d, <1>0, <1>2, <2>0 DEF ClientInv, ChecksInv, TaskKnownInv, BeforeSizes, BeforeUpload, Uploading,
       Fetching, HasDir, Fits, Supported, Small, Agreed, Allowed, Trusted, ssl_bad_cert_handler, Dir
  <2>5. TaskKnownInv(c)' /\ ResultInv(c)'
    BY <1>a, <1>d, <1>0, <1>2, <2>0 DEF ClientInv, TaskKnownInv, ResultInv, Packed, BeforeSizes, BeforeUpload, Uploading,
       Fetching, Locking, Dir
  <2>6. ASSUME NEW d \in Dirs PROVE SavedInv(d, c)'
    BY <1>a, <1>d, <1>0, <1>2, <2>0 DEF SavedInv, ClientInv, Types, Saved, ResultInv, Fetching
  <2>7. ClientInv(c)'
    BY <2>3, <2>4, <2>5, <2>6 DEF ClientInv
  <2> QED
    BY <2>1, <2>2, <2>7, OneMoves DEF Inv
<1> QED
  BY <1>1, <1>2 DEF save_result, error_msg_and_die

\* The rating goes beside the backtrace before the lock is given back.
LEMMA RateKeeps ==
  ASSUME NEW c \in Clients, Inv, save_exploitable(c)
  PROVE  Inv'
<1>0. pc[c] = "rate" /\ Types /\ ClientInv(c)
  BY DEF save_exploitable, Inv
<1>a. cfg[c].dir \in Dirs /\ Nobody \notin Clients /\ owner[cfg[c].dir] = c
  BY <1>0, SpecialAssumption DEF ClientInv, ChecksInv, ResultInv, Uploading, Fetching, HasDir, Types, Config
<1>b. dirs[cfg[c].dir] \in Saved
  BY <1>0, <1>a DEF Types
<1>d. [dirs[cfg[c].dir] EXCEPT !.exploitable = c] \in Saved
  BY <1>b DEF Saved
<1>1. CASE save_exploitable(c)
  <2>0. /\ pc'[c] = "done" /\ exit'[c] = "0"
        /\ dirs' \in [Dirs -> Saved]
        /\ dirs'[cfg[c].dir].size = dirs[cfg[c].dir].size
    BY <1>a, <1>d, <1>0, <1>1 DEF Types, Goto, save_exploitable
  <2>1. Types'
    BY <1>a, <1>d, <1>0, <1>1, <2>0 DEF Types, Goto, Uploading, Fetching, save_exploitable
  <2>2. ASSUME NEW e \in Clients \ {c} PROVE SameClient(e) /\ \A d \in Dirs : SameDir(d, e)
    BY <1>a, <1>d, <1>0, <1>1 DEF Goto, SameClient, SameDir, Types, save_exploitable, Saved
  <2>3. ReadInv(c)'
    BY <1>0, <1>1 DEF save_exploitable, ReadInv, ClientInv
  <2>4. ChecksInv(c)'
    BY <1>a, <1>d, <1>0, <1>1, <2>0 DEF save_exploitable, ClientInv, ChecksInv, TaskKnownInv, BeforeSizes, BeforeUpload, Uploading,
       Fetching, HasDir, Fits, Supported, Small, Agreed, Allowed, Trusted, ssl_bad_cert_handler, Dir
  <2>5. TaskKnownInv(c)' /\ ResultInv(c)'
    BY <1>a, <1>d, <1>0, <1>1, <2>0 DEF save_exploitable, ClientInv, TaskKnownInv, ResultInv, Packed, BeforeSizes, BeforeUpload, Uploading,
       Fetching, Locking, Dir
  <2>6. ASSUME NEW d \in Dirs PROVE SavedInv(d, c)'
    BY <1>a, <1>d, <1>0, <1>1, <2>0 DEF SavedInv, ClientInv, Types, Saved, ResultInv, Fetching, save_exploitable, get_exploitable_rating, Dir
  <2>7. ClientInv(c)'
    BY <2>3, <2>4, <2>5, <2>6 DEF ClientInv
  <2> QED
    BY <2>1, <2>2, <2>7, OneMoves DEF Inv
<1> QED
  BY <1>1

\* A task that failed is told with status 1.
LEMMA FailedKeeps ==
  ASSUME NEW c \in Clients, Inv, retrace_failed(c)
  PROVE  Inv'
<1>0. pc[c] = "log" /\ Types /\ ClientInv(c)
  BY DEF retrace_failed, Inv
<1>1. CASE Unusable(c)
  BY <1>1, UnusableKeeps
<1>2. CASE Ends(c, "1", FALSE)
  <2>1. conn[c] \notin {"sent", "broken"}
    BY <1>0 DEF ClientInv, TaskKnownInv, Uploading
  <2> QED
    BY <1>2, <2>1, EndsKeeps
<1> QED
  BY <1>1, <1>2 DEF retrace_failed

\* A query makes and saves nothing.
LEMMA QueryKeeps ==
  ASSUME NEW c \in Clients, Inv, run_query(c)
  PROVE  Inv'
<1>0. pc[c] = "query" /\ Types /\ ClientInv(c)
  BY DEF run_query, Inv
<1>1. CASE Unusable(c)
  BY <1>1, UnusableKeeps
<1>2. CASE Ends(c, "0", FALSE)
  BY <1>0, <1>2, DieKeeps DEF BeforeSizes
<1> QED
  BY <1>1, <1>2 DEF run_query

\* The server finishes a task, with success or without.
LEMMA FinishKeeps ==
  ASSUME NEW c \in Clients, Inv, finish_task(c)
  PROVE  Inv'
<1>0. Types /\ ClientInv(c)
  BY DEF finish_task, Inv
<1>1. ASSUME task[c] = "running", NEW t \in {"success", "failure"}, task' = [task EXCEPT ![c] = t],
             UNCHANGED <<cfg, server, dirs, owner, settings, type, archive, packed, consent, conn, expired, rating, exit, lost, pc>>
      PROVE  Inv'
  <2>0. task'[c] = t
    BY <1>0, <1>1 DEF Types, Goto
  <2>1. Types'
    BY <1>0, <1>1, <2>0 DEF Types, Goto, Uploading, Fetching
  <2>2. ASSUME NEW e \in Clients \ {c} PROVE SameClient(e) /\ \A d \in Dirs : SameDir(d, e)
    BY <1>0, <1>1 DEF Goto, SameClient, SameDir, Types
  <2>3. ReadInv(c)'
    BY <1>0, <1>1 DEF ReadInv, ClientInv
  <2>4. ChecksInv(c)'
    BY <1>0, <1>1, <2>0 DEF ClientInv, ChecksInv, TaskKnownInv, BeforeSizes, BeforeUpload, Uploading,
       Fetching, HasDir, Fits, Supported, Small, Agreed, Allowed, Trusted, ssl_bad_cert_handler, Dir
  <2>5. TaskKnownInv(c)' /\ ResultInv(c)'
    BY <1>0, <1>1, <2>0 DEF ClientInv, TaskKnownInv, ResultInv, Packed, BeforeSizes, BeforeUpload, Uploading,
       Fetching, Locking, Dir
  <2>6. ASSUME NEW d \in Dirs PROVE SavedInv(d, c)'
    BY <1>0, <1>1 DEF SavedInv, ClientInv
  <2>7. ClientInv(c)'
    BY <2>3, <2>4, <2>5, <2>6 DEF ClientInv
  <2> QED
    BY <2>1, <2>2, <2>7, OneMoves DEF Inv
<1> QED
  BY <1>1 DEF finish_task

\* What goes on in the directories, and the server's forgetting of a task.
LEMMA AroundKeeps ==
  ASSUME Inv, Types', \A e \in Clients : SameClient(e) /\ \A d \in Dirs : SameDir(d, e)
  PROVE  Inv'
BY Frame DEF Inv

\* Somebody removes a file of a directory that is not locked.
LEMMA RemoveKeeps ==
  ASSUME NEW g \in Dirs, NEW f \in Removable, Inv, remove_file(g, f)
  PROVE  Inv'
<1>1. Types
  BY DEF Inv
<1>2. dirs' \in [Dirs -> Saved]
  <2>0. dirs[g] \in Saved
    BY <1>1 DEF Types
  <2>1. dirs[g].files \ {f} \in SUBSET (Files \cup Removable)
    BY <2>0 DEF Saved
  <2>2. [dirs[g] EXCEPT !.files = dirs[g].files \ {f}] \in Saved
    BY <2>0, <2>1 DEF Saved
  <2> QED
    BY <1>1, <2>2 DEF remove_file, Types
<1>3. Types'
  BY <1>1, <1>2 DEF remove_file, Types
<1>4. ASSUME NEW e \in Clients PROVE SameClient(e) /\ \A d \in Dirs : SameDir(d, e)
  BY <1>1 DEF remove_file, SameClient, SameDir, Types, Saved
<1> QED
  BY <1>3, <1>4, AroundKeeps

\* Somebody deletes a directory that is not locked, and every result in it.
LEMMA DeleteKeeps ==
  ASSUME NEW g \in Dirs, Inv, delete_dir(g)
  PROVE  Inv'
<1>1. Types
  BY DEF Inv
<1>2. dirs' \in [Dirs -> Saved]
  <2>0. dirs[g] \in Saved
    BY <1>1 DEF Types
  <2>1. [dirs[g] EXCEPT !.there = FALSE, !.files = {}, !.backtrace = Nobody, !.kernel_log = Nobody,
                        !.exploitable = Nobody] \in Saved
    BY <2>0 DEF Saved
  <2> QED
    BY <1>1, <2>1 DEF delete_dir, Types
<1>3. Types'
  BY <1>1, <1>2 DEF delete_dir, Types
<1>4. ASSUME NEW e \in Clients, NEW d \in Dirs PROVE SameClient(e) /\ SameDir(d, e)
  <2>1. SameClient(e) /\ owner' = owner
    BY DEF delete_dir, SameClient
  <2>2. CASE d = g
    <3>0. dirs[g] \in Saved
      BY <1>1 DEF Types
    <3>1. dirs'[g] = [dirs[g] EXCEPT !.there = FALSE, !.files = {}, !.backtrace = Nobody,
                                    !.kernel_log = Nobody, !.exploitable = Nobody]
      BY <1>1 DEF delete_dir, Types
    <3>2. dirs'[g].size = dirs[g].size /\ ~dirs'[g].there /\ dirs'[g].exploitable = Nobody
      BY <3>0, <3>1 DEF Saved
    <3>3. owner[g] # e /\ Nobody # e
      BY SpecialAssumption DEF delete_dir, IsFree
    <3> QED
      BY <2>1, <2>2, <3>2, <3>3 DEF SameDir
  <2>3. CASE d # g
    BY <1>1, <2>1, <2>3 DEF delete_dir, SameDir, Types
  <2> QED
    BY <2>1, <2>2, <2>3
<1>5. ASSUME NEW e \in Clients PROVE SameClient(e)
  BY DEF delete_dir, SameClient
<1> QED
  BY <1>3, <1>4, <1>5, AroundKeeps

\* The server forgets a task.
LEMMA DropKeeps ==
  ASSUME NEW c \in Clients, Inv, drop_task(c)
  PROVE  Inv'
<1>1. Types'
  BY DEF drop_task, Inv, Types
<1>2. ASSUME NEW e \in Clients PROVE SameClient(e) /\ \A d \in Dirs : SameDir(d, e)
  BY DEF drop_task, SameClient, SameDir
<1> QED
  BY <1>1, <1>2, AroundKeeps

\* Nothing happens.
LEMMA StutterKeeps ==
  ASSUME Inv, UNCHANGED vars
  PROVE  Inv'
<1>1. Types'
  BY DEF vars, Inv, Types
<1>2. ASSUME NEW e \in Clients PROVE SameClient(e) /\ \A d \in Dirs : SameDir(d, e)
  BY DEF vars, SameClient, SameDir
<1> QED
  BY <1>1, <1>2, AroundKeeps

(***************************************************************************)
(* The theorems.                                                           *)
(***************************************************************************)
LEMMA InvInductive == Inv /\ [Next]_vars => Inv'
<1> SUFFICES ASSUME Inv, [Next]_vars PROVE Inv'
  OBVIOUS
<1>1. ASSUME NEW c \in Clients, Step(c) PROVE Inv'
  BY <1>1, MainKeeps, SettingsKeeps, SizesKeeps, ReleaseKeeps, PackageKeeps, OpenKeeps,
     ArgumentsKeeps, TarKeeps, PackedKeeps, AskKeeps, PostKeeps, UploadKeeps, ResponseKeeps,
     PollKeeps, BacktraceKeeps, ExploitableKeeps, SaveKeeps, RateKeeps, FailedKeeps, QueryKeeps DEF Step
<1>2. ASSUME NEW c \in Clients, kill(c) PROVE Inv'
  BY <1>2, EndsKeeps DEF kill
<1>3. ASSUME NEW c \in Clients, serve_create(c) \/ finish_task(c) \/ drop_task(c) PROVE Inv'
  BY <1>3, ServeKeeps, FinishKeeps, DropKeeps
<1>4. ASSUME NEW d \in Dirs, delete_dir(d) \/ \E f \in Removable : remove_file(d, f) PROVE Inv'
  BY <1>4, DeleteKeeps, RemoveKeeps
<1>5. CASE UNCHANGED vars
  BY <1>5, StutterKeeps
<1> QED
  BY <1>1, <1>2, <1>3, <1>4, <1>5 DEF Next

(* Which checks a client has passed, what it knows of its task and whose   *)
(* result lies in a directory, at every place of create() and run_batch(). *)
THEOREM Invariance == Spec => []Inv
<1>1. Init => Inv
  BY InitInv
<1>2. Inv /\ [Next]_vars => Inv'
  BY InvInductive
<1> QED
  BY <1>1, <1>2, PTL DEF Spec

(* create() sends POST /create only after all its checks: the server is    *)
(* trusted, supports the format and the release and has room, and the user *)
(* agreed to a large upload, even when the settings were read in part.     *)
THEOREM UploadIsAllowed == Spec => []UploadAllowed
<1>1. Inv => UploadAllowed
  BY DEF Inv, ClientInv, ChecksInv, Allowed, Trusted, ssl_bad_cert_handler, Fits, Supported, Small,
     Agreed, UploadAllowed
<1> QED
  BY <1>1, Invariance, PTL

(***************************************************************************)
(* What is saved, and with which directory.                                *)
(***************************************************************************)
\* A step that ends a client other than with success, or leaves its end open,
\* and adds no result of it.
LEMMA NothingSaved ==
  ASSUME NEW c \in Clients, \A d \in Dirs : Results(dirs'[d]) \subseteq Results(dirs[d]) \cup {Nobody},
         exit'[c] = "0" => exit[c] = "0" \/ cfg[c].op # "batch"
  PROVE  ResultStep(c)
<1>1. Nobody \notin Clients
  BY SpecialAssumption
<1> QED
  BY <1>1 DEF ResultStep

\* The text is saved under the lock, in the directory the archive was made of.
LEMMA SaveStep ==
  ASSUME Inv, NEW c \in Clients, NEW e \in Clients, save_result(e)
  PROVE  ResultStep(c)
<1>0. pc[e] = "save" /\ Types /\ ClientInv(e) /\ Nobody \notin Clients
  BY SpecialAssumption DEF save_result, Inv
<1>a. cfg[e].dir \in Dirs /\ task[e] = "success" /\ Packed(e)
  BY <1>0 DEF ClientInv, ChecksInv, ResultInv, Uploading, Fetching, HasDir, Types, Config
<1>1. CASE error_msg_and_die(e)
  <2>1. dirs' = dirs /\ (exit'[c] = "0" => exit[c] = "0")
    BY <1>0, <1>1 DEF error_msg_and_die, Ends, Types
  <2> QED
    BY <2>1, NothingSaved
<1>2. CASE Dir(e).there /\ exit' = exit
           /\ dirs' = IF type[e] = "vmcore"
                      THEN [dirs EXCEPT ![cfg[e].dir].kernel_log = e]
                      ELSE [dirs EXCEPT ![cfg[e].dir].backtrace = e]
  <2>1. ASSUME NEW d \in Dirs, d # cfg[e].dir PROVE dirs'[d] = dirs[d]
    BY <1>0, <1>2, <2>1 DEF Types
  <2>2. Results(dirs'[cfg[e].dir]) \subseteq Results(dirs[cfg[e].dir]) \cup {e}
    BY <1>0, <1>a, <1>2 DEF Types, Saved, Results
  <2>3. {cfg[e].dir} \X Required(type[e]) \subseteq archive[e]
    BY <1>a DEF Packed
  <2> QED
    BY <1>a, <1>2, <2>1, <2>2, <2>3 DEF ResultStep, Dir
<1> QED
  BY <1>1, <1>2 DEF save_result

\* The rating goes beside the text, and only then the client reports success.
LEMMA RateStep ==
  ASSUME Inv, NEW c \in Clients, NEW e \in Clients, save_exploitable(e)
  PROVE  ResultStep(c)
<1>0. pc[e] = "rate" /\ Types /\ ClientInv(e)
  BY DEF save_exploitable, Inv
<1>a. cfg[e].dir \in Dirs /\ task[e] = "success" /\ Packed(e) /\ Dir(e).there /\ Text(e) = e
      /\ Dir(e).exploitable # e
  BY <1>0 DEF ClientInv, ChecksInv, ResultInv, SavedInv, Dir, Uploading, Fetching, HasDir, Types, Config
<1>b. dirs[cfg[e].dir] \in Saved
  BY <1>0, <1>a DEF Types
<1>1. ASSUME NEW d \in Dirs, d # cfg[e].dir PROVE dirs'[d] = dirs[d]
  BY <1>0, <1>1 DEF Types, save_exploitable
<1>2. /\ dirs'[cfg[e].dir].there /\ (dirs'[cfg[e].dir].exploitable = e <=> rating[e] = "high")
      /\ dirs'[cfg[e].dir].kernel_log = Dir(e).kernel_log
      /\ dirs'[cfg[e].dir].backtrace = Dir(e).backtrace
      /\ dirs'[cfg[e].dir].exploitable \in {e, Dir(e).exploitable}
  BY <1>0, <1>a, <1>b DEF Types, Saved, save_exploitable, get_exploitable_rating, Dir
<1>3. Results(dirs'[cfg[e].dir]) \subseteq Results(dirs[cfg[e].dir])
  BY <1>a, <1>2 DEF Results, Text, Dir
<1>4. c # e => exit'[c] = exit[c]
  BY <1>0 DEF Types, save_exploitable
<1> QED
  BY <1>a, <1>1, <1>2, <1>3, <1>4 DEF ResultStep, Text, Dir

\* No other step of a client saves anything or ends a batch with success.
LEMMA OtherSteps ==
  ASSUME Inv, NEW c \in Clients, NEW e \in Clients, Step(e) \/ kill(e)
  PROVE  ResultStep(c)
<1>0. Types /\ ChecksInv(e)
  BY DEF Inv, ClientInv
<1>n. ASSUME dirs' = dirs, exit' = exit PROVE ResultStep(c)
  BY <1>n, NothingSaved
<1>e. ASSUME NEW status, NEW loss, Ends(e, status, loss),
             status # "0" \/ cfg[e].op # "batch"
      PROVE  ResultStep(c)
  <2>1. dirs' = dirs /\ (exit'[c] = "0" => exit[c] = "0" \/ cfg[c].op # "batch")
    BY <1>0, <1>e DEF Ends, Types
  <2> QED
    BY <2>1, NothingSaved
<1>d. ASSUME error_msg_and_die(e) \/ Unusable(e) \/ kill(e) PROVE ResultStep(c)
  BY <1>d, <1>e DEF error_msg_and_die, Unusable, kill
<1>1. CASE main(e) \/ get_settings(e) \/ get_sizes(e) \/ get_release_id(e) \/ check_package(e)
  BY <1>1, <1>n, <1>d DEF main, get_settings, get_sizes, get_release_id, check_package, local
<1>2. CASE open_archive(e) \/ add_arguments(e) \/ run_tar(e) \/ check_packed_size(e)
  BY <1>2, <1>n, <1>d DEF open_archive, error_msg_and_die, add_arguments, run_tar, Pack,
     check_packed_size, local
<1>3. CASE ask_yes_no(e) \/ post_header(e)
  BY <1>3, <1>n, <1>e DEF ask_yes_no, post_header
<1>4. CASE upload(e)
  <2>1. ASSUME NEW sent, exit' = [exit EXCEPT ![e] = IF sent = "broken" THEN "result" ELSE "none"], dirs' = dirs
        PROVE  ResultStep(c)
    <3>1. exit'[c] = "0" => exit[c] = "0"
      BY <1>0, <2>1 DEF Types
    <3> QED
      BY <2>1, <3>1, NothingSaved
  <2> QED
    BY <1>4, <1>d, <2>1 DEF upload
<1>5. CASE read_response(e)
  BY <1>5, <1>n, <1>d, <1>e DEF read_response
<1>6. CASE poll_status(e) \/ backtrace(e) \/ exploitable(e)
  BY <1>6, <1>n, <1>d DEF poll_status, backtrace, exploitable, local
<1>7. CASE retrace_failed(e)
  BY <1>7, <1>d, <1>e DEF retrace_failed
<1>8. CASE run_query(e)
  <2>1. cfg[e].op # "batch"
    BY <1>0, <1>8 DEF ChecksInv, run_query
  <2> QED
    BY <1>8, <2>1, <1>d, <1>e DEF run_query
<1>9. CASE save_result(e) \/ save_exploitable(e)
  BY <1>9, SaveStep, RateStep
<1> QED
  BY <1>1, <1>2, <1>3, <1>4, <1>5, <1>6, <1>7, <1>8, <1>9, <1>d DEF Step

(* run_batch() saves a backtrace, a kernel log or a rating only of a task  *)
(* that the server finished and that was made of every required element of *)
(* this very directory, and reports success only when text and rating are  *)
(* there together, though it gave up the lock while tar read the elements  *)
(* and while it waited for the server.                                     *)
THEOREM ResultBelongs == Spec => ResultOfThisCrash
<1>1. ASSUME Inv, [Next]_vars, NEW c \in Clients PROVE ResultStep(c)
  <2>0. Types
    BY <1>1 DEF Inv
  <2>1. ASSUME NEW e \in Clients, Step(e) \/ kill(e) PROVE ResultStep(c)
    BY <1>1, <2>1, OtherSteps
  <2>2. ASSUME NEW e \in Clients, serve_create(e) \/ finish_task(e) \/ drop_task(e) PROVE ResultStep(c)
    BY <1>1, <2>2, NothingSaved DEF serve_create, finish_task, drop_task
  <2>3. ASSUME NEW d \in Dirs, delete_dir(d) PROVE ResultStep(c)
    <3>1. \A g \in Dirs : Results(dirs'[g]) \subseteq Results(dirs[g]) \cup {Nobody}
      BY <2>0, <2>3 DEF delete_dir, Results, Types, Saved
    <3> QED
      BY <1>1, <2>3, <3>1, NothingSaved DEF delete_dir
  <2>4. ASSUME NEW d \in Dirs, NEW f \in Removable, remove_file(d, f) PROVE ResultStep(c)
    <3>1. \A g \in Dirs : Results(dirs'[g]) \subseteq Results(dirs[g]) \cup {Nobody}
      BY <2>0, <2>4 DEF remove_file, Results, Types, Saved
    <3> QED
      BY <1>1, <2>4, <3>1, NothingSaved DEF remove_file
  <2>5. CASE UNCHANGED vars
    BY <1>1, <2>5, NothingSaved DEF vars
  <2> QED
    BY <1>1, <2>1, <2>2, <2>3, <2>4, <2>5 DEF Next
<1>2. Inv /\ [Next]_vars => \A c \in Clients : ResultStep(c)
  BY <1>1
<1> QED
  BY <1>2, Invariance, PTL DEF Spec, ResultOfThisCrash

(* No task stays on the server unknown to a client that could have known   *)
(* of it, whatever answers are lost or cut and whoever is killed.          *)
THEOREM TaskIsKnown == Spec => []TaskAccountedFor
<1>1. Inv => TaskAccountedFor
  BY DEF Inv, ClientInv, TaskKnownInv, TaskAccountedFor
<1> QED
  BY <1>1, Invariance, PTL

(***************************************************************************)
(* Who keeps a directory locked.                                           *)
(***************************************************************************)
HoldsLock(c) == pc[c] \in Locking \cup {"rate"}

LocksInv ==
  /\ \A d \in Dirs, c \in Clients :
       owner[d] = c => cfg[c].dir = d /\ dirs[d].there /\ HoldsLock(c)
  /\ \A c \in Clients : pc[c] = "spin" => ~(Required(type[c]) \subseteq Dir(c).files)

(* A problem directory is locked only by a client that is packing it or    *)
(* saving a result in it and gives the lock back in its next steps, or by  *)
(* one in the endless loop of create_archive() over the required files,    *)
(* which no one can put back: whoever waits in dd_opendir() waits for no   *)
(* client that has ended, was killed or itself waits for an answer.        *)
LockIsWorkedFor ==
  \A d \in Dirs :
    ~IsFree(d) =>
      \/ Stuck(d)
      \/ \E c \in Clients : /\ owner[d] = c /\ cfg[c].dir = d /\ dirs[d].there
                            /\ pc[c] \in {"arguments", "rate"}

\* A client that neither holds, takes nor gives back a lock, or keeps the one it holds.
LEMMA PlainStepLocks ==
  ASSUME Types, LocksInv, NEW c \in Clients, NEW to, Goto(c, to), to # "spin",
         HoldsLock(c) => to \in Locking \cup {"rate"},
         UNCHANGED <<cfg, dirs, owner>>,
         \A e \in Clients \ {c} : type'[e] = type[e]
  PROVE  LocksInv'
<1>1. ASSUME NEW e \in Clients PROVE HoldsLock(e) => HoldsLock(e)'
  BY DEF Goto, HoldsLock, Types
<1>2. ASSUME NEW e \in Clients, pc'[e] = "spin" PROVE e # c /\ pc[e] = "spin"
  BY <1>2 DEF Goto, Types
<1>3. \A d \in Dirs, e \in Clients :
        owner'[d] = e => cfg'[e].dir = d /\ dirs'[d].there /\ HoldsLock(e)'
  BY <1>1 DEF LocksInv
<1>4. \A e \in Clients : pc'[e] = "spin" => ~(Required(type'[e]) \subseteq dirs'[cfg'[e].dir].files)
  BY <1>2 DEF LocksInv, Dir
<1> QED
  BY <1>3, <1>4 DEF LocksInv, Dir

\* A process that ends, for whatever reason, leaves no lock behind.
LEMMA EndLocks ==
  ASSUME Types, LocksInv, NEW c \in Clients, NEW s, NEW l, Ends(c, s, l)
  PROVE  LocksInv'
<1>0. Nobody \notin Clients
  BY SpecialAssumption
<1>1. ASSUME NEW d \in Dirs, NEW e \in Clients, owner'[d] = e
      PROVE  cfg'[e].dir = d /\ dirs'[d].there /\ HoldsLock(e)'
  <2>1. owner[d] = e /\ e # c
    BY <1>0, <1>1 DEF Ends
  <2>2. pc'[e] = pc[e] /\ cfg' = cfg /\ dirs' = dirs
    BY <2>1 DEF Ends, Types
  <2> QED
    BY <2>1, <2>2 DEF LocksInv, HoldsLock
<1>2. ASSUME NEW e \in Clients, pc'[e] = "spin" PROVE pc[e] = "spin"
  BY <1>2 DEF Ends, Types
<1>3. \A e \in Clients : pc'[e] = "spin" => ~(Required(type'[e]) \subseteq dirs'[cfg'[e].dir].files)
  BY <1>2 DEF LocksInv, Dir, Ends
<1> QED
  BY <1>1, <1>3 DEF LocksInv, Dir

\* A client with a lock, or in the endless loop, has a directory.
LEMMA HolderHasDir ==
  ASSUME Inv, NEW c \in Clients, HoldsLock(c)
  PROVE  cfg[c].dir \in Dirs /\ owner[cfg[c].dir] = c
<1>1. Types /\ ChecksInv(c) /\ ResultInv(c)
  BY DEF Inv, ClientInv
<1>2. HasDir(c)
  BY <1>1 DEF ChecksInv, HoldsLock, Locking, BeforeUpload, Uploading, Fetching
<1> QED
  BY <1>1, <1>2 DEF ResultInv, HoldsLock, HasDir, Types, Config

\* A client that takes the free lock of its directory, which is there.
LEMMA TakeLocks ==
  ASSUME Inv, Types, LocksInv, NEW c \in Clients, NEW to \in {"arguments", "rate"}, Goto(c, to),
         cfg[c].dir \in Dirs, Dir(c).there,
         owner' = [owner EXCEPT ![cfg[c].dir] = c],
         \A d \in Dirs : dirs'[d].there = dirs[d].there /\ dirs'[d].files = dirs[d].files,
         UNCHANGED <<cfg, type>>
  PROVE  LocksInv'
<1>1. ASSUME NEW d \in Dirs, NEW e \in Clients, owner'[d] = e
      PROVE  cfg'[e].dir = d /\ dirs'[d].there /\ HoldsLock(e)'
  <2>1. CASE d = cfg[c].dir
    <3>1. e = c
      BY <1>1, <2>1 DEF Types
    <3>2. pc'[c] = to
      BY DEF Goto, Types
    <3> QED
      BY <2>1, <3>1, <3>2 DEF Dir, HoldsLock, Locking
  <2>2. CASE d # cfg[c].dir
    <3>1. owner[d] = e
      BY <1>1, <2>2 DEF Types
    <3>2. HoldsLock(e)'
      BY <3>1 DEF LocksInv, HoldsLock, Goto, Locking, Types
    <3> QED
      BY <3>1, <3>2 DEF LocksInv
  <2> QED
    BY <2>1, <2>2
<1>2. ASSUME NEW e \in Clients, pc'[e] = "spin"
      PROVE  ~(Required(type'[e]) \subseteq dirs'[cfg'[e].dir].files)
  <2>1. pc[e] = "spin"
    BY <1>2 DEF Goto, Types
  <2>2. cfg[e].dir \in Dirs
    BY <2>1, HolderHasDir DEF HoldsLock, Locking
  <2> QED
    BY <2>1, <2>2 DEF LocksInv, Dir
<1> QED
  BY <1>1, <1>2 DEF LocksInv, Dir

\* A client that gives the lock of its directory back.
LEMMA GiveLocks ==
  ASSUME Inv, Types, LocksInv, NEW c \in Clients, NEW to \in {"tar", "done"}, Goto(c, to),
         HoldsLock(c), owner' = [owner EXCEPT ![cfg[c].dir] = Nobody],
         \A d \in Dirs : dirs'[d].there = dirs[d].there /\ dirs'[d].files = dirs[d].files,
         UNCHANGED <<cfg, type>>
  PROVE  LocksInv'
<1>0. Nobody \notin Clients /\ cfg[c].dir \in Dirs
  BY SpecialAssumption, HolderHasDir
<1>1. ASSUME NEW d \in Dirs, NEW e \in Clients, owner'[d] = e
      PROVE  cfg'[e].dir = d /\ dirs'[d].there /\ HoldsLock(e)'
  <2>1. owner[d] = e /\ d # cfg[c].dir
    BY <1>0, <1>1 DEF Types
  <2>2. cfg[e].dir = d /\ dirs[d].there /\ HoldsLock(e)
    BY <2>1 DEF LocksInv
  <2>3. pc'[e] = pc[e]
    BY <2>1, <2>2 DEF Goto, Types
  <2> QED
    BY <2>2, <2>3 DEF HoldsLock
<1>2. ASSUME NEW e \in Clients, pc'[e] = "spin"
      PROVE  ~(Required(type'[e]) \subseteq dirs'[cfg'[e].dir].files)
  <2>1. pc[e] = "spin"
    BY <1>2 DEF Goto, Types
  <2>2. cfg[e].dir \in Dirs
    BY <2>1, HolderHasDir DEF HoldsLock, Locking
  <2> QED
    BY <2>1, <2>2 DEF LocksInv, Dir
<1> QED
  BY <1>1, <1>2 DEF LocksInv, Dir

\* The endless loop is entered when a required file is missing.
LEMMA SpinLocks ==
  ASSUME Types, LocksInv, NEW c \in Clients, pc[c] = "arguments", Goto(c, "spin"),
         ~args_add_if_exists(c), UNCHANGED <<cfg, dirs, owner, type>>
  PROVE  LocksInv'
<1>1. ASSUME NEW e \in Clients PROVE HoldsLock(e) => HoldsLock(e)'
  BY DEF Goto, HoldsLock, Locking, Types
<1>2. ASSUME NEW e \in Clients, pc'[e] = "spin" PROVE e = c \/ pc[e] = "spin"
  BY <1>2 DEF Goto, Types
<1>3. \A d \in Dirs, e \in Clients :
        owner'[d] = e => cfg'[e].dir = d /\ dirs'[d].there /\ HoldsLock(e)'
  BY <1>1 DEF LocksInv
<1>4. \A e \in Clients : pc'[e] = "spin" => ~(Required(type'[e]) \subseteq dirs'[cfg'[e].dir].files)
  BY <1>2 DEF LocksInv, Dir, args_add_if_exists
<1> QED
  BY <1>3, <1>4 DEF LocksInv, Dir

\* Others change a directory only while it is free, and put no file back.
LEMMA AroundLocks ==
  ASSUME Inv, LocksInv, NEW g \in Dirs, IsFree(g),
         dirs'[g].files \subseteq dirs[g].files,
         \A d \in Dirs \ {g} : dirs'[d] = dirs[d],
         UNCHANGED <<cfg, owner, pc, type>>
  PROVE  LocksInv'
<1>0. Nobody \notin Clients
  BY SpecialAssumption
<1>1. ASSUME NEW d \in Dirs, NEW e \in Clients, owner'[d] = e
      PROVE  cfg'[e].dir = d /\ dirs'[d].there /\ HoldsLock(e)'
  <2>1. owner[d] = e /\ d # g
    BY <1>0, <1>1 DEF IsFree
  <2>2. cfg[e].dir = d /\ dirs[d].there /\ HoldsLock(e)
    BY <2>1 DEF LocksInv
  <2> QED
    BY <2>1, <2>2 DEF HoldsLock
<1>2. ASSUME NEW e \in Clients, pc'[e] = "spin"
      PROVE  ~(Required(type'[e]) \subseteq dirs'[cfg'[e].dir].files)
  <2>1. cfg[e].dir \in Dirs
    BY <1>2, HolderHasDir DEF HoldsLock, Locking
  <2>2. ~(Required(type[e]) \subseteq dirs[cfg[e].dir].files)
    BY <1>2 DEF LocksInv, Dir
  <2>3. dirs'[cfg[e].dir].files \subseteq dirs[cfg[e].dir].files
    BY <2>1
  <2> QED
    BY <2>2, <2>3
<1> QED
  BY <1>1, <1>2 DEF LocksInv, Dir

\* A client's step on the way to the archive and to the server.
LEMMA UploadStepLocks ==
  ASSUME Inv, LocksInv, NEW c \in Clients,
         \/ main(c) \/ get_settings(c) \/ get_sizes(c) \/ get_release_id(c) \/ check_package(c)
         \/ run_tar(c) \/ check_packed_size(c) \/ ask_yes_no(c) \/ post_header(c) \/ upload(c)
         \/ read_response(c)
  PROVE  LocksInv'
<1>0. Types
  BY DEF Inv
<1>1. ASSUME NEW s, NEW l, Ends(c, s, l) PROVE LocksInv'
  BY <1>0, <1>1, EndLocks
<1>2. ASSUME Unusable(c) \/ error_msg_and_die(c) PROVE LocksInv'
  BY <1>1, <1>2 DEF Unusable, error_msg_and_die
<1>3. ASSUME NEW to \in {"settings", "query", "sizes", "archive", "release", "package", "packed",
                         "ask", "post", "upload", "response", "poll"},
             Goto(c, to), ~HoldsLock(c), UNCHANGED <<cfg, dirs, owner>>,
             \A e \in Clients \ {c} : type'[e] = type[e]
      PROVE  LocksInv'
  BY <1>0, <1>3, PlainStepLocks
<1>4. CASE main(c)
  BY <1>2, <1>3, <1>4 DEF main, local, HoldsLock, Locking
<1>5. CASE get_settings(c)
  BY <1>2, <1>3, <1>5 DEF get_settings, HoldsLock, Locking
<1>6. CASE get_sizes(c)
  BY <1>0, <1>2, <1>3, <1>6 DEF get_sizes, HoldsLock, Locking, Types
<1>7. CASE get_release_id(c)
  BY <1>2, <1>3, <1>7 DEF get_release_id, local, HoldsLock, Locking
<1>8. CASE check_package(c)
  BY <1>2, <1>3, <1>8 DEF check_package, local, HoldsLock, Locking
<1>9. CASE run_tar(c)
  BY <1>2, <1>3, <1>9 DEF run_tar, Pack, HoldsLock, Locking
<1>10. CASE check_packed_size(c)
  BY <1>2, <1>3, <1>10 DEF check_packed_size, local, HoldsLock, Locking
<1>11. CASE ask_yes_no(c)
  BY <1>1, <1>3, <1>11 DEF ask_yes_no, HoldsLock, Locking
<1>12. CASE post_header(c)
  BY <1>1, <1>3, <1>12 DEF post_header, HoldsLock, Locking
<1>13. CASE upload(c)
  BY <1>2, <1>3, <1>13 DEF upload, HoldsLock, Locking
<1>14. CASE read_response(c)
  BY <1>1, <1>2, <1>3, <1>14 DEF read_response, HoldsLock, Locking
<1> QED
  BY <1>4, <1>5, <1>6, <1>7, <1>8, <1>9, <1>10, <1>11, <1>12, <1>13, <1>14

\* A client's step while it packs the directory.
LEMMA PackStepLocks ==
  ASSUME Inv, LocksInv, NEW c \in Clients, open_archive(c) \/ add_arguments(c)
  PROVE  LocksInv'
<1>0. Types /\ cfg[c] \in Config
  BY DEF Inv, Types
<1>1. ASSUME open_archive(c) PROVE LocksInv'
  <2>1. ASSUME NEW s, NEW l, Ends(c, s, l) PROVE LocksInv'
    BY <1>0, <2>1, EndLocks
  <2>2. CASE error_msg_and_die(c)
    BY <2>1, <2>2 DEF error_msg_and_die
  <2>3. ASSUME HasDir(c), Dir(c).there, owner' = [owner EXCEPT ![cfg[c].dir] = c],
               Goto(c, "arguments"), UNCHANGED <<cfg, dirs, type>>
        PROVE  LocksInv'
    <3>1. cfg[c].dir \in Dirs
      BY <1>0, <2>3 DEF HasDir, Config
    <3> QED
      BY <1>0, <2>3, <3>1, TakeLocks
  <2> QED
    BY <1>1, <2>1, <2>2, <2>3 DEF open_archive
<1>2. ASSUME add_arguments(c) PROVE LocksInv'
  <2>1. pc[c] = "arguments" /\ HoldsLock(c) /\ UNCHANGED <<cfg, dirs, type>>
    BY <1>2 DEF add_arguments, HoldsLock, Locking
  <2>2. CASE args_add_if_exists(c)
    <3>1. Goto(c, "tar") /\ owner' = [owner EXCEPT ![cfg[c].dir] = Nobody]
      BY <1>2, <2>2 DEF add_arguments
    <3> QED
      BY <1>0, <2>1, <3>1, GiveLocks
  <2>3. CASE ~args_add_if_exists(c)
    <3>1. Goto(c, "spin") /\ UNCHANGED owner
      BY <1>2, <2>3 DEF add_arguments
    <3> QED
      BY <1>0, <2>1, <2>3, <3>1, SpinLocks
  <2> QED
    BY <2>2, <2>3
<1> QED
  BY <1>1, <1>2

\* A client's step while it waits for the result and saves it.
LEMMA FetchStepLocks ==
  ASSUME Inv, LocksInv, NEW c \in Clients,
         \/ poll_status(c) \/ backtrace(c) \/ exploitable(c) \/ save_result(c)
         \/ save_exploitable(c) \/ retrace_failed(c) \/ run_query(c)
  PROVE  LocksInv'
<1>0. Types
  BY DEF Inv
<1>1. ASSUME NEW s, NEW l, Ends(c, s, l) PROVE LocksInv'
  BY <1>0, <1>1, EndLocks
<1>2. ASSUME Unusable(c) \/ error_msg_and_die(c) PROVE LocksInv'
  BY <1>1, <1>2 DEF Unusable, error_msg_and_die
<1>3. ASSUME NEW to \in {"poll", "backtrace", "log", "exploitable", "save"},
             Goto(c, to), ~HoldsLock(c), UNCHANGED <<cfg, dirs, owner, type>>
      PROVE  LocksInv'
  BY <1>0, <1>3, PlainStepLocks
<1>4. CASE poll_status(c)
  BY <1>2, <1>3, <1>4 DEF poll_status, local, HoldsLock, Locking
<1>5. CASE backtrace(c)
  BY <1>2, <1>3, <1>5 DEF backtrace, local, HoldsLock, Locking
<1>6. CASE exploitable(c)
  BY <1>2, <1>3, <1>6 DEF exploitable, HoldsLock, Locking
<1>7. ASSUME save_result(c) PROVE LocksInv'
  <2>1. cfg[c].dir \in Dirs
    <3>1. ChecksInv(c) /\ pc[c] = "save" /\ cfg[c] \in Config
      BY <1>0, <1>7 DEF save_result, Inv, ClientInv, Types
    <3> QED
      BY <3>1 DEF ChecksInv, Uploading, Fetching, HasDir, Config
  <2>2. ASSUME Dir(c).there PROVE LocksInv'
    <3>1. /\ Goto(c, "rate") /\ owner' = [owner EXCEPT ![cfg[c].dir] = c]
          /\ UNCHANGED <<cfg, type>>
      BY <1>7, <2>2 DEF save_result
    <3>2. \A d \in Dirs : dirs'[d].there = dirs[d].there /\ dirs'[d].files = dirs[d].files
      BY <1>0, <1>7, <2>1, <2>2 DEF save_result, Types, Saved
    <3> QED
      BY <1>0, <2>1, <2>2, <3>1, <3>2, TakeLocks
  <2> QED
    BY <1>2, <1>7, <2>2 DEF save_result
<1>8. ASSUME save_exploitable(c) PROVE LocksInv'
  <2>1. /\ HoldsLock(c) /\ Goto(c, "done") /\ owner' = [owner EXCEPT ![cfg[c].dir] = Nobody]
        /\ UNCHANGED <<cfg, type>>
    BY <1>8 DEF save_exploitable, HoldsLock, Goto
  <2>2. \A d \in Dirs : dirs'[d].there = dirs[d].there /\ dirs'[d].files = dirs[d].files
    BY <1>0, <1>8, <2>1, HolderHasDir DEF save_exploitable, Types, Saved
  <2> QED
    BY <1>0, <2>1, <2>2, GiveLocks
<1>9. CASE retrace_failed(c) \/ run_query(c)
  BY <1>1, <1>2, <1>9 DEF retrace_failed, run_query
<1> QED
  BY <1>4, <1>5, <1>6, <1>7, <1>8, <1>9

\* Every step keeps what is known of the locks.
LEMMA LocksInductive == Inv /\ LocksInv /\ [Next]_vars => LocksInv'
<1> SUFFICES ASSUME Inv, LocksInv, [Next]_vars PROVE LocksInv'
  OBVIOUS
<1>0. Types
  BY DEF Inv
<1>1. ASSUME NEW c \in Clients, Step(c) PROVE LocksInv'
  BY <1>1, UploadStepLocks, PackStepLocks, FetchStepLocks DEF Step
<1>2. ASSUME NEW c \in Clients, kill(c) PROVE LocksInv'
  BY <1>0, <1>2, EndLocks DEF kill
<1>3. ASSUME UNCHANGED <<cfg, dirs, owner, pc, type>> PROVE LocksInv'
  BY <1>3 DEF LocksInv, HoldsLock, Dir
<1>4. ASSUME NEW c \in Clients, serve_create(c) \/ finish_task(c) \/ drop_task(c) PROVE LocksInv'
  BY <1>3, <1>4 DEF serve_create, finish_task, drop_task
<1>5. ASSUME NEW d \in Dirs, delete_dir(d) PROVE LocksInv'
  <2>1. dirs'[d].files \subseteq dirs[d].files /\ \A g \in Dirs \ {d} : dirs'[g] = dirs[g]
    BY <1>0, <1>5 DEF delete_dir, Types, Saved
  <2> QED
    BY <1>5, <2>1, AroundLocks DEF delete_dir
<1>6. ASSUME NEW d \in Dirs, NEW f \in Removable, remove_file(d, f) PROVE LocksInv'
  <2>1. dirs'[d].files \subseteq dirs[d].files /\ \A g \in Dirs \ {d} : dirs'[g] = dirs[g]
    BY <1>0, <1>6 DEF remove_file, Types, Saved
  <2> QED
    BY <1>6, <2>1, AroundLocks DEF remove_file
<1>7. CASE UNCHANGED vars
  BY <1>3, <1>7 DEF vars
<1> QED
  BY <1>1, <1>2, <1>4, <1>5, <1>6, <1>7 DEF Next

(* Whoever waits in dd_opendir() for a directory waits for a client that   *)
(* is packing it or saving a result in it and gives it back, or for one in *)
(* the endless loop of create_archive(): what ClientEnds rests on.         *)
THEOREM LockGivenBack == Spec => []LockIsWorkedFor
<1>1. Init => LocksInv
  <2> SUFFICES ASSUME Init PROVE LocksInv
    OBVIOUS
  <2>1. \A d \in Dirs : owner[d] \notin Clients
    BY SpecialAssumption DEF Init
  <2>2. \A c \in Clients : pc[c] = "main"
    BY DEF Init
  <2> QED
    BY <2>1, <2>2 DEF LocksInv
<1>2. Inv /\ LocksInv => LockIsWorkedFor
  <2> SUFFICES ASSUME Inv, LocksInv, NEW d \in Dirs, ~IsFree(d)
               PROVE  \/ Stuck(d)
                      \/ \E c \in Clients : /\ owner[d] = c /\ cfg[c].dir = d /\ dirs[d].there
                                            /\ pc[c] \in {"arguments", "rate"}
    BY DEF LockIsWorkedFor
  <2>1. PICK c \in Clients : owner[d] = c
    BY DEF IsFree, Inv, Types
  <2>2. cfg[c].dir = d /\ dirs[d].there /\ HoldsLock(c)
    BY <2>1 DEF LocksInv
  <2>3. CASE pc[c] = "spin"
    BY <2>2, <2>3 DEF LocksInv, Stuck, Dir
  <2>4. CASE pc[c] # "spin"
    BY <2>1, <2>2, <2>4 DEF HoldsLock, Locking
  <2> QED
    BY <2>3, <2>4
<1>3. Inv /\ LocksInv /\ [Next]_vars => LocksInv'
  BY LocksInductive
<1> QED
  BY <1>1, <1>2, <1>3, Invariance, PTL DEF Spec
=============================================================================
