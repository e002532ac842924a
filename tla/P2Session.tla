------------------------------ MODULE P2Session ------------------------------
(***************************************************************************)
(* Sessions of the problems2 D-Bus service: abrt_problems2_session.c and   *)
(* the session objects of abrt_problems2_service.c.  A client has at most  *)
(* one session and never comes back under the same bus name.  The service  *)
(* is one thread: every action below is one callback of its main loop, and *)
(* polkit answers a request in a later one.  Unregistering a D-Bus object  *)
(* frees it in a later iteration too.  A polkit request is                 *)
(* a struct check_auth_cb_params; its memory is reused once its callback   *)
(* ran.  Tasks of a session are in P2Task.                                 *)
(***************************************************************************)
EXTENDS Naturals, FiniteSets

CONSTANTS
    Clients, Uid,       \* bus names and their users
    Requests, NoRequest,
    Tokens, NoClient,
    Root,
    ClientsLimit,       \* p2srv_limit_clients
    Durations,          \* that clients ask for
    DefaultDuration,
    MaxTime             \* bound of the clock

ASSUME NoOneAssumption == NoRequest \notin Requests /\ NoClient \notin Clients
ASSUME FiniteAssumption == IsFiniteSet(Clients)
ASSUME LimitAssumption ==
    /\ ClientsLimit \in Nat /\ MaxTime \in Nat
    /\ Durations \subseteq Nat /\ DefaultDuration \in Nat \ {0}

VARIABLES
    conn,       \* of the client to the bus: "on", "off"
    object,     \* of its session: "none", "registered", "unregistered", "freed"
    state,      \* p2s_state
    auth_rq,    \* p2s_auth_rq
    rq,         \* the requests: live, the session to tell, cancelled
    token,      \* p2s_tokens of all sessions: owner, expiry
    spent,      \* tokens that were generated, history
    signal,     \* the last AuthorizationChanged a client got
    granted,    \* users polkit granted an authorization to, history
    now

sessionVars == <<object, state, auth_rq, signal>>
tokenVars == <<token, spent>>
vars == <<conn, sessionVars, rq, tokenVars, granted, now>>

Free == [live |-> FALSE, session |-> NoClient, cancelled |-> FALSE]
NoToken == [owner |-> NoClient, expire |-> 0]

\* Sessions in the list of their user.
Listed(c) == object[c] \in {"registered", "unregistered"}
Peers(u) == {c \in Clients : Listed(c) /\ Uid[c] = u}
-----------------------------------------------------------------------------
\* What a client is told of a change of state.
SignalOf(old, new) ==
    CASE new = "PENDING"                  -> "PENDING"
      [] new = "AUTH"                     -> "AUTHORIZED"
      [] old = "AUTH" /\ new = "INIT"     -> "NOT_AUTHORIZED"
      [] old = "PENDING" /\ new = "INIT"  -> "FAILED"

\* Mutant: the failure of a request is not announced.
ChangeSilently(c, new) ==
    /\ state' = [state EXCEPT ![c] = new]
    /\ signal' = IF state[c] = new \/ new = "INIT" THEN signal
                 ELSE [signal EXCEPT ![c] = SignalOf(state[c], new)]

\* AUTH to PENDING is the forgotten state of the code; nothing asks for it.
change_state(c, new) ==
    /\ state' = [state EXCEPT ![c] = new]
    /\ signal' = IF state[c] = new THEN signal
                 ELSE [signal EXCEPT ![c] = SignalOf(state[c], new)]

\* The first call of a client makes its session.  At the limit the call fails.
session_object_register(c) ==
    /\ object[c] = "none"
    /\ Cardinality(Peers(Uid[c])) < ClientsLimit
    /\ object' = [object EXCEPT ![c] = "registered"]
    /\ state' = [state EXCEPT ![c] = IF Uid[c] = Root THEN "AUTH" ELSE "INIT"]
    /\ UNCHANGED <<conn, auth_rq, rq, tokenVars, signal, granted, now>>

\* Authorize without a token: ask polkit, and return before it answers.
authorization_request_initialize(c) ==
    /\ state[c] = "INIT"
    /\ \E r \in Requests :
        /\ ~rq[r].live
        /\ rq' = [rq EXCEPT ![r] = [live |-> TRUE, session |-> c, cancelled |-> FALSE]]
        /\ auth_rq' = [auth_rq EXCEPT ![c] = r]
    /\ change_state(c, "PENDING")
    /\ UNCHANGED <<conn, object, tokenVars, granted, now>>

\* Mutant: the expiry is not looked at.
TokenForEver(c, p, t) ==
    /\ state[p] = "AUTH" /\ Uid[p] = Uid[c] /\ token[t].owner = p

\* The conditions of abrt_p2_session_authorize_peer_with_token().
TokenAccepted(c, p, t) ==
    /\ state[p] = "AUTH"
    /\ Uid[p] = Uid[c]
    /\ token[t].owner = p
    /\ now <= token[t].expire

\* abrt_p2_session_grant_authorization() finds the session in INIT: Authorize goes
\* no further in the other states.
grant_authorization(c) == state[c] = "INIT" /\ change_state(c, "AUTH")

\* Authorize with a token of a peer, which is a listed session of the same user.
authorize_peer_with_token(c, p, t) ==
    /\ p \in Peers(Uid[c])
    /\ TokenAccepted(c, p, t)
    /\ token' = [token EXCEPT ![t] = NoToken]
    /\ grant_authorization(c)
    /\ UNCHANGED <<conn, object, auth_rq, rq, spent, granted, now>>

\* g_cancellable_cancel() on the request that is under way.
Cancelled(c) ==
    IF state[c] = "PENDING" THEN [rq EXCEPT ![auth_rq[c]].cancelled = TRUE] ELSE rq

\* abrt_p2_session_revoke_authorization() has no effect for root.
Revoke(c) ==
    IF Uid[c] = Root \/ state[c] = "INIT" THEN UNCHANGED <<state, signal>>
    ELSE change_state(c, "INIT")

RevokeAuthorization(c) ==
    /\ Revoke(c)
    /\ rq' = Cancelled(c)
    /\ UNCHANGED <<conn, object, auth_rq, tokenVars, granted, now>>

\* The strings are random: a token is new.
generate_token(c, duration) ==
    /\ state[c] = "AUTH"
    /\ \E t \in Tokens \ spent :
        /\ token' = [token EXCEPT ![t] = [owner  |-> c,
                                          expire |-> now + (IF duration = 0 THEN DefaultDuration ELSE duration)]]
        /\ spent' = spent \cup {t}
    /\ UNCHANGED <<conn, sessionVars, rq, granted, now>>

revoke_token(c, t) ==
    /\ token[t].owner = c
    /\ token' = [token EXCEPT ![t] = NoToken]
    /\ UNCHANGED <<conn, sessionVars, rq, spent, granted, now>>

\* Only the client of a session gets past check_sanity().
check_sanity(c) == conn[c] = "on" /\ object[c] = "registered"

\* A method of the session object of c.
session_object_dbus_method_call(c) ==
    /\ check_sanity(c)
    /\ \/ authorization_request_initialize(c)
       \/ \E p \in Clients, t \in Tokens : authorize_peer_with_token(c, p, t)
       \/ RevokeAuthorization(c)
       \/ \E d \in Durations : generate_token(c, d)
       \/ \E t \in Tokens : revoke_token(c, t)
-----------------------------------------------------------------------------
\* Mutant: an answer that is not "authorized" only clears p2s_auth_rq.
RefusalNotTold(r, new) ==
    LET c == rq[r].session IN
    IF c = NoClient THEN UNCHANGED <<state, signal, auth_rq>>
    ELSE /\ IF new = "AUTH" THEN change_state(c, new) ELSE UNCHANGED <<state, signal>>
         /\ auth_rq' = [auth_rq EXCEPT ![c] = NoRequest]

\* The end of check_authorization_callback(): the session may have been told to
\* be left alone (its pointer is NULL).  The answer to a superseded request of a
\* session that is freed writes to freed memory: what that does to other objects is
\* left out.
TellSession(r, new) ==
    LET c == rq[r].session IN
    IF c = NoClient THEN UNCHANGED <<state, signal, auth_rq>>
    ELSE IF object[c] = "freed"
    THEN UNCHANGED <<state, signal, auth_rq>>
    ELSE /\ change_state(c, new)
         /\ auth_rq' = [auth_rq EXCEPT ![c] = NoRequest]

\* Mutant: every answer without an error counts as a grant.
AnyAnswerGrants(r) ==
    /\ rq[r].live
    /\ \E granting \in BOOLEAN :
        /\ TellSession(r, IF rq[r].cancelled THEN "INIT" ELSE "AUTH")
        /\ granted' = IF granting THEN granted \cup {Uid[c] : c \in {rq[r].session} \cap Clients}
                       ELSE granted
    /\ rq' = [rq EXCEPT ![r] = Free]
    /\ UNCHANGED <<conn, object, tokenVars, now>>

\* polkit is external: it answers what it likes, but a request that was cancelled
\* ends in an error.
check_authorization_callback(r) ==
    /\ rq[r].live
    /\ \/ /\ ~rq[r].cancelled
          /\ TellSession(r, "AUTH")
          /\ granted' = granted \cup {Uid[c] : c \in {rq[r].session} \cap Clients}
       \/ /\ TellSession(r, "INIT")
          /\ UNCHANGED granted
    /\ rq' = [rq EXCEPT ![r] = Free]
    /\ UNCHANGED <<conn, object, tokenVars, now>>

\* The bus tells that a client is gone: its session object is unregistered.
on_g_signal(c) ==
    /\ conn[c] = "off" /\ object[c] = "registered"
    /\ object' = [object EXCEPT ![c] = "unregistered"]
    /\ UNCHANGED <<conn, state, auth_rq, signal, rq, tokenVars, granted, now>>

\* abrt_p2_session_finalize(): only the request in p2s_auth_rq is told that the
\* session goes away.
Finalized(c, requests) ==
    IF auth_rq[c] = NoRequest THEN requests
    ELSE [requests EXCEPT ![auth_rq[c]].session = NoClient]

\* The object is freed: authorization revoked, session unlisted and finalized.
session_object_destructor(c) ==
    /\ object[c] = "unregistered"
    /\ object' = [object EXCEPT ![c] = "freed"]
    /\ Revoke(c)
    /\ rq' = Finalized(c, Cancelled(c))
    /\ token' = [t \in Tokens |-> IF token[t].owner = c THEN NoToken ELSE token[t]]
    /\ UNCHANGED <<conn, auth_rq, spent, granted, now>>
-----------------------------------------------------------------------------
\* The client leaves the bus.
Disconnect(c) ==
    /\ conn[c] = "on"
    /\ conn' = [conn EXCEPT ![c] = "off"]
    /\ UNCHANGED <<sessionVars, rq, tokenVars, granted, now>>

Tick ==
    /\ now < MaxTime
    /\ now' = now + 1
    /\ UNCHANGED <<conn, sessionVars, rq, tokenVars, granted>>

Init ==
    /\ conn = [c \in Clients |-> "on"]
    /\ object = [c \in Clients |-> "none"]
    /\ state = [c \in Clients |-> "INIT"]
    /\ auth_rq = [c \in Clients |-> NoRequest]
    /\ rq = [r \in Requests |-> Free]
    /\ token = [t \in Tokens |-> NoToken]
    /\ spent = {}
    /\ signal = [c \in Clients |-> "none"]
    /\ granted = {}
    /\ now = 0

Call(c) ==
    \/ conn[c] = "on" /\ session_object_register(c)
    \/ session_object_dbus_method_call(c)

MainLoop ==
    \/ \E r \in Requests : check_authorization_callback(r)
    \/ \E c \in Clients : on_g_signal(c) \/ session_object_destructor(c)

Next ==
    \/ \E c \in Clients : Call(c) \/ Disconnect(c)
    \/ MainLoop
    \/ Tick

Spec == Init /\ [][Next]_vars
-----------------------------------------------------------------------------
TypeOK ==
    /\ conn \in [Clients -> {"on", "off"}]
    /\ object \in [Clients -> {"none", "registered", "unregistered", "freed"}]
    /\ state \in [Clients -> {"INIT", "PENDING", "AUTH"}]
    /\ auth_rq \in [Clients -> Requests \cup {NoRequest}]
    /\ rq \in [Requests -> [live : BOOLEAN, session : Clients \cup {NoClient}, cancelled : BOOLEAN]]
    /\ token \in [Tokens -> [owner : Clients \cup {NoClient}, expire : Nat]]
    /\ spent \subseteq Tokens
    /\ signal \in [Clients -> {"none", "PENDING", "AUTHORIZED", "NOT_AUTHORIZED", "FAILED"}]
    /\ granted \subseteq {Uid[c] : c \in Clients}
    /\ now \in Nat

\* revoke and grant use p2s_auth_rq->cancellable of a pending session without a
\* test (abrt_problems2_session.c:524, 546): a pending session has a request that
\* polkit still has and that was not cancelled, whatever stale answers came in.
PendingHasRequest ==
    \A c \in Clients :
        state[c] = "PENDING" =>
            /\ auth_rq[c] \in Requests
            /\ rq[auth_rq[c]].live /\ ~rq[auth_rq[c]].cancelled
            /\ rq[auth_rq[c]].session = c

\* However tokens are passed on and whenever polkit answers, a session of a user
\* other than root is authorized only if polkit once granted it to that user.
NoElevation ==
    \A c \in Clients :
        state[c] = "AUTH" /\ Uid[c] # Root => Uid[c] \in granted

\* The last AuthorizationChanged signal tells a client the state of its session:
\* no step of any callback changes it silently.
SignalTells ==
    \A c \in Clients :
        Uid[c] # Root =>
            /\ state[c] = "AUTH" <=> signal[c] = "AUTHORIZED"
            /\ state[c] = "PENDING" <=> signal[c] = "PENDING"

\* A user never has more sessions than the limit, sessions of clients that left
\* and are not freed yet included.
SessionsLimited ==
    \A c \in Clients : Cardinality(Peers(Uid[c])) <= ClientsLimit

\* A session becomes authorized by the answer to a request of its own that was
\* not cancelled, or by a token: unexpired, of an authorized session of the same
\* user, and gone after the step.
GrantJustified ==
    [][\A c \in Clients :
        state[c] # "AUTH" /\ state'[c] = "AUTH" =>
            \/ object[c] = "none"
            \/ \E r \in Requests : /\ rq[r].live /\ ~rq[r].cancelled /\ rq[r].session = c
                                  /\ ~rq'[r].live
            \/ \E t \in Tokens : /\ token[t].owner \in Clients
                                /\ state[token[t].owner] = "AUTH"
                                /\ Uid[token[t].owner] = Uid[c]
                                /\ now <= token[t].expire
                                /\ token'[t].owner = NoClient]_vars
=============================================================================
