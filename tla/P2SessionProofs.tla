--------------------------- MODULE P2SessionProofs ---------------------------
(***************************************************************************)
(* Sessions, for any number of clients, users, requests and tokens: no     *)
(* order of calls, answers of polkit and departures authorizes a user that *)
(* polkit never granted it to, leaves a pending session without its        *)
(* request, hides a change from a client or passes the limit of sessions.  *)
(***************************************************************************)
EXTENDS P2Session, FiniteSetTheorems, TLAPS

\* Sessions of root are authorized from the start and ask for nothing.
RootInv ==
    \A c \in Clients :
        Uid[c] = Root => state[c] = IF object[c] = "none" THEN "INIT" ELSE "AUTH"

\* A session that does not exist yet has no state.
FreshInv ==
    \A c \in Clients : object[c] = "none" => state[c] = "INIT" /\ auth_rq[c] = NoRequest

\* Whom the answer to a request can reach.
RequestInv ==
    \A r \in Requests, c \in Clients :
        rq[r].session = c => rq[r].live /\ Uid[c] # Root /\ object[c] # "none"

\* p2s_auth_rq of a session in memory is a request in memory and points back.
LinkInv ==
    \A c \in Clients :
        object[c] # "freed" /\ auth_rq[c] # NoRequest =>
            rq[auth_rq[c]].live /\ rq[auth_rq[c]].session = c

\* A freed session was taken out of PENDING.
FreedInv == \A c \in Clients : object[c] = "freed" => state[c] # "PENDING"

Inv ==
    /\ TypeOK /\ RootInv /\ FreshInv /\ RequestInv /\ LinkInv /\ FreedInv
    /\ PendingHasRequest /\ NoElevation /\ SignalTells

\* What change_state() does to the types and to the signals.
LEMMA ChangeState ==
    ASSUME TypeOK, NEW c \in Clients, NEW new \in {"INIT", "PENDING", "AUTH"},
           state[c] = "AUTH" => new # "PENDING",
           change_state(c, new)
    PROVE  /\ state' = [state EXCEPT ![c] = new]
           /\ signal' \in [Clients -> {"none", "PENDING", "AUTHORIZED", "NOT_AUTHORIZED", "FAILED"}]
           /\ \A d \in Clients \ {c} : signal'[d] = signal[d]
           /\ state[c] = new => signal'[c] = signal[c]
           /\ state[c] # new /\ new = "AUTH" => signal'[c] = "AUTHORIZED"
           /\ state[c] # new /\ new = "PENDING" => signal'[c] = "PENDING"
           /\ state[c] # new /\ new = "INIT" => signal'[c] \in {"NOT_AUTHORIZED", "FAILED"}
<1>1. state[c] \in {"INIT", "PENDING", "AUTH"}
  BY DEF TypeOK
<1>2. CASE state[c] = new
  BY <1>2 DEF change_state, TypeOK
<1>3. CASE state[c] # new
  <2>1. signal' = [signal EXCEPT ![c] = SignalOf(state[c], new)]
    BY <1>3 DEF change_state
  <2>2. /\ SignalOf(state[c], new) \in {"PENDING", "AUTHORIZED", "NOT_AUTHORIZED", "FAILED"}
        /\ new = "AUTH" => SignalOf(state[c], new) = "AUTHORIZED"
        /\ new = "PENDING" => SignalOf(state[c], new) = "PENDING"
        /\ new = "INIT" => SignalOf(state[c], new) \in {"NOT_AUTHORIZED", "FAILED"}
    BY <1>1, <1>3 DEF SignalOf
  <2> QED
    BY <1>3, <2>1, <2>2 DEF change_state, TypeOK
<1> QED
  BY <1>2, <1>3

\* A new service has no session, request or token that could point anywhere.
LEMMA InitInv == Init => Inv
<1> SUFFICES ASSUME Init PROVE Inv
  OBVIOUS
<1>1. TypeOK
  BY DEF Init, TypeOK, Free, NoToken
<1>2. RootInv /\ FreshInv /\ LinkInv /\ FreedInv /\ PendingHasRequest /\ NoElevation /\ SignalTells
  BY DEF Init, RootInv, FreshInv, LinkInv, FreedInv, PendingHasRequest, NoElevation, SignalTells
<1>3. RequestInv
  BY NoOneAssumption DEF Init, RequestInv, Free
<1> QED
  BY <1>1, <1>2, <1>3 DEF Inv

\* A new session has no request, and only one of root is authorized at once.
LEMMA RegisterInv ==
    ASSUME Inv, NEW c \in Clients, session_object_register(c)
    PROVE  Inv'
<1> USE DEF session_object_register, tokenVars
<1>1. TypeOK'
  BY DEF Inv, TypeOK
<1>2. RootInv' /\ FreshInv' /\ LinkInv' /\ FreedInv'
  BY DEF Inv, TypeOK, RootInv, FreshInv, LinkInv, FreedInv
<1>3. RequestInv'
  BY DEF Inv, TypeOK, RequestInv
<1>4. PendingHasRequest' /\ NoElevation' /\ SignalTells'
  BY DEF Inv, TypeOK, FreshInv, PendingHasRequest, NoElevation, SignalTells
<1> QED
  BY <1>1, <1>2, <1>3, <1>4 DEF Inv

\* A new request and its session point to each other.
LEMMA RequestStepInv ==
    ASSUME Inv, NEW c \in Clients, check_sanity(c), authorization_request_initialize(c)
    PROVE  Inv'
<1>1. PICK r \in Requests :
        /\ ~rq[r].live
        /\ rq' = [rq EXCEPT ![r] = [live |-> TRUE, session |-> c, cancelled |-> FALSE]]
        /\ auth_rq' = [auth_rq EXCEPT ![c] = r]
  BY DEF authorization_request_initialize
<1>2. state[c] = "INIT" /\ object[c] = "registered" /\ Uid[c] # Root
  BY DEF authorization_request_initialize, check_sanity, Inv, RootInv
<1>3. UNCHANGED <<conn, object, token, spent, granted, now>>
  BY DEF authorization_request_initialize, tokenVars
<1>4. /\ state' = [state EXCEPT ![c] = "PENDING"]
      /\ signal' \in [Clients -> {"none", "PENDING", "AUTHORIZED", "NOT_AUTHORIZED", "FAILED"}]
      /\ \A d \in Clients \ {c} : signal'[d] = signal[d]
      /\ signal'[c] = "PENDING"
  BY <1>2, ChangeState DEF authorization_request_initialize, Inv
<1>5. TypeOK'
  BY <1>1, <1>3, <1>4 DEF Inv, TypeOK
<1>6. RootInv' /\ FreshInv' /\ FreedInv' /\ NoElevation' /\ SignalTells'
  BY <1>1, <1>2, <1>3, <1>4
     DEF Inv, TypeOK, RootInv, FreshInv, FreedInv, NoElevation, SignalTells
<1>7. RequestInv'
  BY <1>1, <1>2, <1>3 DEF Inv, TypeOK, RequestInv
<1>8. LinkInv'
  <2> SUFFICES ASSUME NEW d \in Clients, object'[d] # "freed", auth_rq'[d] # NoRequest
               PROVE  rq'[auth_rq'[d]].live /\ rq'[auth_rq'[d]].session = d
    BY DEF LinkInv
  <2>1. CASE d = c
    BY <1>1, <2>1 DEF Inv, TypeOK
  <2>2. CASE d # c
    <3>1. auth_rq'[d] = auth_rq[d] /\ auth_rq[d] \in Requests
      BY <1>1, <2>2 DEF Inv, TypeOK
    <3>2. rq[auth_rq[d]].live /\ rq[auth_rq[d]].session = d
      BY <1>3, <3>1 DEF Inv, LinkInv
    <3>3. rq'[auth_rq[d]] = rq[auth_rq[d]]
      BY <1>1, <3>1, <3>2 DEF Inv, TypeOK
    <3> QED
      BY <3>1, <3>2, <3>3
  <2> QED
    BY <2>1, <2>2
<1>9. PendingHasRequest'
  BY <1>1, <1>3, <1>4 DEF Inv, TypeOK, PendingHasRequest
<1> QED
  BY <1>5, <1>6, <1>7, <1>8, <1>9 DEF Inv

\* A token of a session of the same user authorizes a session.
LEMMA TokenStepInv ==
    ASSUME Inv, NEW c \in Clients, NEW p \in Clients, NEW t \in Tokens,
           check_sanity(c), authorize_peer_with_token(c, p, t)
    PROVE  Inv'
<1>1. state[c] = "INIT" /\ object[c] = "registered" /\ Uid[c] # Root
  BY DEF authorize_peer_with_token, grant_authorization, check_sanity, Inv, RootInv
<1>2. /\ UNCHANGED <<conn, object, auth_rq, rq, spent, granted, now>>
      /\ token' = [token EXCEPT ![t] = NoToken]
  BY DEF authorize_peer_with_token
<1>3. /\ state' = [state EXCEPT ![c] = "AUTH"]
      /\ signal' \in [Clients -> {"none", "PENDING", "AUTHORIZED", "NOT_AUTHORIZED", "FAILED"}]
      /\ \A d \in Clients \ {c} : signal'[d] = signal[d]
      /\ signal'[c] = "AUTHORIZED"
  BY <1>1, ChangeState DEF authorize_peer_with_token, grant_authorization, Inv
<1>4. TypeOK'
  BY <1>2, <1>3 DEF Inv, TypeOK, NoToken
<1>5. RootInv' /\ FreshInv' /\ FreedInv' /\ SignalTells'
  BY <1>1, <1>2, <1>3 DEF Inv, TypeOK, RootInv, FreshInv, FreedInv, SignalTells
<1>6. RequestInv' /\ LinkInv' /\ PendingHasRequest'
  BY <1>1, <1>2, <1>3 DEF Inv, TypeOK, RequestInv, LinkInv, PendingHasRequest
<1>7. Uid[c] \in granted
  BY <1>1 DEF Inv, NoElevation, authorize_peer_with_token, TokenAccepted
<1>8. NoElevation'
  BY <1>2, <1>3, <1>7 DEF Inv, TypeOK, NoElevation
<1> QED
  BY <1>4, <1>5, <1>6, <1>8 DEF Inv

Request == [live : BOOLEAN, session : Clients \cup {NoClient}, cancelled : BOOLEAN]

\* What Cancelled(c) leaves of the requests.
LEMMA CancelledRequests ==
    ASSUME Inv, NEW c \in Clients
    PROVE  /\ Cancelled(c) \in [Requests -> Request]
           /\ \A r \in Requests : /\ Cancelled(c)[r].live <=> rq[r].live
                                  /\ Cancelled(c)[r].session = rq[r].session
                                  /\ rq[r].session # c => Cancelled(c)[r] = rq[r]
<1>0. rq \in [Requests -> Request]
  BY DEF Inv, TypeOK, Request
<1>1. CASE state[c] = "PENDING"
  <2> DEFINE q == auth_rq[c]
             new == [rq[q] EXCEPT !.cancelled = TRUE]
  <2>1. q \in Requests /\ rq[q].session = c
    BY <1>1 DEF Inv, PendingHasRequest
  <2>2. Cancelled(c) = [rq EXCEPT ![q] = new]
    BY <1>1 DEF Cancelled
  <2>3. new \in Request /\ (new.live <=> rq[q].live) /\ new.session = rq[q].session
    BY <1>0, <2>1 DEF Request
  <2> HIDE DEF new, q
  <2>4. [rq EXCEPT ![q] = new] \in [Requests -> Request]
    BY <1>0, <2>1, <2>3
  <2>5. ASSUME NEW r \in Requests
        PROVE  /\ Cancelled(c)[r].live <=> rq[r].live
               /\ Cancelled(c)[r].session = rq[r].session
               /\ rq[r].session # c => Cancelled(c)[r] = rq[r]
    <3>1. CASE r = q
      BY <1>0, <2>1, <2>2, <2>3, <3>1
    <3>2. CASE r # q
      BY <1>0, <2>1, <2>2, <3>2
    <3> QED
      BY <3>1, <3>2
  <2> QED
    BY <2>2, <2>4, <2>5
<1>2. CASE state[c] # "PENDING"
  BY <1>0, <1>2 DEF Cancelled
<1> QED
  BY <1>1, <1>2

\* What Revoke(c) does to a session, in whatever state it is.
LEMMA RevokeState ==
    ASSUME Inv, NEW c \in Clients, object[c] # "none", Revoke(c)
    PROVE  /\ state' \in [Clients -> {"INIT", "PENDING", "AUTH"}]
           /\ signal' \in [Clients -> {"none", "PENDING", "AUTHORIZED", "NOT_AUTHORIZED", "FAILED"}]
           /\ \A d \in Clients \ {c} : state'[d] = state[d] /\ signal'[d] = signal[d]
           /\ Uid[c] = Root => state'[c] = state[c] /\ state[c] = "AUTH"
           /\ Uid[c] # Root => /\ state'[c] = "INIT"
                               /\ signal'[c] \notin {"AUTHORIZED", "PENDING"}
<1>1. CASE Uid[c] = Root
  BY <1>1 DEF Revoke, Inv, TypeOK, RootInv
<1>2. CASE Uid[c] # Root /\ state[c] = "INIT"
  BY <1>2 DEF Revoke, Inv, TypeOK, SignalTells
<1>3. CASE Uid[c] # Root /\ state[c] # "INIT"
  <2>1. change_state(c, "INIT")
    BY <1>3 DEF Revoke
  <2>2. /\ state' = [state EXCEPT ![c] = "INIT"]
        /\ signal' \in [Clients -> {"none", "PENDING", "AUTHORIZED", "NOT_AUTHORIZED", "FAILED"}]
        /\ \A d \in Clients \ {c} : signal'[d] = signal[d]
        /\ signal'[c] \in {"NOT_AUTHORIZED", "FAILED"}
    BY <1>3, <2>1, ChangeState DEF Inv
  <2> QED
    BY <1>3, <2>2 DEF Inv, TypeOK
<1> QED
  BY <1>1, <1>2, <1>3

\* RevokeAuthorization() takes a session out of PENDING and cancels its request.
LEMMA RevokeStepInv ==
    ASSUME Inv, NEW c \in Clients, check_sanity(c), RevokeAuthorization(c)
    PROVE  Inv'
<1>1. UNCHANGED <<conn, object, auth_rq, token, spent, granted, now>> /\ rq' = Cancelled(c)
  BY DEF RevokeAuthorization, tokenVars
<1>2. object[c] = "registered"
  BY DEF check_sanity
<1>3. /\ state' \in [Clients -> {"INIT", "PENDING", "AUTH"}]
      /\ signal' \in [Clients -> {"none", "PENDING", "AUTHORIZED", "NOT_AUTHORIZED", "FAILED"}]
      /\ \A d \in Clients \ {c} : state'[d] = state[d] /\ signal'[d] = signal[d]
      /\ Uid[c] = Root => state'[c] = state[c] /\ state[c] = "AUTH"
      /\ Uid[c] # Root => /\ state'[c] = "INIT"
                          /\ signal'[c] \notin {"AUTHORIZED", "PENDING"}
  BY <1>2, RevokeState DEF RevokeAuthorization
<1>4. /\ rq' \in [Requests -> Request]
      /\ \A r \in Requests : /\ rq'[r].live <=> rq[r].live
                             /\ rq'[r].session = rq[r].session
                             /\ rq[r].session # c => rq'[r] = rq[r]
  BY <1>1, CancelledRequests
<1>5. TypeOK'
  BY <1>1, <1>3, <1>4 DEF Inv, TypeOK, Request
<1>6. RootInv' /\ FreshInv' /\ FreedInv' /\ NoElevation' /\ SignalTells'
  BY <1>1, <1>2, <1>3 DEF Inv, TypeOK, RootInv, FreshInv, FreedInv, NoElevation, SignalTells
<1>7. RequestInv' /\ LinkInv'
  <2>1. ASSUME NEW r \in Requests, NEW d \in Clients, rq'[r].session = d
        PROVE  rq'[r].live /\ Uid[d] # Root /\ object'[d] # "none"
    <3>1. rq[r].session = d
      BY <1>1, <1>4, <2>1
    <3>2. rq[r].live /\ Uid[d] # Root /\ object[d] # "none"
      BY <3>1 DEF Inv, RequestInv
    <3> QED
      BY <1>1, <1>4, <3>2
  <2>2. ASSUME NEW d \in Clients, object'[d] # "freed", auth_rq'[d] # NoRequest
        PROVE  rq'[auth_rq'[d]].live /\ rq'[auth_rq'[d]].session = d
    <3>1. auth_rq'[d] = auth_rq[d] /\ auth_rq[d] \in Requests
      BY <1>1, <2>2 DEF Inv, TypeOK
    <3>2. rq[auth_rq[d]].live /\ rq[auth_rq[d]].session = d
      BY <1>1, <2>2 DEF Inv, LinkInv
    <3> QED
      BY <1>1, <1>4, <3>1, <3>2
  <2> QED
    BY <2>1, <2>2 DEF RequestInv, LinkInv
<1>8. PendingHasRequest'
  <2> SUFFICES ASSUME NEW d \in Clients, state'[d] = "PENDING"
               PROVE  /\ auth_rq'[d] \in Requests
                      /\ rq'[auth_rq'[d]].live /\ ~rq'[auth_rq'[d]].cancelled
                      /\ rq'[auth_rq'[d]].session = d
    BY DEF PendingHasRequest
  <2>1. d # c /\ state[d] = "PENDING"
    BY <1>3
  <2>2. /\ auth_rq[d] \in Requests
        /\ rq[auth_rq[d]].live /\ ~rq[auth_rq[d]].cancelled /\ rq[auth_rq[d]].session = d
    BY <2>1 DEF Inv, PendingHasRequest
  <2>3. rq[auth_rq[d]].session # c
    BY <2>1, <2>2
  <2>4. auth_rq'[d] = auth_rq[d] /\ rq'[auth_rq[d]] = rq[auth_rq[d]]
    BY <1>1, <1>4, <2>2, <2>3
  <2> QED
    BY <2>2, <2>4
<1> QED
  BY <1>5, <1>6, <1>7, <1>8 DEF Inv

\* Making and revoking tokens touches no session and no request.
LEMMA TokensInv ==
    ASSUME Inv, NEW c \in Clients,
           (\E d \in Durations : generate_token(c, d)) \/ (\E t \in Tokens : revoke_token(c, t))
    PROVE  Inv'
<1>1. /\ UNCHANGED <<conn, object, state, auth_rq, signal, rq, granted, now>>
      /\ token' \in [Tokens -> [owner : Clients \cup {NoClient}, expire : Nat]]
      /\ spent' \subseteq Tokens
  <2>1. ASSUME NEW d \in Durations, generate_token(c, d)
        PROVE  <1>1!1 /\ <1>1!2 /\ <1>1!3
    <3> DEFINE life == IF d = 0 THEN DefaultDuration ELSE d
    <3>1. PICK t \in Tokens : /\ token' = [token EXCEPT ![t] = [owner |-> c, expire |-> now + life]]
                             /\ spent' = spent \cup {t}
      BY <2>1 DEF generate_token
    <3>2. now + life \in Nat
      BY LimitAssumption DEF Inv, TypeOK
    <3> HIDE DEF life
    <3>3. [owner |-> c, expire |-> now + life] \in [owner : Clients \cup {NoClient}, expire : Nat]
      BY <3>2
    <3> QED
      BY <2>1, <3>1, <3>3 DEF generate_token, sessionVars, Inv, TypeOK
  <2>2. ASSUME NEW t \in Tokens, revoke_token(c, t)
        PROVE  <1>1!1 /\ <1>1!2 /\ <1>1!3
    BY <2>2 DEF revoke_token, sessionVars, NoToken, Inv, TypeOK
  <2> QED
    BY <2>1, <2>2
<1>2. TypeOK'
  BY <1>1 DEF Inv, TypeOK
<1> QED
  BY <1>1, <1>2 DEF Inv, RootInv, FreshInv, RequestInv, LinkInv, FreedInv, PendingHasRequest,
                    NoElevation, SignalTells

\* The answer to a request: what becomes of the requests, whoever is told.
LEMMA AnsweredRequests ==
    ASSUME Inv, NEW r \in Requests, rq' = [rq EXCEPT ![r] = Free], UNCHANGED object
    PROVE  /\ rq' \in [Requests -> Request]
           /\ RequestInv'
           /\ \A q \in Requests : rq[q].session # rq[r].session => rq'[q] = rq[q]
<1>1. rq \in [Requests -> Request] /\ Free \in Request /\ Free.session \notin Clients
  BY NoOneAssumption DEF Inv, TypeOK, Request, Free
<1>2. rq'[r] = Free /\ \A q \in Requests \ {r} : rq'[q] = rq[q]
  BY <1>1
<1>3. RequestInv'
  BY <1>1, <1>2 DEF RequestInv, Inv
<1> QED
  BY <1>1, <1>2, <1>3

\* A session that is in memory is told.
LEMMA ToldInv ==
    ASSUME Inv, NEW r \in Requests, NEW c \in Clients, NEW new \in {"INIT", "AUTH"},
           rq[r].session = c, object[c] # "freed",
           change_state(c, new), auth_rq' = [auth_rq EXCEPT ![c] = NoRequest],
           rq' = [rq EXCEPT ![r] = Free],
           UNCHANGED <<conn, object, tokenVars, now>>,
           granted \subseteq granted', granted' \subseteq granted \cup {Uid[c]},
           new = "AUTH" => Uid[c] \in granted'
    PROVE  Inv'
<1>1. /\ UNCHANGED <<conn, object, token, spent, now>>
      /\ Uid[c] # Root /\ object[c] # "none"
  BY DEF tokenVars, Inv, RequestInv
<1>2. /\ state' = [state EXCEPT ![c] = new]
      /\ signal' \in [Clients -> {"none", "PENDING", "AUTHORIZED", "NOT_AUTHORIZED", "FAILED"}]
      /\ \A d \in Clients \ {c} : signal'[d] = signal[d]
      /\ state[c] = new => signal'[c] = signal[c]
      /\ state[c] # new /\ new = "AUTH" => signal'[c] = "AUTHORIZED"
      /\ state[c] # new /\ new = "INIT" => signal'[c] \in {"NOT_AUTHORIZED", "FAILED"}
  BY ChangeState DEF Inv
<1>3. /\ rq' \in [Requests -> Request]
      /\ RequestInv'
      /\ \A q \in Requests : rq[q].session # c => rq'[q] = rq[q]
  BY AnsweredRequests
<1>4. TypeOK'
  BY <1>1, <1>2, <1>3 DEF Inv, TypeOK, Request
<1>5. RootInv' /\ FreshInv' /\ FreedInv' /\ SignalTells'
  BY <1>1, <1>2 DEF Inv, TypeOK, RootInv, FreshInv, FreedInv, SignalTells
<1>6. NoElevation'
  BY <1>2 DEF Inv, TypeOK, NoElevation
<1>7. LinkInv'
  <2> SUFFICES ASSUME NEW d \in Clients, object'[d] # "freed", auth_rq'[d] # NoRequest
               PROVE  rq'[auth_rq'[d]].live /\ rq'[auth_rq'[d]].session = d
    BY DEF LinkInv
  <2>1. d # c /\ auth_rq'[d] = auth_rq[d] /\ auth_rq[d] \in Requests
    BY DEF Inv, TypeOK
  <2>2. rq[auth_rq[d]].live /\ rq[auth_rq[d]].session = d
    BY <1>1, <2>1 DEF Inv, LinkInv
  <2>3. rq'[auth_rq[d]] = rq[auth_rq[d]]
    BY <1>3, <2>1, <2>2
  <2> QED
    BY <2>1, <2>2, <2>3
<1>8. PendingHasRequest'
  <2> SUFFICES ASSUME NEW d \in Clients, state'[d] = "PENDING"
               PROVE  /\ auth_rq'[d] \in Requests
                      /\ rq'[auth_rq'[d]].live /\ ~rq'[auth_rq'[d]].cancelled
                      /\ rq'[auth_rq'[d]].session = d
    BY DEF PendingHasRequest
  <2>1. d # c /\ state[d] = "PENDING" /\ auth_rq'[d] = auth_rq[d]
    BY <1>2 DEF Inv, TypeOK
  <2>2. /\ auth_rq[d] \in Requests
        /\ rq[auth_rq[d]].live /\ ~rq[auth_rq[d]].cancelled /\ rq[auth_rq[d]].session = d
    BY <2>1 DEF Inv, PendingHasRequest
  <2>3. rq'[auth_rq[d]] = rq[auth_rq[d]]
    BY <1>3, <2>1, <2>2
  <2> QED
    BY <2>1, <2>2, <2>3
<1> QED
  BY <1>3, <1>4, <1>5, <1>6, <1>7, <1>8 DEF Inv

\* Nobody is told: the session was finalized, or is freed memory.
LEMMA UntoldInv ==
    ASSUME Inv, NEW r \in Requests,
           rq[r].session \notin Clients \/ object[rq[r].session] = "freed",
           rq' = [rq EXCEPT ![r] = Free],
           UNCHANGED <<conn, object, state, signal, auth_rq, tokenVars, now>>,
           granted \subseteq granted', granted' \subseteq {Uid[c] : c \in Clients}
    PROVE  Inv'
<1>1. UNCHANGED <<conn, object, state, signal, auth_rq, token, spent, now>>
  BY DEF tokenVars
<1>2. /\ rq' \in [Requests -> Request]
      /\ RequestInv'
      /\ \A q \in Requests : rq[q].session # rq[r].session => rq'[q] = rq[q]
  BY AnsweredRequests
<1>3. TypeOK'
  BY <1>1, <1>2 DEF Inv, TypeOK, Request
<1>4. RootInv' /\ FreshInv' /\ FreedInv' /\ SignalTells' /\ NoElevation'
  BY <1>1 DEF Inv, RootInv, FreshInv, FreedInv, SignalTells, NoElevation
<1>5. ASSUME NEW d \in Clients, object[d] # "freed", auth_rq[d] \in Requests,
             rq[auth_rq[d]].session = d
      PROVE  rq'[auth_rq[d]] = rq[auth_rq[d]]
  BY <1>2, <1>5
<1>6. LinkInv'
  <2> SUFFICES ASSUME NEW d \in Clients, object'[d] # "freed", auth_rq'[d] # NoRequest
               PROVE  rq'[auth_rq'[d]].live /\ rq'[auth_rq'[d]].session = d
    BY DEF LinkInv
  <2>1. auth_rq'[d] = auth_rq[d] /\ auth_rq[d] \in Requests /\ object[d] # "freed"
    BY <1>1 DEF Inv, TypeOK
  <2>2. rq[auth_rq[d]].live /\ rq[auth_rq[d]].session = d
    BY <1>1, <2>1 DEF Inv, LinkInv
  <2> QED
    BY <1>5, <2>1, <2>2
<1>7. PendingHasRequest'
  <2> SUFFICES ASSUME NEW d \in Clients, state'[d] = "PENDING"
               PROVE  /\ auth_rq'[d] \in Requests
                      /\ rq'[auth_rq'[d]].live /\ ~rq'[auth_rq'[d]].cancelled
                      /\ rq'[auth_rq'[d]].session = d
    BY DEF PendingHasRequest
  <2>1. state[d] = "PENDING" /\ auth_rq'[d] = auth_rq[d] /\ object[d] # "freed"
    BY <1>1 DEF Inv, FreedInv
  <2>2. /\ auth_rq[d] \in Requests
        /\ rq[auth_rq[d]].live /\ ~rq[auth_rq[d]].cancelled /\ rq[auth_rq[d]].session = d
    BY <2>1 DEF Inv, PendingHasRequest
  <2> QED
    BY <1>5, <2>1, <2>2
<1> QED
  BY <1>2, <1>3, <1>4, <1>6, <1>7 DEF Inv

\* Whatever polkit answers, an answer changes no session but the one its request points to.
LEMMA AnswerInv ==
    ASSUME Inv, NEW r \in Requests, check_authorization_callback(r)
    PROVE  Inv'
<1> DEFINE c == rq[r].session
<1>1. c \in Clients \cup {NoClient}
  BY DEF Inv, TypeOK
<1>2. rq' = [rq EXCEPT ![r] = Free] /\ UNCHANGED <<conn, object, tokenVars, now>>
  BY DEF check_authorization_callback
<1>3. PICK new \in {"INIT", "AUTH"} :
        /\ TellSession(r, new)
        /\ granted \subseteq granted'
        /\ granted' \subseteq granted \cup {Uid[d] : d \in {c} \cap Clients}
        /\ new = "AUTH" => granted' = granted \cup {Uid[d] : d \in {c} \cap Clients}
  BY DEF check_authorization_callback
<1>4. granted' \subseteq {Uid[d] : d \in Clients}
  BY <1>3 DEF Inv, TypeOK
<1>5. CASE c \in Clients /\ object[c] # "freed"
  <2>1. change_state(c, new) /\ auth_rq' = [auth_rq EXCEPT ![c] = NoRequest]
    BY <1>3, <1>5, NoOneAssumption DEF TellSession
  <2>2. {Uid[d] : d \in {c} \cap Clients} = {Uid[c]}
    BY <1>5
  <2> QED
    BY <1>2, <1>3, <1>5, <2>1, <2>2, ToldInv
<1>6. CASE c \notin Clients \/ object[c] = "freed"
  <2>1. UNCHANGED <<state, signal, auth_rq>>
    BY <1>1, <1>3, <1>6 DEF TellSession
  <2> QED
    BY <1>2, <1>3, <1>4, <1>6, <2>1, UntoldInv
<1> QED
  BY <1>5, <1>6

\* What is left of the requests when a session is freed.
LEMMA FinalizedRequests ==
    ASSUME Inv, NEW c \in Clients, object[c] = "unregistered",
           rq' = Finalized(c, Cancelled(c))
    PROVE  /\ rq' \in [Requests -> Request]
           /\ \A r \in Requests : /\ rq'[r].live <=> rq[r].live
                                  /\ rq'[r].session \in {rq[r].session, NoClient}
                                  /\ rq[r].session # c => rq'[r] = rq[r]
<1> DEFINE K == Cancelled(c)
<1>1. /\ K \in [Requests -> Request]
      /\ \A r \in Requests : /\ K[r].live <=> rq[r].live
                             /\ K[r].session = rq[r].session
                             /\ rq[r].session # c => K[r] = rq[r]
  BY CancelledRequests
<1>2. rq' = IF auth_rq[c] = NoRequest THEN K
            ELSE [K EXCEPT ![auth_rq[c]] = [K[auth_rq[c]] EXCEPT !.session = NoClient]]
  BY DEF Finalized
<1> HIDE DEF K
<1>3. CASE auth_rq[c] = NoRequest
  BY <1>1, <1>2, <1>3
<1>4. CASE auth_rq[c] # NoRequest
  <2> DEFINE q == auth_rq[c]
             new == [K[q] EXCEPT !.session = NoClient]
  <2>1. q \in Requests /\ rq[q].session = c
    BY <1>4 DEF Inv, TypeOK, LinkInv
  <2>2. new \in Request /\ (new.live <=> K[q].live) /\ new.session = NoClient
    BY <1>1, <2>1 DEF Request
  <2>3. rq' = [K EXCEPT ![q] = new]
    BY <1>2, <1>4
  <2> HIDE DEF new, q
  <2>4. rq' \in [Requests -> Request]
    BY <1>1, <2>2, <2>3
  <2>5. ASSUME NEW r \in Requests
        PROVE  /\ rq'[r].live <=> rq[r].live
               /\ rq'[r].session \in {rq[r].session, NoClient}
               /\ rq[r].session # c => rq'[r] = rq[r]
    <3>1. CASE r = q
      BY <1>1, <2>1, <2>2, <2>3, <3>1
    <3>2. CASE r # q
      BY <1>1, <2>3, <3>2
    <3> QED
      BY <3>1, <3>2
  <2> QED
    BY <2>4, <2>5
<1> QED
  BY <1>3, <1>4

\* A session that is freed is out of PENDING, and its newest request knows that it is gone.
LEMMA DestructorInv ==
    ASSUME Inv, NEW c \in Clients, session_object_destructor(c)
    PROVE  Inv'
<1>1. /\ object[c] = "unregistered"
      /\ object' = [object EXCEPT ![c] = "freed"]
      /\ UNCHANGED <<conn, auth_rq, spent, granted, now>>
  BY DEF session_object_destructor
<1>2. token' \in [Tokens -> [owner : Clients \cup {NoClient}, expire : Nat]]
  BY DEF session_object_destructor, NoToken, Inv, TypeOK
<1>3. /\ state' \in [Clients -> {"INIT", "PENDING", "AUTH"}]
      /\ signal' \in [Clients -> {"none", "PENDING", "AUTHORIZED", "NOT_AUTHORIZED", "FAILED"}]
      /\ \A d \in Clients \ {c} : state'[d] = state[d] /\ signal'[d] = signal[d]
      /\ Uid[c] = Root => state'[c] = state[c] /\ state[c] = "AUTH"
      /\ Uid[c] # Root => /\ state'[c] = "INIT"
                          /\ signal'[c] \notin {"AUTHORIZED", "PENDING"}
  BY <1>1, RevokeState DEF session_object_destructor
<1>4. /\ rq' \in [Requests -> Request]
      /\ \A r \in Requests : /\ rq'[r].live <=> rq[r].live
                             /\ rq'[r].session \in {rq[r].session, NoClient}
                             /\ rq[r].session # c => rq'[r] = rq[r]
  BY <1>1, FinalizedRequests DEF session_object_destructor
<1>5. TypeOK'
  BY <1>1, <1>2, <1>3, <1>4 DEF Inv, TypeOK, Request
<1>6. RootInv' /\ FreshInv' /\ FreedInv' /\ NoElevation' /\ SignalTells'
  BY <1>1, <1>3 DEF Inv, TypeOK, RootInv, FreshInv, FreedInv, NoElevation, SignalTells
<1>7. RequestInv'
  <2> SUFFICES ASSUME NEW r \in Requests, NEW d \in Clients, rq'[r].session = d
               PROVE  rq'[r].live /\ Uid[d] # Root /\ object'[d] # "none"
    BY DEF RequestInv
  <2>1. rq[r].session = d
    BY <1>4, NoOneAssumption
  <2>2. rq[r].live /\ Uid[d] # Root /\ object[d] # "none"
    BY <2>1 DEF Inv, RequestInv
  <2>3. object'[d] # "none"
    BY <1>1, <2>2 DEF Inv, TypeOK
  <2> QED
    BY <1>4, <2>2, <2>3
<1>8. LinkInv'
  <2> SUFFICES ASSUME NEW d \in Clients, object'[d] # "freed", auth_rq'[d] # NoRequest
               PROVE  rq'[auth_rq'[d]].live /\ rq'[auth_rq'[d]].session = d
    BY DEF LinkInv
  <2>1. /\ d # c /\ object[d] # "freed"
        /\ auth_rq'[d] = auth_rq[d] /\ auth_rq[d] \in Requests
    BY <1>1 DEF Inv, TypeOK
  <2>2. rq[auth_rq[d]].live /\ rq[auth_rq[d]].session = d
    BY <1>1, <2>1 DEF Inv, LinkInv
  <2>3. rq'[auth_rq[d]] = rq[auth_rq[d]]
    BY <1>4, <2>1, <2>2
  <2> QED
    BY <2>1, <2>2, <2>3
<1>9. PendingHasRequest'
  <2> SUFFICES ASSUME NEW d \in Clients, state'[d] = "PENDING"
               PROVE  /\ auth_rq'[d] \in Requests
                      /\ rq'[auth_rq'[d]].live /\ ~rq'[auth_rq'[d]].cancelled
                      /\ rq'[auth_rq'[d]].session = d
    BY DEF PendingHasRequest
  <2>1. d # c /\ state[d] = "PENDING" /\ auth_rq'[d] = auth_rq[d]
    BY <1>1, <1>3
  <2>2. /\ auth_rq[d] \in Requests
        /\ rq[auth_rq[d]].live /\ ~rq[auth_rq[d]].cancelled /\ rq[auth_rq[d]].session = d
    BY <2>1 DEF Inv, PendingHasRequest
  <2>3. rq'[auth_rq[d]] = rq[auth_rq[d]]
    BY <1>4, <2>1, <2>2
  <2> QED
    BY <2>1, <2>2, <2>3
<1> QED
  BY <1>5, <1>6, <1>7, <1>8, <1>9 DEF Inv

\* The bus, the clock and a step that changes nothing.
LEMMA OutsideInv ==
    ASSUME Inv,
           \/ \E c \in Clients : Disconnect(c) \/ on_g_signal(c)
           \/ Tick
           \/ UNCHANGED vars
    PROVE  Inv'
<1>1. /\ UNCHANGED <<state, auth_rq, signal, rq, token, spent, granted>>
      /\ conn' \in [Clients -> {"on", "off"}]
      /\ object' \in [Clients -> {"none", "registered", "unregistered", "freed"}]
      /\ now' \in Nat
  BY DEF Disconnect, on_g_signal, Tick, vars, sessionVars, tokenVars, Inv, TypeOK
<1>2. \A d \in Clients : /\ object'[d] = "none" <=> object[d] = "none"
                         /\ object'[d] = "freed" <=> object[d] = "freed"
  BY DEF Disconnect, on_g_signal, Tick, vars, sessionVars, tokenVars, Inv, TypeOK
<1>3. TypeOK'
  BY <1>1 DEF Inv, TypeOK
<1>4. RootInv' /\ FreshInv' /\ FreedInv' /\ NoElevation' /\ SignalTells'
  BY <1>1, <1>2 DEF Inv, RootInv, FreshInv, FreedInv, NoElevation, SignalTells
<1>5. RequestInv'
  BY <1>1, <1>2 DEF Inv, RequestInv
<1>6. LinkInv' /\ PendingHasRequest'
  BY <1>1, <1>2 DEF Inv, LinkInv, PendingHasRequest
<1> QED
  BY <1>3, <1>4, <1>5, <1>6 DEF Inv

\* The invariant is inductive.
LEMMA NextInv == Inv /\ [Next]_vars => Inv'
<1> SUFFICES ASSUME Inv, [Next]_vars PROVE Inv'
  OBVIOUS
<1>1. ASSUME NEW c \in Clients, Call(c) PROVE Inv'
  <2>1. CASE session_object_register(c)
    BY <2>1, RegisterInv
  <2>2. CASE session_object_dbus_method_call(c)
    <3>1. check_sanity(c)
      BY <2>2 DEF session_object_dbus_method_call
    <3>2. CASE authorization_request_initialize(c)
      BY <3>1, <3>2, RequestStepInv
    <3>3. CASE \E p \in Clients, t \in Tokens : authorize_peer_with_token(c, p, t)
      BY <3>1, <3>3, TokenStepInv
    <3>4. CASE RevokeAuthorization(c)
      BY <3>1, <3>4, RevokeStepInv
    <3>5. CASE (\E d \in Durations : generate_token(c, d)) \/ (\E t \in Tokens : revoke_token(c, t))
      BY <3>5, TokensInv
    <3> QED
      BY <2>2, <3>2, <3>3, <3>4, <3>5 DEF session_object_dbus_method_call
  <2> QED
    BY <1>1, <2>1, <2>2 DEF Call
<1>2. CASE MainLoop
  BY <1>2, AnswerInv, DestructorInv, OutsideInv DEF MainLoop
<1>3. CASE (\E c \in Clients : Disconnect(c)) \/ Tick \/ UNCHANGED vars
  BY <1>3, OutsideInv
<1> QED
  BY <1>1, <1>2, <1>3 DEF Next

\* What the theorems below rest on: pointers between sessions and requests stay consistent.
LEMMA Invariance == Spec => []Inv
<1> QED
  BY InitInv, NextInv, PTL DEF Spec
-----------------------------------------------------------------------------
\* The variables of the service keep their types: p2s_auth_rq is a request or NULL
\* and the session of a request is a client's or NULL, whatever callbacks ran.
THEOREM TypeCorrect == Spec => []TypeOK
<1> QED
  BY Invariance, PTL DEF Inv

\* A session in PENDING has a request that polkit still holds, that was not
\* cancelled and that points back: revoke and grant dereference it untested.
THEOREM PendingSafe == Spec => []PendingHasRequest
<1> QED
  BY Invariance, PTL DEF Inv

\* However many sessions pass tokens around, no session of a user other than root
\* is authorized unless polkit granted that user an authorization once.
THEOREM NeverElevated == Spec => []NoElevation
<1> QED
  BY Invariance, PTL DEF Inv

\* change_state() is the only way a state changes: the last AuthorizationChanged
\* signal tells a client whether its session is authorized, pending or neither.
THEOREM ClientsTold == Spec => []SignalTells
<1> QED
  BY Invariance, PTL DEF Inv

\* The sessions of a user are finite; they only grow by one that is registered.
LEMMA PeersStep ==
    ASSUME Inv, [Next]_vars, NEW u
    PROVE  /\ IsFiniteSet(Peers(u)) /\ IsFiniteSet(Peers(u)')
           /\ \/ Peers(u)' \subseteq Peers(u)
              \/ /\ Cardinality(Peers(u)) < ClientsLimit
                 /\ \E c \in Clients : Peers(u)' \subseteq Peers(u) \cup {c}
<1>1. IsFiniteSet(Peers(u)) /\ IsFiniteSet(Peers(u)')
  BY FiniteAssumption, FS_Subset DEF Peers
<1>2. ASSUME NEW c \in Clients, session_object_register(c)
      PROVE  \/ Peers(u)' \subseteq Peers(u)
             \/ /\ Cardinality(Peers(u)) < ClientsLimit
                /\ \E d \in Clients : Peers(u)' \subseteq Peers(u) \cup {d}
  <2>1. Peers(u)' \subseteq Peers(u) \cup {c}
    BY <1>2 DEF session_object_register, Peers, Listed, Inv, TypeOK
  <2>2. CASE Uid[c] = u
    BY <1>2, <2>1, <2>2 DEF session_object_register
  <2>3. CASE Uid[c] # u
    BY <2>1, <2>3 DEF Peers
  <2> QED
    BY <2>2, <2>3
<1>3. CASE ~\E c \in Clients : session_object_register(c)
  <2>1. \A d \in Clients : Listed(d)' => Listed(d)
    <3>1. CASE \E c \in Clients : on_g_signal(c) \/ session_object_destructor(c)
      BY <3>1 DEF on_g_signal, session_object_destructor, Listed, Inv, TypeOK
    <3>2. CASE UNCHANGED object
      BY <3>2 DEF Listed
    <3> QED
      BY <1>3, <3>1, <3>2
         DEF Next, vars, sessionVars, Call, session_object_dbus_method_call, MainLoop, Tick, Disconnect,
             authorization_request_initialize, authorize_peer_with_token, RevokeAuthorization,
             generate_token, revoke_token, check_authorization_callback
  <2> QED
    BY <1>1, <2>1 DEF Peers
<1> QED
  BY <1>1, <1>2, <1>3

\* A step adds nobody to the sessions of a user, or one when they are below the limit.
LEMMA LimitStep ==
    ASSUME Inv, SessionsLimited, [Next]_vars
    PROVE  SessionsLimited'
<1> SUFFICES ASSUME NEW c \in Clients
             PROVE  Cardinality(Peers(Uid[c])') <= ClientsLimit
  BY DEF SessionsLimited
<1> DEFINE u == Uid[c]
           P == Peers(u)
           Q == Peers(u)'
<1>1. /\ IsFiniteSet(P) /\ IsFiniteSet(Q)
      /\ \/ Q \subseteq P
         \/ Cardinality(P) < ClientsLimit /\ \E d \in Clients : Q \subseteq P \cup {d}
  BY PeersStep
<1>2. Cardinality(P) \in Nat /\ Cardinality(Q) \in Nat /\ Cardinality(P) <= ClientsLimit
  BY <1>1, FS_CardinalityType DEF SessionsLimited
<1> HIDE DEF P, Q
<1>3. CASE Q \subseteq P
  <2>1. Cardinality(Q) <= Cardinality(P)
    BY <1>1, <1>3, FS_Subset
  <2> QED
    BY <1>2, <2>1, LimitAssumption DEF Q
<1>4. CASE Cardinality(P) < ClientsLimit /\ \E d \in Clients : Q \subseteq P \cup {d}
  <2>1. PICK d \in Clients : Q \subseteq P \cup {d}
    BY <1>4
  <2>2. /\ IsFiniteSet(P \cup {d})
        /\ Cardinality(P \cup {d}) = IF d \in P THEN Cardinality(P) ELSE Cardinality(P) + 1
    BY <1>1, FS_AddElement
  <2>3. Cardinality(Q) <= Cardinality(P \cup {d})
    BY <2>1, <2>2, FS_Subset
  <2> QED
    BY <1>2, <1>4, <2>2, <2>3, LimitAssumption DEF Q
<1> QED
  BY <1>1, <1>3, <1>4

\* The limit of sessions per user holds for clients that left, too: a session counts
\* until session_object_destructor() took it out of the list.
THEOREM LimitKept == Spec => []SessionsLimited
<1>1. Init => SessionsLimited
  <2> SUFFICES ASSUME Init, NEW c \in Clients
               PROVE  Cardinality(Peers(Uid[c])) <= ClientsLimit
    BY DEF SessionsLimited
  <2>1. Peers(Uid[c]) = {}
    BY DEF Init, Peers, Listed
  <2> QED
    BY <2>1, FS_EmptySet, LimitAssumption
<1> QED
  BY <1>1, LimitStep, Invariance, PTL DEF Spec

\* The grant a session gets in a step: by an answer, by a token or for root.
Granted(c) ==
    \/ object[c] = "none"
    \/ \E r \in Requests : /\ rq[r].live /\ ~rq[r].cancelled /\ rq[r].session = c
                          /\ ~rq'[r].live
    \/ \E t \in Tokens : /\ token[t].owner \in Clients
                        /\ state[token[t].owner] = "AUTH"
                        /\ Uid[token[t].owner] = Uid[c]
                        /\ now <= token[t].expire
                        /\ token'[t].owner = NoClient

\* A step that authorizes a session is an answer to its own request or uses a token.
LEMMA GrantStep ==
    ASSUME Inv, [Next]_vars, NEW c \in Clients, state[c] # "AUTH", state'[c] = "AUTH"
    PROVE  Granted(c)
<1>1. ASSUME NEW d \in Clients, session_object_register(d) PROVE Granted(c)
  <2>1. object[d] = "none" /\ (c # d => state'[c] = state[c])
    BY <1>1 DEF session_object_register, Inv, TypeOK
  <2> QED
    BY <2>1 DEF Granted
<1>2. ASSUME NEW d \in Clients, NEW p \in Clients, NEW t \in Tokens, authorize_peer_with_token(d, p, t)
      PROVE Granted(c)
  <2>1. c = d
    BY <1>2 DEF authorize_peer_with_token, grant_authorization, change_state, Inv, TypeOK
  <2>2. token[t].owner = p /\ state[p] = "AUTH" /\ Uid[p] = Uid[d] /\ now <= token[t].expire
    BY <1>2 DEF authorize_peer_with_token, TokenAccepted
  <2>3. token'[t] = NoToken
    BY <1>2 DEF authorize_peer_with_token, Inv, TypeOK
  <2>4. token'[t].owner = NoClient
    BY <2>3 DEF NoToken
  <2> QED
    BY <2>1, <2>2, <2>4 DEF Granted
<1>3. ASSUME NEW r \in Requests, check_authorization_callback(r) PROVE Granted(c)
  <2>1. rq[r].live /\ ~rq'[r].live
    BY <1>3 DEF check_authorization_callback, Free, Inv, TypeOK
  <2>2. \/ ~rq[r].cancelled /\ TellSession(r, "AUTH")
        \/ TellSession(r, "INIT")
    BY <1>3 DEF check_authorization_callback
  <2>3. ~TellSession(r, "INIT")
    BY DEF TellSession, change_state, Inv, TypeOK
  <2>4. rq[r].session = c
    BY <2>2, <2>3 DEF TellSession, change_state, Inv, TypeOK
  <2> QED
    BY <2>1, <2>2, <2>3, <2>4 DEF Granted
<1>4. ASSUME NEW d \in Clients,
             RevokeAuthorization(d) \/ session_object_destructor(d) \/ authorization_request_initialize(d)
      PROVE  FALSE
  BY <1>4 DEF RevokeAuthorization, session_object_destructor, authorization_request_initialize,
              Revoke, change_state, Inv, TypeOK
<1>5. state' # state
  OBVIOUS
<1> QED
  BY <1>1, <1>2, <1>3, <1>4, <1>5
     DEF Next, vars, sessionVars, Call, session_object_dbus_method_call, MainLoop, Tick, Disconnect,
         generate_token, revoke_token, on_g_signal

\* Every step that authorizes a session: it answers a request of that session which
\* was not cancelled, or uses up a valid token of the same user, or makes a session.
THEOREM GrantsJustified == Spec => GrantJustified
<1>1. Inv /\ [Next]_vars => [\A c \in Clients : state[c] # "AUTH" /\ state'[c] = "AUTH" => Granted(c)]_vars
  BY GrantStep
<1> QED
  BY <1>1, Invariance, PTL DEF Spec, GrantJustified, Granted
=============================================================================
