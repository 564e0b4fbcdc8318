---------------------------- MODULE PgFixedConn ----------------------------
(***************************************************************************)
(* One WFPostgresConnection used as README.md asks: its tasks run one at a *)
(* time, without TLS. Each task is a ComplexPostgresTask that dispatches   *)
(* to the route's only socket, opening it (startup round) when there is    *)
(* none, sends its request and handles the answer. The PostgreSQL backend, *)
(* the network and Workflow's dispatcher are the environment, modelled by  *)
(* what PostgresTaskImpl.cc can observe of them.                           *)
(***************************************************************************)
EXTENDS Naturals, PgTaskOps

CONSTANTS Kinds,        \* the kinds of request the application makes
          MaxTasks,     \* bound: tasks started
          MaxSessions,  \* bound: server sessions opened
          RetryMax,     \* retry_max of the tasks (0 for a WFPostgresConnection)
          Startups      \* the ways in which the server answers a startup packet

ASSUME KindsAssumption == Kinds \subseteq RequestKinds
ASSUME BoundsAssumption == MaxTasks \in Nat /\ MaxSessions \in Nat /\ RetryMax \in Nat
ASSUME StartupsAssumption == Startups \subseteq StartupAnswers

\* The server speaks the major version of the protocol that it is asked for, as every
\* PostgreSQL server does. The socket of a session with another version stays without a
\* context, and check_reconnect_guard would let the next task's request pass.
SameMajor == "version" \notin Startups

VARIABLES
    cont,       \* RouteTarget::state, the continuity of the logical session
    lastTx,     \* WFPostgresConnection::last_tx_state_
    pid,        \* WFPostgresConnection::backend_pid_, as a session number
    sock,       \* the route's socket: "closed" or "open"
    connState,  \* PostgresConnection::state of its context
    proto,      \* PostgresConnection::protocol_state
    pc,         \* where the current task is
    kind,       \* its request
    isUser,     \* is_user_request_: the round is the user's, not the startup
    started,    \* user_request_started_
    sresp,      \* startup_resp_, as in StartupRead
    outcome,    \* state and error handle() is called with
    retries, tasks,
    sess,       \* the number of sessions opened; the current backend's pid
    be,         \* the backend behind the socket
    tx,         \* its transaction state
    copying,    \* it is in COPY FROM STDIN
    wire,       \* what is between client and backend
    ans,        \* the answer on its way or received
    orphan,     \* ghost: unfinished work was lost since the last disconnect
    sent,       \* ghost: how often the current task's request was sent
    report,     \* ghost: transaction state of the last completed response; "refused"
                \* if it was 'I' and the guard has refused a task since
    answered    \* ghost: the session that answered last since the last disconnect, or 0

handleVars == <<cont, lastTx, pid, report>>
sockVars == <<sock, connState, proto>>
taskVars == <<kind, isUser, started, sresp, retries, tasks, sent>>
serverVars == <<sess, be, tx, copying, orphan, answered>>
wireVars == <<wire, ans>>
vars == <<handleVars, sockVars, pc, taskVars, outcome, serverVars, wireVars>>

Outcomes == {"SUCCESS", "ECONNRESET", "ETIMEDOUT", "ECONNREFUSED", "EPROTO", "EBADF"}

\* What startup_resp_ can be.
StartupStates == {"null", "ok", "error"} \cup (Startups \cap {"version"})

RouteTypeOK ==
    /\ cont \in Continuity /\ lastTx \in TxStates
    /\ pid \in 0..MaxSessions /\ report \in TxStates \cup {"none", "refused"}

SocketTypeOK ==
    /\ sock \in {"closed", "open"} /\ connState \in {NoContext, Established, InUse}
    /\ proto \in ProtocolStates

TaskTypeOK ==
    /\ pc \in {"none", "dispatch", "wait", "handle", "crashed"}
    /\ kind \in Kinds /\ isUser \in BOOLEAN /\ started \in BOOLEAN
    /\ sresp \in StartupStates /\ outcome \in Outcomes
    /\ retries \in 0..RetryMax /\ tasks \in 0..MaxTasks /\ sent \in Nat

ServerTypeOK ==
    /\ sess \in 0..MaxSessions /\ be \in {"startup", "idle", "gone"}
    /\ tx \in TxStates /\ copying \in BOOLEAN /\ orphan \in BOOLEAN
    /\ answered \in 0..MaxSessions
    /\ wire \in {"none", "startup", "request", "reply"}
    /\ ans \in Answers \cup Startups

TypeOK == RouteTypeOK /\ SocketTypeOK /\ TaskTypeOK /\ ServerTypeOK

Init ==
    /\ cont = "NEW" /\ lastTx = "I" /\ pid = 0 /\ report = "none"
    /\ sock = "closed" /\ connState = NoContext /\ proto = "READY"
    /\ pc = "none" /\ outcome = "SUCCESS"
    /\ kind \in Kinds /\ isUser = TRUE /\ started = FALSE /\ sresp = "null"
    /\ retries = 0 /\ tasks = 0 /\ sent = 0
    /\ sess = 0 /\ be = "gone" /\ tx = "I" /\ copying = FALSE
    /\ orphan = FALSE /\ answered = 0
    /\ wire = "none" /\ ans = "I"

---------------------------------------------------------------------------
\* A request is under way on a session that has authenticated.
Running == pc = "wait" /\ isUser /\ kind # "disconnect" /\ connState # NoContext
OpenWork == tx # "I" \/ copying

\* The client side closes the socket: its context is deleted, the backend ends.
\* Unfinished work is lost with it; inFlight counts a request without an answer.
CloseSocket(inFlight) ==
    /\ sock' = "closed" /\ connState' = NoContext /\ proto' = "READY"
    /\ be' = "gone" /\ tx' = "I" /\ copying' = FALSE
    /\ orphan' = (orphan \/ OpenWork \/ inFlight)
    /\ wire' = "none" /\ ans' = ans
    /\ UNCHANGED <<sess, answered>>

---------------------------------------------------------------------------
\* The task.

\* create_query_task / create_disconnect_task and start(): a fresh task object.
Start(k) ==
    /\ pc = "none" /\ tasks < MaxTasks
    /\ pc' = "dispatch"
    /\ kind' = k /\ isUser' = TRUE /\ started' = FALSE /\ sresp' = "null"
    /\ retries' = 0 /\ tasks' = tasks + 1 /\ sent' = 0
    /\ UNCHANGED <<handleVars, sockVars, outcome, serverVars, wireVars>>

\* No socket: Workflow connects and message_out (seq 0) returns startup_req_.
ConnectOk ==
    /\ pc = "dispatch" /\ sock = "closed" /\ sess < MaxSessions
    /\ pc' = "wait" /\ isUser' = FALSE
    /\ sock' = "open" /\ connState' = NoContext /\ proto' = "READY"
    /\ sess' = sess + 1 /\ be' = "startup"
    /\ wire' = "startup"
    /\ UNCHANGED <<handleVars, kind, started, sresp, retries, tasks, sent, outcome,
                   tx, copying, orphan, answered, ans>>

\* The connection is refused or times out (any errno but ECONNRESET).
ConnectFail ==
    /\ pc = "dispatch" /\ sock = "closed"
    /\ pc' = "handle" /\ outcome' = "ECONNREFUSED"
    /\ UNCHANGED <<handleVars, sockVars, taskVars, serverVars, wireVars>>

\* message_out returns nullptr: the socket is closed and the task fails.
Refuse(errno) ==
    /\ pc' = "handle" /\ outcome' = errno /\ isUser' = TRUE
    /\ CloseSocket(FALSE)
    /\ UNCHANGED <<kind, started, sresp, retries, tasks, sent, lastTx, pid>>

\* check_reconnect_guard fails in message_out.
RefuseByGuard ==
    /\ pc = "dispatch" /\ sock = "open"
    /\ ~GuardAccepts(kind, cont, connState)
    /\ cont' = "UNKNOWN" /\ report' = IF report = "I" THEN "refused" ELSE report
    /\ Refuse("ECONNRESET")

\* validate_request fails in message_out.
RefuseByState ==
    /\ pc = "dispatch" /\ sock = "open"
    /\ GuardAccepts(kind, cont, connState)
    /\ Verdict(kind, connState, proto) # "ok"
    /\ UNCHANGED <<cont, report>>
    /\ Refuse(Verdict(kind, connState, proto))

\* message_out returns the user's request, on a socket that has been used before.
SendRequest ==
    /\ pc = "dispatch" /\ sock = "open"
    /\ GuardAccepts(kind, cont, connState)
    /\ Verdict(kind, connState, proto) = "ok"
    /\ pc' = "wait" /\ isUser' = TRUE /\ started' = TRUE /\ wire' = "request"
    /\ connState' = IF connState = Established /\ kind # "disconnect"
                    THEN InUse ELSE connState
    /\ proto' = StateAfterSend(kind, connState, proto)
    /\ cont' = ContinuityOnSend(kind, cont)
    /\ sent' = IF kind = "disconnect" THEN sent ELSE sent + 1
    /\ UNCHANGED <<lastTx, pid, report, sock, kind, sresp, retries, tasks,
                   outcome, serverVars, ans>>

\* append() of the round's response returns 1; keep_alive_timeout then decides
\* whether the socket stays, before handle() runs.
ReceiveReply ==
    /\ pc = "wait" /\ wire = "reply"
    /\ pc' = "handle" /\ outcome' = "SUCCESS"
    /\ sresp' = IF isUser THEN sresp ELSE StartupRead(sresp, ans)
    /\ IF KeepsSocket(kind, isUser, ans, TRUE)
       THEN wire' = "none" /\ UNCHANGED <<ans, sockVars, serverVars>>
       ELSE CloseSocket(FALSE)
    /\ UNCHANGED <<handleVars, kind, isUser, started, retries, tasks, sent>>

\* What startup_resp_ can be after a part of an answer: as it was, made by message_in with
\* the first byte, or with the version that stands in the answer. It is no error.
Partly ==
    {sresp} \cup IF isUser THEN {}
                 ELSE (IF sresp = "null" THEN {"ok"} ELSE {}) \cup
                      (IF wire = "reply" /\ ans = "version" THEN {"version"} ELSE {})

\* The round ends without a complete response.
Break(errno) ==
    /\ pc = "wait"
    /\ pc' = "handle" /\ outcome' = errno
    /\ sresp' \in Partly
    /\ CloseSocket(Running)
    /\ UNCHANGED <<handleVars, kind, isUser, started, retries, tasks, sent>>

PeerClosed == be = "gone" /\ Break("ECONNRESET")
Timeout == Break("ETIMEDOUT")

\* Mutant: the key is recorded only with a ReadyForQuery.
ConnectionAfterOnReady(a) ==
    IF ReadyForQuery(a) THEN [lastTx |-> a, pid |-> sess] ELSE [lastTx |-> lastTx, pid |-> pid]

\* What handle() writes into the connection object after a successful request;
\* update_after_response has put the session's key into the response.
ConnectionAfter(a) ==
    [lastTx |-> IF ReadyForQuery(a) THEN a ELSE lastTx, pid |-> sess]

\* handle() and finish_once() of a request that succeeds.
FinishRequest ==
    /\ pc = "handle" /\ isUser /\ kind # "disconnect" /\ outcome = "SUCCESS"
    /\ pc' = "none"
    /\ proto' = IF sock = "open" THEN StateAfterAnswer(kind, ans, proto) ELSE proto
    /\ cont' = ContinuityAfter(ans)
    /\ lastTx' = ConnectionAfter(ans).lastTx
    /\ pid' = ConnectionAfter(ans).pid
    /\ report' = IF ReadyForQuery(ans) THEN ans ELSE "none"
    /\ answered' = sess
    /\ UNCHANGED <<sock, connState, taskVars, outcome, sess, be, tx, copying, orphan,
                   wireVars>>

\* handle() of a disconnect that succeeds: the logical session starts afresh.
FinishDisconnect ==
    /\ pc = "handle" /\ isUser /\ kind = "disconnect"
    /\ HandledOutcome(kind, outcome) = "SUCCESS"
    /\ pc' = "none"
    /\ cont' = "NEW" /\ lastTx' = "I" /\ pid' = 0
    /\ report' = "none" /\ orphan' = FALSE /\ answered' = 0
    /\ UNCHANGED <<sockVars, taskVars, outcome, sess, be, tx, copying, wireVars>>

\* handle() of a user round that fails: what is known of the backend's key is
\* forgotten. done() dispatches the task again while it has retries left.
FailUser ==
    /\ pc = "handle" /\ isUser /\ HandledOutcome(kind, outcome) # "SUCCESS"
    /\ pid' = IF started THEN 0 ELSE pid
    /\ report' = IF started /\ kind # "disconnect" THEN "none" ELSE report
    /\ IF retries < RetryMax
       THEN pc' = "dispatch" /\ retries' = retries + 1
       ELSE pc' = "none" /\ UNCHANGED retries
    /\ UNCHANGED <<cont, lastTx, sockVars, kind, isUser, started, sresp, tasks, sent,
                   outcome, serverVars, wireVars>>

\* finish_once -> handle_startup_auth_completion after a startup round.
StartupDone ==
    /\ pc = "handle" /\ ~isUser /\ HandledOutcome(kind, outcome) = "SUCCESS"
    /\ sresp = "ok"
    /\ pc' = "dispatch" /\ isUser' = TRUE
    /\ connState' = IF sock = "open" THEN Established ELSE connState
    /\ UNCHANGED <<handleVars, sock, proto, kind, started, sresp, retries, tasks, sent,
                   outcome, serverVars, wireVars>>

\* The startup response is an error or has negotiated another version: a task error,
\* which is not retried. The socket stays as it is.
StartupRejected ==
    /\ pc = "handle" /\ ~isUser /\ HandledOutcome(kind, outcome) = "SUCCESS"
    /\ sresp \in {"error", "version"}
    /\ pc' = "none"
    /\ UNCHANGED <<handleVars, sockVars, taskVars, outcome, serverVars, wireVars>>

\* There is no startup response at all, and it is dereferenced.
StartupNull ==
    /\ pc = "handle" /\ ~isUser /\ HandledOutcome(kind, outcome) = "SUCCESS"
    /\ sresp = "null"
    /\ pc' = "crashed"
    /\ UNCHANGED <<handleVars, sockVars, taskVars, outcome, serverVars, wireVars>>

\* handle() of a failed startup round only passes the error on.
FailStartup ==
    /\ pc = "handle" /\ ~isUser /\ HandledOutcome(kind, outcome) # "SUCCESS"
    /\ IF retries < RetryMax
       THEN pc' = "dispatch" /\ retries' = retries + 1
       ELSE pc' = "none" /\ UNCHANGED retries
    /\ UNCHANGED <<handleVars, sockVars, kind, isUser, started, sresp, tasks, sent,
                   outcome, serverVars, wireVars>>

---------------------------------------------------------------------------
\* The environment.

\* The idle socket goes: keep-alive expiry, the peer closing it, stray data.
IdleClose ==
    /\ sock = "open" /\ pc # "wait" /\ pc # "crashed"
    /\ CloseSocket(FALSE)
    /\ UNCHANGED <<handleVars, pc, taskVars, outcome>>

\* The backend accepts, refuses (and exits), or asks for an authentication the
\* client gives up on (and stays, waiting for an answer).
ServerStartup(a) ==
    /\ wire = "startup" /\ be = "startup"
    /\ be' = IF TellsPid(a) THEN "idle" ELSE IF a = "error" THEN "gone" ELSE be
    /\ wire' = "reply" /\ ans' = a
    /\ UNCHANGED <<handleVars, sockVars, pc, taskVars, outcome, sess, tx, copying,
                   orphan, answered>>

\* A query outside COPY may end in any transaction state or start a COPY; so
\* may a CopyDone, which lets the query string go on. CopyData is answered only
\* when the server ends the COPY with an error.
Outcome(k) ==
    CASE k = "query" /\ ~copying -> TxStates \cup {"copyIn"}
      [] k = "copyDone" /\ copying -> TxStates \cup {"copyIn"}
      [] k \in {"copyData", "copyFail"} /\ copying ->
            IF tx = "I" THEN {"I", "E"} ELSE {"E"}
      [] k = "wait" /\ ~copying /\ tx = "I" -> {"notice"}
      [] OTHER -> {}

ServerAnswer(a) ==
    /\ wire = "request" /\ be = "idle" /\ a \in Outcome(kind)
    /\ tx' = IF ReadyForQuery(a) THEN a ELSE tx
    /\ copying' = (a = "copyIn")
    /\ wire' = "reply" /\ ans' = a
    /\ UNCHANGED <<handleVars, sockVars, pc, taskVars, outcome, sess, be, orphan, answered>>

\* Terminate ends the session, and so does any request that comes in place of
\* an answer to an authentication request.
ServerTerminates ==
    /\ wire = "request" /\ be # "gone"
    /\ kind = "disconnect" \/ be = "startup"
    /\ be' = "gone"
    /\ UNCHANGED <<handleVars, sockVars, pc, taskVars, outcome, sess, tx, copying,
                   orphan, answered, wireVars>>

\* The backend dies, at any time; the client has not noticed yet.
ServerDies ==
    /\ be # "gone" /\ sock = "open" /\ pc # "crashed"
    /\ be' = "gone"
    /\ UNCHANGED <<handleVars, sockVars, pc, taskVars, outcome, sess, tx, copying,
                   orphan, answered, wireVars>>

\* The application makes no more requests, or the process is gone.
Halted ==
    /\ pc = "crashed" \/ (pc = "none" /\ tasks = MaxTasks)
    /\ UNCHANGED vars

Next ==
    \/ \E k \in Kinds : Start(k)
    \/ ConnectOk \/ ConnectFail
    \/ RefuseByGuard \/ RefuseByState \/ SendRequest
    \/ ReceiveReply \/ PeerClosed \/ Timeout
    \/ FinishRequest \/ FinishDisconnect \/ FailUser
    \/ StartupDone \/ StartupRejected \/ StartupNull \/ FailStartup
    \/ IdleClose
    \/ \E a \in Startups : ServerStartup(a)
    \/ \E a \in Answers : ServerAnswer(a)
    \/ ServerTerminates \/ ServerDies
    \/ Halted

Spec == Init /\ [][Next]_vars

\* Workflow runs what is ready, the network delivers, and a live backend answers.
\* Starting tasks, timeouts, idle expiry and crashes are never forced.
Fairness ==
    /\ WF_vars(ConnectOk \/ ConnectFail)
    /\ WF_vars(RefuseByGuard \/ RefuseByState \/ SendRequest)
    /\ WF_vars(\E a \in Startups : ServerStartup(a))
    /\ WF_vars(\E a \in Answers : ServerAnswer(a))
    /\ WF_vars(ServerTerminates)
    /\ WF_vars(ReceiveReply) /\ WF_vars(PeerClosed)
    /\ WF_vars(FinishRequest \/ FinishDisconnect \/ FailUser)
    /\ WF_vars(StartupDone \/ StartupRejected \/ StartupNull \/ FailStartup)

FairSpec == Spec /\ Fairness

---------------------------------------------------------------------------
\* Properties.

\* SQL (or COPY data, or a notification wait) reaches a backend that will act on
\* it only while no unfinished work has been lost: the work of a transaction
\* begun on one session never goes on on another (README.md:285; the guard of
\* PostgresTaskImpl.cc:284 against what message_out and handle() keep on the route).
NoSqlOnReplacement ==
    wire = "request" /\ kind # "disconnect" /\ be = "idle" => ~orphan

\* Between tasks, the client's idea of COPY mode on a live session is the
\* backend's: a COPY request is let through exactly when the backend expects it.
ProtocolStateAgrees ==
    pc = "none" /\ sock = "open" /\ connState = InUse =>
        /\ proto \in {"READY", "COPY_IN"}
        /\ copying <=> proto = "COPY_IN"

\* Between tasks, a transaction state on the route is the backend's own and the
\* one get_last_transaction_state() reports; no COPY hides behind it.
LastTxConfirmed ==
    pc = "none" /\ sock = "open" /\ connState = InUse /\ cont \in TxStates =>
        cont = tx /\ lastTx = tx /\ ~copying

\* A socket whose transaction failed is never offered to a later task
\* (README.md:33; keep_alive_timeout).
NoPoisonedSocket == pc \in {"none", "dispatch"} /\ sock = "open" => tx # "E"

\* While a request runs on a session that has answered one before, a cancel task
\* made from the connection carries that session's key (handle(), backend_pid_).
CancelKeyCurrent == Running /\ answered = sess => pid = sess

\* COPY data and notification waits never go to a session other than the one
\* that answered last (README.md:286; allow_idle_reconnect in message_out).
OriginalSession ==
    Running /\ kind \in CopyKinds \cup {"wait"} => answered \in {0, sess}

\* A task's SQL goes out at most once, retries and reconnections included
\* (README.md:286; message_out forgets the continuity before it sends).
AtMostOnce == sent <= 1

\* When the last completed response reported 'I', the next request, if it is a plain
\* query, is not refused for lack of continuity (README.md:284).
IdleLossReconnects ==
    [][RefuseByGuard /\ kind = "query" => report # "I"]_vars

\* Every task whose request has an answer reaches its callback, or dereferences a null
\* startup response (StartupNull), if only finitely many sessions are lost under it
\* (MaxSessions).
TaskCompletes ==
    pc = "dispatch" /\ kind \notin {"wait", "copyData"} ~> pc \in {"none", "crashed"}

\* The logical session a WFPostgresConnection promises.
Promise == INSTANCE LogicalSession WITH
    work <- IF Running THEN "running" ELSE IF OpenWork THEN "open" ELSE "none",
    lost <- orphan,
    session <- sess

RefinesLogicalSession == Promise!Spec

---------------------------------------------------------------------------
\* The inductive invariant behind NoSqlOnReplacement, in named parts.

\* Without a socket there is no session; a round is under way only in "wait".
SocketShape ==
    /\ sock = "closed" => /\ connState = NoContext /\ be = "gone"
                          /\ tx = "I" /\ ~copying /\ wire = "none"
    /\ pc = "wait" => sock = "open"
    /\ wire # "none" => pc = "wait"
    /\ wire = "startup" => ~isUser
    /\ wire = "request" => isUser

\* A failed round, and one that was to disconnect, leaves no socket.
FailedIsClosed ==
    pc = "handle" /\ (outcome # "SUCCESS" \/ (isUser /\ kind = "disconnect"))
        => sock = "closed"

\* A backend that takes requests has a context on the client side, but for the
\* end of the startup round.
NoContextShape ==
    connState = NoContext /\ be = "idle" =>
        /\ ~isUser
        /\ \/ pc = "wait" /\ wire = "reply" /\ ans = "ready"
           \/ pc = "handle" /\ outcome = "SUCCESS" /\ sresp = "ok"

\* A session that has just started is on its way to its first request.
EstablishedShape ==
    connState = Established =>
        isUser /\ (pc = "dispatch" \/ (pc = "wait" /\ kind = "disconnect"))

\* Only a session that takes requests has open work.
FreshIsClean == connState # InUse => ~OpenWork

\* A session in use carries the logical session: nothing was lost before it, and
\* the route knows its transaction state or knows that it does not know it.
InUseShape ==
    connState = InUse =>
        /\ isUser /\ ~orphan
        /\ cont = "UNKNOWN" \/ (cont \in TxStates /\ cont = tx /\ ~copying)

\* After a loss the route admits no request that would start a new session.
LossIsKnown == orphan => cont \notin {"NEW", "I"}

\* While a request runs the continuity is unknown.
RunningIsUnknown == pc = "wait" /\ isUser /\ kind # "disconnect" => cont = "UNKNOWN"

\* An answer in hand tells the truth about the backend, or about its loss.
AnswerIsTrue ==
    /\ isUser /\ kind # "disconnect"
    /\ wire = "reply" \/ (pc = "handle" /\ outcome = "SUCCESS")
    => /\ ans \in Answers
       /\ connState = InUse /\ ReadyForQuery(ans) => ans = tx /\ ~copying
       /\ ans = "I" => ~orphan

Continuation ==
    /\ SocketShape /\ FailedIsClosed
    /\ NoContextShape /\ EstablishedShape /\ FreshIsClean /\ InUseShape
    /\ LossIsKnown /\ RunningIsUnknown /\ AnswerIsTrue

Inductive == TypeOK /\ Continuation
=============================================================================
