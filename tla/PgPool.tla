------------------------------- MODULE PgPool -------------------------------
(***************************************************************************)
(* Several tasks on one route that has no fixed connection: Workflow gives *)
(* each round of a task an idle socket of the route, or a new one while    *)
(* the route has room. The route is plain or TLS. A connection goes back   *)
(* to the pool when keep_alive_timeout says so, which is before the task   *)
(* that used it runs handle() and finish_once(): another task may use it   *)
(* in between. Requests are statements, disconnects and cancels; COPY and  *)
(* notifications belong on a WFPostgresConnection (PgFixedConn).           *)
(***************************************************************************)
EXTENDS Naturals, FiniteSets, PgTaskOps

CONSTANTS Tasks,      \* the tasks of the application
          Kinds,      \* the kinds of request they make
          Schemes,    \* the schemes and
          SslModes,   \* the sslmodes the URL of the route may have
          MaxConns,   \* bound: connections opened
          MaxOpen,    \* Workflow's limit of open connections of the route
          RetryMax,   \* retry_max of each task
          Pid         \* the pid of the backend that each connection gets

Conns == 1..MaxConns

ASSUME PoolAssumption ==
    /\ Kinds \subseteq {"query", "disconnect", "cancel"}
    /\ MaxConns \in Nat /\ MaxOpen \in Nat
    /\ RetryMax \in [Tasks -> Nat]

\* The server gives no pid 0, and none twice (with the same secret).
ASSUME PidAssumption ==
    /\ Pid \in [Conns -> Nat \ {0}]
    /\ \A c, d \in Conns : Pid[c] = Pid[d] => c = d

VARIABLES
    tls,   \* is_ssl_ of the route's tasks
    task,  \* the tasks
    conn   \* the connections, numbered as they are opened

vars == <<tls, task, conn>>

Outcomes == {"SUCCESS", "ECONNRESET", "ERROR"}

\* A task: its request, the connection of its round (0: none), is_user_request_,
\* is_ssl_ and get_seq() = 0, startup_resp_ ("null": not made; "version": it has negotiated
\* another version) and the pid in it, the byte of ssl_resp_, the pid in the response of the
\* request, the key a cancel carries; ghost: a backend ran it. A pid stands for itself and
\* the secret that comes with it; 0 is none.
TaskRecord ==
    [pc : {"new", "dispatch", "wait", "handle", "done", "crashed"},
     kind : {"query"} \cup Kinds, c : 0..MaxConns, isUser : BOOLEAN, sslRound : BOOLEAN,
     sresp : {"null", "ok", "version", "error"}, spid : Nat, sslResp : {"null", "S", "N"},
     outcome : Outcomes, retries : Nat,
     respPid : Nat, key : Nat, ran : BOOLEAN]

\* A connection: its place in the pool, state of its context (0: no context; 3 also
\* stands for 4, which only fixed connections tell apart) and the pid in the context, the
\* backend and its transaction state, the message on the wire and the answer ("sealed":
\* the startup packet inside TLS); ghost: on a plain route, something happened to it
\* from outside.
ConnRecord ==
    [st : {"unopened", "idle", "busy", "closed", "deleted"}, ctx : 0..Established,
     ctxPid : Nat,
     be : {"none", "new", "plain", "tls", "secure", "auth", "ready", "gone"}, tx : TxStates,
     msg : {"none", "ssl", "hello", "startup", "sealed", "reply", "query"} \cup Kinds,
     ans : TxStates \cup StartupAnswers \cup {"S", "N", "hello"}, fault : BOOLEAN]

TypeOK ==
    /\ tls \in BOOLEAN
    /\ task \in [Tasks -> TaskRecord]
    /\ conn \in [Conns -> ConnRecord]

\* is_ssl_required
SslRequired(scheme, sslmode) ==
    \/ scheme = "postgresqls"
    \/ sslmode \in {"require", "verify-ca", "verify-full"}

NewTask ==
    [pc |-> "new", kind |-> "query", c |-> 0, isUser |-> TRUE, sslRound |-> FALSE,
     sresp |-> "null", spid |-> 0, sslResp |-> "null", outcome |-> "SUCCESS",
     retries |-> 0, respPid |-> 0, key |-> 0, ran |-> FALSE]

NewConn ==
    [st |-> "unopened", ctx |-> NoContext, ctxPid |-> 0, be |-> "none", tx |-> "I",
     msg |-> "none", ans |-> "I", fault |-> FALSE]

Init ==
    /\ \E scheme \in Schemes, sslmode \in SslModes : tls = SslRequired(scheme, sslmode)
    /\ task = [t \in Tasks |-> NewTask]
    /\ conn = [c \in Conns |-> NewConn]

---------------------------------------------------------------------------
\* The parts of ComplexPostgresTask, on a connection c.

\* message_out mutant: the startup packet goes out whenever there is no context.
OutWithoutSeq(t, c) ==
    IF task[t].kind # "cancel" /\ conn[c].ctx = 0 THEN IF tls THEN "ssl" ELSE "startup"
    ELSE IF tls /\ conn[c].ctx = 1 THEN "hello"
    ELSE IF tls /\ conn[c].ctx = 2 THEN "sealed"
    ELSE task[t].kind

\* What message_out sends next. On a used socket without a context it is the request.
Out(t, c) ==
    IF task[t].kind # "cancel" /\ conn[c].st = "unopened" THEN IF tls THEN "ssl" ELSE "startup"
    ELSE IF tls /\ conn[c].ctx = 1 THEN "hello"
    ELSE IF tls /\ conn[c].ctx = 2 THEN "sealed"
    ELSE task[t].kind

\* message_in mutant: the answers on every established connection go to a wrapper.
ReadsAnswerUnlessEstablished(t) == conn[task[t].c].ctx < 2

\* message_in: the bytes reach a response. Inside TLS they do not: wrap_ssl keeps the
\* wrapper made around the startup packet, and PostgresRequest::append only stores them.
ReadsAnswer(t) == ~(tls /\ conn[task[t].c].ctx >= 2)

\* append() of startup_resp_ mutant: a pid that is there stays.
FirstPidStays(t) ==
    LET c == task[t].c IN
    IF TellsPid(conn[c].ans) /\ task[t].spid = 0 THEN Pid[c] ELSE task[t].spid

\* append() of startup_resp_: the pid it has after the answer of the round. It is made
\* once per task and keeps what an earlier round has left in it.
PidRead(t) ==
    LET c == task[t].c IN IF TellsPid(conn[c].ans) THEN Pid[c] ELSE task[t].spid

\* The backend_pid in the context of connection c, 0 without a context.
ContextPid(c) == IF c # 0 THEN conn[c].ctxPid ELSE 0

\* get_backend_credentials of a task in a round: its connection's, else the response's.
Credentials(q) ==
    IF ContextPid(task[q].c) # 0 THEN ContextPid(task[q].c) ELSE task[q].respPid

\* keep_alive_timeout mutant: pooled sockets in a transaction stay.
StaysInTransaction(t, a) ==
    ~task[t].isUser \/ (task[t].kind = "query" /\ a # "E")

\* A disconnect and a cancel are treated alike once they are sent.
KindOf(t) == IF task[t].kind = "cancel" THEN "disconnect" ELSE task[t].kind

\* keep_alive_timeout of a pooled task after a complete round.
Stays(t, a) == KeepsSocket(KindOf(t), task[t].isUser, a, FALSE)

\* handle() mutant: a reset is success for every request.
HandledAsSuccess(t) ==
    IF task[t].outcome = "ECONNRESET" THEN "SUCCESS" ELSE task[t].outcome

\* handle(): a reset ends a disconnect and a cancel as expected, in whatever round.
Handled(t) == HandledOutcome(KindOf(t), task[t].outcome)

\* handle_starttls_transition mutant: the handshake is taken for done.
ContextAfterSslSkips == 2

\* handle_starttls_transition: the new context waits for the handshake.
ContextAfterSsl == 1

---------------------------------------------------------------------------
\* The application.

Start(t, k) ==
    /\ task[t].pc = "new" /\ k # "cancel"
    /\ k = "disconnect" => \A u \in Tasks : task[u].kind # "disconnect"
    /\ task' = [task EXCEPT ![t].pc = "dispatch", ![t].kind = k]
    /\ UNCHANGED <<tls, conn>>

\* create_cancel_task(q) and start(), while q is in a round.
CreateCancel(t, q) ==
    /\ task[t].pc = "new" /\ "cancel" \in Kinds
    /\ task[q].pc = "wait" /\ task[q].kind = "query"
    /\ task' = [task EXCEPT ![t].pc = "dispatch", ![t].kind = "cancel",
                            ![t].key = Credentials(q)]
    /\ UNCHANGED <<tls, conn>>

---------------------------------------------------------------------------
\* The rounds of a task.

Idle == {c \in Conns : conn[c].st = "idle"}
Busy == {task[t].c : t \in {u \in Tasks : task[u].pc = "wait" /\ task[u].kind # "cancel"}}

\* message_out on connection c, which the round now holds.
SendOn(t, c) ==
    LET out == Out(t, c) IN
    /\ task' = [task EXCEPT ![t].pc = "wait", ![t].c = c, ![t].isUser = (out \in Kinds),
                            ![t].sslRound = (tls /\ conn[c].st = "unopened")]
    /\ conn' = [conn EXCEPT ![c] =
          [conn[c] EXCEPT !.st = "busy", !.be = IF @ = "none" THEN "new" ELSE @,
                    !.msg = out]]
    /\ UNCHANGED tls

\* An idle socket of the route is used again; a cancel's route never has one.
UseIdle(t, c) ==
    /\ task[t].pc = "dispatch" /\ task[t].kind # "cancel"
    /\ conn[c].st = "idle"
    /\ SendOn(t, c)

NeedsConnection(t) ==
    /\ task[t].pc = "dispatch"
    /\ task[t].kind = "cancel" \/ (Idle = {} /\ Cardinality(Busy) < MaxOpen)

Connect(t, c) ==
    /\ NeedsConnection(t)
    /\ conn[c].st = "unopened" /\ \A d \in 1..(c - 1) : conn[d].st # "unopened"
    /\ SendOn(t, c)

ConnectFail(t) ==
    /\ NeedsConnection(t)
    /\ task' = [task EXCEPT ![t].pc = "handle", ![t].outcome = "ERROR", ![t].c = 0]
    /\ UNCHANGED <<tls, conn>>

\* The round is over, and the socket may be used again.
Released(k) == [k EXCEPT !.st = "idle", !.msg = "none", !.ans = "I"]

\* The socket is closed; its context can still be read in handle().
Closed(k) == [k EXCEPT !.st = "closed", !.msg = "none", !.ans = "I", !.tx = "I", !.be = "gone"]

\* append() of the round's response returns 1, and keep_alive_timeout decides.
Receive(t) ==
    LET c == task[t].c
        a == conn[c].ans
    IN
    /\ task[t].pc = "wait" /\ conn[c].msg = "reply" /\ ReadsAnswer(t)
    /\ task' = [task EXCEPT ![t] =
          [task[t] EXCEPT !.pc = "handle", !.outcome = "SUCCESS",
                    !.sslResp = IF a \in {"S", "N"} THEN a ELSE @,
                    !.sresp = StartupRead(@, a), !.spid = PidRead(t)]]
    /\ conn' = [conn EXCEPT ![c] = IF Stays(t, a) THEN Released(@) ELSE Closed(@)]
    /\ UNCHANGED tls

\* What a round that ends early has left in startup_resp_: nothing more than before; or
\* message_in has made it for the first bytes of an answer; or they were most of the
\* answer on the wire. Inside TLS (state 2) it is made as well, but reads nothing.
Partly(t) ==
    LET k == conn[task[t].c]
        old == [sresp |-> task[t].sresp, spid |-> task[t].spid]
        made == [old EXCEPT !.sresp = IF @ = "null" THEN "ok" ELSE @]
        most == {[sresp |-> StartupRead(old.sresp, k.ans), spid |-> p] :
                    p \in {old.spid, PidRead(t)}}
    IN IF task[t].isUser \/ (tls /\ k.ctx # 2) THEN {old}
       ELSE {old, made} \cup
            (IF ~tls /\ k.msg = "reply" /\ TellsPid(k.ans) THEN most ELSE {})

\* The round ends without a complete response.
Break(t, errno) ==
    /\ \E s \in Partly(t) :
          task' = [task EXCEPT ![t] = [task[t] EXCEPT !.pc = "handle", !.outcome = errno,
                                              !.sresp = s.sresp, !.spid = s.spid]]
    /\ conn' = [conn EXCEPT ![task[t].c] = Closed(@)]
    /\ UNCHANGED tls

PeerClosed(t) ==
    task[t].pc = "wait" /\ conn[task[t].c].be = "gone" /\ Break(t, "ECONNRESET")

Timeout(t) == task[t].pc = "wait" /\ Break(t, "ERROR")

---------------------------------------------------------------------------
\* handle() and finish_once().

InRound(t) == task[t].pc = "handle"
Succeeded(t) == InRound(t) /\ Handled(t) = "SUCCESS"
SslRound(t) == task[t].sslRound
Handshaking(t) == ~SslRound(t) /\ tls /\ conn[task[t].c].ctx = 1
StartupRound(t) == ~SslRound(t) /\ ~Handshaking(t) /\ ~task[t].isUser

\* The context, and the pid in it, are set on the task's connection, which it no longer
\* needs then. A closed connection is deleted when no task needs it.
Leaves(t, ctx, pid) ==
    LET needed == {task[u].c : u \in {v \in Tasks \ {t} : task[v].pc \in {"wait", "handle"}}} IN
    conn' = [c \in Conns |->
        IF conn[c].st = "closed" /\ c \notin needed THEN [NewConn EXCEPT !.st = "deleted"]
        ELSE IF c = task[t].c THEN [conn[c] EXCEPT !.ctx = ctx, !.ctxPid = pid]
        ELSE conn[c]]

ContextOf(c) == IF c # 0 THEN conn[c].ctx ELSE NoContext

Keeps(t) == Leaves(t, ContextOf(task[t].c), ContextPid(task[t].c))

\* The next round of the task. After a user's round on a connection with a context,
\* update_after_response has put the pid of the context into the response.
NextRound(t) ==
    [NewTask EXCEPT
        !.pc = "dispatch", !.kind = task[t].kind, !.retries = task[t].retries,
        !.sresp = task[t].sresp, !.spid = task[t].spid, !.sslResp = task[t].sslResp,
        !.key = task[t].key, !.ran = task[t].ran,
        !.respPid = IF task[t].isUser /\ ContextOf(task[t].c) # NoContext
                    THEN ContextPid(task[t].c) ELSE task[t].respPid]

\* The callback is told the outcome, and the task is deleted.
Ends(t, outcome) ==
    /\ task' = [task EXCEPT ![t] = [NewTask EXCEPT !.pc = "done", !.outcome = outcome]]
    /\ Keeps(t)
    /\ UNCHANGED tls

\* The user's round is over, and the task with it.
FinishRequest(t) ==
    /\ Succeeded(t) /\ task[t].isUser /\ ~SslRound(t) /\ ~Handshaking(t)
    /\ Ends(t, "SUCCESS")

\* The round was one of those that precede the request.
Continue(t, ctx, pid) ==
    /\ task' = [task EXCEPT ![t] = NextRound(t)]
    /\ Leaves(t, ctx, pid)
    /\ UNCHANGED tls

\* finish_once -> handle_starttls_transition: 'S' makes the context.
StartTls(t) ==
    /\ Succeeded(t) /\ SslRound(t) /\ task[t].sslResp = "S"
    /\ Continue(t, ContextAfterSsl, 0)

\* The handshake is done: startup comes next, inside TLS.
HandshakeDone(t) ==
    Succeeded(t) /\ Handshaking(t) /\ Continue(t, 2, ContextPid(task[t].c))

\* finish_once -> handle_startup_auth_completion of an accepted startup.
StartupDone(t) ==
    /\ Succeeded(t) /\ StartupRound(t) /\ task[t].sresp = "ok"
    /\ Continue(t, Established, task[t].spid)

\* The server has no TLS, create_ssl fails, the startup is refused or has negotiated
\* another version: task errors, which are not retried and set no context.
Rejected(t) ==
    /\ Succeeded(t)
    /\ \/ SslRound(t) /\ task[t].sslResp = "N"
       \/ SslRound(t) /\ task[t].sslResp = "S"
       \/ StartupRound(t) /\ task[t].sresp \in {"error", "version"}
    /\ Ends(t, "ERROR")

\* The response the round should have made does not exist, and is dereferenced.
NullResponse(t) ==
    /\ Succeeded(t)
    /\ \/ SslRound(t) /\ task[t].sslResp = "null"
       \/ StartupRound(t) /\ task[t].sresp = "null"
    /\ task' = [task EXCEPT ![t].pc = "crashed"]
    /\ UNCHANGED <<tls, conn>>

RetriesLeft(t) == task[t].retries < RetryMax[t]

\* A round that fails: Workflow dispatches the task again while it has retries left.
FailRound(t) ==
    /\ InRound(t) /\ ~Succeeded(t)
    /\ IF RetriesLeft(t)
       THEN /\ task' = [task EXCEPT ![t] = [NextRound(t) EXCEPT !.retries = @ + 1]]
            /\ Keeps(t)
            /\ UNCHANGED tls
       ELSE Ends(t, task[t].outcome)

---------------------------------------------------------------------------
\* The environment.

\* Workflow closes an idle socket: expiry, the peer, stray bytes.
IdleClose(c) ==
    /\ conn[c].st = "idle"
    /\ conn' = [conn EXCEPT ![c] = IF \E t \in Tasks : InRound(t) /\ task[t].c = c
                                   THEN Closed(@) ELSE [NewConn EXCEPT !.st = "deleted"]]
    /\ UNCHANGED <<tls, task>>

\* A backend that is not listening does not take what is on the wire.
Reply(c, a, be) ==
    /\ conn' = [conn EXCEPT ![c] = [conn[c] EXCEPT !.msg = "reply", !.ans = a, !.be = be,
                     !.fault = (@ \/ (~tls /\ a \in {"error", "unsupported"})),
                     !.tx = IF a \in TxStates THEN a ELSE @]]
    /\ UNCHANGED tls

\* The server has TLS or not.
SslAnswer(c, a) ==
    /\ conn[c].msg = "ssl" /\ conn[c].be = "new"
    /\ Reply(c, a, IF a = "S" THEN "tls" ELSE "plain")
    /\ UNCHANGED task

Handshake(c) ==
    /\ conn[c].msg = "hello" /\ conn[c].be = "tls"
    /\ Reply(c, "hello", "secure")
    /\ UNCHANGED task

TakesStartup(c) ==
    \/ conn[c].msg = "startup" /\ conn[c].be = "new"
    \/ conn[c].msg = "sealed" /\ conn[c].be = "secure"

\* The backend accepts, and tells its pid; refuses and exits; or asks for an
\* authentication the client gives up on, and waits.
StartupAnswer(c, a) ==
    /\ TakesStartup(c)
    /\ Reply(c, a, IF TellsPid(a) THEN "ready" ELSE IF a = "error" THEN "gone" ELSE "auth")
    /\ UNCHANGED task

QueryAnswer(c, a) ==
    /\ conn[c].msg = "query" /\ conn[c].be = "ready"
    /\ Reply(c, a, "ready")
    /\ task' = [t \in Tasks |->
          [task[t] EXCEPT !.ran = (@ \/ (task[t].pc = "wait" /\ task[t].c = c))]]

\* Terminate and CancelRequest end the connection, and so does a message out of place.
ServerEnds(c) ==
    /\ conn[c].msg \notin {"none", "reply"} /\ conn[c].be # "gone"
    /\ ~(conn[c].msg = "ssl" /\ conn[c].be = "new")
    /\ ~(conn[c].msg = "hello" /\ conn[c].be = "tls")
    /\ ~TakesStartup(c)
    /\ ~(conn[c].msg = "query" /\ conn[c].be = "ready")
    /\ conn' = [conn EXCEPT ![c].be = "gone"]
    /\ UNCHANGED <<tls, task>>

\* A backend that dies while its socket is idle is one that dies as soon as it is used.
ServerDies(c) ==
    /\ conn[c].st = "busy" /\ conn[c].be # "gone"
    /\ conn' = [conn EXCEPT ![c].be = "gone", ![c].fault = ~tls]
    /\ UNCHANGED <<tls, task>>

---------------------------------------------------------------------------
Crashed == \E t \in Tasks : task[t].pc = "crashed"

\* The application has no more requests, or the process is gone.
Halted ==
    /\ Crashed \/ \A t \in Tasks : task[t].pc \in {"new", "done"}
    /\ UNCHANGED vars

Dispatched(t) == \E c \in Conns : UseIdle(t, c) \/ Connect(t, c)

Completed(t) ==
    \/ FinishRequest(t) \/ StartTls(t) \/ HandshakeDone(t) \/ StartupDone(t)
    \/ Rejected(t) \/ NullResponse(t) \/ FailRound(t)

Runs(t) ==
    Dispatched(t) \/ ConnectFail(t) \/ Receive(t) \/ PeerClosed(t) \/ Completed(t)

Client(t) ==
    \/ \E k \in Kinds : Start(t, k)
    \/ \E q \in Tasks \ {t} : CreateCancel(t, q)
    \/ Runs(t) \/ Timeout(t)

Server(c) ==
    \/ \E a \in {"S", "N"} : SslAnswer(c, a)
    \/ Handshake(c)
    \/ \E a \in StartupAnswers : StartupAnswer(c, a)
    \/ \E a \in TxStates : QueryAnswer(c, a)
    \/ ServerEnds(c)

Next ==
    \/ ~Crashed /\ \E t \in Tasks : Client(t)
    \/ ~Crashed /\ \E c \in Conns : Server(c) \/ ServerDies(c) \/ IdleClose(c)
    \/ Halted

Spec == Init /\ [][Next]_vars

\* Workflow runs what is ready and a live backend answers; starting tasks, timeouts,
\* closing idle sockets and crashes are never forced.
Fairness ==
    /\ \A t \in Tasks : WF_vars(Runs(t))
    /\ \A c \in Conns : WF_vars(Server(c))

FairSpec == Spec /\ Fairness

---------------------------------------------------------------------------
\* A statement that reaches a backend on this route finds it outside any
\* transaction: a socket in a transaction, failed or not, is never handed to
\* another task (keep_alive_timeout; README.md:33).
NoForeignTransaction ==
    \A c \in Conns : conn[c].msg = "query" /\ conn[c].be = "ready" => conn[c].tx = "I"

\* create_cancel_task for a task whose request runs on a session of a plain route that the
\* client knows of takes the pid that this session's backend has told, which reaches it
\* through the startup response of any task and the context of the connection: not one
\* that the startup or the response of the task has kept from an earlier round
\* (get_backend_credentials; handle_startup_auth_completion).
CancelNamesRunning ==
    [][\A t, q \in Tasks :
          /\ CreateCancel(t, q)
          /\ ~tls /\ task[q].isUser /\ conn[task[q].c].ctx = Established
          => task'[t].key = Pid[task[q].c]]_vars

\* On a TLS route no startup packet, which may carry a password, leaves in the clear,
\* and what is sent inside TLS meets a backend that has finished the handshake.
StartupInsideTls ==
    tls => \A c \in Conns :
        /\ conn[c].msg # "startup"
        /\ conn[c].msg = "sealed" => conn[c].be \in {"secure", "auth", "ready", "gone"}

\* A statement on a plain route is reset only if something happened to its connection
\* from outside: a socket taken between the startup answer and finish_once(), still
\* without its context, is used as the established session it is (message_out).
ResetHasCause ==
    \A t \in Tasks :
        /\ ~tls /\ task[t].pc = "handle" /\ task[t].kind = "query"
        /\ task[t].outcome = "ECONNRESET"
        => conn[task[t].c].fault

\* A task that reports success for a statement: a backend has run it (handle()).
OkMeansRan ==
    [][\A t \in Tasks :
          /\ task[t].kind = "query" /\ task[t].pc # "done"
          /\ task'[t].pc = "done" /\ task'[t].outcome = "SUCCESS"
          => task[t].ran]_vars

\* On a plain route tasks that were started end, all of them, however they share and
\* lose their connections, unless the process is gone (done, finish_once).
PoolTaskCompletes ==
    (~tls /\ \E t \in Tasks : task[t].pc = "dispatch")
    ~> (Crashed \/ \A t \in Tasks : task[t].pc \in {"new", "done"})

\* README.md:35 promises "network transport errors" in the task's status. Claimed
\* here: no task uses a startup or SSL response its rounds never made.
NoNullResponse == \A t \in Tasks : task[t].pc # "crashed"

\* README.md:341 lists "Encrypted STARTTLS connection". Claimed here: an answer on
\* the wire goes to a response that reads it.
AnswerHasReader ==
    \A t \in Tasks : task[t].pc = "wait" /\ conn[task[t].c].msg = "reply" => ReadsAnswer(t)
=============================================================================
