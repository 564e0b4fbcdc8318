----------------------------- MODULE PgTaskOps -----------------------------
(***************************************************************************)
(* The decisions ComplexPostgresTask takes about one request, as operators *)
(* of the request kind and of the state kept on the socket (state,         *)
(* protocol_state of PostgresConnection) and on the route (continuity).    *)
(* PostgresTaskImpl.cc, with the request flags of PostgresRequest.h.       *)
(***************************************************************************)

\* What a request asks for, by the flag encode() looks at first. "wait" has
\* wait_notification_ set on the request and notify_mode_ on the response.
CopyKinds == {"copyData", "copyDone", "copyFail"}
RequestKinds == {"query", "wait", "disconnect"} \cup CopyKinds

TxStates == {"I", "T", "E"}

\* PostgresContinuityState, extended by the transaction states handle() stores.
Continuity == TxStates \cup {"NEW", "UNKNOWN"}

ProtocolStates == {"READY", "COPY_IN", "NOTIFY_WAIT", "BROKEN"}

\* PostgresConnection::state; 0 also stands for "the socket has no context yet".
NoContext == 0
Established == 3
InUse == 4

\* How a complete server answer to a request ends: ReadyForQuery with a
\* transaction state, CopyInResponse, or (in notify mode) a notification.
Answers == TxStates \cup {"copyIn", "notice"}
ReadyForQuery(ans) == ans \in TxStates

\* How a startup packet is answered: by a session, with protocol version 3 or with another
\* one; by an error; or by a request for an authentication the client has not. A session
\* tells the pid of its backend.
StartupAnswers == {"ready", "version", "error", "unsupported"}
TellsPid(a) == a \in {"ready", "version"}

\* append() of startup_resp_: what it is after the answer a to a startup packet: "null"
\* (not made), "ok", "version" (it has negotiated another major version) or "error". Only
\* a new answer that names a version would take the version away.
StartupRead(sresp, a) ==
    IF a \in {"error", "unsupported"} THEN "error"
    ELSE IF a = "version" \/ (a = "ready" /\ sresp = "version") THEN "version"
    ELSE IF a = "ready" THEN "ok" ELSE sresp

---------------------------------------------------------------------------
\* Guard mutants: no continuity test; the idle exemption given to every request;
\* and to none.
GuardAcceptsAnyRoute(k, cont, cs) == TRUE
GuardAcceptsAllOnIdle(k, cont, cs) ==
    k = "disconnect" \/ (cs = Established => cont \in {"NEW", "I"})
GuardAcceptsNewOnly(k, cont, cs) ==
    k = "disconnect" \/ (cs = Established => cont = "NEW")

\* A plain query may move to a new session when the last answer was 'I'.
AllowIdleReconnect(k) == k # "wait" /\ k \notin CopyKinds

\* check_reconnect_guard of a fixed connection, as message_out calls it.
GuardAccepts(k, cont, cs) ==
    \/ k = "disconnect"
    \/ cs # Established
    \/ cont = "NEW"
    \/ AllowIdleReconnect(k) /\ cont = "I"

\* validate_request mutant: COPY requests pass while READY.
VerdictCopyWhenReady(k, cs, p) ==
    IF cs # NoContext /\ p = "COPY_IN" /\ k \notin CopyKinds \cup {"disconnect"}
    THEN "EPROTO" ELSE "ok"

\* validate_request: the errno it refuses the request with, or "ok".
Verdict(k, cs, p) ==
    CASE cs = NoContext -> "ok"
      [] cs # NoContext /\ p = "BROKEN" -> "EBADF"
      [] cs # NoContext /\ p = "COPY_IN" ->
            IF k \in CopyKinds \cup {"disconnect"} THEN "ok" ELSE "EPROTO"
      [] cs # NoContext /\ p = "NOTIFY_WAIT" ->
            IF k = "disconnect" THEN "ok" ELSE "EPROTO"
      [] cs # NoContext /\ p = "READY" ->
            IF k \in CopyKinds THEN "EPROTO" ELSE "ok"

\* The protocol state an accepted request leaves on the socket.
StateAfterSend(k, cs, p) ==
    IF cs # NoContext /\ p = "READY" /\ k = "wait" THEN "NOTIFY_WAIT" ELSE p

\* update_after_response mutant: CopyInResponse is ignored.
StateAfterAnswerNoCopy(k, ans, p) ==
    IF k = "wait" \/ ReadyForQuery(ans) THEN "READY" ELSE p

\* update_after_response after a successful exchange. A response that never
\* saw ReadyForQuery reports the default 'I', hence READY in the last case too.
StateAfterAnswer(k, ans, p) == IF ans = "copyIn" THEN "COPY_IN" ELSE "READY"

\* keep_alive_timeout mutant: a failed transaction keeps its socket.
KeepsSocketInFailedTx(k, isUser, ans, fixed) ==
    ~isUser \/ (k # "disconnect" /\ (fixed \/ ans # "T"))

\* keep_alive_timeout after a complete round: is the socket kept (nonzero)?
\* A response without ReadyForQuery counts as its default transaction state 'I'.
KeepsSocket(k, isUser, ans, fixed) ==
    \/ ~isUser
    \/ k # "disconnect" /\ ans # "E" /\ (ans = "T" => fixed)

\* handle(): the peer closing the socket is the expected end of a disconnect.
HandledOutcome(k, outcome) ==
    IF k = "disconnect" /\ outcome = "ECONNRESET" THEN "SUCCESS" ELSE outcome

\* Mutant: message_out leaves the route's state alone.
ContinuityKeptOnSend(k, c) == c

\* The continuity while a request is under way: its result is not known.
ContinuityOnSend(k, c) == IF k = "disconnect" THEN c ELSE "UNKNOWN"

\* Mutant: an answer without ReadyForQuery counts as idle.
ContinuityAfterDefaultsIdle(ans) == IF ReadyForQuery(ans) THEN ans ELSE "I"

\* The continuity handle() stores on the route after a successful request.
ContinuityAfter(ans) == IF ReadyForQuery(ans) THEN ans ELSE "UNKNOWN"
=============================================================================
