# wf-postgres in TLA+

A verification project for wf-postgres, an asynchronous PostgreSQL client for
the Workflow task engine. The modules model the client's own logic as
`src/` has it; PostgreSQL, the network and Workflow are the environment.
Paths below are relative to the repository (`src/`).

## The system

| part | state it keeps | operations |
|---|---|---|
| task state machine, `src/factory/PostgresTaskImpl.cc` (`ComplexPostgresTask`) | per task: `is_user_request_`, `user_request_started_`, startup/TLS messages; per socket: `PostgresConnection` (`state`, `protocol_state`, backend key); per route: `RouteTarget::state` (continuity) | `message_out`, `message_in`, `keep_alive_timeout`, `finish_once`, `handle`, `init_success`; `check_reconnect_guard`, `validate_request`, `update_after_response` |
| fixed connection, `include/WFPostgresConnection.h`, `src/client/WFPostgresConnection.cc` | `last_tx_state_`, `backend_pid_`, `backend_secret_data_`, URL with a unique `transaction=` id | `init`, `deinit`, `create_query_task`, `create_disconnect_task`, `create_cancel_task` |
| response reader, `src/protocol/PostgresResponse.cc`, `PostgresStream.cc` | `buf_`, `cursor_`, error, COPY flags, transaction state, notices, notifications | `append` per chunk, `clear_buffer`, `get_copy_data`, `is_copy_done` |
| message parser, `src/protocol/PostgresParser.cc`, `PostgresWireUtil.h` | none | classification and parsing of one backend message |
| result cursor and cells, `src/protocol/PostgresResult.cc` | position, field descriptions, command tag, `current_result_set_done_` | `fetch_row`, `fetch_all`, `..._copy`, `next_result_set`, move; cell conversions |
| request encoding, `src/protocol/PostgresRequest.cc`, `include/PostgresValue.h` | request flags and parameters | `encode` and its helpers, `bind_params` |
| authentication, `src/auth/` | SCRAM nonce, salted password, auth message | `process_auth_request`, `generate_client_*_message`, `verify_server_signature` |
| TLS, `PostgresTaskImpl.cc`, `PostgresSSLMessage.h` | `ssl`, `wrapper`, `state` 1 and 2 | SSLRequest, handshake, wrapping |
| status and types, `include/PostgresStatus.h`, `PostgresTypes.h`, `WFPostgresError.h` | none | mapping of task state and response to a status |
| Workflow, PostgreSQL (external) | routes, idle sockets, timers; sessions | dispatch, retry, keep-alive; answers |

How they interact. The application makes a task from a connection object and
starts it. Workflow finds the route of the URL and a socket on it, or connects.
On a new socket `message_out` (sequence number 0, no context) sends the startup
packet; `finish_once` makes the `PostgresConnection` context and the task goes
round again with the user's request, behind the reconnect guard and
`validate_request`. The answer is read by `PostgresResponse::append`, chunk by
chunk; `keep_alive_timeout` decides whether the socket stays; `handle` writes
what is known into the socket's context, the route and the connection object.
The callback then reads the rows through a cursor over the response's buffer.

What is hard here. The three places that remember a session (socket, route,
connection object) have different lifetimes and are written at different steps.
A socket may be lost at any moment, noticed or not; an answer may be lost after
the request has run; a task may be retried; COPY and notification rounds end
without ReadyForQuery. The list, line by line, is `hazards` in `PROJECT.json`.

Correctness, per part:

- task and fixed connection: no statement is continued on a session other than
  the one that holds its transaction, COPY or subscription; nothing is sent
  twice; client and backend agree on COPY mode and transaction state; a failed
  transaction's socket is not reused; every task ends in one callback.
- response reader: what is read does not depend on chunk boundaries; a round
  stops exactly at its last message.
- cursor: every row of every result set once and in order, with the fields and
  the tag of its own result set.
- authentication: the messages of the handshake come in order, and the session
  starts only when both sides are done with it.
- values: a value sent and read back is the same value.

## Modules

| module | models |
|---|---|
| `PgTaskOps` | the decisions of `PostgresTaskImpl.cc` about one request as operators: reconnect guard, `validate_request`, `update_after_response`, `keep_alive_timeout`, what `handle` stores; and what `append` makes of the answer to a startup packet |
| `LogicalSession` | abstract: the session a `WFPostgresConnection` promises (README.md, "Connection lifecycle") |
| `PgFixedConn` | one connection object, its tasks one at a time, its route, socket and backend; no TLS |
| `PgFixedConnProofs` | the theorems about `PgFixedConn` |
| `PgPool` | several tasks sharing the connections of one pooled route, plain or TLS, with cancel tasks |
| `PgPoolProofs` | the theorems about `PgPool` |
| `MCPool` | which tasks TLC retries in `PgPool`, and pids that are not the numbers of connections |
| `PgValues` | operators: what `PostgresValue`, PostgreSQL and the accessors of `PostgresCell` make of a value |
| `PgExtended` | requests of the extended protocol on a session, with `PgValues` for their parameters and rows |
| `PgExtendedProofs` | the theorems about `PgExtended` |
| `MCExtended` | the values TLC gives `PgExtended` |
| `PgBackend` | external: which message a PostgreSQL backend may send after which, used by `PgResponse` and `PgCursor` |
| `PgBackendProofs` | lemmas about `PgBackend` that both use |
| `PgResponse` | `PostgresResponse::append` over one round, the bytes cut into chunks anywhere |
| `PgResponseProofs` | the theorems about `PgResponse` |
| `PgCursor` | a `PostgresResultCursor` over the messages of one finished response |
| `PgCursorProofs` | the theorems about `PgCursor` |
| `PgAuth` | the authentication handshake of a startup round, over the attempts of a task |
| `PgAuthProofs` | the theorems about `PgAuth` |
| `PgCells` | what cells, cursors and the response point to, while they are moved, copied, detached and destroyed |
| `PgCellsProofs` | the theorems about `PgCells` |

### State of PgFixedConn

| variable | code |
|---|---|
| `cont` | `RouteTarget::state` (`PG_CONTINUITY_NEW`, `'I'`, `'T'`, `'E'`, `PG_CONTINUITY_UNKNOWN`) |
| `lastTx`, `pid` | `last_tx_state_`, `backend_pid_` of the connection object; a pid is the number of its session |
| `sock`, `connState`, `proto` | the socket and its `PostgresConnection`: `state` (3 `Established`, 4 `InUse`, 0 also for "no context yet") and `protocol_state` |
| `pc`, `kind`, `isUser`, `started`, `sresp`, `outcome`, `retries` | the task: where it is, its request, `is_user_request_`, `user_request_started_`, `startup_resp_`, the state and error given to `handle`, `retry_times` |
| `sess`, `be`, `tx`, `copying`, `wire`, `ans` | the backend behind the socket and what is on the wire |
| `orphan`, `sent`, `report`, `answered` | ghosts, read by properties only |

A round is dispatch (`ConnectOk`, `ConnectFail`, `RefuseByGuard`,
`RefuseByState`, `SendRequest`: one call of `message_out` or a connect), then
the answer or its loss (`ReceiveReply`, `PeerClosed`, `Timeout`: the reply with
`message_in` and `keep_alive_timeout`), then `handle` and `finish_once`
(`FinishRequest`, `FinishDisconnect`, `FailUser`, `StartupDone`,
`StartupRejected`, `StartupNull`, `FailStartup`).

`startup_resp_` (`sresp`) is not made, good, an error, or one that has negotiated
another major version; it is made once per task, so a lost round leaves in it what
had arrived (`Partly`). `Startups` are the ways in which the server answers a
startup packet. `SameMajor` says that it speaks the major version it is asked for,
which every PostgreSQL server does; the run and all theorems but `TypeCorrect` are
about such servers. With any other, the next task finds the socket of the rejected
startup without a context, `check_reconnect_guard` is not consulted, and a session
that can run requests gets one: `NoSqlOnReplacement` would not hold.

### State of PgPool

| variable | code |
|---|---|
| `tls` | `is_ssl_` of the tasks, from the scheme and `sslmode` of the URL |
| `task[t]` | `pc`; its request (`kind`); the socket of its round (`c`); `is_user_request_` (`isUser`); whether the round has `is_ssl_` and sequence number 0 (`sslRound`); `startup_resp_` and the `backend_pid` in it (`sresp`, `spid`); `ssl_resp_`; the result given to `handle`; `retry_times`; `backend_pid` of its response (`respPid`); the key a cancel carries |
| `conn[c]` | where the socket is (`st`), `PostgresConnection::state` and `backend_pid` (`ctx`, `ctxPid`), the backend (`be`, `tx`), what is on the wire (`msg`, `ans`) |
| `ran`, `fault` | ghosts |

A round takes an idle socket (`UseIdle`) or a new one (`Connect`), and
`message_out` sends what `Out` says; `Receive` gives the socket back or closes
it; `handle` and `finish_once` come later (`StartTls`, `HandshakeDone`,
`StartupDone`, `FinishRequest`, `Rejected`, `NullResponse`, `FailRound`), so
another task may use the socket in between, with or without its context. The
context of a closed socket can be read until the task lets go of it, which is
when the record becomes `deleted`. A cancel task has a route of its own
(`cancel=1` in the URL) and never keeps a socket.

`Pid[c]` is the pid, and with it the secret, of the backend behind connection `c`. The
client has it from the answer to the startup packet only: `append` puts it into
`startup_resp_` (`PidRead`), `handle_startup_auth_completion` from there into the
context of the task's connection, `update_after_response` into the response of
a task whose user round is over, and `get_backend_credentials` reads the context or else
that response. Each of the three may hold the pid of an earlier round: `startup_resp_` is
made once per task, and a round that breaks leaves in it what had arrived (`Partly`).
A server that answers the SSLRequest with 'S' may find the client unable to make an
`SSL` object; then, as without TLS on the server, after a rejected startup or with
another major version, the task fails and its socket stays without a context
(`Rejected`).

### State of PgExtended

| variable | code |
|---|---|
| `req` | the `PostgresRequest`: `params_`, `statement_name_`, `skip_parse_`, `result_format_`; `given` is what the application gave |
| `reply` | error, or the row with the types of its columns, and the command tag |
| `zone`, `prepared` | the backend's session |

`SetQuery` is the application with `set_query` and the other setters, `Serve`
is `encode_extended_query` and the backend, `Done` the end of the task. A byte
of `PgValues` has four values, so that an `int16` is -8..7 and an `int64` fits
TLC's integers, with the same overflows at the same places; a second has 100
microseconds of two digits, a minute two seconds. Dates are numbers of seconds.
A string is a sequence of the characters that array text treats differently
(quote, backslash, comma) and one other.

### State of PgResponse

| variable | code |
|---|---|
| `round` | `is_startup_`; a wait round is one with `notify_mode_` |
| `stream`, `phase` | the messages the backend has sent, and where it is in `PgBackend`'s flow |
| `buf`, `cur` | the size of `buf_` in bytes, `cursor_` in messages |
| `pc`, `chunk` | between the calls of `append`, inside its loop, or returned 1; its `*size` |
| `isError`, `ready`, `copyIn`, `answered` | `is_error_`, `ready_for_query_`, `is_copy_in_`, answers to authentication messages |
| `ended`, `taken` | ghosts: the message that ends the round for the backend; bytes accepted |

`Arrive(n)` is the entry of `append` with a chunk of `n` bytes, `TakeFrame` one
iteration of its loop, `ReturnMore` its return of 0. Every message is `Size`
bytes long, so a chunk may end before, in or behind a length field; different
lengths would add nothing that the loop tells apart. The socket is read on
after a return of 0 only. One round is modelled: `clear_buffer` starts the next
from the same state. `X` is a frame with a length below 4.

### State of PgCursor

| variable | code |
|---|---|
| `reply` | the buffer of the response, a sequence of message types |
| `pos` | `cursor_`, as the number of the next message |
| `done`, `fields`, `tag` | `current_result_set_done_`; `fields_` and `command_tag_` by the message they were read from, 0 if empty |
| `row`, `seen`, `unordered`, `moves`, `drained`, `skipped`, `over` | ghosts: what the calls have returned so far |

First the backend's reply is sent (`Send`), then a cursor is made over it
(`Create`) and any calls of `fetch_row` (`FetchRow` returns true, `FetchNoRow`
false) and `next_result_set` (`NextResultSet`, `NoResultSet`) are made in any
order. `fetch_all` is a sequence of `fetch_row`. The loops over `next_frame` are
one operator, `First`. A row of a statement always parses, one without fields
never does. `WalkStep` is a
step of the loops of `test/test_fuzzer.cc:26-37`. On a malformed reply `next_result_set`
may return true for ever; `MaxFrames` bounds how often it does.

### State of PgCells

| variable | code |
|---|---|
| `short` | whether the reply fits into the `std::string` object (see below) |
| `alive` | the objects that exist: the task with its response, the cursors |
| `buf`, `auth` | `buf_` and `auth_` of the response in the task, or of `owned_resp_` in a cursor |
| `cursor` | `head_` (`head`), `cursor_` as an address and an offset from it (`at`, `off`), `current_result_set_done_`, `owns_resp_`, and which vector `fields_` is |
| `cells` | `data_`, `field_`, `storage_` and what the cell is: null, empty, or a value; the row it shows |
| `gens` | the vectors of descriptions filled so far: a pointer names its vector, and one that no cursor has any more dangles |
| `readers`, `got`, `torn` | ghosts: cursors made so far; the result set and row that the application has reached with each; a cursor has read something else than what comes after it, or at an address without the reply |

A `std::vector` that is moved keeps its elements where they are, so moving one moves
its name. The bytes of a `std::string` are either on the heap, and keep their address
(`Heap`), or, if they are few, in the object itself: then they are at another address
after every move, and a pointer to the old one is wrong (`Addr`). A reply of that
length is a CommandComplete and a ReadyForQuery. `Moved` is the body of the move
constructor and of `operator=`: members are taken over, the offset is computed from
the source's pointers, which are still there (`Offset`), and an owning target sets
its pointers from its own buffer (`Pointed`); the source is cleared last
(`NoCursor`). The offset is the only thing that says where the cursor is: rows and
result sets are found from it, while `got` is what the application was given.

`Make` stands for both constructors with `parse_metadata`, `Fetch` and `FetchEnd` for
`fetch_row` returning true and false and, with `copy`, for `fetch_row_copy`; one cell
stands for the row; `NextResultSet` and `NoMoreSets` are `next_result_set`. The
application reads with a cursor that does not own its response only while the
task's response has the reply.

### State of PgAuth

| variable | code |
|---|---|
| `pc`, `attempt` | the task: between attempts, reading, or ended with success, with the error of the round, or after its last retry |
| `pass`, `unsupported` | `pass_` and `internal_error_` of `startup_resp_` |
| `scram` | `PostgresAuth::scram_auth_`: whether it exists, `client_nonce`, `salted_password_cache`, `auth_message` |
| `down`, `up` | the messages on the wire |
| `stored`, `method`, `phase`, `exchange` | the backend |
| `used`, `broken` | ghosts: the client nonces; the attempt had a message that is not as it should be |

Each action of the client is one branch of `process_auth_request`. Hashes are
terms (`Mac`, `Hash`, `Salted`, `Md5`), equal only if what was hashed is equal;
the proof is the pair from which the backend recovers the client key. Frames
too short for their fields, base64 and the order of attributes in server-first
are left out: a server-first message with an attribute missing or wrong stands
for them.

### The environment, and what it assumes

- A fixed route has at most one socket and, as README.md:283 asks, its tasks
  run one after another. A pooled route has up to `MaxOpen` sockets; when they
  are all busy, the next task waits.
- In `PgPool` a task that cannot connect fails with one error, and so do
  timeouts; at most one disconnect task is made; a backend that dies while its
  socket is idle does so when it is used next.
- A reused idle socket has a sequence number above 0, so `message_out` goes
  straight to the user's request, context or not. A null result of
  `message_out` closes the socket and fails the task with errno.
- Only system errors are retried, while `retry_times < retry_max`; task errors
  never. Tasks made by a `WFPostgresConnection` have `retry_max` 0;
  a `RetryMax` above 0 stands for a `transaction=` URL given to the task factory.
- `keep_alive_timeout` runs before `handle`; the context of a socket that is
  closed in between is still readable in `handle`.
- The idle socket may go at any time: expiry, the peer, stray bytes. The
  backend may die at any time, the client noticing only when it reads.
- The backend is PostgreSQL: a query outside COPY ends in any transaction state
  or starts a COPY; a failed statement in COPY leaves it; in place of an answer
  to an authentication request anything else ends the session.
- An ECONNRESET while connecting is left out (the other errors of connecting
  are one, `ECONNREFUSED`). A notification wait has notify mode set on its
  response, as `test/test_notify.cc` uses it.
- A retried startup begins with an empty buffer. In the code `startup_resp_` is
  made once per task, so a startup cut inside a message leaves bytes before the
  answer of the next attempt (`hazards`); the models keep what whole messages
  have left in it, version and pid.
- A backend tells a pid that is not 0 and, with its secret, not another's, in every
  startup it accepts.
- `PgExtended`: the backend takes a Parse with as many types as it says, a name
  once, and a Bind whose parts are as long as its counts say; it writes times
  in the session's zone. Only prepared statements with a name are used again.

Fairness. `FairSpec` of `PgFixedConn`: Workflow runs a task that is ready, a
live backend answers, the network delivers what was sent, and the end of the
stream is noticed: weak fairness on these actions. Starting tasks, timeouts,
idle expiry and crashes are never forced.

- `FairSpec` of `PgPool`: each task that can go on does so (Workflow dispatches,
  reads, and calls `handle`), each backend that has something to answer does.
  Starting tasks, timeouts, closing idle sockets and crashes are never forced.
- `FairSpec` of `PgResponse`: bytes that were sent arrive, and `append` goes on
  to its end. The backend is never forced to send, and it waits for the answer
  to a challenge.
- `FairSpec` of `PgCursor`: an application that walks a reply goes on until it
  is told that there is no other result set; other calls may come in between.
- `FairSpec` of `PgAuth`: what was sent is read, and a backend that has its
  answer goes on. Losing the connection is never forced. What `feedback()` is
  given arrives. Random numbers do not repeat.
- The replies in `PgBackend` are those of the simple query protocol and of one
  extended query: statements with and without rows, COPY in both directions,
  errors, notices and notifications in between, startup, notification waits.

## Runs

Bounds: `MaxTasks` tasks are started one after another, `MaxSessions` sessions
opened. A lost session, its replacement and the task that must be refused need
two sessions and three tasks; 5 tasks and 3 sessions leave room for a
disconnect and a second loss. Every kind of request is in `Kinds` unless a run
says otherwise.

| run | shows |
|---|---|
| `fixed_conn` | all properties of `PgFixedConn`, its inductive invariant and that it implements `LogicalSession`; 5 tasks of every kind, 3 sessions, 1 retry |
| `pool` | all properties of `PgPool`; 2 tasks of every kind, one of them with 1 retry, 3 connections of which 2 at a time, plain and TLS |
| `pool_null_response` | finding: a pooled disconnect task whose startup is lost early reads a null response |
| `tls_startup` | finding: the answer to the startup packet inside TLS is read by nobody |
| `values` | all properties of `PgExtended`; 2 requests, values at the ends of every type, strings and arrays of up to 2, both formats, 4 time zones, up to 5 parameters where a count holds 3 |
| `values_int2` | finding: a negative smallint in binary is read as an unsigned number |
| `response_round` | `append` stops with the backend, accounts for every byte, succeeds only when the backend is ready, and never waits while the backend does; 5 messages of 2 bytes, all three kinds of round |
| `cursor_calls` | every reply of up to 7 messages and every sequence of calls: order, result set, fields, tag, nothing missed, the walk ends |
| `cursor_copy_second` | finding: the rows of a COPY TO STDOUT behind another statement are lost |
| `cells_moves` | two cursors, two cells, a reply of two result sets of two rows or one short enough for the string object: a cell of the current result set can be read, a detached one keeps its value, a moved cursor goes on where it was, nothing has two owners |
| `auth_handshake` | three attempts, five methods, two passwords, a salt that may change between attempts: the right password is accepted, a malformed exchange never succeeds, client and server stay in step, nonces are fresh, every attempt ends |
| `cells_detached` | finding: a detached cell's description goes with the cursor |

The properties of `fixed_conn`: `NoSqlOnReplacement` (no request is acted on
after unfinished work was lost, until a disconnect succeeds),
`ProtocolStateAgrees` (COPY mode), `LastTxConfirmed` (transaction state on
route, connection object and backend), `NoPoisonedSocket`, `CancelKeyCurrent`,
`OriginalSession`, `AtMostOnce` (a request goes out at most once, retries
included), `IdleLossReconnects` (the request after a completed response that
reported 'I', if a plain query, is not refused for continuity), `TaskCompletes` (every
dispatched task ends; `MaxSessions` makes the losses under one task finite).

The properties of `pool`: `NoForeignTransaction` (a statement never meets a
transaction another task has left), `StartupInsideTls` (on a TLS route no startup
packet in the clear), `ResetHasCause` (a task that takes a socket before its
context is set is not reset for it), `CancelNamesRunning` (the pid a cancel gets is
that of the backend on the statement's connection), `OkMeansRan` (success
of a statement: a backend ran it), `PoolTaskCompletes`. One retry is what leaves a
pid of a lost session in `startup_resp_` or in the response. `CancelNamesRunning` is
about sessions the client has a context of: in a round that took a socket before
its context was set there is only the response's pid, if any. Two tasks are enough for
each to take the socket the other has just given back; the third connection is
for a cancel or for the loss of one of the first two. On a TLS route tasks end by
timeout only and no session is ever established (`tls_startup`), so
`PoolTaskCompletes` and `CancelNamesRunning` are about plain ones.

The properties of `values`: `ReadsWhatWasGiven` (a statement runs with all
its parameters, and a value comes back as it was or errno is set), `DatetimeIsUtc`, `FailsWithCause` (nothing is refused but what has to
be), `TagTells`. Two requests are one that prepares a statement and one that uses
it. Known losses, left out of `ReadsWhatWasGiven`: a negative smallint in binary
(`values_int2`), and an array in text, of which `as_array` gives no element and
does not set errno. `DatetimeIsUtc` leaves out the local time one second before
1970, which `as_datetime` does not convert because `timegm` returns -1 for it.

Two bytes are the least length with a place to cut a message. Five messages hold
a handshake with a challenge, its last word, Ok, the end of startup and one
message behind it; or an error between statements with the ReadyForQuery and one
more. Seven messages hold two result sets with rows and their ends, or a COPY
behind a statement (six).

With a malformed frame (`X`) in the reply, `next_result_set` returns false
without moving and may later return true again, so `FalseIsFinal` and
`TagOfCurrentSet` are about the well-formed ones. `append` has reported such a reply as
an error.

Three attempts of the handshake are one more than it takes to meet state left by
another attempt.

Two cursors are enough for any move (a chain of moves alternates between them)
and for a second cursor over the same response; two cells for any copy or move
of a cell; a second result set and a second row for every pointer to go stale.

These runs set `CHECK_DEADLOCK FALSE` where the system really is over:
`append` has returned 1, the reply has been read, everything is destroyed.

In the model, waiting for a notification is possible on every idle session, and
`TaskCompletes` leaves `wait` and `copyData` out: neither has an answer that must
come.

## Proofs

`PgFixedConnProofs`, for every set of kinds and all bounds:

- `TypeCorrect`: `Spec => []TypeOK`;
- `InductiveInvariant`: `Spec => []Inductive`;
- `NoSqlOnReplacementHolds`, `ProtocolStateAgreesHolds`, `LastTxConfirmedHolds`,
  `NoPoisonedSocketHolds`, `CancelKeyCurrentHolds`, `OriginalSessionHolds`,
  `AtMostOnceHolds`: `Spec => []P` for the property each is named after;
- `IdleLossReconnectsHolds`: `Spec => IdleLossReconnects`;
- `Refinement`: `Spec => RefinesLogicalSession`.

All but the first assume `SameMajor`.

`PgPoolProofs`, for any number of tasks, retries and connections:

- `PoolTypeCorrect`: `Spec => []TypeOK`, `PoolInvariant`: `Spec => []PoolInv`;
- `NoForeignTransactionHolds`, `StartupInsideTlsHolds`, `ResetHasCauseHolds`:
  the invariants;
- `OkMeansRanHolds`, `CancelNamesRunningHolds`: the action properties, the second for
  any pids the backends may tell.

`PgAuthProofs`, for any passwords and methods and any number of attempts:

- `AuthTypeCorrect`: `Spec => []TypeOK`, `AuthInvariant`: `Spec => []AuthInv`;
- `AgreedIsAcceptedHolds`, `BrokenNeverSucceedsHolds`, `InStepHolds`.

`PgCursorProofs`, for replies of any length and content, malformed ones
included:

- `CursorTypeCorrect`: `Spec => []TypeOK`;
- `RowsInOrderHolds`: `Spec => []RowsInOrder`;
- `WalkSeesRowsHolds`, `TagOfCurrentSetHolds`: `Spec => []P`;
- `RowsOfCurrentSetHolds`, `FalseIsFinalHolds`: the action properties.

`PgResponseProofs`, for every message size, every number of messages, and every
way of cutting the stream:

- `ResponseTypeCorrect`: `Spec => []TypeOK`, `RoundInvariant`: `Spec => []RoundInv`;
- `StopsWithBackendHolds`: `Spec => []StopsWithBackend`;
- `BytesAccountedHolds`: `Spec => []BytesAccounted`;
- `SuccessIsSettledHolds`: `Spec => []SuccessIsSettled`.

`PgCellsProofs`, for any number of cursors, cells, result sets and rows:

- `CellsTypeCorrect`: `Spec => []TypeOK`;
- `MovedCursorContinuesHolds`: `Spec => []MovedCursorContinues`;
- `OwnedOnceHolds`: `Spec => []OwnedOnce`;
- `DetachedKeepsValueHolds`: `Spec => []DetachedKeepsValue`;
- `CurrentReadableHolds`: `Spec => []CurrentReadable`.

`PgExtendedProofs`, for every base of the digits, any sets of values of each
type's range, strings and arrays of any length, any number of parameters and
requests, any zones:

- `SessionInvHolds`: `Spec => []SessionInv`;
- `ReadsWhatWasGivenHolds`, `DatetimeIsUtcHolds`, `TagTellsHolds`: `Spec => []P`;
- `FailsWithCauseHolds`: `Spec => FailsWithCause`.

Assumptions: `PoolAssumption` and `AuthAssumption` (the
kinds and the methods are among those modelled, the bounds are natural numbers,
the attempts at least one); `PidAssumption` (no pid is 0, and no two connections
have the same); `StartupsAssumption` (a server answers a startup packet in one of
the ways modelled), and `SameMajor` where a theorem names it; `CellsAssumption` (the names of cursors, cells and the task are
different, bounds are natural numbers); `ValuesAssumption` (a digit has at least
two values, a second as many microseconds as its digits can write, a minute at
least one second) and `ExtendedAssumption` (the integers are in the range of
their type, times and zones are integers, a count can tell at least one number
and the bounds are natural numbers); `CursorAssumption` and `ResponseAssumption` (the messages are
among those of `PgBackend`, a message has at least one byte, bounds are natural
numbers); `KindsAssumption` (the kinds are among the six) and
`BoundsAssumption` (the bounds are natural numbers).

`NoSqlOnReplacement` says nothing of the states in between, so it is not
inductive. `Inductive` adds: a socket that takes requests carries the logical
session, with nothing lost before it (`InUseShape`); after a loss the route
holds neither NEW nor 'I' (`LossIsKnown`), which rests on the continuity being
UNKNOWN while a request runs (`RunningIsUnknown`) and on answers telling the
truth (`AnswerIsTrue`); a session that has just started is on its way to the
guard (`NoContextShape`, `EstablishedShape`) and clean (`FreshIsClean`). The
step lemmas go action by action: type parts first, then `Continuation`, then the
step simulation of `LogicalSession`. Five more conjuncts, each proved inductive
over `Inductive`, carry the other properties: `ProtocolShape` (while a socket is
in use the protocol state is the backend's, or the answer that will make it so
is on its way), `StateShape` (route and connection object agree; a failed
transaction is behind an unread answer only), `SessionShape` (the session that
answered last is the one in use, with its pid), `SentShape` (a request that was
sent leaves UNKNOWN behind, which refuses the next attempt) and `ReportShape`
(an 'I' that was reported is still on the route).

`PoolInv` is about who has what. `Held`: a busy connection has one task, and no
task holds one it was not given. `OnWire`: an open transaction is on a connection
only while the answer that says so is on its way; this is
`NoForeignTransaction`, since `Receive` closes such a socket. `UserRounds`: a
statement and its answer belong to a task's user round, hence `Answered`: what is
received in it was run. `TlsRounds`: nothing but the SSLRequest and the handshake
is sent before the backend is inside TLS, whoever takes the socket in between.
`Causes`: a backend that is gone under a statement has a cause outside. `Keyed`: on a
plain route an established context holds the pid of its own connection. That needs more:
the pid in `startup_resp_` of a task whose startup has just been answered is the one
of its connection, not of an earlier attempt, until `StartupDone` has put it into the
context (`Fits` says what a task may put there). The step
lemmas are about what the actions share (`SendStep`, `RoundOverStep`, `LeavesStep`,
`TaskOnlyStep`) and then one per action.

`AuthInv` says for each phase of the backend which messages may be on the wire
(`Requests`, `Firsts`, `Lasts`). The nonce of the i-th exchange is the i-th number
(`Counts`), so it is new although the `ScramAuth` object is an old one; and the
proof the backend sees was computed from its own first message with the salt of
this attempt (`ProofSent`), so what `ScramAuth` keeps is what the signature is
checked against (`Signed`). A broken message is always unread or the end
(`BrokenNeverSucceeds`).

The rows of a cursor come in order because the last row delivered is always
before the position (`Placed`), and every scanning loop only goes forward. That
a loop finds the *first* message of its kinds is lemma `FirstFound`, on the
least-element principle for naturals (`Least`, from `WellFoundedInduction`).

The other properties of the cursor need `CursorInv`, which the bounds of
`cursor_calls` satisfy as an invariant (82,371 states). `Shape` is what the
order of the backend's messages means to a reader: a row has its description in
front of it with no end of a statement between them, descriptions of different
result sets are kept apart by an end, and the messages that settle a reply are
its last. `Tracks` says where the cursor is in it: between the description and
the end of statement `moves + 1`, or behind the end it has taken the tag of, with
nothing between that a later result set could start with. `Reads` says what
`drained` and `skipped` promise about the rows behind the cursor. Statements are
counted (`Statement`), so that two messages are compared by the ends between
them. A malformed reply needs the case `Lost`: after `next_result_set` has
returned false on a malformed frame behind a finished set (as in the reply `T D C X`) it
may take what is left of that set for others, but no description is ahead of it
and no row is delivered.

`RoundInv` adds to the two invariants that the buffer never holds more than was
sent and, inside a call, is what was accepted before plus the chunk
(`Accounts`); that `ended` names the first message at which `append` would stop,
and that before it the backend is still inside the reply (`EndKnown`); and that
`append` has not passed it (`NotPassed`). Its core is lemma `EndsAgree`: in every
phase of the backend, the messages that settle it are those at which `append`
stops. `Times` has the little arithmetic of messages and bytes.

The invariant of `PgCells` says of every object what the properties say of the
ones that exist: the buffer and `auth_` are in one object (`OneOwner`), and a cell
with storage points there, holds its row there, and has it if it is a detached value
(`CellsOwn`). Lemmas `DetachedCell` and `CopiedCell` are about the cell alone. Every
cursor that was made has a reader number of its own, which moves with its buffer
(`Origins`). `Follows` says that a cursor points where its reply now is, and relates its
offset to what the application has been given: the message ahead is the next row, the end of
the set after its last row, or the start of the next set. A move keeps it because
the offset is taken before the source is cleared and added to the new address;
`MovedCursorContinues` is that no read finds anything else. `CurrentReadable` needs one
more: a cell of a cursor's current result set has its descriptions, none being of a
later one (`CellsFrom`). So a cell whose reader is still in the cell's result set
finds both.

`SuccessIsSettled` needs `Settling`: the message that ended the round is an error or
has put the backend in a phase in which it waits, and the flags are those of the
last message taken. `PgBackendProofs` has what it and the cursor's type need of
the backend's flow.

`ReadsWhatWasGiven` rests on one lemma per type, that a value survives the way
through `PostgresValue`, the backend and its accessor in either format
(`Survives`; `ValueSurvives` puts them together): integers by width and sign
(`SignedReads`, `StrtollReads`), bytes through their hexadecimal digits
(`HexReads`), points in time through division that truncates and the backend's
that does not (`Splitting`, `TimeIn`), the fraction of a second digit by digit
(`FractionReads`), and arrays of strings through the automaton of `array_in`
(`ArrayReads`: an escaped string takes it from the opening to the closing quote
and leaves the string, `EscapedRuns` and `QuotedRuns`). Fractions, strings and arrays
have any length, so the last two are inductions. The library's induction
theorems take an operator and cannot be cited here; lemmas `Induction` and
`Recursion` state the same for sets and functions, from the well-foundedness of
`<`, and `PgValues` has recursive functions where the code has such loops. `BindReads` and `ParseReads` are about the counts: a message
with more parameters than a count can tell is never taken for one with fewer,
which is why a request that runs has all of them. `SessionInv` then says that
prepared statements have the types of named requests, and a reply the row that
`Row` makes of the parameters; the bounds of `values` satisfy it as an invariant
(180,956 states).

Only model-checked: the liveness properties `TaskCompletes`, `PoolTaskCompletes`,
`NoMutualWait`, `WalkEnds` and `HandshakeEnds` (liveness under fairness is
beyond the prover).

## Not modelled

- Parsing of URL, user, password and TLS options, and of server-first messages
  attribute by attribute; base64; the fields of the single backend messages
  (errors, notices, parameters, notifications): text with little state.
- The layout of messages other than those of the extended query: encoders
  without a decision in them.
- Floats, numeric, dates, times of day, JSON, UUID, intervals: conversions by the
  C library. A double is written with `std::to_string`, six decimals, and is not
  the same value when it is read.
- The map overloads of `fetch_row`, `get_copy_data`, `is_copy_done`: loops over
  what `PgCursor` has.
- Two tasks at a time on one fixed connection (README.md:283 asks for one after
  another), COPY and notifications on pooled routes (README.md:286).
- Data races on a string (`backend_secret_data_`), lengths of 2^32-1, TLS and
  hash libraries, certificates, logging, build files, tests and tutorials.
  `PROJECT.json`, `components`, gives the reason for each.

Behaviour of the code that the models have and a reader should know of, besides
the findings:

- A cancel task made while the first request of a session runs carries pid 0 or
  the key of an older session: `backend_pid_` is written when a request ends.
  `CancelKeyCurrent` is about sessions that have answered one.
- A refused notification wait or COPY makes the route unknown, and later plain
  queries are refused although the last state reported was 'I' (README.md:284);
  `IdleLossReconnects` is about the first request after the answer.
- `deinit` and `init` do not reset the route: after a refusal in COPY mode a
  request is refused until a disconnect task has succeeded
  (compare `test/test_state.cc:40`).
- A rejected startup keeps its socket for the next task, whose request the
  backend cannot answer.
- A server without TLS keeps its socket too, and the next task of a TLS route
  sends its request on it in the clear.
- A pooled task with `retry_max` above 0 sends its statement again when the answer
  is lost.
- The scheme `postgress` of README.md:20 and :341 is refused by `init_success`.
- A cancel reaches whatever runs on the session when it arrives, maybe another
  task's statement.
- `set_query(sql)` after `set_query(sql, params)` keeps the parameters, and
  `set_copy_data` after `set_copy_fail` is still a failure.
