----------------------------- MODULE PgBackend -----------------------------
(***************************************************************************)
(* What a PostgreSQL backend may send, message by message: the message     *)
(* flow of the protocol, as far as PostgresResponse.cc and PostgresResult. *)
(* cc tell messages apart. External to the repository.                     *)
(***************************************************************************)
EXTENDS Naturals, Sequences

\* RowDescription, DataRow, CommandComplete, CopyOutResponse, CopyData, CopyDone,
\* ErrorResponse, CopyInResponse, ReadyForQuery, NotificationResponse,
\* BackendKeyData, and Authentication: Ok, one the client answers, one it takes
\* in silence, one it gives up on. N is any other message (notices, parameters,
\* ParseComplete, ...), X a frame whose length is below 4.
FrameTypes == {"T", "D", "C", "H", "d", "c", "E", "G", "Z", "A",
               "K", "Rok", "Rask", "Rfin", "Rbad", "N", "X"}

\* The backend's phase after each message it may send in a phase. Startup begins
\* in "auth", the reply to a query in "between", a notification wait in "idle".
Flow ==
    [auth    |-> [Rok |-> "params", Rask |-> "asked", Rfin |-> "auth", Rbad |-> "asked",
                  E |-> "dead", N |-> "auth"],
     asked   |-> [Rok |-> "params", Rask |-> "asked", Rfin |-> "auth", Rbad |-> "asked",
                  E |-> "dead"],
     params  |-> [K |-> "params", N |-> "params", E |-> "dead", Z |-> "idle"],
     between |-> [T |-> "rows", C |-> "between", H |-> "copy", E |-> "failed",
                  G |-> "copyin", Z |-> "idle", A |-> "between", N |-> "between"],
     rows    |-> [D |-> "rows", C |-> "between", E |-> "failed", N |-> "rows"],
     copy    |-> [d |-> "copy", c |-> "copied", E |-> "failed", N |-> "copy"],
     copied  |-> [C |-> "between", E |-> "failed", N |-> "copied"],
     failed  |-> [Z |-> "idle", N |-> "failed"],
     idle    |-> [A |-> "idle", N |-> "idle", E |-> "dead"],
     copyin  |-> [N |-> "copyin"],
     dead    |-> << >>,
     broken  |-> << >>]

Phases == DOMAIN Flow

\* The phases in which the reply to a request is over.
Settled == {"idle", "copyin", "dead", "broken"}

\* A malformed frame may come at any point; nothing sensible comes after it.
MaySend(phase, t) == t \in DOMAIN Flow[phase] \/ (t = "X" /\ phase \notin {"dead", "broken"})
PhaseAfter(phase, t) == IF t = "X" THEN "broken" ELSE Flow[phase][t]
=============================================================================
