----------------------------- MODULE PgResponse -----------------------------
(***************************************************************************)
(* PostgresResponse::append over one round: the bytes of the backend's     *)
(* messages arrive in chunks cut anywhere; each call takes the messages    *)
(* that are complete and says whether the round is over. Messages are Size *)
(* bytes long. PostgresResponse.cc, PostgresStream.cc.                     *)
(***************************************************************************)
EXTENDS Naturals, Sequences, FiniteSets, PgBackend

CONSTANTS MaxFrames,  \* bound: messages the backend sends
          Size,       \* bytes of a message
          Frames,     \* the messages that occur
          Rounds      \* the kinds of round: "startup", "query", "wait"

ASSUME ResponseAssumption ==
    /\ MaxFrames \in Nat /\ Size \in Nat \ {0} /\ Frames \subseteq FrameTypes
    /\ Rounds \subseteq {"startup", "query", "wait"}

VARIABLES
    round,     \* which round: is_startup_, or a wait with notify_mode_
    stream,    \* the messages sent since the round began
    phase,     \* the backend's phase
    ended,     \* ghost: the message that ends the round for the backend, or 0
    pc,        \* "read" between calls of append, "loop" inside, "done"
    buf,       \* buf_: the number of bytes in it
    cur,       \* cursor_, in messages
    chunk,     \* *size of the call
    taken,     \* ghost: bytes of the stream that calls have accepted
    isError, ready, copyIn,  \* is_error_, ready_for_query_, is_copy_in_
    answered   \* authentication messages answered (feedback)

flags == <<isError, ready, copyIn, answered>>
vars == <<round, stream, phase, ended, pc, buf, cur, chunk, taken, flags>>

FirstPhase == [startup |-> "auth", query |-> "between", wait |-> "idle"]

TypeOK ==
    /\ round \in Rounds
    /\ stream \in Seq(FrameTypes) /\ Len(stream) <= MaxFrames
    /\ phase \in Phases /\ ended \in 0..Len(stream)
    /\ pc \in {"read", "loop", "done"}
    /\ buf \in 0..Len(stream) * Size /\ cur \in 0..Len(stream)
    /\ chunk \in 0..Len(stream) * Size /\ taken \in 0..Len(stream) * Size
    /\ isError \in BOOLEAN /\ ready \in BOOLEAN /\ copyIn \in BOOLEAN
    /\ answered \in 0..Len(stream)

\* message_in: clear_buffer() and set_is_startup().
Init ==
    /\ round \in Rounds
    /\ stream = << >> /\ phase = FirstPhase[round] /\ ended = 0
    /\ pc = "read" /\ buf = 0 /\ cur = 0 /\ chunk = 0 /\ taken = 0
    /\ isError = FALSE /\ ready = FALSE /\ copyIn = FALSE /\ answered = 0

---------------------------------------------------------------------------
Challenges == Cardinality({i \in 1..Len(stream) : stream[i] = "Rask"})

\* The messages with which a backend waits for the next request, or gives up (at
\* an error in a wait round it closes the connection, which append() never sees).
EndsForBackend(t) ==
    \/ phase \notin Settled /\ PhaseAfter(phase, t) \in Settled
    \/ t = "Rbad" \/ t = "X"
    \/ round = "wait" /\ t = "A"

\* The backend sends a message; it waits for the answer to a challenge, and a
\* backend that got none stays where it is. Once the round is over there may be
\* notices and notifications still.
Send(t) ==
    /\ Len(stream) < MaxFrames /\ MaySend(phase, t)
    /\ phase = "asked" => Challenges = answered /\ stream[Len(stream)] # "Rbad"
    /\ stream' = Append(stream, t) /\ phase' = PhaseAfter(phase, t)
    /\ ended' = IF ended = 0 /\ EndsForBackend(t) THEN Len(stream) + 1 ELSE ended
    /\ UNCHANGED <<round, pc, buf, cur, chunk, taken, flags>>

\* A chunk arrives: append() begins.
Arrive(n) ==
    /\ pc = "read"
    /\ taken + n <= Len(stream) * Size
    /\ pc' = "loop" /\ chunk' = n /\ buf' = buf + n
    /\ UNCHANGED <<round, stream, phase, ended, cur, taken, flags>>

\* Mutant: the length field taken for the length of the whole message.
LengthFieldOnly(i) == i * Size - 1 <= buf

\* next_frame: message i is in the buffer to its last byte.
Complete(i) == i * Size <= buf

\* Mutants: an ErrorResponse, or a notification, ends every round.
EndsAtEveryError(t) == t \in {"E", "X", "Rbad", "Z", "G"} \/ (t = "A" /\ round = "wait")
EndsAtAnyNotification(t) == t \in {"X", "Rbad", "Z", "G", "A"} \/ (t = "E" /\ round = "startup")

\* The messages at which append() returns 1.
Ends(t) ==
    \/ t \in {"X", "Rbad", "Z", "G"}
    \/ t = "E" /\ round = "startup"
    \/ t = "A" /\ round = "wait"

\* truncate_unconsumed: what is left in the buffer after n messages.
Kept(n) == n * Size

\* Mutant: one message per call.
OncePerCall == buf - cur * Size > chunk

\* The loop goes on as long as next_frame finds a message.
LoopGoesOn == Complete(cur + 1)

\* One iteration of the loop of append(). At the end of the round the bytes behind
\* the message are given back by way of *size.
TakeFrame ==
    /\ pc = "loop" /\ LoopGoesOn
    /\ cur' = cur + 1
    /\ LET t == stream[cur + 1] IN
       /\ isError' = (isError \/ t \in {"E", "Rbad", "X"})
       /\ ready' = (t = "Z") /\ copyIn' = (t = "G")
       /\ answered' = IF t = "Rask" THEN answered + 1 ELSE answered
       /\ IF Ends(t)
          THEN /\ pc' = "done" /\ buf' = Kept(cur + 1)
               /\ taken' = taken + chunk - (buf - (cur + 1) * Size)
          ELSE UNCHANGED <<pc, buf, taken>>
    /\ UNCHANGED <<round, stream, phase, ended, chunk>>

\* No complete message is left: append() returns 0.
ReturnMore ==
    /\ pc = "loop" /\ ~LoopGoesOn
    /\ pc' = "read" /\ taken' = taken + chunk
    /\ UNCHANGED <<round, stream, phase, ended, buf, cur, chunk, flags>>

Next ==
    \/ \E t \in Frames : Send(t)
    \/ \E n \in 1..Len(stream) * Size : Arrive(n)
    \/ TakeFrame \/ ReturnMore

Spec == Init /\ [][Next]_vars

\* The network delivers what was sent, and append() runs to its end.
FairSpec ==
    /\ Spec
    /\ WF_vars(\E n \in 1..Len(stream) * Size : Arrive(n))
    /\ WF_vars(TakeFrame \/ ReturnMore)

---------------------------------------------------------------------------
\* Properties.

\* append() ends the round at the message with which the backend does, wherever
\* the chunks were cut: not at an error inside a reply, not later (PostgresResponse.
\* cc:112-184).
StopsWithBackend == pc = "done" => ended > 0 /\ cur = ended

\* Every byte of the stream is taken once, and none before it has come: between
\* calls the buffer is what has been accepted, and at the end neither holds a byte
\* past the round (append()'s *size, truncate_unconsumed).
BytesAccounted ==
    /\ cur * Size <= buf
    /\ pc = "read" => buf = taken
    /\ pc = "done" => buf = cur * Size /\ taken = cur * Size

\* A round that succeeds leaves a backend that waits for a request or COPY data.
SuccessIsSettled ==
    pc = "done" /\ ~isError =>
        /\ phase \in Settled
        /\ round # "wait" => (ready <=> stream[cur] = "Z") /\ (copyIn <=> stream[cur] = "G")

\* Client and backend never wait for each other: a challenge is answered and the
\* end of the round is noticed.
NoMutualWait ==
    /\ ended > 0 ~> pc = "done"
    /\ phase = "asked" ~> (answered = Challenges \/ pc = "done")
=============================================================================
