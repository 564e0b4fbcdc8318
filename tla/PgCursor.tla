------------------------------ MODULE PgCursor ------------------------------
(***************************************************************************)
(* A PostgresResultCursor over the buffer of one finished response. The    *)
(* reply is a sequence of backend messages, by their type byte; the cursor *)
(* is its position in them and what parse_metadata last found.             *)
(* PostgresResult.cc; PostgresParser.cc for the classification.            *)
(***************************************************************************)
EXTENDS Naturals, Sequences, FiniteSets, PgBackend

CONSTANTS MaxFrames,  \* bound: messages of a reply
          Frames      \* the messages that occur

ASSUME CursorAssumption == MaxFrames \in Nat /\ Frames \subseteq FrameTypes

VARIABLES
    reply,    \* the messages in the response's buffer
    phase,    \* where the backend is in its reply
    pos,      \* cursor_: the next message, 0 before there is a cursor
    done,     \* current_result_set_done_
    fields,   \* fields_: the RowDescription they come from, or 0
    tag,      \* command_tag_: the CommandComplete it comes from, or 0
    row,      \* ghost: the last row delivered, or 0
    seen,     \* ghost: all rows delivered
    unordered, \* ghost: a row was delivered again, or after a later one
    moves,    \* ghost: how often next_result_set has returned true
    drained,  \* ghost: fetch_row has returned false in this result set
    skipped,  \* ghost: next_result_set was called before that
    over      \* ghost: next_result_set has returned false

cursorVars == <<pos, done, fields, tag>>
ghostVars == <<row, seen, unordered, moves, drained, skipped, over>>
vars == <<reply, phase, cursorVars, ghostVars>>

RowFrames == {"D", "d"}

TypeOK ==
    /\ reply \in Seq(FrameTypes) /\ Len(reply) <= MaxFrames
    /\ phase \in Phases
    /\ pos \in 0..Len(reply) + 1 /\ done \in BOOLEAN
    /\ fields \in 0..Len(reply) /\ tag \in 0..Len(reply)
    /\ row \in 0..Len(reply) /\ seen \subseteq 1..Len(reply)
    /\ moves \in 0..MaxFrames /\ unordered \in BOOLEAN
    /\ drained \in BOOLEAN /\ skipped \in BOOLEAN /\ over \in BOOLEAN

Init ==
    /\ reply = << >> /\ phase = "between"
    /\ pos = 0 /\ done = FALSE /\ fields = 0 /\ tag = 0
    /\ row = 0 /\ seen = {} /\ unordered = FALSE /\ moves = 0
    /\ drained = FALSE /\ skipped = FALSE /\ over = FALSE

---------------------------------------------------------------------------
\* The scanning loops.

End == Len(reply) + 1

\* The first message of one of the types S at or after position p. Every loop
\* also stops at a malformed frame.
First(p, S) ==
    LET hits == {i \in p..Len(reply) : reply[i] \in S \cup {"X"}}
    IN IF hits = {} THEN End ELSE CHOOSE i \in hits : \A j \in hits : i <= j

At(p) == IF p \in 1..Len(reply) THEN reply[p] ELSE "none"

\* parse_metadata mutant: the tag is not cleared.
MetadataKeepsTag(p) ==
    LET i == First(p, {"T", "C"} \cup RowFrames) IN
    [pos    |-> IF At(i) \in RowFrames \cup {"none"} THEN i ELSE i + 1,
     done   |-> At(i) = "C",
     fields |-> IF At(i) = "T" THEN i ELSE 0,
     tag    |-> IF At(i) = "C" THEN i ELSE tag]

\* parse_metadata from position p: the fields or the tag of the result set that
\* starts there. A row without a description is left for fetch_row.
Metadata(p) ==
    LET i == First(p, {"T", "C"} \cup RowFrames) IN
    [pos    |-> IF At(i) \in RowFrames \cup {"none"} THEN i ELSE i + 1,
     done   |-> At(i) = "C",
     fields |-> IF At(i) = "T" THEN i ELSE 0,
     tag    |-> IF At(i) = "C" THEN i ELSE 0]

SetCursor(c) ==
    pos' = c.pos /\ done' = c.done /\ fields' = c.fields /\ tag' = c.tag

\* What fetch_row(row) stops at.
Fetched == First(pos, RowFrames \cup {"C", "Z"})
HasRow ==
    /\ ~done /\ pos < End
    /\ At(Fetched) = "d" \/ (At(Fetched) = "D" /\ fields # 0)

\* Mutant: the row is not consumed.
AfterRowStays == Fetched

\* The position behind the row delivered.
AfterRow == Fetched + 1

\* Mutants: the end is looked for although it is known; it is never looked for.
EndOfSetAlways == First(pos, {"C", "Z"})
EndOfSetNever == pos - 1

\* next_result_set first looks for the end of the current result set, if that is
\* not known yet, then for the start of the following one.
EndOfSet == IF done THEN pos - 1 ELSE First(pos, {"C", "Z"})
EndAt == IF done THEN "done" ELSE At(EndOfSet)
StartsSet == {"T", "D", "C"}
Following == First(EndOfSet + 1, StartsSet \cup {"Z"})

\* Mutant: the cursor stays when there is no other result set.
AfterLastStays == pos

\* The position when there is no other result set.
AfterLast ==
    IF At(Following) = "X" THEN pos ELSE IF Following = End THEN End ELSE Following + 1

---------------------------------------------------------------------------
\* The backend's reply, and the cursor made over it.
Send(t) ==
    /\ pos = 0 /\ phase \notin Settled /\ MaySend(phase, t)
    /\ Len(reply) < MaxFrames
    /\ reply' = Append(reply, t) /\ phase' = PhaseAfter(phase, t)
    /\ UNCHANGED <<cursorVars, ghostVars>>

Create ==
    /\ pos = 0 /\ phase \in Settled
    /\ SetCursor(Metadata(1))
    /\ UNCHANGED <<reply, phase, ghostVars>>

\* fetch_row returns true.
FetchRow ==
    /\ pos > 0 /\ HasRow
    /\ pos' = AfterRow
    /\ row' = Fetched /\ seen' = seen \cup {Fetched}
    /\ unordered' = (unordered \/ Fetched <= row)
    /\ UNCHANGED <<reply, phase, done, fields, tag, moves, drained, skipped, over>>

\* fetch_row returns false: the result set is over, or the row cannot be read
\* and the cursor stays.
FetchNoRow ==
    /\ pos > 0 /\ ~HasRow
    /\ IF done \/ pos >= End \/ At(Fetched) \in {"D", "X"}
       THEN UNCHANGED cursorVars
       ELSE /\ pos' = IF Fetched = End THEN End ELSE Fetched + 1
            /\ done' = (Fetched # End)
            /\ tag' = IF At(Fetched) = "C" THEN Fetched ELSE tag
            /\ UNCHANGED fields
    /\ drained' = TRUE
    /\ UNCHANGED <<reply, phase, row, seen, unordered, moves, skipped, over>>

\* next_result_set returns true, at the start of another result set. It may go on
\* doing so on a malformed reply, and only there; the bound is for those.
NextResultSet ==
    /\ pos > 0 /\ moves < MaxFrames
    /\ EndAt \notin {"X", "Z"} /\ At(Following) \in StartsSet
    /\ SetCursor(Metadata(Following))
    /\ moves' = moves + 1
    /\ skipped' = (skipped \/ ~drained) /\ drained' = FALSE
    /\ UNCHANGED <<reply, phase, row, seen, unordered, over>>

\* It returns false: the reply ends with the current result set, or is malformed
\* and the cursor stays where it was.
NoResultSet ==
    /\ pos > 0
    /\ \/ EndAt = "X" /\ UNCHANGED <<pos, done, tag>>
       \/ EndAt = "Z" /\ pos' = EndOfSet + 1 /\ done' = TRUE /\ UNCHANGED tag
       \/ /\ EndAt \notin {"X", "Z"} /\ At(Following) \notin StartsSet
          /\ done' = (done \/ EndAt = "C")
          /\ tag' = IF EndAt = "C" THEN EndOfSet ELSE tag
          /\ pos' = AfterLast
    /\ over' = TRUE /\ skipped' = (skipped \/ ~drained)
    /\ UNCHANGED <<reply, phase, fields, row, seen, unordered, moves, drained>>

Next ==
    \/ \E t \in Frames : Send(t)
    \/ Create
    \/ FetchRow \/ FetchNoRow \/ NextResultSet \/ NoResultSet

Spec == Init /\ [][Next]_vars

\* A step of the loops of test_fuzzer.cc:26-37: all rows, then the next result set.
WalkStep ==
    \/ FetchRow
    \/ ~drained /\ FetchNoRow
    \/ drained /\ (NextResultSet \/ NoResultSet)

\* Any calls may be made; an application that walks the reply goes on until it is told
\* that there is no other result set.
FairSpec ==
    /\ Spec
    /\ WF_vars(Create)
    /\ WF_vars(~over /\ WalkStep)

---------------------------------------------------------------------------
\* Properties.

\* The number of the statement a message belongs to.
StatementOf(i) == 1 + Cardinality({j \in 1..i - 1 : reply[j] = "C"})
WellFormed == \A i \in 1..Len(reply) : reply[i] # "X"
FramesOf(types, n) == {i \in 1..Len(reply) : reply[i] \in types /\ StatementOf(i) = n}

\* No row comes twice, and none after a later one, whatever calls are made.
RowsInOrder == ~unordered

\* A row comes out of the result set the application is in: the one after as many
\* successful next_result_set calls, however many rows it left unread. It is read with
\* the description of that result set; COPY data with none.
RowsOfCurrentSet ==
    [][row' # row =>
          /\ StatementOf(row') = moves + 1
          /\ FramesOf({"T"}, moves + 1) = {fields} \ {0}]_vars

\* Once a result set is done its tag is the one that ended it, or none if it failed
\* (on a malformed reply, next_result_set may leave the tag of the set before).
TagOfCurrentSet ==
    done /\ WellFormed =>
        FramesOf({"C"}, moves + 1) = IF tag = 0 THEN {} ELSE {tag}

\* When there is no other result set, the cursor has been at the last one, and an
\* application that has read every result set to its end before it asked for the next
\* one has all rows of queries ...
WalkSeesRows ==
    over =>
        /\ \A i \in 1..Len(reply) : reply[i] \in StartsSet => StatementOf(i) <= moves + 1
        /\ ~skipped => {i \in 1..Len(reply) : reply[i] = "D"} \subseteq seen

\* "No other result set" stays the answer, but for malformed replies.
FalseIsFinal == [][over /\ WellFormed => moves' = moves]_vars

\* The walk ends.
WalkEnds == phase \in Settled ~> over

---------------------------------------------------------------------------
\* ... and, as "Returns false if no more rows" (PostgresResult.h:135) says of
\* fetch_row, which delivers COPY data as rows, all rows of COPY TO STDOUT.
WalkSeesCopyRows == over /\ ~skipped => {i \in 1..Len(reply) : reply[i] = "d"} \subseteq seen
=============================================================================
