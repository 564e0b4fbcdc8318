----------------------------- MODULE PgExtended -----------------------------
(***************************************************************************)
(* Requests of the extended query protocol on one session: the application *)
(* sets a statement with its parameters on a PostgresRequest, encode()     *)
(* makes Parse, Bind, Describe, Execute and Sync of it, the backend        *)
(* prepares and runs the statement, which gives its parameters back as a   *)
(* row, and the application reads that row with the accessors of           *)
(* PostgresCell. A count is written in 16 bits, here modulo Words.         *)
(***************************************************************************)
EXTENDS PgValues

CONSTANTS Int16s, Int32s, Int64s,   \* integers to send as int16, int32 and int64; those that
                                    \* are not negative also as their unsigned types
          Micros,       \* points in time to send, in microseconds from 1970
          Chars,        \* characters of strings and elements of arrays
          Zones,        \* the time zones a session may be in, in seconds
          Names,        \* names of prepared statements
          Words,        \* how many numbers a 16 bit field can hold
          MaxLength,    \* bound: bytes, characters of a string, elements of an array
          MaxParams,    \* bound: parameters of a request
          MaxRequests   \* bound: requests on the session

\* The range of the signed integers of width bytes.
SignedRange(width) == -(Capacity(width) \div 2)..(Capacity(width) \div 2 - 1)

ASSUME ExtendedAssumption ==
    /\ Int16s \subseteq SignedRange(2)
    /\ Int32s \subseteq SignedRange(4)
    /\ Int64s \subseteq SignedRange(8)
    /\ Micros \subseteq Int /\ Zones \subseteq Int
    /\ Words \in Nat \ {0}
    /\ MaxLength \in Nat /\ MaxParams \in Nat /\ MaxRequests \in Nat

VARIABLES zone,      \* the session: its time zone, and its prepared statements by the
          prepared,  \* types of their parameters
          req,       \* the request: params_, statement_name_, skip_parse_, result_format_;
                     \* what the application gave, and the kind of its statement
          reply,     \* the backend's reply: an error, or a row and a command tag
          pc, count

vars == <<zone, prepared, req, reply, pc, count>>

Unprepared == <<"none">>

\* Bytes, strings and arrays, with elements of S.
Limited(S) == UNION {[1..k -> S] : k \in 0..MaxLength}

\* The values of the C++ types that PostgresValue takes.
Values ==
    {[type |-> "int16", v |-> n] : n \in Int16s} \cup {[type |-> "int32", v |-> n] : n \in Int32s}
    \cup {[type |-> "int64", v |-> n] : n \in Int64s}
    \cup {[type |-> "uint16", v |-> n] : n \in (Int16s \cup Int32s) \cap 0..(Capacity(2) - 1)}
    \cup {[type |-> "uint32", v |-> n] : n \in (Int32s \cup Int64s) \cap 0..(Capacity(4) - 1)}
    \cup {[type |-> "uint64", v |-> n] : n \in {m \in Int64s : m >= 0} \cup {Capacity(8) - 1}}
    \cup {[type |-> "bool", v |-> b] : b \in BOOLEAN}
    \cup {[type |-> "time", v |-> n] : n \in Micros}
    \cup {[type |-> "bytes", v |-> s] : s \in Limited(0..(ByteBase - 1))}
    \cup {[type |-> "string", v |-> s] : s \in Limited(Chars)}
    \cup {[type |-> "int32s", v |-> s] : s \in Limited(Int32s)}
    \cup {[type |-> "int64s", v |-> s] : s \in Limited(Int64s)}
    \cup {[type |-> "strings", v |-> s] : s \in Limited(Limited(Chars))}

Bool == [type |-> "bool", v |-> TRUE]

\* n parameters, the k-th of them NULL.
List(n, k) == [i \in 1..n |-> IF i = k THEN [type |-> "null"] ELSE Bool]
Lists == UNION {{List(n, k) : k \in 0..MaxParams} : n \in 0..MaxParams}

\* Requests for one value of any type, and requests with many parameters, some for a
\* statement prepared by an earlier one.
Given ==
    {[params |-> <<v>>, name |-> "", skip |-> FALSE, stmt |-> "SELECT"] : v \in Values}
    \cup {g \in [params : Lists, name : Names \cup {""}, skip : BOOLEAN,
                  stmt : {"SELECT", "INSERT", "CREATE"}] :
             g.skip => g.name # ""}

Init ==
    /\ zone \in Zones
    /\ prepared = [n \in Names |-> Unprepared]
    /\ req = <<>> /\ reply = <<>>
    /\ pc = "idle" /\ count = 0

\* params_, from the values the application gives.
Params(given) == [i \in DOMAIN given.params |-> Parameter(given.params[i])]

\* A new task's request: set_query(sql, ...), set_statement_name, set_skip_parse,
\* set_result_format.
SetQuery ==
    /\ pc = "idle" /\ count < MaxRequests
    /\ \E g \in Given, f \in {"text", "binary"} :
          req' = [given |-> g, format |-> f, params |-> Params(g)]
    /\ pc' = "sent" /\ count' = count + 1
    /\ reply' = <<>>
    /\ UNCHANGED <<zone, prepared>>

---------------------------------------------------------------------------
\* encode_extended_query. A field of a message is a 16 bit word or a parameter.

Word(n) == [field |-> "word", n |-> n % Words]
Value(p) == [field |-> "value", p |-> p]

\* Parse: the number of parameters and their types.
ParseFields(params) ==
    <<Word(Len(params))>> \o [i \in DOMAIN params |-> Value(params[i].oid)]

\* Mutant: a NULL is left out of the values.
BindFieldsWithoutNulls(params, format) ==
    <<Word(Len(params))>> \o [i \in DOMAIN params |-> Word(0)]
    \o <<Word(Len(params))>>
    \o SelectSeq([i \in DOMAIN params |-> Value(params[i])], LAMBDA f : ~f.p.is_null)
    \o <<Word(1), Word(format)>>

\* Bind: the formats of the parameters, the parameters, the format of the result.
BindFields(params, format) ==
    <<Word(Len(params))>> \o [i \in DOMAIN params |-> Word(0)]
    \o <<Word(Len(params))>> \o [i \in DOMAIN params |-> Value(params[i])]
    \o <<Word(1), Word(format)>>

---------------------------------------------------------------------------
\* The backend.

\* The parameters of a Bind message whose parts are as long as its counts say.
Bound(fields) ==
    LET formats == fields[1].n
        n == fields[2 + formats].n
    IN  IF /\ 2 + formats <= Len(fields) /\ fields[2 + formats].field = "word"
           /\ Len(fields) = 4 + formats + n
           /\ \A i \in 3 + formats .. 2 + formats + n : fields[i].field = "value"
        THEN [ok |-> TRUE, params |-> [i \in 1..n |-> fields[2 + formats + i].p]]
        ELSE [ok |-> FALSE, params |-> <<>>]

Row(oids, params, format) ==
    [i \in DOMAIN params |->
        IF params[i].is_null THEN NullCell(format)
        ELSE Cell(oids[i], In(oids[i], params[i].data).datum, format, zone)]

\* A command tag is a sequence of words and numbers.
Name(w) == [word |-> w, n |-> 0]
Number(n) == [word |-> "", n |-> n]

Tag(stmt, rows) ==
    CASE stmt = "SELECT" -> <<Name("SELECT"), Number(rows)>>
      [] stmt = "INSERT" -> <<Name("INSERT"), Number(0), Number(rows)>>
      [] stmt = "CREATE" -> <<Name("CREATE"), Name("TABLE")>>

\* A Parse message declares as many types as it says; a name is given once. The unnamed
\* statement lasts until the next request.
ParseOk(fields, name) ==
    Len(fields) = 1 + fields[1].n /\ (name = "" \/ prepared[name] = Unprepared)

\* A type that is left open becomes text.
Types(fields) ==
    [i \in 1..fields[1].n |->
        IF fields[i + 1].p = "UNSPECIFIED" THEN "TEXT" ELSE fields[i + 1].p]

\* The backend runs the messages of the request up to the first that fails.
Serve ==
    LET g == req.given
        parse == ParseFields(req.params)
        bind == Bound(BindFields(req.params, IF req.format = "binary" THEN 1 ELSE 0))
        parsed == g.skip \/ ParseOk(parse, g.name)
        oids == IF g.skip THEN prepared[g.name] ELSE Types(parse)
    IN
    /\ pc = "sent"
    /\ prepared' = IF parsed /\ ~g.skip /\ g.name # "" THEN [prepared EXCEPT ![g.name] = oids]
                   ELSE prepared
    /\ reply' =
          IF /\ parsed /\ bind.ok /\ oids # Unprepared /\ Len(oids) = Len(bind.params)
             /\ \A i \in DOMAIN oids :
                   bind.params[i].is_null \/ In(oids[i], bind.params[i].data).ok
          THEN [error |-> FALSE, oids |-> oids, row |-> Row(oids, bind.params, req.format),
                tag |-> Tag(g.stmt, 1)]
          ELSE [error |-> TRUE]
    /\ pc' = "read"
    /\ UNCHANGED <<zone, req, count>>

---------------------------------------------------------------------------
\* The application reads.

\* PostgresStatus::from_task of a task whose round was complete.
Ok == ~reply.error

\* Mutant: the second word is the number of rows.
AffectedRowsSecond(tag) == IF Len(tag) >= 2 THEN tag[2].n ELSE 0

\* parse_command_tag_parts: the last word, if it is a number.
AffectedRows(tag) == IF tag[Len(tag)].word = "" THEN tag[Len(tag)].n ELSE 0

\* The application is done with the reply; its next request is a new task.
Done ==
    /\ pc = "read"
    /\ pc' = "idle" /\ req' = <<>> /\ reply' = <<>>
    /\ UNCHANGED <<zone, prepared, count>>

Next == SetQuery \/ Serve \/ Done

Spec == Init /\ [][Next]_vars

---------------------------------------------------------------------------
\* What the accessors are known not to give back: as_int of a negative int2 in binary,
\* the elements of an array in text (README.md of this directory).
KnownLoss(value, format) ==
    \/ value.type = "int16" /\ format = "binary" /\ value.v < 0
    \/ value.type \in {"strings", "int32s", "int64s"} /\ format = "text"

Reads(i) == Access(req.given.params[i].type, reply.row[i])

\* A statement that runs has all the parameters that were given: more than a count can
\* tell are refused, not cut off. A value that goes through PostgresValue, the backend and
\* the accessor of its type is the value that was given, in either format, or errno is
\* set: no value is changed silently, when the statement was prepared for its type.
ReadsWhatWasGiven ==
    pc = "read" /\ Ok =>
        /\ Len(reply.row) = Len(req.given.params)
        /\ \A i \in DOMAIN req.given.params :
              LET value == req.given.params[i] IN
              IF value.type = "null" THEN reply.row[i].is_null
              ELSE \/ reply.oids[i] # req.params[i].oid
                   \/ KnownLoss(value, req.format)
                   \/ Reads(i).errno
                   \/ Reads(i).v = value.v

\* as_datetime gives the same instant in UTC whatever the format and the time zone of the
\* session, its microseconds never negative; a local time one second before 1970 is not
\* converted (timegm returns -1 for it).
DatetimeIsUtc ==
    pc = "read" /\ Ok =>
        \A i \in DOMAIN req.given.params :
            LET value == req.given.params[i]
                tm == AsDatetime(reply.row[i])
            IN  value.type = "time" =>
                \/ tm.errno
                \/ req.format = "text" /\ reply.row[i].data.sec = -1
                \/ /\ tm.v.usec \in 0..(MicrosPerSecond - 1)
                   /\ tm.v.sec * MicrosPerSecond + tm.v.usec = value.v

\* A request is refused only for its count of parameters, a name in use, or a statement
\* that was not prepared for so many parameters: what PostgresValue and encode() make of
\* any value, a NULL included, is well formed.
FailsWithCause ==
    [][Serve /\ reply'.error =>
          LET g == req.given IN
          \/ Len(g.params) >= Words
          \/ ~g.skip /\ g.name # "" /\ prepared[g.name] # Unprepared
          \/ g.skip /\ (prepared[g.name] = Unprepared \/ Len(prepared[g.name]) # Len(g.params))
      ]_vars

\* get_affected_rows is the number of rows of the statement, 0 for one that has none,
\* whatever words its tag has (parse_command_tag_parts).
TagTells ==
    pc = "read" /\ Ok =>
        AffectedRows(reply.tag) = (IF req.given.stmt = "CREATE" THEN 0 ELSE 1)

\* README.md:26 promises a "Symmetrical PostgreSQL type matrix in `PostgresValue` and
\* `PostgresCell` (integers, ...". Claimed here: every integer reads back.
SymmetricMatrix ==
    pc = "read" /\ Ok =>
        \A i \in DOMAIN req.given.params :
            LET value == req.given.params[i] IN
            value.type \in Ints => Reads(i).errno \/ Reads(i).v = value.v
=============================================================================
