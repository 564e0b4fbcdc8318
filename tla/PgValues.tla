------------------------------ MODULE PgValues ------------------------------
(***************************************************************************)
(* What PostgresValue makes of a C++ value, what PostgreSQL makes of that, *)
(* and what the accessors of PostgresCell make of the answer, in the text  *)
(* and in the binary format. A byte has HexBase^2 values, so that intN is  *)
(* ByteBase^(N/8) wide and every width fits the model; a second has        *)
(* MicrosPerSecond microseconds, written with FractionDigits digits; a     *)
(* date and time is its number of seconds since 1970.                      *)
(***************************************************************************)
EXTENDS Integers, Sequences, SequencesExt

CONSTANTS HexBase,          \* the values of a hexadecimal digit, 16 in the code
          MicrosPerSecond, FractionDigits,   \* 1000000 and 6 in the code
          SecondsPerMinute,                  \* 60
          Epoch2000         \* seconds from 1970 to 2000, the epoch of PostgreSQL

ByteBase == HexBase * HexBase

\* How many numbers width bytes can hold.
Capacity(width) ==
    LET two == ByteBase * ByteBase
        four == two * two
    IN  CASE width = 2 -> two [] width = 4 -> four [] width = 8 -> four * four

\* The powers of ten that a fraction is written with.
Scale[n \in 0..FractionDigits] == IF n = 0 THEN 1 ELSE 10 * Scale[n - 1]

ASSUME ValuesAssumption ==
    /\ HexBase \in Nat /\ HexBase >= 2
    /\ FractionDigits \in Nat /\ MicrosPerSecond = Scale[FractionDigits]
    /\ SecondsPerMinute \in Nat \ {0}
    /\ Epoch2000 \in Int

Ints == {"int16", "int32", "int64", "uint16", "uint32", "uint64"}

\* The type a PostgresValue declares.
Oid(type) ==
    [bool |-> "BOOL", int16 |-> "INT2", int32 |-> "INT4", int64 |-> "INT8",
     uint16 |-> "INT4", uint32 |-> "INT8", uint64 |-> "NUMERIC", string |-> "TEXT",
     bytes |-> "BYTEA", time |-> "TIMESTAMPTZ", strings |-> "TEXT_ARRAY",
     int32s |-> "INT4_ARRAY", int64s |-> "INT8_ARRAY"][type]

Width(oid) == [INT2 |-> 2, INT4 |-> 4, INT8 |-> 8][oid]

Unsigned(n, width) == n % Capacity(width)
Signed(n, width) == IF 2 * n < Capacity(width) THEN n ELSE n - Capacity(width)
Fits(n, width) == n = Signed(Unsigned(n, width), width)

\* C++ division truncates toward zero.
Quot(a, b) == IF a < 0 THEN -((-a) \div b) ELSE a \div b
Rest(a, b) == a - b * Quot(a, b)

---------------------------------------------------------------------------
\* PostgresValue.

\* The time_point constructor: seconds and a fraction that is never negative, in UTC.
TimeText(micros) ==
    LET sec == Quot(micros, MicrosPerSecond)
        rest == Rest(micros, MicrosPerSecond)
    IN
    IF rest < 0 THEN [sec |-> sec - 1, fraction |-> rest + MicrosPerSecond, offset |-> 0]
    ELSE [sec |-> sec, fraction |-> rest, offset |-> 0]

\* The hexadecimal digits of each byte, behind "\x".
HexText(bytes) ==
    <<"b", "x">> \o [k \in 1..2 * Len(bytes) |->
        IF k % 2 = 1 THEN bytes[(k + 1) \div 2] \div HexBase ELSE bytes[k \div 2] % HexBase]

\* The array constructor: every element between quotes ("q"), every quote and
\* backslash ("b") in it behind a backslash.
Escaped(string) ==
    FlattenSeq([j \in DOMAIN string |->
        IF string[j] \in {"q", "b"} THEN <<"b", string[j]>> ELSE <<string[j]>>])
Elements(strings) ==
    FlattenSeq([i \in DOMAIN strings |->
        (IF i > 1 THEN <<",">> ELSE <<>>) \o <<"q">> \o Escaped(strings[i]) \o <<"q">>])
ArrayText(strings) == <<"{">> \o Elements(strings) \o <<"}">>

\* PostgresValue(v).to_parameter(): always text. An integer is its decimal digits, and
\* so are the elements of an array of integers.
Parameter(value) ==
    CASE value.type = "null"    -> [is_null |-> TRUE, oid |-> "UNSPECIFIED", data |-> 0]
      [] value.type \in Ints \cup {"int32s", "int64s"} ->
            [is_null |-> FALSE, oid |-> Oid(value.type), data |-> value.v]
      [] value.type = "bool"    ->
            [is_null |-> FALSE, oid |-> "BOOL", data |-> IF value.v THEN "t" ELSE "f"]
      [] value.type = "string"  -> [is_null |-> FALSE, oid |-> "TEXT", data |-> value.v]
      [] value.type = "bytes"   -> [is_null |-> FALSE, oid |-> "BYTEA", data |-> HexText(value.v)]
      [] value.type = "time"    ->
            [is_null |-> FALSE, oid |-> "TIMESTAMPTZ", data |-> TimeText(value.v)]
      [] value.type = "strings" ->
            [is_null |-> FALSE, oid |-> "TEXT_ARRAY", data |-> ArrayText(value.v)]

---------------------------------------------------------------------------
\* PostgreSQL: a datum from its text, and a datum in text and in binary.

\* array_in: where it is after a character, what it has then, and what it has after a text.
ArrayAt(at, ch) ==
    IF at = "escape" \/ (at = "in" /\ ch \notin {"q", "b"}) THEN "in"
    ELSE IF at = "in" THEN IF ch = "b" THEN "escape" ELSE "after"
    ELSE IF at = "elem" /\ ch = "q" THEN "in"
    ELSE IF at \in {"elem", "after"} /\ ch = "}" THEN "end"
    ELSE IF (at = "start" /\ ch = "{") \/ (at = "after" /\ ch = ",") THEN "elem"
    ELSE "bad"

ArrayStep(p, ch) ==
    [at |-> ArrayAt(p.at, ch),
     elem |-> IF p.at = "elem" THEN <<>>
              ELSE IF ArrayAt(p.at, ch) = "in" THEN Append(p.elem, ch) ELSE p.elem,
     elems |-> IF ArrayAt(p.at, ch) = "after" THEN Append(p.elems, p.elem) ELSE p.elems]

ArrayRun(p, text) ==
    LET run[k \in 0..Len(text)] == IF k = 0 THEN p ELSE ArrayStep(run[k - 1], text[k])
    IN  run[Len(text)]

ArrayIn(text) ==
    LET end == ArrayRun([at |-> "start", elem |-> <<>>, elems |-> <<>>], text)
    IN  [ok |-> end.at = "end", datum |-> end.elems]

ByteaIn(text) ==
    [i \in 1..((Len(text) - 2) \div 2) |-> text[2 * i + 1] * HexBase + text[2 * i + 2]]

\* The datum a text parameter of a type stands for, if it stands for one.
In(oid, text) ==
    CASE oid \in {"INT2", "INT4", "INT8"} -> [ok |-> Fits(text, Width(oid)), datum |-> text]
      [] oid = "BYTEA" -> [ok |-> TRUE, datum |-> ByteaIn(text)]
      [] oid = "TIMESTAMPTZ" ->
            [ok |-> text.fraction \in 0..(MicrosPerSecond - 1),
             datum |-> (text.sec - text.offset - Epoch2000) * MicrosPerSecond + text.fraction]
      [] oid = "TEXT_ARRAY" -> ArrayIn(text)
      [] oid \in {"BOOL", "TEXT", "NUMERIC", "INT4_ARRAY", "INT8_ARRAY"} ->
            [ok |-> TRUE, datum |-> text]

\* The digits of a fraction, its trailing zeros left out.
Fraction(micros) ==
    LET digit(i) == (micros \div Scale[FractionDigits - i]) % 10
        shown == {i \in 1..FractionDigits : \E j \in i..FractionDigits : digit(j) # 0}
    IN [i \in shown |-> digit(i)]

\* A timestamptz is written in the time zone of the session; an offset that is not a
\* number of minutes is written with its seconds.
TextOut(oid, datum, zone) ==
    CASE oid = "TIMESTAMPTZ" ->
            [sec |-> datum \div MicrosPerSecond + Epoch2000 + zone,
             fraction |-> Fraction(datum % MicrosPerSecond), offset |-> zone]
      [] oid = "BYTEA" -> HexText(datum)
      [] oid = "TEXT_ARRAY" -> ArrayText(datum)
      [] oid \notin {"TIMESTAMPTZ", "BYTEA", "TEXT_ARRAY"} -> datum

\* A numeric takes eight bytes and two for each of its digits.
BinaryOut(oid, datum) ==
    CASE oid \in {"INT2", "INT4", "INT8"} ->
            [len |-> Width(oid), data |-> Unsigned(datum, Width(oid))]
      [] oid = "NUMERIC" -> [len |-> IF datum = 0 THEN 8 ELSE 10, data |-> 0]
      [] oid = "TIMESTAMPTZ" -> [len |-> 8, data |-> datum]
      [] oid = "BOOL" -> [len |-> 1, data |-> IF datum = "t" THEN 1 ELSE 0]
      [] oid \in {"TEXT_ARRAY", "INT4_ARRAY", "INT8_ARRAY"} ->
            [len |-> 12 + (IF datum = <<>> THEN 0 ELSE 8 + 4 * Len(datum)),
             data |-> [ndim |-> IF datum = <<>> THEN 0 ELSE 1, elements |-> datum,
                       width |-> IF oid = "INT8_ARRAY" THEN 8 ELSE 4]]
      [] oid \in {"TEXT", "BYTEA"} -> [len |-> Len(datum), data |-> datum]

\* A cell of the answer. The length of a text is told apart from 0 only.
Cell(oid, datum, format, zone) ==
    IF format = "binary"
    THEN [is_null |-> FALSE, format |-> format, data |-> BinaryOut(oid, datum).data,
          len |-> BinaryOut(oid, datum).len]
    ELSE [is_null |-> FALSE, format |-> format, data |-> TextOut(oid, datum, zone),
          len |-> IF oid = "TEXT" THEN Len(datum) ELSE 2]

NullCell(format) == [is_null |-> TRUE, format |-> format, data |-> 0, len |-> 0]

---------------------------------------------------------------------------
\* PostgresCell: an accessor returns a value and may set errno.

Read(v) == [v |-> v, errno |-> FALSE]
Fail(v) == [v |-> v, errno |-> TRUE]

\* strtoll on decimal digits stops at the ends of its range, with ERANGE.
Strtoll(n) ==
    LET max == Capacity(8) \div 2 - 1 IN
    IF n > max THEN Fail(max) ELSE IF n < -max - 1 THEN Fail(-max - 1) ELSE Read(n)

\* as_int. Two bytes are read as an unsigned number.
AsInt(cell) ==
    CASE cell.is_null -> Read(0)
      [] ~cell.is_null /\ cell.format = "binary" ->
            IF cell.len = 2 THEN Read(cell.data)
            ELSE IF cell.len \in {4, 8} THEN Read(Signed(cell.data, cell.len)) ELSE Fail(0)
      [] ~cell.is_null /\ cell.format # "binary" -> Strtoll(cell.data)

\* as_bool
AsBool(cell) ==
    IF cell.is_null \/ cell.len = 0 THEN Read(FALSE)
    ELSE Read(IF cell.format = "binary" THEN cell.data # 0 ELSE cell.data = "t")

\* The digit loop of as_datetime.
ParsedFraction(digits) ==
    LET usec[k \in 0..FractionDigits] ==
          IF k = 0 THEN 0
          ELSE usec[k - 1]
               + IF k \in DOMAIN digits THEN digits[k] * Scale[FractionDigits - k] ELSE 0
    IN  usec[FractionDigits]

\* parse_timezone_offset: hours and minutes, and nothing behind them.
OffsetParses(offset) == offset % SecondsPerMinute = 0

\* as_datetime mutant: the offset of the zone is added.
AsDatetimeAddsOffset(cell) ==
    CASE cell.format = "binary" ->
            Read([sec |-> Quot(cell.data, MicrosPerSecond) + Epoch2000,
                  usec |-> Rest(cell.data, MicrosPerSecond)])
      [] cell.format = "text" /\ OffsetParses(cell.data.offset) ->
            Read([sec |-> cell.data.sec + cell.data.offset,
                  usec |-> ParsedFraction(cell.data.fraction)])
      [] cell.format = "text" /\ ~OffsetParses(cell.data.offset) ->
            Fail([sec |-> 0, usec |-> 0])

\* as_datetime: the time in UTC as the seconds of struct tm and microseconds. A local
\* time that timegm maps to -1 stays local.
AsDatetime(cell) ==
    CASE cell.format = "binary" ->
            LET sec == Quot(cell.data, MicrosPerSecond) + Epoch2000
                rest == Rest(cell.data, MicrosPerSecond)
            IN IF rest < 0 THEN Read([sec |-> sec - 1, usec |-> rest + MicrosPerSecond])
               ELSE Read([sec |-> sec, usec |-> rest])
      [] cell.format = "text" /\ OffsetParses(cell.data.offset) ->
            Read([sec |-> IF cell.data.sec # -1 THEN cell.data.sec - cell.data.offset
                          ELSE cell.data.sec,
                  usec |-> ParsedFraction(cell.data.fraction)])
      [] cell.format = "text" /\ ~OffsetParses(cell.data.offset) ->
            Fail([sec |-> 0, usec |-> 0])

\* as_time_point, in microseconds.
AsTimePoint(cell) ==
    IF cell.format = "binary" THEN Read(cell.data + Epoch2000 * MicrosPerSecond)
    ELSE LET tm == AsDatetime(cell) IN
         IF tm.errno \/ tm.v.sec = -1 THEN Fail(0)
         ELSE Read(tm.v.sec * MicrosPerSecond + tm.v.usec)

\* as_bytea: behind "\x" the digits go in pairs.
AsBytea(cell) ==
    CASE cell.is_null \/ cell.len = 0 -> Read(<<>>)
      [] cell.len > 0 /\ cell.format = "binary" -> Read(cell.data)
      [] cell.len > 0 /\ cell.format # "binary" ->
            Read([n \in 1..(Len(cell.data) - 2) \div 2 |->
                     cell.data[2 * n + 1] * HexBase + cell.data[2 * n + 2]])

\* as_array: nothing but the binary format has elements.
AsArray(cell) ==
    IF cell.format = "binary" /\ cell.len >= 12 /\ cell.data.ndim # 0
    THEN cell.data.elements ELSE <<>>

\* as_string_array
AsStrings(cell) == Read(AsArray(cell))

\* as_bigint_array mutant: elements of four bytes are taken for numbers of eight.
AsBigintsAnyWidth(cell) ==
    IF AsArray(cell) # <<>> /\ cell.data.width # 8
    THEN Read([i \in DOMAIN AsArray(cell) |-> 0]) ELSE Read(AsArray(cell))

\* as_bigint_array: as_bigint takes elements of eight bytes only.
AsBigints(cell) ==
    IF AsArray(cell) # <<>> /\ cell.data.width # 8
    THEN Fail([i \in DOMAIN AsArray(cell) |-> 0]) ELSE Read(AsArray(cell))

\* The accessor that belongs to a type.
Access(type, cell) ==
    CASE type \in Ints -> AsInt(cell)
      [] type = "bool" -> AsBool(cell)
      [] type \in {"string", "null"} -> Read(IF cell.is_null THEN <<>> ELSE cell.data)
      [] type = "bytes" -> AsBytea(cell)
      [] type = "time" -> AsTimePoint(cell)
      [] type = "strings" -> AsStrings(cell)
      [] type \in {"int32s", "int64s"} -> AsBigints(cell)
=============================================================================
