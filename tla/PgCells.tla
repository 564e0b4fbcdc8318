------------------------------ MODULE PgCells ------------------------------
(***************************************************************************)
(* Who points where: the cells an application holds, the cursors they came *)
(* from, and the response whose buffer both read, while cursors are moved, *)
(* cells copied, moved and detached, and the task is destroyed.            *)
(* PostgresResult.h, PostgresResult.cc, PostgresResponse.cc. Objects are   *)
(* named by where they live; a pointer is the name of what it points to.   *)
(***************************************************************************)
EXTENDS Naturals, FiniteSets

CONSTANTS Cursors,    \* the application's cursor variables
          Slots,      \* the application's cell variables
          Sets,       \* bound: result sets of the reply
          Rows,       \* bound: rows of a result set
          MaxReaders  \* bound: cursors made over the response

ASSUME CellsAssumption ==
    /\ Cursors \cap Slots = {} /\ "task" \notin Cursors \cup Slots
    /\ {"none", "heap"} \cap ({"task"} \cup Cursors \cup Slots) = {}
    /\ Sets \in Nat \ {0} /\ Rows \in Nat /\ MaxReaders \in Nat

VARIABLES
    short,    \* the reply fits into the std::string object that holds it
    alive,    \* the objects that exist: cursors, and the task with its response
    buf,      \* buf_ of the response in the task or in a cursor (owned_resp_)
    auth,     \* its auth_
    cursor,   \* the cursors' own fields
    cells,    \* the cells
    gens,     \* vectors of PostgresField filled so far: fields_ is one of them
    readers,  \* ghost: cursors made so far
    got,      \* ghost: what the application has of each: its set and its last row
    torn      \* ghost: a cursor read something else than what comes after that

vars == <<short, alive, buf, auth, cursor, cells, gens, readers, got, torn>>

Places == {"task"} \cup Cursors

\* No pointer, no buffer, an empty vector.
None == "none"
TheReply == "reply"
TheAuth == "auth"
MaxGens == MaxReaders * Sets

\* Where the bytes of a response in p are: a std::string keeps a short text in itself
\* (a SET or an empty query: no rows), any other at an address that moves with it.
Heap == "heap"
Addresses == {Heap} \cup Places
Addr(p) == IF short THEN p ELSE Heap

\* The reply: for each result set a RowDescription (message 0), its rows and a
\* CommandComplete; then ReadyForQuery. A short one is its CommandComplete.
ReplySets == IF short THEN 1 ELSE Sets
ReplyRows == IF short THEN 0 ELSE Rows

\* An offset in it: the result set and the message in it that comes next.
Offsets == (1..(Sets + 1)) \X (0..(Rows + 2))
Start == <<1, 0>>

\* A cursor: head_ and cursor_, which is at + off (end_ is set whenever head_ is),
\* current_result_set_done_, owns_resp_, and fields_; ghost: which one made it is.
NoCursor == [head |-> None, at |-> None, off |-> Start, done |-> FALSE, owns |-> FALSE,
             fields |-> 0, reader |-> 0]
NoCell == [kind |-> "none", data |-> None, field |-> 0, stored |-> FALSE, storedRow |-> <<0, 0>>,
           row |-> <<0, 0>>, reader |-> 0, detached |-> FALSE]
Nothing == [owning |-> FALSE, set |-> 1, row |-> 0]

RowIds == (0..(Sets + 1)) \X (0..Rows)

CursorRecord ==
    [head : {None} \cup Addresses, at : {None} \cup Addresses, off : Offsets, done : BOOLEAN,
     owns : BOOLEAN, fields : 0..MaxGens, reader : 0..MaxReaders]

CellRecord ==
    [kind : {"none", "null", "empty", "value"}, data : {None} \cup Addresses \cup Slots,
     field : 0..MaxGens, stored : BOOLEAN, storedRow : RowIds, row : RowIds,
     reader : 0..MaxReaders, detached : BOOLEAN]

TypeOK ==
    /\ short \in BOOLEAN /\ alive \subseteq Places
    /\ buf \in [Places -> {None, TheReply}] /\ auth \in [Places -> {None, TheAuth}]
    /\ cursor \in [Cursors -> CursorRecord]
    /\ cells \in [Slots -> CellRecord]
    /\ gens \in 0..MaxGens /\ readers \in 0..MaxReaders
    /\ got \in [1..MaxReaders -> [owning : BOOLEAN, set : 1..Sets, row : 0..Rows]]
    /\ torn \in BOOLEAN

\* A finished task whose response holds the reply.
Init ==
    /\ short \in BOOLEAN /\ alive = {"task"}
    /\ buf = [p \in Places |-> IF p = "task" THEN TheReply ELSE None]
    /\ auth = [p \in Places |-> IF p = "task" THEN TheAuth ELSE None]
    /\ cursor = [c \in Cursors |-> NoCursor]
    /\ cells = [s \in Slots |-> NoCell]
    /\ gens = 0 /\ readers = 0 /\ got = [r \in 1..MaxReaders |-> Nothing] /\ torn = FALSE

---------------------------------------------------------------------------
\* Pointers.

LiveAt(a) == \E p \in alive : buf[p] = TheReply /\ Addr(p) = a
FieldsLive(g) == \E c \in Cursors \cap alive : cursor[c].fields = g

\* The row a cell's data_ shows, if it shows any.
Shows(s) ==
    LET d == cells[s].data IN
    IF d \in Slots THEN IF cells[d].stored THEN cells[d].storedRow ELSE <<0, 0>>
    ELSE IF LiveAt(d) THEN cells[s].row ELSE <<0, 0>>

\* What the accessors as_...() read: nothing of a null, the format of an empty
\* value, the data too of any other.
DataReadable(s) == cells[s].kind = "value" => Shows(s) = cells[s].row
FieldReadable(s) ==
    cells[s].kind \in {"empty", "value"} /\ cells[s].field # 0 => FieldsLive(cells[s].field)

---------------------------------------------------------------------------
\* Cursors.

\* Moving a response object: the auth_ of the target is deleted, everything is
\* taken over, and the source is left empty.
Taken(f, from, to) == [f EXCEPT ![to] = f[from], ![from] = None]

\* Mutant: the source keeps its pointer.
AuthShared(from, to) == [auth EXCEPT ![to] = auth[from]]

AuthTaken(from, to) == Taken(auth, from, to)

\* parse_metadata over result set n, into the vector g: it stops after the
\* RowDescription, or after the CommandComplete of a short reply.
Parsed(k, n, g) ==
    IF short THEN [k EXCEPT !.off = <<2, 0>>, !.done = TRUE, !.fields = 0]
    ELSE [k EXCEPT !.off = <<n, 1>>, !.done = FALSE, !.fields = g]

\* PostgresResultCursor(PostgresResponse *) and (PostgresResponse &&).
Make(c, owns) ==
    LET head == Addr(IF owns THEN c ELSE "task") IN
    /\ c \in Cursors \ alive /\ "task" \in alive /\ buf["task"] = TheReply
    /\ readers < MaxReaders /\ gens < MaxGens
    /\ alive' = alive \cup {c} /\ readers' = readers + 1 /\ gens' = gens + 1
    /\ IF owns
       THEN buf' = Taken(buf, "task", c) /\ auth' = AuthTaken("task", c)
       ELSE UNCHANGED <<buf, auth>>
    /\ cursor' = [cursor EXCEPT ![c] =
           Parsed([NoCursor EXCEPT !.head = head, !.at = head, !.owns = owns,
                                   !.reader = readers + 1], 1, gens + 1)]
    /\ got' = [got EXCEPT ![readers + 1] = [Nothing EXCEPT !.owning = owns]]
    /\ UNCHANGED <<short, cells, torn>>

\* Mutant: head_ has been cleared when the offset is computed.
OffsetAfterClear(k) == Start

\* cursor_ - head_ of the cursor that is moved from.
Offset(k) == IF k.head # None /\ k.at = k.head THEN k.off ELSE Start

\* head_ and cursor_ of the target d, which already holds the response in owned_resp_.
Pointed(k, d) ==
    IF k.owns THEN [k EXCEPT !.head = Addr(d), !.at = Addr(d), !.off = Offset(k)] ELSE k

\* Mutant: the descriptions are left behind.
MovedWithoutFields(c, d) == [Pointed(cursor[c], d) EXCEPT !.fields = 0]

\* What the target of a move gets: a vector that is moved keeps its elements where
\* they are, flags are copied, and pointers are made anew.
Moved(c, d) == Pointed(cursor[c], d)

\* PostgresResultCursor(PostgresResultCursor &&) and operator=: into a new cursor,
\* or over one whose fields_ and owned_resp_ go.
Move(c, d) ==
    /\ c \in Cursors \cap alive /\ d \in Cursors \ {c}
    /\ alive' = alive \cup {d}
    /\ buf' = Taken(buf, c, d) /\ auth' = AuthTaken(c, d)
    /\ cursor' = [cursor EXCEPT ![d] = Moved(c, d), ![c] = NoCursor]
    /\ UNCHANGED <<short, cells, gens, readers, got, torn>>

\* The cursor goes, with its fields_ and owned_resp_; or the task does.
Destroy(p) ==
    /\ p \in alive
    /\ alive' = alive \ {p}
    /\ buf' = [buf EXCEPT ![p] = None] /\ auth' = [auth EXCEPT ![p] = None]
    /\ cursor' = IF p \in Cursors THEN [cursor EXCEPT ![p] = NoCursor] ELSE cursor
    /\ UNCHANGED <<short, cells, gens, readers, got, torn>>

\* The application reads with a cursor that it made over the task's response only
\* while the reply is there. One that was moved from finds nothing and changes nothing.
Usable(c) ==
    /\ c \in alive /\ cursor[c].reader # 0
    /\ got[cursor[c].reader].owning \/ buf["task"] = TheReply

\* cursor_ does not point into a reply, or not from head_ on.
Astray(c) == cursor[c].at # cursor[c].head \/ ~LiveAt(cursor[c].at)

\* The result set that next_result_set looks for: once the CommandComplete of the
\* current one has been read, the one at cursor_.
Following(c) == cursor[c].off[1] + IF cursor[c].done THEN 0 ELSE 1

\* next_result_set returns true: parse_metadata clears and fills fields_.
NextResultSet(c) ==
    LET r == cursor[c].reader IN
    /\ Usable(c) /\ Following(c) <= ReplySets /\ gens < MaxGens
    /\ gens' = gens + 1
    /\ cursor' = [cursor EXCEPT ![c] = Parsed(cursor[c], Following(c), gens + 1)]
    /\ got' = [got EXCEPT ![r].set = Following(c), ![r].row = 0]
    /\ torn' = (torn \/ Astray(c) \/ Following(c) # got[r].set + 1)
    /\ UNCHANGED <<short, alive, buf, auth, cells, readers>>

\* It returns false, past ReadyForQuery.
NoMoreSets(c) ==
    /\ Usable(c) /\ Following(c) > ReplySets
    /\ cursor' = [cursor EXCEPT ![c].off = <<ReplySets + 1, 1>>, ![c].done = TRUE]
    /\ torn' = (torn \/ Astray(c) \/ got[cursor[c].reader].set # ReplySets)
    /\ UNCHANGED <<short, alive, buf, auth, cells, gens, readers, got>>

---------------------------------------------------------------------------
\* Cells.

\* detach(), on the cell in s.
Detached(cell, s) ==
    IF cell.kind = "value" /\ cell.data # None /\ ~cell.stored
    THEN [cell EXCEPT !.stored = TRUE, !.storedRow = cell.row, !.data = s, !.detached = TRUE]
    ELSE [cell EXCEPT !.detached = TRUE]

\* The message fetch_row looks at; it passes over a RowDescription.
Ahead(c) ==
    LET off == cursor[c].off IN IF off[2] = 0 THEN <<off[1], 1>> ELSE off

\* It is a row.
RowLeft(c) ==
    ~cursor[c].done /\ Ahead(c)[1] <= ReplySets /\ Ahead(c)[2] <= ReplyRows

\* fetch_row, or fetch_row_copy: the next row of the current result set, in s.
Fetch(c, s, kind, copy) ==
    /\ Usable(c) /\ RowLeft(c)
    /\ LET row == Ahead(c)
           r == cursor[c].reader
           cell == [NoCell EXCEPT !.kind = kind, !.field = cursor[c].fields, !.reader = r,
                                  !.data = IF kind = "null" THEN None ELSE cursor[c].at,
                                  !.row = row]
       IN /\ cells' = [cells EXCEPT ![s] = IF copy THEN Detached(cell, s) ELSE cell]
          /\ cursor' = [cursor EXCEPT ![c].off = <<row[1], row[2] + 1>>]
          /\ got' = [got EXCEPT ![r].row = row[2]]
          /\ torn' = (torn \/ Astray(c) \/ row # <<got[r].set, got[r].row + 1>>)
    /\ UNCHANGED <<short, alive, buf, auth, gens, readers>>

\* fetch_row finds the CommandComplete and returns false.
FetchEnd(c) ==
    /\ Usable(c) /\ ~cursor[c].done
    /\ Ahead(c)[1] <= ReplySets /\ Ahead(c)[2] > ReplyRows
    /\ cursor' = [cursor EXCEPT ![c].off = <<@[1] + 1, 0>>, ![c].done = TRUE]
    /\ torn' = (torn \/ Astray(c) \/ got[cursor[c].reader].row # ReplyRows)
    /\ UNCHANGED <<short, alive, buf, auth, cells, gens, readers, got>>

\* detach() of a cell of the application, while its data can still be read.
Detach(s) ==
    /\ cells[s].kind # "none" /\ DataReadable(s)
    /\ cells' = [cells EXCEPT ![s] = Detached(@, s)]
    /\ UNCHANGED <<short, alive, buf, auth, cursor, gens, readers, got, torn>>

\* Mutant: the copy points where the original does.
CopiedPointer(s, t) == cells[s]

\* The copy of s in t: with storage of its own it points there.
Copied(s, t) == IF cells[s].stored THEN [cells[s] EXCEPT !.data = t] ELSE cells[s]

\* Copy construction and assignment.
CopyCell(s, t) ==
    /\ s # t /\ cells[s].kind # "none"
    /\ cells' = [cells EXCEPT ![t] = Copied(s, t)]
    /\ UNCHANGED <<short, alive, buf, auth, cursor, gens, readers, got, torn>>

\* Move construction and assignment: the source becomes a null.
MoveCell(s, t) ==
    /\ s # t /\ cells[s].kind # "none"
    /\ cells' = [cells EXCEPT
           ![t] = Copied(s, t),
           ![s] = [@ EXCEPT !.kind = "null", !.data = None, !.stored = FALSE,
                            !.storedRow = <<0, 0>>]]
    /\ UNCHANGED <<short, alive, buf, auth, cursor, gens, readers, got, torn>>

DropCell(s) ==
    /\ cells[s].kind # "none"
    /\ cells' = [cells EXCEPT ![s] = NoCell]
    /\ UNCHANGED <<short, alive, buf, auth, cursor, gens, readers, got, torn>>

Next ==
    \/ \E c \in Cursors, owns \in BOOLEAN : Make(c, owns)
    \/ \E c, d \in Cursors : Move(c, d)
    \/ \E p \in Places : Destroy(p)
    \/ \E c \in Cursors : NextResultSet(c) \/ NoMoreSets(c) \/ FetchEnd(c)
    \/ \E c \in Cursors, s \in Slots, kind \in {"null", "empty", "value"}, copy \in BOOLEAN :
           Fetch(c, s, kind, copy)
    \/ \E s \in Slots : Detach(s) \/ DropCell(s)
    \/ \E s, t \in Slots : CopyCell(s, t) \/ MoveCell(s, t)

Spec == Init /\ [][Next]_vars

---------------------------------------------------------------------------
\* Properties.

\* A cell that was fetched from the result set a cursor is still in can be read,
\* data and description, as long as the response of that cursor exists: however
\* often the cursor has been moved since, and after the task for one that owns it.
CurrentReadable ==
    \A s \in Slots, c \in Cursors :
        /\ Usable(c) /\ cells[s].reader = cursor[c].reader
        /\ cells[s].row[1] = got[cursor[c].reader].set
        => DataReadable(s) /\ FieldReadable(s)

\* The data of a detached cell is its own, whatever else goes, and through copies
\* and moves of the cell (PostgresResult.h:142).
DetachedKeepsValue == \A s \in Slots : cells[s].detached => DataReadable(s)

\* A cursor that has been moved, however often and with whatever reply, goes on in its
\* reply where it was: no row or result set twice, none left out, and no read at an
\* address where the reply no longer is (head_, cursor_ and the offset between them).
MovedCursorContinues == ~torn

\* The response and its auth_ have one owner: nothing is deleted twice.
OwnedOnce ==
    \A p, q \in alive : p # q =>
        /\ buf[p] = None \/ buf[p] # buf[q]
        /\ auth[p] = None \/ auth[p] # auth[q]

---------------------------------------------------------------------------
\* What the documentation says and the code does not do.

\* "Owned copy variants: cells are detached and safe across coroutine resumptions
\* and task destruction" (PostgresResult.h:142): with the task gone, and whatever
\* the application has done with its cursor, their accessors can be used.
DetachedReadable ==
    "task" \notin alive =>
        \A s \in Slots : cells[s].detached => DataReadable(s) /\ FieldReadable(s)
=============================================================================
