--------------------------- MODULE PgCellsProofs ---------------------------
(***************************************************************************)
(* Theorems about PgCells: for any number of cursors and cells, result sets *)
(* and rows, and for a reply held in either of the ways a string may hold it. *)
(***************************************************************************)
EXTENDS PgCells, TLAPS

\* TypeOK in parts.
GotRecord == [owning : BOOLEAN, set : 1..Sets, row : 0..Rows]
OwnerType ==
    /\ short \in BOOLEAN /\ alive \subseteq Places
    /\ buf \in [Places -> {None, TheReply}] /\ auth \in [Places -> {None, TheAuth}]
CountType ==
    /\ gens \in 0..MaxGens /\ readers \in 0..MaxReaders
    /\ got \in [1..MaxReaders -> GotRecord]

\* One owner among all objects, the ones that are gone included.
OneOwner ==
    \A p, q \in Places :
        /\ buf[p] = TheReply /\ buf[q] = TheReply => p = q
        /\ auth[p] = TheAuth /\ auth[q] = TheAuth => p = q

\* A cell with storage points there and holds its row there; the data of a value is
\* never null; a detached value has storage.
OwnStorage(s, cell) ==
    /\ cell.stored => cell.data = s /\ cell.storedRow = cell.row
    /\ cell.kind = "value" => cell.data # None
    /\ cell.detached /\ cell.kind = "value" => cell.stored
CellsOwn == \A s \in Slots : OwnStorage(s, cells[s])

\* Which cursor is which. No two cursors have the same origin; one that owns the
\* response has it; a reply is only in an object that exists.
Origins ==
    /\ \A p \in Places : buf[p] = TheReply => p \in alive
    /\ \A c \in Cursors :
        /\ cursor[c].owns => cursor[c].reader # 0 /\ buf[c] = TheReply
        /\ cursor[c].reader <= readers
    /\ \A c, d \in Cursors : c # d /\ cursor[c].reader = cursor[d].reader => cursor[c].reader = 0

\* A cursor k in c points into its reply, at what follows what the application has, g.
PointsHome(k, c) == k.at = k.head /\ k.head = Addr(IF k.owns THEN c ELSE "task")
InStep(k, g) ==
    /\ g.owning = k.owns /\ g.set <= ReplySets
    /\ k.done => k.off[1] = g.set + 1
    /\ ~k.done => ~short /\ k.off = <<g.set, g.row + 1>>
Follows ==
    \A c \in Cursors :
        cursor[c].reader # 0 => PointsHome(cursor[c], c) /\ InStep(cursor[c], got[cursor[c].reader])

\* A cell of a cursor's current result set has its descriptions; there is none of a
\* later one. f is the cursors, g what they gave, n how many there have been.
Origin(cell, f, g, n) ==
    /\ ~cell.stored => cell.data = None \/ (cell.data = Heap /\ ~short)
    /\ cell.reader <= n
    /\ \A c \in Cursors :
          f[c].reader # 0 /\ cell.reader = f[c].reader =>
              /\ cell.row[1] <= g[cell.reader].set
              /\ cell.row[1] = g[cell.reader].set => cell.field = f[c].fields
CellsFrom == \A s \in Slots : Origin(cells[s], cursor, got, readers)

IInv ==
    /\ TypeOK /\ OneOwner /\ CellsOwn
    /\ Origins /\ Follows /\ CellsFrom /\ ~torn

---------------------------------------------------------------------------
\* The bound on vectors is a natural number.
LEMMA MaxGensNat == MaxGens \in Nat
  BY CellsAssumption, SMT DEF MaxGens

\* TypeOK is its parts.
LEMMA TypeParts ==
    TypeOK <=> /\ OwnerType /\ cursor \in [Cursors -> CursorRecord]
               /\ cells \in [Slots -> CellRecord] /\ CountType /\ torn \in BOOLEAN
  BY Zenon DEF TypeOK, OwnerType, CountType, GotRecord

\* An empty cursor, an empty cell and a new reader have the types of their kind.
LEMMA EmptyTypes ==
    NoCursor \in CursorRecord /\ NoCell \in CellRecord /\ Nothing \in GotRecord
<1>1. Start \in Offsets /\ <<0, 0>> \in RowIds
  BY CellsAssumption DEF Start, Offsets, RowIds
<1> QED
  BY <1>1, MaxGensNat, CellsAssumption
     DEF NoCursor, NoCell, Nothing, CursorRecord, CellRecord, GotRecord

\* The address of a reply is one.
LEMMA AddrType == ASSUME NEW p \in Places PROVE Addr(p) \in Addresses /\ Addr(p) # None
  BY CellsAssumption DEF Addr, Addresses, Places, Heap, None

\* What parse_metadata leaves in a cursor, and what it does not touch.
LEMMA ParsedCursor ==
    ASSUME NEW k \in CursorRecord, NEW n \in 1..Sets, NEW g \in 0..MaxGens
    PROVE  /\ Parsed(k, n, g) \in CursorRecord
           /\ Parsed(k, n, g).head = k.head /\ Parsed(k, n, g).at = k.at
           /\ Parsed(k, n, g).owns = k.owns /\ Parsed(k, n, g).reader = k.reader
           /\ short => Parsed(k, n, g).done /\ Parsed(k, n, g).off = <<2, 0>>
           /\ ~short => /\ ~Parsed(k, n, g).done /\ Parsed(k, n, g).off = <<n, 1>>
                        /\ Parsed(k, n, g).fields = g
<1>1. <<2, 0>> \in Offsets /\ <<n, 1>> \in Offsets
  BY CellsAssumption DEF Offsets
<1>2. CASE short
  <2> DEFINE e == [k EXCEPT !.off = <<2, 0>>, !.done = TRUE, !.fields = 0]
  <2>1. Parsed(k, n, g) = e
    BY <1>2, Zenon DEF Parsed
  <2>2. 0 \in 0..MaxGens
    BY MaxGensNat
  <2>3. /\ e \in CursorRecord /\ e.head = k.head /\ e.at = k.at /\ e.owns = k.owns
        /\ e.reader = k.reader /\ e.done /\ e.off = <<2, 0>>
    BY <1>1, <2>2 DEF CursorRecord
  <2> HIDE DEF e
  <2> QED BY <1>2, <2>1, <2>3, Zenon
<1>3. CASE ~short
  BY <1>1, <1>3 DEF Parsed, CursorRecord
<1> QED
  BY <1>2, <1>3

\* In a reply with rows it stops at the first of them.
LEMMA ParsedLong ==
    ASSUME ~short, NEW k \in CursorRecord, NEW n, NEW g
    PROVE  ~Parsed(k, n, g).done /\ Parsed(k, n, g).off = <<n, 1>>
  BY DEF Parsed, CursorRecord

\* What a moved cursor is, field by field: the offset survives when head_ and cursor_
\* of the source belong together.
LEMMA MovedCursor ==
    ASSUME cursor \in [Cursors -> CursorRecord], NEW c \in Cursors, NEW d \in Cursors
    PROVE  /\ Moved(c, d) \in CursorRecord
           /\ Moved(c, d).done = cursor[c].done /\ Moved(c, d).owns = cursor[c].owns
           /\ Moved(c, d).fields = cursor[c].fields /\ Moved(c, d).reader = cursor[c].reader
           /\ cursor[c].owns => Moved(c, d).head = Addr(d) /\ Moved(c, d).at = Addr(d)
           /\ ~cursor[c].owns => Moved(c, d) = cursor[c]
           /\ cursor[c].at = cursor[c].head /\ cursor[c].head # None
              => Moved(c, d).off = cursor[c].off
<1>1. cursor[c] \in CursorRecord
  OBVIOUS
<1>2. Addr(d) \in Addresses
  BY AddrType DEF Places
<1>3. Offset(cursor[c]) \in Offsets
  BY <1>1, CellsAssumption DEF Offset, Start, Offsets, CursorRecord
<1>4. CASE cursor[c].owns
  BY <1>1, <1>2, <1>3, <1>4 DEF Moved, Pointed, Offset, CursorRecord
<1>5. CASE ~cursor[c].owns
  BY <1>1, <1>5 DEF Moved, Pointed
<1> QED
  BY <1>4, <1>5

\* The row ahead of a cursor that has rows left has the type of a row.
LEMMA AheadRow ==
    ASSUME NEW c \in Cursors, cursor[c] \in CursorRecord, RowLeft(c)
    PROVE  /\ Ahead(c) \in RowIds /\ Ahead(c) = <<Ahead(c)[1], Ahead(c)[2]>>
           /\ Ahead(c)[1] \in 1..Sets /\ Ahead(c)[2] \in 1..Rows
           /\ <<Ahead(c)[1], Ahead(c)[2] + 1>> \in Offsets
           /\ ~short /\ ~cursor[c].done
<1>1. cursor[c].off \in Offsets
  BY DEF CursorRecord
<1>2. /\ cursor[c].off[1] \in 1..(Sets + 1) /\ cursor[c].off[2] \in 0..(Rows + 2)
      /\ cursor[c].off = <<cursor[c].off[1], cursor[c].off[2]>>
  BY <1>1 DEF Offsets
<1> DEFINE a == Ahead(c)
<1>3. /\ a = <<a[1], a[2]>> /\ a[1] = cursor[c].off[1]
      /\ a[2] = IF cursor[c].off[2] = 0 THEN 1 ELSE cursor[c].off[2]
  BY <1>2 DEF Ahead
<1>4. ~cursor[c].done /\ a[1] <= ReplySets /\ a[2] <= ReplyRows
  BY DEF RowLeft
<1> HIDE DEF a
<1>5. a[1] \in Nat /\ a[1] >= 1 /\ a[2] \in Nat /\ a[2] >= 1
  BY <1>2, <1>3, CellsAssumption
<1>6. ~short
  BY <1>4, <1>5 DEF ReplyRows
<1>7. a[1] \in 1..Sets /\ a[2] \in 1..Rows
  BY <1>4, <1>5, <1>6, CellsAssumption DEF ReplyRows, ReplySets
<1>8. <<a[1], a[2]>> \in RowIds /\ <<a[1], a[2] + 1>> \in Offsets
  BY <1>7, CellsAssumption DEF RowIds, Offsets
<1> QED
  BY <1>3, <1>4, <1>6, <1>7, <1>8 DEF a

\* A result set that is entered is one of the reply, and there is room for its vector.
LEMMA NextSetBounds ==
    ASSUME NEW c \in Cursors, cursor[c] \in CursorRecord, gens \in 0..MaxGens, NextResultSet(c)
    PROVE  Following(c) \in 1..Sets /\ gens + 1 \in 0..MaxGens /\ Following(c) <= ReplySets
<1>1. cursor[c].off[1] \in Nat /\ cursor[c].off[1] >= 1
  BY CellsAssumption DEF CursorRecord, Offsets
<1>2. Following(c) \in Nat /\ Following(c) >= 1
  BY <1>1 DEF Following
<1>3. Following(c) <= ReplySets /\ gens < MaxGens
  BY Zenon DEF NextResultSet
<1>4. Following(c) <= Sets
  BY <1>2, <1>3, CellsAssumption DEF ReplySets
<1>5. gens + 1 \in 0..MaxGens
  BY <1>3, MaxGensNat
<1> QED
  BY <1>2, <1>3, <1>4, <1>5, CellsAssumption

\* The initial state satisfies the invariant.
LEMMA InitInv == Init => IInv
<1> SUFFICES ASSUME Init PROVE IInv
  OBVIOUS
<1>1. TypeOK
  <2>1. OwnerType
    BY DEF Init, OwnerType, Places, None, TheReply, TheAuth
  <2>2. cursor \in [Cursors -> CursorRecord] /\ cells \in [Slots -> CellRecord]
    BY EmptyTypes DEF Init
  <2>3. CountType
    BY EmptyTypes, MaxGensNat, CellsAssumption DEF Init, CountType
  <2>4. torn \in BOOLEAN
    BY Zenon DEF Init
  <2> QED
    BY <2>1, <2>2, <2>3, <2>4, TypeParts
<1>2. OneOwner /\ Origins
  BY DEF Init, OneOwner, Origins, Places, NoCursor, None, TheReply, TheAuth
<1>3. CellsOwn /\ CellsFrom
  BY DEF Init, CellsOwn, OwnStorage, CellsFrom, Origin, NoCursor, NoCell
<1>4. Follows
  BY DEF Init, Follows, NoCursor
<1>5. ~torn
  BY Zenon DEF Init
<1> QED
  BY <1>1, <1>2, <1>3, <1>4, <1>5, Zenon DEF IInv

---------------------------------------------------------------------------
\* The length of the reply is fixed.
LEMMA ShortStep == [Next]_vars => short' = short
  BY ZenonT(60) DEF Next, vars, Make, Move, Destroy, NextResultSet, NoMoreSets, Fetch, FetchEnd,
                   Detach, DropCell, CopyCell, MoveCell

\* Who owns what keeps its type.
LEMMA OwnerTypeStep ==
    ASSUME TypeOK, [Next]_vars
    PROVE  OwnerType'
<1> USE DEF Places, None, TheReply, TheAuth
<1>1. OwnerType /\ short' = short
  BY TypeParts, ShortStep
<1>2. ASSUME NEW c \in Cursors, NEW owns \in BOOLEAN, Make(c, owns) PROVE OwnerType'
  BY <1>1, <1>2 DEF Make, OwnerType, Taken, AuthTaken
<1>3. ASSUME NEW c \in Cursors, NEW d \in Cursors, Move(c, d) PROVE OwnerType'
  BY <1>1, <1>3 DEF Move, OwnerType, Taken, AuthTaken
<1>4. ASSUME NEW p \in Places, Destroy(p) PROVE OwnerType'
  BY <1>1, <1>4 DEF Destroy, OwnerType
<1>5. UNCHANGED <<alive, buf, auth>> => OwnerType'
  BY <1>1 DEF OwnerType
<1>6. CASE UNCHANGED vars
  BY <1>5, <1>6, Zenon DEF vars
<1>7. CASE Next
  BY <1>2, <1>3, <1>4, <1>5, <1>7, ZenonT(60)
     DEF Next, NextResultSet, NoMoreSets, Fetch, FetchEnd, Detach, DropCell, CopyCell, MoveCell
<1> QED
  BY <1>6, <1>7

\* The counters and what the application has of each reader keep their types.
LEMMA CountTypeStep ==
    ASSUME TypeOK, [Next]_vars
    PROVE  CountType'
<1> USE MaxGensNat, CellsAssumption
<1>1. CountType /\ short \in BOOLEAN /\ cursor \in [Cursors -> CursorRecord]
  BY TypeParts DEF OwnerType
<1>2. ASSUME NEW c \in Cursors, NEW owns \in BOOLEAN, Make(c, owns) PROVE CountType'
  <2>1. gens' \in 0..MaxGens /\ readers' \in 0..MaxReaders
    BY <1>1, <1>2, SMT DEF Make, CountType
  <2>2. [Nothing EXCEPT !.owning = owns] \in GotRecord
    BY DEF Nothing, GotRecord
  <2>3. got' = [got EXCEPT ![readers + 1] = [Nothing EXCEPT !.owning = owns]]
    BY <1>2, Zenon DEF Make
  <2> QED BY <1>1, <2>1, <2>2, <2>3 DEF CountType
<1>3. ASSUME NEW c \in Cursors, NextResultSet(c) PROVE CountType'
  <2>1. gens' \in 0..MaxGens /\ readers' = readers
    BY <1>1, <1>3, SMT DEF NextResultSet, CountType
  <2>2. Following(c) \in 1..Sets
    <3>1. cursor[c].off[1] \in 1..(Sets + 1)
      BY <1>1 DEF CursorRecord, Offsets
    <3> QED BY <1>3, <3>1 DEF NextResultSet, Following, ReplySets
  <2> DEFINE r == cursor[c].reader
  <2>3. r \in 1..MaxReaders /\ got \in [1..MaxReaders -> GotRecord]
    BY <1>1, <1>3 DEF NextResultSet, Usable, CursorRecord, CountType
  <2> HIDE DEF r
  <2>4. got' \in [1..MaxReaders -> GotRecord]
    <3>1. got' = [got EXCEPT ![r] = [got[r] EXCEPT !.set = Following(c), !.row = 0]]
      BY <1>3, <2>3 DEF NextResultSet, r
    <3>2. [got[r] EXCEPT !.set = Following(c), !.row = 0] \in GotRecord
      <4>1. got[r] \in GotRecord /\ 0 \in 0..Rows
        BY <2>3
      <4> QED BY <2>2, <4>1 DEF GotRecord
    <3> QED BY <2>3, <3>1, <3>2
  <2> QED BY <1>1, <2>1, <2>4 DEF CountType
<1>4. ASSUME NEW c \in Cursors, NEW s \in Slots, NEW kind, NEW copy, Fetch(c, s, kind, copy)
      PROVE  CountType'
  <2>1. Ahead(c)[2] \in 0..Rows
    <3>1. cursor[c] \in CursorRecord /\ RowLeft(c)
      BY <1>1, <1>4 DEF Fetch
    <3>2. Ahead(c)[2] \in 1..Rows
      BY <3>1, AheadRow, Zenon
    <3> QED BY <3>2
  <2>2. got' = [got EXCEPT ![cursor[c].reader].row = Ahead(c)[2]] /\ UNCHANGED <<gens, readers>>
    BY <1>4 DEF Fetch
  <2> QED BY <1>1, <2>1, <2>2 DEF CountType, GotRecord
<1>5. UNCHANGED <<gens, readers, got>> => CountType'
  BY <1>1, Zenon DEF CountType
<1>6. CASE UNCHANGED vars
  BY <1>5, <1>6, Zenon DEF vars
<1>7. CASE Next
  BY <1>2, <1>3, <1>4, <1>5, <1>7, ZenonT(60)
     DEF Next, Move, Destroy, NoMoreSets, FetchEnd, Detach, DropCell, CopyCell, MoveCell
<1> QED
  BY <1>6, <1>7, Zenon

\* Every step keeps the type of the cursors.
LEMMA CursorTypeStep ==
    ASSUME TypeOK, [Next]_vars
    PROVE  cursor' \in [Cursors -> CursorRecord]
<1> USE MaxGensNat, CellsAssumption
<1>1. /\ cursor \in [Cursors -> CursorRecord] /\ OwnerType
      /\ gens \in 0..MaxGens /\ readers \in 0..MaxReaders
  BY TypeParts, Zenon DEF CountType
<1>2. ASSUME NEW k \in CursorRecord, NEW o \in Offsets
      PROVE  [k EXCEPT !.off = o, !.done = TRUE] \in CursorRecord
  BY DEF CursorRecord
<1>3. ASSUME NEW c \in Cursors, NEW owns \in BOOLEAN, Make(c, owns)
      PROVE cursor' \in [Cursors -> CursorRecord]
  <2> DEFINE head == Addr(IF owns THEN c ELSE "task")
             new == [NoCursor EXCEPT !.head = head, !.at = head, !.owns = owns,
                                     !.reader = readers + 1]
  <2>1. head \in Addresses
    BY AddrType DEF Places
  <2>2. gens + 1 \in 0..MaxGens /\ readers + 1 \in 0..MaxReaders /\ 1 \in 1..Sets
    BY <1>1, <1>3, SMT DEF Make
  <2> HIDE DEF head
  <2>3. new \in CursorRecord
    BY <2>1, <2>2, EmptyTypes DEF CursorRecord
  <2>4. cursor' = [cursor EXCEPT ![c] = Parsed(new, 1, gens + 1)]
    BY <1>3 DEF Make, head
  <2> HIDE DEF new
  <2>5. Parsed(new, 1, gens + 1) \in CursorRecord
    BY <2>2, <2>3, ParsedCursor
  <2> QED BY <1>1, <2>4, <2>5
<1>4. ASSUME NEW c \in Cursors, NEW d \in Cursors, Move(c, d)
      PROVE cursor' \in [Cursors -> CursorRecord]
  <2>1. Moved(c, d) \in CursorRecord /\ NoCursor \in CursorRecord
    BY <1>1, MovedCursor, EmptyTypes
  <2> QED BY <1>1, <1>4, <2>1 DEF Move
<1>5. ASSUME NEW p \in Places, Destroy(p) PROVE cursor' \in [Cursors -> CursorRecord]
  BY <1>1, <1>5, EmptyTypes DEF Destroy
<1>6. ASSUME NEW c \in Cursors, NextResultSet(c) PROVE cursor' \in [Cursors -> CursorRecord]
  <2>1. cursor[c].off[1] \in 1..(Sets + 1)
    BY <1>1 DEF CursorRecord, Offsets
  <2>2. Following(c) \in 1..Sets
    BY <1>6, <2>1 DEF NextResultSet, Following, ReplySets
  <2>3. gens + 1 \in 0..MaxGens
    BY <1>1, <1>6, SMT DEF NextResultSet
  <2>4. Parsed(cursor[c], Following(c), gens + 1) \in CursorRecord
    BY <1>1, <2>2, <2>3, ParsedCursor
  <2> QED BY <1>1, <1>6, <2>4 DEF NextResultSet
<1>7. ASSUME NEW c \in Cursors, NoMoreSets(c) PROVE cursor' \in [Cursors -> CursorRecord]
  <2>1. <<ReplySets + 1, 1>> \in Offsets
    BY DEF ReplySets, Offsets
  <2>2. cursor' = [cursor EXCEPT ![c] = [cursor[c] EXCEPT !.off = <<ReplySets + 1, 1>>,
                                                          !.done = TRUE]]
    BY <1>1, <1>7 DEF NoMoreSets
  <2> QED BY <1>1, <1>2, <2>1, <2>2
<1>8. ASSUME NEW c \in Cursors, NEW s \in Slots, NEW kind, NEW copy, Fetch(c, s, kind, copy)
      PROVE cursor' \in [Cursors -> CursorRecord]
  <2>1. <<Ahead(c)[1], Ahead(c)[2] + 1>> \in Offsets
    BY <1>1, <1>8, AheadRow DEF Fetch
  <2>2. cursor' = [cursor EXCEPT ![c].off = <<Ahead(c)[1], Ahead(c)[2] + 1>>]
    BY <1>8 DEF Fetch
  <2> QED BY <1>1, <2>1, <2>2 DEF CursorRecord
<1>9. ASSUME NEW c \in Cursors, FetchEnd(c)
      PROVE cursor' \in [Cursors -> CursorRecord]
  <2>1. cursor[c].off[1] \in 1..(Sets + 1)
    BY <1>1 DEF CursorRecord, Offsets
  <2>2. <<cursor[c].off[1] + 1, 0>> \in Offsets
    BY <1>9, <2>1 DEF FetchEnd, Ahead, ReplySets, Offsets
  <2>3. cursor' = [cursor EXCEPT ![c] = [cursor[c] EXCEPT !.off = <<cursor[c].off[1] + 1, 0>>,
                                                          !.done = TRUE]]
    BY <1>1, <1>9 DEF FetchEnd
  <2> QED BY <1>1, <1>2, <2>2, <2>3
<1>10. UNCHANGED cursor => cursor' \in [Cursors -> CursorRecord]
  BY <1>1, Zenon
<1> QED
  BY <1>3, <1>4, <1>5, <1>6, <1>7, <1>8, <1>9, <1>10, ZenonT(60)
     DEF Next, vars, Detach, DropCell, CopyCell, MoveCell

---------------------------------------------------------------------------
\* detach() keeps the type of a cell and gives it storage of its own.
LEMMA DetachedCell ==
    ASSUME NEW s \in Slots, NEW cell \in CellRecord
    PROVE  /\ Detached(cell, s) \in CellRecord
           /\ OwnStorage(s, cell) => OwnStorage(s, Detached(cell, s))
<1>1. CASE cell.kind = "value" /\ cell.data # None /\ ~cell.stored
  <2>1. Detached(cell, s) = [cell EXCEPT !.stored = TRUE, !.storedRow = cell.row,
                                         !.data = s, !.detached = TRUE]
    BY <1>1, Zenon DEF Detached
  <2>2. s # None
    BY CellsAssumption, Zenon DEF None
  <2> QED
    BY <2>1, <2>2 DEF CellRecord, OwnStorage
<1>2. CASE ~(cell.kind = "value" /\ cell.data # None /\ ~cell.stored)
  <2>1. Detached(cell, s) = [cell EXCEPT !.detached = TRUE]
    BY <1>2, Zenon DEF Detached
  <2> QED
    BY <1>2, <2>1 DEF CellRecord, OwnStorage
<1> QED
  BY <1>1, <1>2

\* A copy points to its own storage.
LEMMA CopiedCell ==
    ASSUME NEW s \in Slots, NEW t \in Slots, cells \in [Slots -> CellRecord], CellsOwn
    PROVE  Copied(s, t) \in CellRecord /\ OwnStorage(t, Copied(s, t))
<1>1. cells[s] \in CellRecord /\ OwnStorage(s, cells[s])
  BY DEF CellsOwn
<1>2. t # None
  BY CellsAssumption, Zenon DEF None
<1>3. CASE cells[s].stored
  BY <1>1, <1>2, <1>3 DEF Copied, CellRecord, OwnStorage
<1>4. CASE ~cells[s].stored
  BY <1>1, <1>4 DEF Copied, CellRecord, OwnStorage
<1> QED
  BY <1>3, <1>4

\* Every cell keeps its type, and its storage is its own.
LEMMA CellsStep ==
    ASSUME TypeOK, CellsOwn, Follows, [Next]_vars
    PROVE  cells' \in [Slots -> CellRecord] /\ CellsOwn'
<1> DEFINE Good(f) == f \in [Slots -> CellRecord] /\ \A s \in Slots : OwnStorage(s, f[s])
<1>1. cells \in [Slots -> CellRecord] /\ Good(cells)
  BY TypeParts DEF CellsOwn
<1>2. ASSUME NEW t \in Slots, NEW cell \in CellRecord, OwnStorage(t, cell), NEW f, Good(f)
      PROVE  Good([f EXCEPT ![t] = cell])
  BY <1>2
<1>3. Good(cells') => cells' \in [Slots -> CellRecord] /\ CellsOwn'
  BY DEF CellsOwn, OwnStorage
<1>4. ASSUME NEW c \in Cursors, NEW s \in Slots, NEW kind \in {"null", "empty", "value"},
             NEW copy \in BOOLEAN, Fetch(c, s, kind, copy)
      PROVE  Good(cells')
  <2> DEFINE cell == [NoCell EXCEPT !.kind = kind, !.field = cursor[c].fields,
                                    !.reader = cursor[c].reader,
                                    !.data = IF kind = "null" THEN None ELSE cursor[c].at,
                                    !.row = Ahead(c)]
  <2>1. cursor[c] \in CursorRecord /\ RowLeft(c)
    BY <1>4, TypeParts DEF Fetch
  <2>2. Ahead(c) \in RowIds
    BY <2>1, AheadRow, Zenon
  <2>3. cell \in CellRecord
    BY <2>1, <2>2, EmptyTypes DEF CellRecord, CursorRecord
  <2>10. cursor[c].at # None
    BY <1>4, <2>1, AddrType DEF Fetch, Usable, Follows, PointsHome, Places
  <2>4. OwnStorage(s, cell)
    BY <2>10 DEF OwnStorage, NoCell
  <2>5. cells' = [cells EXCEPT ![s] = IF copy THEN Detached(cell, s) ELSE cell]
    BY <1>4 DEF Fetch
  <2> HIDE DEF cell
  <2>6. (IF copy THEN Detached(cell, s) ELSE cell) \in CellRecord
    BY <2>3, DetachedCell
  <2>7. OwnStorage(s, IF copy THEN Detached(cell, s) ELSE cell)
    BY <2>3, <2>4, DetachedCell
  <2> HIDE DEF Good
  <2> QED
    BY <1>1, <1>2, <2>5, <2>6, <2>7
<1>5. ASSUME NEW s \in Slots, Detach(s) PROVE Good(cells')
  <2>1. cells' = [cells EXCEPT ![s] = Detached(cells[s], s)]
    BY <1>5, Zenon DEF Detach
  <2>2. cells[s] \in CellRecord /\ OwnStorage(s, cells[s])
    BY <1>1
  <2>3. Detached(cells[s], s) \in CellRecord /\ OwnStorage(s, Detached(cells[s], s))
    BY <2>2, DetachedCell
  <2> HIDE DEF Good
  <2> QED
    BY <1>1, <1>2, <2>1, <2>3
<1>6. ASSUME NEW s \in Slots, DropCell(s) PROVE Good(cells')
  <2>1. NoCell \in CellRecord /\ OwnStorage(s, NoCell)
    BY EmptyTypes DEF OwnStorage, NoCell
  <2> HIDE DEF Good
  <2> QED
    BY <1>1, <1>2, <1>6, <2>1 DEF DropCell
<1>7. ASSUME NEW s \in Slots, NEW t \in Slots, CopyCell(s, t) PROVE Good(cells')
  <2>1. Copied(s, t) \in CellRecord /\ OwnStorage(t, Copied(s, t))
    BY <1>1, CopiedCell
  <2> HIDE DEF Good
  <2> QED
    BY <1>1, <1>2, <1>7, <2>1 DEF CopyCell
<1>8. ASSUME NEW s \in Slots, NEW t \in Slots, MoveCell(s, t) PROVE Good(cells')
  <2> DEFINE left == [cells[s] EXCEPT !.kind = "null", !.data = None, !.stored = FALSE,
                                      !.storedRow = <<0, 0>>]
  <2>1. Copied(s, t) \in CellRecord /\ OwnStorage(t, Copied(s, t))
    BY <1>1, CopiedCell
  <2>2. left \in CellRecord
    <3>1. <<0, 0>> \in RowIds
      BY CellsAssumption DEF RowIds
    <3>2. cells[s] \in CellRecord
      BY <1>1
    <3> QED
      BY <3>1, <3>2 DEF CellRecord
  <2>3. OwnStorage(s, left)
    BY <1>1 DEF OwnStorage, CellRecord
  <2>4. s # t /\ cells' = [[cells EXCEPT ![t] = Copied(s, t)] EXCEPT ![s] = left]
    BY <1>1, <1>8 DEF MoveCell
  <2> HIDE DEF Good, left
  <2>5. Good([cells EXCEPT ![t] = Copied(s, t)])
    BY <1>1, <1>2, <2>1
  <2> QED
    BY <1>2, <2>2, <2>3, <2>4, <2>5
<1>9. UNCHANGED cells => Good(cells')
  BY <1>1
<1> HIDE DEF Good
<1>10. Good(cells')
  BY <1>4, <1>5, <1>6, <1>7, <1>8, <1>9, Zenon
     DEF Next, vars, Make, Move, Destroy, NextResultSet, NoMoreSets, FetchEnd
<1> QED
  BY <1>3, <1>10

\* The response and auth_ move from one owner to another, or go.
LEMMA OneOwnerStep ==
    ASSUME TypeOK, OneOwner, [Next]_vars
    PROVE  OneOwner'
<1> USE DEF None, TheReply, TheAuth
<1>1. OwnerType
  BY TypeParts
<1>2. ASSUME NEW from \in Places, NEW to \in Places, from # to,
             buf' = Taken(buf, from, to), auth' = AuthTaken(from, to)
      PROVE  OneOwner'
  BY <1>1, <1>2 DEF OneOwner, OwnerType, Taken, AuthTaken
<1>3. UNCHANGED <<buf, auth>> => OneOwner'
  BY DEF OneOwner
<1>4. ASSUME NEW c \in Cursors, NEW owns \in BOOLEAN, Make(c, owns) PROVE OneOwner'
  <2>1. "task" # c /\ "task" \in Places /\ c \in Places
    BY CellsAssumption DEF Places
  <2> QED
    BY <1>2, <1>3, <1>4, <2>1 DEF Make
<1>5. ASSUME NEW c \in Cursors, NEW d \in Cursors, Move(c, d) PROVE OneOwner'
  <2>1. c # d /\ c \in Places /\ d \in Places
    BY <1>5 DEF Move, Places
  <2> QED
    BY <1>2, <1>5, <2>1 DEF Move
<1>6. ASSUME NEW p \in Places, Destroy(p) PROVE OneOwner'
  BY <1>1, <1>6 DEF Destroy, OneOwner, OwnerType
<1> QED
  BY <1>3, <1>4, <1>5, <1>6, ZenonT(60)
     DEF Next, vars, NextResultSet, NoMoreSets, Fetch, FetchEnd, Detach, DropCell, CopyCell,
         MoveCell

---------------------------------------------------------------------------
\* A new cursor: what Make puts into c.
LEMMA MadeCursor ==
    ASSUME TypeOK, NEW c \in Cursors, NEW owns \in BOOLEAN, Make(c, owns)
    PROVE  /\ \A d \in Cursors : d # c => cursor'[d] = cursor[d]
           /\ cursor'[c].reader = readers + 1 /\ cursor'[c].owns = owns
           /\ cursor'[c].at = Addr(IF owns THEN c ELSE "task")
           /\ cursor'[c].head = Addr(IF owns THEN c ELSE "task")
           /\ short => cursor'[c].done /\ cursor'[c].off = <<2, 0>>
           /\ ~short => ~cursor'[c].done /\ cursor'[c].off = <<1, 1>>
           /\ readers + 1 \in 1..MaxReaders /\ readers' = readers + 1
<1> DEFINE head == Addr(IF owns THEN c ELSE "task")
           new == [NoCursor EXCEPT !.head = head, !.at = head, !.owns = owns,
                                   !.reader = readers + 1]
<1>1. cursor \in [Cursors -> CursorRecord] /\ gens \in 0..MaxGens /\ readers \in 0..MaxReaders
  BY TypeParts, Zenon DEF CountType
<1>2. head \in Addresses
  BY AddrType DEF Places
<1>3. gens + 1 \in 0..MaxGens /\ readers + 1 \in 0..MaxReaders /\ 1 \in 1..Sets
      /\ readers + 1 \in 1..MaxReaders
  BY <1>1, MaxGensNat, CellsAssumption, SMT DEF Make
<1>4. readers' = readers + 1
  BY DEF Make
<1> HIDE DEF head
<1>5. /\ new \in CursorRecord /\ new.head = head /\ new.at = head /\ new.owns = owns
      /\ new.reader = readers + 1
  BY <1>2, <1>3, EmptyTypes DEF CursorRecord
<1>6. cursor' = [cursor EXCEPT ![c] = Parsed(new, 1, gens + 1)]
  BY DEF Make, head
<1> HIDE DEF new
<1>7. cursor'[c] = Parsed(new, 1, gens + 1) /\ \A d \in Cursors : d # c => cursor'[d] = cursor[d]
  BY <1>1, <1>6
<1> QED
  BY <1>3, <1>4, <1>5, <1>7, ParsedCursor DEF head

\* A moved cursor: what Move leaves in c and puts into d.
LEMMA CursorsMoved ==
    ASSUME TypeOK, NEW c \in Cursors, NEW d \in Cursors, Move(c, d)
    PROVE  /\ c # d /\ cursor'[d] = Moved(c, d) /\ cursor'[c] = NoCursor
           /\ \A e \in Cursors : e # c /\ e # d => cursor'[e] = cursor[e]
           /\ buf'[d] = buf[c] /\ \A p \in Places : p # c /\ p # d => buf'[p] = buf[p]
           /\ buf'[c] = None /\ alive' = alive \cup {d} /\ UNCHANGED <<readers, got>>
<1>1. cursor \in [Cursors -> CursorRecord] /\ OwnerType
  BY TypeParts
<1>2. c # d /\ cursor' = [cursor EXCEPT ![d] = Moved(c, d), ![c] = NoCursor]
      /\ buf' = Taken(buf, c, d) /\ alive' = alive \cup {d} /\ UNCHANGED <<readers, got>>
  BY DEF Move
<1> QED
  BY <1>1, <1>2 DEF Taken, OwnerType, Places

\* What the end of a cursor, or of the task, leaves.
LEMMA CursorsLeft ==
    ASSUME TypeOK, NEW p \in Places, Destroy(p)
    PROVE  /\ \A c \in Cursors : cursor'[c] = IF c = p THEN NoCursor ELSE cursor[c]
           /\ \A q \in Places : q # p => buf'[q] = buf[q]
           /\ buf'[p] = None /\ alive' = alive \ {p} /\ UNCHANGED <<readers, got>>
<1>1. cursor \in [Cursors -> CursorRecord] /\ OwnerType
  BY TypeParts
<1> QED
  BY <1>1 DEF Destroy, OwnerType

\* What the calls that read with a cursor change: of that cursor the offset, the flag
\* and the descriptions, and what its reader has.
ReadsWith(c) ==
    NextResultSet(c) \/ NoMoreSets(c) \/ FetchEnd(c)
    \/ \E s \in Slots, kind \in {"null", "empty", "value"}, copy \in BOOLEAN :
           Fetch(c, s, kind, copy)

LEMMA CursorRead ==
    ASSUME TypeOK, NEW c \in Cursors, ReadsWith(c)
    PROVE  /\ \A d \in Cursors : d # c => cursor'[d] = cursor[d]
           /\ cursor'[c].head = cursor[c].head /\ cursor'[c].at = cursor[c].at
           /\ cursor'[c].owns = cursor[c].owns /\ cursor'[c].reader = cursor[c].reader
           /\ \A r \in 1..MaxReaders : r # cursor[c].reader => got'[r] = got[r]
           /\ cursor[c].reader \in 1..MaxReaders
           /\ UNCHANGED <<alive, buf, readers>>
<1> USE MaxGensNat, CellsAssumption
<1>1. /\ cursor \in [Cursors -> CursorRecord] /\ gens \in 0..MaxGens
      /\ got \in [1..MaxReaders -> GotRecord]
  BY TypeParts, Zenon DEF CountType
<1>2. UNCHANGED <<alive, buf, readers>>
  BY Zenon DEF ReadsWith, NextResultSet, NoMoreSets, FetchEnd, Fetch
<1>3. cursor[c].reader \in 1..MaxReaders
  <2>1. cursor[c].reader # 0
    BY Zenon DEF ReadsWith, NextResultSet, NoMoreSets, FetchEnd, Fetch, Usable
  <2> QED BY <1>1, <2>1 DEF CursorRecord
<1> DEFINE r == cursor[c].reader
<1>4. CASE NextResultSet(c)
  <2>1. Following(c) \in 1..Sets /\ gens + 1 \in 0..MaxGens
    BY <1>1, <1>4, NextSetBounds
  <2>2. cursor' = [cursor EXCEPT ![c] = Parsed(cursor[c], Following(c), gens + 1)]
        /\ got' = [got EXCEPT ![r].set = Following(c), ![r].row = 0]
    BY <1>4, Zenon DEF NextResultSet
  <2>3. \A q \in 1..MaxReaders : q # r => got'[q] = got[q]
    BY <1>1, <2>2
  <2> QED BY <1>1, <1>2, <1>3, <2>1, <2>2, <2>3, ParsedCursor
<1>5. CASE NoMoreSets(c) \/ FetchEnd(c)
  BY <1>1, <1>2, <1>3, <1>5 DEF NoMoreSets, FetchEnd, CursorRecord
<1>6. ASSUME NEW s \in Slots, NEW kind, NEW copy, Fetch(c, s, kind, copy)
      PROVE  /\ \A d \in Cursors : d # c => cursor'[d] = cursor[d]
             /\ cursor'[c].head = cursor[c].head /\ cursor'[c].at = cursor[c].at
             /\ cursor'[c].owns = cursor[c].owns /\ cursor'[c].reader = cursor[c].reader
             /\ \A q \in 1..MaxReaders : q # r => got'[q] = got[q]
  <2>1. cursor' = [cursor EXCEPT ![c].off = <<Ahead(c)[1], Ahead(c)[2] + 1>>]
        /\ got' = [got EXCEPT ![r].row = Ahead(c)[2]]
    BY <1>6 DEF Fetch
  <2> QED BY <1>1, <2>1 DEF CursorRecord
<1> QED
  BY <1>2, <1>3, <1>4, <1>5, <1>6 DEF ReadsWith

\* The kinds of steps: a cursor is made, moved, destroyed or read with, or cells change.
LEMMA Kinds ==
    ASSUME [Next]_vars
    PROVE  \/ \E c \in Cursors, owns \in BOOLEAN : Make(c, owns)
           \/ \E c, d \in Cursors : Move(c, d)
           \/ \E p \in Places : Destroy(p)
           \/ \E c \in Cursors : ReadsWith(c)
           \/ UNCHANGED <<short, alive, buf, auth, cursor, gens, readers, got, torn>>
<1>1. CASE UNCHANGED vars
  BY <1>1, Zenon DEF vars
<1>2. CASE Next
  BY <1>2, ZenonT(60) DEF Next, ReadsWith, Detach, DropCell, CopyCell, MoveCell
<1> QED
  BY <1>1, <1>2

\* A reader number is given once, and moves with the response.
LEMMA OriginsStep ==
    ASSUME TypeOK, OneOwner, Origins, [Next]_vars
    PROVE  Origins'
<1>1. cursor \in [Cursors -> CursorRecord] /\ readers \in Nat /\ OwnerType
  BY TypeParts, CellsAssumption DEF CountType
<1>2. NoCursor.reader = 0 /\ ~NoCursor.owns
  BY DEF NoCursor
<1>3. \A d \in Cursors : cursor[d].reader \in Nat /\ cursor[d].reader <= readers
  BY <1>1, CellsAssumption DEF Origins, CursorRecord
<1>4. ASSUME NEW c \in Cursors, NEW owns \in BOOLEAN, Make(c, owns) PROVE Origins'
  <2>1. /\ alive' = alive \cup {c} /\ c \notin alive /\ "task" \in alive /\ buf["task"] = TheReply
        /\ IF owns THEN buf' = Taken(buf, "task", c) ELSE buf' = buf
    BY <1>4 DEF Make
  <2>2. /\ "task" \in Places /\ c \in Places /\ "task" # c
        /\ \A d \in Cursors : d \in Places /\ d # "task"
    BY CellsAssumption DEF Places
  <2>3. \A p \in Places : buf'[p] = TheReply => p \in alive'
    BY <1>1, <2>1, <2>2 DEF Origins, Taken, OwnerType, None, TheReply
  <2>4. ASSUME NEW d \in Cursors PROVE cursor'[d].owns => buf'[d] = TheReply
    <3>1. CASE d = c
      BY <1>1, <1>4, <2>1, <2>2, <3>1, MadeCursor DEF Taken, OwnerType
    <3>2. CASE d # c
      <4>1. cursor'[d] = cursor[d]
        BY <1>4, <3>2, MadeCursor
      <4> QED BY <1>1, <2>1, <2>2, <3>2, <4>1 DEF Origins, OneOwner, Taken, OwnerType
    <3> QED BY <3>1, <3>2
  <2>5. \A d \in Cursors : d # c => cursor'[d] = cursor[d]
    BY <1>4, MadeCursor
  <2>6. cursor'[c].reader = readers + 1 /\ readers' = readers + 1
    BY <1>4, MadeCursor
  <2>7. \A d \in Cursors : /\ cursor'[d].owns => cursor'[d].reader # 0
                           /\ cursor'[d].reader <= readers'
    BY <1>1, <1>3, <2>5, <2>6 DEF Origins
  <2>8. ASSUME NEW d \in Cursors, NEW e \in Cursors, d # e, cursor'[d].reader = cursor'[e].reader
        PROVE  cursor'[d].reader = 0
    BY <1>1, <1>3, <2>5, <2>6, <2>8 DEF Origins
  <2> QED BY <2>3, <2>4, <2>7, <2>8 DEF Origins
<1>5. ASSUME NEW c \in Cursors, NEW d \in Cursors, Move(c, d) PROVE Origins'
  <2>1. /\ c # d /\ cursor'[d] = Moved(c, d) /\ cursor'[c] = NoCursor
        /\ \A e \in Cursors : e # c /\ e # d => cursor'[e] = cursor[e]
        /\ buf'[d] = buf[c] /\ \A p \in Places : p # c /\ p # d => buf'[p] = buf[p]
        /\ buf'[c] = None /\ alive' = alive \cup {d} /\ readers' = readers
    BY <1>5, CursorsMoved
  <2>2. Moved(c, d).reader = cursor[c].reader /\ Moved(c, d).owns = cursor[c].owns
    BY <1>1, MovedCursor
  <2>3. \A e \in Cursors : e \in Places
    BY DEF Places
  <2>4. \A p \in Places : buf'[p] = TheReply => p \in alive'
    BY <2>1 DEF Origins, None, TheReply
  <2>5. \A e \in Cursors : /\ cursor'[e].owns => cursor'[e].reader # 0 /\ buf'[e] = TheReply
                           /\ cursor'[e].reader <= readers'
    BY <1>1, <1>2, <2>1, <2>2, <2>3 DEF Origins
  <2>6. ASSUME NEW e \in Cursors, NEW g \in Cursors, e # g, cursor'[e].reader = cursor'[g].reader
        PROVE  cursor'[e].reader = 0
    BY <1>2, <2>1, <2>2, <2>6 DEF Origins
  <2> QED BY <2>4, <2>5, <2>6 DEF Origins
<1>6. ASSUME NEW p \in Places, Destroy(p) PROVE Origins'
  <2>1. /\ \A c \in Cursors : cursor'[c] = IF c = p THEN NoCursor ELSE cursor[c]
        /\ \A q \in Places : q # p => buf'[q] = buf[q]
        /\ buf'[p] = None /\ alive' = alive \ {p} /\ readers' = readers
    BY <1>6, CursorsLeft
  <2>2. \A q \in Places : buf'[q] = TheReply => q \in alive'
    BY <2>1 DEF Origins, None, TheReply
  <2>3. \A c \in Cursors : /\ cursor'[c].owns => cursor'[c].reader # 0 /\ buf'[c] = TheReply
                           /\ cursor'[c].reader <= readers'
    <3> SUFFICES ASSUME NEW c \in Cursors
                 PROVE  /\ cursor'[c].owns => cursor'[c].reader # 0 /\ buf'[c] = TheReply
                        /\ cursor'[c].reader <= readers'
      OBVIOUS
    <3>1. CASE c = p
      <4>1. cursor'[c] = NoCursor /\ readers' = readers
        BY <2>1, <3>1
      <4> QED BY <1>1, <1>2, <4>1
    <3>2. CASE c # p
      <4>1. cursor'[c] = cursor[c] /\ buf'[c] = buf[c] /\ readers' = readers
        BY <2>1, <3>2 DEF Places
      <4> QED BY <4>1 DEF Origins
    <3> QED BY <3>1, <3>2
  <2>4. ASSUME NEW e \in Cursors, NEW g \in Cursors, e # g, cursor'[e].reader = cursor'[g].reader
        PROVE  cursor'[e].reader = 0
    BY <1>2, <2>1, <2>4 DEF Origins
  <2> QED BY <2>2, <2>3, <2>4 DEF Origins
<1>7. ASSUME UNCHANGED <<alive, buf, readers>>,
             \A c \in Cursors : /\ cursor'[c].owns = cursor[c].owns
                                /\ cursor'[c].reader = cursor[c].reader
      PROVE  Origins'
  BY <1>7 DEF Origins
<1>8. ASSUME NEW c \in Cursors, ReadsWith(c) PROVE Origins'
  <2>1. \A d \in Cursors : cursor'[d].owns = cursor[d].owns /\ cursor'[d].reader = cursor[d].reader
    BY <1>8, CursorRead
  <2>2. UNCHANGED <<alive, buf, readers>>
    BY <1>8, CursorRead
  <2> QED BY <1>7, <2>1, <2>2
<1>9. CASE UNCHANGED <<short, alive, buf, auth, cursor, gens, readers, got, torn>>
  BY <1>7, <1>9
<1> QED
  BY <1>4, <1>5, <1>6, <1>8, <1>9, Kinds

---------------------------------------------------------------------------
\* A cursor that the application may use points into a reply that is there.
LEMMA NotAstray ==
    ASSUME TypeOK, Origins, Follows, NEW c \in Cursors, Usable(c)
    PROVE  /\ ~Astray(c) /\ LiveAt(cursor[c].at)
           /\ InStep(cursor[c], got[cursor[c].reader])
<1>1. PointsHome(cursor[c], c) /\ InStep(cursor[c], got[cursor[c].reader])
  BY DEF Usable, Follows
<1>2. \E p \in alive : buf[p] = TheReply /\ Addr(p) = cursor[c].at
  <2>1. CASE cursor[c].owns
    BY <1>1, <2>1 DEF Origins, PointsHome, Places
  <2>2. CASE ~cursor[c].owns
    <3>1. buf["task"] = TheReply
      BY <1>1, <2>2 DEF Usable, InStep
    <3> QED BY <1>1, <2>2, <3>1 DEF Origins, PointsHome, Places
  <2> QED BY <2>1, <2>2
<1> QED
  BY <1>1, <1>2, Zenon DEF Astray, LiveAt, PointsHome

\* A cursor stays where its reader is, whatever is moved, and reads what comes next.
LEMMA FollowsStep ==
    ASSUME TypeOK, OneOwner, Origins, Follows, ~torn, [Next]_vars
    PROVE  Follows' /\ ~torn'
<1> USE CellsAssumption, MaxGensNat
<1>1. /\ cursor \in [Cursors -> CursorRecord] /\ OwnerType /\ torn \in BOOLEAN
      /\ readers \in 0..MaxReaders /\ gens \in 0..MaxGens
      /\ got \in [1..MaxReaders -> GotRecord]
  BY TypeParts, Zenon DEF CountType
<1>2. short' = short
  BY ShortStep
<1> DEFINE Fits(k, c, g) == k.reader # 0 => PointsHome(k, c) /\ InStep(k, g[k.reader])
<1>3. (\A c \in Cursors : Fits(cursor'[c], c, got')) => Follows'
  BY <1>2 DEF Follows, PointsHome, InStep, Addr, ReplySets
<1>4. \A c \in Cursors : Fits(cursor[c], c, got)
  BY DEF Follows
<1>5. \A c \in Cursors : Fits(NoCursor, c, got')
  BY DEF NoCursor
<1>6. ASSUME NEW c \in Cursors, NEW owns \in BOOLEAN, Make(c, owns) PROVE Follows' /\ ~torn'
  <2>1. torn' = torn /\ got' = [got EXCEPT ![readers + 1] = [Nothing EXCEPT !.owning = owns]]
    BY <1>6, Zenon DEF Make
  <2>2. readers + 1 \in 1..MaxReaders /\ cursor'[c].reader = readers + 1
        /\ \A d \in Cursors : d # c => cursor'[d] = cursor[d]
    BY <1>6, MadeCursor
  <2>3. got'[readers + 1].owning = owns /\ got'[readers + 1].set = 1 /\ got'[readers + 1].row = 0
        /\ \A r \in 1..MaxReaders : r # readers + 1 => got'[r] = got[r]
    BY <1>1, <2>1, <2>2 DEF Nothing
  <2>4. Fits(cursor'[c], c, got')
    <3>1. PointsHome(cursor'[c], c)
      BY <1>6, MadeCursor DEF PointsHome
    <3>2. InStep(cursor'[c], got'[readers + 1])
      <4>1. cursor'[c].owns = owns
            /\ (short => cursor'[c].done /\ cursor'[c].off = <<2, 0>>)
            /\ (~short => ~cursor'[c].done /\ cursor'[c].off = <<1, 1>>)
        BY <1>6, MadeCursor
      <4> QED BY <2>3, <4>1 DEF InStep, ReplySets
    <3> QED BY <2>2, <3>1, <3>2
  <2>5. ASSUME NEW d \in Cursors, d # c PROVE Fits(cursor'[d], d, got')
    <3>1. /\ cursor'[d] = cursor[d] /\ cursor[d].reader \in 0..MaxReaders
          /\ cursor[d].reader <= readers
      BY <1>1, <2>2, <2>5 DEF Origins, CursorRecord
    <3>2. cursor[d].reader # 0 => got'[cursor[d].reader] = got[cursor[d].reader]
      BY <1>1, <2>3, <3>1
    <3>3. Fits(cursor[d], d, got)
      BY <1>4
    <3> QED BY <3>1, <3>2, <3>3
  <2> QED BY <1>3, <2>1, <2>4, <2>5, Zenon
<1>7. ASSUME NEW c \in Cursors, NEW d \in Cursors, Move(c, d) PROVE Follows' /\ ~torn'
  <2>1. torn' = torn
    BY <1>7, Zenon DEF Move
  <2>2. /\ c # d /\ cursor'[d] = Moved(c, d) /\ cursor'[c] = NoCursor
        /\ \A e \in Cursors : e # c /\ e # d => cursor'[e] = cursor[e]
        /\ got' = got
    BY <1>7, CursorsMoved
  <2>3. Fits(cursor'[d], d, got')
    <3> SUFFICES ASSUME Moved(c, d).reader # 0
                 PROVE  /\ PointsHome(Moved(c, d), d)
                        /\ InStep(Moved(c, d), got[Moved(c, d).reader])
      BY <2>2
    <3>1. /\ Moved(c, d).done = cursor[c].done /\ Moved(c, d).owns = cursor[c].owns
          /\ Moved(c, d).reader = cursor[c].reader
          /\ cursor[c].owns => Moved(c, d).head = Addr(d) /\ Moved(c, d).at = Addr(d)
          /\ ~cursor[c].owns => Moved(c, d) = cursor[c]
          /\ cursor[c].at = cursor[c].head /\ cursor[c].head # None
             => Moved(c, d).off = cursor[c].off
      BY <1>1, MovedCursor
    <3>2. PointsHome(cursor[c], c) /\ InStep(cursor[c], got[cursor[c].reader])
      BY <3>1 DEF Follows
    <3>3. cursor[c].at = cursor[c].head /\ cursor[c].head # None
      BY <3>2, AddrType DEF PointsHome, Places
    <3>4. PointsHome(Moved(c, d), d)
      BY <3>1, <3>2 DEF PointsHome
    <3>5. InStep(Moved(c, d), got[cursor[c].reader])
      BY <3>1, <3>2, <3>3 DEF InStep
    <3> QED BY <3>1, <3>4, <3>5
  <2>4. \A e \in Cursors : Fits(cursor'[e], e, got')
    <3> SUFFICES ASSUME NEW e \in Cursors PROVE Fits(cursor'[e], e, got')
      OBVIOUS
    <3>1. CASE e = c
      BY <1>5, <2>2, <3>1
    <3>2. CASE e = d
      BY <2>3, <3>2
    <3>3. CASE e # c /\ e # d
      <4>1. cursor'[e] = cursor[e] /\ got' = got /\ Fits(cursor[e], e, got)
        BY <1>4, <2>2, <3>3
      <4> QED BY <4>1
    <3> QED BY <3>1, <3>2, <3>3
  <2> HIDE DEF Fits
  <2> QED BY <1>3, <2>1, <2>4, Zenon
<1>8. ASSUME NEW p \in Places, Destroy(p) PROVE Follows' /\ ~torn'
  <2>1. torn' = torn
    BY <1>8, Zenon DEF Destroy
  <2>2. \A c \in Cursors : cursor'[c] = IF c = p THEN NoCursor ELSE cursor[c]
    BY <1>8, CursorsLeft
  <2>3. got' = got
    BY <1>8, CursorsLeft
  <2>4. \A e \in Cursors : Fits(cursor'[e], e, got')
    <3> SUFFICES ASSUME NEW e \in Cursors PROVE Fits(cursor'[e], e, got')
      OBVIOUS
    <3>1. CASE e = p
      BY <1>5, <2>2, <3>1
    <3>2. CASE e # p
      <4>1. cursor'[e] = cursor[e] /\ Fits(cursor[e], e, got)
        BY <1>4, <2>2, <3>2
      <4> QED BY <2>3, <4>1
    <3> QED BY <3>1, <3>2
  <2> HIDE DEF Fits
  <2> QED BY <1>3, <2>1, <2>4, Zenon
<1>9. ASSUME NEW c \in Cursors, ReadsWith(c) PROVE Follows' /\ ~torn'
  <2> DEFINE r == cursor[c].reader
  <2>1. /\ \A d \in Cursors : d # c => cursor'[d] = cursor[d]
        /\ cursor'[c].head = cursor[c].head /\ cursor'[c].at = cursor[c].at
        /\ cursor'[c].owns = cursor[c].owns /\ cursor'[c].reader = r
        /\ \A q \in 1..MaxReaders : q # r => got'[q] = got[q]
        /\ r \in 1..MaxReaders
    BY <1>9, CursorRead
  <2>2. Usable(c)
    BY <1>9, Zenon DEF ReadsWith, NextResultSet, NoMoreSets, FetchEnd, Fetch
  <2>3. ~Astray(c) /\ InStep(cursor[c], got[r])
    BY <2>2, NotAstray
  <2>4. cursor[c] \in CursorRecord /\ got[r] \in GotRecord
    BY <1>1, <2>1
  <2>5. ASSUME NEW d \in Cursors, d # c PROVE Fits(cursor'[d], d, got')
    <3>1. cursor'[d] = cursor[d] /\ Fits(cursor[d], d, got) /\ cursor[d].reader \in 0..MaxReaders
      BY <1>1, <1>4, <2>1, <2>5 DEF CursorRecord
    <3>2. cursor[d].reader # 0 => got'[cursor[d].reader] = got[cursor[d].reader]
      BY <2>1, <2>5, <3>1 DEF Origins
    <3> QED BY <3>1, <3>2
  <2>6. PointsHome(cursor'[c], c)
    BY <2>1, <2>2 DEF PointsHome, Follows, Usable
  <2>7. InStep(cursor'[c], got'[r]) /\ ~torn' => Follows' /\ ~torn'
    <3>1. ASSUME InStep(cursor'[c], got'[r]) PROVE Fits(cursor'[c], c, got')
      BY <2>1, <2>6, <3>1
    <3> HIDE DEF Fits
    <3> QED BY <1>3, <2>5, <3>1, Zenon
  <2>8. cursor[c].off \in (1..(Sets + 1)) \X (0..(Rows + 2))
    BY <2>4 DEF CursorRecord, Offsets
  <2> HIDE DEF r
  <2>9. CASE NextResultSet(c)
    <3>1. Following(c) = got[r].set + 1
      BY <2>3, <2>4, <2>8 DEF Following, InStep, GotRecord
    <3>2. got' = [got EXCEPT ![r].set = Following(c), ![r].row = 0]
          /\ cursor' = [cursor EXCEPT ![c] = Parsed(cursor[c], Following(c), gens + 1)]
      BY <2>9, Zenon DEF NextResultSet, r
    <3>3. torn' = (torn \/ Astray(c) \/ Following(c) # got[r].set + 1)
      BY <2>9, Zenon DEF NextResultSet, r
    <3>4. ~torn'
      BY <2>3, <3>1, <3>3, Zenon
    <3>5. got'[r].set = Following(c) /\ got'[r].row = 0 /\ got'[r].owning = got[r].owning
      <4> DEFINE n == Following(c)
      <4>1. r \in 1..MaxReaders /\ got' = [got EXCEPT ![r].set = n, ![r].row = 0]
        BY <2>1, <3>2, Zenon DEF r
      <4> HIDE DEF n
      <4>2. got'[r].set = n /\ got'[r].row = 0 /\ got'[r].owning = got[r].owning
        BY <1>1, <2>4, <4>1 DEF GotRecord
      <4> QED BY <4>2 DEF n
    <3>6. Following(c) \in 1..Sets /\ gens + 1 \in 0..MaxGens /\ Following(c) <= ReplySets
      BY <1>1, <2>4, <2>9, NextSetBounds
    <3>7. cursor'[c] = Parsed(cursor[c], Following(c), gens + 1)
      BY <1>1, <3>2
    <3>8. ~short
      BY <2>4, <3>1, <3>6 DEF ReplySets, GotRecord
    <3>9. ~cursor'[c].done /\ cursor'[c].off = <<Following(c), 1>>
      <4>1. /\ ~Parsed(cursor[c], Following(c), gens + 1).done
            /\ Parsed(cursor[c], Following(c), gens + 1).off = <<Following(c), 1>>
        BY <2>4, <3>8, ParsedLong, Zenon
      <4> QED BY <3>7, <4>1, Zenon
    <3>10. InStep(cursor'[c], got'[r])
      BY <2>1, <2>3, <3>5, <3>6, <3>8, <3>9 DEF InStep
    <3> QED BY <2>7, <3>4, <3>10, Zenon
  <2>10. CASE NoMoreSets(c)
    <3>1. Following(c) = got[r].set + 1 /\ Following(c) > ReplySets
      BY <2>3, <2>4, <2>8, <2>10 DEF Following, InStep, GotRecord, NoMoreSets
    <3>2. cursor'[c] = [cursor[c] EXCEPT !.off = <<ReplySets + 1, 1>>, !.done = TRUE]
          /\ got' = got
      BY <1>1, <2>10 DEF NoMoreSets
    <3>3. got[r].set <= ReplySets
      BY <2>3 DEF InStep
    <3>4. got[r].set = ReplySets
      BY <2>4, <3>1, <3>3 DEF GotRecord, ReplySets
    <3>5. torn' = (torn \/ Astray(c) \/ got[r].set # ReplySets)
      BY <2>10, Zenon DEF NoMoreSets, r
    <3>6. ~torn'
      BY <2>3, <3>4, <3>5, Zenon
    <3>7. InStep(cursor'[c], got'[r])
      <4>1. /\ cursor'[c].done /\ cursor'[c].off = <<ReplySets + 1, 1>>
            /\ cursor'[c].owns = cursor[c].owns
        BY <2>4, <3>2 DEF CursorRecord
      <4> QED BY <2>3, <3>2, <3>4, <4>1 DEF InStep
    <3> QED BY <2>7, <3>6, <3>7, Zenon
  <2>11. CASE FetchEnd(c)
    <3>1. ~cursor[c].done /\ Ahead(c)[1] <= ReplySets /\ Ahead(c)[2] > ReplyRows
      BY <2>11 DEF FetchEnd
    <3>2. ~short /\ cursor[c].off = <<got[r].set, got[r].row + 1>>
      BY <2>3, <3>1 DEF InStep
    <3>3. got[r].row = ReplyRows
      BY <2>4, <3>1, <3>2 DEF Ahead, ReplyRows, GotRecord
    <3>4. torn' = (torn \/ Astray(c) \/ got[r].row # ReplyRows)
      BY <2>11, Zenon DEF FetchEnd, r
    <3>5. ~torn'
      BY <2>3, <3>3, <3>4, Zenon
    <3>6. cursor'[c] = [cursor[c] EXCEPT !.off = <<cursor[c].off[1] + 1, 0>>, !.done = TRUE]
          /\ got' = got
      BY <1>1, <2>11 DEF FetchEnd
    <3>7. InStep(cursor'[c], got'[r])
      <4>1. cursor'[c].done /\ cursor'[c].off = <<cursor[c].off[1] + 1, 0>>
            /\ cursor'[c].owns = cursor[c].owns
        BY <2>4, <3>6 DEF CursorRecord
      <4> QED BY <2>3, <3>2, <3>6, <4>1 DEF InStep
    <3> QED BY <2>7, <3>5, <3>7, Zenon
  <2>12. ASSUME NEW s \in Slots, NEW kind \in {"null", "empty", "value"}, NEW copy \in BOOLEAN,
                Fetch(c, s, kind, copy)
         PROVE  Follows' /\ ~torn'
    <3>1. RowLeft(c) /\ ~cursor[c].done
      BY <2>12 DEF Fetch, RowLeft
    <3>2. ~short /\ cursor[c].off = <<got[r].set, got[r].row + 1>>
      BY <2>3, <3>1 DEF InStep
    <3>3. Ahead(c) = <<got[r].set, got[r].row + 1>>
      BY <2>4, <3>2 DEF Ahead, GotRecord
    <3>4. torn' = (torn \/ Astray(c) \/ Ahead(c) # <<got[r].set, got[r].row + 1>>)
      BY <2>12, Zenon DEF Fetch, r
    <3>5. ~torn'
      BY <2>3, <3>3, <3>4, Zenon
    <3>6. cursor' = [cursor EXCEPT ![c].off = <<Ahead(c)[1], Ahead(c)[2] + 1>>]
          /\ got' = [got EXCEPT ![r].row = Ahead(c)[2]]
      BY <2>12 DEF Fetch, r
    <3>7. cursor'[c].off = <<Ahead(c)[1], Ahead(c)[2] + 1>> /\ cursor'[c].done = cursor[c].done
          /\ got'[r].row = Ahead(c)[2] /\ got'[r].set = got[r].set /\ got'[r].owning = got[r].owning
      BY <1>1, <2>1, <2>4, <3>6 DEF CursorRecord, GotRecord, r
    <3>8. InStep(cursor'[c], got'[r])
      BY <2>1, <2>3, <3>1, <3>2, <3>3, <3>7 DEF InStep
    <3> QED BY <2>7, <3>5, <3>8, Zenon
  <2> QED BY <1>9, <2>9, <2>10, <2>11, <2>12, Zenon DEF ReadsWith
<1>10. CASE UNCHANGED <<short, alive, buf, auth, cursor, gens, readers, got, torn>>
  <2>1. \A c \in Cursors : Fits(cursor'[c], c, got')
    <3>1. cursor' = cursor /\ got' = got
      BY <1>10
    <3> HIDE DEF Fits
    <3> QED BY <1>4, <3>1, Zenon
  <2>2. torn' = torn
    BY <1>10, Zenon
  <2> HIDE DEF Fits
  <2> QED BY <1>3, <2>1, <2>2, Zenon
<1> QED
  BY <1>6, <1>7, <1>8, <1>9, <1>10, Kinds, Zenon

---------------------------------------------------------------------------
\* What a cell comes from stays true whatever happens to the cursors.
LEMMA OriginKept ==
    ASSUME TypeOK, Origins, Follows, [Next]_vars,
           NEW cell \in CellRecord, Origin(cell, cursor, got, readers)
    PROVE  Origin(cell, cursor', got', readers')
<1>1. /\ cursor \in [Cursors -> CursorRecord] /\ readers \in Nat /\ cell.reader \in Nat
      /\ cell.row[1] \in Nat /\ gens \in 0..MaxGens /\ got \in [1..MaxReaders -> GotRecord]
      /\ readers \in 0..MaxReaders
  BY TypeParts, CellsAssumption DEF CountType, CellRecord, RowIds
<1>2. NoCursor.reader = 0
  BY DEF NoCursor
<1>3. ~cell.stored => cell.data = None \/ (cell.data = Heap /\ ~short)
  BY DEF Origin
<1> DEFINE From(k, g) ==
        k.reader # 0 /\ cell.reader = k.reader =>
            /\ cell.row[1] <= g[cell.reader].set
            /\ cell.row[1] = g[cell.reader].set => cell.field = k.fields
<1>4. cell.reader <= readers /\ \A c \in Cursors : From(cursor[c], got)
  BY DEF Origin
<1>5. cell.reader <= readers' /\ (\A c \in Cursors : From(cursor'[c], got'))
      => Origin(cell, cursor', got', readers')
  BY <1>3 DEF Origin
<1>6. \A c \in Cursors : cursor[c].reader \in 0..MaxReaders /\ cursor[c].reader \in Nat
  BY <1>1, CellsAssumption DEF CursorRecord
<1>7. ASSUME NEW c \in Cursors, NEW owns \in BOOLEAN, Make(c, owns)
      PROVE  Origin(cell, cursor', got', readers')
  <2>1. cursor'[c].reader = readers + 1 /\ readers' = readers + 1
        /\ \A d \in Cursors : d # c => cursor'[d] = cursor[d]
    BY <1>7, MadeCursor
  <2>2. got' = [got EXCEPT ![readers + 1] = [Nothing EXCEPT !.owning = owns]]
    BY <1>7, Zenon DEF Make
  <2>3. \A r \in 1..MaxReaders : r # readers + 1 => got'[r] = got[r]
    BY <1>1, <2>2
  <2>4. From(cursor'[c], got')
    BY <1>1, <1>4, <2>1
  <2>5. ASSUME NEW d \in Cursors, d # c PROVE From(cursor'[d], got')
    BY <1>1, <1>4, <1>6, <2>1, <2>3, <2>5
  <2> QED BY <1>1, <1>4, <1>5, <2>1, <2>4, <2>5
<1>8. ASSUME NEW c \in Cursors, NEW d \in Cursors, Move(c, d)
      PROVE  Origin(cell, cursor', got', readers')
  <2>1. /\ c # d /\ cursor'[d] = Moved(c, d) /\ cursor'[c] = NoCursor
        /\ \A e \in Cursors : e # c /\ e # d => cursor'[e] = cursor[e]
        /\ got' = got /\ readers' = readers
    BY <1>8, CursorsMoved
  <2>2. Moved(c, d).reader = cursor[c].reader /\ Moved(c, d).fields = cursor[c].fields
    BY <1>1, MovedCursor
  <2> QED BY <1>2, <1>4, <1>5, <2>1, <2>2
<1>9. ASSUME NEW p \in Places, Destroy(p) PROVE Origin(cell, cursor', got', readers')
  <2>1. /\ \A c \in Cursors : cursor'[c] = IF c = p THEN NoCursor ELSE cursor[c]
        /\ got' = got /\ readers' = readers
    BY <1>9, CursorsLeft
  <2>2. ASSUME NEW c \in Cursors PROVE From(cursor'[c], got')
    <3>1. cursor'[c] = NoCursor \/ cursor'[c] = cursor[c]
      BY <2>1, Zenon
    <3> QED BY <1>2, <1>4, <2>1, <3>1
  <2> QED BY <1>4, <1>5, <2>1, <2>2
<1>10. ASSUME NEW c \in Cursors, ReadsWith(c) PROVE Origin(cell, cursor', got', readers')
  <2> DEFINE r == cursor[c].reader
  <2>1. /\ \A d \in Cursors : d # c => cursor'[d] = cursor[d]
        /\ cursor'[c].reader = r /\ readers' = readers
        /\ \A q \in 1..MaxReaders : q # r => got'[q] = got[q]
        /\ r \in 1..MaxReaders
    BY <1>10, CursorRead
  <2>2. Usable(c)
    BY <1>10, Zenon DEF ReadsWith, NextResultSet, NoMoreSets, FetchEnd, Fetch
  <2>3. InStep(cursor[c], got[r])
    BY <2>2, NotAstray
  <2>4. ASSUME NEW d \in Cursors, d # c PROVE From(cursor'[d], got')
    <3>1. cursor'[d] = cursor[d]
      BY <2>1, <2>4
    <3>2. cursor[d].reader # 0 => got'[cursor[d].reader] = got[cursor[d].reader]
      BY <1>6, <2>1, <2>4 DEF Origins
    <3> QED BY <1>4, <3>1, <3>2
  <2>5. CASE NextResultSet(c)
    <3>1. cursor[c] \in CursorRecord /\ got[r] \in GotRecord
      BY <1>1, <2>1
    <3>2. Following(c) = got[r].set + 1
      BY <2>3, <3>1, CellsAssumption DEF Following, InStep, GotRecord, CursorRecord, Offsets
    <3>3. got' = [got EXCEPT ![r].set = Following(c), ![r].row = 0]
      BY <2>5, Zenon DEF NextResultSet
    <3>4. got'[r].set = got[r].set + 1
      BY <1>1, <2>1, <3>1, <3>2, <3>3 DEF GotRecord
    <3>5. got[r].set \in Nat
      BY <3>1, CellsAssumption DEF GotRecord
    <3>6. From(cursor'[c], got')
      <4> SUFFICES ASSUME cell.reader = r PROVE cell.row[1] < got'[r].set
        BY <1>1, <2>1, <3>4, <3>5
      <4>1. cell.row[1] <= got[r].set
        BY <1>4, <2>1
      <4> HIDE DEF r
      <4> QED BY <1>1, <3>4, <3>5, <4>1
    <3> QED BY <1>4, <1>5, <2>1, <2>4, <3>6
  <2>6. ASSUME cursor'[c].fields = cursor[c].fields, got'[r].set = got[r].set
        PROVE  Origin(cell, cursor', got', readers')
    <3>1. From(cursor'[c], got')
      BY <1>4, <2>1, <2>6
    <3> QED BY <1>4, <1>5, <2>1, <2>4, <3>1
  <2>7. CASE NoMoreSets(c) \/ FetchEnd(c)
    <3>1. cursor'[c].fields = cursor[c].fields /\ got' = got
      BY <1>1, <2>7 DEF NoMoreSets, FetchEnd, CursorRecord
    <3> QED BY <2>6, <3>1
  <2>8. ASSUME NEW s \in Slots, NEW kind, NEW copy, Fetch(c, s, kind, copy)
        PROVE  Origin(cell, cursor', got', readers')
    <3>1. cursor' = [cursor EXCEPT ![c].off = <<Ahead(c)[1], Ahead(c)[2] + 1>>]
          /\ got' = [got EXCEPT ![r].row = Ahead(c)[2]]
      BY <2>8 DEF Fetch
    <3>2. cursor'[c].fields = cursor[c].fields /\ got'[r].set = got[r].set
      BY <1>1, <2>1, <3>1 DEF CursorRecord, GotRecord
    <3> QED BY <2>6, <3>2
  <2> QED BY <1>10, <2>5, <2>7, <2>8, Zenon DEF ReadsWith
<1>11. CASE UNCHANGED <<short, alive, buf, auth, cursor, gens, readers, got, torn>>
  <2>1. cursor' = cursor /\ got' = got /\ readers' = readers
    BY <1>11
  <2> HIDE DEF From
  <2> QED BY <1>4, <1>5, <2>1, Zenon
<1> QED
  BY <1>7, <1>8, <1>9, <1>10, <1>11, Kinds, Zenon

\* detach() and copies leave a cell where it comes from.
LEMMA OriginOfCopies ==
    ASSUME NEW s \in Slots, NEW cell \in CellRecord, NEW f, NEW g, NEW n, Origin(cell, f, g, n)
    PROVE  /\ Origin(Detached(cell, s), f, g, n)
           /\ cell.stored => Origin([cell EXCEPT !.data = s], f, g, n)
<1>1. /\ Detached(cell, s).reader = cell.reader /\ Detached(cell, s).row = cell.row
      /\ Detached(cell, s).field = cell.field
      /\ ~Detached(cell, s).stored => ~cell.stored /\ Detached(cell, s).data = cell.data
  BY DEF Detached, CellRecord
<1>2. DEFINE e == [cell EXCEPT !.data = s]
<1>3. e.reader = cell.reader /\ e.row = cell.row /\ e.field = cell.field /\ e.stored = cell.stored
  BY DEF CellRecord
<1> HIDE DEF e
<1> QED BY <1>1, <1>3 DEF Origin, e

\* The ghost stays a truth value.
LEMMA TornType == ASSUME TypeOK, [Next]_vars PROVE torn' \in BOOLEAN
<1>1. torn \in BOOLEAN
  BY TypeParts, Zenon
<1>2. ASSUME NEW c \in Cursors, ReadsWith(c) PROVE torn' \in BOOLEAN
  BY <1>2, Zenon DEF ReadsWith, NextResultSet, NoMoreSets, FetchEnd, Fetch
<1>3. CASE UNCHANGED torn
  BY <1>1, <1>3, Zenon
<1> QED
  BY <1>2, <1>3, ZenonT(60) DEF Next, vars, ReadsWith, Make, Move, Destroy, Detach, DropCell,
                                CopyCell, MoveCell

\* Every cell still comes from its cursor after a step.
LEMMA CellsFromStep ==
    ASSUME TypeOK, Origins, Follows, CellsFrom, [Next]_vars
    PROVE  CellsFrom'
<1> DEFINE Good(f) == /\ f \in [Slots -> CellRecord]
                      /\ \A s \in Slots : Origin(f[s], cursor', got', readers')
<1>1. cells \in [Slots -> CellRecord] /\ Good(cells)
  BY TypeParts, OriginKept DEF CellsFrom
<1>2. ASSUME NEW t \in Slots, NEW cell \in CellRecord, Origin(cell, cursor', got', readers'),
             NEW f, Good(f)
      PROVE  Good([f EXCEPT ![t] = cell])
  BY <1>2
<1>3. Good(cells') => CellsFrom'
  BY ShortStep DEF CellsFrom, Origin
<1>4. ASSUME NEW c \in Cursors, NEW s \in Slots, NEW kind \in {"null", "empty", "value"},
             NEW copy \in BOOLEAN, Fetch(c, s, kind, copy)
      PROVE  Good(cells')
  <2> DEFINE cell == [NoCell EXCEPT !.kind = kind, !.field = cursor[c].fields,
                                    !.reader = cursor[c].reader,
                                    !.data = IF kind = "null" THEN None ELSE cursor[c].at,
                                    !.row = Ahead(c)]
  <2>1. /\ cursor \in [Cursors -> CursorRecord] /\ cursor[c] \in CursorRecord
        /\ Usable(c) /\ RowLeft(c) /\ cursor[c].reader # 0
    BY <1>4, TypeParts DEF Fetch, Usable
  <2>2. Ahead(c) \in RowIds /\ ~short /\ ~cursor[c].done
    BY <2>1, AheadRow, Zenon
  <2>3. cell \in CellRecord
    BY <2>1, <2>2, EmptyTypes DEF CellRecord, CursorRecord
  <2>4. PointsHome(cursor[c], c) /\ InStep(cursor[c], got[cursor[c].reader])
    BY <2>1 DEF Follows
  <2>10. cursor[c].at = Heap
    BY <2>2, <2>4 DEF PointsHome, Addr
  <2>11. Ahead(c)[1] = got[cursor[c].reader].set
    BY <2>2, <2>4 DEF InStep, Ahead
  <2>12. cell.reader = cursor[c].reader /\ cell.field = cursor[c].fields
        /\ cell.data \in {None, Heap} /\ cell.row[1] = got[cell.reader].set
    BY <2>1, <2>10, <2>11 DEF NoCell, CursorRecord
  <2>5. cells' = [cells EXCEPT ![s] = IF copy THEN Detached(cell, s) ELSE cell]
    BY <1>4 DEF Fetch
  <2> HIDE DEF cell
  <2>6. Origin(cell, cursor, got, readers)
    <3>1. got[cell.reader].set \in Nat
      <4>1. got \in [1..MaxReaders -> GotRecord] /\ cell.reader \in 1..MaxReaders
        BY <2>1, <2>12, TypeParts DEF CountType, CursorRecord
      <4> QED BY <4>1, CellsAssumption DEF GotRecord
    <3>2. cell.reader <= readers
      BY <2>12 DEF Origins
    <3>3. ASSUME NEW d \in Cursors, cursor[d].reader # 0, cell.reader = cursor[d].reader
          PROVE  d = c
      BY <2>12, <3>3 DEF Origins
    <3> QED BY <2>2, <2>12, <3>1, <3>2, <3>3 DEF Origin
  <2>7. Origin(cell, cursor', got', readers')
    BY <2>3, <2>6, OriginKept
  <2>8. (IF copy THEN Detached(cell, s) ELSE cell) \in CellRecord
    BY <2>3, DetachedCell
  <2>9. Origin(IF copy THEN Detached(cell, s) ELSE cell, cursor', got', readers')
    <3> HIDE DEF Good
    <3> QED BY <2>3, <2>7, OriginOfCopies
  <2> HIDE DEF Good
  <2> QED BY <1>1, <1>2, <2>5, <2>8, <2>9
<1>5. ASSUME NEW s \in Slots, Detach(s) PROVE Good(cells')
  <2>1. cells' = [cells EXCEPT ![s] = Detached(cells[s], s)]
    BY <1>5, Zenon DEF Detach
  <2>2. cells[s] \in CellRecord /\ Origin(cells[s], cursor', got', readers')
    BY <1>1
  <2>3. /\ Detached(cells[s], s) \in CellRecord
        /\ Origin(Detached(cells[s], s), cursor', got', readers')
    BY <2>2, DetachedCell, OriginOfCopies
  <2> HIDE DEF Good
  <2> QED BY <1>1, <1>2, <2>1, <2>3
<1>6. ASSUME NEW s \in Slots, DropCell(s) PROVE Good(cells')
  <2>1. NoCell \in CellRecord /\ NoCell.reader = 0 /\ NoCell.data = None
    BY EmptyTypes DEF NoCell
  <2>2. readers' \in Nat
    BY TypeParts, CountTypeStep, CellsAssumption DEF CountType
  <2>3. Origin(NoCell, cursor', got', readers')
    BY <2>1, <2>2 DEF Origin
  <2> HIDE DEF Good
  <2> QED BY <1>1, <1>2, <1>6, <2>1, <2>3 DEF DropCell
<1>7. ASSUME NEW s \in Slots, NEW t \in Slots
      PROVE  Copied(s, t) \in CellRecord /\ Origin(Copied(s, t), cursor', got', readers')
  <2>1. cells[s] \in CellRecord /\ Origin(cells[s], cursor', got', readers')
    BY <1>1
  <2>2. Copied(s, t) \in CellRecord
    BY <2>1 DEF Copied, CellRecord
  <2> HIDE DEF Good
  <2> QED BY <2>1, <2>2, OriginOfCopies DEF Copied
<1>8. ASSUME NEW s \in Slots, NEW t \in Slots, CopyCell(s, t) PROVE Good(cells')
  <2> HIDE DEF Good
  <2> QED BY <1>1, <1>2, <1>7, <1>8 DEF CopyCell
<1>9. ASSUME NEW s \in Slots, NEW t \in Slots, MoveCell(s, t) PROVE Good(cells')
  <2> DEFINE left == [cells[s] EXCEPT !.kind = "null", !.data = None, !.stored = FALSE,
                                      !.storedRow = <<0, 0>>]
  <2>1. left \in CellRecord
    <3>1. <<0, 0>> \in RowIds /\ cells[s] \in CellRecord
      BY <1>1, CellsAssumption DEF RowIds
    <3> QED BY <3>1 DEF CellRecord
  <2>2. left.reader = cells[s].reader /\ left.row = cells[s].row /\ left.field = cells[s].field
        /\ left.data = None
    BY <1>1 DEF CellRecord
  <2>3. s # t /\ cells' = [[cells EXCEPT ![t] = Copied(s, t)] EXCEPT ![s] = left]
    BY <1>1, <1>9 DEF MoveCell
  <2> HIDE DEF left
  <2>4. Origin(left, cursor', got', readers')
    <3>1. Origin(cells[s], cursor', got', readers')
      BY <1>1
    <3> HIDE DEF Good
    <3> QED BY <2>2, <3>1 DEF Origin
  <2> HIDE DEF Good
  <2>5. Good([cells EXCEPT ![t] = Copied(s, t)])
    BY <1>1, <1>2, <1>7
  <2> QED BY <1>2, <2>1, <2>3, <2>4, <2>5
<1>10. UNCHANGED cells => Good(cells')
  BY <1>1
<1> HIDE DEF Good
<1>11. Good(cells')
  BY <1>4, <1>5, <1>6, <1>8, <1>9, <1>10, Zenon
     DEF Next, vars, Make, Move, Destroy, NextResultSet, NoMoreSets, FetchEnd
<1> QED
  BY <1>3, <1>11

---------------------------------------------------------------------------
\* The invariant holds in every reachable state.
THEOREM CellsInvariant == Spec => []IInv
<1>1. Init => IInv
  BY InitInv
<1>2. IInv /\ [Next]_vars => IInv'
  <2> SUFFICES ASSUME IInv, [Next]_vars PROVE IInv'
    OBVIOUS
  <2>1. TypeOK /\ OneOwner /\ CellsOwn /\ Origins /\ Follows /\ CellsFrom /\ ~torn
    BY Zenon DEF IInv
  <2>2. OwnerType' /\ cursor' \in [Cursors -> CursorRecord] /\ CountType'
    BY <2>1, OwnerTypeStep, CursorTypeStep, CountTypeStep, Zenon
  <2>3. cells' \in [Slots -> CellRecord] /\ CellsOwn'
    BY <2>1, CellsStep, Zenon
  <2>4. Follows' /\ ~torn' /\ OneOwner' /\ Origins' /\ CellsFrom'
    BY <2>1, FollowsStep, OneOwnerStep, OriginsStep, CellsFromStep, Zenon
  <2>5. torn' \in BOOLEAN
    BY <2>1, TornType, Zenon
  <2>6. TypeOK'
    BY <2>2, <2>3, <2>5, Zenon DEF TypeOK, OwnerType, CountType, GotRecord, CursorRecord, CellRecord
  <2> QED
    BY <2>1, <2>3, <2>4, <2>6, Zenon DEF IInv
<1> QED
  BY <1>1, <1>2, PTL DEF Spec

\* Every variable of the model of cursors and cells keeps its type (TypeOK).
THEOREM CellsTypeCorrect == Spec => []TypeOK
<1>1. IInv => TypeOK
  BY DEF IInv
<1> QED
  BY <1>1, CellsInvariant, PTL

\* Through any chain of moves, with a reply on the heap or in the string object, a
\* cursor reads at the place its reply has moved to, and what comes next there
\* (PostgresResultCursor's move construction and assignment: head_, cursor_, offset).
THEOREM MovedCursorContinuesHolds == Spec => []MovedCursorContinues
<1>1. IInv => MovedCursorContinues
  BY Zenon DEF IInv, MovedCursorContinues
<1> QED
  BY <1>1, CellsInvariant, PTL

\* The response's buffer and auth_ are never in two objects, so that no destructor
\* deletes auth_ a second time (PostgresResponse's moves).
THEOREM OwnedOnceHolds == Spec => []OwnedOnce
<1>1. IInv => OwnedOnce
  <2> SUFFICES ASSUME IInv, NEW p \in alive, NEW q \in alive, p # q
               PROVE  /\ buf[p] = None \/ buf[p] # buf[q]
                      /\ auth[p] = None \/ auth[p] # auth[q]
    BY DEF OwnedOnce
  <2>1. OwnerType /\ OneOwner
    BY TypeParts DEF IInv
  <2> QED
    BY <2>1 DEF OwnerType, OneOwner, None, TheReply, TheAuth
<1> QED
  BY <1>1, CellsInvariant, PTL

\* A detached cell shows its own row whatever has been destroyed, copied or moved
\* since (PostgresCell::detach, its copies and moves).
THEOREM DetachedKeepsValueHolds == Spec => []DetachedKeepsValue
<1>1. IInv => DetachedKeepsValue
  <2> SUFFICES ASSUME IInv, NEW s \in Slots, cells[s].detached, cells[s].kind = "value"
               PROVE  Shows(s) = cells[s].row
    BY DEF DetachedKeepsValue, DataReadable
  <2>1. OwnStorage(s, cells[s])
    BY DEF IInv, CellsOwn
  <2>2. cells[s].stored /\ cells[s].data = s /\ cells[s].storedRow = cells[s].row
    BY <2>1, Zenon DEF OwnStorage
  <2> QED
    BY <2>2, Zenon DEF Shows
<1> QED
  BY <1>1, CellsInvariant, PTL

\* A cell fetched from the result set its cursor is still in can be read, data and
\* descriptions, however often cursor and cell have been moved or copied, while the
\* response exists (PostgresResultCursor's moves, parse_metadata's fields_).
THEOREM CurrentReadableHolds == Spec => []CurrentReadable
<1>1. IInv => CurrentReadable
  <2> SUFFICES ASSUME IInv, NEW s \in Slots, NEW c \in Cursors, Usable(c),
                      cells[s].reader = cursor[c].reader,
                      cells[s].row[1] = got[cursor[c].reader].set
               PROVE  DataReadable(s) /\ FieldReadable(s)
    BY DEF CurrentReadable
  <2>1. /\ TypeOK /\ Origins /\ Follows /\ OwnStorage(s, cells[s])
        /\ Origin(cells[s], cursor, got, readers)
    BY DEF IInv, CellsOwn, CellsFrom
  <2>2. DataReadable(s)
    <3> SUFFICES ASSUME cells[s].kind = "value" PROVE Shows(s) = cells[s].row
      BY DEF DataReadable
    <3>1. CASE cells[s].stored
      <4>1. cells[s].data = s /\ cells[s].storedRow = cells[s].row
        BY <2>1, <3>1, Zenon DEF OwnStorage
      <4> QED BY <3>1, <4>1, Zenon DEF Shows
    <3>2. CASE ~cells[s].stored
      <4>1. cells[s].data = Heap /\ ~short
        BY <2>1, <3>2 DEF OwnStorage, Origin
      <4>2. Heap \notin Slots
        BY CellsAssumption DEF Heap
      <4>3. PointsHome(cursor[c], c) /\ LiveAt(cursor[c].at)
        BY <2>1, NotAstray DEF Follows, Usable
      <4>4. cursor[c].at = Heap
        BY <4>1, <4>3 DEF PointsHome, Addr
      <4> QED BY <4>1, <4>2, <4>3, <4>4, Zenon DEF Shows
    <3> QED BY <3>1, <3>2
  <2>3. FieldReadable(s)
    <3>1. cells[s].field = cursor[c].fields /\ c \in Cursors \cap alive
      BY <2>1 DEF Origin, Usable
    <3> QED BY <3>1 DEF FieldReadable, FieldsLive
  <2> QED BY <2>2, <2>3
<1> QED
  BY <1>1, CellsInvariant, PTL
=============================================================================
