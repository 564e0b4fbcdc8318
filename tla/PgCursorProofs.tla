--------------------------- MODULE PgCursorProofs ---------------------------
(***************************************************************************)
(* Proof about PgCursor for every reply, malformed ones included: rows     *)
(* come once and in order, whatever calls the application makes.           *)
(***************************************************************************)
EXTENDS PgCursor, PgBackendProofs, WellFoundedInduction, FiniteSetTheorems, TLAPS

\* The least-number principle, from the well-foundedness of < on Nat.
LEMMA Least ==
    ASSUME NEW T, T \subseteq Nat, T # {}
    PROVE  \E i \in T : \A j \in T : i <= j
<1> DEFINE R == OpToRel(<, Nat)
<1>1. IsWellFoundedOn(R, Nat)
  BY NatLessThanWellFounded
<1>2. PICK x \in T : \A y \in T : ~ (<<y, x>> \in R)
  <2> HIDE DEF R
  <2> QED BY <1>1, WFMin
<1>3. ASSUME NEW y \in T PROVE x <= y
  <2>1. ~ (<<y, x>> \in OpToRel(<, Nat))
    BY <1>2
  <2>2. ~ (y < x)
    BY <2>1 DEF OpToRel
  <2> QED BY <2>2
<1> QED BY <1>3

\* A scan stops at or after its start, at the latest behind the last message, and
\* where it stops there is one of the messages it looks for (First).
LEMMA FirstFound ==
    ASSUME reply \in Seq(FrameTypes), NEW S, NEW p \in Nat, p >= 1
    PROVE  \/ First(p, S) = End
           \/ /\ First(p, S) \in p..Len(reply)
              /\ reply[First(p, S)] \in S \cup {"X"}
<1> DEFINE hits == {i \in p..Len(reply) : reply[i] \in S \cup {"X"}}
<1>1. CASE hits = {}
  BY <1>1 DEF First
<1>2. CASE hits # {}
  <2>1. hits \subseteq Nat
    OBVIOUS
  <2>2. \E i \in hits : \A j \in hits : i <= j
    <3> HIDE DEF hits
    <3> QED BY <1>2, <2>1, Least
  <2>3. First(p, S) \in hits
    BY <1>2, <2>2 DEF First
  <2> QED BY <2>3
<1> QED BY <1>1, <1>2

---------------------------------------------------------------------------
\* The cursor is within the reply, and behind the last row it delivered.
Placed ==
    /\ reply \in Seq(FrameTypes)
    /\ pos \in Nat /\ row \in Nat /\ pos <= End
    /\ pos = 0 => row = 0
    /\ pos > 0 => row < pos

\* parse_metadata moves forward only, and never past the end (Metadata).
LEMMA MetadataForward ==
    ASSUME reply \in Seq(FrameTypes), NEW p \in Nat, p >= 1, p <= End
    PROVE  Metadata(p).pos \in p..End
<1> DEFINE i == First(p, {"T", "C"} \cup RowFrames)
<1>1. i = End \/ (i \in p..Len(reply) /\ i <= Len(reply))
  BY FirstFound
<1>2. Len(reply) \in Nat /\ End = Len(reply) + 1
  BY DEF End
<1>3. CASE i = End
  <2>1. At(i) = "none"
    BY <1>2, <1>3 DEF At
  <2>2. Metadata(p).pos = i
    BY <2>1 DEF Metadata
  <2> QED BY <1>2, <1>3, <2>2
<1>4. CASE i \in p..Len(reply)
  <2>1. Metadata(p).pos = i \/ Metadata(p).pos = i + 1
    BY DEF Metadata
  <2> HIDE DEF i
  <2> QED BY <1>2, <1>4, <2>1
<1> QED BY <1>1, <1>3, <1>4

\* next_result_set looks ahead only (Following, AfterLast).
LEMMA FollowingForward ==
    ASSUME Placed, pos > 0
    PROVE  /\ Following = End \/ Following \in pos..Len(reply)
           /\ AfterLast \in pos..End
<1>1. Len(reply) \in Nat /\ End = Len(reply) + 1 /\ End \in Nat
  BY DEF Placed, End
<1>2. EndOfSet + 1 \in Nat /\ EndOfSet + 1 >= pos
  <2>1. CASE done
    BY <2>1 DEF EndOfSet, Placed
  <2>2. CASE ~done
    <3>1. First(pos, {"C", "Z"}) = End \/ First(pos, {"C", "Z"}) \in pos..Len(reply)
      BY FirstFound DEF Placed
    <3> QED BY <1>1, <2>2, <3>1 DEF EndOfSet, Placed
  <2> QED BY <2>1, <2>2
<1>3. Following = End \/ Following \in (EndOfSet + 1)..Len(reply)
  <2> DEFINE q == EndOfSet + 1
  <2>1. q \in Nat /\ q >= 1
    BY <1>2 DEF Placed
  <2> HIDE DEF q
  <2>2. First(q, StartsSet \cup {"Z"}) = End \/ First(q, StartsSet \cup {"Z"}) \in q..Len(reply)
    BY <2>1, FirstFound DEF Placed
  <2> QED BY <2>2 DEF Following, q
<1>4. Following = End \/ Following \in pos..Len(reply)
  BY <1>1, <1>2, <1>3 DEF Placed
<1>5. AfterLast \in pos..End
  BY <1>1, <1>4 DEF AfterLast, Placed
<1> QED BY <1>4, <1>5

\* fetch_row looks ahead only.
LEMMA FetchedForward ==
    ASSUME Placed, pos > 0
    PROVE  Fetched = End \/ Fetched \in pos..Len(reply)
<1>1. pos >= 1
  BY DEF Placed
<1> QED BY <1>1, FirstFound DEF Fetched, Placed

\* Every step keeps the position in the reply, and the last row before it.
LEMMA PlacedStep ==
    ASSUME Placed, [Next]_vars
    PROVE  Placed'
<1>0. Len(reply) \in Nat /\ End = Len(reply) + 1
  BY DEF Placed, End
<1>1. ASSUME NEW t \in Frames, Send(t)
      PROVE  Placed'
  <2>1. t \in FrameTypes
    BY CursorAssumption
  <2>2. reply' \in Seq(FrameTypes) /\ Len(reply') = Len(reply) + 1
    BY <1>1, <2>1 DEF Send, Placed
  <2>3. pos' = pos /\ row' = row
    BY <1>1 DEF Send, cursorVars, ghostVars
  <2> QED BY <1>0, <2>2, <2>3 DEF Placed, End
<1>2. ASSUME Create
      PROVE  Placed'
  <2>1. 1 <= End /\ 1 \in Nat
    BY <1>0
  <2>2. Metadata(1).pos \in 1..End
    BY <2>1, MetadataForward DEF Placed
  <2>3. pos' = Metadata(1).pos /\ reply' = reply /\ row' = row /\ row = 0
    BY <1>2 DEF Create, SetCursor, ghostVars, Placed
  <2> QED BY <1>0, <2>2, <2>3 DEF Placed, End
<1>3. ASSUME FetchRow
      PROVE  Placed'
  <2>1. pos > 0 /\ row' = Fetched /\ pos' = Fetched + 1 /\ reply' = reply
    BY <1>3 DEF FetchRow, AfterRow
  <2>2. At(Fetched) # "none"
    BY <1>3 DEF FetchRow, HasRow
  <2>3. Fetched \in 1..Len(reply)
    BY <2>2 DEF At
  <2>4. Fetched \in pos..Len(reply)
    BY <1>0, <2>1, <2>3, FetchedForward
  <2> QED BY <1>0, <2>1, <2>4 DEF Placed, End
<1>4. ASSUME FetchNoRow
      PROVE  Placed'
  <2>1. pos > 0 /\ row' = row /\ reply' = reply
    BY <1>4 DEF FetchNoRow
  <2>2. pos' = pos \/ pos' = End \/ (Fetched # End /\ pos' = Fetched + 1)
    BY <1>4 DEF FetchNoRow, cursorVars
  <2>3. pos' \in pos..End
    BY <1>0, <2>1, <2>2, FetchedForward DEF Placed
  <2> QED BY <1>0, <2>1, <2>3 DEF Placed, End
<1>5. ASSUME NextResultSet
      PROVE  Placed'
  <2>1. pos > 0 /\ row' = row /\ reply' = reply /\ pos' = Metadata(Following).pos
    BY <1>5 DEF NextResultSet, SetCursor
  <2>2. Following \in pos..End
    BY <1>0, <2>1, FollowingForward DEF Placed
  <2>3. Metadata(Following).pos \in Following..End
    <3>1. Following \in Nat /\ Following >= 1 /\ Following <= End
      BY <1>0, <2>1, <2>2 DEF Placed
    <3> QED BY <3>1, MetadataForward DEF Placed
  <2>4. pos' \in pos..End
    BY <1>0, <2>1, <2>2, <2>3 DEF Placed
  <2> QED BY <1>0, <2>1, <2>4 DEF Placed, End
<1>6. ASSUME NoResultSet
      PROVE  Placed'
  <2>1. pos > 0 /\ row' = row /\ reply' = reply
    BY <1>6 DEF NoResultSet
  <2>2. \/ pos' = pos
        \/ EndAt = "Z" /\ pos' = EndOfSet + 1
        \/ pos' = AfterLast
    BY <1>6 DEF NoResultSet
  <2>3. EndAt = "Z" => EndOfSet \in pos..Len(reply)
    <3>1. SUFFICES ASSUME EndAt = "Z" PROVE EndOfSet \in pos..Len(reply)
      OBVIOUS
    <3>2. ~done /\ EndOfSet = First(pos, {"C", "Z"}) /\ At(EndOfSet) = "Z"
      BY <3>1 DEF EndAt, EndOfSet
    <3>3. EndOfSet \in 1..Len(reply)
      BY <3>2 DEF At
    <3>4. EndOfSet = End \/ EndOfSet \in pos..Len(reply)
      BY <2>1, <3>2, FirstFound DEF Placed
    <3> QED BY <1>0, <3>3, <3>4
  <2>4. AfterLast \in pos..End
    BY <2>1, FollowingForward
  <2>5. pos' \in pos..End
    BY <1>0, <2>1, <2>2, <2>3, <2>4 DEF Placed
  <2> QED BY <1>0, <2>1, <2>5 DEF Placed, End
<1>7. CASE UNCHANGED vars
  BY <1>7 DEF vars, cursorVars, ghostVars, Placed, End
<1> QED BY <1>1, <1>2, <1>3, <1>4, <1>5, <1>6, <1>7 DEF Next

\* A row that is fetched lies behind the last one.
LEMMA OrderedStep ==
    ASSUME Placed, ~unordered, [Next]_vars
    PROVE  ~unordered'
<1>1. ASSUME FetchRow
      PROVE  ~unordered'
  <2>1. pos > 0 /\ (unordered' <=> unordered \/ Fetched <= row)
    BY <1>1 DEF FetchRow
  <2>2. Fetched \in Nat /\ Fetched > row
    <3>1. Fetched = End \/ Fetched \in pos..Len(reply)
      BY <2>1, FetchedForward
    <3>2. Len(reply) \in Nat /\ End = Len(reply) + 1
      BY DEF Placed, End
    <3> QED BY <2>1, <3>1, <3>2 DEF Placed
  <2>3. ~(Fetched <= row)
    BY <2>2 DEF Placed
  <2> QED BY <2>1, <2>3
<1>2. ASSUME ~FetchRow
      PROVE  UNCHANGED unordered
  BY <1>2 DEF Next, Send, Create, FetchNoRow, NextResultSet, NoResultSet, vars, ghostVars
<1> QED BY <1>1, <1>2

\* fetch_row delivers every row at most once and in the order of the reply,
\* whatever sequence of fetch_row and next_result_set the application calls
\* (PostgresResult.cc:570-715).
THEOREM RowsInOrderHolds == Spec => []RowsInOrder
<1>1. Init => Placed /\ ~unordered
  BY DEF Init, Placed, End
<1>2. Placed /\ ~unordered /\ [Next]_vars => Placed' /\ ~unordered'
  BY PlacedStep, OrderedStep
<1>3. Placed /\ ~unordered => RowsInOrder
  BY DEF RowsInOrder
<1> QED BY <1>1, <1>2, <1>3, PTL DEF Spec

---------------------------------------------------------------------------
\* What Placed leaves of TypeOK.
Ranges ==
    /\ Len(reply) <= MaxFrames /\ phase \in Phases /\ moves \in 0..MaxFrames
    /\ fields \in 0..Len(reply) /\ tag \in 0..Len(reply) /\ seen \subseteq 1..Len(reply)
    /\ done \in BOOLEAN /\ unordered \in BOOLEAN
    /\ drained \in BOOLEAN /\ skipped \in BOOLEAN /\ over \in BOOLEAN

\* parse_metadata takes what it finds from messages of the reply.
LEMMA MetadataInReply ==
    ASSUME reply \in Seq(FrameTypes), NEW p
    PROVE  /\ Metadata(p).fields \in 0..Len(reply) /\ Metadata(p).tag \in 0..Len(reply)
           /\ Metadata(p).done \in BOOLEAN
<1> DEFINE i == First(p, {"T", "C"} \cup RowFrames)
<1>1. Len(reply) \in Nat
  OBVIOUS
<1>2. At(i) # "none" => i \in 1..Len(reply)
  BY DEF At
<1>3. Metadata(p).fields = IF At(i) = "T" THEN i ELSE 0
  BY DEF Metadata
<1>4. Metadata(p).tag = IF At(i) = "C" THEN i ELSE 0
  BY DEF Metadata
<1>5. Metadata(p).done = (At(i) = "C")
  BY DEF Metadata
<1> HIDE DEF i
<1> QED BY <1>1, <1>2, <1>3, <1>4, <1>5

\* Every step keeps fields and tag to messages of the reply.
LEMMA RangesStep ==
    ASSUME Placed, Ranges, [Next]_vars
    PROVE  Ranges'
<1>0. Len(reply) \in Nat
  BY DEF Placed
<1>1. ASSUME NEW t \in Frames, Send(t)
      PROVE  Ranges'
  <2>1. t \in FrameTypes
    BY CursorAssumption
  <2>2. Len(reply') = Len(reply) + 1 /\ Len(reply) < MaxFrames
    BY <1>1, <2>1 DEF Send, Placed
  <2>3. phase' \in Phases
    BY <1>1, PhasesClosed DEF Send, Ranges
  <2>4. UNCHANGED <<done, fields, tag, seen, unordered, moves, drained, skipped, over>>
    BY <1>1 DEF Send, cursorVars, ghostVars
  <2>5. Len(reply') <= MaxFrames
    BY <1>0, <2>2, CursorAssumption
  <2>6. fields' \in 0..Len(reply') /\ tag' \in 0..Len(reply') /\ seen' \subseteq 1..Len(reply')
    BY <1>0, <2>2, <2>4 DEF Ranges
  <2> QED BY <2>3, <2>4, <2>5, <2>6 DEF Ranges
<1>2. ASSUME Create
      PROVE  Ranges'
  <2>1. /\ done' = Metadata(1).done /\ fields' = Metadata(1).fields /\ tag' = Metadata(1).tag
        /\ UNCHANGED <<reply, phase, seen, unordered, moves, drained, skipped, over>>
    BY <1>2 DEF Create, SetCursor, ghostVars
  <2> QED BY <2>1, MetadataInReply DEF Ranges, Placed
<1>3. ASSUME FetchRow
      PROVE  Ranges'
  <2>1. At(Fetched) # "none"
    BY <1>3 DEF FetchRow, HasRow
  <2>2. Fetched \in 1..Len(reply)
    BY <2>1 DEF At
  <2>3. /\ seen' = seen \cup {Fetched} /\ unordered' \in BOOLEAN
        /\ UNCHANGED <<reply, phase, done, fields, tag, moves, drained, skipped, over>>
    BY <1>3 DEF FetchRow
  <2> QED BY <2>2, <2>3 DEF Ranges
<1>4. ASSUME FetchNoRow
      PROVE  Ranges'
  <2>1. tag' = tag \/ (At(Fetched) = "C" /\ tag' = Fetched)
    BY <1>4 DEF FetchNoRow, cursorVars
  <2>2. At(Fetched) = "C" => Fetched \in 1..Len(reply)
    BY DEF At
  <2>3. done' = done \/ done' \in BOOLEAN
    BY <1>4 DEF FetchNoRow, cursorVars
  <2>4. drained' \in BOOLEAN /\ fields' = fields
        /\ UNCHANGED <<reply, phase, seen, unordered, moves, skipped, over>>
    BY <1>4 DEF FetchNoRow, cursorVars
  <2> QED BY <1>0, <2>1, <2>2, <2>3, <2>4 DEF Ranges
<1>5. ASSUME NextResultSet
      PROVE  Ranges'
  <2>1. moves' \in 0..MaxFrames
    BY <1>5, CursorAssumption DEF NextResultSet, Ranges
  <2>2. done' = Metadata(Following).done /\ fields' = Metadata(Following).fields
        /\ tag' = Metadata(Following).tag
    BY <1>5 DEF NextResultSet, SetCursor
  <2>3. /\ skipped' \in BOOLEAN /\ drained' \in BOOLEAN
        /\ UNCHANGED <<reply, phase, seen, unordered, over>>
    BY <1>5 DEF NextResultSet
  <2> QED BY <2>1, <2>2, <2>3, MetadataInReply DEF Ranges, Placed
<1>6. ASSUME NoResultSet
      PROVE  Ranges'
  <2>1. done' = done \/ done' \in BOOLEAN
    BY <1>6 DEF NoResultSet
  <2>2. tag' = tag \/ (EndAt = "C" /\ tag' = EndOfSet)
    BY <1>6 DEF NoResultSet
  <2>3. EndAt = "C" => EndOfSet \in 1..Len(reply)
    BY DEF EndAt, At
  <2>4. /\ over' \in BOOLEAN /\ skipped' \in BOOLEAN
        /\ UNCHANGED <<reply, phase, fields, seen, unordered, moves, drained>>
    BY <1>6 DEF NoResultSet
  <2> QED BY <1>0, <2>1, <2>2, <2>3, <2>4 DEF Ranges
<1>7. CASE UNCHANGED vars
  BY <1>7 DEF vars, cursorVars, ghostVars, Ranges
<1> QED BY <1>1, <1>2, <1>3, <1>4, <1>5, <1>6, <1>7 DEF Next

\* Every variable keeps its type, on malformed replies as well: fields, tags and rows
\* are messages of the reply, and the cursor is at most one past its end.
THEOREM CursorTypeCorrect == Spec => []TypeOK
<1>1. Init => Placed /\ Ranges
  <2> SUFFICES ASSUME Init PROVE Placed /\ Ranges
    OBVIOUS
  <2>1. Placed
    BY DEF Init, Placed, End
  <2>2. Len(reply) = 0
    BY DEF Init
  <2>3. phase \in Phases
    BY DEF Init, Phases, Flow
  <2>4. Ranges
    <3>1. Len(reply) <= MaxFrames /\ moves \in 0..MaxFrames
      BY <2>2, CursorAssumption DEF Init
    <3>2. fields \in 0..Len(reply) /\ tag \in 0..Len(reply) /\ seen \subseteq 1..Len(reply)
      BY <2>2 DEF Init
    <3>3. /\ done \in BOOLEAN /\ unordered \in BOOLEAN
          /\ drained \in BOOLEAN /\ skipped \in BOOLEAN /\ over \in BOOLEAN
      BY Zenon DEF Init
    <3> QED BY <2>3, <3>1, <3>2, <3>3 DEF Ranges
  <2> QED BY <2>1, <2>4
<1>2. Placed /\ Ranges /\ [Next]_vars => Placed' /\ Ranges'
  BY PlacedStep, RangesStep
<1>3. Placed /\ Ranges => TypeOK
  <2> SUFFICES ASSUME Placed, Ranges PROVE TypeOK
    OBVIOUS
  <2>1. Len(reply) \in Nat /\ End = Len(reply) + 1
    BY DEF Placed, End
  <2>2. pos \in 0..Len(reply) + 1 /\ row \in 0..Len(reply)
    BY <2>1 DEF Placed
  <2>3. reply \in Seq(FrameTypes)
    BY DEF Placed
  <2> QED BY <2>2, <2>3 DEF Ranges, TypeOK
<1> QED BY <1>1, <1>2, <1>3, PTL DEF Spec
---------------------------------------------------------------------------
\* The reply, as far as the cursor depends on its order.

\* StatementOf, with the reply as a parameter.
Statement(r, i) == 1 + Cardinality({j \in 1..i - 1 : r[j] = "C"})

\* A statement ends between messages i and j.
Apart(r, i, j) == \E c \in i + 1..j - 1 : r[c] = "C"

\* Message t describes the rows before message i.
Describes(r, t, i) == r[t] = "T" /\ \A k \in t + 1..i - 1 : r[k] \in {"D", "N"}

\* What the backend has sent when it is in phase ph: the reply ends with ReadyForQuery,
\* CopyInResponse or a malformed frame, rows follow their description, and the
\* statement of a description or of COPY data is over before the next description.
Shape(r, ph) ==
    /\ ph \in {"between", "rows", "copy", "copied", "failed", "idle", "copyin", "broken"}
    /\ \A i \in 1..Len(r) : r[i] \in {"Z", "X", "G"} => i = Len(r) /\ ph \in Settled
    /\ \A i \in 1..Len(r) : r[i] = "D" => \E t \in 1..i - 1 : Describes(r, t, i)
    /\ \A i, j \in 1..Len(r) :
          i < j /\ r[i] \in {"T", "d"} /\ r[j] = "T" => Apart(r, i, j)
    /\ ph = "rows" => \E t \in 1..Len(r) : Describes(r, t, Len(r) + 1)
    /\ ph = "between" => \A i \in 1..Len(r) : r[i] \in {"T", "d"} => Apart(r, i, Len(r) + 1)

---------------------------------------------------------------------------
\* Where the cursor is in it.

\* f is the description of statement n, 0 if it has none.
Described(r, n, f) ==
    /\ f # 0 => f \in 1..Len(r) /\ r[f] = "T" /\ Statement(r, f) = n
    /\ \A t \in 1..Len(r) : r[t] = "T" /\ Statement(r, t) = n => t = f

\* The cursor is in statement n, or has found its end, a tag or a failed statement
\* that ends the reply.
Tracks(r, n, p, d, f, g) ==
    /\ f < p
    /\ ~d => g = 0 /\ Statement(r, p) = n /\ Described(r, n, f)
    /\ d /\ g = 0 => p = Len(r) + 1 /\ Statement(r, p) = n
    /\ d /\ g # 0 =>
          /\ g < p /\ r[g] = "C" /\ Statement(r, g) = n
          /\ \A i \in g + 1..p - 1 : r[i] \notin StartsSet

\* After fetch_row has returned false nothing is left to read in the result set, and
\* if that was so in every one, all rows behind the cursor have been delivered.
Reads ==
    /\ drained => done \/ \A i \in pos..Len(reply) : reply[i] \notin {"D", "d", "C", "Z"}
    /\ ~skipped => \A i \in 1..pos - 1 : reply[i] = "D" => i \in seen

Regular == Tracks(reply, moves + 1, pos, done, fields, tag) /\ Reads

\* next_result_set has returned false on a malformed frame behind the current result set,
\* and takes what is left of that set for others.
Lost ==
    /\ over /\ ~WellFormed
    /\ \A i \in pos..Len(reply) : reply[i] # "T"
    /\ done \/ (fields = 0 /\ pos <= Len(reply) /\ reply[pos] = "D")

\* No cursor has been made yet.
Fresh == moves = 0 /\ fields = 0 /\ seen = {} /\ ~done /\ ~over /\ ~drained /\ ~skipped

\* The inductive invariant.
CursorInv ==
    /\ Placed /\ Ranges /\ Shape(reply, phase)
    /\ IF pos = 0 THEN Fresh ELSE phase \in Settled /\ (Regular \/ Lost)
    /\ over /\ WellFormed => pos = End
    /\ WalkSeesRows

---------------------------------------------------------------------------
\* Statement numbers.

\* The ends of statements before a message are finitely many.
LEMMA EndsFinite ==
    ASSUME NEW r, NEW i \in Nat
    PROVE  IsFiniteSet({j \in 1..i - 1 : r[j] = "C"})
<1>1. IsFiniteSet(1..i - 1)
  BY FS_Interval
<1>2. {j \in 1..i - 1 : r[j] = "C"} \in SUBSET (1..i - 1)
  OBVIOUS
<1> QED BY <1>1, <1>2, FS_Subset

\* Statements have natural numbers.
LEMMA StatementIsNat ==
    ASSUME NEW r, NEW i \in Nat
    PROVE  Statement(r, i) \in Nat
<1>1. Cardinality({j \in 1..i - 1 : r[j] = "C"}) \in Nat
  BY EndsFinite, FS_CardinalityType
<1> QED BY <1>1 DEF Statement

\* Statements are numbered in the order of the reply.
LEMMA StatementGrows ==
    ASSUME NEW r, NEW i \in Nat, NEW j \in Nat, i <= j
    PROVE  Statement(r, i) <= Statement(r, j)
<1> DEFINE A == {k \in 1..i - 1 : r[k] = "C"}
           B == {k \in 1..j - 1 : r[k] = "C"}
<1>1. A \in SUBSET B
  OBVIOUS
<1>2. IsFiniteSet(B) /\ IsFiniteSet(A)
  BY EndsFinite
<1>3. Cardinality(A) <= Cardinality(B) /\ Cardinality(A) \in Nat /\ Cardinality(B) \in Nat
  <2> HIDE DEF A, B
  <2> QED BY <1>1, <1>2, FS_Subset, FS_CardinalityType
<1>4. Statement(r, i) = 1 + Cardinality(A) /\ Statement(r, j) = 1 + Cardinality(B)
  BY DEF Statement
<1> HIDE DEF A, B
<1> QED BY <1>3, <1>4

\* CommandComplete ends a statement ...
LEMMA StatementEnds ==
    ASSUME NEW r, NEW i \in Nat, i >= 1, r[i] = "C"
    PROVE  Statement(r, i + 1) = Statement(r, i) + 1
<1> DEFINE A == {k \in 1..i - 1 : r[k] = "C"}
           B == {k \in 1..(i + 1) - 1 : r[k] = "C"}
<1>1. B = A \cup {i} /\ i \notin A
  OBVIOUS
<1>2. IsFiniteSet(A)
  BY EndsFinite
<1>3. Cardinality(B) = Cardinality(A) + 1 /\ Cardinality(A) \in Nat
  <2> HIDE DEF A, B
  <2> QED BY <1>1, <1>2, FS_AddElement, FS_CardinalityType
<1>4. Statement(r, i) = 1 + Cardinality(A) /\ Statement(r, i + 1) = 1 + Cardinality(B)
  BY DEF Statement
<1> HIDE DEF A, B
<1> QED BY <1>3, <1>4

\* ... and nothing else does.
LEMMA StatementLasts ==
    ASSUME NEW r, NEW i \in Nat, NEW j \in Nat, 1 <= i, i <= j,
           \A k \in i..j - 1 : r[k] # "C"
    PROVE  Statement(r, i) = Statement(r, j)
<1>1. {k \in 1..i - 1 : r[k] = "C"} = {k \in 1..j - 1 : r[k] = "C"}
  OBVIOUS
<1> QED BY <1>1 DEF Statement

\* What is behind the end of a statement belongs to a later one.
LEMMA StatementAfter ==
    ASSUME NEW r, NEW i \in Nat, NEW j \in Nat, 1 <= i, i < j, r[i] = "C"
    PROVE  Statement(r, i) < Statement(r, j)
<1>1. Statement(r, i + 1) = Statement(r, i) + 1
  BY StatementEnds
<1>2. Statement(r, i + 1) <= Statement(r, j)
  BY StatementGrows
<1> QED BY <1>1, <1>2, StatementIsNat

\* Messages that the end of a statement keeps apart belong to different ones.
LEMMA ApartStatements ==
    ASSUME NEW r, NEW i \in Nat, NEW j \in Nat, 1 <= i, i < j, Apart(r, i, j)
    PROVE  Statement(r, i) < Statement(r, j)
<1>1. PICK c \in i + 1..j - 1 : r[c] = "C"
  BY DEF Apart
<1>2. c \in Nat /\ i <= c /\ 1 <= c /\ c < j
  OBVIOUS
<1>3. Statement(r, i) <= Statement(r, c)
  BY <1>2, StatementGrows
<1>4. Statement(r, c) < Statement(r, j)
  BY <1>1, <1>2, StatementAfter
<1> QED BY <1>2, <1>3, <1>4, StatementIsNat

---------------------------------------------------------------------------
\* The backend keeps to the shape.

\* What Flow says of the messages that matter to the cursor.
LEMMA FlowSteps ==
    ASSUME NEW ph \in {"between", "rows", "copy", "copied", "failed"}, NEW t,
           MaySend(ph, t)
    PROVE  LET q == PhaseAfter(ph, t)
           IN  /\ q \in {"between", "rows", "copy", "copied", "failed", "idle",
                         "copyin", "broken"}
               /\ t \in {"Z", "X", "G"} => q \in Settled
               /\ t = "D" => ph = "rows"
               /\ t = "T" => ph = "between"
               /\ q = "rows" => t = "T" \/ (ph = "rows" /\ t \in {"D", "N"})
               /\ q = "between" => t = "C" \/ (ph = "between" /\ t \in {"A", "N"})
<1> USE DEF MaySend, PhaseAfter, Settled
<1>1. CASE ph = "between"
  BY <1>1 DEF Flow
<1>2. CASE ph = "rows"
  BY <1>2 DEF Flow
<1>3. CASE ph = "copy"
  BY <1>3 DEF Flow
<1>4. CASE ph = "copied"
  BY <1>4 DEF Flow
<1>5. CASE ph = "failed"
  BY <1>5 DEF Flow
<1> QED BY <1>1, <1>2, <1>3, <1>4, <1>5

\* A message that the backend may send keeps the reply in its order.
LEMMA ShapeAppend ==
    ASSUME NEW r \in Seq(FrameTypes), NEW ph, NEW t \in FrameTypes,
           Shape(r, ph), ph \notin Settled, MaySend(ph, t)
    PROVE  Shape(Append(r, t), PhaseAfter(ph, t))
<1> DEFINE s == Append(r, t)
           q == PhaseAfter(ph, t)
           n == Len(r) + 1
<1>1. ph \in {"between", "rows", "copy", "copied", "failed"}
  BY DEF Shape, Settled
<1>2. /\ q \in {"between", "rows", "copy", "copied", "failed", "idle", "copyin", "broken"}
      /\ t \in {"Z", "X", "G"} => q \in Settled
      /\ t = "D" => ph = "rows"
      /\ t = "T" => ph = "between"
      /\ q = "rows" => t = "T" \/ (ph = "rows" /\ t \in {"D", "N"})
      /\ q = "between" => t = "C" \/ (ph = "between" /\ t \in {"A", "N"})
  BY <1>1, FlowSteps
<1>3. /\ Len(r) \in Nat /\ n \in Nat /\ Len(s) = n /\ s[n] = t
      /\ \A i \in 1..Len(r) : s[i] = r[i]
  OBVIOUS
<1>3a. \A i \in 1..n : i \in 1..Len(r) \/ i = n
  BY <1>3
<1>4. ASSUME NEW i \in Nat, NEW j \in 1..n, Apart(r, i, j)
      PROVE  Apart(s, i, j)
  BY <1>3, <1>4 DEF Apart
<1>5. ASSUME NEW k \in 1..Len(r), NEW j \in 1..n, Describes(r, k, j)
      PROVE  Describes(s, k, j)
  BY <1>3, <1>5 DEF Describes
<1> HIDE DEF s, q
<1>6. \A i \in 1..n : s[i] \in {"Z", "X", "G"} => i = n /\ q \in Settled
  BY <1>2, <1>3, <1>3a DEF Shape
<1>7. ASSUME NEW i \in 1..n, s[i] = "D"
      PROVE  \E k \in 1..i - 1 : Describes(s, k, i)
  <2>1. CASE i \in 1..Len(r)
    <3>1. r[i] = "D"
      BY <1>3, <1>7, <2>1
    <3>2. PICK k \in 1..i - 1 : Describes(r, k, i)
      BY <2>1, <3>1 DEF Shape
    <3>3. k \in 1..Len(r)
      BY <1>3, <2>1
    <3> QED BY <1>5, <3>2, <3>3
  <2>2. CASE i = n
    <3>1. ph = "rows"
      BY <1>2, <1>3, <1>7, <2>2
    <3>2. PICK k \in 1..Len(r) : Describes(r, k, n)
      BY <3>1 DEF Shape
    <3>3. Describes(s, k, n) /\ k \in 1..i - 1
      BY <1>3, <1>5, <2>2, <3>2
    <3> QED BY <2>2, <3>3
  <2> QED BY <1>3a, <2>1, <2>2
<1>8. ASSUME NEW i \in 1..n, NEW j \in 1..n, i < j, s[i] \in {"T", "d"}, s[j] = "T"
      PROVE  Apart(s, i, j)
  <2>1. i \in 1..Len(r) /\ r[i] \in {"T", "d"}
    BY <1>3, <1>8
  <2>2. CASE j \in 1..Len(r)
    <3>1. Apart(r, i, j)
      BY <1>3, <1>8, <2>1, <2>2 DEF Shape
    <3> QED BY <1>4, <3>1
  <2>3. CASE j = n
    <3>1. ph = "between"
      BY <1>2, <1>3, <1>8, <2>3
    <3>2. Apart(r, i, n)
      BY <2>1, <3>1 DEF Shape
    <3> QED BY <1>4, <2>3, <3>2
  <2> QED BY <1>3a, <2>2, <2>3
<1>9. ASSUME q = "rows"
      PROVE  \E k \in 1..n : Describes(s, k, n + 1)
  <2>1. CASE t = "T"
    <3>1. Describes(s, n, n + 1)
      BY <1>3, <2>1 DEF Describes
    <3> QED BY <1>3, <3>1
  <2>2. CASE ph = "rows" /\ t \in {"D", "N"}
    <3>1. PICK k \in 1..Len(r) : Describes(r, k, n)
      BY <2>2 DEF Shape
    <3>2. Describes(s, k, n)
      BY <1>3, <1>5, <3>1
    <3>3. \A m \in k + 1..(n + 1) - 1 : m \in k + 1..n - 1 \/ m = n
      BY <1>3
    <3>4. Describes(s, k, n + 1)
      BY <1>3, <2>2, <3>2, <3>3 DEF Describes
    <3> QED BY <1>3, <3>4
  <2> QED BY <1>2, <1>9, <2>1, <2>2
<1>10. ASSUME q = "between", NEW i \in 1..n, s[i] \in {"T", "d"}
       PROVE  Apart(s, i, n + 1)
  <2>1. CASE t = "C"
    <3>1. i # n
      BY <1>3, <1>10, <2>1
    <3>2. n \in i + 1..(n + 1) - 1
      BY <1>3, <3>1
    <3> QED BY <1>3, <2>1, <3>2 DEF Apart
  <2>2. CASE ph = "between" /\ t \in {"A", "N"}
    <3>1. i \in 1..Len(r) /\ r[i] \in {"T", "d"}
      BY <1>3, <1>3a, <1>10, <2>2
    <3>2. Apart(r, i, n)
      BY <2>2, <3>1 DEF Shape
    <3>3. Apart(s, i, n)
      BY <1>3, <1>4, <3>2
    <3> QED BY <1>3, <3>3 DEF Apart
  <2> QED BY <1>2, <1>10, <2>1, <2>2
<1> QED BY <1>2, <1>3, <1>6, <1>7, <1>8, <1>9, <1>10 DEF Shape, s, q

---------------------------------------------------------------------------
\* What the scanning loops find.

\* A scan passes over none of the messages it looks for (First).
LEMMA FirstPasses ==
    ASSUME reply \in Seq(FrameTypes), NEW S, NEW p \in Nat, p >= 1
    PROVE  \A j \in p..Len(reply) : j < First(p, S) => reply[j] \notin S \cup {"X"}
<1> DEFINE hits == {i \in p..Len(reply) : reply[i] \in S \cup {"X"}}
<1>1. CASE hits = {}
  BY <1>1
<1>2. CASE hits # {}
  <2>1. hits \subseteq Nat
    OBVIOUS
  <2>2. \E i \in hits : \A j \in hits : i <= j
    <3> HIDE DEF hits
    <3> QED BY <1>2, <2>1, Least
  <2>3. First(p, S) \in hits /\ \A j \in hits : First(p, S) <= j
    BY <1>2, <2>2 DEF First
  <2>4. ASSUME NEW j \in p..Len(reply), j < First(p, S) PROVE j \notin hits
    <3> DEFINE f == First(p, S)
    <3>1. f \in hits /\ f \in Nat /\ j < f /\ j \in Int
      BY <2>1, <2>3, <2>4
    <3>2. \A k \in hits : f <= k
      BY <2>3
    <3> HIDE DEF hits, f
    <3>3. SUFFICES ASSUME j \in hits PROVE FALSE
      OBVIOUS
    <3>4. f <= j
      BY <3>2, <3>3
    <3> QED BY <3>1, <3>4
  <2> QED BY <2>4
<1> QED BY <1>1, <1>2

\* Both facts about a scan, and the message it stops at (First, At).
LEMMA Scan ==
    ASSUME reply \in Seq(FrameTypes), NEW S, NEW p \in Nat, p >= 1, "none" \notin S
    PROVE  /\ First(p, S) \in Nat /\ First(p, S) <= End
           /\ p <= End => p <= First(p, S)
           /\ \A j \in p..First(p, S) - 1 : reply[j] \notin S \cup {"X"}
           /\ First(p, S) = End => At(First(p, S)) = "none"
           /\ First(p, S) # End =>
                 /\ First(p, S) \in p..Len(reply)
                 /\ At(First(p, S)) = reply[First(p, S)]
                 /\ reply[First(p, S)] \in S \cup {"X"}
<1> DEFINE f == First(p, S)
<1>1. Len(reply) \in Nat /\ End = Len(reply) + 1
  BY DEF End
<1>2. f = End \/ (f \in p..Len(reply) /\ reply[f] \in S \cup {"X"})
  BY FirstFound
<1>3. \A j \in p..Len(reply) : j < f => reply[j] \notin S \cup {"X"}
  BY FirstPasses
<1> HIDE DEF f
<1>4. \A j \in p..f - 1 : j \in p..Len(reply) /\ j < f
  BY <1>1, <1>2
<1>5. f = End => At(f) = "none"
  BY <1>1 DEF At
<1>6. f # End => At(f) = reply[f]
  BY <1>1, <1>2 DEF At
<1>7. \A j \in p..f - 1 : reply[j] \notin S \cup {"X"}
  BY <1>3, <1>4
<1>8. f \in Nat /\ f <= End /\ (p <= End => p <= f)
  BY <1>1, <1>2
<1> QED BY <1>2, <1>5, <1>6, <1>7, <1>8 DEF f

\* parse_metadata from a position p in the statement behind the CommandComplete b (0 at
\* the start of the reply) finds that statement's description or tag, whichever it
\* begins with, and passes over no row (Metadata).
LEMMA MetadataTracks ==
    ASSUME reply \in Seq(FrameTypes), Shape(reply, phase),
           NEW b \in Nat, NEW p \in Nat, b < p, p <= End, b # 0 => reply[b] = "C",
           \A i \in b + 1..p - 1 : reply[i] \notin StartsSet
    PROVE  LET m == Metadata(p)
           IN  /\ Tracks(reply, Statement(reply, b + 1), m.pos, m.done, m.fields, m.tag)
               /\ \A i \in p..m.pos - 1 : reply[i] # "D"
<1> DEFINE m == Metadata(p)
           S == {"T", "C"} \cup RowFrames
           f == First(p, S)
           n == Statement(reply, b + 1)
<1>1. Len(reply) \in Nat /\ End = Len(reply) + 1 /\ p >= 1
  BY DEF End
<1>2. /\ f \in Nat /\ f <= End /\ p <= f
      /\ \A j \in p..f - 1 : reply[j] \notin S \cup {"X"}
      /\ f = End => At(f) = "none"
      /\ f # End => f \in p..Len(reply) /\ At(f) = reply[f] /\ reply[f] \in S \cup {"X"}
  <2>1. "none" \notin S
    BY DEF RowFrames
  <2> HIDE DEF S
  <2> QED BY <1>1, <2>1, Scan
<1>3. /\ m.pos = IF At(f) \in RowFrames \cup {"none"} THEN f ELSE f + 1
      /\ m.done = (At(f) = "C")
      /\ m.fields = IF At(f) = "T" THEN f ELSE 0
      /\ m.tag = IF At(f) = "C" THEN f ELSE 0
  BY DEF Metadata
<1>4. \A j \in b + 1..f - 1 : reply[j] # "T" /\ reply[j] # "C"
  <2>1. \A j \in b + 1..f - 1 : j \in b + 1..p - 1 \/ j \in p..f - 1
    BY <1>2
  <2>2. \A j \in b + 1..p - 1 : reply[j] # "T" /\ reply[j] # "C"
    BY DEF StartsSet
  <2> HIDE DEF f
  <2> QED BY <1>2, <2>1, <2>2
<1>5. n \in Nat /\ Statement(reply, f) = n
  <2>1. b + 1 \in Nat /\ 1 <= b + 1 /\ b + 1 <= f
    BY <1>2
  <2>2. \A k \in b + 1..f - 1 : reply[k] # "C"
    BY <1>4
  <2> HIDE DEF f
  <2> QED BY <1>2, <2>1, <2>2, StatementIsNat, StatementLasts
<1>6. ASSUME NEW t \in Nat, 1 <= t, t <= b
      PROVE  Statement(reply, t) < n
  <2>1. Statement(reply, b) + 1 = n
    BY <1>6, StatementEnds
  <2>2. Statement(reply, t) <= Statement(reply, b)
    BY <1>6, StatementGrows
  <2> QED BY <1>6, <2>1, <2>2, StatementIsNat
<1> HIDE DEF m, f, n
<1>7. \A i \in p..f - 1 : reply[i] # "D"
  BY <1>2 DEF RowFrames
\* A T of this statement is at f or behind it.
<1>8. ASSUME NEW t \in 1..Len(reply), reply[t] = "T", Statement(reply, t) = n
      PROVE  t >= f
  <2>1. t > b
    BY <1>1, <1>5, <1>6, <1>8
  <2> QED BY <1>2, <1>4, <1>8, <2>1
<1>9. CASE f = End
  <2>1. /\ m.pos = f /\ m.fields = 0 /\ m.tag = 0 /\ ~m.done
    BY <1>2, <1>3, <1>9
  <2>2. Described(reply, n, 0)
    BY <1>1, <1>8, <1>9 DEF Described
  <2> QED BY <1>1, <1>2, <1>5, <1>7, <2>1, <2>2 DEF Tracks, m, n
<1>10. CASE f # End /\ reply[f] = "T"
  <2>1. m.pos = f + 1 /\ m.fields = f /\ m.tag = 0 /\ ~m.done
    BY <1>2, <1>3, <1>10 DEF RowFrames
  <2>2. ASSUME NEW t \in 1..Len(reply), reply[t] = "T", Statement(reply, t) = n
        PROVE  t = f
    <3>1. SUFFICES ASSUME t > f PROVE FALSE
      BY <1>1, <1>2, <1>8, <2>2
    <3>2. f \in 1..Len(reply)
      BY <1>1, <1>2, <1>10
    <3>3. Apart(reply, f, t)
      BY <1>10, <2>2, <3>1, <3>2 DEF Shape
    <3>4. Statement(reply, f) < Statement(reply, t)
      BY <1>1, <3>1, <3>2, <3>3, ApartStatements
    <3> QED BY <1>5, <2>2, <3>4
  <2>3. Described(reply, n, f)
    BY <1>1, <1>2, <1>5, <1>10, <2>2 DEF Described
  <2>4. Statement(reply, f + 1) = n
    <3>1. \A k \in f..(f + 1) - 1 : reply[k] # "C"
      BY <1>2, <1>10
    <3> QED BY <1>1, <1>2, <1>5, <3>1, StatementLasts
  <2>5. \A i \in p..(f + 1) - 1 : reply[i] # "D"
    BY <1>2, <1>7, <1>10
  <2> QED BY <1>2, <2>1, <2>3, <2>4, <2>5 DEF Tracks, m, n
<1>11. CASE f # End /\ reply[f] = "C"
  <2>1. m.pos = f + 1 /\ m.fields = 0 /\ m.tag = f /\ m.done
    BY <1>2, <1>3, <1>11 DEF RowFrames
  <2>2. f # 0 /\ f < f + 1 /\ \A i \in f + 1..(f + 1) - 1 : FALSE
    BY <1>1, <1>2
  <2>3. \A i \in p..(f + 1) - 1 : reply[i] # "D"
    BY <1>2, <1>7, <1>11
  <2> QED BY <1>1, <1>2, <1>5, <1>11, <2>1, <2>2, <2>3 DEF Tracks, m, n
<1>12. CASE f # End /\ reply[f] = "X"
  <2>1. m.pos = f + 1 /\ m.fields = 0 /\ m.tag = 0 /\ ~m.done
    BY <1>2, <1>3, <1>12 DEF RowFrames
  <2>2. f = Len(reply)
    BY <1>1, <1>2, <1>12 DEF Shape
  <2>3. Described(reply, n, 0)
    BY <1>1, <1>8, <1>12, <2>2 DEF Described
  <2>4. Statement(reply, f + 1) = n
    <3>1. \A k \in f..(f + 1) - 1 : reply[k] # "C"
      BY <1>2, <1>12
    <3> QED BY <1>1, <1>2, <1>5, <3>1, StatementLasts
  <2>5. \A i \in p..(f + 1) - 1 : reply[i] # "D"
    BY <1>2, <1>7, <1>12
  <2> QED BY <1>1, <1>2, <2>1, <2>3, <2>4, <2>5 DEF Tracks, m, n
<1>13. CASE f # End /\ reply[f] = "d"
  <2>1. m.pos = f /\ m.fields = 0 /\ m.tag = 0 /\ ~m.done
    BY <1>2, <1>3, <1>13 DEF RowFrames
  <2>2. ASSUME NEW t \in 1..Len(reply), reply[t] = "T", Statement(reply, t) = n
        PROVE  FALSE
    <3>1. f \in 1..Len(reply) /\ t > f
      <4>1. t # f
        BY <1>13, <2>2
      <4> QED BY <1>1, <1>2, <1>8, <1>13, <2>2, <4>1
    <3>3. Apart(reply, f, t)
      BY <1>13, <2>2, <3>1 DEF Shape
    <3>4. Statement(reply, f) < Statement(reply, t)
      BY <1>1, <3>1, <3>3, ApartStatements
    <3> QED BY <1>5, <2>2, <3>4
  <2>3. Described(reply, n, 0)
    BY <2>2 DEF Described
  <2> QED BY <1>1, <1>2, <1>5, <1>7, <2>1, <2>3 DEF Tracks, m, n
<1>14. CASE f # End /\ reply[f] = "D"
  <2>1. f \in 1..Len(reply)
    BY <1>1, <1>2, <1>14
  <2>2. PICK t \in 1..f - 1 : Describes(reply, t, f)
    BY <1>14, <2>1 DEF Shape
  <2>3. t <= b
    BY <1>2, <1>4, <2>2 DEF Describes
  <2>4. t < b /\ b \in t + 1..f - 1 /\ reply[b] = "C"
    BY <1>2, <2>2, <2>3 DEF Describes
  <2> QED BY <2>2, <2>4 DEF Describes
<1>15. f # End => reply[f] \in {"T", "C", "D", "d", "X"}
  BY <1>2 DEF RowFrames
<1> QED BY <1>9, <1>10, <1>11, <1>12, <1>13, <1>14, <1>15 DEF m, n

\* The statement at the start of the reply is the first one.
LEMMA StatementFirst == \A r : Statement(r, 1) = 1
<1> SUFFICES ASSUME NEW r PROVE Statement(r, 1) = 1
  OBVIOUS
<1>1. {j \in 1..1 - 1 : r[j] = "C"} = {}
  OBVIOUS
<1>2. Cardinality({j \in 1..1 - 1 : r[j] = "C"}) = 0
  BY <1>1, FS_EmptySet
<1> QED BY <1>2 DEF Statement

\* What fetch_row stops at (Fetched).
LEMMA FetchedFound ==
    ASSUME Placed, pos > 0
    PROVE  /\ Fetched \in Nat /\ pos <= Fetched /\ Fetched <= End
           /\ \A j \in pos..Fetched - 1 : reply[j] \notin {"D", "d", "C", "Z", "X"}
           /\ Fetched = End => At(Fetched) = "none"
           /\ Fetched # End =>
                 /\ Fetched \in pos..Len(reply) /\ At(Fetched) = reply[Fetched]
                 /\ reply[Fetched] \in {"D", "d", "C", "Z", "X"}
<1> DEFINE S == RowFrames \cup {"C", "Z"}
<1>1. "none" \notin S /\ S \cup {"X"} = {"D", "d", "C", "Z", "X"}
  BY DEF RowFrames
<1>2. pos \in Nat /\ pos >= 1 /\ pos <= End /\ reply \in Seq(FrameTypes)
  BY DEF Placed
<1>3. Fetched = First(pos, S)
  BY DEF Fetched
<1> HIDE DEF S
<1> QED BY <1>1, <1>2, <1>3, Scan

\* Where next_result_set finds the end of a result set that is not done (EndOfSet).
LEMMA EndFound ==
    ASSUME Placed, pos > 0, ~done
    PROVE  /\ EndOfSet \in Nat /\ pos <= EndOfSet /\ EndOfSet <= End
           /\ EndAt = At(EndOfSet)
           /\ \A j \in pos..EndOfSet - 1 : reply[j] \notin {"C", "Z", "X"}
           /\ EndOfSet = End => EndAt = "none"
           /\ EndOfSet # End =>
                 /\ EndOfSet \in pos..Len(reply) /\ EndAt = reply[EndOfSet]
                 /\ reply[EndOfSet] \in {"C", "Z", "X"}
<1> DEFINE S == {"C", "Z"}
<1>1. "none" \notin S /\ S \cup {"X"} = {"C", "Z", "X"}
  OBVIOUS
<1>2. pos \in Nat /\ pos >= 1 /\ pos <= End /\ reply \in Seq(FrameTypes)
  BY DEF Placed
<1>3. EndOfSet = First(pos, S) /\ EndAt = At(EndOfSet)
  BY DEF EndOfSet, EndAt
<1> HIDE DEF S
<1> QED BY <1>1, <1>2, <1>3, Scan

\* Where it finds what comes after that (Following).
LEMMA FollowingFound ==
    ASSUME Placed, pos > 0
    PROVE  /\ Following \in Nat /\ pos <= Following /\ Following <= End
           /\ \A j \in EndOfSet + 1..Following - 1 : reply[j] \notin {"T", "D", "C", "Z", "X"}
           /\ EndOfSet < End => EndOfSet < Following
           /\ Following = End => At(Following) = "none"
           /\ Following # End =>
                 /\ Following \in EndOfSet + 1..Len(reply) /\ At(Following) = reply[Following]
                 /\ reply[Following] \in {"T", "D", "C", "Z", "X"}
<1> DEFINE S == StartsSet \cup {"Z"}
           q == EndOfSet + 1
<1>1. "none" \notin S /\ S \cup {"X"} = {"T", "D", "C", "Z", "X"}
  BY DEF StartsSet
<1>2. reply \in Seq(FrameTypes) /\ Len(reply) \in Nat /\ End = Len(reply) + 1
  BY DEF Placed, End
<1>3. EndOfSet \in Nat /\ q \in Nat /\ q >= 1
  <2>1. CASE done
    BY <2>1 DEF EndOfSet, Placed
  <2>2. CASE ~done
    BY <2>2, EndFound
  <2> QED BY <2>1, <2>2
<1>4. Following = First(q, S)
  BY DEF Following
<1>5. Following = End \/ Following \in pos..Len(reply)
  BY FollowingForward
<1> HIDE DEF S, q
<1>6. /\ First(q, S) \in Nat /\ First(q, S) <= End
      /\ q <= End => q <= First(q, S)
      /\ \A j \in q..First(q, S) - 1 : reply[j] \notin S \cup {"X"}
      /\ First(q, S) = End => At(First(q, S)) = "none"
      /\ First(q, S) # End =>
            /\ First(q, S) \in q..Len(reply)
            /\ At(First(q, S)) = reply[First(q, S)]
            /\ reply[First(q, S)] \in S \cup {"X"}
  BY <1>1, <1>2, <1>3, Scan
<1>7. pos <= Following
  BY <1>2, <1>5 DEF Placed
<1>8. EndOfSet < End => EndOfSet < Following
  BY <1>2, <1>3, <1>4, <1>6 DEF q
<1> QED BY <1>1, <1>4, <1>6, <1>7, <1>8 DEF q

---------------------------------------------------------------------------
\* The calls.

\* The reply is in the order of the backend after every step.
LEMMA ShapeStep ==
    ASSUME Placed, Shape(reply, phase), [Next]_vars
    PROVE  Shape(reply', phase')
<1>1. ASSUME NEW t \in Frames, Send(t)
      PROVE  Shape(reply', phase')
  <2>1. t \in FrameTypes
    BY CursorAssumption
  <2> QED BY <1>1, <2>1, ShapeAppend DEF Send, Placed
<1>2. ASSUME ~ \E t \in Frames : Send(t)
      PROVE  reply' = reply /\ phase' = phase
  BY <1>2 DEF Next, Create, FetchRow, FetchNoRow, NextResultSet, NoResultSet, vars
<1> QED BY <1>1, <1>2

\* A cursor that is lost among the rest of its result set reads nothing.
LEMMA LostReadsNothing ==
    ASSUME Placed, pos > 0, Lost
    PROVE  ~HasRow /\ (~done => Fetched = pos /\ At(Fetched) = "D")
<1>1. CASE done
  BY <1>1 DEF HasRow
<1>2. CASE ~done
  <2>1. fields = 0 /\ pos <= Len(reply) /\ reply[pos] = "D"
    BY <1>2 DEF Lost
  <2>2. Len(reply) \in Nat /\ End = Len(reply) + 1 /\ pos \in Nat
    BY DEF Placed, End
  <2>3. Fetched = pos
    <3>1. SUFFICES ASSUME pos < Fetched PROVE FALSE
      BY <2>2, FetchedFound
    <3>2. pos \in pos..Fetched - 1
      BY <2>2, <3>1, FetchedFound
    <3> QED BY <2>1, <3>2, FetchedFound
  <2>4. At(Fetched) = "D"
    BY <2>1, <2>2, <2>3, FetchedFound
  <2> QED BY <2>1, <2>3, <2>4 DEF HasRow
<1> QED BY <1>1, <1>2

\* A row in the result set of a cursor that is not lost has a description.
LEMMA RowIsDescribed ==
    ASSUME Placed, Shape(reply, phase), pos > 0, ~done,
           Statement(reply, pos) = moves + 1, Described(reply, moves + 1, fields),
           Fetched # End
    PROVE  /\ Statement(reply, Fetched) = moves + 1
           /\ reply[Fetched] = "D" => fields # 0
<1>1. Len(reply) \in Nat /\ End = Len(reply) + 1 /\ pos \in Nat
  BY DEF Placed, End
<1>2. Statement(reply, Fetched) = moves + 1
  <2>1. \A k \in pos..Fetched - 1 : reply[k] # "C"
    BY FetchedFound
  <2>2. Fetched \in Nat /\ 1 <= pos /\ pos <= Fetched
    BY <1>1, FetchedFound
  <2> QED BY <1>1, <2>1, <2>2, StatementLasts
<1>3. ASSUME reply[Fetched] = "D"
      PROVE  fields # 0
  <2>1. Fetched \in 1..Len(reply)
    BY <1>1, FetchedFound
  <2>2. PICK t \in 1..Fetched - 1 : Describes(reply, t, Fetched)
    BY <1>3, <2>1 DEF Shape
  <2>3. t \in 1..Len(reply) /\ t \in Nat /\ 1 <= t /\ t <= Fetched /\ Fetched \in Nat
    BY <2>1, <2>2
  <2>4. reply[t] = "T" /\ \A k \in t + 1..Fetched - 1 : reply[k] # "C"
    BY <2>2 DEF Describes
  <2>5. \A k \in t..Fetched - 1 : k = t \/ k \in t + 1..Fetched - 1
    BY <2>3
  <2>6. \A k \in t..Fetched - 1 : reply[k] # "C"
    BY <2>4, <2>5
  <2>7. Statement(reply, t) = Statement(reply, Fetched)
    BY <2>3, <2>6, StatementLasts
  <2>8. t = fields
    BY <1>2, <2>3, <2>4, <2>7 DEF Described
  <2> QED BY <2>3, <2>8
<1> QED BY <1>2, <1>3

\* ReadyForQuery and a malformed frame end the reply (Shape).
LEMMA LastMessage ==
    ASSUME Placed, Shape(reply, phase), NEW i \in Nat, 1 <= i, i <= End, i # End,
           reply[i] \in {"Z", "X"}
    PROVE  i = Len(reply) /\ End = i + 1
<1>1. Len(reply) \in Nat /\ End = Len(reply) + 1 /\ i \in 1..Len(reply)
  BY DEF Placed, End
<1> QED BY <1>1 DEF Shape

\* The message b that ends the current result set, and what lies between it and what
\* next_result_set stops at.
Bound == IF done THEN tag ELSE EndOfSet

\* The bound is the CommandComplete of the current statement, and no later set starts
\* before what follows it.
LEMMA BoundFound ==
    ASSUME Placed, pos > 0, Tracks(reply, moves + 1, pos, done, fields, tag),
           tag \in Nat, moves \in Nat, done => tag # 0, ~done => EndAt = "C"
    PROVE  /\ Bound \in Nat /\ 1 <= Bound /\ Bound < Following
           /\ reply[Bound] = "C" /\ Statement(reply, Bound) = moves + 1
           /\ \A i \in Bound + 1..Following - 1 : reply[i] \notin StartsSet
           /\ ~done => Bound = EndOfSet /\ Bound \in pos..Len(reply)
<1>1. Len(reply) \in Nat /\ End = Len(reply) + 1 /\ pos \in Nat
  BY DEF Placed, End
<1>2. CASE done
  <2>1. /\ Bound = tag /\ tag < pos /\ reply[tag] = "C"
        /\ Statement(reply, tag) = moves + 1
        /\ \A i \in tag + 1..pos - 1 : reply[i] \notin StartsSet
    BY <1>2 DEF Bound, Tracks
  <2>2. EndOfSet + 1 = pos
    BY <1>1, <1>2 DEF EndOfSet
  <2>3. Following \in Nat /\ pos <= Following
    BY FollowingFound
  <2>4. \A i \in tag + 1..Following - 1 : i \in tag + 1..pos - 1 \/ i \in pos..Following - 1
    BY <1>1, <2>3
  <2>5. \A i \in pos..Following - 1 : reply[i] \notin StartsSet
    BY <2>2, FollowingFound DEF StartsSet
  <2>6. \A i \in tag + 1..Following - 1 : reply[i] \notin StartsSet
    BY <2>1, <2>4, <2>5
  <2>7. 1 <= tag /\ tag < Following
    BY <1>1, <1>2, <2>1, <2>3
  <2> QED BY <1>2, <2>1, <2>6, <2>7
<1>3. CASE ~done
  <2>1. Bound = EndOfSet /\ EndAt = "C"
    BY <1>3 DEF Bound
  <2>2. /\ EndOfSet \in Nat /\ EndOfSet \in pos..Len(reply) /\ reply[EndOfSet] = "C"
        /\ \A k \in pos..EndOfSet - 1 : reply[k] # "C"
    BY <1>3, <2>1, EndFound
  <2>3. Statement(reply, pos) = moves + 1
    BY <1>3 DEF Tracks
  <2>4. Statement(reply, EndOfSet) = moves + 1
    <3>1. 1 <= pos /\ pos <= EndOfSet
      BY <1>1, <2>2
    <3> QED BY <1>1, <2>2, <2>3, <3>1, StatementLasts
  <2>5. EndOfSet < Following
    BY <1>1, <2>2, FollowingFound
  <2>6. \A i \in EndOfSet + 1..Following - 1 : reply[i] \notin StartsSet
    BY FollowingFound DEF StartsSet
  <2>7. 1 <= EndOfSet
    BY <1>1, <2>2
  <2> QED BY <1>3, <2>1, <2>2, <2>4, <2>5, <2>6, <2>7
<1> QED BY <1>2, <1>3

\* No statement behind the current one is a result set, when next_result_set on a cursor
\* that is not lost finds no other; and if every result set was read to its end, all
\* rows have been delivered.
LEMMA NothingFollows ==
    ASSUME Placed, Ranges, Shape(reply, phase), pos > 0, Regular, NoResultSet
    PROVE  /\ \A i \in 1..Len(reply) :
                  reply[i] \in StartsSet => Statement(reply, i) <= moves + 1
           /\ ~skipped' => \A i \in 1..Len(reply) : reply[i] = "D" => i \in seen
<1>1. /\ Len(reply) \in Nat /\ End = Len(reply) + 1 /\ pos \in Nat /\ pos <= End /\ 1 <= pos
      /\ tag \in Nat /\ moves \in Nat /\ moves + 1 \in Nat
  BY DEF Placed, End, Ranges
<1>2. Tracks(reply, moves + 1, pos, done, fields, tag) /\ Reads
  BY DEF Regular
<1>3. skipped' = (skipped \/ ~drained)
  BY DEF NoResultSet
<1>4. \A i \in 1..Len(reply) : i < pos \/ i \in pos..Len(reply)
  BY <1>1
<1>5. ASSUME ~skipped', ~done, NEW i \in 1..Len(reply), reply[i] = "D"
      PROVE  i \in seen
  <2>1. drained /\ ~skipped
    BY <1>3, <1>5
  <2>2. i < pos
    BY <1>2, <1>4, <1>5, <2>1 DEF Reads
  <2>3. i \in 1..pos - 1
    BY <1>1, <2>2
  <2> QED BY <1>2, <1>5, <2>1, <2>3 DEF Reads
<1>6. CASE IF done THEN tag # 0 ELSE EndAt = "C"
  <2>1. /\ Bound \in Nat /\ 1 <= Bound /\ Bound < Following
        /\ reply[Bound] = "C" /\ Statement(reply, Bound) = moves + 1
        /\ \A i \in Bound + 1..Following - 1 : reply[i] \notin StartsSet
    BY <1>1, <1>2, <1>6, BoundFound
  <2>2. At(Following) \notin StartsSet
    <3>1. EndAt \notin {"X", "Z"}
      BY <1>6 DEF EndAt
    <3> QED BY <3>1 DEF NoResultSet
  <2>3. Following \in Nat /\ Following <= End
    BY FollowingFound
  <2>4. Following # End => Following = Len(reply) /\ reply[Following] \notin StartsSet
    <3>1. SUFFICES ASSUME Following # End
                   PROVE  Following = Len(reply) /\ reply[Following] \notin StartsSet
      OBVIOUS
    <3>2. /\ At(Following) = reply[Following]
          /\ reply[Following] \in {"T", "D", "C", "Z", "X"}
      BY <3>1, FollowingFound
    <3>3. reply[Following] \in {"Z", "X"}
      BY <2>2, <3>2 DEF StartsSet
    <3>4. 1 <= Following
      BY <2>1, <2>3
    <3> QED BY <2>2, <2>3, <3>1, <3>2, <3>3, <3>4, LastMessage
  <2>5. \A i \in 1..Len(reply) :
            i <= Bound \/ i \in Bound + 1..Following - 1 \/ (i = Following /\ Following # End)
    BY <1>1, <2>1, <2>3, <2>4
  <2>6. \A i \in 1..Len(reply) : reply[i] \in StartsSet => i <= Bound
    BY <2>1, <2>4, <2>5
  <2>7. ASSUME NEW i \in 1..Len(reply), reply[i] \in StartsSet
        PROVE  Statement(reply, i) <= moves + 1
    <3>1. Statement(reply, i) <= Statement(reply, Bound)
      BY <2>1, <2>6, <2>7, StatementGrows
    <3> QED BY <2>1, <3>1
  <2>8. ASSUME ~skipped', done, NEW i \in 1..Len(reply), reply[i] = "D"
        PROVE  i \in seen
    <3>1. i <= tag
      BY <2>6, <2>8 DEF StartsSet, Bound
    <3>2. tag < pos
      BY <1>2, <1>6, <2>8 DEF Tracks
    <3>3. i \in 1..pos - 1
      BY <1>1, <3>1, <3>2
    <3> QED BY <1>2, <1>3, <2>8, <3>3 DEF Reads
  <2> QED BY <1>5, <2>7, <2>8
<1>7. CASE ~done /\ EndAt # "C"
  <2>1. /\ EndOfSet \in Nat /\ pos <= EndOfSet /\ EndOfSet <= End
        /\ \A k \in pos..EndOfSet - 1 : reply[k] # "C"
        /\ EndOfSet # End => reply[EndOfSet] \in {"Z", "X"}
    BY <1>7, EndFound
  <2>2. EndOfSet # End => EndOfSet = Len(reply)
    BY <1>1, <2>1, LastMessage
  <2>3. Statement(reply, EndOfSet) = moves + 1
    BY <1>1, <1>2, <1>7, <2>1, StatementLasts DEF Tracks
  <2>4. ASSUME NEW i \in 1..Len(reply)
        PROVE  Statement(reply, i) <= moves + 1
    <3>1. i \in Nat /\ i <= EndOfSet
      BY <1>1, <2>1, <2>2
    <3> QED BY <2>1, <2>3, <3>1, StatementGrows
  <2> QED BY <1>5, <1>7, <2>4
<1>8. CASE done /\ tag = 0
  <2>1. pos = End /\ Statement(reply, pos) = moves + 1
    BY <1>1, <1>2, <1>8 DEF Tracks
  <2>2. ASSUME NEW i \in 1..Len(reply)
        PROVE  Statement(reply, i) <= moves + 1
    <3>1. i \in Nat /\ i <= pos
      BY <1>1, <2>1
    <3> QED BY <1>1, <2>1, <3>1, StatementGrows
  <2>3. ASSUME ~skipped', NEW i \in 1..Len(reply), reply[i] = "D"
        PROVE  i \in seen
    <3>1. i \in 1..pos - 1
      BY <1>1, <2>1
    <3>2. ~skipped
      BY <1>3, <2>3
    <3> QED BY <1>2, <2>3, <3>1, <3>2 DEF Reads
  <2> QED BY <2>2, <2>3
<1> QED BY <1>6, <1>7, <1>8

\* The constructor puts a cursor into the first statement.
LEMMA CreateTracks ==
    ASSUME Placed, Shape(reply, phase), pos = 0, Fresh, Create
    PROVE  pos' > 0 /\ Regular'
<1>1. Len(reply) \in Nat /\ End = Len(reply) + 1 /\ reply \in Seq(FrameTypes)
  BY DEF Placed, End
<1>2. /\ pos' = Metadata(1).pos /\ done' = Metadata(1).done
      /\ fields' = Metadata(1).fields /\ tag' = Metadata(1).tag
      /\ UNCHANGED <<reply, phase, row, seen, unordered, moves, drained, skipped, over>>
  BY DEF Create, SetCursor, ghostVars
<1>3. /\ Tracks(reply, Statement(reply, 1), pos', done', fields', tag')
      /\ \A i \in 1..pos' - 1 : reply[i] # "D"
  <2>1. 0 \in Nat /\ 1 \in Nat /\ 0 < 1 /\ 1 <= End /\ 0 + 1 = 1
        /\ \A i \in 0 + 1..1 - 1 : reply[i] \notin StartsSet
    BY <1>1
  <2>2. /\ Tracks(reply, Statement(reply, 0 + 1), Metadata(1).pos, Metadata(1).done,
                  Metadata(1).fields, Metadata(1).tag)
        /\ \A i \in 1..Metadata(1).pos - 1 : reply[i] # "D"
    BY <1>1, <2>1, MetadataTracks
  <2> QED BY <1>2, <2>1, <2>2
<1>4. pos' \in Nat /\ pos' > 0
  <2>1. Metadata(1).pos \in 1..End
    BY <1>1, MetadataForward
  <2> QED BY <1>1, <1>2, <2>1
<1>5. Statement(reply, 1) = 1 /\ moves = 0 /\ ~drained
  BY StatementFirst DEF Fresh
<1>6. Tracks(reply', moves' + 1, pos', done', fields', tag')
  BY <1>2, <1>3, <1>5
<1>7. Reads'
  BY <1>2, <1>3, <1>5 DEF Reads
<1> QED BY <1>4, <1>6, <1>7 DEF Regular

\* A row that is read belongs to the current result set.
LEMMA FetchRowTracks ==
    ASSUME Placed, Ranges, Shape(reply, phase), pos > 0, Regular, FetchRow
    PROVE  Regular' /\ Statement(reply, Fetched) = moves + 1
<1>1. /\ Len(reply) \in Nat /\ End = Len(reply) + 1 /\ pos \in Nat /\ 1 <= pos
      /\ moves \in Nat
  BY DEF Placed, End, Ranges
<1>2. /\ pos' = Fetched + 1 /\ seen' = seen \cup {Fetched} /\ HasRow
      /\ UNCHANGED <<reply, phase, done, fields, tag, moves, drained, skipped, over>>
  BY DEF FetchRow, AfterRow
<1>3. ~done /\ Fetched # End /\ reply[Fetched] \in {"D", "d"}
  BY <1>2, FetchedFound DEF HasRow
<1>4. /\ Fetched \in pos..Len(reply) /\ Fetched \in Nat
      /\ \A j \in pos..Fetched - 1 : reply[j] \notin {"D", "d", "C", "Z", "X"}
  BY <1>3, FetchedFound
<1>5. /\ fields < pos /\ tag = 0 /\ Statement(reply, pos) = moves + 1
      /\ Described(reply, moves + 1, fields)
  BY <1>3 DEF Regular, Tracks
<1>6. Statement(reply, Fetched) = moves + 1
  BY <1>3, <1>5, RowIsDescribed
<1>7. Statement(reply, Fetched + 1) = moves + 1
  <2>1. \A k \in Fetched..(Fetched + 1) - 1 : reply[k] # "C"
    BY <1>3, <1>4
  <2> QED BY <1>1, <1>4, <1>6, <2>1, StatementLasts
<1>8. Tracks(reply', moves' + 1, pos', done', fields', tag')
  <2>1. fields < Fetched + 1
    BY <1>1, <1>4, <1>5 DEF Ranges
  <2> QED BY <1>2, <1>3, <1>5, <1>7, <2>1 DEF Tracks
<1>9. Reads'
  <2>1. ~drained
    BY <1>3, <1>4 DEF Regular, Reads
  <2>2. \A i \in 1..(Fetched + 1) - 1 : i \in 1..pos - 1 \/ i \in pos..Fetched - 1 \/ i = Fetched
    BY <1>1, <1>4
  <2>3. ~skipped => \A i \in 1..(Fetched + 1) - 1 : reply[i] = "D" => i \in seen \cup {Fetched}
    BY <1>4, <2>2 DEF Regular, Reads
  <2> QED BY <1>2, <2>1, <2>3 DEF Reads
<1> QED BY <1>6, <1>8, <1>9 DEF Regular

\* fetch_row without a row leaves the cursor in its statement.
LEMMA FetchNoRowTracks ==
    ASSUME Placed, Ranges, Shape(reply, phase), pos > 0, Regular, FetchNoRow
    PROVE  Regular'
<1>1. /\ Len(reply) \in Nat /\ End = Len(reply) + 1 /\ pos \in Nat /\ 1 <= pos /\ pos <= End
      /\ moves \in Nat
  BY DEF Placed, End, Ranges
<1>2. /\ ~HasRow /\ drained'
      /\ UNCHANGED <<reply, phase, seen, moves, skipped, over, fields>>
  BY DEF FetchNoRow, cursorVars
<1>3. Tracks(reply, moves + 1, pos, done, fields, tag) /\ Reads
  BY DEF Regular
<1>4. CASE done
  <2>1. UNCHANGED <<pos, done, tag>>
    BY <1>4 DEF FetchNoRow, cursorVars
  <2> QED BY <1>2, <1>3, <1>4, <2>1 DEF Regular, Reads
<1>5. CASE ~done
  <2>1. /\ fields < pos /\ tag = 0 /\ Statement(reply, pos) = moves + 1
        /\ Described(reply, moves + 1, fields)
    BY <1>3, <1>5 DEF Tracks
  <2>2. /\ Fetched \in Nat /\ pos <= Fetched /\ Fetched <= End
        /\ \A j \in pos..Fetched - 1 : reply[j] \notin {"D", "d", "C", "Z", "X"}
    BY FetchedFound
  <2>3. Statement(reply, Fetched) = moves + 1
    BY <1>1, <2>1, <2>2, StatementLasts
  <2>4. CASE pos = End
    <3>1. UNCHANGED <<pos, done, tag>>
      BY <1>1, <2>4 DEF FetchNoRow, cursorVars
    <3>2. \A i \in pos..Len(reply) : FALSE
      BY <1>1, <2>4
    <3> QED BY <1>2, <1>3, <3>1, <3>2 DEF Regular, Reads
  <2>5. CASE pos # End /\ Fetched = End
    <3>1. pos' = Fetched /\ ~done' /\ tag' = 0
      <4>1. At(Fetched) = "none" /\ ~(pos >= End)
        BY <1>1, <2>5, FetchedFound
      <4> QED BY <1>5, <2>1, <2>5, <4>1 DEF FetchNoRow
    <3>2. Tracks(reply', moves' + 1, pos', done', fields', tag')
      <4>1. fields < Fetched
        BY <1>1, <2>1, <2>2 DEF Ranges
      <4> QED BY <1>2, <2>1, <2>3, <3>1, <4>1 DEF Tracks
    <3>3. \A i \in Fetched..Len(reply) : FALSE
      BY <1>1, <2>5
    <3>4. \A i \in 1..Fetched - 1 : i \in 1..pos - 1 \/ i \in pos..Fetched - 1
      BY <1>1, <2>2
    <3>5. ~skipped => \A i \in 1..Fetched - 1 : reply[i] = "D" => i \in seen
      BY <1>3, <2>2, <3>4 DEF Reads
    <3> QED BY <1>2, <3>1, <3>2, <3>3, <3>5 DEF Regular, Reads
  <2>6. CASE pos # End /\ Fetched # End
    <3>1. /\ Fetched \in pos..Len(reply) /\ At(Fetched) = reply[Fetched]
          /\ reply[Fetched] \in {"D", "d", "C", "Z", "X"}
      BY <2>6, FetchedFound
    <3>2. reply[Fetched] \notin {"D", "d"}
      <4>1. reply[Fetched] = "D" => fields # 0
        BY <1>5, <2>1, <2>6, RowIsDescribed
      <4>2. pos < End
        BY <1>1, <2>6
      <4> QED BY <1>2, <1>5, <3>1, <4>1, <4>2 DEF HasRow
    <3>3. \A i \in 1..(Fetched + 1) - 1 : i \in 1..pos - 1 \/ i \in pos..Fetched - 1 \/ i = Fetched
      BY <1>1, <2>2
    <3>4. ~skipped => \A i \in 1..(Fetched + 1) - 1 : reply[i] = "D" => i \in seen
      BY <1>3, <2>2, <3>2, <3>3 DEF Reads
    <3>5. fields < Fetched + 1
      BY <1>1, <2>1, <2>2 DEF Ranges
    <3>6. ~(pos >= End)
      BY <1>1, <2>6
    <3>7. CASE reply[Fetched] = "X"
      <4>1. UNCHANGED <<pos, done, tag>>
        BY <3>1, <3>7 DEF FetchNoRow, cursorVars
      <4>2. Fetched = Len(reply)
        BY <1>1, <2>2, <2>6, <3>7, LastMessage
      <4>3. \A i \in pos..Len(reply) : i \in pos..Fetched - 1 \/ i = Fetched
        BY <1>1, <2>2, <4>2
      <4>4. \A i \in pos..Len(reply) : reply[i] \notin {"D", "d", "C", "Z"}
        BY <2>2, <3>7, <4>3
      <4> QED BY <1>2, <1>3, <4>1, <4>4 DEF Regular, Reads
    <3>8. CASE reply[Fetched] = "C"
      <4>1. pos' = Fetched + 1 /\ done' /\ tag' = Fetched
        BY <1>5, <2>6, <3>1, <3>6, <3>8 DEF FetchNoRow
      <4>2. Fetched # 0 /\ Fetched < Fetched + 1 /\ \A i \in Fetched + 1..(Fetched + 1) - 1 : FALSE
        BY <1>1, <2>2
      <4>3. Tracks(reply', moves' + 1, pos', done', fields', tag')
        BY <1>2, <2>3, <3>5, <3>8, <4>1, <4>2 DEF Tracks
      <4> QED BY <1>2, <3>4, <4>1, <4>3 DEF Regular, Reads
    <3>9. CASE reply[Fetched] = "Z"
      <4>1. pos' = Fetched + 1 /\ done' /\ tag' = 0
        BY <1>5, <2>1, <2>6, <3>1, <3>6, <3>9 DEF FetchNoRow
      <4>2. Fetched = Len(reply)
        BY <1>1, <2>2, <2>6, <3>9, LastMessage
      <4>3. Statement(reply, Fetched + 1) = moves + 1
        <5>1. \A k \in Fetched..(Fetched + 1) - 1 : reply[k] # "C"
          BY <2>2, <3>9
        <5> QED BY <1>1, <2>2, <2>3, <5>1, StatementLasts
      <4>4. Tracks(reply', moves' + 1, pos', done', fields', tag')
        BY <1>2, <3>5, <4>1, <4>2, <4>3 DEF Tracks
      <4> QED BY <1>2, <3>4, <4>1, <4>4 DEF Regular, Reads
    <3> QED BY <3>1, <3>2, <3>7, <3>8, <3>9
  <2> QED BY <2>4, <2>5, <2>6
<1> QED BY <1>4, <1>5

\* next_result_set leads from a result set to the one behind it.
LEMMA NextResultSetTracks ==
    ASSUME Placed, Ranges, Shape(reply, phase), pos > 0, Regular, NextResultSet
    PROVE  Regular'
<1>1. /\ Len(reply) \in Nat /\ End = Len(reply) + 1 /\ pos \in Nat /\ 1 <= pos
      /\ reply \in Seq(FrameTypes) /\ tag \in Nat /\ moves \in Nat
  BY DEF Placed, End, Ranges
<1>2. /\ pos' = Metadata(Following).pos /\ done' = Metadata(Following).done
      /\ fields' = Metadata(Following).fields /\ tag' = Metadata(Following).tag
      /\ moves' = moves + 1 /\ skipped' = (skipped \/ ~drained) /\ ~drained'
      /\ UNCHANGED <<reply, seen>>
  BY DEF NextResultSet, SetCursor
<1>3. EndAt \notin {"X", "Z"} /\ At(Following) \in {"T", "D", "C"}
  BY DEF NextResultSet, StartsSet
<1>4. Tracks(reply, moves + 1, pos, done, fields, tag) /\ Reads
  BY DEF Regular
<1>5. /\ Following # End /\ Following \in EndOfSet + 1..Len(reply)
      /\ Following \in Nat /\ pos <= Following
  BY <1>3, FollowingFound
<1>6. done => tag # 0
  BY <1>1, <1>4, <1>5 DEF Tracks
<1>7. ~done => EndAt = "C"
  <2>1. SUFFICES ASSUME ~done PROVE EndOfSet # End
    BY <1>3, EndFound
  <2>2. EndOfSet + 1 <= Len(reply) /\ EndOfSet \in Nat
    BY <1>1, <1>5, <2>1, EndFound
  <2> QED BY <1>1, <2>2
<1>8. /\ Bound \in Nat /\ 1 <= Bound /\ Bound < Following
      /\ reply[Bound] = "C" /\ Statement(reply, Bound) = moves + 1
      /\ \A i \in Bound + 1..Following - 1 : reply[i] \notin StartsSet
      /\ ~done => Bound \in pos..Len(reply)
  BY <1>1, <1>4, <1>6, <1>7, BoundFound
<1>9. Statement(reply, Bound + 1) = moves' + 1
  BY <1>2, <1>8, StatementEnds
<1>10. /\ Tracks(reply, moves' + 1, pos', done', fields', tag')
       /\ \A i \in Following..pos' - 1 : reply[i] # "D"
  <2>1. Following <= End
    BY FollowingFound
  <2>2. /\ Tracks(reply, Statement(reply, Bound + 1), Metadata(Following).pos,
                  Metadata(Following).done, Metadata(Following).fields,
                  Metadata(Following).tag)
        /\ \A i \in Following..Metadata(Following).pos - 1 : reply[i] # "D"
    BY <1>1, <1>5, <1>8, <2>1, MetadataTracks
  <2> QED BY <1>2, <1>9, <2>2
<1>11. ASSUME ~skipped', NEW i \in 1..pos' - 1, reply[i] = "D"
       PROVE  i \in seen
  <2>1. drained /\ ~skipped
    BY <1>2, <1>11
  <2>2. done
    BY <1>4, <1>8, <2>1 DEF Reads
  <2>3. i < pos \/ i \in pos..Following - 1 \/ i \in Following..pos' - 1
    BY <1>1, <1>5
  <2>4. i \notin Following..pos' - 1
    BY <1>10, <1>11
  <2>5. i \notin pos..Following - 1
    <3>1. EndOfSet + 1 = pos
      BY <1>1, <2>2 DEF EndOfSet
    <3>2. \A j \in pos..Following - 1 : reply[j] # "D"
      BY <3>1, FollowingFound
    <3> QED BY <1>11, <3>2
  <2>6. i \in 1..pos - 1
    BY <1>1, <2>3, <2>4, <2>5
  <2> QED BY <1>4, <1>11, <2>1, <2>6 DEF Reads
<1>12. Tracks(reply', moves' + 1, pos', done', fields', tag')
  BY <1>2, <1>10
<1>13. Reads'
  BY <1>2, <1>11 DEF Reads
<1> QED BY <1>12, <1>13 DEF Regular

\* When next_result_set returns false the cursor is behind the reply, or there is a
\* malformed frame.
LEMMA NoResultSetTracks ==
    ASSUME Placed, Ranges, Shape(reply, phase), pos > 0, Regular, NoResultSet
    PROVE  /\ Regular' \/ Lost'
           /\ WellFormed => pos' = End
<1>1. /\ Len(reply) \in Nat /\ End = Len(reply) + 1 /\ pos \in Nat /\ 1 <= pos /\ pos <= End
      /\ fields \in Nat /\ tag \in Nat /\ moves \in Nat
  BY DEF Placed, End, Ranges
<1>2. /\ over' /\ skipped' = (skipped \/ ~drained)
      /\ UNCHANGED <<reply, phase, fields, seen, moves, drained>>
  BY DEF NoResultSet
<1>3. Tracks(reply, moves + 1, pos, done, fields, tag) /\ Reads /\ fields < pos
  BY DEF Regular, Tracks
<1>4. ASSUME done' \/ pos' = End \/ UNCHANGED <<pos, done>>, pos' \in pos..End
      PROVE  Reads'
  <2>1. drained => done' \/ \A i \in pos'..Len(reply) : reply[i] \notin {"D", "d", "C", "Z"}
    <3>1. CASE done'
      BY <3>1
    <3>2. CASE pos' = End
      <4>1. \A i \in pos'..Len(reply) : FALSE
        BY <1>1, <3>2
      <4> QED BY <4>1
    <3>3. CASE UNCHANGED <<pos, done>>
      BY <1>3, <3>3 DEF Reads
    <3> QED BY <1>4, <3>1, <3>2, <3>3
  <2>2. ~skipped' => \A i \in 1..Len(reply) : reply[i] = "D" => i \in seen
    BY NothingFollows
  <2>3. \A i \in 1..pos' - 1 : i \in 1..Len(reply)
    <3>1. pos' \in pos..End
      BY <1>4
    <3>2. pos' \in Int /\ pos' <= End
      BY <1>1, <3>1
    <3>3. \A q \in Int : q <= End => \A i \in 1..q - 1 : i \in 1..Len(reply)
      BY <1>1
    <3> QED BY <3>2, <3>3
  <2>4. ~skipped' => \A i \in 1..pos' - 1 : reply[i] = "D" => i \in seen
    BY <2>2, <2>3
  <2> QED BY <1>2, <2>1, <2>4 DEF Reads
<1>5. CASE EndAt = "X"
  <2>1. UNCHANGED <<pos, done, tag>>
    BY <1>5 DEF NoResultSet
  <2>2. pos' \in pos..End
    BY <1>1, <2>1
  <2>3. Regular'
    BY <1>2, <1>3, <1>4, <2>1, <2>2 DEF Regular
  <2>4. ~WellFormed
    <3>1. ~done /\ EndAt # "none"
      BY <1>5 DEF EndAt
    <3>2. EndOfSet \in pos..Len(reply) /\ reply[EndOfSet] = "X"
      BY <1>5, <3>1, EndFound
    <3>3. EndOfSet \in 1..Len(reply)
      BY <1>1, <3>2
    <3> QED BY <3>2, <3>3 DEF WellFormed
  <2> QED BY <2>3, <2>4
<1>6. CASE EndAt = "Z"
  <2>1. pos' = EndOfSet + 1 /\ done' /\ tag' = tag
    BY <1>6 DEF NoResultSet
  <2>2. ~done
    BY <1>6 DEF EndAt
  <2>3. /\ EndOfSet \in Nat /\ pos <= EndOfSet /\ EndOfSet <= End /\ EndOfSet # End
        /\ reply[EndOfSet] = "Z"
        /\ \A k \in pos..EndOfSet - 1 : reply[k] # "C"
    BY <1>6, <2>2, EndFound
  <2>4. EndOfSet = Len(reply) /\ pos' = End /\ fields < End
    BY <1>1, <1>3, <2>1, <2>3, LastMessage
  <2>5. \A k \in pos..End - 1 : reply[k] # "C"
    <3>1. \A k \in pos..End - 1 : k \in pos..EndOfSet - 1 \/ k = EndOfSet
      BY <1>1, <2>3, <2>4
    <3> QED BY <2>3, <3>1
  <2>6. tag = 0 /\ Statement(reply, End) = moves + 1
    BY <1>1, <1>3, <2>2, <2>5, StatementLasts DEF Tracks
  <2>7. Tracks(reply', moves' + 1, pos', done', fields', tag')
    BY <1>1, <1>2, <2>1, <2>4, <2>6 DEF Tracks
  <2>8. pos' \in pos..End
    BY <1>1, <2>4
  <2> QED BY <1>4, <2>1, <2>4, <2>7, <2>8 DEF Regular
<1>7. CASE EndAt \notin {"X", "Z"}
  <2>1. /\ At(Following) \notin StartsSet /\ done' = (done \/ EndAt = "C")
        /\ tag' = IF EndAt = "C" THEN EndOfSet ELSE tag
        /\ pos' = AfterLast
    BY <1>7 DEF NoResultSet
  <2>2. pos' \in pos..End
    BY <2>1, FollowingForward
  <2>3. Following # End =>
            /\ Following = Len(reply) /\ reply[Following] \in {"Z", "X"}
            /\ At(Following) = reply[Following]
    <3>1. SUFFICES ASSUME Following # End
                   PROVE  /\ Following = Len(reply) /\ reply[Following] \in {"Z", "X"}
                          /\ At(Following) = reply[Following]
      OBVIOUS
    <3>2. /\ At(Following) = reply[Following] /\ Following <= End /\ Following \in Nat
          /\ reply[Following] \in {"T", "D", "C", "Z", "X"} /\ pos <= Following
      BY <3>1, FollowingFound
    <3>3. reply[Following] \in {"Z", "X"}
      BY <2>1, <3>2 DEF StartsSet
    <3> QED BY <1>1, <3>1, <3>2, <3>3, LastMessage
  <2>4. ASSUME IF done THEN tag # 0 ELSE EndAt = "C"
        PROVE  /\ Bound \in Nat /\ 1 <= Bound /\ Bound < Following
               /\ reply[Bound] = "C" /\ Statement(reply, Bound) = moves + 1
               /\ \A i \in Bound + 1..Following - 1 : reply[i] \notin StartsSet
               /\ ~done => Bound = EndOfSet /\ Bound \in pos..Len(reply)
    BY <1>1, <1>3, <2>4, BoundFound
  <2>5. ~done /\ EndAt # "C" => EndOfSet = End /\ EndAt = "none"
    BY <1>7, EndFound
  <2>6. ~done /\ EndAt # "C" => Following = End
    <3>1. SUFFICES ASSUME Following # End, EndOfSet = End PROVE FALSE
      BY <2>5
    <3>2. Following \in EndOfSet + 1..Len(reply)
      BY <3>1, FollowingFound
    <3> QED BY <1>1, <3>1, <3>2
  <2>7. CASE At(Following) = "X"
    <3>1. pos' = pos /\ Following # End
      BY <2>1, <2>7, FollowingFound DEF AfterLast
    <3>2. ~WellFormed
      <4>1. Following \in 1..Len(reply)
        BY <2>7 DEF At
      <4>2. reply[Following] = "X"
        BY <2>3, <2>7, <3>1
      <4> QED BY <4>1, <4>2 DEF WellFormed
    <3>3. CASE done
      <4>1. UNCHANGED <<done, tag>>
        <5>1. EndAt = "done"
          BY <3>3 DEF EndAt
        <5> QED BY <2>1, <3>3, <5>1
      <4>2. Regular'
        BY <1>2, <1>3, <1>4, <2>2, <3>1, <4>1 DEF Regular
      <4> QED BY <3>2, <4>2
    <3>4. CASE ~done
      <4>1. EndAt = "C"
        BY <2>6, <3>1, <3>4
      <4>2. /\ EndOfSet \in Nat /\ EndOfSet \in pos..Len(reply) /\ reply[EndOfSet] = "C"
            /\ Statement(reply, EndOfSet) = moves + 1
            /\ \A i \in EndOfSet + 1..Following - 1 : reply[i] # "T"
        BY <2>4, <3>4, <4>1 DEF StartsSet
      <4>3. ASSUME NEW t \in pos..Len(reply), reply[t] = "T"
            PROVE  FALSE
        <5>1. t # Following /\ t # EndOfSet /\ t \in 1..Len(reply) /\ t \in Nat
          BY <1>1, <2>3, <2>7, <3>1, <4>2, <4>3
        <5>2. t \in EndOfSet + 1..Following - 1 \/ t < EndOfSet
          BY <1>1, <2>3, <3>1, <4>2, <5>1
        <5>3. t < EndOfSet
          BY <4>2, <4>3, <5>2
        <5>4. \A k \in pos..t - 1 : reply[k] # "C"
          <6>1. \A k \in pos..t - 1 : k \in pos..EndOfSet - 1
            BY <1>1, <4>2, <5>1, <5>3
          <6> QED BY <3>4, <6>1, EndFound
        <5>5. Statement(reply, t) = moves + 1
          BY <1>1, <1>3, <3>4, <5>1, <5>4, StatementLasts DEF Tracks
        <5>6. t = fields
          BY <1>3, <3>4, <4>3, <5>1, <5>5 DEF Tracks, Described
        <5> QED BY <1>1, <1>3, <5>6
      <4>4. ~WellFormed'
        BY <1>2, <3>2 DEF WellFormed
      <4>5. done' /\ \A i \in pos'..Len(reply') : reply'[i] # "T"
        BY <1>2, <2>1, <3>1, <4>1, <4>3
      <4>6. Lost'
        BY <1>2, <4>4, <4>5 DEF Lost
      <4> QED BY <3>2, <4>6
    <3> QED BY <3>3, <3>4
  <2>8. CASE At(Following) # "X"
    <3>1. pos' = End
      <4>1. CASE Following = End
        BY <2>1, <2>8, <4>1 DEF AfterLast
      <4>2. CASE Following # End
        BY <1>1, <2>1, <2>3, <2>8, <4>2 DEF AfterLast
      <4> QED BY <4>1, <4>2
    <3>2. fields < End
      BY <1>1, <1>3
    <3>3. CASE IF done THEN tag # 0 ELSE EndAt = "C"
      <4>1. done' /\ tag' = Bound
        BY <2>1, <3>3 DEF Bound, EndAt
      <4>2. \A i \in Bound + 1..End - 1 : reply[i] \notin StartsSet
        <5>1. \A i \in Bound + 1..End - 1 :
                  i \in Bound + 1..Following - 1 \/ (i = Following /\ Following # End)
          BY <1>1, <2>3, <2>4, <3>3, FollowingFound
        <5>2. Following # End => reply[Following] \notin StartsSet
          BY <2>1, <2>3
        <5> QED BY <2>4, <3>3, <5>1, <5>2
      <4>3. Bound # 0 /\ Bound < End
        BY <1>1, <2>4, <3>3, FollowingFound
      <4>4. Tracks(reply', moves' + 1, pos', done', fields', tag')
        BY <1>2, <2>4, <3>1, <3>2, <3>3, <4>1, <4>2, <4>3 DEF Tracks
      <4> QED BY <1>4, <2>2, <3>1, <4>4 DEF Regular
    <3>4. CASE ~done /\ EndAt # "C"
      <4>1. ~done' /\ tag' = tag
        BY <2>1, <3>4
      <4>2. \A k \in pos..End - 1 : reply[k] # "C"
        BY <2>5, <3>4, EndFound
      <4>3. /\ tag = 0 /\ Statement(reply, End) = moves + 1
            /\ Described(reply, moves + 1, fields)
        BY <1>1, <1>3, <3>4, <4>2, StatementLasts DEF Tracks
      <4>4. Tracks(reply', moves' + 1, pos', done', fields', tag')
        BY <1>2, <3>1, <3>2, <4>1, <4>3 DEF Tracks
      <4> QED BY <1>4, <2>2, <3>1, <4>4 DEF Regular
    <3>5. CASE done /\ tag = 0
      <4>1. pos = End /\ Statement(reply, End) = moves + 1
        BY <1>1, <1>3, <3>5 DEF Tracks
      <4>2. done' /\ tag' = tag
        BY <2>1, <3>5 DEF EndAt
      <4>3. Tracks(reply', moves' + 1, pos', done', fields', tag')
        BY <1>1, <1>2, <3>1, <3>2, <3>5, <4>1, <4>2 DEF Tracks
      <4> QED BY <1>4, <2>2, <3>1, <4>3 DEF Regular
    <3> QED BY <3>3, <3>4, <3>5
  <2> QED BY <2>7, <2>8
<1> QED BY <1>5, <1>6, <1>7

\* A lost cursor stays lost.
LEMMA LostStep ==
    ASSUME Placed, Ranges, Shape(reply, phase), pos > 0, Lost, [Next]_vars
    PROVE  Lost'
<1>1. /\ Len(reply) \in Nat /\ End = Len(reply) + 1 /\ pos \in Nat /\ 1 <= pos /\ pos <= End
      /\ reply \in Seq(FrameTypes)
  BY DEF Placed, End
<1>2. /\ over /\ ~WellFormed /\ \A i \in pos..Len(reply) : reply[i] # "T"
      /\ done \/ (fields = 0 /\ pos <= Len(reply) /\ reply[pos] = "D")
  BY DEF Lost
<1>3. ASSUME reply' = reply
      PROVE  ~WellFormed'
  BY <1>2, <1>3 DEF WellFormed
<1>4. CASE UNCHANGED <<reply, pos, done, fields, over>>
  BY <1>2, <1>3, <1>4 DEF Lost
<1>5. ~ \E t \in Frames : Send(t)
  BY <1>1 DEF Send
<1>6. ~Create /\ ~FetchRow
  BY <1>1, LostReadsNothing DEF Create, FetchRow
<1>7. ASSUME FetchNoRow
      PROVE  Lost'
  <2>1. done \/ At(Fetched) = "D"
    BY LostReadsNothing
  <2>2. UNCHANGED <<reply, pos, done, fields, over>>
    BY <1>7, <2>1 DEF FetchNoRow, cursorVars
  <2> QED BY <1>4, <2>2
<1>8. ASSUME NextResultSet
      PROVE  Lost'
  <2>1. /\ pos' = Metadata(Following).pos /\ done' = Metadata(Following).done
        /\ fields' = Metadata(Following).fields /\ UNCHANGED <<reply, over>>
        /\ At(Following) \in {"T", "D", "C"}
    BY <1>8 DEF NextResultSet, SetCursor, StartsSet
  <2>2. /\ Following \in pos..Len(reply) /\ Following \in Nat
        /\ At(Following) = reply[Following] /\ Following <= End
    BY <1>1, <2>1, FollowingFound
  <2>3. reply[Following] \in {"C", "D"}
    BY <1>2, <2>1, <2>2
  <2> DEFINE S == {"T", "C"} \cup RowFrames
             f == First(Following, S)
  <2>4. f = Following
    <3>1. "none" \notin S /\ {"C", "D"} \subseteq S
      BY DEF RowFrames
    <3> HIDE DEF S
    <3>2. /\ f \in Nat /\ Following <= f
          /\ \A j \in Following..f - 1 : reply[j] \notin S \cup {"X"}
      BY <1>1, <2>2, <3>1, Scan
    <3>3. Following < f => Following \in Following..f - 1
      BY <2>2, <3>2
    <3>4. ~(Following < f)
      BY <2>3, <3>1, <3>2, <3>3
    <3> HIDE DEF f
    <3> QED BY <2>2, <3>2, <3>4
  <2>5. /\ Metadata(Following).pos =
               IF At(f) \in RowFrames \cup {"none"} THEN f ELSE f + 1
        /\ Metadata(Following).done = (At(f) = "C")
        /\ Metadata(Following).fields = IF At(f) = "T" THEN f ELSE 0
    BY DEF Metadata
  <2>6. CASE reply[Following] = "C"
    <3>1. pos' = Following + 1 /\ done'
      BY <2>1, <2>2, <2>4, <2>5, <2>6 DEF RowFrames
    <3>2. \A i \in pos'..Len(reply) : i \in pos..Len(reply)
      BY <1>1, <2>2, <3>1
    <3>3. \A i \in pos'..Len(reply) : reply[i] # "T"
      BY <1>2, <3>2
    <3> QED BY <1>2, <1>3, <2>1, <3>1, <3>3 DEF Lost
  <2>7. CASE reply[Following] = "D"
    <3>1. pos' = Following /\ fields' = 0
      BY <2>1, <2>2, <2>4, <2>5, <2>7 DEF RowFrames
    <3>2. pos' <= Len(reply) /\ \A i \in pos'..Len(reply) : i \in pos..Len(reply)
      BY <1>1, <2>2, <3>1
    <3>3. \A i \in pos'..Len(reply) : reply[i] # "T"
      BY <1>2, <3>2
    <3> QED BY <1>2, <1>3, <2>1, <2>7, <3>1, <3>2, <3>3 DEF Lost
  <2> QED BY <2>3, <2>6, <2>7
<1>9. ASSUME NoResultSet
      PROVE  Lost'
  <2>1. over' /\ UNCHANGED <<reply, fields>>
    BY <1>9 DEF NoResultSet
  <2>2. UNCHANGED <<pos, done>> \/ (done' /\ pos' \in Nat /\ pos' >= pos)
    <3>1. CASE EndAt = "X"
      BY <1>9, <3>1 DEF NoResultSet
    <3>2. CASE EndAt = "Z"
      <4>1. pos' = EndOfSet + 1 /\ done' /\ ~done
        BY <1>9, <3>2 DEF NoResultSet, EndAt
      <4>2. EndOfSet \in Nat /\ pos <= EndOfSet
        BY <4>1, EndFound
      <4>3. pos' \in Nat /\ pos' >= pos
        BY <1>1, <4>1, <4>2
      <4> QED BY <4>1, <4>3
    <3>3. CASE EndAt \notin {"X", "Z"}
      <4>1. pos' = AfterLast /\ done' = (done \/ EndAt = "C")
        BY <1>9, <3>3 DEF NoResultSet
      <4>2. pos' \in Nat /\ pos' >= pos
        BY <1>1, <4>1, FollowingForward
      <4>3. done'
        <5>1. CASE done
          BY <4>1, <5>1
        <5>2. CASE ~done
          <6>1. pos <= Len(reply) /\ reply[pos] = "D"
            BY <1>2, <5>2
          <6>2. PICK x \in 1..Len(reply) : reply[x] = "X"
            BY <1>2 DEF WellFormed
          <6>3. x = Len(reply)
            BY <6>2 DEF Shape
          <6>4. EndOfSet # End
            <7>1. SUFFICES ASSUME EndOfSet = End PROVE FALSE
              OBVIOUS
            <7>2. x \in pos..EndOfSet - 1
              BY <1>1, <6>1, <6>3, <7>1
            <7> QED BY <5>2, <6>2, <7>2, EndFound
          <6>5. EndAt = "C"
            BY <3>3, <5>2, <6>4, EndFound
          <6> QED BY <4>1, <6>5
        <5> QED BY <5>1, <5>2
      <4> QED BY <4>2, <4>3
    <3> QED BY <3>1, <3>2, <3>3
  <2>3. CASE UNCHANGED <<pos, done>>
    BY <1>2, <1>3, <2>1, <2>3 DEF Lost
  <2>4. CASE done' /\ pos' \in Nat /\ pos' >= pos
    <3>1. pos' \in Nat /\ pos' >= pos
      BY <2>4
    <3>2. \A i \in pos'..Len(reply) : i \in pos..Len(reply)
      BY <1>1, <3>1
    <3>3. \A i \in pos'..Len(reply) : reply[i] # "T"
      BY <1>2, <3>2
    <3> QED BY <1>3, <2>1, <2>4, <3>3 DEF Lost
  <2> QED BY <2>2, <2>3, <2>4
<1>10. CASE UNCHANGED vars
  BY <1>4, <1>10 DEF vars, cursorVars, ghostVars
<1> QED BY <1>5, <1>6, <1>7, <1>8, <1>9, <1>10 DEF Next

\* Nothing moves a cursor that is behind the reply after next_result_set has returned
\* false on a reply without malformed frames.
LEMMA AtEndStep ==
    ASSUME Placed, pos = End, [Next]_vars
    PROVE  pos' = End /\ ~NextResultSet
<1>1. /\ Len(reply) \in Nat /\ End = Len(reply) + 1 /\ pos \in Nat /\ pos > 0
  BY DEF Placed, End
<1>2. Following = End /\ At(Following) = "none"
  <2>1. Following \in Nat /\ pos <= Following /\ Following <= End
    BY <1>1, FollowingFound
  <2>2. Following = End
    BY <1>1, <2>1
  <2> QED BY <1>1, <2>2, FollowingFound
<1>3. ~NextResultSet
  BY <1>2 DEF NextResultSet, StartsSet
<1>4. ~ \E t \in Frames : Send(t)
  BY <1>1 DEF Send
<1>5. ~Create /\ ~FetchRow
  BY <1>1 DEF Create, FetchRow, HasRow
<1>6. ASSUME FetchNoRow
      PROVE  pos' = End
  <2>1. pos >= End
    BY <1>1
  <2> QED BY <1>6, <2>1 DEF FetchNoRow, cursorVars
<1>7. ASSUME NoResultSet
      PROVE  pos' = End
  <2>1. EndAt # "Z"
    <3>1. SUFFICES ASSUME EndAt = "Z" PROVE FALSE
      OBVIOUS
    <3>2. ~done
      BY <3>1 DEF EndAt
    <3>3. EndOfSet \in Nat /\ pos <= EndOfSet /\ EndOfSet <= End
      BY <1>1, <3>2, EndFound
    <3>4. EndOfSet = End
      BY <1>1, <3>3
    <3> QED BY <1>1, <3>1, <3>2, <3>4, EndFound
  <2>2. AfterLast = End
    BY <1>2 DEF AfterLast
  <2> QED BY <1>7, <2>1, <2>2 DEF NoResultSet
<1>8. ASSUME UNCHANGED vars
      PROVE  pos' = End
  <2>1. pos' = pos
    BY <1>8 DEF vars, cursorVars
  <2> QED BY <2>1
<1> QED BY <1>3, <1>4, <1>5, <1>6, <1>7, <1>8 DEF Next

\* The number that the properties give a statement.
LEMMA StatementIs == \A i : StatementOf(i) = Statement(reply, i)
  BY DEF StatementOf, Statement

\* A cursor that has been made is not withdrawn.
LEMMA NeverWithdrawn ==
    ASSUME Placed, pos > 0, [Next]_vars
    PROVE  pos' # 0
<1>1. pos \in Nat /\ End \in Nat /\ reply \in Seq(FrameTypes) /\ pos > 0 /\ pos <= End
  BY DEF Placed, End
<1>2. ~(\E t \in Frames : Send(t)) /\ ~Create
  BY <1>1 DEF Send, Create
<1>3. CASE FetchRow
  <2>1. pos' = Fetched + 1 /\ Fetched \in Nat
    BY <1>3, FetchedFound DEF FetchRow, AfterRow
  <2> QED BY <2>1
<1>4. CASE FetchNoRow
  <2>1. pos' = pos \/ pos' = End \/ pos' = Fetched + 1
    BY <1>4 DEF FetchNoRow, cursorVars
  <2> QED BY <1>1, <2>1, FetchedFound
<1>5. CASE NextResultSet
  <2>1. pos' = Metadata(Following).pos
    BY <1>5 DEF NextResultSet, SetCursor
  <2>2. Following \in Nat /\ pos <= Following /\ Following <= End
    BY FollowingFound
  <2>3. Following >= 1
    BY <1>1, <2>2
  <2>4. Metadata(Following).pos \in Following..End
    BY <1>1, <2>2, <2>3, MetadataForward
  <2> QED BY <1>1, <2>1, <2>2, <2>4
<1>6. CASE NoResultSet
  <2>1. pos' = pos \/ pos' = AfterLast \/ (EndAt = "Z" /\ pos' = EndOfSet + 1)
    BY <1>6 DEF NoResultSet
  <2>2. EndAt = "Z" => EndOfSet \in Nat
    BY EndFound DEF EndAt
  <2>3. AfterLast \in pos..End
    BY FollowingForward
  <2> QED BY <1>1, <2>1, <2>2, <2>3
<1>7. CASE UNCHANGED vars
  BY <1>1, <1>7 DEF vars, cursorVars
<1> QED BY <1>2, <1>3, <1>4, <1>5, <1>6, <1>7 DEF Next

\* The invariant holds before there is a reply or a cursor.
LEMMA CursorInvInit ==
    ASSUME Init
    PROVE  CursorInv
<1>1. Placed
  BY DEF Init, Placed, End
<1>2. Ranges
  <2>1. Len(reply) = 0
    BY DEF Init
  <2>2. phase \in Phases
    BY DEF Init, Phases, Flow
  <2>3. Len(reply) <= MaxFrames /\ moves \in 0..MaxFrames
    BY <2>1, CursorAssumption DEF Init
  <2>4. fields \in 0..Len(reply) /\ tag \in 0..Len(reply) /\ seen \subseteq 1..Len(reply)
    BY <2>1 DEF Init
  <2>5. /\ done \in BOOLEAN /\ unordered \in BOOLEAN
        /\ drained \in BOOLEAN /\ skipped \in BOOLEAN /\ over \in BOOLEAN
    BY Zenon DEF Init
  <2> QED BY <2>2, <2>3, <2>4, <2>5 DEF Ranges
<1>3. Shape(reply, phase)
  <2>1. Len(reply) = 0 /\ phase = "between"
    BY DEF Init
  <2> QED BY <2>1 DEF Shape
<1>4. pos = 0 /\ Fresh /\ ~over
  BY DEF Init, Fresh
<1> QED BY <1>1, <1>2, <1>3, <1>4 DEF CursorInv, WalkSeesRows

\* WalkSeesRows once true stays so: the reply is complete, and what has been reached
\* or delivered remains that.
LEMMA WalkStays ==
    ASSUME Placed, Ranges, over, WalkSeesRows, pos > 0, [Next]_vars
    PROVE  WalkSeesRows'
<1>0. ~(\E t \in Frames : Send(t)) /\ ~Create
  BY DEF Send, Create, Placed
<1>1. reply' = reply
  BY <1>0 DEF Next, Send, Create, FetchRow, FetchNoRow, NextResultSet, NoResultSet, vars
<1>2. moves' = moves \/ moves' = moves + 1
  BY DEF Next, Send, Create, FetchRow, FetchNoRow, NextResultSet, NoResultSet, vars, ghostVars
<1>3. seen \subseteq seen'
  BY DEF Next, Send, Create, FetchRow, FetchNoRow, NextResultSet, NoResultSet, vars, ghostVars
<1>4. ~skipped' => ~skipped
  BY DEF Next, Send, Create, FetchRow, FetchNoRow, NextResultSet, NoResultSet, vars, ghostVars
<1>5. ASSUME NEW i \in 1..Len(reply), reply[i] \in StartsSet
      PROVE  Statement(reply, i) <= moves' + 1
  <2>1. StatementOf(i) <= moves + 1
    BY <1>5 DEF WalkSeesRows
  <2>2. Statement(reply, i) <= moves + 1 /\ moves \in Nat /\ Statement(reply, i) \in Nat
    BY <2>1, StatementIs, StatementIsNat DEF Ranges
  <2> QED BY <1>2, <2>2
<1>6. ~skipped' => {i \in 1..Len(reply) : reply[i] = "D"} \subseteq seen'
  BY <1>3, <1>4 DEF WalkSeesRows
<1>7. \A i \in 1..Len(reply) : reply[i] \in StartsSet => StatementOf(i)' <= moves' + 1
  BY <1>1, <1>5 DEF StatementOf, Statement
<1>8. {i \in 1..Len(reply) : reply[i] = "D"}' = {i \in 1..Len(reply) : reply[i] = "D"}
  BY <1>1
<1> QED BY <1>1, <1>6, <1>7, <1>8 DEF WalkSeesRows, StartsSet

\* Every message, every call and the end of the application keep the invariant.
LEMMA CursorInvStep ==
    ASSUME CursorInv, [Next]_vars
    PROVE  CursorInv'
<1>1. Placed /\ Ranges /\ Shape(reply, phase)
  BY DEF CursorInv
<1>2. Placed' /\ Ranges' /\ Shape(reply', phase')
  BY <1>1, PlacedStep, RangesStep, ShapeStep
<1>3. pos \in Nat /\ pos' \in Nat /\ End \in Nat /\ End > 0
  BY <1>1, <1>2 DEF Placed, End
<1>4. ASSUME pos = 0, ~Create
      PROVE  pos' = 0 /\ Fresh'
  <2>1. UNCHANGED <<pos, moves, fields, seen, done, over, drained, skipped>>
    BY <1>3, <1>4 DEF Next, Send, FetchRow, FetchNoRow, NextResultSet, NoResultSet, vars,
                      cursorVars, ghostVars
  <2> QED BY <1>4, <2>1 DEF CursorInv, Fresh
<1>5. ASSUME pos > 0
      PROVE  reply' = reply /\ phase' = phase /\ phase \in Settled
  <2>1. ~(\E t \in Frames : Send(t)) /\ ~Create
    BY <1>3, <1>5 DEF Send, Create
  <2>2. reply' = reply /\ phase' = phase
    BY <2>1 DEF Next, FetchRow, FetchNoRow, NextResultSet, NoResultSet, vars
  <2> QED BY <1>3, <1>5, <2>2 DEF CursorInv
<1>6. ASSUME pos > 0, Regular
      PROVE  Regular' \/ Lost'
  <2>1. ~(\E t \in Frames : Send(t)) /\ ~Create
    BY <1>3, <1>6 DEF Send, Create
  <2>2. CASE FetchRow
    BY <1>1, <1>6, <2>2, FetchRowTracks
  <2>3. CASE FetchNoRow
    BY <1>1, <1>6, <2>3, FetchNoRowTracks
  <2>4. CASE NextResultSet
    BY <1>1, <1>6, <2>4, NextResultSetTracks
  <2>5. CASE NoResultSet
    BY <1>1, <1>6, <2>5, NoResultSetTracks
  <2>6. CASE UNCHANGED vars
    BY <1>6, <2>6 DEF vars, cursorVars, ghostVars, Regular, Reads
  <2> QED BY <2>1, <2>2, <2>3, <2>4, <2>5, <2>6 DEF Next
<1>7. IF pos' = 0 THEN Fresh' ELSE phase' \in Settled /\ (Regular' \/ Lost')
  <2>1. CASE pos = 0 /\ ~Create
    BY <1>4, <2>1
  <2>2. CASE pos = 0 /\ Create
    <3>1. pos' > 0 /\ Regular'
      BY <1>1, <2>2, CreateTracks DEF CursorInv
    <3>2. phase' \in Settled
      BY <2>2 DEF Create
    <3> QED BY <1>3, <3>1, <3>2
  <2>3. CASE pos > 0
    <3>1. Regular \/ Lost
      BY <1>3, <2>3 DEF CursorInv
    <3>2. Regular' \/ Lost'
      BY <1>1, <1>6, <2>3, <3>1, LostStep
    <3>3. pos' # 0
      <4>1. CASE pos = End
        BY <1>1, <1>3, <4>1, AtEndStep
      <4>2. CASE pos # End
        BY <1>1, <1>2, <1>3, <1>5, <2>3, <4>2, NeverWithdrawn
      <4> QED BY <4>1, <4>2
    <3> QED BY <1>5, <2>3, <3>2, <3>3
  <2> QED BY <1>3, <2>1, <2>2, <2>3
<1>8. ASSUME over', ~over
      PROVE  NoResultSet /\ pos > 0
  BY <1>8 DEF Next, Send, Create, FetchRow, FetchNoRow, NextResultSet, NoResultSet, vars, ghostVars
<1>9. ASSUME over
      PROVE  pos > 0
  BY <1>3, <1>9 DEF CursorInv, Fresh
<1>10. ASSUME over', WellFormed'
       PROVE  pos' = End'
  <2>1. pos > 0
    BY <1>8, <1>9, <1>10
  <2>2. reply' = reply /\ WellFormed /\ End' = End
    BY <1>5, <1>10, <2>1 DEF WellFormed, End
  <2>3. CASE over
    <3>1. pos = End
      BY <2>2, <2>3 DEF CursorInv
    <3> QED BY <1>1, <2>2, <3>1, AtEndStep
  <2>4. CASE ~over
    <3>1. Regular /\ NoResultSet
      BY <1>3, <1>8, <1>10, <2>1, <2>4 DEF CursorInv, Lost
    <3> QED BY <1>1, <2>1, <2>2, <3>1, NoResultSetTracks
  <2> QED BY <2>3, <2>4
<1>11. WalkSeesRows'
  <2>1. CASE over
    BY <1>1, <1>9, <2>1, WalkStays DEF CursorInv
  <2>2. CASE ~over'
    BY <2>2 DEF WalkSeesRows
  <2>3. CASE over' /\ ~over
    <3>1. pos > 0 /\ NoResultSet /\ Regular
      BY <1>3, <1>8, <2>3 DEF CursorInv, Lost
    <3>2. /\ \A i \in 1..Len(reply) :
                 reply[i] \in StartsSet => Statement(reply, i) <= moves + 1
          /\ ~skipped' => \A i \in 1..Len(reply) : reply[i] = "D" => i \in seen
      BY <1>1, <3>1, NothingFollows
    <3>3. UNCHANGED <<reply, moves, seen>>
      BY <3>1 DEF NoResultSet
    <3>4. \A i : StatementOf(i)' = Statement(reply, i)
      BY <3>3 DEF StatementOf, Statement
    <3>5. ~skipped' => {i \in 1..Len(reply) : reply[i] = "D"}' \subseteq seen'
      BY <3>2, <3>3
    <3>6. \A i \in 1..Len(reply') :
              reply'[i] \in StartsSet => StatementOf(i)' <= moves' + 1
      BY <3>2, <3>3, <3>4
    <3> QED BY <3>5, <3>6 DEF WalkSeesRows, StartsSet
  <2> QED BY <2>1, <2>2, <2>3
<1> QED BY <1>2, <1>7, <1>10, <1>11 DEF CursorInv

\* The invariant holds of every reply the backend may send, cut short or malformed, and
\* of every sequence of calls.
LEMMA CursorInvHolds == Spec => []CursorInv
<1>1. Init => CursorInv
  BY CursorInvInit
<1>2. CursorInv /\ [Next]_vars => CursorInv'
  BY CursorInvStep
<1> QED BY <1>1, <1>2, PTL DEF Spec

\* The walk of test_fuzzer.cc:26-37 misses no result set and no row: when
\* next_result_set has returned false, even for a malformed reply, no statement lies
\* beyond the result set it is in, and an application that read each one to its end
\* has all rows of queries (PostgresResult.cc:570-715, next_result_set).
THEOREM WalkSeesRowsHolds == Spec => []WalkSeesRows
<1>1. CursorInv => WalkSeesRows
  BY DEF CursorInv
<1> QED BY <1>1, CursorInvHolds, PTL

\* The tag of a result set that is done is the CommandComplete that ended it, never that
\* of another one, and there is none exactly if the statement failed, however the end
\* was reached: by parse_metadata, fetch_row or next_result_set.
THEOREM TagOfCurrentSetHolds == Spec => []TagOfCurrentSet
<1>1. ASSUME CursorInv, done, WellFormed
      PROVE  FramesOf({"C"}, moves + 1) = IF tag = 0 THEN {} ELSE {tag}
  <2>1. /\ Len(reply) \in Nat /\ End = Len(reply) + 1 /\ pos \in Nat /\ moves \in Nat
        /\ tag \in 0..Len(reply)
    BY <1>1 DEF CursorInv, Placed, Ranges, End
  <2>2. Tracks(reply, moves + 1, pos, done, fields, tag)
    <3>1. ~Lost
      BY <1>1 DEF Lost
    <3>2. pos # 0
      BY <1>1, <3>1 DEF CursorInv, Fresh
    <3> QED BY <1>1, <3>1, <3>2 DEF CursorInv, Regular
  <2>3. FramesOf({"C"}, moves + 1) =
            {i \in 1..Len(reply) : reply[i] = "C" /\ Statement(reply, i) = moves + 1}
    BY StatementIs DEF FramesOf
  <2>4. CASE tag = 0
    <3>1. Statement(reply, End) = moves + 1
      BY <1>1, <2>1, <2>2, <2>4 DEF Tracks
    <3>2. ASSUME NEW i \in 1..Len(reply), reply[i] = "C"
          PROVE  Statement(reply, i) # moves + 1
      <4>1. i \in Nat /\ 1 <= i /\ i < End
        BY <2>1
      <4>2. Statement(reply, i) < Statement(reply, End)
        BY <2>1, <3>2, <4>1, StatementAfter
      <4> QED BY <2>1, <3>1, <4>1, <4>2, StatementIsNat
    <3> QED BY <2>3, <2>4, <3>2
  <2>5. CASE tag # 0
    <3>1. reply[tag] = "C" /\ Statement(reply, tag) = moves + 1
      BY <1>1, <2>2, <2>5 DEF Tracks
    <3>2. ASSUME NEW i \in 1..Len(reply), reply[i] = "C", i # tag
          PROVE  Statement(reply, i) # moves + 1
      <4>1. i \in Nat /\ 1 <= i /\ tag \in Nat /\ 1 <= tag
        BY <2>1, <2>5
      <4>2. CASE i < tag
        BY <2>1, <3>1, <3>2, <4>1, <4>2, StatementAfter, StatementIsNat
      <4>3. CASE tag < i
        BY <2>1, <3>1, <4>1, <4>3, StatementAfter, StatementIsNat
      <4> QED BY <3>2, <4>1, <4>2, <4>3
    <3>3. tag \in 1..Len(reply)
      BY <2>1, <2>5
    <3>4. {i \in 1..Len(reply) : reply[i] = "C" /\ Statement(reply, i) = moves + 1} = {tag}
      BY <3>1, <3>2, <3>3
    <3> QED BY <2>3, <2>5, <3>4
  <2> QED BY <2>4, <2>5
<1>2. CursorInv => TagOfCurrentSet
  BY <1>1 DEF TagOfCurrentSet
<1> QED BY <1>2, CursorInvHolds, PTL

\* fetch_row delivers rows of one result set only, the one after as many successful
\* next_result_set calls, with the description of that set, or none for COPY data; no
\* row of a set left early comes up in a later one (PostgresResult.cc:570-655).
THEOREM RowsOfCurrentSetHolds == Spec => RowsOfCurrentSet
<1> DEFINE OfSet ==
      row' # row =>
          /\ StatementOf(row') = moves + 1
          /\ FramesOf({"T"}, moves + 1) = {fields} \ {0}
<1>1. ASSUME CursorInv, [Next]_vars
      PROVE  [OfSet]_vars
  <2>1. SUFFICES ASSUME row' # row PROVE OfSet
    OBVIOUS
  <2>2. FetchRow
    BY <1>1, <2>1 DEF Next, Send, Create, FetchNoRow, NextResultSet, NoResultSet, vars, ghostVars
  <2>3. pos > 0 /\ HasRow /\ row' = Fetched
    BY <2>2 DEF FetchRow
  <2>4. Placed /\ Ranges /\ Shape(reply, phase) /\ Regular
    <3>1. pos # 0
      BY <2>3
    <3>2. Placed /\ Ranges /\ Shape(reply, phase) /\ (Regular \/ Lost)
      BY <1>1, <3>1 DEF CursorInv
    <3> QED BY <2>3, <3>2, LostReadsNothing
  <2>5. Statement(reply, Fetched) = moves + 1
    BY <2>2, <2>3, <2>4, FetchRowTracks
  <2>6. Described(reply, moves + 1, fields) /\ fields \in 0..Len(reply)
    <3>1. ~done
      BY <2>3 DEF HasRow
    <3> QED BY <2>4, <3>1 DEF Regular, Tracks, Ranges
  <2>7. FramesOf({"T"}, moves + 1) =
            {i \in 1..Len(reply) : reply[i] = "T" /\ Statement(reply, i) = moves + 1}
    BY StatementIs DEF FramesOf
  <2>8. {i \in 1..Len(reply) : reply[i] = "T" /\ Statement(reply, i) = moves + 1}
            = {fields} \ {0}
    <3>1. CASE fields = 0
      <4>1. \A i \in 1..Len(reply) : ~(reply[i] = "T" /\ Statement(reply, i) = moves + 1)
        BY <2>6, <3>1 DEF Described
      <4> QED BY <3>1, <4>1
    <3>2. CASE fields # 0
      BY <2>6, <3>2 DEF Described
    <3> QED BY <3>1, <3>2
  <2>9. StatementOf(row') = moves + 1
    BY <2>3, <2>5, StatementIs
  <2> QED BY <2>7, <2>8, <2>9
<1>2. CursorInv /\ [Next]_vars => [OfSet]_vars
  BY <1>1
<1>3. Spec => [][OfSet]_vars
  BY <1>2, CursorInvHolds, PTL DEF Spec
<1> QED BY <1>3 DEF RowsOfCurrentSet

\* An application that has been told that there is no other result set is not told
\* otherwise by a later call, on any reply without malformed frames.
THEOREM FalseIsFinalHolds == Spec => FalseIsFinal
<1> DEFINE Final == over /\ WellFormed => moves' = moves
<1>1. ASSUME CursorInv, [Next]_vars
      PROVE  [Final]_vars
  <2>1. SUFFICES ASSUME over, WellFormed PROVE moves' = moves
    OBVIOUS
  <2>2. Placed /\ pos = End
    BY <1>1, <2>1 DEF CursorInv
  <2>3. ~NextResultSet
    BY <1>1, <2>2, AtEndStep
  <2> QED BY <1>1, <2>3 DEF Next, Send, Create, FetchRow, FetchNoRow, NoResultSet, vars, ghostVars
<1>2. CursorInv /\ [Next]_vars => [Final]_vars
  BY <1>1
<1>3. Spec => [][Final]_vars
  BY <1>2, CursorInvHolds, PTL DEF Spec
<1> QED BY <1>3 DEF FalseIsFinal
=============================================================================
