-------------------------- MODULE PgResponseProofs --------------------------
(***************************************************************************)
(* Proofs about PgResponse, for every message size, every number of        *)
(* messages and every way of cutting the stream into chunks.               *)
(***************************************************************************)
EXTENDS PgResponse, PgBackendProofs, TLAPS

\* Sizes: n messages are n * Size bytes.
LEMMA Times ==
    ASSUME NEW m \in Nat, NEW n \in Nat
    PROVE  /\ m * Size \in Nat
           /\ (m + 1) * Size = m * Size + Size
           /\ m * Size <= n * Size <=> m <= n
<1>1. Size \in Nat /\ Size > 0
  BY ResponseAssumption
<1>2. m * Size \in Nat /\ (m + 1) * Size = m * Size + Size
  BY <1>1
<1>3. ASSUME m <= n PROVE m * Size <= n * Size
  <2>1. PICK d \in Nat : n = m + d
    <3>1. n - m \in Nat /\ n = m + (n - m)
      BY <1>3
    <3> QED BY <3>1
  <2>2. n * Size = m * Size + d * Size /\ d * Size \in Nat
    BY <1>1, <2>1
  <2> QED BY <1>1, <2>2
<1>4. ASSUME n < m PROVE n * Size < m * Size
  <2>1. PICK d \in Nat : m = n + 1 + d
    <3>1. m - (n + 1) \in Nat /\ m = n + 1 + (m - (n + 1))
      BY <1>4
    <3> QED BY <3>1
  <2>2. m * Size = n * Size + Size + d * Size /\ d * Size \in Nat
    BY <1>1, <2>1
  <2> QED BY <1>1, <2>2
<1>5. n * Size \in Nat
  BY <1>1
<1> QED BY <1>2, <1>3, <1>4, <1>5

---------------------------------------------------------------------------
\* The phases of a reply that is not over.
OpenPhases ==
    [startup |-> {"auth", "asked", "params"},
     query   |-> {"between", "rows", "copy", "copied", "failed"},
     wait    |-> {"idle", "dead"}]

\* The backend and append() end a round at the same messages.
LEMMA EndsAgree ==
    ASSUME round \in {"startup", "query", "wait"}, phase \in OpenPhases[round],
           NEW t, MaySend(phase, t)
    PROVE  /\ EndsForBackend(t) <=> Ends(t)
           /\ ~Ends(t) => PhaseAfter(phase, t) \in OpenPhases[round]
<1> USE DEF OpenPhases, MaySend, PhaseAfter, EndsForBackend, Ends, Settled
<1>1. CASE phase = "auth"
  BY <1>1 DEF Flow
<1>2. CASE phase = "asked"
  BY <1>2 DEF Flow
<1>3. CASE phase = "params"
  BY <1>3 DEF Flow
<1>4. CASE phase = "between"
  BY <1>4 DEF Flow
<1>5. CASE phase = "rows"
  BY <1>5 DEF Flow
<1>6. CASE phase = "copy"
  BY <1>6 DEF Flow
<1>7. CASE phase = "copied"
  BY <1>7 DEF Flow
<1>8. CASE phase = "failed"
  BY <1>8 DEF Flow
<1>9. CASE phase = "idle"
  BY <1>9 DEF Flow
<1>10. CASE phase = "dead"
  BY <1>10 DEF Flow
<1> QED BY <1>1, <1>2, <1>3, <1>4, <1>5, <1>6, <1>7, <1>8, <1>9, <1>10

---------------------------------------------------------------------------
\* The part of TypeOK the argument needs.
Shapes ==
    /\ round \in {"startup", "query", "wait"}
    /\ stream \in Seq(FrameTypes)
    /\ pc \in {"read", "loop", "done"}
    /\ buf \in Nat /\ cur \in Nat /\ chunk \in Nat /\ taken \in Nat /\ ended \in Nat

\* Where the bytes are.
Accounts ==
    /\ cur * Size <= buf /\ buf <= Len(stream) * Size
    /\ pc = "read" => buf = taken
    /\ pc = "loop" => buf = taken + chunk
    /\ pc = "done" => buf = cur * Size /\ taken = cur * Size

\* The backend has ended the round with the first message at which append() does.
EndKnown ==
    /\ ended = 0 => phase \in OpenPhases[round]
    /\ ended > 0 => ended <= Len(stream) /\ Ends(stream[ended])
    /\ \A i \in 1..Len(stream) : (ended = 0 \/ i < ended) => ~Ends(stream[i])

\* append() has not passed it.
NotPassed ==
    IF pc = "done" THEN ended > 0 /\ cur = ended ELSE ended = 0 \/ cur < ended

RoundInv == Shapes /\ Accounts /\ EndKnown /\ NotPassed

LEMMA RoundInit == Init => RoundInv
<1> SUFFICES ASSUME Init PROVE RoundInv
  OBVIOUS
<1>1. round \in {"startup", "query", "wait"}
  BY ResponseAssumption DEF Init
<1>2. Shapes
  BY <1>1 DEF Init, Shapes
<1>3. Accounts
  BY ResponseAssumption DEF Init, Accounts
<1>4. EndKnown
  BY <1>1 DEF Init, EndKnown, OpenPhases, FirstPhase
<1>5. NotPassed
  BY DEF Init, NotPassed
<1> QED BY <1>2, <1>3, <1>4, <1>5 DEF RoundInv

\* The next message to take is one that was sent.
LEMMA LoopInStream ==
    ASSUME RoundInv, LoopGoesOn
    PROVE  cur + 1 \in 1..Len(stream) /\ (cur + 1) * Size <= buf
<1>1. cur + 1 \in Nat /\ Len(stream) \in Nat
  BY DEF RoundInv, Shapes
<1>2. (cur + 1) * Size \in Nat /\ Len(stream) * Size \in Nat
  BY <1>1, Times
<1>3. (cur + 1) * Size <= buf
  BY DEF LoopGoesOn, Complete
<1>4. (cur + 1) * Size <= Len(stream) * Size
  BY <1>2, <1>3 DEF RoundInv, Shapes, Accounts
<1>5. cur + 1 <= Len(stream)
  BY <1>1, <1>4, Times
<1> QED BY <1>1, <1>3, <1>5 DEF RoundInv, Shapes

LEMMA SendStep ==
    ASSUME RoundInv, NEW t \in Frames, Send(t)
    PROVE  RoundInv'
<1>1. t \in FrameTypes
  BY ResponseAssumption
<1>2. /\ stream' = Append(stream, t) /\ stream' \in Seq(FrameTypes)
      /\ Len(stream) \in Nat /\ Len(stream') = Len(stream) + 1
      /\ stream'[Len(stream) + 1] = t
      /\ \A i \in 1..Len(stream) : stream'[i] = stream[i]
  BY <1>1 DEF Send, RoundInv, Shapes
<1>3. UNCHANGED <<round, pc, buf, cur, chunk, taken>>
  BY DEF Send
<1>4. \A s : Ends(s)' <=> Ends(s)
  BY <1>3 DEF Ends
<1>5. MaySend(phase, t) /\ phase' = PhaseAfter(phase, t)
  BY DEF Send
<1>6. Shapes'
  BY <1>2, <1>3 DEF Send, RoundInv, Shapes
<1>7. Accounts'
  <2>1. Len(stream) * Size <= Len(stream') * Size
    BY <1>2, Times
  <2>2. Len(stream) * Size \in Nat /\ Len(stream') * Size \in Nat
    BY <1>2, Times
  <2> QED BY <1>2, <1>3, <2>1, <2>2 DEF RoundInv, Shapes, Accounts
<1>8. CASE ended = 0 /\ Ends(t)
  <2>1. ended' = Len(stream) + 1
    BY <1>5, <1>8, EndsAgree DEF Send, RoundInv, Shapes, EndKnown
  <2>2. EndKnown'
    <3>1. Ends(stream[ended])'
      BY <1>2, <1>4, <1>8, <2>1
    <3>2. \A i \in 1..Len(stream') : i < ended' => ~Ends(stream[i])'
      BY <1>2, <1>4, <1>8, <2>1 DEF RoundInv, EndKnown
    <3> QED BY <1>2, <2>1, <3>1, <3>2 DEF EndKnown
  <2>3. cur < ended'
    <3>1. cur * Size <= Len(stream) * Size
      <4>1. cur * Size \in Nat /\ Len(stream) * Size \in Nat
        BY <1>2, Times DEF RoundInv, Shapes
      <4> QED BY <4>1 DEF RoundInv, Shapes, Accounts
    <3>2. cur <= Len(stream)
      BY <1>2, <3>1, Times DEF RoundInv, Shapes
    <3> QED BY <1>2, <2>1, <3>2 DEF RoundInv, Shapes
  <2>4. NotPassed'
    BY <1>3, <1>8, <2>3 DEF RoundInv, NotPassed
  <2> QED BY <1>6, <1>7, <2>2, <2>4 DEF RoundInv
<1>9. CASE ended = 0 /\ ~Ends(t)
  <2>1. ended' = 0 /\ PhaseAfter(phase, t) \in OpenPhases[round]
    BY <1>5, <1>9, EndsAgree DEF Send, RoundInv, Shapes, EndKnown
  <2>2. \A i \in 1..Len(stream') : ~Ends(stream[i])'
    BY <1>2, <1>4, <1>9 DEF RoundInv, EndKnown
  <2>3. EndKnown'
    BY <1>3, <1>5, <2>1, <2>2 DEF EndKnown
  <2>4. NotPassed'
    BY <1>3, <1>9, <2>1 DEF RoundInv, NotPassed
  <2> QED BY <1>6, <1>7, <2>3, <2>4 DEF RoundInv
<1>10. CASE ended # 0
  <2>1. ended' = ended /\ ended > 0
    BY <1>10 DEF Send, RoundInv, Shapes
  <2>2. Ends(stream[ended])'
    BY <1>2, <1>4, <2>1 DEF RoundInv, Shapes, EndKnown
  <2>3. \A i \in 1..Len(stream') : i < ended' => ~Ends(stream[i])'
    BY <1>2, <1>4, <2>1 DEF RoundInv, Shapes, EndKnown
  <2>4. EndKnown'
    BY <1>2, <2>1, <2>2, <2>3 DEF RoundInv, Shapes, EndKnown
  <2>5. NotPassed'
    BY <1>3, <2>1 DEF RoundInv, NotPassed
  <2> QED BY <1>6, <1>7, <2>4, <2>5 DEF RoundInv
<1>11. ended \in Nat
  BY DEF RoundInv, Shapes
<1> QED BY <1>8, <1>9, <1>10, <1>11

LEMMA ArriveStep ==
    ASSUME RoundInv, NEW n \in 1..Len(stream) * Size, Arrive(n)
    PROVE  RoundInv'
<1>1. Len(stream) \in Nat /\ Len(stream) * Size \in Nat /\ cur * Size \in Nat
  <2>1. Len(stream) \in Nat /\ cur \in Nat
    BY DEF RoundInv, Shapes
  <2> QED BY <2>1, Times
<1>2. n \in Nat
  BY <1>1
<1>3. /\ pc = "read" /\ pc' = "loop" /\ chunk' = n /\ buf' = buf + n
      /\ taken + n <= Len(stream) * Size
      /\ UNCHANGED <<round, stream, phase, ended, cur, taken>>
  BY DEF Arrive
<1>4. Shapes'
  BY <1>2, <1>3 DEF RoundInv, Shapes
<1>5. Accounts'
  BY <1>1, <1>2, <1>3 DEF RoundInv, Shapes, Accounts
<1>6. EndKnown'
  BY <1>3 DEF RoundInv, EndKnown, Ends
<1>7. NotPassed'
  BY <1>3 DEF RoundInv, NotPassed
<1> QED BY <1>4, <1>5, <1>6, <1>7 DEF RoundInv

LEMMA TakeStep ==
    ASSUME RoundInv, TakeFrame
    PROVE  RoundInv'
<1>1. /\ pc = "loop" /\ LoopGoesOn /\ cur' = cur + 1
      /\ UNCHANGED <<round, stream, phase, ended, chunk>>
  BY DEF TakeFrame
<1>2. cur + 1 \in 1..Len(stream) /\ (cur + 1) * Size <= buf
  BY <1>1, LoopInStream
<1>3. Len(stream) \in Nat /\ (cur + 1) * Size \in Nat /\ Len(stream) * Size \in Nat
  <2>1. Len(stream) \in Nat /\ cur + 1 \in Nat
    BY DEF RoundInv, Shapes
  <2> QED BY <2>1, Times
<1>4. EndKnown'
  BY <1>1 DEF RoundInv, EndKnown, Ends
<1>5. CASE Ends(stream[cur + 1])
  <2>1. /\ pc' = "done" /\ buf' = (cur + 1) * Size
        /\ taken' = taken + chunk - (buf - (cur + 1) * Size)
    BY <1>5 DEF TakeFrame, Kept
  <2>2. taken' = (cur + 1) * Size
    BY <1>1, <1>3, <2>1 DEF RoundInv, Shapes, Accounts
  <2>3. Shapes'
    BY <1>1, <1>3, <2>1, <2>2 DEF RoundInv, Shapes
  <2>4. (cur + 1) * Size <= Len(stream) * Size
    BY <1>2, <1>3 DEF RoundInv, Shapes, Accounts
  <2>5. Accounts'
    BY <1>1, <1>3, <2>1, <2>2, <2>4 DEF Accounts
  <2>6. ended > 0 /\ cur + 1 = ended
    <3>1. ended # 0 /\ ~(cur + 1 < ended)
      BY <1>2, <1>5 DEF RoundInv, EndKnown
    <3>2. cur < ended
      BY <1>1, <3>1 DEF RoundInv, NotPassed
    <3> QED BY <3>1, <3>2 DEF RoundInv, Shapes
  <2>7. NotPassed'
    BY <1>1, <2>1, <2>6 DEF NotPassed
  <2> QED BY <1>4, <2>3, <2>5, <2>7 DEF RoundInv
<1>6. CASE ~Ends(stream[cur + 1])
  <2>1. UNCHANGED <<pc, buf, taken>>
    BY <1>6 DEF TakeFrame
  <2>2. Shapes'
    BY <1>1, <2>1 DEF RoundInv, Shapes
  <2>3. Accounts'
    BY <1>1, <1>2, <1>3, <2>1 DEF RoundInv, Accounts
  <2>4. ended = 0 \/ cur + 1 < ended
    <3>1. ended = 0 \/ cur < ended
      BY <1>1 DEF RoundInv, NotPassed
    <3>2. ended > 0 => cur + 1 # ended
      BY <1>6 DEF RoundInv, EndKnown
    <3> QED BY <3>1, <3>2 DEF RoundInv, Shapes
  <2>5. NotPassed'
    BY <1>1, <2>1, <2>4 DEF NotPassed
  <2> QED BY <1>4, <2>2, <2>3, <2>5 DEF RoundInv
<1> QED BY <1>5, <1>6

LEMMA ReturnStep ==
    ASSUME RoundInv, ReturnMore
    PROVE  RoundInv'
<1>1. /\ pc = "loop" /\ pc' = "read" /\ taken' = taken + chunk
      /\ UNCHANGED <<round, stream, phase, ended, buf, cur, chunk>>
  BY DEF ReturnMore
<1>2. Shapes'
  BY <1>1 DEF RoundInv, Shapes
<1>3. Accounts'
  BY <1>1 DEF RoundInv, Accounts
<1>4. EndKnown'
  BY <1>1 DEF RoundInv, EndKnown, Ends
<1>5. NotPassed'
  BY <1>1 DEF RoundInv, NotPassed
<1> QED BY <1>2, <1>3, <1>4, <1>5 DEF RoundInv

\* The invariant of append(): the bytes are accounted for, and the end of the round
\* is the first message that ends it and has not been passed.
THEOREM RoundInvariant == Spec => []RoundInv
<1>1. Init => RoundInv
  BY RoundInit
<1>2. RoundInv /\ [Next]_vars => RoundInv'
  <2> SUFFICES ASSUME RoundInv, [Next]_vars PROVE RoundInv'
    OBVIOUS
  <2>1. CASE \E t \in Frames : Send(t)
    BY <2>1, SendStep
  <2>2. CASE \E n \in 1..Len(stream) * Size : Arrive(n)
    BY <2>2, ArriveStep
  <2>3. CASE TakeFrame
    BY <2>3, TakeStep
  <2>4. CASE ReturnMore
    BY <2>4, ReturnStep
  <2>5. CASE UNCHANGED vars
    BY <2>5 DEF vars, RoundInv, Shapes, Accounts, EndKnown, NotPassed, Ends
  <2> QED BY <2>1, <2>2, <2>3, <2>4, <2>5 DEF Next
<1> QED BY <1>1, <1>2, PTL DEF Spec

\* append() returns 1 exactly at the message with which the backend ends the round,
\* for any cutting into chunks (PostgresResponse.cc:104-185).
THEOREM StopsWithBackendHolds == Spec => []StopsWithBackend
<1>1. RoundInv => StopsWithBackend
  BY DEF RoundInv, NotPassed, StopsWithBackend
<1> QED BY <1>1, RoundInvariant, PTL

\* No byte is lost, taken twice or kept past the end of the round.
THEOREM BytesAccountedHolds == Spec => []BytesAccounted
<1>1. RoundInv => BytesAccounted
  BY DEF RoundInv, Accounts, BytesAccounted
<1> QED BY <1>1, RoundInvariant, PTL

---------------------------------------------------------------------------
\* What RoundInv leaves of TypeOK.
Ranges ==
    /\ round \in Rounds /\ Len(stream) <= MaxFrames /\ phase \in Phases
    /\ isError \in BOOLEAN /\ ready \in BOOLEAN /\ copyIn \in BOOLEAN
    /\ answered \in Nat /\ answered <= cur
    /\ chunk <= Len(stream) * Size

LEMMA RangesInit == Init => Ranges
<1> SUFFICES ASSUME Init PROVE Ranges
  OBVIOUS
<1>1. round \in {"startup", "query", "wait"}
  BY ResponseAssumption DEF Init
<1>2. phase \in Phases
  BY <1>1 DEF Init, FirstPhase, Phases, Flow
<1>3. Len(stream) = 0
  BY DEF Init
<1>4. Len(stream) <= MaxFrames /\ chunk <= Len(stream) * Size
  BY <1>3, ResponseAssumption DEF Init
<1>5. answered \in Nat /\ answered <= cur
  BY DEF Init
<1>6. isError \in BOOLEAN /\ ready \in BOOLEAN /\ copyIn \in BOOLEAN /\ round \in Rounds
  BY DEF Init
<1> QED BY <1>2, <1>4, <1>5, <1>6 DEF Ranges

LEMMA RangesStep ==
    ASSUME RoundInv, Ranges, [Next]_vars
    PROVE  Ranges'
<1>0. Len(stream) \in Nat /\ Len(stream) * Size \in Nat
  <2>1. Len(stream) \in Nat
    BY DEF RoundInv, Shapes
  <2> QED BY <2>1, Times
<1>1. ASSUME NEW t \in Frames, Send(t)
      PROVE  Ranges'
  <2>1. t \in FrameTypes
    BY ResponseAssumption
  <2>2. Len(stream') = Len(stream) + 1
    BY <1>1, <2>1 DEF Send, RoundInv, Shapes
  <2>3. Len(stream) < MaxFrames /\ UNCHANGED <<round, cur, chunk, flags>>
    BY <1>1 DEF Send
  <2>4. phase' \in Phases
    BY <1>1, PhasesClosed DEF Send, Ranges
  <2>5. Len(stream) * Size <= Len(stream') * Size /\ Len(stream') * Size \in Nat
    BY <1>0, <2>2, Times
  <2>6. Len(stream') <= MaxFrames
    BY <1>0, <2>2, <2>3, ResponseAssumption
  <2>7. chunk' <= Len(stream') * Size
    BY <1>0, <2>3, <2>5 DEF Ranges, RoundInv, Shapes
  <2>8. round' \in Rounds /\ isError' \in BOOLEAN /\ ready' \in BOOLEAN /\ copyIn' \in BOOLEAN
    BY <2>3 DEF Ranges, flags
  <2>9. answered' \in Nat /\ answered' <= cur'
    BY <2>3 DEF Ranges, flags
  <2> QED BY <2>4, <2>6, <2>7, <2>8, <2>9 DEF Ranges
<1>2. ASSUME NEW n \in 1..Len(stream) * Size, Arrive(n)
      PROVE  Ranges'
  <2>1. chunk' = n /\ UNCHANGED <<round, stream, phase, cur, flags>>
    BY <1>2 DEF Arrive
  <2> QED BY <1>0, <1>2, <2>1 DEF Ranges, flags
<1>3. ASSUME TakeFrame
      PROVE  Ranges'
  <2>1. cur' = cur + 1 /\ UNCHANGED <<round, stream, phase, chunk>>
    BY <1>3 DEF TakeFrame
  <2>2. isError' \in BOOLEAN /\ ready' \in BOOLEAN /\ copyIn' \in BOOLEAN
    BY <1>3 DEF TakeFrame
  <2>3. answered' = answered \/ answered' = answered + 1
    BY <1>3 DEF TakeFrame
  <2>4. answered' \in Nat /\ answered' <= cur'
    BY <2>1, <2>3 DEF Ranges, RoundInv, Shapes
  <2> QED BY <2>1, <2>2, <2>4 DEF Ranges
<1>4. ASSUME ReturnMore
      PROVE  Ranges'
  <2>1. UNCHANGED <<round, stream, phase, cur, chunk, flags>>
    BY <1>4 DEF ReturnMore
  <2> QED BY <2>1 DEF Ranges, flags
<1>5. CASE UNCHANGED vars
  BY <1>5 DEF vars, flags, Ranges
<1> QED BY <1>1, <1>2, <1>3, <1>4, <1>5 DEF Next

\* Every variable keeps its type; no count passes what has been sent.
THEOREM ResponseTypeCorrect == Spec => []TypeOK
<1>1. RoundInv /\ Ranges => TypeOK
  <2> SUFFICES ASSUME RoundInv, Ranges PROVE TypeOK
    OBVIOUS
  <2>1. /\ Len(stream) \in Nat /\ Len(stream) * Size \in Nat
        /\ cur * Size \in Nat /\ cur <= Len(stream)
    <3>1. Len(stream) \in Nat /\ cur \in Nat
      BY DEF RoundInv, Shapes
    <3>2. Len(stream) * Size \in Nat /\ cur * Size \in Nat
      BY <3>1, Times
    <3>3. cur * Size <= Len(stream) * Size
      BY <3>2 DEF RoundInv, Shapes, Accounts
    <3> QED BY <3>1, <3>2, <3>3, Times
  <2>2. round \in Rounds /\ stream \in Seq(FrameTypes) /\ Len(stream) <= MaxFrames
    BY DEF RoundInv, Shapes, Ranges
  <2>3. phase \in Phases /\ ended \in 0..Len(stream) /\ pc \in {"read", "loop", "done"}
    BY <2>1 DEF RoundInv, Shapes, Ranges, EndKnown
  <2>4. taken <= buf
    BY <2>1 DEF RoundInv, Shapes, Accounts
  <2>5. /\ buf \in 0..Len(stream) * Size /\ cur \in 0..Len(stream)
        /\ chunk \in 0..Len(stream) * Size /\ taken \in 0..Len(stream) * Size
    BY <2>1, <2>4 DEF RoundInv, Shapes, Accounts, Ranges
  <2>6. answered \in 0..Len(stream)
    BY <2>1 DEF RoundInv, Shapes, Ranges
  <2>7. isError \in BOOLEAN /\ ready \in BOOLEAN /\ copyIn \in BOOLEAN
    BY DEF Ranges
  <2> QED BY <2>2, <2>3, <2>5, <2>6, <2>7 DEF TypeOK
<1> QED BY <1>1, RoundInvariant, RangesInit, RangesStep, PTL DEF Spec

---------------------------------------------------------------------------
\* The messages that set is_error_.
Errors == {"E", "Rbad", "X"}

\* The round has ended with a backend that waits, or with an error; the flags are
\* those of the last message taken.
Settling ==
    /\ ended > 0 => phase \in Settled \/ stream[ended] \in Errors
    /\ cur > 0 =>
        /\ stream[cur] \in Errors => isError
        /\ ready <=> stream[cur] = "Z"
        /\ copyIn <=> stream[cur] = "G"

\* A round ends with a backend that waits, or with an error.
LEMMA EndSettles ==
    ASSUME round \in {"startup", "query", "wait"}, phase \in OpenPhases[round],
           NEW t, MaySend(phase, t), Ends(t)
    PROVE  PhaseAfter(phase, t) \in Settled \/ t \in Errors
<1> USE DEF OpenPhases, MaySend, PhaseAfter, Ends, Settled, Errors
<1>1. CASE round = "startup"
  BY <1>1 DEF Flow
<1>2. CASE round = "query"
  BY <1>2 DEF Flow
<1>3. CASE round = "wait"
  BY <1>3 DEF Flow
<1> QED BY <1>1, <1>2, <1>3

LEMMA SettlingStep ==
    ASSUME RoundInv, Settling, [Next]_vars
    PROVE  Settling'
<1>0. Len(stream) \in Nat /\ cur \in Nat /\ cur <= Len(stream)
  <2>1. Len(stream) \in Nat /\ cur \in Nat
    BY DEF RoundInv, Shapes
  <2>2. Len(stream) * Size \in Nat /\ cur * Size \in Nat
    BY <2>1, Times
  <2>3. cur * Size <= Len(stream) * Size
    BY <2>2 DEF RoundInv, Shapes, Accounts
  <2> QED BY <2>1, <2>3, Times
<1>1. ASSUME NEW t \in Frames, Send(t)
      PROVE  Settling'
  <2>1. t \in FrameTypes
    BY ResponseAssumption
  <2>2. /\ stream' = Append(stream, t) /\ stream'[Len(stream) + 1] = t
        /\ \A i \in 1..Len(stream) : stream'[i] = stream[i]
    BY <1>1, <2>1 DEF Send, RoundInv, Shapes
  <2>3. UNCHANGED <<cur, flags>> /\ MaySend(phase, t) /\ phase' = PhaseAfter(phase, t)
    BY <1>1 DEF Send
  <2>4. cur > 0 => stream'[cur] = stream[cur]
    BY <1>0, <2>2
  <2>5. ended' > 0 => phase' \in Settled \/ stream'[ended'] \in Errors
    <3>1. CASE ended = 0 /\ EndsForBackend(t)
      <4>1. phase \in OpenPhases[round]
        BY <3>1 DEF RoundInv, EndKnown
      <4>2. Ends(t)
        BY <2>3, <3>1, <4>1, EndsAgree DEF RoundInv, Shapes
      <4>3. phase' \in Settled \/ t \in Errors
        BY <2>3, <4>1, <4>2, EndSettles DEF RoundInv, Shapes
      <4>4. ended' = Len(stream) + 1
        BY <1>1, <3>1 DEF Send
      <4> QED BY <2>2, <4>3, <4>4
    <3>2. CASE ended = 0 /\ ~EndsForBackend(t)
      BY <1>1, <3>2 DEF Send
    <3>3. CASE ended # 0
      <4>1. ended' = ended /\ ended \in 1..Len(stream)
        BY <1>0, <1>1, <3>3 DEF Send, RoundInv, Shapes, EndKnown
      <4>2. stream'[ended'] = stream[ended] /\ ended > 0
        BY <2>2, <4>1
      <4> QED BY <2>3, <4>2, SettledClosed DEF Settling
    <3> QED BY <3>1, <3>2, <3>3
  <2> QED BY <2>3, <2>4, <2>5 DEF Settling, flags
<1>2. ASSUME NEW n \in 1..Len(stream) * Size, Arrive(n)
      PROVE  Settling'
  BY <1>2 DEF Arrive, Settling, flags
<1>3. ASSUME TakeFrame
      PROVE  Settling'
  <2>1. cur' = cur + 1 /\ UNCHANGED <<stream, phase, ended>>
    BY <1>3 DEF TakeFrame
  <2>2. /\ isError' <=> (isError \/ stream[cur + 1] \in Errors)
        /\ ready' <=> stream[cur + 1] = "Z"
        /\ copyIn' <=> stream[cur + 1] = "G"
    BY <1>3 DEF TakeFrame, Errors
  <2> QED BY <2>1, <2>2 DEF Settling
<1>4. ASSUME ReturnMore
      PROVE  Settling'
  BY <1>4 DEF ReturnMore, Settling, flags
<1>5. CASE UNCHANGED vars
  BY <1>5 DEF vars, flags, Settling
<1> QED BY <1>1, <1>2, <1>3, <1>4, <1>5 DEF Next

\* A round without an error has ended with a backend that waits, and the response
\* says for what (is_ready_for_query, is_copy_in).
THEOREM SuccessIsSettledHolds == Spec => []SuccessIsSettled
<1>1. Init => Settling
  BY DEF Init, Settling
<1>2. RoundInv /\ Settling => SuccessIsSettled
  BY DEF RoundInv, Shapes, NotPassed, Settling, SuccessIsSettled
<1> QED BY <1>1, <1>2, RoundInvariant, SettlingStep, PTL DEF Spec
=============================================================================
