---------------------------- MODULE PgAuthProofs ----------------------------
(***************************************************************************)
(* Proofs about PgAuth, for any set of passwords and methods and any       *)
(* number of attempts.                                                     *)
(***************************************************************************)
EXTENDS PgAuth, SequenceTheorems, TLAPS

---------------------------------------------------------------------------
\* The inductive invariant, in named parts.

OkMsg == Msg("ok", Nothing)
ReadyMsg == Msg("ready", Nothing)
MechLists == {{}, {"SCRAM-SHA-256"}, {"SCRAM-SHA-256", "SCRAM-SHA-256-PLUS"}}

\* What is on the wire: messages for the client, an answer for the backend, or nothing.
Down(messages) == down = messages /\ up = << >>
Up(m) == down = << >> /\ up = <<m>>

\* The nonces are numbered as they are made, and ScramAuth has the last one.
Counts ==
    /\ pc \in {"idle", "reading", "done", "error", "failed"}
    /\ attempt \in 0..MaxAttempts /\ pass \in Passwords /\ stored \in Passwords
    /\ unsupported \in BOOLEAN /\ broken \in BOOLEAN /\ method \in Methods \cup {"none"}
    /\ used \in Seq(1..MaxAttempts) /\ Len(used) <= attempt
    /\ \A i \in 1..Len(used) : used[i] = i
    /\ scram = [made |-> scram.made, nonce |-> scram.nonce, salted |-> scram.salted,
                authMessage |-> scram.authMessage]
    /\ scram.made \in BOOLEAN /\ scram.nonce = Len(used)

\* The client has sent its proof and waits for this signature.
Signed(signature) ==
    /\ scram.made /\ scram.salted # Nothing /\ scram.authMessage # Nothing
    /\ broken <=> signature = Nothing
    /\ pass = stored /\ ~broken => signature = Mac(ServerKey(scram.salted), scram.authMessage)

\* The answer the client has sent is the one it has computed from the first message.
ProofSent ==
    LET first == exchange.serverFirst
        salted == Salted(pass, <<first.salt, first.iterations>>)
        text == AuthMessage(exchange.clientNonce, first, first.nonce)
    IN /\ Up(Msg("last", [nonce |-> first.nonce, proof |-> Proof(salted, text)]))
       /\ first.nonce # Nothing /\ first.nonce[1] = scram.nonce
       /\ scram.salted = salted /\ scram.authMessage = text

\* An exchange of SCRAM is under way.
Exchanging == scram.made /\ scram.nonce \in Nat \ {0} /\ exchange.clientNonce = scram.nonce

\* Up to the backend's request, and with a request for a password.
Requests ==
    /\ phase = "start" => Down(<< >>) /\ ~broken /\ Len(used) < attempt
    /\ phase = "password" =>
          ~broken /\ (Down(<<Msg("password", Nothing)>>) \/ Up(Msg("password", pass)))
    /\ phase = "md5" =>
          ~broken /\ (Down(<<Msg("md5", attempt)>>) \/ Up(Msg("md5", Md5(pass, attempt))))
    /\ phase = "gss" => ~broken /\ Down(<<Msg("gss", Nothing)>>)

\* The messages of SCRAM before the proof.
Firsts ==
    /\ phase = "first" =>
          /\ method = "scram"
          /\ \/ /\ Up(Msg("first", scram.nonce)) /\ ~broken
                /\ scram.made /\ scram.nonce \in Nat \ {0}
             \/ /\ Down(<<Msg("sasl", Data)>>) /\ Data \in MechLists
                /\ broken = (Data = {}) /\ Len(used) < attempt
    /\ phase = "last" =>
          /\ Exchanging
          /\ \/ /\ Down(<<Msg("continue", exchange.serverFirst)>>)
                /\ exchange.serverFirst
                      \in GoodFirsts(scram.nonce) \cup BrokenFirsts(scram.nonce)
                /\ broken = (exchange.serverFirst \in BrokenFirsts(scram.nonce))
             \/ ProofSent /\ ~broken

\* The messages that end the handshake; a broken one among them is still unread.
Lasts ==
    /\ phase = "ok" =>
          \/ (Down(<<OkMsg>>) \/ Down(<< >>)) /\ ~broken
          \/ Down(<<Msg("final", Data), OkMsg>>) /\ Signed(Data)
    /\ phase = "ready" =>
          \/ (Down(<<OkMsg, ReadyMsg>>) \/ Down(<<ReadyMsg>>)) /\ ~broken
          \/ Down(<<Msg("final", Data), OkMsg, ReadyMsg>>) /\ Signed(Data)
    /\ phase = "refused" =>
          Down(<<Msg("error", Nothing)>>) /\ ~broken /\ pass # stored

\* While the client reads.
Reading ==
    pc = "reading" =>
        /\ phase \in {"start", "password", "md5", "gss", "first", "last", "ok", "ready", "refused"}
        /\ Requests /\ Firsts /\ Lasts

\* Why the round failed.
Cause ==
    pass = stored /\ ~broken =>
        phase # "refused" /\ (unsupported \/ (method = "scram" /\ phase = "first"))

\* Between attempts, and after the last.
NotReading ==
    pc # "reading" =>
        /\ up = << >>
        /\ down \in {<< >>, <<OkMsg>>, <<OkMsg, ReadyMsg>>}
        /\ phase \in {"none", "gss", "first", "last", "ok", "ready", "refused"}
        /\ pc \in {"idle", "failed"} => down = << >> /\ phase = "none"
        /\ pc = "done" => ~broken /\ phase = "ready"
        /\ pc = "error" => Cause

AuthInv == Counts /\ Reading /\ NotReading

\* The invariant implies the properties.
LEMMA InvImplies ==
    ASSUME AuthInv
    PROVE  TypeOK /\ AgreedIsAccepted /\ BrokenNeverSucceeds /\ InStep
<1>1. AgreedIsAccepted
  <2>1. CASE pc = "reading"
    BY <2>1 DEF AuthInv, Reading, Lasts, AgreedIsAccepted
  <2>2. CASE pc # "reading"
    <3>1. phase = "refused" => pc = "error"
      BY <2>2 DEF AuthInv, Counts, NotReading
    <3> QED BY <2>2, <3>1 DEF AuthInv, NotReading, Cause, AgreedIsAccepted
  <2> QED BY <2>1, <2>2
<1>2. BrokenNeverSucceeds
  BY DEF AuthInv, NotReading, BrokenNeverSucceeds
<1>3. up # << >> => pc = "reading"
  BY DEF AuthInv, NotReading
<1>4. ASSUME up # << >>
      PROVE  /\ down = << >> /\ \E m : up = <<m>> /\ phase = m.type
             /\ phase \in {"password", "md5", "first", "last"}
             /\ phase = "last" => ProofSent
  BY <1>3, <1>4 DEF AuthInv, Reading, Requests, Firsts, Lasts, ProofSent, Down, Up, Msg
<1>5. InStep
  <2>1. \A i, j \in 1..Len(used) : i # j => used[i] # used[j]
    BY DEF AuthInv, Counts
  <2>2. ASSUME up # << >>
        PROVE  /\ phase = Head(up).type /\ down = << >>
               /\ phase = "last" => Head(up).data.nonce # Nothing
                                    /\ Head(up).data.nonce[1] = used[Len(used)]
    <3>1. phase = Head(up).type /\ down = << >>
      BY <1>4, <2>2
    <3>2. ASSUME phase = "last"
          PROVE  Head(up).data.nonce # Nothing /\ Head(up).data.nonce[1] = used[Len(used)]
      <4>1. /\ exchange.serverFirst.nonce # Nothing
            /\ exchange.serverFirst.nonce[1] = scram.nonce
            /\ Head(up).data.nonce = exchange.serverFirst.nonce
        BY <1>4, <2>2, <3>2 DEF ProofSent, Up, Msg
      <4>2. Len(used) \in 1..Len(used) /\ scram.nonce = Len(used)
        BY <1>3, <2>2, <3>2 DEF AuthInv, Reading, Firsts, Exchanging, Counts
      <4>3. used[Len(used)] = Len(used)
        BY <4>2 DEF AuthInv, Counts
      <4> QED BY <4>1, <4>2, <4>3
    <3> QED BY <3>1, <3>2
  <2> QED BY <2>1, <2>2 DEF InStep
<1>6. TypeOK
  <2>1. /\ pc \in {"idle", "reading", "done", "error", "failed"}
        /\ attempt \in 0..MaxAttempts /\ pass \in Passwords /\ stored \in Passwords
        /\ scram.made \in BOOLEAN /\ unsupported \in BOOLEAN /\ used \in Seq(1..MaxAttempts)
        /\ method \in Methods \cup {"none"} /\ broken \in BOOLEAN
    BY DEF AuthInv, Counts
  <2>2. scram.nonce \in 0..MaxAttempts
    BY AuthAssumption DEF AuthInv, Counts
  <2>3. phase \in {"none", "start", "password", "md5", "first", "last", "gss",
                   "ok", "ready", "refused"}
    BY DEF AuthInv, Reading, NotReading
  <2>4. /\ Len(up) <= 1
        /\ \A i \in 1..Len(up) : up[i].type \in {"password", "md5", "first", "last"}
    BY <1>4
  <2>5. \A i \in 1..Len(down) : down[i].type \in Asks \cup {"error", "ready"}
    <3>1. CASE down = << >>
      BY <3>1
    <3>2. CASE \E m : down = <<m>> /\ m.type \in Asks \cup {"error", "ready"}
      BY <3>2
    <3>3. CASE \E m, n : /\ down = <<m, n>> /\ m.type \in Asks \cup {"error", "ready"}
                         /\ n.type \in Asks \cup {"error", "ready"}
      BY <3>3
    <3>4. CASE \E m, n, k : /\ down = <<m, n, k>> /\ m.type \in Asks \cup {"error", "ready"}
                            /\ n.type \in Asks \cup {"error", "ready"}
                            /\ k.type \in Asks \cup {"error", "ready"}
      BY <3>4
    <3>5. CASE pc # "reading"
      <4>1. down = << >> \/ down = <<OkMsg>> \/ down = <<OkMsg, ReadyMsg>>
        BY <3>5 DEF AuthInv, NotReading
      <4>2. OkMsg.type = "ok" /\ ReadyMsg.type = "ready"
        BY DEF OkMsg, ReadyMsg, Msg
      <4> QED BY <3>1, <3>2, <3>3, <4>1, <4>2 DEF Asks
    <3>6. CASE pc = "reading"
      <4>1. \A type, data : Msg(type, data).type = type
        BY DEF Msg
      <4>2. OkMsg.type = "ok" /\ ReadyMsg.type = "ready"
        BY DEF OkMsg, ReadyMsg, Msg
      <4>3. CASE phase \in {"start", "password", "md5", "gss"}
        BY <3>1, <3>2, <3>6, <4>1, <4>3 DEF AuthInv, Reading, Requests, Down, Up, Asks
      <4>4. CASE phase \in {"first", "last"}
        BY <3>1, <3>2, <3>6, <4>1, <4>4 DEF AuthInv, Reading, Firsts, ProofSent, Down, Up, Asks
      <4>5. CASE phase \in {"ok", "ready", "refused"}
        <5>1. \/ down = << >>
              \/ down = <<OkMsg>> \/ down = <<ReadyMsg>> \/ down = <<Msg("error", Nothing)>>
              \/ down = <<OkMsg, ReadyMsg>> \/ down = <<Msg("final", Data), OkMsg>>
              \/ down = <<Msg("final", Data), OkMsg, ReadyMsg>>
          BY <3>6, <4>5 DEF AuthInv, Reading, Lasts, Down
        <5> QED BY <3>1, <3>2, <3>3, <3>4, <4>1, <4>2, <5>1 DEF Asks
      <4> QED BY <3>6, <4>3, <4>4, <4>5 DEF AuthInv, Reading
    <3> QED BY <3>5, <3>6
  <2> QED BY <2>1, <2>2, <2>3, <2>4, <2>5 DEF TypeOK
<1> QED BY <1>1, <1>2, <1>5, <1>6

---------------------------------------------------------------------------
\* Messages one after another.
LEMMA Messages ==
    ASSUME NEW a, NEW b, NEW c
    PROVE  /\ Head(<<a>>) = a /\ Head(<<a, b>>) = a /\ Head(<<a, b, c>>) = a
           /\ Tail(<<a>>) = << >> /\ Tail(<<a, b>>) = <<b>> /\ Tail(<<a, b, c>>) = <<b, c>>
           /\ << >> \o <<a>> = <<a>> /\ << >> \o <<a, b>> = <<a, b>>
           /\ <<a>> \o <<b>> = <<a, b>>
           /\ Append(<< >>, a) = <<a>>
<1> DEFINE S == {a, b, c}
<1>1. /\ <<a>> \in Seq(S) /\ <<b>> \in Seq(S) /\ <<c>> \in Seq(S)
      /\ <<a, b>> \in Seq(S) /\ <<a, b, c>> \in Seq(S)
      /\ Len(<<a>>) = 1 /\ Len(<<b>>) = 1 /\ Len(<<c>>) = 1
      /\ Len(<<a, b>>) = 2 /\ Len(<<a, b, c>>) = 3
  OBVIOUS
<1> HIDE DEF S
<1>2. <<a>> \o <<b>> = <<a, b>>
  <2>1. /\ <<a>> \o <<b>> \in Seq(S) /\ Len(<<a>> \o <<b>>) = 2
        /\ \A i \in 1..2 : (<<a>> \o <<b>>)[i] = IF i <= 1 THEN <<a>>[i] ELSE <<b>>[i - 1]
    BY <1>1, ConcatProperties
  <2>2. (<<a>> \o <<b>>)[1] = a /\ (<<a>> \o <<b>>)[2] = b
    BY <2>1
  <2>3. \A i \in 1..2 : (<<a>> \o <<b>>)[i] = <<a, b>>[i]
    BY <2>2
  <2> QED BY <1>1, <2>1, <2>3, SeqEqual
<1>3. Head(<<a>>) = a /\ Head(<<a, b>>) = a /\ Head(<<a, b, c>>) = a
  OBVIOUS
<1>4. Tail(<<a>>) = << >>
  OBVIOUS
<1>5. Tail(<<a, b>>) = <<b>>
  OBVIOUS
<1>6. Tail(<<a, b, c>>) = <<b, c>>
  OBVIOUS
<1>7. << >> \o <<a>> = <<a>>
  OBVIOUS
<1>8. << >> \o <<a, b>> = <<a, b>>
  OBVIOUS
<1>9. Append(<< >>, a) = <<a>>
  OBVIOUS
<1> QED BY <1>2, <1>3, <1>4, <1>5, <1>6, <1>7, <1>8, <1>9

LEMMA TwoMessages == \A a, b, c : <<a, b>> \o <<c>> = <<a, b, c>>
<1> TAKE a, b, c
<1> DEFINE S == {a, b, c}
<1>1. /\ <<a, b>> \in Seq(S) /\ <<c>> \in Seq(S) /\ <<a, b, c>> \in Seq(S)
      /\ Len(<<a, b>>) = 2 /\ Len(<<c>>) = 1 /\ Len(<<a, b, c>>) = 3
  OBVIOUS
<1> HIDE DEF S
<1>2. /\ <<a, b>> \o <<c>> \in Seq(S) /\ Len(<<a, b>> \o <<c>>) = 3
      /\ \A i \in 1..3 : (<<a, b>> \o <<c>>)[i] = IF i <= 2 THEN <<a, b>>[i] ELSE <<c>>[i - 2]
  BY <1>1, ConcatProperties
<1>3. /\ (<<a, b>> \o <<c>>)[1] = a /\ (<<a, b>> \o <<c>>)[2] = b
      /\ (<<a, b>> \o <<c>>)[3] = c
  BY <1>2
<1>4. \A i \in 1..3 : (<<a, b>> \o <<c>>)[i] = <<a, b, c>>[i]
  BY <1>3
<1> QED BY <1>1, <1>2, <1>4, SeqEqual

LEMMA MessageFields ==
    /\ \A type, data : Msg(type, data).type = type /\ Msg(type, data).data = data
    /\ OkMsg.type = "ok" /\ ReadyMsg.type = "ready"
  BY DEF Msg, OkMsg, ReadyMsg

\* What the client can find next, by what the backend has sent.
LEMMA Taken ==
    ASSUME AuthInv, NEW type, Takes(type)
    PROVE  /\ pc = "reading" /\ up = << >>
           /\ \/ phase = "password" /\ type = "password" /\ ~broken /\ down' = << >>
              \/ phase = "md5" /\ type = "md5" /\ ~broken /\ down' = << >> /\ Data = attempt
              \/ phase = "gss" /\ type = "gss" /\ ~broken /\ down' = << >>
              \/ /\ phase = "first" /\ type = "sasl" /\ down' = << >> /\ method = "scram"
                 /\ Data \in MechLists /\ broken = (Data = {}) /\ Len(used) < attempt
              \/ /\ phase = "last" /\ type = "continue" /\ down' = << >>
                 /\ Data = exchange.serverFirst /\ Exchanging
                 /\ Data \in GoodFirsts(scram.nonce) \cup BrokenFirsts(scram.nonce)
                 /\ broken = (Data \in BrokenFirsts(scram.nonce))
              \/ phase = "ok" /\ type = "ok" /\ ~broken /\ down' = << >>
              \/ phase = "ok" /\ type = "final" /\ Signed(Data) /\ down' = <<OkMsg>>
              \/ phase = "ready" /\ type = "ok" /\ ~broken /\ down' = <<ReadyMsg>>
              \/ phase = "ready" /\ type = "final" /\ Signed(Data) /\ down' = <<OkMsg, ReadyMsg>>
              \/ phase = "ready" /\ type = "ready" /\ ~broken /\ down' = << >>
              \/ phase = "refused" /\ type = "error" /\ ~broken /\ pass # stored /\ down' = << >>
<1>1. pc = "reading" /\ down # << >> /\ Head(down).type = type /\ down' = Tail(down)
  BY DEF Takes
<1>2. CASE phase \in {"start", "password", "md5", "gss"}
  BY <1>1, <1>2, Messages, MessageFields DEF AuthInv, Reading, Requests, Down, Up, Data
<1>3. CASE phase = "first"
  <2>1. /\ down = <<Msg("sasl", Data)>> /\ up = << >> /\ Data \in MechLists
        /\ broken = (Data = {}) /\ Len(used) < attempt /\ method = "scram"
    BY <1>1, <1>3 DEF AuthInv, Reading, Firsts, Down, Up
  <2>2. down' = << >> /\ type = "sasl"
    BY <1>1, <2>1, Messages, MessageFields
  <2> QED BY <1>1, <1>3, <2>1, <2>2
<1>4. CASE phase = "last"
  <2>1. /\ down = <<Msg("continue", exchange.serverFirst)>> /\ up = << >> /\ Exchanging
        /\ exchange.serverFirst \in GoodFirsts(scram.nonce) \cup BrokenFirsts(scram.nonce)
        /\ broken = (exchange.serverFirst \in BrokenFirsts(scram.nonce))
    BY <1>1, <1>4 DEF AuthInv, Reading, Firsts, ProofSent, Down, Up
  <2>2. down' = << >> /\ type = "continue" /\ Data = exchange.serverFirst
    BY <1>1, <2>1, Messages, MessageFields DEF Data
  <2> QED BY <1>1, <1>4, <2>1, <2>2
<1>5. CASE phase = "ok"
  <2>1. /\ up = << >>
        /\ \/ down = <<OkMsg>> /\ ~broken
           \/ down = <<Msg("final", Data), OkMsg>> /\ Signed(Data)
    BY <1>1, <1>5 DEF AuthInv, Reading, Lasts, Down
  <2>2. CASE down = <<OkMsg>> /\ ~broken
    <3>1. down' = << >> /\ type = "ok"
      BY <1>1, <2>2, Messages, MessageFields
    <3> QED BY <1>1, <1>5, <2>1, <2>2, <3>1
  <2>3. CASE down = <<Msg("final", Data), OkMsg>> /\ Signed(Data)
    <3>1. down' = <<OkMsg>> /\ type = "final"
      BY <1>1, <2>3, Messages, MessageFields
    <3> QED BY <1>1, <1>5, <2>1, <2>3, <3>1
  <2> QED BY <2>1, <2>2, <2>3
<1>6. CASE phase = "ready"
  <2>1. /\ up = << >>
        /\ \/ down = <<OkMsg, ReadyMsg>> /\ ~broken
           \/ down = <<ReadyMsg>> /\ ~broken
           \/ down = <<Msg("final", Data), OkMsg, ReadyMsg>> /\ Signed(Data)
    BY <1>1, <1>6 DEF AuthInv, Reading, Lasts, Down
  <2>2. CASE down = <<OkMsg, ReadyMsg>> /\ ~broken
    <3>1. down' = <<ReadyMsg>> /\ type = "ok"
      BY <1>1, <2>2, Messages, MessageFields
    <3> QED BY <1>1, <1>6, <2>1, <2>2, <3>1
  <2>3. CASE down = <<ReadyMsg>> /\ ~broken
    <3>1. down' = << >> /\ type = "ready"
      BY <1>1, <2>3, Messages, MessageFields
    <3> QED BY <1>1, <1>6, <2>1, <2>3, <3>1
  <2>4. CASE down = <<Msg("final", Data), OkMsg, ReadyMsg>> /\ Signed(Data)
    <3>1. down' = <<OkMsg, ReadyMsg>> /\ type = "final"
      BY <1>1, <2>4, Messages, MessageFields
    <3> QED BY <1>1, <1>6, <2>1, <2>4, <3>1
  <2> QED BY <2>1, <2>2, <2>3, <2>4
<1>7. CASE phase = "refused"
  <2>1. down = <<Msg("error", Nothing)>> /\ up = << >> /\ ~broken /\ pass # stored
    BY <1>1, <1>7 DEF AuthInv, Reading, Lasts, Down
  <2>2. down' = << >> /\ type = "error"
    BY <1>1, <2>1, Messages, MessageFields
  <2> QED BY <1>1, <1>7, <2>1, <2>2
<1> QED BY <1>1, <1>2, <1>3, <1>4, <1>5, <1>6, <1>7 DEF AuthInv, Reading

---------------------------------------------------------------------------
\* The steps of the client.

\* The fields of ScramAuth as one of its methods leaves them, without a new nonce.
LEMMA CountsKept ==
    ASSUME AuthInv, UNCHANGED <<attempt, pass, stored, used, method>>,
           pc' \in {"idle", "reading", "done", "error", "failed"},
           unsupported' \in BOOLEAN, broken' \in BOOLEAN,
           scram' = scram \/ \E x, y : scram' = [scram EXCEPT !.salted = x, !.authMessage = y]
                          \/ scram' = [scram EXCEPT !.made = TRUE]
    PROVE  Counts' /\ scram'.nonce = scram.nonce
<1>1. /\ scram = [made |-> scram.made, nonce |-> scram.nonce, salted |-> scram.salted,
                  authMessage |-> scram.authMessage]
      /\ scram.made \in BOOLEAN /\ scram.nonce = Len(used)
  BY DEF AuthInv, Counts
<1>2. /\ scram' = [made |-> scram'.made, nonce |-> scram'.nonce, salted |-> scram'.salted,
                   authMessage |-> scram'.authMessage]
      /\ scram'.made \in BOOLEAN /\ scram'.nonce = scram.nonce
  <2>1. CASE scram' = scram
    BY <1>1, <2>1
  <2>2. CASE scram' = [scram EXCEPT !.made = TRUE]
    BY <1>1, <2>2
  <2>3. ASSUME NEW x, NEW y, scram' = [scram EXCEPT !.salted = x, !.authMessage = y]
        PROVE  /\ scram' = [made |-> scram'.made, nonce |-> scram'.nonce, salted |-> scram'.salted,
                            authMessage |-> scram'.authMessage]
               /\ scram'.made \in BOOLEAN /\ scram'.nonce = scram.nonce
    BY <1>1, <2>3
  <2> QED BY <2>1, <2>2, <2>3
<1> QED BY <1>1, <1>2 DEF AuthInv, Counts

LEMMA FailStep ==
    ASSUME AuthInv, NEW type \in {"sasl", "gss", "continue", "final", "error"},
           Takes(type), Fail, used' = used, unsupported' \in BOOLEAN,
           scram' = scram \/ \E x, y : scram' = [scram EXCEPT !.salted = x, !.authMessage = y]
                          \/ scram' = [scram EXCEPT !.made = TRUE],
           Cause'
    PROVE  AuthInv'
<1>1. pc' = "error" /\ up' = up /\ UNCHANGED <<attempt, pass, stored, method, phase, broken>>
  BY DEF Fail, Takes, backendVars
<1>2. broken' \in BOOLEAN
  BY <1>1 DEF AuthInv, Counts
<1>3. Counts'
  BY <1>1, <1>2, CountsKept
<1>4. /\ up = << >>
      /\ down' = << >> \/ down' = <<OkMsg>> \/ down' = <<OkMsg, ReadyMsg>>
      /\ phase \in {"gss", "first", "last", "ok", "ready", "refused"}
  BY Taken
<1> QED BY <1>1, <1>3, <1>4 DEF AuthInv, Reading, NotReading

\* A password is answered.
LEMMA PasswordStep ==
    ASSUME AuthInv, Cleartext \/ Md5Password
    PROVE  AuthInv'
<1>1. /\ pc' = pc /\ UNCHANGED <<attempt, pass, stored, method, phase, broken>>
      /\ UNCHANGED <<unsupported, scram, used>>
  BY DEF Cleartext, Md5Password, Answer, Takes, backendVars
<1>2. Counts'
  BY <1>1, CountsKept DEF AuthInv, Counts
<1>3. CASE Cleartext
  <2>1. /\ pc = "reading" /\ up = << >> /\ phase = "password" /\ ~broken /\ down' = << >>
        /\ up' = Append(up, Msg("password", pass))
    BY <1>3, Taken DEF Cleartext, Answer
  <2>2. up' = <<Msg("password", pass)>>
    BY <2>1, Messages
  <2> QED BY <1>1, <1>2, <2>1, <2>2
          DEF AuthInv, Reading, NotReading, Requests, Firsts, Lasts, Up
<1>4. CASE Md5Password
  <2>1. /\ pc = "reading" /\ up = << >> /\ phase = "md5" /\ ~broken /\ down' = << >>
        /\ Data = attempt /\ up' = Append(up, Msg("md5", Md5(pass, Data)))
    BY <1>4, Taken DEF Md5Password, Answer
  <2>2. up' = <<Msg("md5", Md5(pass, attempt))>>
    BY <2>1, Messages
  <2> QED BY <1>1, <1>2, <2>1, <2>2
          DEF AuthInv, Reading, NotReading, Requests, Firsts, Lasts, Up, Md5
<1> QED BY <1>3, <1>4

LEMMA OkStep ==
    ASSUME AuthInv, Ok
    PROVE  AuthInv'
<1>1. /\ pc' = pc /\ UNCHANGED <<attempt, pass, stored, method, phase, broken, up>>
      /\ UNCHANGED <<unsupported, scram, used>> /\ Takes("ok")
  BY DEF Ok, Takes, backendVars
<1>2. Counts'
  BY <1>1, CountsKept DEF AuthInv, Counts
<1>3. /\ pc = "reading" /\ up = << >> /\ ~broken
      /\ \/ phase = "ok" /\ down' = << >>
         \/ phase = "ready" /\ down' = <<ReadyMsg>>
  BY <1>1, Taken
<1> QED BY <1>1, <1>2, <1>3 DEF AuthInv, Reading, NotReading, Requests, Firsts, Lasts, Down

LEMMA UnsupportedStep ==
    ASSUME AuthInv, Unsupported
    PROVE  AuthInv'
<1>1. /\ unsupported' = TRUE /\ Fail /\ scram' = scram /\ used' = used
      /\ Takes("sasl") \/ Takes("gss")
  BY DEF Unsupported
<1>2. phase' = phase /\ phase # "refused"
  BY <1>1, Taken DEF Takes, backendVars
<1>3. Cause'
  BY <1>1, <1>2 DEF Cause
<1> QED BY <1>1, <1>3, FailStep

LEMMA SaslStep ==
    ASSUME AuthInv, Sasl
    PROVE  AuthInv'
<1> DEFINE n == Len(used) + 1
<1>1. /\ pc' = pc /\ UNCHANGED <<attempt, pass, stored, method, phase, broken, unsupported>>
      /\ Takes("sasl") /\ "SCRAM-SHA-256" \in Data
      /\ scram' = [scram EXCEPT !.made = TRUE, !.nonce = n]
      /\ used' = Append(used, n) /\ up' = Append(up, Msg("first", n))
  BY DEF Sasl, Answer, Takes, backendVars, ClientNonce
<1>2. /\ pc = "reading" /\ up = << >> /\ phase = "first" /\ down' = << >> /\ method = "scram"
      /\ broken = (Data = {}) /\ Len(used) < attempt
  BY <1>1, Taken
<1>3. /\ Len(used) \in Nat /\ n \in 1..MaxAttempts /\ n <= attempt
      /\ scram = [made |-> scram.made, nonce |-> scram.nonce, salted |-> scram.salted,
                  authMessage |-> scram.authMessage]
  BY <1>2, AuthAssumption DEF AuthInv, Counts
<1>4. /\ used' \in Seq(1..MaxAttempts) /\ Len(used') = n
      /\ \A i \in 1..Len(used') : used'[i] = i
  BY <1>1, <1>3 DEF AuthInv, Counts
<1>5. /\ scram' = [made |-> scram'.made, nonce |-> scram'.nonce, salted |-> scram'.salted,
                   authMessage |-> scram'.authMessage]
      /\ scram'.made = TRUE /\ scram'.nonce = n
  BY <1>1, <1>3
<1>6. up' = <<Msg("first", n)>> /\ ~broken
  BY <1>1, <1>2, Messages
<1> HIDE DEF n
<1>7. Counts'
  BY <1>1, <1>3, <1>4, <1>5 DEF AuthInv, Counts
<1>8. n \in Nat \ {0}
  BY <1>3
<1> QED BY <1>1, <1>2, <1>5, <1>6, <1>7, <1>8
        DEF AuthInv, Reading, NotReading, Requests, Firsts, Lasts, Up, Msg

LEMMA RandomFailsStep ==
    ASSUME AuthInv, RandomFails
    PROVE  AuthInv'
<1>1. /\ Takes("sasl") /\ Fail /\ scram' = [scram EXCEPT !.made = TRUE]
      /\ UNCHANGED <<unsupported, used>>
  BY DEF RandomFails
<1>2. phase' = phase /\ method' = method /\ phase = "first" /\ method = "scram"
  BY <1>1, Taken DEF Takes, backendVars
<1>3. Cause' /\ unsupported' \in BOOLEAN
  BY <1>1, <1>2 DEF Cause, AuthInv, Counts
<1> QED BY <1>1, <1>3, FailStep

\* A first message of the server is taken if and only if it is as it should be.
LEMMA FirstsAccepted ==
    ASSUME NEW first \in GoodFirsts(scram.nonce) \cup BrokenFirsts(scram.nonce),
           scram.nonce \in Nat \ {0}
    PROVE  /\ AcceptsFirst(first) <=> first \notin BrokenFirsts(scram.nonce)
           /\ first = [nonce |-> first.nonce, salt |-> first.salt, iterations |-> first.iterations]
<1>1. \A x : <<scram.nonce, x>> # Nothing /\ <<scram.nonce, x>>[1] = scram.nonce
  BY DEF Nothing
<1>2. \A x : <<0, x>>[1] # scram.nonce
  OBVIOUS
<1>3. CASE first \in GoodFirsts(scram.nonce)
  <2>1. first.nonce = <<scram.nonce, attempt>> /\ first.salt \in {"old", "new"}
        /\ first.iterations = 1 /\ first \notin BrokenFirsts(scram.nonce)
        /\ first = [nonce |-> first.nonce, salt |-> first.salt, iterations |-> first.iterations]
    BY <1>3 DEF GoodFirsts, BrokenFirsts
  <2> QED BY <1>1, <2>1 DEF AcceptsFirst
<1>4. CASE first \in BrokenFirsts(scram.nonce)
  <2>1. /\ first.nonce \in {Nothing, <<0, attempt>>, <<scram.nonce, attempt>>}
        /\ first.salt \in {"none", "old"} /\ first.iterations \in 0..1
        /\ first = [nonce |-> first.nonce, salt |-> first.salt, iterations |-> first.iterations]
        /\ first \notin GoodFirsts(scram.nonce)
    BY <1>4 DEF BrokenFirsts
  <2>2. ~(first.nonce = <<scram.nonce, attempt>> /\ first.salt = "old" /\ first.iterations = 1)
    BY <2>1 DEF GoodFirsts
  <2> QED BY <1>2, <1>4, <2>1, <2>2 DEF AcceptsFirst
<1> QED BY <1>3, <1>4

LEMMA SaslContinueStep ==
    ASSUME AuthInv, SaslContinue
    PROVE  AuthInv'
<1>1. Takes("continue") /\ UNCHANGED <<unsupported, used>>
      /\ UNCHANGED <<attempt, pass, stored, method, phase, exchange, broken>>
  BY DEF SaslContinue, Takes, backendVars
<1>2. /\ pc = "reading" /\ up = << >> /\ phase = "last" /\ down' = << >>
      /\ Data = exchange.serverFirst /\ Exchanging
      /\ Data \in GoodFirsts(scram.nonce) \cup BrokenFirsts(scram.nonce)
      /\ broken = (Data \in BrokenFirsts(scram.nonce))
  BY <1>1, Taken
<1>3. AcceptsFirst(Data) <=> ~broken
  BY <1>2, FirstsAccepted DEF Exchanging
<1>4. CASE scram.made /\ AcceptsFirst(Data)
  <2> DEFINE salted == SaltedPassword(Data)
             text == AuthMessage(scram.nonce, Data, Data.nonce)
  <2>1. /\ scram' = [scram EXCEPT !.salted = salted, !.authMessage = text] /\ pc' = pc
        /\ up' = Append(up, Msg("last", [nonce |-> Data.nonce, proof |-> Proof(salted, text)]))
    BY <1>4 DEF SaslContinue, Answer
  <2>2. Counts' /\ scram'.nonce = scram.nonce
    BY <1>1, <2>1, CountsKept DEF AuthInv, Counts
  <2>3. scram'.salted = salted /\ scram'.authMessage = text /\ scram'.made = scram.made
    BY <2>1 DEF AuthInv, Counts
  <2>4. up' = <<Msg("last", [nonce |-> Data.nonce, proof |-> Proof(salted, text)])>>
    BY <1>2, <2>1, Messages
  <2>5. Data.nonce # Nothing /\ Data.nonce[1] = scram.nonce
    BY <1>4 DEF AcceptsFirst
  <2>6. ProofSent'
    BY <1>1, <1>2, <2>2, <2>3, <2>4, <2>5
       DEF ProofSent, Up, SaltedPassword, Exchanging, AuthMessage, Proof, Salted, Msg
  <2>7. Exchanging'
    BY <1>1, <1>2, <2>2, <2>3 DEF Exchanging
  <2> QED BY <1>1, <1>2, <1>3, <1>4, <2>1, <2>2, <2>6, <2>7
          DEF AuthInv, Reading, NotReading, Requests, Firsts, Lasts
<1>5. CASE ~(scram.made /\ AcceptsFirst(Data))
  <2>1. Fail /\ scram' = scram
    BY <1>5 DEF SaslContinue
  <2>2. broken
    BY <1>2, <1>3, <1>5 DEF Exchanging
  <2>3. Cause' /\ unsupported' \in BOOLEAN
    BY <1>1, <2>2 DEF Cause, AuthInv, Counts
  <2> QED BY <1>1, <2>1, <2>3, FailStep
<1> QED BY <1>4, <1>5

\* A signature is verified if and only if it is as it should be, where both sides
\* have the same password.
LEMMA SaslFinalStep ==
    ASSUME AuthInv, SaslFinal
    PROVE  AuthInv'
<1>1. Takes("final") /\ UNCHANGED <<scram, unsupported, used>>
      /\ UNCHANGED <<attempt, pass, stored, method, phase, exchange, broken>>
  BY DEF SaslFinal, Takes, backendVars
<1>2. /\ pc = "reading" /\ up = << >> /\ Signed(Data)
      /\ \/ phase = "ok" /\ down' = <<OkMsg>>
         \/ phase = "ready" /\ down' = <<OkMsg, ReadyMsg>>
  BY <1>1, Taken
<1>3. CASE scram.made /\ Verifies(Data)
  <2>1. pc' = pc /\ up' = up
    BY <1>3 DEF SaslFinal
  <2>2. Data # Nothing
    BY <1>3 DEF Verifies, Mac, Nothing
  <2>3. ~broken
    BY <1>2, <2>2 DEF Signed
  <2>4. Counts'
    BY <1>1, <2>1, CountsKept DEF AuthInv, Counts
  <2> QED BY <1>1, <1>2, <2>1, <2>3, <2>4
          DEF AuthInv, Reading, NotReading, Requests, Firsts, Lasts, Down
<1>4. CASE ~(scram.made /\ Verifies(Data))
  <2>1. Fail
    BY <1>4 DEF SaslFinal
  <2>2. ~(pass = stored /\ ~broken)
    BY <1>2, <1>4 DEF Signed, Verifies
  <2>3. Cause' /\ unsupported' \in BOOLEAN
    BY <1>1, <2>2 DEF Cause, AuthInv, Counts
  <2> QED BY <1>1, <2>1, <2>3, FailStep
<1> QED BY <1>3, <1>4

LEMMA EndRoundStep ==
    ASSUME AuthInv, EndRound
    PROVE  AuthInv'
<1>1. UNCHANGED <<scram, unsupported, used>>
  BY DEF EndRound
<1>2. CASE Takes("error") /\ Fail
  <2>1. pass # stored /\ UNCHANGED <<pass, stored>>
    BY <1>2, Taken DEF Takes, backendVars
  <2>2. Cause' /\ unsupported' \in BOOLEAN
    BY <1>1, <2>1 DEF Cause, AuthInv, Counts
  <2> QED BY <1>1, <1>2, <2>2, FailStep
<1>3. CASE Takes("ready") /\ pc' = "done" /\ UNCHANGED up
  <2>1. /\ up = << >> /\ phase = "ready" /\ ~broken /\ down' = << >>
        /\ UNCHANGED <<attempt, pass, stored, method, phase, broken>>
    BY <1>3, Taken DEF Takes, backendVars
  <2>2. Counts'
    BY <1>1, <1>3, <2>1, CountsKept DEF AuthInv, Counts
  <2> QED BY <1>3, <2>1, <2>2 DEF AuthInv, Reading, NotReading
<1> QED BY <1>2, <1>3 DEF EndRound

---------------------------------------------------------------------------
\* The steps of the backend, and of the task between attempts.
LEMMA RequestStep ==
    ASSUME AuthInv, Request
    PROVE  AuthInv'
<1>1. /\ UNCHANGED <<pc, attempt, pass, scram, unsupported, used, up, stored, method, exchange>>
      /\ pc = "reading" /\ phase = "start"
  BY DEF Request, clientVars
<1>2. up = << >> /\ down = << >> /\ ~broken /\ Len(used) < attempt
  BY <1>1 DEF AuthInv, Reading, Requests, Down
<1>3. ASSUME NEW m, NEW next, Says(<<m>>, next)
      PROVE  down' = <<m>> /\ phase' = next
  BY <1>2, <1>3, Messages DEF Says
<1>4. ASSUME broken' \in BOOLEAN
      PROVE  Counts'
  BY <1>1, <1>4, CountsKept DEF AuthInv, Counts
<1>5. CASE method = "scram" /\ \E mechs \in MechLists :
               Says(<<Msg("sasl", mechs)>>, "first") /\ broken' = (mechs = {})
  <2>1. PICK mechs \in MechLists : Says(<<Msg("sasl", mechs)>>, "first") /\ broken' = (mechs = {})
    BY <1>5
  <2>2. down' = <<Msg("sasl", mechs)>> /\ phase' = "first"
    BY <1>3, <2>1
  <2>3. Data' = mechs
    BY <2>2, Messages, MessageFields DEF Data
  <2>4. Counts'
    BY <1>4, <2>1
  <2> QED BY <1>1, <1>2, <1>5, <2>1, <2>2, <2>3, <2>4
          DEF AuthInv, Reading, NotReading, Requests, Firsts, Lasts, Down
<1>6. CASE /\ UNCHANGED broken
           /\ \/ Says(<<OkMsg>>, "ok")
              \/ Says(<<Msg("password", Nothing)>>, "password")
              \/ Says(<<Msg("md5", attempt)>>, "md5")
              \/ Says(<<Msg("gss", Nothing)>>, "gss")
  <2>1. \/ down' = <<OkMsg>> /\ phase' = "ok"
        \/ down' = <<Msg("password", Nothing)>> /\ phase' = "password"
        \/ down' = <<Msg("md5", attempt)>> /\ phase' = "md5"
        \/ down' = <<Msg("gss", Nothing)>> /\ phase' = "gss"
    BY <1>3, <1>6
  <2>2. Counts' /\ ~broken'
    BY <1>2, <1>4, <1>6 DEF AuthInv, Counts
  <2> QED BY <1>1, <1>2, <2>1, <2>2
          DEF AuthInv, Reading, NotReading, Requests, Firsts, Lasts, Down
<1> QED BY <1>5, <1>6 DEF Request, OkMsg, MechLists

\* What the backend has, when it has an answer.
LEMMA Got ==
    ASSUME AuthInv, NEW type, Gets(type)
    PROVE  /\ pc = "reading" /\ phase = type /\ down = << >> /\ ~broken /\ up' = << >>
           /\ UNCHANGED <<pc, attempt, pass, scram, unsupported, used, stored, method>>
           /\ \/ phase = "password" /\ Head(up).data = pass
              \/ phase = "md5" /\ Head(up).data = Md5(pass, attempt)
              \/ /\ phase = "first" /\ Head(up).data = scram.nonce /\ scram.made
                 /\ scram.nonce \in Nat \ {0} /\ method = "scram"
              \/ phase = "last" /\ ProofSent /\ Exchanging
<1>1. /\ pc = "reading" /\ phase = type /\ up # << >> /\ up' = Tail(up)
      /\ UNCHANGED <<pc, attempt, pass, scram, unsupported, used, stored, method>>
  BY DEF Gets, clientVars
<1>2. \A m : Up(m) => Head(up) = m /\ up' = << >> /\ down = << >>
  BY <1>1, Messages DEF Up
<1>3. \A ms : ~Down(ms)
  BY <1>1 DEF Down
<1>4. CASE phase \in {"start", "password", "md5", "gss"}
  BY <1>1, <1>2, <1>3, <1>4, MessageFields DEF AuthInv, Reading, Requests
<1>5. CASE phase = "first"
  BY <1>1, <1>2, <1>3, <1>5, MessageFields DEF AuthInv, Reading, Firsts
<1>6. CASE phase = "last"
  <2>1. ProofSent /\ ~broken /\ Exchanging
    BY <1>1, <1>3, <1>6 DEF AuthInv, Reading, Firsts
  <2> QED BY <1>1, <1>2, <1>6, <2>1 DEF ProofSent
<1>7. CASE phase \in {"ok", "ready", "refused"}
  BY <1>1, <1>3, <1>7 DEF AuthInv, Reading, Lasts
<1> QED BY <1>1, <1>4, <1>5, <1>6, <1>7 DEF AuthInv, Reading

LEMMA CheckPasswordStep ==
    ASSUME AuthInv, CheckPassword
    PROVE  AuthInv'
<1>1. /\ pc = "reading" /\ down = << >> /\ ~broken /\ up' = << >> /\ UNCHANGED broken
      /\ UNCHANGED <<pc, attempt, pass, scram, unsupported, used, stored, method>>
      /\ \/ phase = "password" /\ Head(up).data = pass
         \/ phase = "md5" /\ Head(up).data = Md5(pass, attempt)
  BY Got DEF CheckPassword
<1>2. Counts'
  BY <1>1, CountsKept DEF AuthInv, Counts
<1>3. \/ down' = << >> \o <<OkMsg>> /\ phase' = "ok"
      \/ down' = << >> \o <<Msg("error", Nothing)>> /\ phase' = "refused" /\ pass # stored
  BY <1>1 DEF CheckPassword, Says, OkMsg
<1>4. \/ down' = <<OkMsg>> /\ phase' = "ok"
      \/ down' = <<Msg("error", Nothing)>> /\ phase' = "refused" /\ pass # stored
  BY <1>3, Messages
<1> QED BY <1>1, <1>2, <1>4 DEF AuthInv, Reading, NotReading, Requests, Firsts, Lasts, Down

LEMMA ServerFirstStep ==
    ASSUME AuthInv, ServerFirst
    PROVE  AuthInv'
<1> DEFINE firsts == GoodFirsts(scram.nonce) \cup BrokenFirsts(scram.nonce)
<1>1. /\ pc = "reading" /\ down = << >> /\ up' = << >>
      /\ UNCHANGED <<pc, attempt, pass, scram, unsupported, used, stored, method>>
      /\ Head(up).data = scram.nonce /\ scram.made /\ scram.nonce \in Nat \ {0}
  BY Got DEF ServerFirst
<1>2. PICK first \in firsts :
          /\ down' = << >> \o <<Msg("continue", first)>> /\ phase' = "last"
          /\ exchange' = [clientNonce |-> scram.nonce, serverFirst |-> first]
          /\ broken' = (first \in BrokenFirsts(scram.nonce))
  BY <1>1 DEF ServerFirst, Says
<1>3. down' = <<Msg("continue", first)>>
  BY <1>2, Messages
<1>4. exchange'.clientNonce = scram.nonce /\ exchange'.serverFirst = first
  BY <1>2
<1>5. Counts'
  BY <1>1, <1>2, CountsKept DEF AuthInv, Counts
<1>6. (GoodFirsts(scram.nonce) = GoodFirsts(scram.nonce)')
      /\ (BrokenFirsts(scram.nonce) = BrokenFirsts(scram.nonce)')
  BY <1>1 DEF GoodFirsts, BrokenFirsts
<1>7. Firsts'
  BY <1>1, <1>2, <1>3, <1>4, <1>6 DEF Firsts, Exchanging, Down
<1> QED BY <1>1, <1>2, <1>5, <1>7 DEF AuthInv, Reading, NotReading, Requests, Lasts

LEMMA CheckProofStep ==
    ASSUME AuthInv, CheckProof
    PROVE  AuthInv'
<1> DEFINE last == Head(up).data
           first == exchange.serverFirst
           salted == Salted(stored, <<first.salt, first.iterations>>)
           text == AuthMessage(exchange.clientNonce, first, last.nonce)
<1>1. /\ pc = "reading" /\ down = << >> /\ ~broken /\ up' = << >> /\ ProofSent /\ Exchanging
      /\ UNCHANGED <<pc, attempt, pass, scram, unsupported, used, stored, method, exchange>>
  BY Got DEF CheckProof
<1>2. /\ last.nonce = first.nonce
      /\ last.proof = Proof(Salted(pass, <<first.salt, first.iterations>>),
                            AuthMessage(exchange.clientNonce, first, first.nonce))
      /\ scram.salted = Salted(pass, <<first.salt, first.iterations>>)
      /\ scram.authMessage = AuthMessage(exchange.clientNonce, first, first.nonce)
  BY <1>1, Messages, MessageFields DEF ProofSent, Up
<1>3. scram.salted # Nothing /\ scram.authMessage # Nothing
  BY <1>2 DEF Salted, AuthMessage, Nothing
<1>4. CASE last.nonce = first.nonce /\ last.proof = Proof(salted, text)
  <2>1. PICK signature \in {Nothing, Mac(ServerKey(salted), text)} :
            /\ Says(<<Msg("final", signature), Msg("ok", Nothing)>>, "ok")
            /\ broken' = (broken \/ signature = Nothing)
    BY <1>4 DEF CheckProof
  <2>2. down' = <<Msg("final", signature), OkMsg>> /\ phase' = "ok"
    BY <1>1, <2>1, Messages DEF Says, OkMsg
  <2>3. Data' = signature
    BY <2>2, Messages, MessageFields DEF Data
  <2>4. pass = stored =>
            Mac(ServerKey(salted), text) = Mac(ServerKey(scram.salted), scram.authMessage)
    BY <1>2
  <2> HIDE DEF last, first, salted, text
  <2>5. Counts'
    BY <1>1, <2>1, CountsKept DEF AuthInv, Counts
  <2>6. pass = stored /\ ~broken' => signature = Mac(ServerKey(scram.salted), scram.authMessage)
    BY <1>1, <2>1, <2>4
  <2>7. Signed(Data)'
    BY <1>1, <1>3, <2>1, <2>3, <2>6 DEF Signed, Exchanging, Mac, ServerKey
  <2> QED BY <1>1, <2>2, <2>3, <2>5, <2>7
          DEF AuthInv, Reading, NotReading, Requests, Firsts, Lasts, Down
<1>5. CASE ~(last.nonce = first.nonce /\ last.proof = Proof(salted, text))
  <2>1. Says(<<Msg("error", Nothing)>>, "refused") /\ UNCHANGED broken
    BY <1>5 DEF CheckProof
  <2>2. down' = <<Msg("error", Nothing)>> /\ phase' = "refused"
    BY <1>1, <2>1, Messages DEF Says
  <2>3. pass # stored
    BY <1>2, <1>5
  <2>4. Counts'
    BY <1>1, <2>1, CountsKept DEF AuthInv, Counts
  <2> QED BY <1>1, <2>1, <2>2, <2>3, <2>4
          DEF AuthInv, Reading, NotReading, Requests, Firsts, Lasts, Down
<1> QED BY <1>4, <1>5

LEMMA SendReadyStep ==
    ASSUME AuthInv, SendReady
    PROVE  AuthInv'
<1>1. /\ pc = "reading" /\ phase = "ok" /\ phase' = "ready" /\ down' = down \o <<ReadyMsg>>
      /\ UNCHANGED <<pc, attempt, pass, scram, unsupported, used, up, stored, method, broken>>
  BY DEF SendReady, Says, clientVars, ReadyMsg
<1>2. Counts'
  BY <1>1, CountsKept DEF AuthInv, Counts
<1>3. \/ (Down(<<OkMsg>>) \/ Down(<< >>)) /\ ~broken
      \/ Down(<<Msg("final", Data), OkMsg>>) /\ Signed(Data)
  BY <1>1 DEF AuthInv, Reading, Lasts
<1>4. CASE Down(<<OkMsg>>) /\ ~broken
  <2>1. down' = <<OkMsg, ReadyMsg>> /\ up' = << >>
    BY <1>1, <1>4, Messages DEF Down
  <2> QED BY <1>1, <1>2, <1>4, <2>1
          DEF AuthInv, Reading, NotReading, Requests, Firsts, Lasts, Down
<1>5. CASE Down(<< >>) /\ ~broken
  <2>1. down' = <<ReadyMsg>> /\ up' = << >>
    BY <1>1, <1>5, Messages DEF Down
  <2> QED BY <1>1, <1>2, <1>5, <2>1
          DEF AuthInv, Reading, NotReading, Requests, Firsts, Lasts, Down
<1>6. CASE Down(<<Msg("final", Data), OkMsg>>) /\ Signed(Data)
  <2>1. down' = <<Msg("final", Data), OkMsg, ReadyMsg>> /\ up' = << >>
    <3>1. down' = <<Msg("final", Data), OkMsg>> \o <<ReadyMsg>> /\ up' = << >>
      BY <1>1, <1>6 DEF Down
    <3>2. <<Msg("final", Data), OkMsg>> \o <<ReadyMsg>> = <<Msg("final", Data), OkMsg, ReadyMsg>>
      BY TwoMessages, Zenon
    <3> QED BY <3>1, <3>2
  <2>2. Data' = Data
    BY <2>1, Messages, MessageFields DEF Data
  <2>3. Signed(Data)'
    BY <1>1, <1>6, <2>2 DEF Signed, Mac, ServerKey
  <2> QED BY <1>1, <1>2, <2>1, <2>2, <2>3
          DEF AuthInv, Reading, NotReading, Requests, Firsts, Lasts, Down
<1> QED BY <1>3, <1>4, <1>5, <1>6

LEMMA AttemptStep ==
    ASSUME AuthInv, Connect \/ Lose
    PROVE  AuthInv'
<1>1. CASE Connect
  <2>1. /\ pc = "idle" /\ attempt < MaxAttempts /\ pc' = "reading" /\ attempt' = attempt + 1
        /\ phase' = "start" /\ broken' = FALSE /\ method' \in Methods
        /\ UNCHANGED <<pass, scram, unsupported, used, down, up, stored>>
    BY <1>1 DEF Connect
  <2>2. up = << >> /\ down = << >>
    BY <2>1 DEF AuthInv, NotReading
  <2>3. attempt' \in 0..MaxAttempts /\ Len(used) < attempt'
    BY <2>1, AuthAssumption DEF AuthInv, Counts
  <2>4. Counts'
    <3>1. /\ pc' = "reading" /\ broken' = FALSE /\ method' \in Methods \cup {"none"}
          /\ Len(used') <= attempt' /\ attempt' \in 0..MaxAttempts
      BY <2>1, <2>3 DEF AuthInv, Counts
    <3>2. /\ pass' \in Passwords /\ stored' \in Passwords /\ unsupported' \in BOOLEAN
          /\ used' \in Seq(1..MaxAttempts) /\ \A i \in 1..Len(used') : used'[i] = i
          /\ scram'.made \in BOOLEAN /\ scram'.nonce = Len(used')
      BY <2>1 DEF AuthInv, Counts
    <3>3. scram' = [made |-> scram'.made, nonce |-> scram'.nonce, salted |-> scram'.salted,
                    authMessage |-> scram'.authMessage]
      BY <2>1 DEF AuthInv, Counts
    <3> QED BY <3>1, <3>2, <3>3 DEF Counts
  <2> QED BY <2>1, <2>2, <2>3, <2>4
          DEF AuthInv, Reading, NotReading, Requests, Firsts, Lasts, Down
<1>2. CASE Lose
  <2>1. /\ pc' \in {"idle", "failed"} /\ down' = << >> /\ up' = << >> /\ phase' = "none"
        /\ UNCHANGED <<attempt, pass, scram, unsupported, used, stored, method, broken>>
    BY <1>2 DEF Lose
  <2>2. Counts'
    BY <2>1, CountsKept DEF AuthInv, Counts
  <2> QED BY <2>1, <2>2 DEF AuthInv, Reading, NotReading
<1> QED BY <1>1, <1>2

---------------------------------------------------------------------------
\* The handshake's invariant, for any passwords and methods and any number of attempts.
THEOREM AuthInvariant == Spec => []AuthInv
<1>1. Init => AuthInv
  <2> SUFFICES ASSUME Init PROVE AuthInv
    OBVIOUS
  <2>1. scram.made = FALSE /\ scram.nonce = 0 /\ Len(used) = 0
    BY DEF Init, NoScram
  <2>2. Counts
    <3>1. attempt \in 0..MaxAttempts /\ Len(used) <= attempt
      BY <2>1, AuthAssumption DEF Init
    <3>2. used \in Seq(1..MaxAttempts) /\ \A i \in 1..Len(used) : used[i] = i
      BY <2>1 DEF Init
    <3>3. scram = [made |-> scram.made, nonce |-> scram.nonce, salted |-> scram.salted,
                   authMessage |-> scram.authMessage]
      BY DEF Init, NoScram
    <3>4. /\ pc = "idle" /\ pass \in Passwords /\ stored \in Passwords
          /\ unsupported = FALSE /\ broken = FALSE /\ method = "none"
      BY DEF Init
    <3> QED BY <2>1, <3>1, <3>2, <3>3, <3>4 DEF Counts
  <2> QED BY <2>2 DEF Init, AuthInv, Reading, NotReading
<1>2. AuthInv /\ [Next]_vars => AuthInv'
  <2> SUFFICES ASSUME AuthInv, [Next]_vars PROVE AuthInv'
    OBVIOUS
  <2>1. CASE Client
    BY <2>1, PasswordStep, OkStep, UnsupportedStep, SaslStep, RandomFailsStep,
       SaslContinueStep, SaslFinalStep, EndRoundStep DEF Client
  <2>2. CASE Backend
    BY <2>2, RequestStep, CheckPasswordStep, ServerFirstStep, CheckProofStep, SendReadyStep
       DEF Backend
  <2>3. CASE Connect \/ Lose
    BY <2>3, AttemptStep
  <2>4. CASE UNCHANGED vars
    BY <2>4 DEF vars, clientVars, backendVars, AuthInv, Counts, Reading, Requests, Firsts, Lasts,
                NotReading, Cause, Signed, ProofSent, Exchanging, Down, Up, Data, GoodFirsts,
                BrokenFirsts
  <2> QED BY <2>1, <2>2, <2>3, <2>4 DEF Next
<1> QED BY <1>1, <1>2, PTL DEF Spec

\* Every variable keeps its type.
THEOREM AuthTypeCorrect == Spec => []TypeOK
<1>1. AuthInv => TypeOK
  BY InvImplies
<1> QED BY <1>1, AuthInvariant, PTL

\* With the right password and well-formed messages no attempt is refused, by either
\* side, whatever the attempts before it have left in the ScramAuth object.
THEOREM AgreedIsAcceptedHolds == Spec => []AgreedIsAccepted
<1>1. AuthInv => AgreedIsAccepted
  BY InvImplies
<1> QED BY <1>1, AuthInvariant, PTL

\* No attempt succeeds on a malformed exchange, even if the backend thinks it has.
THEOREM BrokenNeverSucceedsHolds == Spec => []BrokenNeverSucceeds
<1>1. AuthInv => BrokenNeverSucceeds
  BY InvImplies
<1> QED BY <1>1, AuthInvariant, PTL

\* Client and backend are in step, and no exchange has the nonce of another one.
THEOREM InStepHolds == Spec => []InStep
<1>1. AuthInv => InStep
  BY InvImplies
<1> QED BY <1>1, AuthInvariant, PTL
=============================================================================
