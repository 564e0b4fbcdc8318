------------------------------- MODULE PgAuth -------------------------------
(***************************************************************************)
(* The authentication handshake of a startup round, over the attempts a    *)
(* task makes: PostgresAuth::process_auth_request and ScramAuth against a  *)
(* PostgreSQL backend. Hashes are terms: two are equal only if what was    *)
(* hashed is. PostgresAuth.cc, ScramAuth.cc.                               *)
(***************************************************************************)
EXTENDS Naturals, Sequences

CONSTANTS Passwords,    \* passwords: the task's, and the one the server has
          Methods,      \* what the server may ask for
          MaxAttempts   \* bound: connections the task makes (1 + retry_max)

ASSUME AuthAssumption ==
    /\ Methods \subseteq {"trust", "cleartext", "md5", "scram", "gss"}
    /\ MaxAttempts \in Nat \ {0}

VARIABLES
    pc,        \* the task: "idle", "reading", "done", "error", "failed"
    attempt,   \* connections made
    pass,      \* pass_ of the response
    scram,     \* scram_auth_, kept with the response from attempt to attempt
    unsupported,    \* internal_error_ is WFT_ERR_POSTGRES_UNSUPPORTED_AUTH
    used,      \* ghost: the client nonces generated so far
    down, up,  \* the messages on the wire, to the client and to the backend
    stored,    \* the backend: the password it has a verifier of,
    method,    \*   what it asks for,
    phase,     \*   where it is,
    exchange,  \*   and the client-first and server-first messages of SCRAM
    broken     \* ghost: this attempt had a message that is not as it should be

clientVars == <<pc, attempt, pass, scram, unsupported, used>>
backendVars == <<stored, method, phase, exchange, broken>>
vars == <<clientVars, backendVars, down, up>>

---------------------------------------------------------------------------
\* Terms.

Mac(key, text) == <<"mac", key, text>>
Hash(x) == <<"hash", x>>
Salted(password, salt) == <<"salted", password, salt>>
ClientKey(salted) == Mac(salted, "Client Key")
ServerKey(salted) == Mac(salted, "Server Key")

\* pg_md5_encrypt. The user's name is the same on both sides.
Md5(password, salt) == <<"md5", Hash(<<password, "user">>), salt>>

\* client_proof, from which the backend recovers the client key with the signature.
Proof(salted, authMessage) ==
    [key |-> ClientKey(salted), sig |-> Mac(Hash(ClientKey(salted)), authMessage)]

\* client_first_message_bare, the server's first message, and the client's last
\* one without its proof.
AuthMessage(clientNonce, serverFirst, nonce) == <<clientNonce, serverFirst, nonce>>

Nothing == << >>
NoScram == [made |-> FALSE, nonce |-> 0, salted |-> Nothing, authMessage |-> Nothing]
NoExchange == [clientNonce |-> 0, serverFirst |-> Nothing]

Msg(type, data) == [type |-> type, data |-> data]
Asks == {"ok", "password", "md5", "sasl", "continue", "final", "gss"}

TypeOK ==
    /\ pc \in {"idle", "reading", "done", "error", "failed"}
    /\ attempt \in 0..MaxAttempts /\ pass \in Passwords /\ stored \in Passwords
    /\ scram.made \in BOOLEAN /\ scram.nonce \in 0..MaxAttempts
    /\ unsupported \in BOOLEAN /\ used \in Seq(1..MaxAttempts)
    /\ \A i \in 1..Len(down) : down[i].type \in Asks \cup {"error", "ready"}
    /\ Len(up) <= 1 /\ \A i \in 1..Len(up) : up[i].type \in {"password", "md5", "first", "last"}
    /\ method \in Methods \cup {"none"} /\ broken \in BOOLEAN
    /\ phase \in {"none", "start", "password", "md5", "first", "last", "gss",
                  "ok", "ready", "refused"}

Init ==
    /\ pc = "idle" /\ attempt = 0 /\ pass \in Passwords /\ scram = NoScram
    /\ unsupported = FALSE /\ used = << >> /\ down = << >> /\ up = << >>
    /\ stored \in Passwords /\ method = "none" /\ phase = "none"
    /\ exchange = NoExchange /\ broken = FALSE

---------------------------------------------------------------------------
\* The task's attempts.

\* message_out of the first attempt or of a retry; the response, made by the first
\* message_in, is the same in all.
Connect ==
    /\ pc = "idle" /\ attempt < MaxAttempts
    /\ pc' = "reading" /\ attempt' = attempt + 1
    /\ phase' = "start" /\ exchange' = NoExchange /\ broken' = FALSE
    /\ method' \in Methods
    /\ UNCHANGED <<pass, scram, unsupported, used, down, up, stored>>

\* The connection is lost between two messages: a system error, which is retried.
Lose ==
    /\ pc = "reading"
    /\ pc' = IF attempt < MaxAttempts THEN "idle" ELSE "failed"
    /\ down' = << >> /\ up' = << >> /\ phase' = "none"
    /\ UNCHANGED <<attempt, pass, scram, unsupported, used, stored, method, exchange, broken>>

---------------------------------------------------------------------------
\* The client: one iteration of the loop of append().

Data == Head(down).data

\* The next message is of this type and is taken.
Takes(type) ==
    /\ pc = "reading" /\ down # << >> /\ Head(down).type = type /\ down' = Tail(down)
    /\ UNCHANGED <<attempt, pass, backendVars>>

\* feedback().
Answer(type, data) == up' = Append(up, Msg(type, data)) /\ UNCHANGED <<pc, unsupported>>

\* Mutant: the error is set but 0 is returned.
FailUnreported == UNCHANGED <<pc, up>>

\* process_auth_request returns -1, or an ErrorResponse ends the startup round.
Fail == pc' = "error" /\ UNCHANGED up

\* AuthenticationOk: nothing to answer.
Ok == Takes("ok") /\ UNCHANGED <<pc, up, scram, unsupported, used>>

\* Mutant: the branch goes on into the next one.
CleartextFallsThrough ==
    /\ Takes("password")
    /\ up' = <<Msg("password", pass), Msg("md5", Md5(pass, attempt))>>
    /\ UNCHANGED <<pc, scram, unsupported, used>>

Cleartext == Takes("password") /\ Answer("password", pass) /\ UNCHANGED <<scram, used>>

Md5Password == Takes("md5") /\ Answer("md5", Md5(pass, Data)) /\ UNCHANGED <<scram, used>>

\* Mechanisms without SCRAM-SHA-256 (Data holds those that are complete in the
\* message), or a request of another type.
Unsupported ==
    /\ \/ Takes("sasl") /\ "SCRAM-SHA-256" \notin Data
       \/ Takes("gss")
    /\ unsupported' = TRUE /\ Fail
    /\ UNCHANGED <<scram, used>>

\* RAND_bytes: a number not seen before.
ClientNonce == Len(used) + 1

\* AuthenticationSASL: init() and generate_client_first_message(); the rest of the
\* object stays as it is.
Sasl ==
    /\ Takes("sasl") /\ "SCRAM-SHA-256" \in Data
    /\ scram' = [scram EXCEPT !.made = TRUE, !.nonce = ClientNonce]
    /\ used' = Append(used, ClientNonce)
    /\ Answer("first", ClientNonce)

\* RAND_bytes fails.
RandomFails ==
    /\ Takes("sasl") /\ "SCRAM-SHA-256" \in Data
    /\ scram' = [scram EXCEPT !.made = TRUE]
    /\ Fail /\ UNCHANGED <<unsupported, used>>

\* Mutant: the nonce is not compared.
AcceptsAnyNonce(first) == first.salt # "none" /\ first.iterations > 0

\* r=, s= and i= are there, and the server's nonce begins with the client's.
AcceptsFirst(first) ==
    /\ first.salt # "none" /\ first.iterations > 0
    /\ first.nonce # Nothing /\ first.nonce[1] = scram.nonce

\* Mutant: what the last attempt left is used.
SaltedOnce(first) ==
    IF scram.salted # Nothing THEN scram.salted ELSE Salted(pass, <<first.salt, first.iterations>>)

\* PKCS5_PBKDF2_HMAC.
SaltedPassword(first) == Salted(pass, <<first.salt, first.iterations>>)

\* AuthenticationSASLContinue: generate_client_final_message.
SaslContinue ==
    /\ Takes("continue") /\ UNCHANGED <<unsupported, used>>
    /\ IF scram.made /\ AcceptsFirst(Data)
       THEN LET salted == SaltedPassword(Data)
                text == AuthMessage(scram.nonce, Data, Data.nonce)
            IN /\ scram' = [scram EXCEPT !.salted = salted, !.authMessage = text]
               /\ Answer("last", [nonce |-> Data.nonce, proof |-> Proof(salted, text)])
       ELSE Fail /\ UNCHANGED scram

\* Mutant: only the form is looked at.
VerifiesForm(signature) == scram.salted # Nothing /\ scram.authMessage # Nothing

\* verify_server_signature.
Verifies(signature) ==
    /\ scram.salted # Nothing /\ scram.authMessage # Nothing
    /\ signature = Mac(ServerKey(scram.salted), scram.authMessage)

SaslFinal ==
    /\ Takes("final") /\ UNCHANGED <<scram, unsupported, used>>
    /\ IF scram.made /\ Verifies(Data) THEN UNCHANGED <<pc, up>> ELSE Fail

\* The error or the ReadyForQuery that ends the startup round.
EndRound ==
    /\ \/ Takes("error") /\ Fail
       \/ Takes("ready") /\ pc' = "done" /\ UNCHANGED up
    /\ UNCHANGED <<scram, unsupported, used>>

---------------------------------------------------------------------------
\* The backend.

Says(messages, next) == down' = down \o messages /\ phase' = next

\* What it asks for: salts are of this attempt, the mechanisms depend on TLS. A list
\* that is cut off before the mechanism the client knows is broken.
Request ==
    /\ pc = "reading" /\ phase = "start"
    /\ \/ method = "trust" /\ Says(<<Msg("ok", Nothing)>>, "ok") /\ UNCHANGED broken
       \/ method = "cleartext" /\ Says(<<Msg("password", Nothing)>>, "password")
                               /\ UNCHANGED broken
       \/ method = "md5" /\ Says(<<Msg("md5", attempt)>>, "md5") /\ UNCHANGED broken
       \/ method = "gss" /\ Says(<<Msg("gss", Nothing)>>, "gss") /\ UNCHANGED broken
       \/ /\ method = "scram"
          /\ \E mechs \in {{}, {"SCRAM-SHA-256"}, {"SCRAM-SHA-256", "SCRAM-SHA-256-PLUS"}} :
                 Says(<<Msg("sasl", mechs)>>, "first") /\ broken' = (mechs = {})
    /\ UNCHANGED <<clientVars, up, stored, method, exchange>>

\* It waits for an answer of this type, and has it.
Gets(type) ==
    /\ pc = "reading" /\ phase = type /\ up # << >> /\ Head(up).type = type
    /\ up' = Tail(up) /\ UNCHANGED <<clientVars, stored, method>>

\* A password, in clear or hashed.
CheckPassword ==
    /\ Gets("password") \/ Gets("md5")
    /\ IF Head(up).data = IF phase = "md5" THEN Md5(stored, attempt) ELSE stored
       THEN Says(<<Msg("ok", Nothing)>>, "ok")
       ELSE Says(<<Msg("error", Nothing)>>, "refused")
    /\ UNCHANGED <<exchange, broken>>

\* The nonce extends the client's; the salt is of the verifier the server has at the
\* moment. A broken message has a nonce, salt or count that is missing or wrong.
GoodFirsts(nonce) == [nonce: {<<nonce, attempt>>}, salt: {"old", "new"}, iterations: {1}]
BrokenFirsts(nonce) ==
    [nonce: {Nothing, <<0, attempt>>, <<nonce, attempt>>}, salt: {"none", "old"},
     iterations: 0..1] \ GoodFirsts(nonce)

ServerFirst ==
    /\ Gets("first")
    /\ \E first \in GoodFirsts(Head(up).data) \cup BrokenFirsts(Head(up).data) :
           /\ Says(<<Msg("continue", first)>>, "last")
           /\ exchange' = [clientNonce |-> Head(up).data, serverFirst |-> first]
           /\ broken' = (first \in BrokenFirsts(Head(up).data))

\* The proof, with the signature in return. One that is cut off is broken.
CheckProof ==
    /\ Gets("last") /\ UNCHANGED exchange
    /\ LET last == Head(up).data
           first == exchange.serverFirst
           salted == Salted(stored, <<first.salt, first.iterations>>)
           text == AuthMessage(exchange.clientNonce, first, last.nonce)
       IN IF last.nonce = first.nonce /\ last.proof = Proof(salted, text)
          THEN \E signature \in {Nothing, Mac(ServerKey(salted), text)} :
                   /\ Says(<<Msg("final", signature), Msg("ok", Nothing)>>, "ok")
                   /\ broken' = (broken \/ signature = Nothing)
          ELSE Says(<<Msg("error", Nothing)>>, "refused") /\ UNCHANGED broken

SendReady ==
    /\ pc = "reading" /\ phase = "ok"
    /\ Says(<<Msg("ready", Nothing)>>, "ready")
    /\ UNCHANGED <<clientVars, up, stored, method, exchange, broken>>

---------------------------------------------------------------------------
Client ==
    \/ Ok \/ Cleartext \/ Md5Password \/ Unsupported \/ Sasl \/ RandomFails
    \/ SaslContinue \/ SaslFinal \/ EndRound

Backend == Request \/ CheckPassword \/ ServerFirst \/ CheckProof \/ SendReady

Next == Connect \/ Lose \/ Client \/ Backend

Spec == Init /\ [][Next]_vars

\* What has arrived is read, and a backend that has its answer goes on.
FairSpec == Spec /\ WF_vars(Client) /\ WF_vars(Backend)

---------------------------------------------------------------------------
\* Properties.

\* With the right password no attempt, the first or a later one, is refused by the
\* backend or ended by the client itself, unless the method is not supported, a
\* message was malformed or no random number could be had (README.md:22).
AgreedIsAccepted ==
    pass = stored /\ ~broken =>
        /\ phase # "refused"
        /\ pc = "error" => unsupported \/ (method = "scram" /\ phase = "first")

\* No attempt succeeds in which the client met a list of mechanisms, a first or a
\* last message of SCRAM that it cannot use: the backend may think itself done.
BrokenNeverSucceeds == broken => pc # "done"

\* The client answers a request once, with what the backend waits for, and with a
\* nonce of its own that no other exchange has had (RFC 5802), one of a retry with the
\* same ScramAuth object included.
InStep ==
    /\ \A i, j \in 1..Len(used) : i # j => used[i] # used[j]
    /\ up # << >> =>
          /\ phase = Head(up).type /\ down = << >>
          /\ phase = "last" => Head(up).data.nonce # Nothing
                               /\ Head(up).data.nonce[1] = used[Len(used)]

\* The client and the backend do not wait for each other: every attempt ends.
HandshakeEnds == (pc = "reading") ~> (pc # "reading")
=============================================================================
