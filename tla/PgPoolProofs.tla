---------------------------- MODULE PgPoolProofs ----------------------------
(***************************************************************************)
(* Proofs about PgPool, for any number of tasks and connections.           *)
(***************************************************************************)
EXTENDS PgPool, TLAPS

---------------------------------------------------------------------------
\* Type correctness, by the actions.

LEMMA OutType ==
    ASSUME TypeOK, NEW t \in Tasks, NEW c \in Conns
    PROVE  Out(t, c) \in {"ssl", "startup", "hello", "sealed", "query"} \cup Kinds
<1>1. task[t].kind \in {"query"} \cup Kinds
  BY DEF TypeOK, TaskRecord
<1> QED BY <1>1 DEF Out

LEMMA SendType ==
    ASSUME TypeOK, NEW t \in Tasks, NEW c \in Conns, SendOn(t, c)
    PROVE  TypeOK'
<1>1. Out(t, c) \in {"ssl", "startup", "hello", "sealed", "query"} \cup Kinds
  BY OutType
<1>2. c \in 0..MaxConns
  BY PoolAssumption DEF Conns
<1>3. task[t] \in TaskRecord /\ conn[c] \in ConnRecord /\ tls \in BOOLEAN
  BY DEF TypeOK
<1>4. task' \in [Tasks -> TaskRecord]
  <2> DEFINE u == Out(t, c) \in Kinds
             s == tls /\ conn[c].st = "unopened"
  <2>1. u \in BOOLEAN /\ s \in BOOLEAN
    BY <1>3
  <2>2. task' = [task EXCEPT ![t].pc = "wait", ![t].c = c, ![t].isUser = u, ![t].sslRound = s]
    BY DEF SendOn
  <2> HIDE DEF u, s
  <2> DEFINE r == [task[t] EXCEPT !.pc = "wait", !.c = c, !.isUser = u, !.sslRound = s]
  <2>3. r \in TaskRecord
    BY <1>2, <1>3, <2>1 DEF TaskRecord
  <2>4. task' = [task EXCEPT ![t] = r]
    BY <1>3, <2>2 DEF TypeOK, TaskRecord
  <2> HIDE DEF r
  <2> QED BY <2>3, <2>4 DEF TypeOK
<1>5. conn' \in [Conns -> ConnRecord]
  <2> DEFINE o == Out(t, c)
             b == IF conn[c].be = "none" THEN "new" ELSE conn[c].be
  <2>1. b \in {"none", "new", "plain", "tls", "secure", "auth", "ready", "gone"}
    BY <1>3 DEF ConnRecord
  <2>2. conn' = [conn EXCEPT ![c] = [conn[c] EXCEPT !.st = "busy", !.be = b, !.msg = o]]
    BY <1>3 DEF SendOn, TypeOK, ConnRecord
  <2> HIDE DEF o, b
  <2>3. o \in {"ssl", "startup", "hello", "sealed", "query"} \cup Kinds
    BY <1>1 DEF o
  <2> DEFINE k == [conn[c] EXCEPT !.st = "busy", !.be = b, !.msg = o]
  <2>4. k \in ConnRecord
    BY <1>3, <2>1, <2>3 DEF ConnRecord
  <2>5. conn' = [conn EXCEPT ![c] = k]
    BY <2>2
  <2> HIDE DEF k
  <2> QED BY <2>4, <2>5 DEF TypeOK
<1> QED BY <1>4, <1>5 DEF SendOn, TypeOK

\* What a context, a startup response and a cancel hold as a pid is one, or 0.
LEMMA PidType ==
    ASSUME TypeOK, NEW t \in Tasks
    PROVE  /\ ContextPid(task[t].c) \in Nat /\ ContextOf(task[t].c) \in 0..Established
           /\ Credentials(t) \in Nat
           /\ task[t].c \in Conns => PidRead(t) \in Nat
<1>1. task[t].c \in 0..MaxConns /\ task[t].respPid \in Nat /\ task[t].spid \in Nat
  BY DEF TypeOK, TaskRecord
<1>2. task[t].c # 0 => task[t].c \in Conns
  BY <1>1, PoolAssumption DEF Conns
<1>3. ContextPid(task[t].c) \in Nat
  BY <1>2 DEF ContextPid, TypeOK, ConnRecord
<1>4. ContextOf(task[t].c) \in 0..Established
  BY <1>2 DEF ContextOf, NoContext, Established, TypeOK, ConnRecord
<1>5. task[t].c \in Conns => PidRead(t) \in Nat
  BY <1>1, PidAssumption DEF PidRead
<1> QED BY <1>1, <1>3, <1>4, <1>5 DEF Credentials

\* A task has one of the connections, or none.
LEMMA ConnOfTask ==
    ASSUME TypeOK, NEW t \in Tasks, task[t].c # 0
    PROVE  task[t].c \in Conns
<1>1. task[t].c \in 0..MaxConns
  BY DEF TypeOK, TaskRecord
<1> QED BY <1>1, PoolAssumption DEF Conns

LEMMA NewType == NewTask \in TaskRecord /\ NewConn \in ConnRecord
<1>1. 0 \in 0..MaxConns
  BY PoolAssumption
<1>2. NewTask \in TaskRecord
  BY <1>1 DEF NewTask, TaskRecord, Outcomes
<1>3. NewConn \in ConnRecord
  BY DEF NewConn, ConnRecord, NoContext, Established, TxStates
<1> QED BY <1>2, <1>3

LEMMA RoundOverType ==
    ASSUME NEW k \in ConnRecord
    PROVE  Released(k) \in ConnRecord /\ Closed(k) \in ConnRecord
  BY DEF Released, Closed, ConnRecord, TxStates

LEMMA NextRoundType ==
    ASSUME TypeOK, NEW t \in Tasks
    PROVE  NextRound(t) \in TaskRecord
<1>1. task[t] \in TaskRecord
  BY DEF TypeOK
<1> DEFINE r == IF task[t].isUser /\ ContextOf(task[t].c) # NoContext
                THEN ContextPid(task[t].c) ELSE task[t].respPid
<1>2. r \in Nat
  BY <1>1, PidType DEF TaskRecord
<1> HIDE DEF r
<1>3. NextRound(t) = [NewTask EXCEPT
        !.pc = "dispatch", !.kind = task[t].kind, !.retries = task[t].retries,
        !.sresp = task[t].sresp, !.spid = task[t].spid, !.sslResp = task[t].sslResp,
        !.key = task[t].key, !.ran = task[t].ran, !.respPid = r]
  BY DEF NextRound, r
<1> DEFINE n == [NewTask EXCEPT !.pc = "dispatch", !.kind = task[t].kind,
                                !.retries = task[t].retries, !.sresp = task[t].sresp]
<1>4. n \in TaskRecord
  BY <1>1, NewType DEF TaskRecord
<1>5. NextRound(t) = [n EXCEPT !.spid = task[t].spid, !.sslResp = task[t].sslResp,
                               !.key = task[t].key, !.ran = task[t].ran, !.respPid = r]
  BY <1>3, NewType DEF TaskRecord
<1> HIDE DEF n
<1> QED BY <1>1, <1>2, <1>4, <1>5 DEF TaskRecord

\* A connection whose task lets go of it.
LEMMA LeavesType ==
    ASSUME TypeOK, NEW t \in Tasks, NEW ctx \in 0..Established, NEW pid \in Nat,
           Leaves(t, ctx, pid)
    PROVE  conn' \in [Conns -> ConnRecord]
<1> DEFINE needed == {task[u].c : u \in {v \in Tasks \ {t} : task[v].pc \in {"wait", "handle"}}}
           k(c) == IF conn[c].st = "closed" /\ c \notin needed
                   THEN [NewConn EXCEPT !.st = "deleted"]
                   ELSE IF c = task[t].c THEN [conn[c] EXCEPT !.ctx = ctx, !.ctxPid = pid]
                   ELSE conn[c]
<1>1. conn' = [c \in Conns |-> k(c)]
  BY DEF Leaves
<1>2. ASSUME NEW c \in Conns PROVE k(c) \in ConnRecord
  <2>1. conn[c] \in ConnRecord
    BY DEF TypeOK
  <2>2. [NewConn EXCEPT !.st = "deleted"] \in ConnRecord
    BY NewType DEF ConnRecord
  <2>3. [conn[c] EXCEPT !.ctx = ctx, !.ctxPid = pid] \in ConnRecord
    BY <2>1 DEF ConnRecord
  <2> QED BY <2>1, <2>2, <2>3
<1> HIDE DEF k
<1> QED BY <1>1, <1>2

LEMMA ReplyType ==
    ASSUME TypeOK, NEW c \in Conns,
           NEW a \in TxStates \cup StartupAnswers \cup {"S", "N", "hello"},
           NEW be \in {"tls", "plain", "secure", "ready", "gone", "auth"}, Reply(c, a, be)
    PROVE  conn' \in [Conns -> ConnRecord] /\ tls' \in BOOLEAN
<1>1. conn[c] \in ConnRecord /\ tls \in BOOLEAN
  BY DEF TypeOK
<1> DEFINE f == conn[c].fault \/ (~tls /\ a \in {"error", "unsupported"})
           x == IF a \in TxStates THEN a ELSE conn[c].tx
<1>2. f \in BOOLEAN /\ x \in TxStates
  BY <1>1 DEF ConnRecord
<1>3. conn' = [conn EXCEPT ![c] = [conn[c] EXCEPT !.msg = "reply", !.ans = a, !.be = be,
                                                  !.fault = f, !.tx = x]]
  BY <1>1 DEF Reply, ConnRecord
<1> HIDE DEF f, x
<1>4. tls' = tls
  BY DEF Reply
<1> DEFINE k == [conn[c] EXCEPT !.msg = "reply", !.ans = a, !.be = be, !.fault = f, !.tx = x]
<1>5. k \in ConnRecord
  BY <1>1, <1>2 DEF ConnRecord
<1>6. conn' = [conn EXCEPT ![c] = k]
  BY <1>3
<1> HIDE DEF k
<1> QED BY <1>1, <1>4, <1>5, <1>6 DEF TypeOK

---------------------------------------------------------------------------
\* The inductive invariant, in named parts.

\* A connection that is in use has one task; a round has the connection it was given.
Held ==
    \A t \in Tasks :
        /\ task[t].pc \in {"dispatch", "wait", "handle"} => task[t].kind \in Kinds
        /\ task[t].pc = "wait" => task[t].c \in Conns /\ conn[task[t].c].st = "busy"
        /\ task[t].pc = "handle" /\ task[t].c # 0 => conn[task[t].c].st # "unopened"
        /\ \A u \in Tasks : task[t].pc = "wait" /\ task[u].pc = "wait" /\ task[t].c = task[u].c
                               => t = u

\* Only a connection in use has something on the wire, and a transaction is open only
\* while the answer that says so is on its way to the task.
OnWire ==
    \A c \in Conns :
        /\ conn[c].msg # "none" => conn[c].st = "busy"
        /\ conn[c].tx # "I" => conn[c].msg = "reply" /\ conn[c].ans = conn[c].tx
        /\ conn[c].st = "unopened" => conn[c].ctx = 0
        /\ conn[c].st = "closed" => conn[c].be = "gone"

\* A statement, and the answer to one, belong to the user's round of a task.
UserRounds ==
    \A t \in Tasks :
        task[t].pc = "wait" /\ (conn[task[t].c].msg = "query" \/ conn[task[t].c].tx # "I")
            => task[t].isUser

\* A backend that has finished the TLS handshake, or is gone.
InsideTls == {"secure", "auth", "ready", "gone"}

\* On a TLS route a round that is not the first of its connection was answered inside
\* TLS, and a context beyond the handshake belongs to such a connection.
TlsRounds ==
    tls =>
        /\ \A c \in Conns :
            /\ conn[c].msg # "startup"
            /\ conn[c].ctx = 2 /\ conn[c].st \in {"idle", "busy"} => conn[c].be \in InsideTls
            /\ conn[c].msg = "sealed" => conn[c].be \in InsideTls
        /\ \A t \in Tasks :
            /\ task[t].pc = "wait" /\ ~task[t].sslRound =>
                /\ conn[task[t].c].msg # "ssl"
                /\ conn[task[t].c].msg = "reply" => conn[task[t].c].be \in InsideTls
            /\ task[t].pc = "handle" /\ ~task[t].sslRound /\ task[t].c # 0 =>
                conn[task[t].c].st = "deleted" \/ conn[task[t].c].be \in InsideTls

\* The user's round of a statement is answered by a backend that ran it.
Answered ==
    \A t \in Tasks :
        task[t].kind = "query" /\ task[t].isUser =>
            /\ task[t].pc = "wait" =>
                \/ conn[task[t].c].msg = "query"
                \/ conn[task[t].c].msg = "reply" /\ task[t].ran
            /\ task[t].pc = "handle" /\ task[t].outcome = "SUCCESS" => task[t].ran

\* On a plain route a connection that can be used again has a session, and one that
\* ends under a statement was ended from outside.
Causes ==
    ~tls =>
        /\ \A c \in Conns :
            /\ conn[c].msg \notin {"ssl", "hello", "sealed"}
            /\ conn[c].st = "unopened" => conn[c].be = "none"
            /\ conn[c].st = "idle" \/ conn[c].msg \in {"query", "reply"}
                    => conn[c].be = "ready" \/ conn[c].fault
            /\ conn[c].msg = "startup" => conn[c].be = "new" \/ conn[c].fault
        /\ \A t \in Tasks :
            task[t].kind = "query" =>
                /\ task[t].pc = "wait" => conn[task[t].c].msg \in {"startup", "query", "reply"}
                /\ task[t].pc = "handle" /\ task[t].outcome = "ECONNRESET"
                        => task[t].c \in Conns /\ conn[task[t].c].fault

\* On a plain route the context of a session that can be used holds the pid of its own
\* backend. It gets it from a startup response, which has it once the task has had the
\* answer to a startup packet on this connection: the rounds that are not the user's are
\* startup rounds, and a round that failed has left no connection that can be used.
Keyed ==
    ~tls =>
        /\ \A c \in Conns :
            conn[c].ctx = Established /\ conn[c].st \in {"idle", "busy"}
                => conn[c].ctxPid = Pid[c]
        /\ \A t \in Tasks :
            /\ task[t].pc = "wait" /\ ~task[t].isUser =>
                \/ conn[task[t].c].msg = "startup"
                \/ conn[task[t].c].msg = "reply" /\ conn[task[t].c].ans \in StartupAnswers
            /\ /\ task[t].pc = "handle" /\ task[t].c # 0
               /\ conn[task[t].c].st \in {"idle", "busy"}
               => /\ task[t].outcome = "SUCCESS"
                  /\ ~task[t].isUser /\ task[t].sresp = "ok" => task[t].spid = Pid[task[t].c]

PoolInv ==
    /\ TypeOK /\ Held /\ OnWire /\ UserRounds /\ TlsRounds /\ Answered /\ Causes
    /\ Keyed

\* A task changes that is in no round afterwards, or has none because it could not
\* connect.
LEMMA TaskOnlyStep ==
    ASSUME PoolInv, TypeOK', NEW t \in Tasks, UNCHANGED <<tls, conn>>,
           \A u \in Tasks \ {t} : task'[u] = task[u],
           task'[t].pc # "wait",
           task'[t].pc \in {"dispatch", "handle"} => task'[t].kind \in Kinds,
           task'[t].pc = "handle" => task'[t].c = 0 /\ task'[t].outcome = "ERROR"
    PROVE  PoolInv'
<1>1. Held'
  BY DEF PoolInv, Held
<1>2. OnWire'
  BY DEF PoolInv, OnWire
<1>3. UserRounds'
  BY DEF PoolInv, UserRounds
<1>4. TlsRounds'
  BY DEF PoolInv, TlsRounds
<1>5. Answered'
  BY DEF PoolInv, Answered
<1>6. Causes'
  BY DEF PoolInv, Causes
<1>7. Keyed'
  BY DEF PoolInv, Keyed
<1> QED BY <1>1, <1>2, <1>3, <1>4, <1>5, <1>6, <1>7 DEF PoolInv

\* A task's request goes out on a connection nobody uses.
LEMMA SendStep ==
    ASSUME PoolInv, NEW t \in Tasks, NEW c \in Conns, task[t].pc = "dispatch",
           conn[c].st \in {"idle", "unopened"}, SendOn(t, c)
    PROVE  PoolInv'
<1>1. TypeOK'
  BY SendType DEF PoolInv
<1>2. /\ task'[t].pc = "wait" /\ task'[t].c = c /\ task'[t].kind = task[t].kind
      /\ task'[t].isUser = (Out(t, c) \in Kinds)
      /\ task'[t].sslRound = (tls /\ conn[c].st = "unopened")
      /\ \A u \in Tasks \ {t} : task'[u] = task[u]
  BY DEF SendOn, PoolInv, TypeOK, TaskRecord
<1>3. /\ conn'[c].st = "busy" /\ conn'[c].ctx = conn[c].ctx /\ conn'[c].tx = conn[c].tx
      /\ conn'[c].ctxPid = conn[c].ctxPid
      /\ conn'[c].be = (IF conn[c].be = "none" THEN "new" ELSE conn[c].be)
      /\ conn'[c].msg = Out(t, c)
      /\ \A d \in Conns \ {c} : conn'[d] = conn[d]
  BY DEF SendOn, PoolInv, TypeOK, ConnRecord
<1>4. conn[c].msg = "none" /\ conn[c].tx = "I"
  BY DEF PoolInv, OnWire
<1>5. \A u \in Tasks : task[u].pc = "wait" => task[u].c \in Conns \ {c}
  BY DEF PoolInv, Held
<1>6. tls' = tls /\ tls \in BOOLEAN
  BY DEF SendOn, PoolInv, TypeOK
<1>7. task[t].kind \in Kinds
  BY DEF PoolInv, Held
<1>8. Held'
  <2>1. \A u \in Tasks \ {t} : task[u].pc = "handle" => task[u].c \in 0..MaxConns
    BY DEF PoolInv, TypeOK, TaskRecord
  <2>2. \A d \in 0..MaxConns : d # 0 => d \in Conns
    BY PoolAssumption DEF Conns
  <2> QED BY <1>2, <1>3, <1>5, <1>7, <2>1, <2>2 DEF PoolInv, Held
<1>9. OnWire'
  BY <1>3, <1>4 DEF PoolInv, OnWire
<1>10. UserRounds'
  <2>1. Out(t, c) = "query" => Out(t, c) \in Kinds
    BY <1>7 DEF Out
  <2>2. ASSUME NEW u \in Tasks \ {t}, task'[u].pc = "wait"
        PROVE  task'[u] = task[u] /\ conn'[task[u].c] = conn[task[u].c]
    BY <1>2, <1>3, <1>5, <2>2
  <2>3. conn'[c].msg = "query" \/ conn'[c].tx # "I" => task'[t].isUser
    <3>1. conn'[c].tx = "I" /\ conn'[c].msg = Out(t, c)
      BY <1>3, <1>4
    <3>2. Out(t, c) = "query" => task'[t].isUser
      BY <1>2, <2>1
    <3> QED BY <3>1, <3>2
  <2>4. ASSUME NEW u \in Tasks, task'[u].pc = "wait",
               conn'[task'[u].c].msg = "query" \/ conn'[task'[u].c].tx # "I"
        PROVE  task'[u].isUser
    <3>1. CASE u = t
      BY <1>2, <2>3, <2>4, <3>1
    <3>2. CASE u # t
      BY <2>2, <2>4, <3>2 DEF PoolInv, UserRounds
    <3> QED BY <3>1, <3>2
  <2> QED BY <2>4 DEF UserRounds
<1>11. TlsRounds'
  <2> SUFFICES ASSUME tls PROVE TlsRounds'
    BY <1>6 DEF TlsRounds
  <2>1. Out(t, c) \notin {"startup", "reply"}
    BY <1>7, PoolAssumption DEF Out
  <2>2. Out(t, c) = "sealed" => conn[c].ctx = 2
    BY <1>7, PoolAssumption DEF Out
  <2>3. conn[c].ctx = 2 => conn[c].st = "idle" /\ conn[c].be \in InsideTls
    BY DEF PoolInv, OnWire, TlsRounds
  <2>4. conn[c].st # "unopened" => Out(t, c) # "ssl"
    BY <1>7, PoolAssumption DEF Out
  <2>5. conn[c].be \in InsideTls => conn'[c].be \in InsideTls
    BY <1>3 DEF InsideTls
  <2>6. \A u \in Tasks \ {t} : task[u].pc = "handle" /\ task[u].c # 0 => task[u].c \in Conns
    BY PoolAssumption DEF PoolInv, TypeOK, TaskRecord, Conns
  <2>7. \A d \in Conns : /\ conn'[d].msg # "startup"
                         /\ conn'[d].ctx = 2 /\ conn'[d].st \in {"idle", "busy"}
                               => conn'[d].be \in InsideTls
                         /\ conn'[d].msg = "sealed" => conn'[d].be \in InsideTls
    BY <1>3, <2>1, <2>2, <2>3, <2>5 DEF PoolInv, TlsRounds
  <2>8. ASSUME NEW u \in Tasks, task'[u].pc = "wait", ~task'[u].sslRound
        PROVE  /\ conn'[task'[u].c].msg # "ssl"
               /\ conn'[task'[u].c].msg = "reply" => conn'[task'[u].c].be \in InsideTls
    <3>1. CASE u = t
      BY <1>2, <1>3, <2>1, <2>4, <2>8, <3>1
    <3>2. CASE u # t
      <4>1. task'[u] = task[u] /\ conn'[task[u].c] = conn[task[u].c]
        BY <1>2, <1>3, <1>5, <2>8, <3>2
      <4> QED BY <2>8, <4>1 DEF PoolInv, TlsRounds
    <3> QED BY <3>1, <3>2
  <2>9. ASSUME NEW u \in Tasks, task'[u].pc = "handle", ~task'[u].sslRound, task'[u].c # 0
        PROVE  conn'[task'[u].c].st = "deleted" \/ conn'[task'[u].c].be \in InsideTls
    <3>1. u # t /\ task'[u] = task[u]
      BY <1>2, <2>9
    <3>2. conn[task[u].c].st = "deleted" \/ conn[task[u].c].be \in InsideTls
      BY <2>9, <3>1 DEF PoolInv, TlsRounds
    <3> QED BY <1>3, <2>5, <2>6, <2>9, <3>1, <3>2
  <2> QED BY <1>6, <2>7, <2>8, <2>9 DEF TlsRounds
<1>12. Answered'
  <2> SUFFICES ASSUME NEW u \in Tasks, task'[u].kind = "query", task'[u].isUser
               PROVE  /\ task'[u].pc = "wait" =>
                            \/ conn'[task'[u].c].msg = "query"
                            \/ conn'[task'[u].c].msg = "reply" /\ task'[u].ran
                      /\ task'[u].pc = "handle" /\ task'[u].outcome = "SUCCESS" => task'[u].ran
    BY DEF Answered
  <2>1. CASE u = t
    <3>1. Out(t, c) \in Kinds /\ task[t].kind = "query"
      BY <1>2, <2>1
    <3>2. Out(t, c) = "query"
      BY <3>1, PoolAssumption DEF Out
    <3> QED BY <1>2, <1>3, <2>1, <3>2
  <2>2. CASE u # t
    <3>1. task'[u] = task[u]
      BY <1>2, <2>2
    <3>2. task[u].pc = "wait" => conn'[task[u].c] = conn[task[u].c]
      BY <1>3, <1>5
    <3> QED BY <2>2, <3>1, <3>2 DEF PoolInv, Answered
  <2> QED BY <2>1, <2>2
<1>13. Causes'
  <2> SUFFICES ASSUME ~tls PROVE Causes'
    BY <1>6 DEF Causes
  <2>0. conn'[c].fault = conn[c].fault
    BY DEF SendOn, PoolInv, TypeOK, ConnRecord
  <2>1. Out(t, c) \in {"startup", "query", "disconnect", "cancel"}
    BY <1>7, PoolAssumption DEF Out
  <2>2. Out(t, c) = "query" => conn[c].st = "idle"
    BY DEF Out
  <2>3. Out(t, c) = "startup" => conn[c].st = "unopened"
    BY <1>7, PoolAssumption DEF Out
  <2>4. task[t].kind = "query" => Out(t, c) \in {"startup", "query"}
    BY DEF Out
  <2>5. conn'[c].msg = "query" => conn'[c].be = "ready" \/ conn'[c].fault
    BY <1>3, <2>0, <2>2 DEF PoolInv, Causes
  <2>6. conn'[c].msg = "startup" => conn'[c].be = "new"
    BY <1>3, <2>3 DEF PoolInv, Causes
  <2>7. \A d \in Conns :
            /\ conn'[d].msg \notin {"ssl", "hello", "sealed"}
            /\ conn'[d].st = "unopened" => conn'[d].be = "none"
            /\ conn'[d].st = "idle" \/ conn'[d].msg \in {"query", "reply"}
                    => conn'[d].be = "ready" \/ conn'[d].fault
            /\ conn'[d].msg = "startup" => conn'[d].be = "new" \/ conn'[d].fault
    BY <1>3, <2>1, <2>5, <2>6 DEF PoolInv, Causes
  <2>8. ASSUME NEW u \in Tasks, task'[u].kind = "query"
        PROVE  /\ task'[u].pc = "wait" => conn'[task'[u].c].msg \in {"startup", "query", "reply"}
               /\ task'[u].pc = "handle" /\ task'[u].outcome = "ECONNRESET"
                        => task'[u].c \in Conns /\ conn'[task'[u].c].fault
    <3>1. CASE u = t
      BY <1>2, <1>3, <2>4, <2>8, <3>1
    <3>2. CASE u # t
      <4>1. task'[u] = task[u]
        BY <1>2, <3>2
      <4>2. task[u].pc = "wait" => conn'[task[u].c] = conn[task[u].c]
        BY <1>3, <1>5
      <4> QED BY <1>3, <2>0, <2>8, <4>1, <4>2 DEF PoolInv, Causes
    <3> QED BY <3>1, <3>2
  <2> QED BY <1>6, <2>7, <2>8 DEF Causes
<1>14. Keyed'
  <2> SUFFICES ASSUME ~tls PROVE Keyed'
    BY <1>6 DEF Keyed
  <2>1. Out(t, c) \in {"startup", "query", "disconnect", "cancel"}
    BY <1>7, PoolAssumption DEF Out
  <2>2. Out(t, c) # "startup" => Out(t, c) \in Kinds
    BY <1>7 DEF Out
  <2>3. ASSUME NEW d \in Conns, conn'[d].ctx = Established, conn'[d].st \in {"idle", "busy"}
        PROVE  conn'[d].ctxPid = Pid[d]
    <3>1. CASE d = c
      <4>1. conn[c].ctx = Established /\ conn[c].st # "unopened"
        BY <1>3, <2>3, <3>1 DEF PoolInv, OnWire, Established
      <4> QED BY <1>3, <3>1, <4>1 DEF PoolInv, Keyed
    <3>2. CASE d # c
      BY <1>3, <2>3, <3>2 DEF PoolInv, Keyed
    <3> QED BY <3>1, <3>2
  <2>4. ASSUME NEW u \in Tasks, task'[u].pc = "wait", ~task'[u].isUser
        PROVE  \/ conn'[task'[u].c].msg = "startup"
               \/ conn'[task'[u].c].msg = "reply" /\ conn'[task'[u].c].ans \in StartupAnswers
    <3>1. CASE u = t
      BY <1>2, <1>3, <2>2, <2>4, <3>1
    <3>2. CASE u # t
      <4>1. task'[u] = task[u] /\ conn'[task[u].c] = conn[task[u].c]
        BY <1>2, <1>3, <1>5, <2>4, <3>2
      <4> QED BY <2>4, <4>1 DEF PoolInv, Keyed
    <3> QED BY <3>1, <3>2
  <2>5. ASSUME NEW u \in Tasks, task'[u].pc = "handle", task'[u].c # 0,
               conn'[task'[u].c].st \in {"idle", "busy"}
        PROVE  /\ task'[u].outcome = "SUCCESS"
               /\ ~task'[u].isUser /\ task'[u].sresp = "ok" => task'[u].spid = Pid[task'[u].c]
    <3>1. u # t /\ task'[u] = task[u]
      BY <1>2, <2>5
    <3>2. conn[task[u].c].st # "unopened" /\ task[u].c \in Conns
      BY <2>5, <3>1, PoolAssumption DEF PoolInv, Held, TypeOK, TaskRecord, Conns
    <3>3. conn[task[u].c].st \in {"idle", "busy"}
      BY <1>3, <2>5, <3>1, <3>2
    <3> QED BY <2>5, <3>1, <3>3 DEF PoolInv, Keyed
  <2> QED BY <1>6, <2>3, <2>4, <2>5 DEF Keyed
<1> QED BY <1>1, <1>8, <1>9, <1>10, <1>11, <1>12, <1>13, <1>14 DEF PoolInv

\* A round is over: its connection is given back or closed.
LEMMA RoundOverStep ==
    ASSUME PoolInv, TypeOK', NEW t \in Tasks, NEW c \in Conns,
           task[t].pc = "wait", task[t].c = c, tls' = tls,
           \A u \in Tasks \ {t} : task'[u] = task[u],
           task'[t].pc = "handle", task'[t].c = c, task'[t].kind = task[t].kind,
           task'[t].sslRound = task[t].sslRound, task'[t].isUser = task[t].isUser,
           task'[t].ran = task[t].ran,
           task'[t].outcome = "SUCCESS" => conn[c].msg = "reply",
           task'[t].outcome = "ECONNRESET" => conn[c].be = "gone",
           task'[t].outcome # "SUCCESS" => conn'[c] = Closed(conn[c]),
           ~tls /\ task'[t].outcome = "SUCCESS" /\ ~task[t].isUser /\ task'[t].sresp = "ok"
               => task'[t].spid = Pid[c],
           \A d \in Conns \ {c} : conn'[d] = conn[d],
           \/ conn'[c] = Closed(conn[c])
           \/ /\ conn'[c] = Released(conn[c]) /\ conn[c].tx = "I"
              /\ conn[c].msg = "reply"
    PROVE  PoolInv'
<1>1. conn[c].st = "busy" /\ task[t].kind \in Kinds
  BY DEF PoolInv, Held
<1>2. \A u \in Tasks \ {t} : task[u].pc = "wait" => task[u].c \in Conns \ {c}
  BY DEF PoolInv, Held
<1>3. /\ conn'[c].msg = "none" /\ conn'[c].tx = "I" /\ conn'[c].ctx = conn[c].ctx
      /\ conn'[c].fault = conn[c].fault /\ conn'[c].ctxPid = conn[c].ctxPid
      /\ \/ conn'[c].st = "closed" /\ conn'[c].be = "gone"
         \/ conn'[c].st = "idle" /\ conn'[c].be = conn[c].be /\ conn[c].msg = "reply"
  <2>1. conn[c] \in ConnRecord
    BY DEF PoolInv, TypeOK
  <2>2. CASE conn'[c] = Closed(conn[c])
    BY <2>1, <2>2 DEF Closed, ConnRecord
  <2>3. CASE conn'[c] = Released(conn[c]) /\ conn[c].tx = "I" /\ conn[c].msg = "reply"
    BY <2>1, <2>3 DEF Released, ConnRecord
  <2> QED BY <2>2, <2>3
<1>4. \A u \in Tasks : task[u].pc = "handle" /\ task[u].c # 0 => task[u].c \in Conns
  BY ConnOfTask DEF PoolInv
<1>5. Held'
  BY <1>1, <1>2, <1>3, <1>4 DEF PoolInv, Held
<1>6. OnWire'
  BY <1>3 DEF PoolInv, OnWire
<1>7. UserRounds'
  <2> SUFFICES ASSUME NEW u \in Tasks, task'[u].pc = "wait",
                      conn'[task'[u].c].msg = "query" \/ conn'[task'[u].c].tx # "I"
               PROVE  task'[u].isUser
    BY DEF UserRounds
  <2>1. u # t
    OBVIOUS
  <2> QED BY <1>2, <2>1 DEF PoolInv, UserRounds
<1>8. TlsRounds'
  <2> SUFFICES ASSUME tls PROVE TlsRounds'
    BY DEF TlsRounds
  <2>1. conn[c].be \in InsideTls => conn'[c].be \in InsideTls
    BY <1>3 DEF InsideTls
  <2>2. ~task[t].sslRound => conn'[c].be \in InsideTls
    BY <1>3 DEF PoolInv, TlsRounds, InsideTls
  <2>3. \A d \in Conns : /\ conn'[d].msg # "startup"
                         /\ conn'[d].ctx = 2 /\ conn'[d].st \in {"idle", "busy"}
                               => conn'[d].be \in InsideTls
                         /\ conn'[d].msg = "sealed" => conn'[d].be \in InsideTls
    BY <1>1, <1>3, <2>1 DEF PoolInv, TlsRounds
  <2>4. ASSUME NEW u \in Tasks, task'[u].pc = "wait", ~task'[u].sslRound
        PROVE  /\ conn'[task'[u].c].msg # "ssl"
               /\ conn'[task'[u].c].msg = "reply" => conn'[task'[u].c].be \in InsideTls
    <3>1. u # t /\ task'[u] = task[u] /\ conn'[task[u].c] = conn[task[u].c]
      BY <1>2, <2>4
    <3> QED BY <2>4, <3>1 DEF PoolInv, TlsRounds
  <2>5. ASSUME NEW u \in Tasks, task'[u].pc = "handle", ~task'[u].sslRound, task'[u].c # 0
        PROVE  conn'[task'[u].c].st = "deleted" \/ conn'[task'[u].c].be \in InsideTls
    <3>1. CASE u = t
      BY <2>2, <2>5, <3>1
    <3>2. CASE u # t
      <4>1. task'[u] = task[u] /\ task[u].c \in Conns
        BY <1>4, <2>5, <3>2
      <4>2. conn[task[u].c].st = "deleted" \/ conn[task[u].c].be \in InsideTls
        BY <2>5, <4>1 DEF PoolInv, TlsRounds
      <4> QED BY <1>1, <2>1, <4>1, <4>2
    <3> QED BY <3>1, <3>2
  <2> QED BY <2>3, <2>4, <2>5 DEF TlsRounds
<1>9. Answered'
  <2> SUFFICES ASSUME NEW u \in Tasks, task'[u].kind = "query", task'[u].isUser
               PROVE  /\ task'[u].pc = "wait" =>
                            \/ conn'[task'[u].c].msg = "query"
                            \/ conn'[task'[u].c].msg = "reply" /\ task'[u].ran
                      /\ task'[u].pc = "handle" /\ task'[u].outcome = "SUCCESS" => task'[u].ran
    BY DEF Answered
  <2>1. CASE u = t
    BY <2>1 DEF PoolInv, Answered
  <2>2. CASE u # t
    <3>1. task'[u] = task[u]
      BY <2>2
    <3>2. task[u].pc = "wait" => conn'[task[u].c] = conn[task[u].c]
      BY <1>2, <2>2
    <3> QED BY <2>2, <3>1, <3>2 DEF PoolInv, Answered
  <2> QED BY <2>1, <2>2
<1>10. Causes'
  <2> SUFFICES ASSUME ~tls PROVE Causes'
    BY DEF Causes
  <2>1. \A d \in Conns :
            /\ conn'[d].msg \notin {"ssl", "hello", "sealed"}
            /\ conn'[d].st = "unopened" => conn'[d].be = "none"
            /\ conn'[d].st = "idle" \/ conn'[d].msg \in {"query", "reply"}
                    => conn'[d].be = "ready" \/ conn'[d].fault
            /\ conn'[d].msg = "startup" => conn'[d].be = "new" \/ conn'[d].fault
    BY <1>3 DEF PoolInv, Causes
  <2>2. ASSUME NEW u \in Tasks, task'[u].kind = "query"
        PROVE  /\ task'[u].pc = "wait" => conn'[task'[u].c].msg \in {"startup", "query", "reply"}
               /\ task'[u].pc = "handle" /\ task'[u].outcome = "ECONNRESET"
                        => task'[u].c \in Conns /\ conn'[task'[u].c].fault
    <3>1. CASE u = t
      <4>1. conn[c].be = "gone" => conn[c].fault
        BY <2>2, <3>1 DEF PoolInv, Causes
      <4> QED BY <1>3, <3>1, <4>1
    <3>2. CASE u # t
      <4>1. task'[u] = task[u]
        BY <3>2
      <4>2. task[u].pc = "wait" => conn'[task[u].c] = conn[task[u].c]
        BY <1>2, <3>2
      <4> QED BY <1>3, <2>2, <4>1, <4>2 DEF PoolInv, Causes
    <3> QED BY <3>1, <3>2
  <2> QED BY <2>1, <2>2 DEF Causes
<1>11. Keyed'
  <2> SUFFICES ASSUME ~tls PROVE Keyed'
    BY DEF Keyed
  <2>1. ASSUME NEW d \in Conns, conn'[d].ctx = Established, conn'[d].st \in {"idle", "busy"}
        PROVE  conn'[d].ctxPid = Pid[d]
    BY <1>1, <1>3, <2>1 DEF PoolInv, Keyed
  <2>2. ASSUME NEW u \in Tasks, task'[u].pc = "wait", ~task'[u].isUser
        PROVE  \/ conn'[task'[u].c].msg = "startup"
               \/ conn'[task'[u].c].msg = "reply" /\ conn'[task'[u].c].ans \in StartupAnswers
    <3>1. u # t /\ task'[u] = task[u] /\ conn'[task[u].c] = conn[task[u].c]
      BY <1>2, <2>2
    <3> QED BY <2>2, <3>1 DEF PoolInv, Keyed
  <2>3. ASSUME NEW u \in Tasks, task'[u].pc = "handle", task'[u].c # 0,
               conn'[task'[u].c].st \in {"idle", "busy"}
        PROVE  /\ task'[u].outcome = "SUCCESS"
               /\ ~task'[u].isUser /\ task'[u].sresp = "ok" => task'[u].spid = Pid[task'[u].c]
    <3>1. CASE u = t
      <4>1. conn[c] \in ConnRecord /\ conn'[c].st # "closed"
        BY <2>3, <3>1 DEF PoolInv, TypeOK
      <4>2. Closed(conn[c]).st = "closed"
        BY <4>1 DEF Closed, ConnRecord
      <4>3. task'[t].outcome = "SUCCESS"
        BY <4>1, <4>2
      <4> QED BY <3>1, <4>3
    <3>2. CASE u # t
      <4>1. task'[u] = task[u] /\ task[u].c \in Conns
        BY <1>4, <2>3, <3>2
      <4>2. conn[task[u].c].st \in {"idle", "busy"}
        BY <1>1, <2>3, <4>1
      <4> QED BY <2>3, <4>1, <4>2 DEF PoolInv, Keyed
    <3> QED BY <3>1, <3>2
  <2> QED BY <2>1, <2>2, <2>3 DEF Keyed
<1> QED BY <1>5, <1>6, <1>7, <1>8, <1>9, <1>10, <1>11 DEF PoolInv

\* Receive gives back a connection only outside a transaction.
LEMMA StaysOutside ==
    ASSUME PoolInv, NEW t \in Tasks, NEW c \in Conns, task[t].pc = "wait", task[t].c = c,
           Stays(t, conn[c].ans)
    PROVE  conn[c].tx = "I"
<1> SUFFICES ASSUME conn[c].tx # "I" PROVE FALSE
  OBVIOUS
<1>1. conn[c].ans = conn[c].tx /\ conn[c].tx \in {"T", "E"}
  BY DEF PoolInv, OnWire, TypeOK, ConnRecord, TxStates
<1>2. task[t].isUser
  BY DEF PoolInv, UserRounds
<1> QED BY <1>1, <1>2 DEF Stays, KeepsSocket

LEMMA ReceiveStep ==
    ASSUME PoolInv, NEW t \in Tasks, Receive(t)
    PROVE  PoolInv'
<1> DEFINE c == task[t].c
           a == conn[c].ans
<1>1. c \in Conns /\ task[t].pc = "wait" /\ task[t] \in TaskRecord /\ tls \in BOOLEAN
  BY DEF Receive, PoolInv, Held, TypeOK
<1>2. conn[c] \in ConnRecord
  BY <1>1 DEF PoolInv, TypeOK
<1> DEFINE sr == StartupRead(task[t].sresp, a)
           sp == PidRead(t)
           ss == IF a \in {"S", "N"} THEN a ELSE task[t].sslResp
           r == [task[t] EXCEPT !.pc = "handle", !.outcome = "SUCCESS",
                                !.sslResp = ss, !.sresp = sr, !.spid = sp]
           k == IF Stays(t, a) THEN Released(conn[c]) ELSE Closed(conn[c])
<1>3. /\ ss \in {"null", "S", "N"} /\ sr \in {"null", "ok", "version", "error"}
      /\ sp \in Nat
  BY <1>1, PidType DEF TaskRecord, StartupRead, PoolInv
<1>14. ~tls /\ ~task[t].isUser /\ sr = "ok" => sp = Pid[c]
  <2> SUFFICES ASSUME ~tls, ~task[t].isUser, sr = "ok" PROVE sp = Pid[c]
    OBVIOUS
  <2>1. a \in StartupAnswers
    BY <1>1 DEF Receive, PoolInv, Keyed
  <2>2. a = "ready"
    BY <2>1 DEF StartupAnswers, StartupRead
  <2> QED BY <2>2 DEF PidRead, TellsPid
<1>4. task' = [task EXCEPT ![t] = r] /\ tls' = tls
  BY <1>1 DEF Receive, TaskRecord
<1>5. conn' = [conn EXCEPT ![c] = k] /\ conn[c].msg = "reply"
  BY <1>1 DEF Receive
<1>6. k \in ConnRecord
  BY <1>2, RoundOverType
<1>7. k = Closed(conn[c]) \/ (k = Released(conn[c]) /\ conn[c].tx = "I")
  BY <1>1, StaysOutside
<1> HIDE DEF ss, sr, sp
<1>8. r \in TaskRecord
  BY <1>1, <1>3 DEF TaskRecord, Outcomes
<1>9. /\ r.pc = "handle" /\ r.c = c /\ r.kind = task[t].kind /\ r.sslRound = task[t].sslRound
      /\ r.isUser = task[t].isUser /\ r.ran = task[t].ran /\ r.outcome = "SUCCESS"
      /\ r.sresp = sr /\ r.spid = sp
  BY <1>1 DEF TaskRecord
<1> HIDE DEF r, k, c
<1>10. TypeOK'
  BY <1>1, <1>4, <1>5, <1>6, <1>8 DEF PoolInv, TypeOK
<1>11. task'[t] = r /\ conn'[c] = k /\ \A u \in Tasks \ {t} : task'[u] = task[u]
  BY <1>1, <1>4, <1>5 DEF PoolInv, TypeOK
<1>12. \A d \in Conns \ {c} : conn'[d] = conn[d]
  BY <1>5 DEF PoolInv, TypeOK
<1>13. task[t].c = c
  BY DEF c
<1> QED BY <1>1, <1>4, <1>5, <1>7, <1>9, <1>10, <1>11, <1>12, <1>13, <1>14, RoundOverStep

LEMMA BreakStep ==
    ASSUME PoolInv, NEW t \in Tasks, NEW errno \in Outcomes, task[t].pc = "wait",
           Break(t, errno), errno # "SUCCESS",
           errno = "ECONNRESET" => conn[task[t].c].be = "gone"
    PROVE  PoolInv'
<1> DEFINE c == task[t].c
<1>1. c \in Conns /\ task[t] \in TaskRecord /\ tls \in BOOLEAN
  BY DEF PoolInv, Held, TypeOK
<1>2. conn[c] \in ConnRecord
  BY <1>1 DEF PoolInv, TypeOK
<1>3. PICK s \in Partly(t) :
        task' = [task EXCEPT ![t] = [task[t] EXCEPT !.pc = "handle", !.outcome = errno,
                                            !.sresp = s.sresp, !.spid = s.spid]]
  BY DEF Break
<1>13. s.sresp \in {"null", "ok", "version", "error"} /\ s.spid \in Nat
  <2>1. /\ task[t].sresp \in {"null", "ok", "version", "error"} /\ task[t].spid \in Nat
        /\ PidRead(t) \in Nat
    BY <1>1, PidType DEF TaskRecord, PoolInv
  <2>2. StartupRead(task[t].sresp, conn[c].ans) \in {"null", "ok", "version", "error"}
    BY <2>1 DEF StartupRead
  <2> QED BY <2>1, <2>2 DEF Partly
<1> DEFINE r == [task[t] EXCEPT !.pc = "handle", !.outcome = errno,
                                !.sresp = s.sresp, !.spid = s.spid]
<1>4. task' = [task EXCEPT ![t] = r]
  BY <1>3
<1>5. r \in TaskRecord
  BY <1>1, <1>13 DEF TaskRecord
<1>6. /\ r.pc = "handle" /\ r.c = c /\ r.kind = task[t].kind /\ r.sslRound = task[t].sslRound
      /\ r.isUser = task[t].isUser /\ r.ran = task[t].ran /\ r.outcome = errno
  BY <1>1 DEF TaskRecord
<1>7. conn' = [conn EXCEPT ![c] = Closed(conn[c])] /\ tls' = tls
  BY DEF Break
<1>8. Closed(conn[c]) \in ConnRecord
  BY <1>2, RoundOverType
<1>9. task[t].c = c
  OBVIOUS
<1> HIDE DEF r, c
<1>10. TypeOK'
  BY <1>1, <1>4, <1>5, <1>7, <1>8 DEF PoolInv, TypeOK
<1>11. task'[t] = r /\ \A u \in Tasks \ {t} : task'[u] = task[u]
  BY <1>4 DEF PoolInv, TypeOK
<1>12. conn'[c] = Closed(conn[c]) /\ \A d \in Conns \ {c} : conn'[d] = conn[d]
  BY <1>1, <1>7 DEF PoolInv, TypeOK
<1> QED BY <1>1, <1>6, <1>7, <1>9, <1>10, <1>11, <1>12, RoundOverStep

\* What a task may leave as the context of a connection that can be used: the state of
\* a handshake that its backend has done, and a session with the pid of its backend.
Fits(t, ctx, pid) ==
    LET c == task[t].c IN
    c # 0 /\ conn[c].st \in {"idle", "busy"} =>
        /\ tls /\ ctx = 2 => conn[c].be \in InsideTls
        /\ ~tls /\ ctx = Established => pid = Pid[c]

\* A task lets go of its connection: for its next round, or for good.
LEMMA LeavesStep ==
    ASSUME PoolInv, NEW t \in Tasks, NEW ctx \in 0..Established, NEW pid \in Nat,
           task[t].pc = "handle", Leaves(t, ctx, pid), tls' = tls,
           task' \in [Tasks -> TaskRecord],
           \A u \in Tasks \ {t} : task'[u] = task[u],
           task'[t].pc \in {"dispatch", "done"},
           task'[t].pc = "dispatch" => task'[t].kind = task[t].kind,
           Fits(t, ctx, pid)
    PROVE  PoolInv'
<1> DEFINE needed == {task[u].c : u \in {v \in Tasks \ {t} : task[v].pc \in {"wait", "handle"}}}
<1>1. TypeOK'
  BY LeavesType DEF PoolInv, TypeOK
<1>2. ASSUME NEW d \in Conns
      PROVE  \/ /\ conn[d].st = "closed" /\ d \notin needed
                /\ conn'[d] = [NewConn EXCEPT !.st = "deleted"]
             \/ d = task[t].c /\ conn'[d] = [conn[d] EXCEPT !.ctx = ctx, !.ctxPid = pid]
             \/ conn'[d] = conn[d]
  BY DEF Leaves
<1>3. ASSUME NEW d \in Conns
      PROVE  /\ \/ /\ conn[d].st = "closed" /\ d \notin needed
                   /\ conn'[d].st = "deleted" /\ conn'[d].be = "none"
                   /\ conn'[d].msg = "none" /\ conn'[d].tx = "I"
                \/ UNCHANGED <<conn[d].st, conn[d].be, conn[d].msg, conn[d].tx, conn[d].ans,
                               conn[d].fault>>
             /\ \/ conn'[d].ctx = conn[d].ctx /\ conn'[d].ctxPid = conn[d].ctxPid
                \/ conn'[d].st = "deleted"
                \/ conn'[d].ctx = ctx /\ conn'[d].ctxPid = pid /\ d = task[t].c
  <2>1. conn[d] \in ConnRecord
    BY DEF PoolInv, TypeOK
  <2>2. CASE /\ conn[d].st = "closed" /\ d \notin needed
             /\ conn'[d] = [NewConn EXCEPT !.st = "deleted"]
    BY <2>2 DEF NewConn
  <2>3. CASE d = task[t].c /\ conn'[d] = [conn[d] EXCEPT !.ctx = ctx, !.ctxPid = pid]
    BY <2>1, <2>3 DEF ConnRecord
  <2>4. CASE conn'[d] = conn[d]
    BY <2>4
  <2> QED BY <1>2, <2>2, <2>3, <2>4
<1>4. \A u \in Tasks \ {t} : task[u].pc \in {"wait", "handle"} => task[u].c \in needed
  OBVIOUS
<1>5. ASSUME NEW u \in Tasks, u # t, task[u].pc \in {"wait", "handle"}, task[u].c \in Conns
      PROVE  UNCHANGED <<conn[task[u].c].st, conn[task[u].c].be, conn[task[u].c].msg,
                         conn[task[u].c].tx, conn[task[u].c].ans, conn[task[u].c].fault>>
  BY <1>3, <1>4, <1>5
<1> HIDE DEF needed
<1>6. \A u \in Tasks : task[u].pc = "handle" /\ task[u].c # 0 => task[u].c \in Conns
  BY ConnOfTask DEF PoolInv
<1>7. \A u \in Tasks : task[u].pc = "wait" => task[u].c \in Conns
  BY DEF PoolInv, Held
<1>8. \A u \in Tasks : task'[u].pc \in {"wait", "handle"} => u # t /\ task'[u] = task[u]
  OBVIOUS
<1>9. Held'
  BY <1>5, <1>6, <1>7, <1>8 DEF PoolInv, Held
<1>10. OnWire'
  <2> SUFFICES ASSUME NEW d \in Conns
               PROVE  /\ conn'[d].msg # "none" => conn'[d].st = "busy"
                      /\ conn'[d].tx # "I" => conn'[d].msg = "reply" /\ conn'[d].ans = conn'[d].tx
                      /\ conn'[d].st = "unopened" => conn'[d].ctx = 0
                      /\ conn'[d].st = "closed" => conn'[d].be = "gone"
    BY DEF OnWire
  <2>1. conn'[d].st = "unopened" => conn[d].st = "unopened" /\ d # task[t].c
    BY <1>3, PoolAssumption DEF PoolInv, Held, Conns
  <2> QED BY <1>3, <2>1 DEF PoolInv, OnWire
<1>11. UserRounds'
  <2> SUFFICES ASSUME NEW u \in Tasks, task'[u].pc = "wait",
                      conn'[task'[u].c].msg = "query" \/ conn'[task'[u].c].tx # "I"
               PROVE  task'[u].isUser
    BY DEF UserRounds
  <2> QED BY <1>5, <1>7, <1>8 DEF PoolInv, UserRounds
<1>12. TlsRounds'
  <2> SUFFICES ASSUME tls PROVE TlsRounds'
    BY DEF TlsRounds
  <2>1. ASSUME NEW d \in Conns
        PROVE  /\ conn'[d].msg # "startup"
               /\ conn'[d].msg = "sealed" => conn'[d].be \in InsideTls
    BY <1>3 DEF PoolInv, TlsRounds
  <2>2. ASSUME NEW d \in Conns, conn'[d].ctx = 2, conn'[d].st \in {"idle", "busy"}
        PROVE  conn'[d].be \in InsideTls
    <3>1. UNCHANGED <<conn[d].st, conn[d].be>>
      BY <1>3, <2>2
    <3>2. CASE conn[d].ctx = 2
      BY <2>2, <3>1, <3>2 DEF PoolInv, TlsRounds
    <3>3. CASE ctx = 2 /\ d = task[t].c
      BY <2>2, <3>1, <3>3, PoolAssumption DEF Conns, Fits
    <3> QED BY <1>3, <2>2, <3>2, <3>3
  <2>3. ASSUME NEW u \in Tasks, task'[u].pc = "wait", ~task'[u].sslRound
        PROVE  /\ conn'[task'[u].c].msg # "ssl"
               /\ conn'[task'[u].c].msg = "reply" => conn'[task'[u].c].be \in InsideTls
    BY <1>5, <1>7, <1>8, <2>3 DEF PoolInv, TlsRounds
  <2>4. ASSUME NEW u \in Tasks, task'[u].pc = "handle", ~task'[u].sslRound, task'[u].c # 0
        PROVE  conn'[task'[u].c].st = "deleted" \/ conn'[task'[u].c].be \in InsideTls
    BY <1>5, <1>6, <1>8, <2>4 DEF PoolInv, TlsRounds
  <2> QED BY <2>1, <2>2, <2>3, <2>4 DEF TlsRounds
<1>13. Answered'
  <2> SUFFICES ASSUME NEW u \in Tasks, task'[u].kind = "query", task'[u].isUser
               PROVE  /\ task'[u].pc = "wait" =>
                            \/ conn'[task'[u].c].msg = "query"
                            \/ conn'[task'[u].c].msg = "reply" /\ task'[u].ran
                      /\ task'[u].pc = "handle" /\ task'[u].outcome = "SUCCESS" => task'[u].ran
    BY DEF Answered
  <2>1. task'[u].pc \in {"wait", "handle"} => u # t /\ task'[u] = task[u]
    BY <1>8
  <2>2. u # t /\ task[u].pc = "wait" => UNCHANGED conn[task[u].c].msg
    BY <1>5, <1>7
  <2> QED BY <2>1, <2>2 DEF PoolInv, Answered
<1>14. Causes'
  <2> SUFFICES ASSUME ~tls PROVE Causes'
    BY DEF Causes
  <2>1. ASSUME NEW d \in Conns
        PROVE  /\ conn'[d].msg \notin {"ssl", "hello", "sealed"}
               /\ conn'[d].st = "unopened" => conn'[d].be = "none"
               /\ conn'[d].st = "idle" \/ conn'[d].msg \in {"query", "reply"}
                       => conn'[d].be = "ready" \/ conn'[d].fault
               /\ conn'[d].msg = "startup" => conn'[d].be = "new" \/ conn'[d].fault
    BY <1>3 DEF PoolInv, Causes
  <2>2. ASSUME NEW u \in Tasks, task'[u].kind = "query"
        PROVE  /\ task'[u].pc = "wait" => conn'[task'[u].c].msg \in {"startup", "query", "reply"}
               /\ task'[u].pc = "handle" /\ task'[u].outcome = "ECONNRESET"
                        => task'[u].c \in Conns /\ conn'[task'[u].c].fault
    <3>1. CASE task'[u].pc = "wait"
      <4>1. u # t /\ task'[u] = task[u] /\ UNCHANGED conn[task[u].c].msg
        BY <1>5, <1>7, <1>8, <3>1
      <4> QED BY <2>2, <3>1, <4>1 DEF PoolInv, Causes
    <3>2. CASE task'[u].pc = "handle" /\ task'[u].outcome = "ECONNRESET"
      <4>1. u # t /\ task'[u] = task[u]
        BY <1>8, <3>2
      <4>2. task[u].c \in Conns /\ conn[task[u].c].fault
        BY <2>2, <3>2, <4>1 DEF PoolInv, Causes
      <4>3. UNCHANGED conn[task[u].c].fault
        BY <1>5, <3>2, <4>1, <4>2
      <4> QED BY <3>2, <4>1, <4>2, <4>3
    <3> QED BY <3>1, <3>2
  <2> QED BY <2>1, <2>2 DEF Causes
<1>15. Keyed'
  <2> SUFFICES ASSUME ~tls PROVE Keyed'
    BY DEF Keyed
  <2>1. ASSUME NEW d \in Conns, conn'[d].ctx = Established, conn'[d].st \in {"idle", "busy"}
        PROVE  conn'[d].ctxPid = Pid[d]
    <3>1. conn[d].st \in {"idle", "busy"}
      BY <1>3, <2>1
    <3>2. CASE conn'[d].ctx = conn[d].ctx /\ conn'[d].ctxPid = conn[d].ctxPid
      BY <2>1, <3>1, <3>2 DEF PoolInv, Keyed
    <3>3. CASE conn'[d].ctx = ctx /\ conn'[d].ctxPid = pid /\ d = task[t].c
      BY <2>1, <3>1, <3>3, PoolAssumption DEF Conns, Fits
    <3> QED BY <1>3, <2>1, <3>2, <3>3
  <2>2. ASSUME NEW u \in Tasks, task'[u].pc = "wait", ~task'[u].isUser
        PROVE  \/ conn'[task'[u].c].msg = "startup"
               \/ conn'[task'[u].c].msg = "reply" /\ conn'[task'[u].c].ans \in StartupAnswers
    <3>1. u # t /\ task'[u] = task[u] /\ UNCHANGED <<conn[task[u].c].msg, conn[task[u].c].ans>>
      BY <1>5, <1>7, <1>8, <2>2
    <3> QED BY <2>2, <3>1 DEF PoolInv, Keyed
  <2>3. ASSUME NEW u \in Tasks, task'[u].pc = "handle", task'[u].c # 0,
               conn'[task'[u].c].st \in {"idle", "busy"}
        PROVE  /\ task'[u].outcome = "SUCCESS"
               /\ ~task'[u].isUser /\ task'[u].sresp = "ok" => task'[u].spid = Pid[task'[u].c]
    <3>1. u # t /\ task'[u] = task[u] /\ UNCHANGED conn[task[u].c].st
      BY <1>5, <1>6, <1>8, <2>3
    <3> QED BY <2>3, <3>1 DEF PoolInv, Keyed
  <2> QED BY <2>1, <2>2, <2>3 DEF Keyed
<1> QED BY <1>1, <1>9, <1>10, <1>11, <1>12, <1>13, <1>14, <1>15 DEF PoolInv

LEMMA ContinueStep ==
    ASSUME PoolInv, NEW t \in Tasks, NEW ctx \in 0..Established, NEW pid \in Nat,
           task[t].pc = "handle", Continue(t, ctx, pid),
           Fits(t, ctx, pid)
    PROVE  PoolInv'
<1>1. NextRound(t) \in TaskRecord
  BY NextRoundType DEF PoolInv
<1>2. NextRound(t).pc = "dispatch" /\ NextRound(t).kind = task[t].kind
  BY DEF NextRound, NewTask
<1>3. task' = [task EXCEPT ![t] = NextRound(t)] /\ Leaves(t, ctx, pid) /\ tls' = tls
  BY DEF Continue
<1>4. task' \in [Tasks -> TaskRecord]
  BY <1>1, <1>3 DEF PoolInv, TypeOK
<1>5. task'[t] = NextRound(t) /\ \A u \in Tasks \ {t} : task'[u] = task[u]
  BY <1>3 DEF PoolInv, TypeOK
<1> QED BY <1>2, <1>3, <1>4, <1>5, LeavesStep

\* Without a change of its context.
LEMMA KeepsStep ==
    ASSUME PoolInv, NEW t \in Tasks, NEW r \in TaskRecord, task[t].pc = "handle", Keeps(t),
           tls' = tls, task' = [task EXCEPT ![t] = r], r.pc \in {"dispatch", "done"},
           r.pc = "dispatch" => r.kind = task[t].kind
    PROVE  PoolInv'
<1> DEFINE ctx == ContextOf(task[t].c)
           pid == ContextPid(task[t].c)
<1>1. task[t].c # 0 => task[t].c \in Conns
  BY ConnOfTask DEF PoolInv
<1>2. ctx \in 0..Established /\ pid \in Nat
  BY PidType DEF PoolInv
<1>3. Leaves(t, ctx, pid)
  BY DEF Keeps
<1>4. task' \in [Tasks -> TaskRecord]
  BY DEF PoolInv, TypeOK
<1>5. task'[t] = r /\ \A u \in Tasks \ {t} : task'[u] = task[u]
  BY DEF PoolInv, TypeOK
<1>6. Fits(t, ctx, pid)
  <2> SUFFICES ASSUME task[t].c # 0, conn[task[t].c].st \in {"idle", "busy"}
               PROVE  /\ tls /\ ctx = 2 => conn[task[t].c].be \in InsideTls
                      /\ ~tls /\ ctx = Established => pid = Pid[task[t].c]
    BY DEF Fits
  <2>1. ctx = conn[task[t].c].ctx /\ pid = conn[task[t].c].ctxPid
    BY DEF ContextOf, ContextPid
  <2> HIDE DEF ctx, pid
  <2> QED BY <1>1, <2>1 DEF PoolInv, TlsRounds, Keyed
<1> HIDE DEF ctx, pid
<1> QED BY <1>2, <1>3, <1>4, <1>5, <1>6, LeavesStep

\* Workflow closes an idle connection.
LEMMA IdleCloseStep ==
    ASSUME PoolInv, NEW c \in Conns, IdleClose(c)
    PROVE  PoolInv'
<1> DEFINE k == IF \E t \in Tasks : InRound(t) /\ task[t].c = c
                THEN Closed(conn[c]) ELSE [NewConn EXCEPT !.st = "deleted"]
<1>1. conn[c] \in ConnRecord /\ conn[c].st = "idle"
  BY DEF IdleClose, PoolInv, TypeOK
<1>2. conn' = [conn EXCEPT ![c] = k] /\ UNCHANGED <<tls, task>>
  BY DEF IdleClose
<1>3. [NewConn EXCEPT !.st = "deleted"] \in ConnRecord /\ Closed(conn[c]) \in ConnRecord
  BY <1>1, NewType, RoundOverType DEF ConnRecord
<1>4. /\ k \in ConnRecord /\ k.msg = "none" /\ k.tx = "I"
      /\ k.st = "deleted" \/ (k.st = "closed" /\ k.be = "gone")
      /\ (\E t \in Tasks : InRound(t) /\ task[t].c = c) => k.fault = conn[c].fault
  <2>0. \/ k = Closed(conn[c])
        \/ /\ k = [NewConn EXCEPT !.st = "deleted"]
           /\ ~\E t \in Tasks : InRound(t) /\ task[t].c = c
    OBVIOUS
  <2> HIDE DEF k
  <2>1. CASE k = Closed(conn[c])
    <3>1. /\ k.st = "closed" /\ k.be = "gone" /\ k.msg = "none" /\ k.tx = "I"
          /\ k.fault = conn[c].fault
      BY <1>1, <2>1 DEF Closed, ConnRecord
    <3> QED BY <1>3, <2>1, <3>1
  <2>2. CASE /\ k = [NewConn EXCEPT !.st = "deleted"]
             /\ ~\E t \in Tasks : InRound(t) /\ task[t].c = c
    <3>1. k.st = "deleted" /\ k.msg = "none" /\ k.tx = "I"
      BY <2>2 DEF NewConn
    <3> QED BY <1>3, <2>2, <3>1
  <2> QED BY <2>0, <2>1, <2>2
<1> HIDE DEF k
<1>5. TypeOK'
  BY <1>2, <1>4 DEF PoolInv, TypeOK
<1>6. conn'[c] = k /\ \A d \in Conns \ {c} : conn'[d] = conn[d]
  BY <1>2 DEF PoolInv, TypeOK
<1>7. \A t \in Tasks : task[t].pc = "wait" => task[t].c \in Conns \ {c}
  BY <1>1 DEF PoolInv, Held
<1>8. \A t \in Tasks : task[t].pc = "handle" /\ task[t].c # 0 => task[t].c \in Conns
  BY PoolAssumption DEF PoolInv, TypeOK, TaskRecord, Conns
<1>9. Held'
  BY <1>2, <1>4, <1>6, <1>7, <1>8 DEF PoolInv, Held
<1>10. OnWire'
  BY <1>4, <1>6 DEF PoolInv, OnWire
<1>11. UserRounds'
  BY <1>2, <1>6, <1>7 DEF PoolInv, UserRounds
<1>12. TlsRounds'
  BY <1>2, <1>4, <1>6, <1>7, <1>8 DEF PoolInv, TlsRounds, InsideTls
<1>13. Answered'
  BY <1>2, <1>6, <1>7 DEF PoolInv, Answered
<1>14. Causes'
  <2>1. \A t \in Tasks : task[t].pc = "handle" /\ task[t].c = c => k.fault = conn[c].fault
    BY <1>4 DEF InRound
  <2> QED BY <1>2, <1>4, <1>6, <1>7, <2>1 DEF PoolInv, Causes
<1>15. Keyed'
  BY <1>2, <1>4, <1>6, <1>7, <1>8 DEF PoolInv, Keyed
<1> QED BY <1>5, <1>9, <1>10, <1>11, <1>12, <1>13, <1>14, <1>15 DEF PoolInv

---------------------------------------------------------------------------
\* What a backend does on its connection: it goes, or answers what is on the wire.
LEMMA ServerStep ==
    ASSUME PoolInv, TypeOK', NEW c \in Conns, tls' = tls,
           \A t \in Tasks : /\ task'[t].pc = task[t].pc /\ task'[t].c = task[t].c
                            /\ task'[t].kind = task[t].kind /\ task'[t].isUser = task[t].isUser
                            /\ task'[t].sslRound = task[t].sslRound
                            /\ task'[t].outcome = task[t].outcome
                            /\ task'[t].sresp = task[t].sresp /\ task'[t].spid = task[t].spid
                            /\ task[t].ran => task'[t].ran
                            /\ /\ task[t].pc = "wait" /\ task[t].c = c
                               /\ conn[c].msg = "query" /\ conn'[c].msg = "reply"
                               => task'[t].ran,
           \A d \in Conns \ {c} : conn'[d] = conn[d],
           conn'[c].st = conn[c].st, conn'[c].ctx = conn[c].ctx,
           conn'[c].ctxPid = conn[c].ctxPid,
           conn[c].msg = "startup" /\ conn'[c].msg = "reply" => conn'[c].ans \in StartupAnswers,
           conn[c].be \in InsideTls => conn'[c].be \in InsideTls,
           conn[c].st = "busy",
           ~tls /\ conn[c].fault => conn'[c].fault,
           ~tls /\ conn'[c].msg \in {"query", "reply"} => conn'[c].be = "ready" \/ conn'[c].fault,
           ~tls /\ conn'[c].msg = "startup" => conn'[c].fault,
           \/ UNCHANGED <<conn[c].msg, conn[c].tx, conn[c].ans>>
           \/ /\ conn[c].msg \notin {"none", "reply"} /\ conn'[c].msg = "reply"
              /\ \/ conn'[c].tx = conn[c].tx
                 \/ conn[c].msg = "query" /\ conn'[c].ans = conn'[c].tx
              /\ tls /\ conn[c].msg # "ssl" => conn'[c].be \in InsideTls
    PROVE  PoolInv'
<1>1. conn[c].msg \notin {"none", "reply"} => conn[c].st = "busy" /\ conn[c].tx = "I"
  BY DEF PoolInv, OnWire
<1>2. \A t \in Tasks : task[t].pc = "handle" /\ task[t].c # 0 => task[t].c \in Conns
  BY PoolAssumption DEF PoolInv, TypeOK, TaskRecord, Conns
<1>3. \A t \in Tasks : task[t].pc = "wait" => task[t].c \in Conns
  BY DEF PoolInv, Held
<1>4. Held'
  BY <1>2, <1>3 DEF PoolInv, Held
<1>5. OnWire'
  BY <1>1 DEF PoolInv, OnWire
<1>6. UserRounds'
  <2> SUFFICES ASSUME NEW t \in Tasks, task'[t].pc = "wait",
                      conn'[task'[t].c].msg = "query" \/ conn'[task'[t].c].tx # "I"
               PROVE  task'[t].isUser
    BY DEF UserRounds
  <2>1. task[t].c \in Conns /\ task'[t].c = task[t].c /\ task[t].pc = "wait"
    BY <1>3
  <2>2. conn[task[t].c].msg = "query" \/ conn[task[t].c].tx # "I"
    BY <1>1, <2>1
  <2> QED BY <2>1, <2>2 DEF PoolInv, UserRounds
<1>7. TlsRounds'
  <2> SUFFICES ASSUME tls PROVE TlsRounds'
    BY DEF TlsRounds
  <2>1. \A d \in Conns : /\ conn'[d].msg # "startup"
                         /\ conn'[d].ctx = 2 /\ conn'[d].st \in {"idle", "busy"}
                               => conn'[d].be \in InsideTls
                         /\ conn'[d].msg = "sealed" => conn'[d].be \in InsideTls
    BY DEF PoolInv, TlsRounds
  <2>2. ASSUME NEW t \in Tasks, task'[t].pc = "wait", ~task'[t].sslRound
        PROVE  /\ conn'[task'[t].c].msg # "ssl"
               /\ conn'[task'[t].c].msg = "reply" => conn'[task'[t].c].be \in InsideTls
    <3>1. task[t].pc = "wait" /\ ~task[t].sslRound /\ task[t].c \in Conns /\ task'[t].c = task[t].c
      BY <1>3, <2>2
    <3>2. /\ conn[task[t].c].msg # "ssl"
          /\ conn[task[t].c].msg = "reply" => conn[task[t].c].be \in InsideTls
      BY <3>1 DEF PoolInv, TlsRounds
    <3> QED BY <3>1, <3>2
  <2>3. ASSUME NEW t \in Tasks, task'[t].pc = "handle", ~task'[t].sslRound, task'[t].c # 0
        PROVE  conn'[task'[t].c].st = "deleted" \/ conn'[task'[t].c].be \in InsideTls
    <3>1. /\ task[t].pc = "handle" /\ ~task[t].sslRound
          /\ task[t].c \in Conns /\ task'[t].c = task[t].c
      BY <1>2, <2>3
    <3>2. conn[task[t].c].st = "deleted" \/ conn[task[t].c].be \in InsideTls
      BY <2>3, <3>1 DEF PoolInv, TlsRounds
    <3> QED BY <3>1, <3>2
  <2> QED BY <2>1, <2>2, <2>3 DEF TlsRounds
<1>8. Answered'
  <2> SUFFICES ASSUME NEW u \in Tasks, task'[u].kind = "query", task'[u].isUser
               PROVE  /\ task'[u].pc = "wait" =>
                            \/ conn'[task'[u].c].msg = "query"
                            \/ conn'[task'[u].c].msg = "reply" /\ task'[u].ran
                      /\ task'[u].pc = "handle" /\ task'[u].outcome = "SUCCESS" => task'[u].ran
    BY DEF Answered
  <2>1. CASE task[u].pc = "wait" /\ task[u].c = c
    BY <2>1 DEF PoolInv, Answered
  <2>2. CASE task[u].pc = "wait" /\ task[u].c # c
    BY <1>3, <2>2 DEF PoolInv, Answered
  <2>3. CASE task[u].pc # "wait"
    BY <2>3 DEF PoolInv, Answered
  <2> QED BY <2>1, <2>2, <2>3
<1>9. Causes'
  <2> SUFFICES ASSUME ~tls PROVE Causes'
    BY DEF Causes
  <2>1. \A d \in Conns :
            /\ conn'[d].msg \notin {"ssl", "hello", "sealed"}
            /\ conn'[d].st = "unopened" => conn'[d].be = "none"
            /\ conn'[d].st = "idle" \/ conn'[d].msg \in {"query", "reply"}
                    => conn'[d].be = "ready" \/ conn'[d].fault
            /\ conn'[d].msg = "startup" => conn'[d].be = "new" \/ conn'[d].fault
    <3> TAKE d \in Conns
    <3>1. CASE d # c
      BY <3>1 DEF PoolInv, Causes
    <3>2. CASE d = c
      <4>1. conn[c].msg \notin {"ssl", "hello", "sealed"}
        BY DEF PoolInv, Causes
      <4>2. /\ conn'[c].msg = conn[c].msg \/ conn'[c].msg = "reply"
            /\ conn'[c].st = "busy"
        OBVIOUS
      <4> QED BY <3>2, <4>1, <4>2
    <3> QED BY <3>1, <3>2
  <2>2. ASSUME NEW u \in Tasks, task'[u].kind = "query"
        PROVE  /\ task'[u].pc = "wait" => conn'[task'[u].c].msg \in {"startup", "query", "reply"}
               /\ task'[u].pc = "handle" /\ task'[u].outcome = "ECONNRESET"
                        => task'[u].c \in Conns /\ conn'[task'[u].c].fault
    <3>1. task[u].kind = "query" /\ task'[u].pc = task[u].pc /\ task'[u].c = task[u].c
          /\ task'[u].outcome = task[u].outcome
      BY <2>2
    <3>2. task[u].pc = "wait" => conn'[task[u].c].msg \in {"startup", "query", "reply"}
      BY <1>3, <3>1 DEF PoolInv, Causes
    <3>3. task[u].pc = "handle" /\ task[u].outcome = "ECONNRESET"
             => task[u].c \in Conns /\ conn'[task[u].c].fault
      BY <3>1 DEF PoolInv, Causes
    <3> QED BY <3>1, <3>2, <3>3
  <2> QED BY <2>1, <2>2 DEF Causes
<1>10. Keyed'
  <2> SUFFICES ASSUME ~tls PROVE Keyed'
    BY DEF Keyed
  <2>1. ASSUME NEW d \in Conns, conn'[d].ctx = Established, conn'[d].st \in {"idle", "busy"}
        PROVE  conn'[d].ctxPid = Pid[d]
    BY <2>1 DEF PoolInv, Keyed
  <2>2. ASSUME NEW u \in Tasks, task'[u].pc = "wait", ~task'[u].isUser
        PROVE  \/ conn'[task'[u].c].msg = "startup"
               \/ conn'[task'[u].c].msg = "reply" /\ conn'[task'[u].c].ans \in StartupAnswers
    <3>1. task[u].pc = "wait" /\ ~task[u].isUser /\ task'[u].c = task[u].c /\ task[u].c \in Conns
      BY <1>3, <2>2
    <3>2. \/ conn[task[u].c].msg = "startup"
          \/ conn[task[u].c].msg = "reply" /\ conn[task[u].c].ans \in StartupAnswers
      BY <3>1 DEF PoolInv, Keyed
    <3>3. CASE task[u].c = c
      BY <3>1, <3>2, <3>3
    <3>4. CASE task[u].c # c
      BY <3>1, <3>2, <3>4
    <3> QED BY <3>3, <3>4
  <2>3. ASSUME NEW u \in Tasks, task'[u].pc = "handle", task'[u].c # 0,
               conn'[task'[u].c].st \in {"idle", "busy"}
        PROVE  /\ task'[u].outcome = "SUCCESS"
               /\ ~task'[u].isUser /\ task'[u].sresp = "ok" => task'[u].spid = Pid[task'[u].c]
    <3>1. /\ task[u].pc = "handle" /\ task'[u].c = task[u].c /\ task[u].c \in Conns
          /\ conn[task[u].c].st \in {"idle", "busy"}
      BY <1>2, <2>3
    <3> QED BY <2>3, <3>1 DEF PoolInv, Keyed
  <2> QED BY <2>1, <2>2, <2>3 DEF Keyed
<1> QED BY <1>4, <1>5, <1>6, <1>7, <1>8, <1>9, <1>10 DEF PoolInv

LEMMA ReplyStep ==
    ASSUME PoolInv, NEW c \in Conns,
           NEW a \in TxStates \cup StartupAnswers \cup {"S", "N", "hello"},
           NEW be \in {"tls", "plain", "secure", "ready", "gone", "auth"}, Reply(c, a, be),
           conn[c].msg \notin {"none", "reply"},
           a \in TxStates => conn[c].msg = "query",
           conn[c].msg = "startup" => a \in StartupAnswers,
           be \notin InsideTls => conn[c].msg = "ssl" /\ conn[c].be \notin InsideTls,
           ~tls => be = "ready" \/ a \in {"error", "unsupported"},
           task' \in [Tasks -> TaskRecord],
           \A t \in Tasks : /\ task'[t].pc = task[t].pc /\ task'[t].c = task[t].c
                            /\ task'[t].kind = task[t].kind /\ task'[t].isUser = task[t].isUser
                            /\ task'[t].sslRound = task[t].sslRound
                            /\ task'[t].outcome = task[t].outcome
                            /\ task'[t].sresp = task[t].sresp /\ task'[t].spid = task[t].spid
                            /\ task[t].ran => task'[t].ran
                            /\ task[t].pc = "wait" /\ task[t].c = c /\ conn[c].msg = "query"
                               => task'[t].ran
    PROVE  PoolInv'
<1>1. TypeOK' /\ tls' = tls
  <2>1. conn' \in [Conns -> ConnRecord]
    BY ReplyType DEF PoolInv
  <2>2. tls' = tls /\ tls \in BOOLEAN
    BY DEF Reply, PoolInv, TypeOK
  <2> QED BY <2>1, <2>2 DEF TypeOK
<1>2. conn[c] \in ConnRecord /\ conn[c].st = "busy"
  BY DEF PoolInv, TypeOK, OnWire
<1>3. /\ conn'[c].st = conn[c].st /\ conn'[c].ctx = conn[c].ctx /\ conn'[c].be = be
      /\ conn'[c].msg = "reply" /\ conn'[c].ans = a /\ conn'[c].ctxPid = conn[c].ctxPid
      /\ conn'[c].tx = (IF a \in TxStates THEN a ELSE conn[c].tx)
      /\ conn'[c].fault = (conn[c].fault \/ (~tls /\ a \in {"error", "unsupported"}))
  BY <1>2 DEF Reply, PoolInv, TypeOK, ConnRecord
<1>4. \A d \in Conns \ {c} : conn'[d] = conn[d]
  BY DEF Reply, PoolInv, TypeOK
<1>5. /\ conn[c].be \in InsideTls => conn'[c].be \in InsideTls
      /\ tls /\ conn[c].msg # "ssl" => conn'[c].be \in InsideTls
      /\ conn[c].fault => conn'[c].fault
      /\ ~tls => conn'[c].be = "ready" \/ conn'[c].fault
  BY <1>2, <1>3
<1>6. conn'[c].tx = conn[c].tx \/ (conn[c].msg = "query" /\ conn'[c].ans = conn'[c].tx)
  BY <1>3
<1> QED BY <1>1, <1>2, <1>3, <1>4, <1>5, <1>6, ServerStep

\* The backend is gone: what it was asked stays unanswered.
LEMMA GoneStep ==
    ASSUME PoolInv, NEW c \in Conns, NEW f \in BOOLEAN, UNCHANGED <<tls, task>>,
           conn[c].st = "busy", ~tls /\ conn[c].fault => f,
           ~tls /\ conn[c].msg \in {"startup", "query", "reply"} => f,
           conn' = [conn EXCEPT ![c] = [conn[c] EXCEPT !.be = "gone", !.fault = f]]
    PROVE  PoolInv'
<1>1. conn[c] \in ConnRecord
  BY DEF PoolInv, TypeOK
<1>2. [conn[c] EXCEPT !.be = "gone", !.fault = f] \in ConnRecord
  BY <1>1 DEF ConnRecord
<1>3. TypeOK'
  BY <1>2 DEF PoolInv, TypeOK
<1>4. /\ conn'[c].st = conn[c].st /\ conn'[c].ctx = conn[c].ctx /\ conn'[c].be = "gone"
      /\ conn'[c].fault = f /\ conn'[c].ctxPid = conn[c].ctxPid
      /\ UNCHANGED <<conn[c].msg, conn[c].tx, conn[c].ans>>
  BY <1>1 DEF PoolInv, TypeOK, ConnRecord
<1>5. \A d \in Conns \ {c} : conn'[d] = conn[d]
  BY DEF PoolInv, TypeOK
<1>6. conn'[c].be \in InsideTls
  BY <1>4 DEF InsideTls
<1> QED BY <1>3, <1>4, <1>5, <1>6, ServerStep

---------------------------------------------------------------------------
\* The actions of a task.
LEMMA ClientStep ==
    ASSUME PoolInv, NEW t \in Tasks, Client(t)
    PROVE  PoolInv'
<1>0. task[t] \in TaskRecord /\ tls \in BOOLEAN
  BY DEF PoolInv, TypeOK
<1>1. ASSUME NEW k \in Kinds, Start(t, k)
      PROVE  PoolInv'
  <2>1. task' = [task EXCEPT ![t].pc = "dispatch", ![t].kind = k] /\ UNCHANGED <<tls, conn>>
    BY <1>1 DEF Start
  <2> DEFINE r == [task[t] EXCEPT !.pc = "dispatch", !.kind = k]
  <2>2. task' = [task EXCEPT ![t] = r] /\ r \in TaskRecord /\ r.pc = "dispatch" /\ r.kind = k
    BY <1>0, <2>1 DEF TaskRecord
  <2> HIDE DEF r
  <2>3. TypeOK' /\ task'[t] = r /\ \A u \in Tasks \ {t} : task'[u] = task[u]
    BY <2>1, <2>2 DEF PoolInv, TypeOK
  <2> QED BY <2>1, <2>2, <2>3, TaskOnlyStep
<1>2. ASSUME NEW q \in Tasks \ {t}, CreateCancel(t, q)
      PROVE  PoolInv'
  <2>1. task' = [task EXCEPT ![t].pc = "dispatch", ![t].kind = "cancel", ![t].key = Credentials(q)]
        /\ UNCHANGED <<tls, conn>> /\ "cancel" \in Kinds
    BY <1>2 DEF CreateCancel
  <2>2. Credentials(q) \in Nat
    BY PidType DEF PoolInv
  <2> DEFINE r == [task[t] EXCEPT !.pc = "dispatch", !.kind = "cancel", !.key = Credentials(q)]
  <2>3. task' = [task EXCEPT ![t] = r] /\ r \in TaskRecord /\ r.pc = "dispatch" /\ r.kind = "cancel"
    <3> DEFINE key == Credentials(q)
    <3>1. key \in Nat /\ "cancel" \in {"query"} \cup Kinds
      BY <2>1, <2>2
    <3>2. task' = [task EXCEPT ![t].pc = "dispatch", ![t].kind = "cancel", ![t].key = key]
      BY <2>1
    <3> HIDE DEF key
    <3>3. task' = [task EXCEPT ![t] = [task[t] EXCEPT !.pc = "dispatch", !.kind = "cancel",
                                                      !.key = key]]
      BY <1>0, <3>2 DEF TaskRecord
    <3>4. /\ [task[t] EXCEPT !.pc = "dispatch", !.kind = "cancel", !.key = key] \in TaskRecord
          /\ r.pc = "dispatch" /\ r.kind = "cancel"
      BY <1>0, <3>1 DEF TaskRecord
    <3> QED BY <3>3, <3>4 DEF key
  <2> HIDE DEF r
  <2>4. TypeOK' /\ task'[t] = r /\ \A u \in Tasks \ {t} : task'[u] = task[u]
    <3>1. task \in [Tasks -> TaskRecord] /\ task' = [task EXCEPT ![t] = r] /\ r \in TaskRecord
      BY <2>3 DEF PoolInv, TypeOK
    <3>2. UNCHANGED <<tls, conn>>
      BY <2>1
    <3>3. task' \in [Tasks -> TaskRecord]
      BY <3>1
    <3>4. TypeOK'
      BY <3>2, <3>3 DEF PoolInv, TypeOK
    <3> QED BY <3>1, <3>4
  <2>5. /\ UNCHANGED <<tls, conn>> /\ task'[t].pc # "wait" /\ task'[t].kind \in Kinds
        /\ task'[t].pc # "handle"
    BY <2>1, <2>3, <2>4
  <2> QED BY <2>4, <2>5, TaskOnlyStep
<1>3. ASSUME NEW c \in Conns, UseIdle(t, c)
      PROVE  PoolInv'
  BY <1>3, SendStep DEF UseIdle
<1>4. ASSUME NEW c \in Conns, Connect(t, c)
      PROVE  PoolInv'
  BY <1>4, SendStep DEF Connect, NeedsConnection
<1>5. CASE ConnectFail(t)
  <2>1. task' = [task EXCEPT ![t].pc = "handle", ![t].outcome = "ERROR", ![t].c = 0]
        /\ UNCHANGED <<tls, conn>>
    BY <1>5 DEF ConnectFail
  <2>2. task[t].kind \in Kinds
    BY <1>5 DEF ConnectFail, NeedsConnection, PoolInv, Held
  <2> DEFINE r == [task[t] EXCEPT !.pc = "handle", !.outcome = "ERROR", !.c = 0]
  <2>3. 0 \in 0..MaxConns
    BY PoolAssumption
  <2>4. /\ task' = [task EXCEPT ![t] = r] /\ r \in TaskRecord
        /\ r.pc = "handle" /\ r.kind = task[t].kind /\ r.c = 0 /\ r.outcome = "ERROR"
    <3>1. task' = [task EXCEPT ![t] = r]
      BY <1>0, <2>1 DEF TaskRecord
    <3>2. r \in TaskRecord
      BY <1>0, <2>3 DEF TaskRecord, Outcomes
    <3>3. r.pc = "handle" /\ r.kind = task[t].kind /\ r.c = 0 /\ r.outcome = "ERROR"
      BY <1>0 DEF TaskRecord
    <3> HIDE DEF r
    <3> QED BY <3>1, <3>2, <3>3
  <2> HIDE DEF r
  <2>5. TypeOK' /\ task'[t] = r /\ \A u \in Tasks \ {t} : task'[u] = task[u]
    <3>1. task \in [Tasks -> TaskRecord] /\ task' = [task EXCEPT ![t] = r] /\ r \in TaskRecord
      BY <2>4 DEF PoolInv, TypeOK
    <3>2. UNCHANGED <<tls, conn>>
      BY <2>1
    <3>3. task' \in [Tasks -> TaskRecord]
      BY <3>1
    <3>4. TypeOK'
      BY <3>2, <3>3 DEF PoolInv, TypeOK
    <3> QED BY <3>1, <3>4
  <2>6. /\ UNCHANGED <<tls, conn>> /\ task'[t].pc # "wait" /\ task'[t].kind \in Kinds
        /\ task'[t].c = 0 /\ task'[t].outcome = "ERROR"
    BY <2>1, <2>2, <2>4, <2>5
  <2> QED BY <2>5, <2>6, TaskOnlyStep
<1>6. CASE Receive(t)
  BY <1>6, ReceiveStep
<1>7. CASE PeerClosed(t)
  BY <1>7, BreakStep DEF PeerClosed, Outcomes
<1>8. CASE Timeout(t)
  BY <1>8, BreakStep DEF Timeout, Outcomes
<1>9. ASSUME NEW o \in Outcomes, InRound(t), Ends(t, o)
      PROVE  PoolInv'
  <2> DEFINE r == [NewTask EXCEPT !.pc = "done", !.outcome = o]
  <2>1. r \in TaskRecord /\ r.pc = "done"
    BY NewType DEF TaskRecord
  <2>2. task' = [task EXCEPT ![t] = r] /\ Keeps(t) /\ tls' = tls
    BY <1>9 DEF Ends
  <2> HIDE DEF r
  <2> QED BY <1>9, <2>1, <2>2, KeepsStep DEF InRound
<1>10. CASE FinishRequest(t)
  BY <1>9, <1>10 DEF FinishRequest, Succeeded, Outcomes
<1>11. CASE StartTls(t)
  <2>1. task[t].pc = "handle" /\ Continue(t, 1, 0)
    BY <1>11 DEF StartTls, Succeeded, InRound, ContextAfterSsl
  <2>2. 1 \in 0..Established /\ 0 \in Nat /\ Fits(t, 1, 0)
    BY DEF Fits, Established
  <2> QED BY <2>1, <2>2, ContinueStep
<1>12. CASE HandshakeDone(t)
  <2> DEFINE pid == ContextPid(task[t].c)
  <2>1. task[t].pc = "handle" /\ ~task[t].sslRound /\ Continue(t, 2, pid)
    BY <1>12 DEF HandshakeDone, Succeeded, InRound, Handshaking, SslRound
  <2>2. 2 \in 0..Established /\ pid \in Nat
    BY PidType DEF PoolInv, Established
  <2> HIDE DEF pid
  <2>3. Fits(t, 2, pid)
    BY <2>1 DEF Fits, Established, PoolInv, TlsRounds
  <2> QED BY <2>1, <2>2, <2>3, ContinueStep
<1>13. CASE StartupDone(t)
  <2> DEFINE pid == task[t].spid
  <2>1. task[t].pc = "handle" /\ Continue(t, Established, pid) /\ ~task[t].isUser
        /\ task[t].sresp = "ok"
    BY <1>13 DEF StartupDone, Succeeded, InRound, StartupRound
  <2>2. Established \in 0..Established /\ pid \in Nat
    BY <1>0 DEF TaskRecord, Established
  <2>3. Fits(t, Established, pid)
    BY <2>1 DEF Fits, Established, PoolInv, Keyed
  <2> HIDE DEF pid
  <2> QED BY <2>1, <2>2, <2>3, ContinueStep
<1>14. CASE Rejected(t)
  BY <1>9, <1>14 DEF Rejected, Succeeded, Outcomes
<1>15. CASE NullResponse(t)
  <2>1. task' = [task EXCEPT ![t].pc = "crashed"] /\ UNCHANGED <<tls, conn>>
    BY <1>15 DEF NullResponse
  <2> DEFINE r == [task[t] EXCEPT !.pc = "crashed"]
  <2>2. task' = [task EXCEPT ![t] = r] /\ r \in TaskRecord /\ r.pc = "crashed"
    BY <1>0, <2>1 DEF TaskRecord
  <2> HIDE DEF r
  <2>3. TypeOK' /\ task'[t] = r /\ \A u \in Tasks \ {t} : task'[u] = task[u]
    BY <2>1, <2>2 DEF PoolInv, TypeOK
  <2> QED BY <2>1, <2>2, <2>3, TaskOnlyStep
<1>16. CASE FailRound(t)
  <2>1. CASE RetriesLeft(t)
    <3> DEFINE r == [NextRound(t) EXCEPT !.retries = task[t].retries + 1]
    <3>1. NextRound(t) \in TaskRecord /\ NextRound(t).retries = task[t].retries
          /\ NextRound(t).pc = "dispatch" /\ NextRound(t).kind = task[t].kind
      BY NextRoundType DEF PoolInv, NextRound, NewTask
    <3>2. task[t].retries + 1 \in Nat
      BY <1>0 DEF TaskRecord
    <3>3. r \in TaskRecord /\ r.pc = "dispatch" /\ r.kind = task[t].kind
      BY <3>1, <3>2 DEF TaskRecord
    <3>4. task' = [task EXCEPT ![t] = r] /\ Keeps(t) /\ tls' = tls /\ InRound(t)
      BY <1>16, <2>1, <3>1 DEF FailRound, TaskRecord
    <3> HIDE DEF r
    <3> QED BY <3>3, <3>4, KeepsStep DEF InRound
  <2>2. CASE ~RetriesLeft(t)
    <3>1. InRound(t) /\ Ends(t, task[t].outcome)
      BY <1>16, <2>2 DEF FailRound
    <3>2. task[t].outcome \in Outcomes
      BY <1>0 DEF TaskRecord
    <3> QED BY <1>9, <3>1, <3>2
  <2> QED BY <2>1, <2>2
<1> QED BY <1>1, <1>2, <1>3, <1>4, <1>5, <1>6, <1>7, <1>8, <1>10, <1>11, <1>12, <1>13,
           <1>14, <1>15, <1>16
        DEF Client, Runs, Dispatched, Completed

\* The actions of a backend.
LEMMA BackendStep ==
    ASSUME PoolInv, NEW c \in Conns, Server(c) \/ ServerDies(c)
    PROVE  PoolInv'
<1>0. conn[c] \in ConnRecord /\ task \in [Tasks -> TaskRecord] /\ tls \in BOOLEAN
  BY DEF PoolInv, TypeOK
<1>1. ASSUME NEW a \in {"S", "N"}, SslAnswer(c, a)
      PROVE  PoolInv'
  <2>1. Reply(c, a, IF a = "S" THEN "tls" ELSE "plain") /\ task' = task
        /\ conn[c].msg = "ssl" /\ conn[c].be = "new"
    BY <1>1 DEF SslAnswer
  <2>2. a \notin TxStates
    BY DEF TxStates
  <2>3. tls
    BY <2>1 DEF PoolInv, Causes
  <2> QED BY <1>0, <2>1, <2>2, <2>3, ReplyStep DEF InsideTls
<1>2. CASE Handshake(c)
  <2>1. Reply(c, "hello", "secure") /\ task' = task /\ conn[c].msg = "hello"
    BY <1>2 DEF Handshake
  <2>2. tls
    BY <2>1 DEF PoolInv, Causes
  <2> QED BY <1>0, <2>1, <2>2, ReplyStep DEF InsideTls, TxStates
<1>3. ASSUME NEW a \in StartupAnswers, StartupAnswer(c, a)
      PROVE  PoolInv'
  <2> DEFINE be == IF TellsPid(a) THEN "ready" ELSE IF a = "error" THEN "gone" ELSE "auth"
  <2>1. Reply(c, a, be) /\ task' = task /\ conn[c].msg \in {"startup", "sealed"}
    BY <1>3 DEF StartupAnswer, TakesStartup
  <2>2. /\ be \in {"ready", "gone", "auth"} /\ a \notin TxStates
        /\ be = "ready" \/ a \in {"error", "unsupported"}
    BY DEF StartupAnswers, TxStates, TellsPid
  <2> HIDE DEF be
  <2> QED BY <1>0, <2>1, <2>2, ReplyStep DEF InsideTls
<1>4. ASSUME NEW a \in TxStates, QueryAnswer(c, a)
      PROVE  PoolInv'
  <2> DEFINE f(t) == task[t].ran \/ (task[t].pc = "wait" /\ task[t].c = c)
             r(t) == [task[t] EXCEPT !.ran = f(t)]
  <2>1. Reply(c, a, "ready") /\ conn[c].msg = "query" /\ task' = [t \in Tasks |-> r(t)]
    BY <1>0, <1>4 DEF QueryAnswer, TaskRecord
  <2>2. ASSUME NEW t \in Tasks
        PROVE  /\ r(t) \in TaskRecord
               /\ r(t).pc = task[t].pc /\ r(t).c = task[t].c /\ r(t).kind = task[t].kind
               /\ r(t).isUser = task[t].isUser /\ r(t).sslRound = task[t].sslRound
               /\ r(t).outcome = task[t].outcome
               /\ r(t).sresp = task[t].sresp /\ r(t).spid = task[t].spid
               /\ task[t].ran => r(t).ran
               /\ task[t].pc = "wait" /\ task[t].c = c => r(t).ran
    <3>1. task[t] \in TaskRecord
      BY <1>0
    <3>2. f(t) \in BOOLEAN
      BY <3>1 DEF TaskRecord
    <3>3. task[t].ran \/ (task[t].pc = "wait" /\ task[t].c = c) => f(t)
      OBVIOUS
    <3> HIDE DEF f
    <3> QED BY <3>1, <3>2, <3>3 DEF TaskRecord
  <2> HIDE DEF r
  <2> QED BY <2>1, <2>2, ReplyStep DEF InsideTls
<1>5. CASE ServerEnds(c)
  <2>1. conn' = [conn EXCEPT ![c].be = "gone"] /\ UNCHANGED <<tls, task>>
    BY <1>5 DEF ServerEnds
  <2>2. conn' = [conn EXCEPT ![c] = [conn[c] EXCEPT !.be = "gone", !.fault = conn[c].fault]]
    BY <1>0, <2>1 DEF ConnRecord
  <2>3. conn[c].fault \in BOOLEAN
    BY <1>0 DEF ConnRecord
  <2>4. conn[c].st = "busy"
    BY <1>5 DEF ServerEnds, PoolInv, OnWire
  <2>5. ~tls /\ conn[c].msg \in {"startup", "query", "reply"} => conn[c].fault
    BY <1>5 DEF ServerEnds, TakesStartup, PoolInv, Causes
  <2> QED BY <2>1, <2>2, <2>3, <2>4, <2>5, GoneStep
<1>6. CASE ServerDies(c)
  <2>1. conn' = [conn EXCEPT ![c].be = "gone", ![c].fault = ~tls] /\ UNCHANGED <<tls, task>>
        /\ conn[c].st = "busy"
    BY <1>6 DEF ServerDies
  <2>2. (~tls) \in BOOLEAN
    BY <1>0
  <2>3. conn' = [conn EXCEPT ![c] = [conn[c] EXCEPT !.be = "gone", !.fault = ~tls]]
    BY <1>0, <2>1 DEF PoolInv, TypeOK, ConnRecord
  <2> QED BY <2>1, <2>2, <2>3, GoneStep
<1> QED BY <1>1, <1>2, <1>3, <1>4, <1>5, <1>6 DEF Server

\* The pool's invariant: for any number of tasks and connections.
THEOREM PoolInvariant == Spec => []PoolInv
<1>1. Init => PoolInv
  <2> SUFFICES ASSUME Init PROVE PoolInv
    OBVIOUS
  <2>1. tls \in BOOLEAN
    BY DEF Init, SslRequired
  <2>2. task \in [Tasks -> TaskRecord] /\ conn \in [Conns -> ConnRecord]
    BY NewType DEF Init
  <2>3. \A t \in Tasks : task[t].pc = "new"
    BY DEF Init, NewTask
  <2>4. \A c \in Conns : /\ conn[c].st = "unopened" /\ conn[c].ctx = 0 /\ conn[c].msg = "none"
                         /\ conn[c].tx = "I" /\ conn[c].be = "none"
    BY DEF Init, NewConn, NoContext
  <2>5. Held /\ OnWire /\ UserRounds /\ TlsRounds /\ Answered /\ Causes
    BY <2>3, <2>4 DEF Held, OnWire, UserRounds, TlsRounds, Answered, Causes
  <2>6. Keyed
    BY <2>3, <2>4 DEF Keyed
  <2> QED BY <2>1, <2>2, <2>5, <2>6 DEF PoolInv, TypeOK
<1>2. PoolInv /\ [Next]_vars => PoolInv'
  <2> SUFFICES ASSUME PoolInv, [Next]_vars PROVE PoolInv'
    OBVIOUS
  <2>1. CASE \E t \in Tasks : Client(t)
    BY <2>1, ClientStep
  <2>2. CASE \E c \in Conns : Server(c) \/ ServerDies(c) \/ IdleClose(c)
    BY <2>2, BackendStep, IdleCloseStep
  <2>3. CASE UNCHANGED vars
    BY <2>3 DEF vars, PoolInv, TypeOK, Held, OnWire, UserRounds, TlsRounds, Answered, Causes,
                   Keyed
  <2> QED BY <2>1, <2>2, <2>3 DEF Next, Halted
<1> QED BY <1>1, <1>2, PTL DEF Spec

\* Every variable keeps its type.
THEOREM PoolTypeCorrect == Spec => []TypeOK
<1>1. PoolInv => TypeOK
  BY DEF PoolInv
<1> QED BY <1>1, PoolInvariant, PTL

\* No statement meets another task's transaction: keep_alive_timeout closes the socket
\* of every answer that leaves one open, before another task can have it.
THEOREM NoForeignTransactionHolds == Spec => []NoForeignTransaction
<1>1. PoolInv => NoForeignTransaction
  BY DEF PoolInv, OnWire, NoForeignTransaction
<1> QED BY <1>1, PoolInvariant, PTL

\* No startup packet goes out before the TLS handshake on a TLS route, however the
\* tasks share its sockets between the rounds that precede it.
THEOREM StartupInsideTlsHolds == Spec => []StartupInsideTls
<1>1. PoolInv => StartupInsideTls
  BY DEF PoolInv, TlsRounds, StartupInsideTls, InsideTls
<1> QED BY <1>1, PoolInvariant, PTL

\* A statement on a plain route is reset only if something happened to its connection
\* from outside; another task that uses a socket before it has its context is no cause.
THEOREM ResetHasCauseHolds == Spec => []ResetHasCause
<1>1. PoolInv => ResetHasCause
  BY DEF PoolInv, Causes, ResetHasCause
<1> QED BY <1>1, PoolInvariant, PTL

\* handle() takes no statement's reset for a success.
LEMMA QueryHandled ==
    ASSUME NEW t \in Tasks, task[t].kind = "query", Handled(t) = "SUCCESS"
    PROVE  task[t].outcome = "SUCCESS"
  BY DEF Handled, HandledOutcome, KindOf

\* A step of a task changes no other task.
LEMMA ClientFrame ==
    ASSUME TypeOK, NEW u \in Tasks, NEW t \in Tasks \ {u}, Client(u)
    PROVE  task'[t] = task[t]
<1>0. task \in [Tasks -> TaskRecord]
  BY DEF TypeOK
<1>1. ASSUME NEW k \in Kinds, Start(u, k)
      PROVE  task'[t] = task[t]
  BY <1>0, <1>1 DEF Start
<1>2. ASSUME NEW q \in Tasks, CreateCancel(u, q)
      PROVE  task'[t] = task[t]
  BY <1>0, <1>2 DEF CreateCancel
<1>3. ASSUME NEW c \in Conns, UseIdle(u, c) \/ Connect(u, c)
      PROVE  task'[t] = task[t]
  BY <1>0, <1>3 DEF UseIdle, Connect, SendOn
<1>4. CASE ConnectFail(u) \/ Receive(u) \/ NullResponse(u)
  BY <1>0, <1>4 DEF ConnectFail, Receive, NullResponse
<1>5. CASE PeerClosed(u) \/ Timeout(u)
  BY <1>0, <1>5 DEF PeerClosed, Timeout, Break
<1>6. CASE \/ FinishRequest(u) \/ StartTls(u) \/ HandshakeDone(u) \/ StartupDone(u)
           \/ Rejected(u) \/ FailRound(u)
  BY <1>0, <1>6 DEF FinishRequest, StartTls, HandshakeDone, StartupDone, Rejected, FailRound,
                    Ends, Continue
<1> QED BY <1>1, <1>2, <1>3, <1>4, <1>5, <1>6 DEF Client, Runs, Dispatched, Completed

\* Only the end of the user's round tells success for a statement.
LEMMA EndsWell ==
    ASSUME TypeOK, NEW t \in Tasks, Client(t), task[t].kind = "query", task[t].pc # "done",
           task'[t].pc = "done", task'[t].outcome = "SUCCESS"
    PROVE  FinishRequest(t)
<1>0. task \in [Tasks -> TaskRecord] /\ task[t] \in TaskRecord
  BY DEF TypeOK
<1>1. ASSUME NEW k \in Kinds, Start(t, k)
      PROVE  FALSE
  BY <1>0, <1>1 DEF Start, TaskRecord
<1>2. ASSUME NEW q \in Tasks, CreateCancel(t, q)
      PROVE  FALSE
  BY <1>0, <1>2 DEF CreateCancel, TaskRecord
<1>3. ASSUME NEW c \in Conns, UseIdle(t, c) \/ Connect(t, c)
      PROVE  FALSE
  BY <1>0, <1>3 DEF UseIdle, Connect, SendOn, TaskRecord
<1>4. CASE ConnectFail(t) \/ NullResponse(t)
  BY <1>0, <1>4 DEF ConnectFail, NullResponse, TaskRecord
<1>10. CASE Receive(t)
  <2>1. task'[t].pc = "handle"
    BY <1>0, <1>10 DEF Receive, TaskRecord
  <2> QED BY <2>1
<1>5. CASE PeerClosed(t) \/ Timeout(t)
  <2>1. PICK errno \in {"ECONNRESET", "ERROR"} : Break(t, errno)
    BY <1>5 DEF PeerClosed, Timeout
  <2>3. PICK s \in Partly(t) :
          task' = [task EXCEPT ![t] = [task[t] EXCEPT !.pc = "handle", !.outcome = errno,
                                              !.sresp = s.sresp, !.spid = s.spid]]
    BY <2>1 DEF Break
  <2>2. task'[t].pc = "handle"
    BY <1>0, <2>3 DEF TaskRecord
  <2> QED BY <2>2
<1>6. CASE StartTls(t) \/ HandshakeDone(t) \/ StartupDone(t)
  <2>1. task'[t] = NextRound(t)
    BY <1>0, <1>6 DEF StartTls, HandshakeDone, StartupDone, Continue
  <2> QED BY <2>1 DEF NextRound, NewTask
<1>7. ASSUME NEW o, Ends(t, o)
      PROVE  o = "SUCCESS"
  <2>1. task'[t] = [NewTask EXCEPT !.pc = "done", !.outcome = o]
    BY <1>0, <1>7 DEF Ends
  <2> QED BY <2>1 DEF NewTask
<1>8. CASE Rejected(t)
  BY <1>7, <1>8 DEF Rejected
<1>9. CASE FailRound(t)
  <2>1. CASE RetriesLeft(t)
    <3>1. task'[t] = [NextRound(t) EXCEPT !.retries = @ + 1]
      BY <1>0, <1>9, <2>1 DEF FailRound
    <3> QED BY <3>1 DEF NextRound, NewTask
  <2>2. CASE ~RetriesLeft(t)
    <3>1. Ends(t, task[t].outcome) /\ InRound(t) /\ ~Succeeded(t)
      BY <1>9, <2>2 DEF FailRound
    <3>2. task[t].outcome = "SUCCESS"
      BY <1>7, <3>1
    <3>3. Handled(t) = "SUCCESS"
      BY <3>2 DEF Handled, HandledOutcome, KindOf
    <3> QED BY <3>1, <3>3 DEF Succeeded
  <2> QED BY <2>1, <2>2
<1> QED BY <1>1, <1>2, <1>3, <1>4, <1>5, <1>6, <1>8, <1>9, <1>10
        DEF Client, Runs, Dispatched, Completed

\* A task that reports success for a statement has had it run by a backend.
THEOREM OkMeansRanHolds == Spec => OkMeansRan
<1> DEFINE Told == \A t \in Tasks :
          /\ task[t].kind = "query" /\ task[t].pc # "done"
          /\ task'[t].pc = "done" /\ task'[t].outcome = "SUCCESS"
          => task[t].ran
<1>1. PoolInv /\ [Next]_vars => [Told]_vars
  <2> SUFFICES ASSUME PoolInv, Next, NEW t \in Tasks, task[t].kind = "query",
                      task[t].pc # "done", task'[t].pc = "done",
                      task'[t].outcome = "SUCCESS"
               PROVE  task[t].ran
    BY DEF vars
  <2>1. task[t] \in TaskRecord
    BY DEF PoolInv, TypeOK
  <2>2. PICK u \in Tasks : Client(u)
    <3>1. ASSUME NEW c \in Conns, Server(c) \/ ServerDies(c) \/ IdleClose(c)
          PROVE  task'[t].pc = task[t].pc
      <4>1. ASSUME NEW a \in TxStates, QueryAnswer(c, a)
            PROVE  task'[t].pc = task[t].pc
        BY <2>1, <4>1 DEF QueryAnswer, TaskRecord
      <4> QED BY <3>1, <4>1 DEF Server, SslAnswer, Handshake, StartupAnswer, ServerEnds,
                                ServerDies, IdleClose
    <3> QED BY <3>1 DEF Next, Halted, vars
  <2>3. u = t
    <3> SUFFICES ASSUME u # t PROVE FALSE
      OBVIOUS
    <3> QED BY <2>2, ClientFrame DEF PoolInv
  <2>4. FinishRequest(t)
    BY <2>2, <2>3, EndsWell DEF PoolInv
  <2>5. task[t].isUser /\ task[t].pc = "handle" /\ task[t].outcome = "SUCCESS"
    BY <2>1, <2>4, QueryHandled DEF FinishRequest, Succeeded, InRound
  <2> QED BY <2>5 DEF PoolInv, Answered
<1> QED BY <1>1, PoolInvariant, PTL DEF Spec, OkMeansRan

\* A cancel made while a statement runs on an established session of a plain route carries
\* the pid that this session's backend has told: in whatever task's startup response it
\* arrived, and whatever pid that task or this one has kept from an earlier round.
THEOREM CancelNamesRunningHolds == Spec => CancelNamesRunning
<1> DEFINE Named == \A t, q \in Tasks :
          /\ CreateCancel(t, q)
          /\ ~tls /\ task[q].isUser /\ conn[task[q].c].ctx = Established
          => task'[t].key = Pid[task[q].c]
<1>1. PoolInv => Named
  <2> SUFFICES ASSUME PoolInv, NEW t \in Tasks, NEW q \in Tasks, CreateCancel(t, q), ~tls,
                      conn[task[q].c].ctx = Established
               PROVE  task'[t].key = Pid[task[q].c]
    OBVIOUS
  <2>1. task[q].c \in Conns /\ conn[task[q].c].st = "busy"
    BY DEF CreateCancel, PoolInv, Held
  <2>2. task[q].c # 0
    BY <2>1, PoolAssumption DEF Conns
  <2>3. conn[task[q].c].ctxPid = Pid[task[q].c] /\ Pid[task[q].c] # 0
    BY <2>1, PidAssumption DEF PoolInv, Keyed
  <2>4. Credentials(q) = Pid[task[q].c]
    BY <2>2, <2>3 DEF Credentials, ContextPid
  <2>5. task'[t].key = Credentials(q)
    BY DEF CreateCancel, PoolInv, TypeOK, TaskRecord
  <2> QED BY <2>4, <2>5
<1>2. PoolInv /\ [Next]_vars => [Named]_vars
  BY <1>1
<1> QED BY <1>2, PoolInvariant, PTL DEF Spec, CancelNamesRunning
=============================================================================
