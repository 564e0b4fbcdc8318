--------------------------- MODULE LogicalSession ---------------------------
(***************************************************************************)
(* What a WFPostgresConnection promises about the work done through it     *)
(* (README.md, "Connection lifecycle"): requests run one after another on  *)
(* one server session; unfinished work (an open transaction, a COPY, a     *)
(* request whose result is unknown) is never continued on another session; *)
(* after such work is lost no SQL runs until an explicit disconnect.       *)
(***************************************************************************)
EXTENDS Naturals

VARIABLES work,    \* what is under way: "none", "running" or "open"
          lost,    \* some unfinished work was lost with its session
          session  \* the number of the server session in use

vars == <<work, lost, session>>

Works == {"none", "running", "open"}

Init == work = "none" /\ lost = FALSE /\ session = 0

\* A request starts on the session in use; never after a loss.
Begin ==
    /\ ~lost /\ work \in {"none", "open"}
    /\ work' = "running"
    /\ UNCHANGED <<lost, session>>

\* The answer arrives; it may leave a transaction or a COPY open.
Complete ==
    /\ work = "running"
    /\ work' \in {"none", "open"}
    /\ UNCHANGED <<lost, session>>

\* The session is lost, and the unfinished work with it.
Lose ==
    /\ work \in {"running", "open"}
    /\ work' = "none" /\ lost' = TRUE
    /\ UNCHANGED session

\* A successful explicit disconnect makes the connection usable again.
Reset ==
    /\ lost /\ work = "none"
    /\ lost' = FALSE
    /\ UNCHANGED <<work, session>>

\* A new session replaces the old one, never while work is open on that one.
Replace ==
    /\ work = "none"
    /\ session' = session + 1
    /\ UNCHANGED <<work, lost>>

Next == Begin \/ Complete \/ Lose \/ Reset \/ Replace

Spec == Init /\ [][Next]_vars
=============================================================================
