-------------------------- MODULE PgBackendProofs --------------------------
(***************************************************************************)
(* Facts about the message flow of PgBackend, for the proofs about the     *)
(* readers of a reply.                                                     *)
(***************************************************************************)
EXTENDS PgBackend, TLAPS

\* A message leads from a phase to a phase.
LEMMA PhasesClosed ==
    ASSUME NEW phase \in Phases, NEW t, MaySend(phase, t)
    PROVE  PhaseAfter(phase, t) \in Phases
<1> USE DEF MaySend, PhaseAfter, Phases
<1>1. CASE phase \in {"auth", "asked", "params"}
  BY <1>1 DEF Flow
<1>2. CASE phase \in {"between", "rows", "copy"}
  BY <1>2 DEF Flow
<1>3. CASE phase \in {"copied", "failed", "idle"}
  BY <1>3 DEF Flow
<1>4. CASE phase \in {"copyin", "dead", "broken"}
  BY <1>4 DEF Flow
<1> QED BY <1>1, <1>2, <1>3, <1>4 DEF Flow

\* Once the reply to a request is over it stays so.
LEMMA SettledClosed ==
    ASSUME NEW phase \in Settled, NEW t, MaySend(phase, t)
    PROVE  PhaseAfter(phase, t) \in Settled
  BY DEF Settled, MaySend, PhaseAfter, Flow
=============================================================================
