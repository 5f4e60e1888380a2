-------------------------- MODULE AdmissionControl --------------------------
(***************************************************************************)
(* What the load generator promises about the requests it sends, with      *)
(* nothing said of levels, sessions, turns or retries.                     *)
(*                                                                         *)
(* A request is admitted at most once and settles at most once.  Admission *)
(* can close (cooperative stop); once closed it never reopens and nothing  *)
(* more is admitted, while requests already admitted drain.  The run is    *)
(* over only when every admitted request has settled.                      *)
(***************************************************************************)
CONSTANT Request   \* the identities a request can have

VARIABLES
  admitted,   \* requests handed to the target
  settled,    \* admitted requests whose fate is known: answered or given up
  open,       \* may a request still be admitted?
  over        \* has the run ended?

vars == <<admitted, settled, open, over>>

TypeOK ==
  /\ admitted \subseteq Request
  /\ settled \subseteq Request
  /\ open \in BOOLEAN
  /\ over \in BOOLEAN

Init ==
  /\ admitted = {}
  /\ settled = {}
  /\ open \in BOOLEAN     \* a stop signal may be set before the run starts
  /\ over = FALSE

\* Closing may ride along with another step: the answer to a request, or the
\* last callback of the run, can be what closes admission.
MayClose == open' \in {open, FALSE}

Admit(r) ==
  /\ open
  /\ ~over
  /\ r \in Request \ admitted
  /\ admitted' = admitted \cup {r}
  /\ UNCHANGED <<settled, open, over>>

Settle(r) ==
  /\ ~over
  /\ r \in admitted \ settled
  /\ settled' = settled \cup {r}
  /\ MayClose
  /\ UNCHANGED <<admitted, over>>

Close ==
  /\ open
  /\ open' = FALSE
  /\ UNCHANGED <<admitted, settled, over>>

Finish ==
  /\ ~over
  /\ settled = admitted
  /\ over' = TRUE
  /\ MayClose
  /\ UNCHANGED <<admitted, settled>>

Next ==
  \/ \E r \in Request : Admit(r) \/ Settle(r)
  \/ Close
  \/ Finish

Spec == Init /\ [][Next]_vars
=============================================================================
