----------------------------- MODULE HubMirror -----------------------------
(***************************************************************************)
(* What the mirroring of local events to the hub promises, whatever path   *)
(* an event takes: an event that counts as confirmed is at the hub, an     *)
(* event that was given up never waits again, and only events that were    *)
(* appended ever arrive.  HubOutbox implements it.                         *)
(***************************************************************************)
CONSTANT Events

VARIABLES
  stage,    \* of each event: "new", "pending", "abandoned" or "confirmed"
  mirrored  \* events that have arrived at the hub

Stages == {"new", "pending", "abandoned", "confirmed"}

MirrorInit == stage = [e \in Events |-> "new"] /\ mirrored = {}

Accept(e) ==
  /\ stage[e] = "new"
  /\ stage' = [stage EXCEPT ![e] = "pending"]
  /\ UNCHANGED mirrored

\* A request arrives, possibly long after its event was given up.
Arrive(e) ==
  /\ stage[e] # "new"
  /\ mirrored' = mirrored \cup {e}
  /\ UNCHANGED stage

\* An event can still be confirmed after an operator dismissed it.
Confirm(e) ==
  /\ stage[e] \in {"pending", "abandoned"}
  /\ stage' = [stage EXCEPT ![e] = "confirmed"]
  /\ mirrored' = mirrored \cup {e}

\* One event is given up, or all that wait are when the process dies; an
\* operator may dismiss what has been confirmed in the meantime.
Abandon(E) ==
  /\ \A e \in E : stage[e] \in {"pending", "confirmed"}
  /\ stage' = [e \in Events |-> IF e \in E THEN "abandoned" ELSE stage[e]]
  /\ UNCHANGED mirrored

MirrorNext ==
  \/ \E e \in Events : Accept(e) \/ Arrive(e) \/ Confirm(e)
  \/ \E E \in SUBSET Events : Abandon(E)

MirrorSpec == MirrorInit /\ [][MirrorNext]_<<stage, mirrored>>
=============================================================================
