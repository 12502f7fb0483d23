--------------------------- MODULE ConnLifecycle ---------------------------
(***************************************************************************)
(* What the event loop promises the hub about a connection: it is opened,  *)
(* closed by either side, and reported once; what was closed is reported   *)
(* in the end and is not opened again before.                              *)
(***************************************************************************)
CONSTANT Conns

VARIABLE stage

Init == stage = [c \in Conns |-> "absent"]

\* A handshake may fail while the connection is being accepted.
Open(c) ==
    /\ stage[c] = "absent"
    /\ \E s \in {"open", "closing"} : stage' = [stage EXCEPT ![c] = s]

\* A sweep or a shutdown closes several connections at once.
Close(S) ==
    /\ S # {} /\ \A c \in S : stage[c] = "open"
    /\ stage' = [c \in Conns |-> IF c \in S THEN "closing" ELSE stage[c]]

Report(c) ==
    /\ stage[c] = "closing"
    /\ stage' = [stage EXCEPT ![c] = "absent"]

Next ==
    \/ \E c \in Conns : Open(c) \/ Report(c)
    \/ \E S \in SUBSET Conns : Close(S)

Spec == Init /\ [][Next]_stage /\ \A c \in Conns : WF_stage(Report(c))
=============================================================================
