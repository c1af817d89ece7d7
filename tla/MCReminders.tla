---------------------------- MODULE MCReminders ----------------------------
(***************************************************************************)
(* A small instance of Reminders: a clock of a few leases, one appointment. *)
(***************************************************************************)
EXTENDS RemindersInvariant

CONSTANTS a1, a2, q1, q2, w1, w2

\* Requests that open in a step.
Opening == {q \in Requests : request[q].step = "closed" /\ request'[q].step = "loaded"}

\* Under the shorter limit appointments are moved and confirmed, under
\* the longer one they start late, get reminders by hand and are closed. Only what
\* opens is restricted.
Scenarios ==
    \A q \in Opening :
        IF lead = 1 THEN request'[q].op \in {"create", "update", "confirm"}
        ELSE request'[q].op \in {"create", "manual", "complete", "cancel"} /\ request'[q].row.start = Horizon
=============================================================================
