------------------------- MODULE MCRemindersCounted -------------------------
(***************************************************************************)
(* Reminders in three scenarios, told apart by the limit before the start:  *)
(* requests that overlap each other and the executions (1), requests alone  *)
(* that overlap and move appointments (2), executions that overlap while    *)
(* the requests come one after the other (3).                               *)
(***************************************************************************)
EXTENDS RemindersInvariant, TLC

CONSTANTS a1, a2, q1, q2, w1, w2

ActorSymmetry == Permutations({w1, w2}) \cup Permutations({q1, q2})

CountedOps == {"create", "update", "confirm", "cancel"}

Opening(ops, start) ==
    \A q \in Requests : request'[q].step = "loaded" /\ request[q].step = "closed" =>
        request'[q].op \in ops /\ request'[q].row.start = start

\* A reminder that two deliveries have reached is not followed further (bound).
BothOverlap ==
    /\ Opening({"create", "confirm"}, 2)
    /\ now' <= 2 /\ \A i \in ReminderIds : delivered'[i] <= 2

RequestsOverlap == handed' = {} /\ now' = 0

ExecutionsOverlap ==
    /\ Opening({"create", "cancel"}, 3)
    /\ \A q, u \in Requests : q # u => request'[q].step = "closed" \/ request'[u].step = "closed"

\* The steps of the three scenarios.
Scenarios ==
    CASE lead = 1 -> BothOverlap
      [] lead = 2 -> RequestsOverlap
      [] lead = 3 -> ExecutionsOverlap

=============================================================================
