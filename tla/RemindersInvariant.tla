------------------------- MODULE RemindersInvariant -------------------------
(***************************************************************************)
(* What open requests and executions keep true of the outbox between their  *)
(* steps: the inductive invariants behind SentWasDelivered and              *)
(* SentUndoneOnlyByStaleRead, StartsHaveReminders, and WaitingIsCurrent.    *)
(***************************************************************************)
EXTENDS Reminders

\* A request that changes its appointment is the only one to hold it.
RequestsApart ==
    \A q, u \in Requests :
        q # u /\ Holds(q, request[q].id) /\ Holds(u, request[u].id) => request[q].id # request[u].id

\* The rows a request skips are still active rows of the appointment it holds.
SkipsHold ==
    \A q \in Requests : \A i \in request[q].skip :
        /\ Holds(q, request[q].id)
        /\ Active(reminders[i]) /\ reminders[i].appointment = request[q].id

\* A request that has not read the reminders yet writes none; what it loaded of its
\* appointment was there, and it changes what its operation says.
SessionFits(q) ==
    /\ request[q].step # "flushed" =>
          /\ request[q].skip = {} /\ request[q].rid = NoId
          /\ request[q].seen = NoRow /\ request[q].want = NoRow
    /\ request[q].step # "closed" =>
          /\ request[q].id \in Appointments /\ request[q].row # NoRow
          /\ request[q].read = NoRow <=> request[q].op = "create"
          /\ request[q].read # NoRow => appointments[request[q].id] # NoRow
          /\ request[q].op = "update" =>
                request[q].row = [request[q].read EXCEPT !.start = request[q].row.start]
          /\ request[q].op = "confirm" =>
                request[q].row = [request[q].read EXCEPT !.confirmation_pending = FALSE]
          /\ request[q].op \in {"complete", "cancel"} =>
                /\ request[q].row = [request[q].read EXCEPT !.status = request[q].row.status]
                /\ Changes(q) /\ request[q].row.status # "scheduled"
          /\ request[q].op = "manual" => ~Changes(q)
SessionsFit == \A q \in Requests : SessionFits(q)

\* The reminder a request writes: a new row under a key of its own, or a row it
\* read when it was not sent.
WantsFit ==
    \A q \in Requests : LET rq == request[q] IN
        /\ rq.want = NoRow => rq.rid = NoId /\ rq.seen = NoRow
        /\ rq.want # NoRow => rq.rid \in ReminderIds /\ rq.want.status = "pending"
        /\ rq.want # NoRow /\ rq.seen = NoRow =>
              ~Exists(rq.rid) /\ \A u \in Requests \ {q} : request[u].rid # rq.rid
        /\ rq.seen # NoRow => Exists(rq.rid) /\ rq.seen.status # "sent"

\* What an execution reports on exists; what it reports as sent was delivered;
\* what it has read was not sent by then.
ReportsFit ==
    \A w \in Workers :
        /\ \A i \in worker[w].todo \cup worker[w].ok \cup worker[w].bad : Exists(i)
        /\ \A i \in worker[w].ok : delivered[i] > 0
        /\ worker[w].item # NoId =>
              /\ worker[w].pc = "report" /\ worker[w].item \in worker[w].ok \cup worker[w].bad
              /\ worker[w].seen # NoRow /\ worker[w].seen.status # "sent"

OutboxInv ==
    /\ TypeOK
    /\ RequestsApart
    /\ SkipsHold
    /\ SessionsFit
    /\ WantsFit
    /\ ReportsFit
    /\ SentWasDelivered

-----------------------------------------------------------------------------
(* Automatic reminders and the starts they are for *)

\* An automatic reminder that no claim ever handed out waits.
Waiting(i) ==
    /\ Exists(i) /\ i \notin handed
    /\ reminders[i].type = "upcoming" /\ reminders[i].status = "pending"

\* The start a request loaded has its reminder, if the row was confirmed and open.
ReadsCovered ==
    \A q \in Requests :
        request[q].id \notin mixed /\ request[q].read # NoRow /\ Schedulable(request[q].read)
          => Snapshot(request[q].id, request[q].read.start) # {}

\* A request about to write such a row found the reminder of the new start or
\* brings it.
RowsCovered ==
    \A q \in Requests :
        request[q].id \notin mixed /\ Holds(q, request[q].id) /\ Schedulable(request[q].row)
          => Snapshot(request[q].id, request[q].row.start) # {} \/ FreshWant(q)

\* Whoever brings one holds the lock of the appointment it changes, and still
\* there is no other.
FreshWantsAlone ==
    \A q \in Requests : FreshWant(q) =>
        /\ request[q].want.appointment = request[q].id
        /\ request[q].want.start = request[q].row.start
        /\ request[q].id \notin mixed =>
              /\ Holds(q, request[q].id)
              /\ Snapshot(request[q].id, request[q].row.start) = {}

\* Executions work on what a claim handed out.
WorkHanded ==
    \A w \in Workers : worker[w].todo \cup worker[w].ok \cup worker[w].bad \subseteq handed

ScheduleInv ==
    /\ OutboxInv
    /\ WorkHanded
    /\ StartsHaveReminders
    /\ ReadsCovered
    /\ RowsCovered
    /\ FreshWantsAlone

-----------------------------------------------------------------------------
(* Messages and attempts *)

IdleHoldsNothing == \A w \in Workers : worker[w].pc = "idle" => worker[w].todo = {}

\* A request leaves the attempts it read, unless it found the reminder failed or
\* skipped.
WantsKeepCount ==
    \A q \in Requests :
        request[q].seen # NoRow =>
            \/ request[q].seen.status \in {"failed", "skipped"}
            \/ request[q].want.attempts = request[q].seen.attempts

HoldInv ==
    /\ ScheduleInv
    /\ IdleHoldsNothing
    /\ WantsKeepCount
    /\ \A i \in ReminderIds : IsFiniteSet(Holders(i))

-----------------------------------------------------------------------------
(* Requests one after the other *)

Alone == \A q, u \in Requests : request[q].step # "closed" /\ request[u].step # "closed" => q = u

\* The row is of a confirmed, open appointment with this start.
CurrentFor(row, start) ==
    row # NoRow /\ row.status = "scheduled" /\ ~row.confirmation_pending /\ row.start = start

\* What a request loaded is what is still there.
ReadsCurrent ==
    \A q \in Requests :
        request[q].step # "closed" => request[q].read = appointments[request[q].id]

WaitingFits ==
    \A i \in ReminderIds : Waiting(i) =>
        CurrentFor(appointments[reminders[i].appointment], reminders[i].start)

\* A change of an appointment skips the waiting reminders it makes wrong.
ChangesCover ==
    \A q \in Requests, i \in ReminderIds :
        Holds(q, request[q].id) /\ Waiting(i) /\ reminders[i].appointment = request[q].id
          => i \in request[q].skip \/ CurrentFor(request[q].row, reminders[i].start)

\* The automatic reminder a request writes is for the appointment it leaves.
WantsCurrent ==
    \A q \in Requests :
        /\ request[q].want # NoRow /\ request[q].want.type = "upcoming" =>
              /\ request[q].want.appointment = request[q].id
              /\ CurrentFor(request[q].row, request[q].want.start)
        /\ request[q].seen # NoRow =>
              /\ request[q].want.type = "upcoming"
              /\ SameSnapshot(reminders[request[q].rid], request[q].want)

\* A request that ended is gone.
ClosedEmpty == \A q \in Requests : request[q].step = "closed" => request[q] = NoRequest

WaitingInv ==
    /\ ScheduleInv
    /\ ReadsCurrent
    /\ WaitingFits
    /\ ChangesCover
    /\ WantsCurrent
    /\ ClosedEmpty
=============================================================================
