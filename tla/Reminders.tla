------------------------------ MODULE Reminders ------------------------------
(***************************************************************************)
(* The outbox of appointment reminders: AppointmentReminderService, the     *)
(* appointment operations that fill and empty it, and the n8n execution     *)
(* that claims due reminders, sends them and reports back.                  *)
(*                                                                         *)
(* A request of the API loads its appointment without a lock and decides   *)
(* what to make of it; its UPDATE, of the columns it changes, and its reads *)
(* of the reminders follow, and then its commit. Reports of a worker are    *)
(* read without a lock and written later. Time is counted in leases of      *)
(* Lease units.                                                             *)
(***************************************************************************)
EXTENDS Integers, FiniteSets

CONSTANTS
    Appointments, ReminderIds,  \* primary keys
    Requests,                   \* API requests that can be open at once
    Workers,                    \* n8n executions that can overlap
    Ops,                        \* operations the clients of the API use
    Outcomes,                   \* how a send can end
    Starts,                     \* start times of appointments
    Leads,                      \* possible distances from reminder to start
    Horizon,                    \* bound of the clock
    Lease, MaxAttempts, ClaimLimit,
    SendTries,                  \* tries the send node makes for one item
    NoRow, NoId

AllOps == {"create", "update", "confirm", "complete", "cancel", "manual"}
AllOutcomes == {"ok", "failed"}

ASSUME OpsAssumption == Ops \subseteq AllOps /\ Outcomes \subseteq AllOutcomes
ASSUME TimeAssumption ==
    /\ Horizon \in Nat /\ Starts \subseteq 0..Horizon
    /\ Leads \subseteq Nat \ {0} /\ Leads # {}
    /\ Lease \in Nat \ {0} /\ MaxAttempts \in Nat \ {0} /\ ClaimLimit \in Nat \ {0}
    /\ SendTries \in Nat \ {0}
ASSUME KeyAssumption == ReminderIds \subseteq Nat /\ NoId \notin ReminderIds

NoLease == -1       \* locked_until is NULL

\* Bound of the count of messages.
Enough == SendTries * MaxAttempts

ReminderStatus == {"pending", "processing", "sent", "failed", "skipped"}
ReminderType == {"upcoming", "manual"}

Appointment == [status: {"scheduled", "canceled", "completed"},
                confirmation_pending: BOOLEAN, start: Starts]

Reminder == [appointment: Appointments, type: ReminderType, start: Starts,
             scheduled_for: Int, status: ReminderStatus,
             attempts: 0..MaxAttempts, locked_until: Int]

ASSUME NullAssumption == NoRow \notin Appointment /\ NoRow \notin Reminder

VARIABLES
    now, lead,          \* the clock; cancel_limit_hours + 6 (its update, BusinessService.update, fails:
                        \* PostgreSQL refuses the FOR UPDATE of get_pending_for_business on an outer join)
    appointments,       \* committed rows
    reminders,          \* committed rows of appointment_reminders
    request,            \* open API requests
    worker,             \* n8n executions
    handed,             \* reminders that some claim has handed out
    delivered,          \* messages each reminder brought to the client
    overlap,            \* history: two requests were open at once
    mixed               \* history: appointments whose row was left with columns of two requests

history == <<overlap, mixed>>
vars == <<now, lead, appointments, reminders, request, worker, handed, delivered, history>>

\* An open request: the row it loaded and the row it makes of it, the reminders
\* it skips, and the reminder it writes: its key, as it was read, as it is wanted.
Request == [step: {"closed", "loaded", "flushed"}, op: AllOps,
            id: Appointments \cup {NoId},
            read: Appointment \cup {NoRow}, row: Appointment \cup {NoRow},
            skip: SUBSET ReminderIds,
            rid: ReminderIds \cup {NoId}, seen: Reminder \cup {NoRow},
            want: Reminder \cup {NoRow}]
NoRequest == [step |-> "closed", op |-> "create", id |-> NoId, read |-> NoRow, row |-> NoRow,
              skip |-> {}, rid |-> NoId, seen |-> NoRow, want |-> NoRow]

\* An execution: items still to send, to report as sent, to report as failed,
\* and the reminder its open report has read.
Worker == [pc: {"idle", "send", "report"}, todo: SUBSET ReminderIds,
           ok: SUBSET ReminderIds, bad: SUBSET ReminderIds,
           item: ReminderIds \cup {NoId}, seen: Reminder \cup {NoRow}]
NoWork == [pc |-> "idle", todo |-> {}, ok |-> {}, bad |-> {},
           item |-> NoId, seen |-> NoRow]

TypeOK ==
    /\ now \in 0..Horizon /\ lead \in Leads
    /\ appointments \in [Appointments -> Appointment \cup {NoRow}]
    /\ reminders \in [ReminderIds -> Reminder \cup {NoRow}]
    /\ request \in [Requests -> Request]
    /\ worker \in [Workers -> Worker]
    /\ handed \subseteq ReminderIds
    /\ delivered \in [ReminderIds -> 0..Enough + SendTries]
    /\ overlap \in BOOLEAN /\ mixed \subseteq Appointments

-----------------------------------------------------------------------------
(* Rows *)

Exists(i) == reminders[i] # NoRow
Active(r) == r # NoRow /\ r.status \in {"pending", "processing"}

\* _is_schedulable, and the same condition in the query of claim_due.
Schedulable(row) ==
    row # NoRow /\ row.status = "scheduled" /\ ~row.confirmation_pending /\ row.start > now

Skip(r) == [r EXCEPT !.status = "skipped", !.locked_until = NoLease]

\* SELECT ... FOR UPDATE of a request that has not ended.
RowLocked(i) == \E q \in Requests : i \in request[q].skip

SameSnapshot(r, s) ==
    r.appointment = s.appointment /\ r.type = s.type /\ r.start = s.start

\* The two partial unique indexes, for row r of key i next to the rows of table.
Clashes(table, i, r) ==
    \E j \in ReminderIds \ {i} :
        /\ table[j] # NoRow /\ SameSnapshot(table[j], r)
        /\ r.type = "manual" => Active(r) /\ Active(table[j])

\* The ORM writes a column only where the value differs from the one it loaded.
Column(want, seen, current) == IF want # seen THEN want ELSE current

MergeAppointment(want, read, current) ==
    IF read = NoRow THEN want
    ELSE [current EXCEPT
        !.status = Column(want.status, read.status, @),
        !.confirmation_pending = Column(want.confirmation_pending, read.confirmation_pending, @),
        !.start = Column(want.start, read.start, @)]

MergeReminder(want, seen, current) ==
    [current EXCEPT
        !.scheduled_for = Column(want.scheduled_for, seen.scheduled_for, @),
        !.status = Column(want.status, seen.status, @),
        !.attempts = Column(want.attempts, seen.attempts, @),
        !.locked_until = Column(want.locked_until, seen.locked_until, @)]

-----------------------------------------------------------------------------
(* API requests on appointments *)

NewReminder(id, type, start, due) ==
    [appointment |-> id, type |-> type, start |-> start, scheduled_for |-> due,
     status |-> "pending", attempts |-> 0, locked_until |-> NoLease]

\* schedule_for_appointment on the reminder it found: back to pending, with
\* new attempts only if it had failed or been skipped.
Rescheduled(r, due) ==
    [r EXCEPT !.scheduled_for = due, !.status = "pending", !.locked_until = NoLease,
              !.attempts = IF r.status \in {"failed", "skipped"} THEN 0 ELSE @]

\* get_by_appointment_snapshot
Snapshot(id, start) ==
    {i \in ReminderIds : /\ Exists(i) /\ reminders[i].type = "upcoming"
                         /\ reminders[i].appointment = id /\ reminders[i].start = start}

Used(i) == Exists(i) \/ \E q \in Requests : request[q].rid = i

\* The next value of the key's sequence.
Unused(i) == ~Used(i) /\ \A j \in ReminderIds : j < i => Used(j)

\* skip_pending_for_appointment: the rows it locks.
PendingOf(id) == {i \in ReminderIds : Active(reminders[i]) /\ reminders[i].appointment = id}

\* The first step: the appointment is loaded, without a lock, and changed in
\* the session.
Load(q, op, id, row) ==
    /\ request[q].step = "closed"
    /\ request' = [request EXCEPT ![q] =
          [NoRequest EXCEPT !.step = "loaded", !.op = op, !.id = id,
                            !.read = appointments[id], !.row = row]]
    /\ overlap' = (overlap \/ \E u \in Requests : request[u].step # "closed")
    /\ UNCHANGED <<now, lead, appointments, reminders, worker, handed, delivered, mixed>>

IsScheduled(id) == appointments[id] # NoRow /\ appointments[id].status = "scheduled"

CreateAppointment(q) ==
    \E id \in Appointments, s \in Starts, pending \in BOOLEAN :
        /\ "create" \in Ops /\ appointments[id] = NoRow /\ s > now
        /\ \A u \in Requests : request[u].id # id
        /\ Load(q, "create", id, [status |-> "scheduled", confirmation_pending |-> pending, start |-> s])

UpdateAppointment(q) ==
    \E id \in Appointments, s \in Starts :
        /\ "update" \in Ops /\ IsScheduled(id) /\ s > now
        /\ Load(q, "update", id, [appointments[id] EXCEPT !.start = s])

ConfirmAppointment(q) ==
    \E id \in Appointments :
        /\ "confirm" \in Ops /\ IsScheduled(id)
        /\ Load(q, "confirm", id, [appointments[id] EXCEPT !.confirmation_pending = FALSE])

\* complete, cancel and delete
CloseAppointment(q) ==
    \E id \in Appointments, op \in {"complete", "cancel"} :
        /\ op \in Ops /\ IsScheduled(id)
        /\ op = "complete" => ~appointments[id].confirmation_pending
        /\ Load(q, op, id, [appointments[id] EXCEPT
                               !.status = IF op = "complete" THEN "completed" ELSE "canceled"])

ManualReminder(q) ==
    \E id \in Appointments :
        /\ "manual" \in Ops /\ appointments[id] # NoRow
        /\ Load(q, "manual", id, appointments[id])

\* The second step: the autoflush before the first query sends the UPDATE (none if
\* no column changes), which holds the row until the request ends; then the
\* reminders are read, those to skip FOR UPDATE.
Changes(q) == request[q].row # request[q].read
Holds(q, id) == request[q].step = "flushed" /\ request[q].id = id /\ Changes(q)
RowFree(q) == Changes(q) => \A u \in Requests : ~Holds(u, request[q].id)

Flush(q, skip, rid, seen, want) ==
    /\ request' = [request EXCEPT ![q].step = "flushed", ![q].skip = skip,
                                  ![q].rid = rid, ![q].seen = seen, ![q].want = want]
    /\ UNCHANGED <<now, lead, appointments, reminders, worker, handed, delivered, history>>

\* The appointment as the session has it, which decides on the reminder. Mutation:
\* as it was loaded.
LoadedRow(q) == request[q].read
SessionRow(q) == request[q].row

\* schedule_for_appointment, for the row of the session, after the reminders in skip
\* were marked: nothing to do, a reminder to insert, or one to set back unless it was sent.
WithReminder(q, skip) ==
    LET id == request[q].id
        row == SessionRow(q)
        due == row.start - lead
        found == Snapshot(id, row.start)
        Now(i) == IF i \in skip THEN Skip(reminders[i]) ELSE reminders[i] IN
    \/ /\ ~Schedulable(row) \/ \E i \in found : Now(i).status = "sent"
       /\ Flush(q, skip, NoId, NoRow, NoRow)
    \/ /\ Schedulable(row) /\ found = {}
       /\ \E i \in ReminderIds : Unused(i)
            /\ Flush(q, skip, i, NoRow, NewReminder(id, "upcoming", row.start, due))
    \/ /\ Schedulable(row)
       /\ \E i \in found : Now(i).status # "sent"
            /\ Flush(q, skip, i, Now(i), Rescheduled(Now(i), due))

\* Mutation of Rescheduling: the reminders of the old start stay.
NotRescheduling(q) == FALSE
Rescheduling(q) == request[q].op = "update" /\ request[q].row.start # request[q].read.start

\* Mutation of FlushScheduled: the change is not sent before the reminders are read.
FlushUnlocked(q) ==
    /\ request[q].step = "loaded" /\ request[q].op \in {"create", "update", "confirm"}
    /\ WithReminder(q, IF Rescheduling(q) THEN PendingOf(request[q].id) ELSE {})

FlushScheduled(q) ==
    /\ request[q].step = "loaded" /\ request[q].op \in {"create", "update", "confirm"} /\ RowFree(q)
    /\ WithReminder(q, IF Rescheduling(q) THEN PendingOf(request[q].id) ELSE {})

\* Mutation of FlushClosed: the reminders are not skipped.
FlushClosedKeeping(q) ==
    /\ request[q].step = "loaded" /\ request[q].op \in {"complete", "cancel"} /\ RowFree(q)
    /\ Flush(q, {}, NoId, NoRow, NoRow)

FlushClosed(q) ==
    /\ request[q].step = "loaded" /\ request[q].op \in {"complete", "cancel"} /\ RowFree(q)
    /\ Flush(q, PendingOf(request[q].id), NoId, NoRow, NoRow)

\* schedule_manual_for_appointment: refused while one is active for this start.
QueryManual(q) ==
    LET id == request[q].id
        row == request[q].row
        r == NewReminder(id, "manual", row.start, now) IN
    /\ request[q].step = "loaded" /\ request[q].op = "manual" /\ Schedulable(row)
    /\ \E i \in ReminderIds : Unused(i) /\ ~Clashes(reminders, i, r) /\ Flush(q, {}, i, NoRow, r)

End(q) == request' = [request EXCEPT ![q] = NoRequest]

\* The commit writes the appointment, the skipped rows and the reminder (once no
\* other request locks it); an index that refuses the reminder rolls all back.
CommitRequest(q) ==
    LET rq == request[q]
        changed == MergeAppointment(rq.row, rq.read, appointments[rq.id])
        skipped == [i \in ReminderIds |-> IF i \in rq.skip THEN Skip(reminders[i])
                                                           ELSE reminders[i]]
        final == IF rq.seen = NoRow THEN rq.want
                 ELSE MergeReminder(rq.want, rq.seen, skipped[rq.rid])
    IN
    /\ rq.step = "flushed" /\ \A u \in Requests \ {q} : rq.rid \notin request[u].skip
    /\ IF rq.want # NoRow /\ Clashes(skipped, rq.rid, final)
       THEN UNCHANGED <<appointments, reminders, mixed>>
       ELSE /\ appointments' = IF Changes(q) THEN [appointments EXCEPT ![rq.id] = changed]
                                             ELSE appointments
            /\ mixed' = IF Changes(q) /\ changed # rq.row THEN mixed \cup {rq.id} ELSE mixed
            /\ reminders' = IF rq.want = NoRow THEN skipped
                            ELSE [skipped EXCEPT ![rq.rid] = final]
    /\ End(q)
    /\ UNCHANGED <<now, lead, worker, handed, delivered, overlap>>

\* An exception or a crash before the commit.
AbortRequest(q) ==
    /\ request[q].step # "closed"
    /\ End(q)
    /\ UNCHANGED <<now, lead, appointments, reminders, worker, handed, delivered, history>>

-----------------------------------------------------------------------------
(* The n8n execution *)

\* ORDER BY scheduled_for, id LIMIT ClaimLimit
Oldest(S) ==
    {i \in S : Cardinality({j \in S :
        \/ reminders[j].scheduled_for < reminders[i].scheduled_for
        \/ reminders[j].scheduled_for = reminders[i].scheduled_for /\ j < i}) < ClaimLimit}

\* The FOR UPDATE of get_due_invalid names no table: it locks, and skips, by the
\* joined appointment too.
InvalidLocked(i) == RowLocked(i) \/ \E q \in Requests : Holds(q, reminders[i].appointment)

\* Mutation of DueInvalid: only reminders still waiting are looked for.
DueInvalidPending ==
    {i \in ReminderIds : /\ Exists(i) /\ reminders[i].status = "pending" /\ ~InvalidLocked(i)
                         /\ reminders[i].scheduled_for <= now
                         /\ ~Schedulable(appointments[reminders[i].appointment])}

\* get_due_invalid, SKIP LOCKED
DueInvalid ==
    {i \in ReminderIds : /\ Active(reminders[i]) /\ ~InvalidLocked(i)
                         /\ reminders[i].scheduled_for <= now
                         /\ ~Schedulable(appointments[reminders[i].appointment])}

\* claim_due of the repository, SKIP LOCKED; NoLease is before every time.
Due ==
    {i \in ReminderIds : /\ Active(reminders[i]) /\ ~RowLocked(i)
                         /\ reminders[i].status = "processing" => reminders[i].locked_until <= now
                         /\ reminders[i].scheduled_for <= now
                         /\ reminders[i].attempts < MaxAttempts
                         /\ Schedulable(appointments[reminders[i].appointment])}

\* Mutation of Claimed: only the first claim counts as an attempt.
ClaimedUncounted(r) ==
    [r EXCEPT !.status = "processing", !.locked_until = now + Lease,
              !.attempts = IF r.status = "pending" THEN @ + 1 ELSE @]

Claimed(r) == [r EXCEPT !.status = "processing", !.locked_until = now + Lease,
                        !.attempts = @ + 1]

\* _mark_terminal_failed: no phone or no WhatsApp instance to send with.
Unsendable(r) == [r EXCEPT !.status = "failed", !.locked_until = NoLease,
                           !.attempts = @ + 1]

\* claim_due, one transaction; which clients and businesses lack a phone or an
\* instance is left open.
Claim(w) ==
    LET invalid == Oldest(DueInvalid)
        batch == Oldest(Due) IN
    /\ worker[w].pc = "idle"
    /\ \E blocked \in SUBSET batch :
        /\ reminders' = [i \in ReminderIds |->
              IF i \in invalid THEN Skip(reminders[i])
              ELSE IF i \in blocked THEN Unsendable(reminders[i])
              ELSE IF i \in batch THEN Claimed(reminders[i])
              ELSE reminders[i]]
        /\ handed' = handed \cup (batch \ blocked)
        /\ worker' = IF batch = blocked THEN worker
                     ELSE [worker EXCEPT ![w].pc = "send", ![w].todo = batch \ blocked]
    /\ UNCHANGED <<now, lead, appointments, request, delivered, history>>

\* Mutation of Route: both outputs of the send node lead to the success branch.
RouteToSent(w, i, outcome) == [worker[w] EXCEPT !.todo = @ \ {i}, !.ok = @ \cup {i}]

\* The outputs of the send node.
Route(w, i, outcome) ==
    IF outcome = "ok" THEN [worker[w] EXCEPT !.todo = @ \ {i}, !.ok = @ \cup {i}]
                      ELSE [worker[w] EXCEPT !.todo = @ \ {i}, !.bad = @ \cup {i}]

\* An item is sent, with retries: a try whose answer is lost or late may have
\* reached the client, so both outcomes can bring several messages.
Send(w) ==
    \E i \in worker[w].todo, outcome \in Outcomes, messages \in 0..SendTries :
        /\ worker[w].pc = "send"
        /\ outcome = "ok" => messages > 0
        /\ worker' = [worker EXCEPT ![w] =
              [Route(w, i, outcome) EXCEPT !.pc = IF worker[w].todo = {i} THEN "report"
                                                                         ELSE "send"]]
        /\ delivered' = [delivered EXCEPT ![i] = IF @ > Enough THEN @ ELSE @ + messages]
        /\ UNCHANGED <<now, lead, appointments, reminders, request, handed, history>>

Work(w, x) ==
    /\ worker' = [worker EXCEPT ![w] = IF x.todo \cup x.ok \cup x.bad = {} THEN NoWork ELSE x]
    /\ UNCHANGED <<now, lead, appointments, request, handed, delivered, history>>

Dropped(w, i) == [worker[w] EXCEPT !.ok = @ \ {i}, !.bad = @ \ {i},
                                   !.item = NoId, !.seen = NoRow]

Unread(w) == [worker[w] EXCEPT !.item = NoId, !.seen = NoRow]

Reading(w, i) == [worker[w] EXCEPT !.item = i, !.seen = reminders[i]]

Reporting(w) == worker[w].pc = "report" /\ worker[w].item = NoId

\* POST .../sent up to its checks: already sent is fine; a reminder that is not
\* processing is a 409, which ends the execution: the node's other items may
\* still arrive, the failures are not reported.
ReadSent(w) ==
    \E i \in worker[w].ok :
        /\ Reporting(w)
        /\ CASE reminders[i].status = "sent" -> Work(w, Dropped(w, i))
             [] reminders[i].status = "processing" -> Work(w, Reading(w, i))
             [] OTHER -> Work(w, [Dropped(w, i) EXCEPT !.bad = {}])
        /\ UNCHANGED reminders

\* Mutation of ReadFailed: a reminder that was sent is not spared.
ReadFailedAlways(w) ==
    \E i \in worker[w].bad :
        /\ Reporting(w) /\ worker[w].ok = {}
        /\ Work(w, Reading(w, i))
        /\ UNCHANGED reminders

\* POST .../failed up to its check; the failures are reported after the successes.
ReadFailed(w) ==
    \E i \in worker[w].bad :
        /\ Reporting(w) /\ worker[w].ok = {}
        /\ Work(w, IF reminders[i].status = "sent" THEN Dropped(w, i) ELSE Reading(w, i))
        /\ UNCHANGED reminders

\* mark_sent and mark_failed write what they decided on the row they read.
Marked(w) ==
    LET seen == worker[w].seen IN
    [seen EXCEPT !.locked_until = NoLease,
                 !.status = IF worker[w].item \in worker[w].ok THEN "sent"
                            ELSE IF seen.attempts >= MaxAttempts THEN "failed"
                            ELSE "pending"]

\* A call whose answer is lost is made again.
CommitReport(w, answered) ==
    LET i == worker[w].item
        final == MergeReminder(Marked(w), worker[w].seen, reminders[i]) IN
    /\ i # NoId /\ ~RowLocked(i)
    /\ IF Clashes(reminders, i, final)
       THEN Work(w, NoWork) /\ UNCHANGED reminders
       ELSE /\ Work(w, IF answered THEN Dropped(w, i) ELSE Unread(w))
            /\ reminders' = [reminders EXCEPT ![i] = final]

\* n8n restarts, or a call fails after its retries: the execution is gone.
Crash(w) == worker[w].pc # "idle" /\ Work(w, NoWork) /\ UNCHANGED reminders

-----------------------------------------------------------------------------

Tick ==
    /\ now < Horizon
    /\ now' = now + 1
    /\ UNCHANGED <<lead, appointments, reminders, request, worker, handed, delivered, history>>

Init ==
    /\ now = 0 /\ lead \in Leads
    /\ appointments = [id \in Appointments |-> NoRow]
    /\ reminders = [i \in ReminderIds |-> NoRow]
    /\ request = [q \in Requests |-> NoRequest]
    /\ worker = [w \in Workers |-> NoWork]
    /\ handed = {}
    /\ delivered = [i \in ReminderIds |-> 0]
    /\ overlap = FALSE /\ mixed = {}

StartRequest(q) ==
    \/ CreateAppointment(q) \/ UpdateAppointment(q) \/ ConfirmAppointment(q)
    \/ CloseAppointment(q) \/ ManualReminder(q)

FlushRequest(q) == FlushScheduled(q) \/ FlushClosed(q) \/ QueryManual(q)

Read(w) == ReadSent(w) \/ ReadFailed(w)

Next ==
    \/ \E q \in Requests : StartRequest(q) \/ FlushRequest(q) \/ CommitRequest(q) \/ AbortRequest(q)
    \/ \E w \in Workers : Claim(w) \/ Send(w) \/ Read(w) \/ Crash(w)
    \/ \E w \in Workers, answered \in BOOLEAN : CommitReport(w, answered)
    \/ Tick

Spec == Init /\ [][Next]_vars

\* A claim at a moment when no request holds a row.
QuietClaim(w) == Claim(w) /\ \A q \in Requests : request[q].step # "flushed"

\* The clock runs; a request lasts seconds and claims come every hour, so some
\* of them meet no request; an execution goes on, a report that waits for a
\* row lock gets it, and answers are not lost for ever (n8n tries three times).
\* Nothing says that a send or a request succeeds or that an execution is not
\* killed.
FairSpec ==
    /\ Spec
    /\ WF_vars(Tick)
    /\ \A q \in Requests : WF_vars(FlushRequest(q) \/ CommitRequest(q) \/ AbortRequest(q))
    /\ \A w \in Workers : /\ SF_vars(QuietClaim(w)) /\ WF_vars(Send(w))
                         /\ SF_vars(Read(w)) /\ SF_vars(CommitReport(w, TRUE))

-----------------------------------------------------------------------------
(* Properties *)

\* A reminder recorded as sent did reach the client, whatever leases expired and
\* reports crossed on the way.
SentWasDelivered ==
    \A i \in ReminderIds :
        Exists(i) /\ reminders[i].status = "sent" => delivered[i] > 0

\* Executions that still have reminder i to send.
Holders(i) == {w \in Workers : i \in worker[w].todo}

\* Messages delivered and those the executions may still send are at most SendTries
\* for each attempt.
WithinAttempts(i) ==
    IF Exists(i)
    THEN delivered[i] + SendTries * Cardinality(Holders(i)) <= SendTries * reminders[i].attempts
    ELSE delivered[i] = 0

\* A request that found the reminder failed or skipped sets it back, its attempts too.
StartsOver(i) ==
    /\ reminders'[i] # reminders[i]
    /\ \E q \in Requests : /\ request[q].step = "flushed" /\ request'[q].step = "closed"
                           /\ request[q].rid = i /\ request[q].seen # NoRow
                           /\ request[q].seen.status \in {"failed", "skipped"}

\* Every message a client gets of a reminder is counted by its attempts (which its
\* type keeps within MAX_ATTEMPTS), however the executions overlap, lose their
\* lease, fail, report twice or vanish: only a request that schedules a failed or
\* skipped reminder anew begins a new count.
DeliveriesCounted ==
    /\ \A i \in ReminderIds : WithinAttempts(i)
    /\ [][\A i \in ReminderIds : WithinAttempts(i) /\ ~StartsOver(i) => WithinAttempts(i)']_vars

\* A confirmed appointment to come has a reminder for its start, waiting, sent or
\* given up, and keeps it while requests overlap that loaded it before others
\* committed: unless columns of two of them were mixed in its row.
StartsHaveReminders ==
    \A id \in Appointments \ mixed :
        Schedulable(appointments[id]) => Snapshot(id, appointments[id].start) # {}

\* A request that inserts the automatic reminder of its appointment.
FreshWant(q) ==
    request[q].want # NoRow /\ request[q].seen = NoRow /\ request[q].want.type = "upcoming"

\* As long as that has not happened to an appointment, the commit of its requests
\* never fails on the unique index of its automatic reminder: the lookup before it
\* finds every reminder of that start, or no other request is about to insert it.
ScheduleNeverClashes ==
    \A q \in Requests : FreshWant(q) /\ request[q].id \notin mixed =>
        ~Clashes(reminders, request[q].rid, request[q].want)

\* With requests one after the other: an automatic reminder that waits and that
\* no claim ever handed out is for the present start of a confirmed, open
\* appointment.  Rescheduling and closing leave none behind, whatever the
\* executions do meanwhile.
WaitingIsCurrent ==
    \A i \in ReminderIds \ handed :
        Exists(i) /\ reminders[i].type = "upcoming" /\ reminders[i].status = "pending" =>
            LET a == appointments[reminders[i].appointment] IN
            a.status = "scheduled" /\ ~a.confirmation_pending /\ a.start = reminders[i].start

\* As long as requests come one after the other no reminder waits for a canceled
\* appointment or a start that is no longer its own, while overlapping executions
\* report late.
WaitingStaysCurrent == ~overlap => WaitingIsCurrent

\* A reminder taken back from "sent" is the doing of a request or report that
\* read it before it was sent; whoever reads it as sent leaves it alone.
SentUndoneOnlyByStaleRead ==
    [][\A i \in ReminderIds :
         Exists(i) /\ reminders[i].status = "sent" /\ reminders'[i].status # "sent"
           => \/ \E q \in Requests : request[q].rid = i /\ request[q].seen.status # "sent"
              \/ \E w \in Workers : worker[w].item = i /\ worker[w].seen.status # "sent"]_vars

\* No reminder waits or is being sent for ever: it ends sent, failed or skipped,
\* at the latest when its appointment has begun.
EventuallySettled == \A i \in ReminderIds : []<>~Active(reminders[i])
=============================================================================
